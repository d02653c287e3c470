-------------------------- MODULE MCPanelAccounts --------------------------
EXTENDS PanelAccounts
CONSTANTS d1, d2, d3

\* A record of the current build, and two an older build left behind, each
\* with two devices under a cap of one: one entry lapses on the first day and
\* the other later, or neither lapses.
Fresh == [auth |-> 1, status |-> "active", tv |-> 1, max |-> 1,
          devices |-> NoDevices, grants |-> {}]
Old   == [Fresh EXCEPT !.devices =
            [d \in {d1, d2} |-> [tv |-> 1, issued |-> 0, exp |-> IF d = d1 THEN 1 ELSE 2]]]
Crowded == [Fresh EXCEPT !.devices =
              [d \in {d1, d2} |-> [tv |-> 1, issued |-> 0, exp |-> 9]]]
MCLegacyUsers == {Fresh, Old}
MCCrowded     == {Old, Crowded}
=============================================================================
