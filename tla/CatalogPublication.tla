------------------------- MODULE CatalogPublication -------------------------
(***************************************************************************)
(* What the catalog promises of a stream: it shows nothing, or one of the  *)
(* states (live or idle, with a feed) that the stream's publisher wished   *)
(* for, as a whole.  Which one, and when, is left to the implementation.   *)
(***************************************************************************)
CONSTANTS Stream, State
VARIABLES wished, shown

vars == <<wished, shown>>

Nothing == <<>>

Init == wished = [s \in Stream |-> {}] /\ shown = [s \in Stream |-> Nothing]

\* The publisher wishes for one more state, of some streams at a time.
Wish == /\ wished' \in [Stream -> SUBSET State]
        /\ \A s \in Stream : wished[s] \subseteq wished'[s]
        /\ UNCHANGED shown

Show(s) == /\ \E st \in wished[s] : shown' = [shown EXCEPT ![s] = st]
           /\ UNCHANGED wished

Hide(s) == /\ shown' = [shown EXCEPT ![s] = Nothing]
           /\ UNCHANGED wished

Next == Wish \/ \E s \in Stream : Show(s) \/ Hide(s)

Spec == Init /\ [][Next]_vars
=============================================================================
