-------------------------- MODULE MCResellerAccounts --------------------------
EXTENDS ResellerAccounts, TLC

\* Admins operate every account, a reseller its own.
MCScope == [p \in Principal |-> IF p \in AdminTier THEN Principal ELSE {p}]

MCCredits == [p \in Reseller |-> 2]

\* Requests in flight are interchangeable.
MCSymmetry == Permutations(Client)
=============================================================================
