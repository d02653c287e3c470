---------------------------- MODULE MCCreditLedger ----------------------------
EXTENDS CreditLedger, TLC

\* The root admin, a super reseller under it and a reseller under that one.
MCParent == [p \in Principal |-> IF p = "r" THEN "s" ELSE IF p = "s" THEN "root" ELSE "none"]

\* Every event tops up the last of the hierarchy present.
MCEventTo == [e \in Event |-> IF "r" \in Principal THEN "r" ELSE "s"]

\* Requests in flight are interchangeable.
MCSymmetry == Permutations(Client)
=============================================================================
