------------------------ MODULE MCStreamRegistration ------------------------
EXTENDS StreamRegistration, TLC
CONSTANTS c1, c2

\* The connections are alike.
MCSymmetry == Permutations(Conn)
=============================================================================
