------------------------------ MODULE MCScreen ------------------------------
\* Module Screen for TLC.
EXTENDS Screen, TLC

CONSTANTS m1, m2

\* The messages are interchangeable.
Symmetry == Permutations(Msgs)
=============================================================================
