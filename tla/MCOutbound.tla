----------------------------- MODULE MCOutbound -----------------------------
\* Module Outbound for TLC.
EXTENDS Outbound, TLC

CONSTANTS m1, m2

\* The messages are interchangeable.
Symmetry == Permutations(Msgs)
=============================================================================
