------------------------------ MODULE MCInbound ------------------------------
(* Instances of Inbound for TLC. *)
EXTENDS Inbound, TLC

\* Nothing in Inbound tells two readable ids apart.
Symmetry == Permutations(Ids \ Unreadable)
=============================================================================
