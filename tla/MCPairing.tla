------------------------------ MODULE MCPairing ------------------------------
(* The instance of Pairing for TLC; its numbers are in Pairing.cfg. *)
EXTENDS Pairing
=============================================================================
