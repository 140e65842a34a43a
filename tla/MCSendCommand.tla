---------------------------- MODULE MCSendCommand ----------------------------
(* The instance of SendCommand for TLC; its values are in SendCommand.cfg. *)
EXTENDS SendCommand
CONSTANTS m, o1
=============================================================================
