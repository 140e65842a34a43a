------------------------------- MODULE AckPump -------------------------------
(***************************************************************************)
(* The debouncer of cumulative recv_ack frames: struct AckPump of          *)
(* transport/relay.rs.  The transport task owns one pump per relay session *)
(* and notes in it every sequence number it has persisted; an ack is due   *)
(* when ACK_BATCH_THRESHOLD of them are pending or when 50 ms have passed  *)
(* since the last one.                                                     *)
(*                                                                         *)
(* Time is abstracted: whether the 50 ms have passed is a Boolean the      *)
(* caller chooses.  `armed' is last_persist_at.is_some().  The field       *)
(* last_acked_seq of the struct is left out: commit() copies pending_max   *)
(* into it and returns it, and nothing else reads it.                      *)
(***************************************************************************)
EXTENDS Naturals

CONSTANT ACK_BATCH_THRESHOLD  \* 32 in the code; small in the model

ASSUME ThresholdAssumption == ACK_BATCH_THRESHOLD \in Nat \ {0}

PumpType == [pendingMax : Nat, pendingCount : Nat, armed : BOOLEAN]

\* Mutant of NewPump: the watermark taken for the next number to ack.
NewPumpOneLow(lastAckedSeq) ==
  [pendingMax |-> lastAckedSeq - 1, pendingCount |-> 0, armed |-> FALSE]

\* AckPump::new
NewPump(lastAckedSeq) ==
  [pendingMax |-> lastAckedSeq, pendingCount |-> 0, armed |-> FALSE]

\* Mutant of NotePersisted: an exclusive instead of an inclusive bound.
NotePersistedExclusive(p, seq) ==
  [pendingMax   |-> IF seq >= p.pendingMax THEN seq + 1 ELSE p.pendingMax,
   pendingCount |-> p.pendingCount + 1,
   armed        |-> TRUE]

\* AckPump::note_persisted
NotePersisted(p, seq) ==
  [pendingMax   |-> IF seq > p.pendingMax THEN seq ELSE p.pendingMax,
   pendingCount |-> p.pendingCount + 1,
   armed        |-> TRUE]

\* AckPump::try_flush answers Some(..); elapsed: the debounce has expired.
WantsFlush(p, elapsed) ==
  /\ p.pendingCount # 0
  /\ p.pendingCount >= ACK_BATCH_THRESHOLD \/ (p.armed /\ elapsed)

\* AckPump::flush_now answers Some(..)
HasPending(p) == p.pendingCount # 0

\* AckPump::commit: the pump afterwards; the value acked is p.pendingMax.
Commit(p) == [p EXCEPT !.pendingCount = 0, !.armed = FALSE]

\* AckPump::until_flush answers Some(..): the select of drive_session has a
\* debounce timer running.
TimerRunning(p) == p.armed
=============================================================================
