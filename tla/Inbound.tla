------------------------------- MODULE Inbound -------------------------------
(***************************************************************************)
(* The inbound half of the relay transport: how a message the relay has    *)
(* numbered reaches the consumer, and when the relay is told to forget it. *)
(*                                                                         *)
(* Actors, each with its own steps:                                        *)
(*   - the relay (external): keeps the group's numbered log, pushes over   *)
(*     the live connection everything after the device's last ack, in      *)
(*     order, and forgets what a recv_ack or a hello covers;               *)
(*   - the reader task of the relay session (spawn_reader);                *)
(*   - the transport task (run_event_loop, drive_session), which persists, *)
(*     acks and deduplicates;                                              *)
(*   - the consumer, which takes what the transport forwarded;             *)
(*   - the process, which may be ended by the user or crash at any point   *)
(*     and be started again.  Only the store survives it.                  *)
(*                                                                         *)
(* A push and the reader's handling of the frame are one step: a frame     *)
(* lost with its connection is one that was never pushed, because the      *)
(* relay pushes again from the last ack on the next connection.  The       *)
(* Disconnected event is not represented: it is always a session's last    *)
(* event and next_event() = None, which follows it, has the same effect.   *)
(***************************************************************************)
EXTENDS AckPump, Sequences

CONSTANTS Ids,            \* inner message ids
          Unreadable,     \* ids whose frame handle_text_frame rejects
          MaxSeq,         \* bound: numbered messages in the log
          MaxUnnumbered,  \* bound: frames pushed without a seq
          MaxDrops,       \* bound: lost connections
          MaxEnds,        \* bound: crashes and quits of the process
          MaxPersistFaults,   \* bound: failures of try_persist_received
          MaxWatermarkFaults  \* bound: failures of set_last_acked_seq

ASSUME BoundsAssumption ==
  /\ Unreadable \subseteq Ids
  /\ {MaxSeq, MaxUnnumbered, MaxDrops, MaxEnds,
      MaxPersistFaults, MaxWatermarkFaults} \subseteq Nat

VARIABLES
  \* The relay and the network (external).
  log,               \* log[n]: the inner id of the message numbered n
  relayAcked,        \* what the relay has been told to forget
  cursor,            \* the next number to push on the live connection
  acks,              \* recv_acks queued in the writer or on the network
  link,              \* the session's TCP connection is up
  \* RelaySession
  reader,            \* the reader task is running
  events,            \* SessionEvent::InnerMessage not yet received
  ack_aware,
  \* The transport task
  phase,             \* "down" (no process), "drive" or "backoff"
  pump,
  seen_inner_ids,
  \* MessageStore: the only state that survives the process
  received_messages, \* ids in table received_messages
  last_acked_seq,    \* table seq_watermark
  \* The consumer channel of this process: everything forwarded, and how
  \* much of it the consumer has taken.
  forwarded,
  taken,
  \* History: numbers whose insert failed, and how often the consumers of all
  \* processes took each id.
  skipped,
  processed,
  \* How much of each bound is used.
  used

relayVars    == <<log, relayAcked, cursor, acks, link>>
sessionVars  == <<reader, events, ack_aware>>
taskVars     == <<phase, pump, seen_inner_ids>>
storeVars    == <<received_messages, last_acked_seq>>
consumerVars == <<forwarded, taken, processed>>
vars == <<relayVars, sessionVars, taskVars, storeVars, consumerVars,
          skipped, used>>

\* SessionEvent::InnerMessage { inner, seq }; seq 0 stands for None.
Unnumbered == 0
Event == [seq : Nat, id : Ids]

Usage == [unnumbered : Nat, drops : Nat, ends : Nat,
          persist : Nat, watermark : Nat]

Larger(m, n) == IF m > n THEN m ELSE n

Init ==
  /\ log = <<>> /\ relayAcked = 0 /\ cursor = 1 /\ acks = {} /\ link = FALSE
  /\ reader = FALSE /\ events = <<>> /\ ack_aware = FALSE
  /\ phase = "down" /\ pump = NewPump(0) /\ seen_inner_ids = {}
  /\ received_messages = {} /\ last_acked_seq = 0
  /\ forwarded = <<>> /\ taken = 0 /\ processed = [id \in Ids |-> 0]
  /\ skipped = {}
  /\ used = [unnumbered |-> 0, drops |-> 0, ends |-> 0,
             persist |-> 0, watermark |-> 0]

-----------------------------------------------------------------------------
(* The relay and the reader task *)

\* A peer's message reaches the relay.  An id may come again under a new
\* number: a sender that saw no relay_recv_ack sends it again, and a streamed
\* reply of an old sender uses one id for all its frames.
PeerPosts(id) ==
  /\ Len(log) < MaxSeq
  /\ log' = Append(log, id)
  /\ UNCHANGED <<relayAcked, cursor, acks, link, sessionVars, taskVars,
                 storeVars, consumerVars, skipped, used>>

\* The relay pushes the next number; the reader decodes the frame and queues
\* the event.  ack_aware is set before the payload is decrypted.
RelayPushes ==
  /\ link /\ reader
  /\ cursor \in DOMAIN log
  /\ log[cursor] \notin Unreadable
  /\ events' = Append(events, [seq |-> cursor, id |-> log[cursor]])
  /\ ack_aware' = TRUE
  /\ cursor' = cursor + 1
  /\ UNCHANGED <<log, relayAcked, acks, link, reader, taskVars, storeVars,
                 consumerVars, skipped, used>>

\* A frame that does not decrypt, or whose inner message does not parse, ends
\* the reader; the connection stays up until the transport replaces it.
ReaderRejects ==
  /\ link /\ reader
  /\ cursor \in DOMAIN log
  /\ log[cursor] \in Unreadable
  /\ reader' = FALSE
  /\ ack_aware' = TRUE
  /\ cursor' = cursor + 1
  /\ UNCHANGED <<log, relayAcked, acks, link, events, taskVars, storeVars,
                 consumerVars, skipped, used>>

\* A relay that does not number messages.
RelayPushesUnnumbered(id) ==
  /\ link /\ reader
  /\ id \notin Unreadable
  /\ used.unnumbered < MaxUnnumbered
  /\ used' = [used EXCEPT !.unnumbered = @ + 1]
  /\ events' = Append(events, [seq |-> Unnumbered, id |-> id])
  /\ UNCHANGED <<relayVars, reader, ack_aware, taskVars, storeVars,
                 consumerVars, skipped>>

\* recv_ack frames of an earlier connection may still be under way, so they
\* arrive in any order.
RelayTakesAck(upTo) ==
  /\ upTo \in acks
  /\ acks' = acks \ {upTo}
  /\ relayAcked' = Larger(relayAcked, upTo)
  /\ UNCHANGED <<log, cursor, link, sessionVars, taskVars, storeVars,
                 consumerVars, skipped, used>>

\* The connection is lost, and with it any of the acks under way; the reader
\* sees an error, a close frame or the end of the stream.
LinkDrops ==
  /\ link
  /\ used.drops < MaxDrops
  /\ used' = [used EXCEPT !.drops = @ + 1]
  /\ link' = FALSE
  /\ reader' = FALSE
  /\ acks' \in SUBSET acks
  /\ UNCHANGED <<log, relayAcked, cursor, events, ack_aware, taskVars,
                 storeVars, consumerVars, skipped>>

-----------------------------------------------------------------------------
(* The transport task *)

\* Mutants of OpenSession.  Hello asks for the number after the next one:
OpenSessionOneAhead ==
  /\ relayAcked' = Larger(relayAcked, last_acked_seq)
  /\ cursor' = Larger(relayAcked, last_acked_seq) + 2
  /\ link' = TRUE /\ reader' = TRUE /\ events' = <<>> /\ ack_aware' = FALSE
  /\ pump' = NewPump(last_acked_seq)
  /\ UNCHANGED <<log, acks>>

\* The pump outlives its session:
OpenSessionKeepsPump ==
  /\ relayAcked' = Larger(relayAcked, last_acked_seq)
  /\ cursor' = Larger(relayAcked, last_acked_seq) + 1
  /\ link' = TRUE /\ reader' = TRUE /\ events' = <<>> /\ ack_aware' = FALSE
  /\ UNCHANGED <<log, acks, pump>>

\* connect_initial and connect_session: hello carries the store's watermark,
\* which the relay takes as an ack; the session and the pump are new.
OpenSession ==
  /\ relayAcked' = Larger(relayAcked, last_acked_seq)
  /\ cursor' = Larger(relayAcked, last_acked_seq) + 1
  /\ link' = TRUE
  /\ reader' = TRUE
  /\ events' = <<>>
  /\ ack_aware' = FALSE
  /\ pump' = NewPump(last_acked_seq)
  /\ UNCHANGED <<log, acks>>

\* RelayMessageTransport::start in a fresh process.
Start ==
  /\ phase = "down"
  /\ phase' = "drive"
  /\ OpenSession
  /\ UNCHANGED <<seen_inner_ids, storeVars, consumerVars, skipped, used>>

\* send_recv_ack: queued to the writer, lost if the connection is.
SendRecvAck(upTo) ==
  acks' = IF link THEN acks \cup {upTo} ELSE acks

\* MessageStore::set_last_acked_seq
SetLastAckedSeq(seq) == last_acked_seq' = Larger(last_acked_seq, seq)

\* Mutant of CheckpointAndAck: a redriven message that is already on disk is
\* not noted in the pump either.
CheckpointNewlyOnly(seq, newly, stored, elapsed) ==
  LET noted == IF newly THEN NotePersisted(pump, seq) ELSE pump IN
  /\ IF newly /\ stored
       THEN SetLastAckedSeq(seq)
       ELSE UNCHANGED last_acked_seq
  /\ IF ack_aware /\ WantsFlush(noted, elapsed)
       THEN pump' = Commit(noted) /\ SendRecvAck(noted.pendingMax)
       ELSE pump' = noted /\ UNCHANGED acks

\* What InnerMessage { seq: Some(seq) } does to watermark, pump and acks once
\* the message is on disk.  newly: it was not there before.  stored: the
\* watermark update succeeds (its error is ignored).  elapsed: 50 ms pass
\* between note_persisted and try_flush.
CheckpointAndAck(seq, newly, stored, elapsed) ==
  LET noted == NotePersisted(pump, seq) IN
  /\ IF newly /\ stored
       THEN SetLastAckedSeq(seq)
       ELSE UNCHANGED last_acked_seq
  /\ IF ack_aware /\ WantsFlush(noted, elapsed)
       THEN pump' = Commit(noted) /\ SendRecvAck(noted.pendingMax)
       ELSE pump' = noted /\ UNCHANGED acks

\* Mutant of Forward: no dedup.
ForwardAlways(event) ==
  /\ seen_inner_ids' = seen_inner_ids \cup {event.id}
  /\ forwarded' = Append(forwarded, event)

\* Dedup: only forward an inner message to the consumer once.
Forward(event) ==
  IF event.id \in seen_inner_ids
    THEN UNCHANGED <<seen_inner_ids, forwarded>>
    ELSE /\ seen_inner_ids' = seen_inner_ids \cup {event.id}
         /\ forwarded' = Append(forwarded, event)

\* The InnerMessage arm of drive_session, the insert having succeeded.
HandleInner(stored, elapsed) ==
  /\ phase = "drive"
  /\ events # <<>>
  /\ LET event == Head(events)
         newly == event.id \notin received_messages
     IN
     /\ received_messages' = received_messages \cup {event.id}
     /\ IF event.seq = Unnumbered
          THEN stored /\ ~elapsed /\ UNCHANGED <<last_acked_seq, pump, acks>>
          ELSE CheckpointAndAck(event.seq, newly, stored, elapsed)
     /\ ~stored => newly
     /\ Forward(event)
  /\ stored \/ used.watermark < MaxWatermarkFaults
  /\ used' = IF stored THEN used ELSE [used EXCEPT !.watermark = @ + 1]
  /\ events' = Tail(events)
  /\ UNCHANGED <<log, relayAcked, cursor, link, reader, ack_aware, phase,
                 taken, processed, skipped>>

\* The same arm when try_persist_received fails: `continue'.
HandleInnerPersistFails ==
  /\ phase = "drive"
  /\ events # <<>>
  /\ used.persist < MaxPersistFaults
  /\ used' = [used EXCEPT !.persist = @ + 1]
  /\ skipped' = skipped \cup ({Head(events).seq} \ {Unnumbered})
  /\ events' = Tail(events)
  /\ UNCHANGED <<relayVars, reader, ack_aware, taskVars, storeVars,
                 consumerVars>>

\* The debounce timer of the select fires: flush_pump_if_due.
FlushPumpIfDue ==
  /\ phase = "drive"
  /\ TimerRunning(pump)
  /\ WantsFlush(pump, TRUE)
  /\ pump' = Commit(pump)
  /\ IF ack_aware THEN SendRecvAck(pump.pendingMax) ELSE UNCHANGED acks
  /\ UNCHANGED <<log, relayAcked, cursor, link, sessionVars, phase,
                 seen_inner_ids, storeVars, consumerVars, skipped, used>>

\* The session's last event has been received: DriveOutcome::Reconnect.
SessionEnds ==
  /\ phase = "drive"
  /\ ~reader /\ events = <<>>
  /\ phase' = "backoff"
  /\ UNCHANGED <<relayVars, sessionVars, pump, seen_inner_ids, storeVars,
                 consumerVars, skipped, used>>

Reconnect ==
  /\ phase = "backoff"
  /\ phase' = "drive"
  /\ OpenSession
  /\ UNCHANGED <<seen_inner_ids, storeVars, consumerVars, skipped, used>>

\* The loop goes round with the dead session and its pump.
ReconnectFails ==
  /\ phase = "backoff"
  /\ phase' = "drive"
  /\ UNCHANGED <<relayVars, sessionVars, pump, seen_inner_ids, storeVars,
                 consumerVars, skipped, used>>

-----------------------------------------------------------------------------
(* The consumer and the process *)

ConsumerTakes ==
  /\ phase # "down"
  /\ taken < Len(forwarded)
  /\ taken' = taken + 1
  /\ processed' = [processed EXCEPT ![forwarded[taken + 1].id] = @ + 1]
  /\ UNCHANGED <<relayVars, sessionVars, taskVars, storeVars, forwarded,
                 skipped, used>>

\* Everything but the store is gone; pending: an ack queued at the last moment.
ProcessEnds(pending) ==
  /\ used.ends < MaxEnds
  /\ used' = [used EXCEPT !.ends = @ + 1]
  /\ phase' = "down"
  /\ link' = FALSE
  /\ reader' = FALSE
  /\ events' = <<>>
  /\ ack_aware' = FALSE
  /\ pump' = NewPump(0)
  /\ seen_inner_ids' = {}
  /\ forwarded' = <<>>
  /\ taken' = 0
  /\ acks' \in SUBSET (acks \cup pending)
  /\ UNCHANGED <<log, relayAcked, cursor, last_acked_seq, processed, skipped>>

Crash ==
  /\ phase # "down"
  /\ ProcessEnds({})
  /\ UNCHANGED received_messages

\* A crash inside HandleInner, between try_persist_received and
\* set_last_acked_seq, which are two transactions.
CrashAfterPersist ==
  /\ phase = "drive"
  /\ events # <<>>
  /\ received_messages' = received_messages \cup {Head(events).id}
  /\ ProcessEnds({})

\* TransportCommand::Disconnect, which the consumer sends as it quits: the
\* final flush of run_event_loop, whose frame the detached writer may or may
\* not get out before the process exits.
Disconnect ==
  /\ phase = "drive"
  /\ ProcessEnds(IF HasPending(pump) /\ ack_aware /\ link
                   THEN {pump.pendingMax} ELSE {})
  /\ UNCHANGED received_messages

Next ==
  \/ \E id \in Ids : PeerPosts(id) \/ RelayPushesUnnumbered(id)
  \/ RelayPushes
  \/ ReaderRejects
  \/ \E upTo \in acks : RelayTakesAck(upTo)
  \/ LinkDrops
  \/ Start
  \/ \E stored, elapsed \in BOOLEAN : HandleInner(stored, elapsed)
  \/ HandleInnerPersistFails
  \/ FlushPumpIfDue
  \/ SessionEnds
  \/ Reconnect
  \/ ReconnectFails
  \/ ConsumerTakes
  \/ Crash
  \/ CrashAfterPersist
  \/ Disconnect

Spec == Init /\ [][Next]_vars

\* Tokio polls every ready task and select branch; the relay pushes and reads
\* while the connection lasts; the user starts the program again.  Connecting
\* is tried forever, and the relay is assumed not to be out of reach forever.
Fairness ==
  /\ WF_vars(RelayPushes)
  /\ WF_vars(ReaderRejects)
  /\ WF_vars(\E upTo \in acks : RelayTakesAck(upTo))
  /\ WF_vars(\E stored, elapsed \in BOOLEAN : HandleInner(stored, elapsed))
  /\ WF_vars(FlushPumpIfDue)
  /\ WF_vars(SessionEnds)
  /\ WF_vars(Start)
  /\ SF_vars(Reconnect)
  /\ WF_vars(ConsumerTakes)

FairSpec == Spec /\ Fairness

-----------------------------------------------------------------------------
(* Properties *)

FlagsOK == link \in BOOLEAN /\ reader \in BOOLEAN /\ ack_aware \in BOOLEAN

DataOK ==
  /\ log \in Seq(Ids)
  /\ relayAcked \in Nat /\ cursor \in Nat \ {0} /\ acks \subseteq Nat
  /\ events \in Seq(Event)
  /\ phase \in {"down", "drive", "backoff"}
  /\ pump \in PumpType
  /\ seen_inner_ids \subseteq Ids
  /\ received_messages \subseteq Ids
  /\ last_acked_seq \in Nat
  /\ forwarded \in Seq(Event)
  /\ taken \in 0 .. Len(forwarded)
  /\ processed \in [Ids -> Nat]
  /\ skipped \subseteq Nat
  /\ used \in Usage

\* The type invariant, its Boolean part apart.
TypeOK == FlagsOK /\ DataOK

\* Message n is on disk, or the store reported that it could not write it.
Durable(n) == n \in DOMAIN log /\ (log[n] \in received_messages \/ n \in skipped)

DurableUpTo(n) == \A m \in 1 .. n : Durable(m)

\* The device never tells the relay to forget a message it does not have: every
\* number at or below a cumulative ack (in flight or taken by the relay) or at
\* or below the watermark the next hello will carry is on disk.  Acks are
\* batched, redriven, raced by reconnects and cut by crashes; the only hole is
\* an insert that failed (drive_session's `continue' then leaves the number to
\* be covered by the next message's ack).
AckedIsDurable ==
  /\ DurableUpTo(relayAcked)
  /\ DurableUpTo(last_acked_seq)
  /\ \A upTo \in acks : DurableUpTo(upTo)

\* A session passes no number over: whatever precedes a queued event, or the
\* number the relay pushes next, is on disk or queued before it.
QueuedBefore(m, i) == \E j \in 1 .. i - 1 : events[j].seq = m

QueueInOrder ==
  \A i \in DOMAIN events : events[i].seq # Unnumbered =>
    /\ events[i].seq \in DOMAIN log
    /\ events[i].id = log[events[i].seq]
    /\ \A m \in 1 .. events[i].seq - 1 : Durable(m) \/ QueuedBefore(m, i)

CursorInOrder ==
  reader => \A m \in 1 .. cursor - 1 :
              Durable(m) \/ QueuedBefore(m, Len(events) + 1)

NothingPassedOver ==
  QueueInOrder /\ CursorInOrder /\ DurableUpTo(pump.pendingMax)

\* Both flushes commit the pump before, or whatever, ack_aware says; a batch is
\* never thrown away by that because the pump is replaced with the session
\* whose ack_aware it goes with.
BatchOnlyWhenAckAware == pump.pendingCount > 0 => ack_aware

\* The detailed transport, with its sessions, batches, redriven messages and
\* restarts, keeps the promise of Mailbox: in the relay's order, at most once in
\* the life of a process, on disk before it is forgotten.
MB == INSTANCE Mailbox
        WITH safe <- received_messages, lost <- skipped, handed <- forwarded,
             forgotten <- relayAcked

MailboxSpec == MB!Spec

\* Every numbered message is eventually acked, whatever connections, processes
\* and watermark updates fail in between: a redriven message that is already on
\* disk is acked like a new one.
EventuallyAcked ==
  \A n \in 1 .. MaxSeq : n \in DOMAIN log ~> relayAcked >= n

\* The relay will push message n again: no ack and no hello covers it.
Held(n) ==
  n \in DOMAIN log /\ \A upTo \in acks \cup {relayAcked, last_acked_seq} : upTo < n

\* While the process lives (the k-th, counted by its ends), or once the next
\* one has started, every message the relay still holds and the client can read
\* reaches the consumer, across any number of reconnects.
EventuallyProcessed ==
  \A n \in 1 .. MaxSeq, k \in 0 .. MaxEnds :
    (used.ends = k /\ Held(n) /\ log[n] \notin Unreadable)
      ~> (used.ends > k \/ (n \in DOMAIN log /\ processed[log[n]] > 0))

=============================================================================
