---------------------------- MODULE InboundProofs ----------------------------
(***************************************************************************)
(* Proofs about Inbound, for every value of its constants: type            *)
(* correctness, that a number is acked only when it is on disk, and that   *)
(* Inbound implements Mailbox.                                             *)
(***************************************************************************)
EXTENDS Inbound, Integers, TLAPS

-----------------------------------------------------------------------------
(* The ack pump *)

LEMMA NotePersistedFacts ==
  ASSUME NEW p \in PumpType, NEW seq \in Nat
  PROVE  /\ NotePersisted(p, seq) \in PumpType
         /\ NotePersisted(p, seq).pendingMax = Larger(p.pendingMax, seq)
         /\ NotePersisted(p, seq).pendingCount > 0
BY DEF NotePersisted, Larger, PumpType

LEMMA CommitFacts ==
  ASSUME NEW p \in PumpType
  PROVE  /\ Commit(p) \in PumpType
         /\ Commit(p).pendingMax = p.pendingMax
         /\ Commit(p).pendingCount = 0
BY DEF Commit, PumpType

LEMMA NewPumpFacts ==
  ASSUME NEW n \in Nat
  PROVE  /\ NewPump(n) \in PumpType
         /\ NewPump(n).pendingMax = n
         /\ NewPump(n).pendingCount = 0
BY DEF NewPump, PumpType

LEMMA LargerType ==
  ASSUME NEW m \in Nat, NEW n \in Nat
  PROVE  Larger(m, n) \in Nat /\ Larger(m, n) \in {m, n}
BY DEF Larger
-----------------------------------------------------------------------------
(* Type correctness *)

LEMMA UsageGrows ==
  ASSUME NEW u \in Usage
  PROVE  /\ [u EXCEPT !.unnumbered = @ + 1] \in Usage
         /\ [u EXCEPT !.drops = @ + 1] \in Usage
         /\ [u EXCEPT !.ends = @ + 1] \in Usage
         /\ [u EXCEPT !.persist = @ + 1] \in Usage
         /\ [u EXCEPT !.watermark = @ + 1] \in Usage
BY DEF Usage

LEMMA EventFields ==
  ASSUME NEW e \in Event PROVE e.seq \in Nat /\ e.id \in Ids
BY DEF Event

LEMMA NewEvent ==
  ASSUME NEW n \in Nat, NEW id \in Ids
  PROVE  /\ [seq |-> n, id |-> id] \in Event
         /\ [seq |-> n, id |-> id].seq = n /\ [seq |-> n, id |-> id].id = id
BY DEF Event

LEMMA HeadAndTail ==
  ASSUME NEW S, NEW q \in Seq(S), q # <<>>
  PROVE  Head(q) \in S /\ Tail(q) \in Seq(S)
OBVIOUS

\* For each action, the Boolean variables and the others are two steps: no one
\* prover handles both.
LEMMA OpenSessionType ==
  ASSUME DataOK, OpenSession
  PROVE  /\ log' \in Seq(Ids) /\ relayAcked' \in Nat /\ cursor' \in Nat \ {0}
         /\ acks' \subseteq Nat /\ events' \in Seq(Event) /\ pump' \in PumpType
<1>1. Larger(relayAcked, last_acked_seq) \in Nat
  BY LargerType DEF DataOK
<1>2. QED BY <1>1, NewPumpFacts DEF DataOK, OpenSession

LEMMA ProcessEndsType ==
  ASSUME DataOK, NEW pending \in SUBSET Nat, ProcessEnds(pending),
         received_messages' \subseteq Ids
  PROVE  DataOK'
<1>1. used' \in Usage
  BY UsageGrows DEF DataOK, ProcessEnds
<1>2. acks' \subseteq Nat
  BY DEF DataOK, ProcessEnds
<1>3. pump' \in PumpType
  BY NewPumpFacts DEF ProcessEnds
<1>4. forwarded' \in Seq(Event) /\ taken' \in 0 .. Len(forwarded')
  BY DEF ProcessEnds
<1>5. processed' \in [Ids -> Nat]
  BY DEF DataOK, ProcessEnds
<1>6. QED BY <1>1, <1>2, <1>3, <1>4, <1>5 DEF DataOK, ProcessEnds

LEMMA HandleInnerType ==
  ASSUME DataOK, NEW stored \in BOOLEAN, NEW elapsed \in BOOLEAN,
         HandleInner(stored, elapsed)
  PROVE  DataOK'
<1> DEFINE event == Head(events)
<1>1. event \in Event /\ events' \in Seq(Event)
  BY HeadAndTail DEF DataOK, HandleInner
<1>2. received_messages' \subseteq Ids
  BY <1>1, EventFields DEF DataOK, HandleInner
<1>3. last_acked_seq' \in Nat /\ pump' \in PumpType /\ acks' \subseteq Nat
  <2>1. CASE event.seq = Unnumbered
    BY <2>1 DEF DataOK, HandleInner
  <2>2. CASE event.seq # Unnumbered
    <3> DEFINE noted == NotePersisted(pump, event.seq)
    <3>1. CheckpointAndAck(event.seq, event.id \notin received_messages,
                           stored, elapsed)
      BY <2>2 DEF HandleInner
    <3>2. event.seq \in Nat /\ noted \in PumpType /\ Commit(noted) \in PumpType
      BY <1>1, EventFields, NotePersistedFacts, CommitFacts DEF DataOK
    <3>3. noted.pendingMax \in Nat
      BY <3>2 DEF PumpType
    <3>4. last_acked_seq' \in Nat
      BY <3>1, <3>2, LargerType DEF DataOK, CheckpointAndAck, SetLastAckedSeq
    <3>5. pump' \in PumpType /\ acks' \subseteq Nat
      BY <3>1, <3>2, <3>3 DEF DataOK, CheckpointAndAck, SendRecvAck
    <3>6. QED BY <3>4, <3>5
  <2>3. QED BY <2>1, <2>2
<1>4. /\ seen_inner_ids' \subseteq Ids
      /\ forwarded' \in Seq(Event) /\ taken' \in 0 .. Len(forwarded')
  <2>1. Forward(event) /\ taken' = taken
    BY DEF HandleInner
  <2>2. CASE event.id \in seen_inner_ids
    BY <2>1, <2>2 DEF DataOK, Forward
  <2>3. CASE event.id \notin seen_inner_ids
    <3>1. forwarded' = Append(forwarded, event)
      BY <2>1, <2>3 DEF Forward
    <3>2. forwarded' \in Seq(Event) /\ Len(forwarded') = Len(forwarded) + 1
      BY <3>1, <1>1 DEF DataOK
    <3>3. seen_inner_ids' \subseteq Ids
      BY <2>1, <2>3, <1>1, EventFields DEF DataOK, Forward
    <3>4. QED BY <3>2, <3>3, <2>1 DEF DataOK
  <2>4. QED BY <2>2, <2>3
<1>5. used' \in Usage
  BY UsageGrows DEF DataOK, HandleInner
<1>6. QED
  BY <1>1, <1>2, <1>3, <1>4, <1>5 DEF DataOK, HandleInner

LEMMA FlagsPreserved == FlagsOK /\ [Next]_vars => FlagsOK'
<1> SUFFICES ASSUME FlagsOK, [Next]_vars PROVE FlagsOK'
  OBVIOUS
<1> USE DEF taskVars, sessionVars, relayVars, storeVars, consumerVars
<1>1. ASSUME NEW id \in Ids, PeerPosts(id) \/ RelayPushesUnnumbered(id)
      PROVE  FlagsOK'
  BY <1>1 DEF FlagsOK, PeerPosts, RelayPushesUnnumbered
<1>2. CASE RelayPushes \/ ReaderRejects \/ LinkDrops
  BY <1>2 DEF FlagsOK, RelayPushes, ReaderRejects, LinkDrops
<1>3. ASSUME NEW upTo \in acks, RelayTakesAck(upTo) PROVE FlagsOK'
  BY <1>3 DEF FlagsOK, RelayTakesAck
<1>4. CASE Start \/ Reconnect
  BY <1>4 DEF FlagsOK, Start, Reconnect, OpenSession
<1>5. ASSUME NEW stored \in BOOLEAN, NEW elapsed \in BOOLEAN,
             HandleInner(stored, elapsed)
      PROVE  FlagsOK'
  BY <1>5 DEF FlagsOK, HandleInner
<1>6. CASE \/ HandleInnerPersistFails \/ FlushPumpIfDue \/ SessionEnds
           \/ ReconnectFails \/ ConsumerTakes
  BY <1>6 DEF FlagsOK, HandleInnerPersistFails, FlushPumpIfDue, SessionEnds,
              ReconnectFails, ConsumerTakes
<1>7. CASE Crash \/ CrashAfterPersist \/ Disconnect
  BY <1>7 DEF FlagsOK, Crash, CrashAfterPersist, Disconnect, ProcessEnds
<1>8. CASE UNCHANGED vars
  BY <1>8 DEF FlagsOK, vars
<1>9. QED
  BY <1>1, <1>2, <1>3, <1>4, <1>5, <1>6, <1>7, <1>8 DEF Next

LEMMA DataPreserved == DataOK /\ [Next]_vars => DataOK'
<1> SUFFICES ASSUME DataOK, [Next]_vars PROVE DataOK'
  OBVIOUS
<1> USE DEF taskVars, sessionVars, relayVars, storeVars, consumerVars
<1>1. ASSUME NEW id \in Ids, PeerPosts(id) PROVE DataOK'
  BY <1>1 DEF DataOK, PeerPosts
<1>2. ASSUME NEW id \in Ids, RelayPushesUnnumbered(id) PROVE DataOK'
  <2>1. used' \in Usage
    BY <1>2, UsageGrows DEF RelayPushesUnnumbered, DataOK
  <2>2. events' \in Seq(Event)
    <3>1. [seq |-> Unnumbered, id |-> id] \in Event
      BY <1>2, NewEvent DEF Unnumbered
    <3>2. QED BY <1>2, <3>1 DEF DataOK, RelayPushesUnnumbered
  <2>3. QED BY <1>2, <2>1, <2>2 DEF DataOK, RelayPushesUnnumbered
<1>3. CASE RelayPushes
  <2>1. [seq |-> cursor, id |-> log[cursor]] \in Event
    <3>1. cursor \in Nat /\ log[cursor] \in Ids
      BY <1>3 DEF DataOK, RelayPushes
    <3>2. QED BY <3>1, NewEvent
  <2>2. QED BY <1>3, <2>1 DEF DataOK, RelayPushes
<1>4. CASE ReaderRejects
  BY <1>4 DEF DataOK, ReaderRejects
<1>5. ASSUME NEW upTo \in acks, RelayTakesAck(upTo) PROVE DataOK'
  <2>1. Larger(relayAcked, upTo) \in Nat
    BY LargerType DEF DataOK
  <2>2. QED BY <1>5, <2>1 DEF DataOK, RelayTakesAck
<1>6. CASE LinkDrops
  BY <1>6, UsageGrows DEF DataOK, LinkDrops
<1>7. CASE Start
  BY <1>7, OpenSessionType DEF DataOK, Start
<1>8. ASSUME NEW stored \in BOOLEAN, NEW elapsed \in BOOLEAN,
             HandleInner(stored, elapsed)
      PROVE  DataOK'
  BY <1>8, HandleInnerType
<1>9. CASE HandleInnerPersistFails
  <2>1. Head(events) \in Event /\ Tail(events) \in Seq(Event)
    BY <1>9, HeadAndTail DEF DataOK, HandleInnerPersistFails
  <2>2. skipped' \subseteq Nat
    BY <1>9, <2>1, EventFields DEF DataOK, HandleInnerPersistFails
  <2>3. QED
    BY <1>9, <2>1, <2>2, UsageGrows DEF DataOK, HandleInnerPersistFails
<1>10. CASE FlushPumpIfDue
  <2>1. Commit(pump) \in PumpType /\ pump.pendingMax \in Nat
    BY CommitFacts DEF DataOK, PumpType
  <2>2. acks' \subseteq Nat
    BY <1>10, <2>1 DEF DataOK, FlushPumpIfDue, SendRecvAck
  <2>3. QED BY <1>10, <2>1, <2>2 DEF DataOK, FlushPumpIfDue
<1>11. CASE SessionEnds
  BY <1>11 DEF DataOK, SessionEnds
<1>12. CASE Reconnect
  BY <1>12, OpenSessionType DEF DataOK, Reconnect
<1>13. CASE ReconnectFails
  BY <1>13 DEF DataOK, ReconnectFails
<1>14. CASE ConsumerTakes
  <2>1. taken + 1 \in DOMAIN forwarded /\ taken' \in 0 .. Len(forwarded')
    BY <1>14 DEF DataOK, ConsumerTakes
  <2>2. forwarded[taken + 1] \in Event
    BY <2>1 DEF DataOK
  <2>3. processed' \in [Ids -> Nat]
    BY <1>14, <2>2, EventFields DEF DataOK, ConsumerTakes
  <2>4. QED BY <1>14, <2>1, <2>3 DEF DataOK, ConsumerTakes
<1>15. CASE Crash
  BY <1>15, ProcessEndsType DEF DataOK, Crash
<1>16. CASE CrashAfterPersist
  <2>1. Head(events) \in Event
    BY <1>16, HeadAndTail DEF DataOK, CrashAfterPersist
  <2>2. received_messages' \subseteq Ids
    BY <1>16, <2>1, EventFields DEF DataOK, CrashAfterPersist
  <2>3. QED BY <1>16, <2>2, ProcessEndsType DEF CrashAfterPersist
<1>17. CASE Disconnect
  <2>1. (IF HasPending(pump) /\ ack_aware /\ link
           THEN {pump.pendingMax} ELSE {}) \subseteq Nat
    BY DEF DataOK, PumpType
  <2>2. received_messages' \subseteq Ids
    BY <1>17 DEF DataOK, Disconnect
  <2>3. QED BY <1>17, <2>1, <2>2, ProcessEndsType DEF Disconnect
<1>18. CASE UNCHANGED vars
  BY <1>18 DEF DataOK, vars
<1>19. QED
  BY <1>1, <1>2, <1>3, <1>4, <1>5, <1>6, <1>7, <1>8, <1>9, <1>10, <1>11,
     <1>12, <1>13, <1>14, <1>15, <1>16, <1>17, <1>18 DEF Next

\* Every variable of the transport keeps its type, whatever the bounds.
THEOREM TypeCorrect == Spec => []TypeOK
<1>1. Init => FlagsOK
  BY DEF Init, FlagsOK
<1>2. Init => DataOK
  BY NewPumpFacts DEF Init, DataOK, Usage
<1>3. QED
  BY <1>1, <1>2, FlagsPreserved, DataPreserved, PTL DEF Spec, TypeOK
-----------------------------------------------------------------------------
(* Acks *)

\* No step takes a message off the disk, or out of the relay's log.
Kept ==
  /\ received_messages \subseteq received_messages'
  /\ skipped \subseteq skipped'
  /\ DOMAIN log \subseteq DOMAIN log'
  /\ \A n \in DOMAIN log : log'[n] = log[n]

LEMMA StepKeeps == DataOK /\ [Next]_vars => Kept
<1> SUFFICES ASSUME DataOK, [Next]_vars PROVE Kept
  OBVIOUS
<1> USE DEF taskVars, sessionVars, relayVars, storeVars, consumerVars
<1>1. ASSUME NEW id \in Ids, PeerPosts(id) PROVE Kept
  <2>1. /\ DOMAIN log \subseteq DOMAIN log'
        /\ \A n \in DOMAIN log : log'[n] = log[n]
    BY <1>1 DEF DataOK, PeerPosts
  <2>2. QED BY <1>1, <2>1 DEF Kept, PeerPosts
<1>2. ASSUME NEW id \in Ids, RelayPushesUnnumbered(id) PROVE Kept
  BY <1>2 DEF Kept, RelayPushesUnnumbered
<1>3. CASE RelayPushes \/ ReaderRejects \/ LinkDrops
  BY <1>3 DEF Kept, RelayPushes, ReaderRejects, LinkDrops
<1>4. ASSUME NEW upTo \in acks, RelayTakesAck(upTo) PROVE Kept
  BY <1>4 DEF Kept, RelayTakesAck
<1>5. CASE Start \/ Reconnect
  BY <1>5 DEF Kept, Start, Reconnect, OpenSession
<1>6. ASSUME NEW stored \in BOOLEAN, NEW elapsed \in BOOLEAN,
             HandleInner(stored, elapsed)
      PROVE  Kept
  BY <1>6 DEF Kept, HandleInner
<1>7. CASE \/ HandleInnerPersistFails \/ FlushPumpIfDue \/ SessionEnds
           \/ ReconnectFails \/ ConsumerTakes
  BY <1>7 DEF Kept, HandleInnerPersistFails, FlushPumpIfDue, SessionEnds,
              ReconnectFails, ConsumerTakes
<1>8. CASE Crash \/ CrashAfterPersist \/ Disconnect
  BY <1>8 DEF Kept, Crash, CrashAfterPersist, Disconnect, ProcessEnds
<1>9. CASE UNCHANGED vars
  BY <1>9 DEF Kept, vars
<1>10. QED
  BY <1>1, <1>2, <1>3, <1>4, <1>5, <1>6, <1>7, <1>8, <1>9 DEF Next

LEMMA DurableStays ==
  ASSUME Kept
  PROVE  /\ \A m \in Nat : Durable(m) => Durable(m)'
         /\ \A n \in Nat : DurableUpTo(n) => DurableUpTo(n)'
<1>1. \A m \in Nat : Durable(m) => Durable(m)'
  BY DEF Kept, Durable
<1>2. QED BY <1>1 DEF DurableUpTo

LEMMA DurableOne ==
  ASSUME NEW n \in Nat, DurableUpTo(n - 1), Durable(n) PROVE DurableUpTo(n)
BY DEF DurableUpTo

LEMMA NothingToAck == DurableUpTo(0)
BY DEF DurableUpTo

IInv == DataOK /\ NothingPassedOver /\ AckedIsDurable

\* A step that leaves the pump, the watermark and the relay's record alone and
\* sends no ack.
LEMMA NoAckStep ==
  ASSUME IInv, Kept,
         UNCHANGED <<pump, last_acked_seq, relayAcked>>, acks' \subseteq acks
  PROVE  AckedIsDurable' /\ DurableUpTo(pump.pendingMax)'
<1>1. /\ relayAcked \in Nat /\ last_acked_seq \in Nat /\ acks \subseteq Nat
      /\ pump.pendingMax \in Nat
  BY DEF IInv, DataOK, PumpType
<1>2. \A n \in Nat : DurableUpTo(n) => DurableUpTo(n)'
  BY DurableStays
<1>3. QED BY <1>1, <1>2 DEF IInv, NothingPassedOver, AckedIsDurable, DurableUpTo

\* A step that leaves the session's queue and the relay's cursor alone.
LEMMA NoSessionStep ==
  ASSUME IInv, Kept, UNCHANGED <<events, cursor>>, reader' => reader
  PROVE  QueueInOrder' /\ CursorInOrder'
<1>1. \A m \in Nat : Durable(m) => Durable(m)'
  BY DurableStays
<1>2. events \in Seq(Event) /\ cursor \in Nat
  BY DEF IInv, DataOK
<1>3. QueueInOrder'
  <2> SUFFICES ASSUME NEW i \in DOMAIN events, events[i].seq # Unnumbered
               PROVE  /\ events[i].seq \in DOMAIN log'
                      /\ events[i].id = log'[events[i].seq]
                      /\ \A m \in 1 .. events[i].seq - 1 :
                           Durable(m)' \/ QueuedBefore(m, i)
    BY DEF QueueInOrder, QueuedBefore, Unnumbered
  <2>1. /\ events[i].seq \in DOMAIN log
        /\ events[i].id = log[events[i].seq]
        /\ \A m \in 1 .. events[i].seq - 1 : Durable(m) \/ QueuedBefore(m, i)
    BY DEF IInv, NothingPassedOver, QueueInOrder
  <2>2. events[i].seq \in Nat
    BY <1>2, EventFields
  <2>3. QED BY <1>1, <2>1, <2>2 DEF Kept
<1>4. CursorInOrder'
  BY <1>1, <1>2 DEF IInv, NothingPassedOver, CursorInOrder, QueuedBefore
<1>5. QED BY <1>3, <1>4

\* connect_initial: the relay resumes after the larger of its record and the
\* watermark, both durable, and the session is empty.
LEMMA OpenSessionKeepsOrder ==
  ASSUME IInv, Kept, OpenSession, UNCHANGED last_acked_seq
  PROVE  NothingPassedOver' /\ AckedIsDurable'
<1>1. /\ relayAcked \in Nat /\ last_acked_seq \in Nat /\ acks \subseteq Nat
      /\ relayAcked' \in Nat /\ relayAcked' \in {relayAcked, last_acked_seq}
  BY LargerType DEF IInv, DataOK, OpenSession
<1>2. \A n \in Nat : DurableUpTo(n) => DurableUpTo(n)'
  BY DurableStays
<1>3. DurableUpTo(relayAcked)' /\ DurableUpTo(last_acked_seq)'
  BY <1>1, <1>2 DEF IInv, AckedIsDurable, DurableUpTo
<1>4. AckedIsDurable'
  BY <1>1, <1>2, <1>3 DEF IInv, AckedIsDurable, OpenSession, DurableUpTo
<1>5. DurableUpTo(pump.pendingMax)'
  BY <1>1, <1>3, NewPumpFacts DEF OpenSession, DurableUpTo
<1>6. QueueInOrder'
  BY DEF QueueInOrder, OpenSession
<1>7. CursorInOrder'
  BY <1>1, <1>3 DEF CursorInOrder, OpenSession, DurableUpTo
<1>8. QED BY <1>4, <1>5, <1>6, <1>7 DEF NothingPassedOver

\* The end of the process: an empty session, a fresh pump, and at most the
\* final flush in flight.
LEMMA ProcessEndsKeepsOrder ==
  ASSUME IInv, Kept, NEW pending, ProcessEnds(pending),
         pending \subseteq {pump.pendingMax}
  PROVE  NothingPassedOver' /\ AckedIsDurable'
<1>1. /\ relayAcked \in Nat /\ last_acked_seq \in Nat /\ acks \subseteq Nat
      /\ pump.pendingMax \in Nat
  BY DEF IInv, DataOK, PumpType
<1>2. \A n \in Nat : DurableUpTo(n) => DurableUpTo(n)'
  BY DurableStays
<1>3. \A n \in acks' : n \in acks \/ n = pump.pendingMax
  BY DEF ProcessEnds
<1>4. AckedIsDurable'
  BY <1>1, <1>2, <1>3
  DEF IInv, NothingPassedOver, AckedIsDurable, ProcessEnds, DurableUpTo
<1>5. pump'.pendingMax = 0
  BY NewPumpFacts DEF ProcessEnds
<1>6. DurableUpTo(pump.pendingMax)'
  BY <1>5 DEF DurableUpTo
<1>7. QueueInOrder' /\ CursorInOrder'
  BY DEF QueueInOrder, CursorInOrder, ProcessEnds
<1>8. QED BY <1>4, <1>6, <1>7 DEF NothingPassedOver

\* A new event goes behind everything the session has pushed.
LEMMA PushKeepsOrder ==
  ASSUME IInv, Kept, NEW event \in Event, events' = Append(events, event),
         reader' = reader, reader,
         \/ event.seq = Unnumbered /\ cursor' = cursor
         \/ /\ event.seq = cursor /\ cursor \in DOMAIN log
            /\ event.id = log[cursor] /\ cursor' = cursor + 1
  PROVE  QueueInOrder' /\ CursorInOrder'
<1>1. /\ events \in Seq(Event) /\ cursor \in Nat \ {0}
      /\ Len(events') = Len(events) + 1 /\ DOMAIN events' = 1 .. Len(events')
      /\ events'[Len(events) + 1] = event
      /\ \A i \in DOMAIN events : events'[i] = events[i]
      /\ DOMAIN events = 1 .. Len(events) /\ Len(events) \in Nat
  BY DEF IInv, DataOK
<1>2. \A m \in Nat : Durable(m) => Durable(m)'
  BY DurableStays
<1>3. \A m \in Nat, i \in 1 .. Len(events) + 1 :
        QueuedBefore(m, i) => QueuedBefore(m, i)'
  BY <1>1 DEF QueuedBefore
<1>4. \A m \in 1 .. cursor - 1 :
        Durable(m)' \/ \E j \in 1 .. Len(events) : events'[j].seq = m
  BY <1>1, <1>2 DEF IInv, NothingPassedOver, CursorInOrder, QueuedBefore
<1>5. QueueInOrder'
  <2> SUFFICES ASSUME NEW i \in 1 .. Len(events) + 1,
                      events'[i].seq # Unnumbered
               PROVE  /\ events'[i].seq \in DOMAIN log'
                      /\ events'[i].id = log'[events'[i].seq]
                      /\ \A m \in 1 .. events'[i].seq - 1 :
                           \/ Durable(m)'
                           \/ \E j \in 1 .. i - 1 : events'[j].seq = m
    BY <1>1 DEF QueueInOrder, QueuedBefore, Unnumbered
  <2>1. CASE i \in 1 .. Len(events)
    <3>1. events'[i] = events[i] /\ events[i] \in Event
      BY <2>1, <1>1
    <3>2. /\ events[i].seq \in DOMAIN log
          /\ events[i].id = log[events[i].seq]
          /\ \A m \in 1 .. events[i].seq - 1 : Durable(m) \/ QueuedBefore(m, i)
      BY <2>1, <3>1, <1>1 DEF IInv, NothingPassedOver, QueueInOrder
    <3>3. events[i].seq \in Nat
      BY <3>1, EventFields
    <3>4. \A m \in 1 .. events[i].seq - 1 :
            Durable(m)' \/ \E j \in 1 .. i - 1 : events'[j].seq = m
      BY <3>2, <3>3, <1>1, <1>2, <2>1 DEF QueuedBefore
    <3>5. QED BY <3>1, <3>2, <3>4 DEF Kept
  <2>2. CASE i = Len(events) + 1
    BY <2>2, <1>1, <1>4 DEF Kept
  <2>3. QED BY <2>1, <2>2, <1>1
<1>6. CursorInOrder'
  <2>1. \A m \in 1 .. cursor' - 1 :
          Durable(m)' \/ \E j \in 1 .. Len(events) + 1 : events'[j].seq = m
    BY <1>1, <1>4
  <2>2. QED BY <2>1, <1>1 DEF CursorInOrder, QueuedBefore
<1>7. QED BY <1>5, <1>6

\* Once the first event is handled, whatever the rest waited for it is durable.
LEMMA PopKeepsOrder ==
  ASSUME IInv, Kept, events # <<>>, events' = Tail(events),
         UNCHANGED <<cursor, reader>>,
         NEW first, first = Head(events).seq,
         first # Unnumbered => Durable(first)'
  PROVE  QueueInOrder' /\ CursorInOrder'
<1>1. /\ events \in Seq(Event) /\ cursor \in Nat \ {0}
      /\ Len(events) \in Nat /\ Len(events) > 0
      /\ DOMAIN events = 1 .. Len(events)
      /\ Len(events') = Len(events) - 1 /\ DOMAIN events' = 1 .. Len(events')
      /\ \A i \in 1 .. Len(events') : events'[i] = events[i + 1]
      /\ Head(events) = events[1]
  BY DEF IInv, DataOK
<1>2. \A m \in Nat : Durable(m) => Durable(m)'
  BY DurableStays
<1>3. ASSUME NEW m \in Nat \ {0}, NEW i \in 1 .. Len(events),
             Durable(m) \/ QueuedBefore(m, i + 1)
      PROVE  Durable(m)' \/ \E j \in 1 .. i - 1 : events'[j].seq = m
  <2>1. CASE Durable(m)
    BY <2>1, <1>2
  <2>2. CASE QueuedBefore(m, i + 1)
    <3>1. PICK j \in 1 .. i : events[j].seq = m
      BY <2>2 DEF QueuedBefore
    <3>2. CASE j = 1
      BY <3>1, <3>2, <1>1 DEF Unnumbered
    <3>3. CASE j # 1
      <4>1. j - 1 \in 1 .. i - 1 /\ events'[j - 1] = events[j]
        BY <3>3, <1>1
      <4>2. QED BY <4>1, <3>1
    <3>4. QED BY <3>2, <3>3
  <2>3. QED BY <1>3, <2>1, <2>2
<1>4. QueueInOrder'
  <2> SUFFICES ASSUME NEW i \in 1 .. Len(events'), events'[i].seq # Unnumbered
               PROVE  /\ events'[i].seq \in DOMAIN log'
                      /\ events'[i].id = log'[events'[i].seq]
                      /\ \A m \in 1 .. events'[i].seq - 1 :
                           \/ Durable(m)'
                           \/ \E j \in 1 .. i - 1 : events'[j].seq = m
    BY <1>1 DEF QueueInOrder, QueuedBefore, Unnumbered
  <2>1. /\ i \in 1 .. Len(events) /\ i + 1 \in DOMAIN events
        /\ events'[i] = events[i + 1] /\ events[i + 1] \in Event
    BY <1>1
  <2>2. /\ events[i + 1].seq \in DOMAIN log
        /\ events[i + 1].id = log[events[i + 1].seq]
        /\ \A m \in 1 .. events[i + 1].seq - 1 :
             Durable(m) \/ QueuedBefore(m, i + 1)
    BY <2>1 DEF IInv, NothingPassedOver, QueueInOrder
  <2>3. events[i + 1].seq \in Nat
    BY <2>1, EventFields
  <2>4. ASSUME NEW m \in 1 .. events[i + 1].seq - 1
        PROVE  Durable(m)' \/ \E j \in 1 .. i - 1 : events'[j].seq = m
    <3>1. m \in Nat \ {0} /\ (Durable(m) \/ QueuedBefore(m, i + 1))
      BY <2>2, <2>3
    <3>2. QED BY <1>3, <2>1, <3>1
  <2>5. QED BY <2>1, <2>2, <2>4 DEF Kept
<1>5. CursorInOrder'
  <2>1. ASSUME reader, NEW m \in 1 .. cursor - 1
        PROVE  Durable(m)' \/ \E j \in 1 .. Len(events) - 1 : events'[j].seq = m
    <3>1. Len(events) \in 1 .. Len(events) /\ m \in Nat \ {0}
      BY <1>1
    <3>2. Durable(m) \/ QueuedBefore(m, Len(events) + 1)
      BY <2>1 DEF IInv, NothingPassedOver, CursorInOrder
    <3>3. QED BY <1>3, <3>1, <3>2
  <2>2. QED BY <2>1, <1>1 DEF CursorInOrder, QueuedBefore
<1>6. QED BY <1>4, <1>5

\* The event at the head of the queue, once on disk, completes a prefix.
LEMMA HeadCompletesPrefix ==
  ASSUME IInv, Kept, events # <<>>, NEW first, first = Head(events).seq,
         first # Unnumbered,
         Head(events).id \in received_messages' \/ first \in skipped'
  PROVE  first \in Nat /\ Durable(first)' /\ DurableUpTo(first)'
<1>1. /\ 1 \in DOMAIN events /\ Head(events) = events[1]
      /\ Head(events) \in Event
  BY HeadAndTail DEF IInv, DataOK
<1>2. first \in Nat
  BY <1>1, EventFields
<1>3. /\ first \in DOMAIN log /\ Head(events).id = log[first]
      /\ \A m \in 1 .. first - 1 : Durable(m)
  BY <1>1 DEF IInv, NothingPassedOver, QueueInOrder, QueuedBefore
<1>4. Durable(first)'
  BY <1>3 DEF Durable, Kept
<1>5. \A m \in 1 .. first - 1 : Durable(m)'
  BY <1>2, <1>3, DurableStays
<1>6. QED BY <1>2, <1>4, <1>5 DEF DurableUpTo

LEMMA HandleInnerKeepsOrder ==
  ASSUME IInv, Kept, NEW stored \in BOOLEAN, NEW elapsed \in BOOLEAN,
         HandleInner(stored, elapsed)
  PROVE  NothingPassedOver' /\ AckedIsDurable'
<1>1. PICK first : first = Head(events).seq
  OBVIOUS
<1>2. /\ Head(events).id \in received_messages'
      /\ events # <<>> /\ events' = Tail(events)
      /\ UNCHANGED <<cursor, reader, relayAcked>>
  BY DEF HandleInner
<1>3. first # Unnumbered =>
        first \in Nat /\ Durable(first)' /\ DurableUpTo(first)'
  BY <1>1, <1>2, HeadCompletesPrefix
<1>4. QueueInOrder' /\ CursorInOrder'
  BY <1>1, <1>2, <1>3, PopKeepsOrder
<1>5. AckedIsDurable' /\ DurableUpTo(pump.pendingMax)'
  <2>1. CASE first = Unnumbered
    <3>1. UNCHANGED <<pump, last_acked_seq, relayAcked>> /\ acks' \subseteq acks
      BY <1>1, <2>1 DEF HandleInner
    <3>2. QED BY <3>1, NoAckStep
  <2>2. CASE first # Unnumbered
    <3>1. PICK noted : noted = NotePersisted(pump, first)
      OBVIOUS
    <3>2. /\ relayAcked \in Nat /\ last_acked_seq \in Nat /\ acks \subseteq Nat
          /\ pump \in PumpType /\ pump.pendingMax \in Nat /\ first \in Nat
      BY <1>3, <2>2 DEF IInv, DataOK, PumpType
    <3>3. noted \in PumpType /\ noted.pendingMax \in {pump.pendingMax, first}
      BY <3>1, <3>2, NotePersistedFacts, LargerType
    <3>4. Commit(noted).pendingMax = noted.pendingMax
      BY <3>3, CommitFacts
    <3>5. /\ last_acked_seq' \in {last_acked_seq, first}
          /\ pump'.pendingMax = noted.pendingMax
          /\ acks' \subseteq acks \cup {noted.pendingMax}
      <4>1. CheckpointAndAck(first, Head(events).id \notin received_messages,
                             stored, elapsed)
        BY <1>1, <2>2 DEF HandleInner
      <4>2. last_acked_seq' \in {last_acked_seq, first}
        BY <4>1, <3>2, LargerType DEF CheckpointAndAck, SetLastAckedSeq
      <4>3. /\ pump' \in {noted, Commit(noted)}
            /\ acks' \subseteq acks \cup {noted.pendingMax}
        BY <4>1, <3>1 DEF CheckpointAndAck, SendRecvAck
      <4>4. QED BY <4>2, <4>3, <3>4
    <3>6. \A n \in Nat : DurableUpTo(n) => DurableUpTo(n)'
      BY DurableStays
    <3>7. \A n \in {pump.pendingMax, first} : DurableUpTo(n)'
      BY <3>2, <3>6, <1>3, <2>2 DEF IInv, NothingPassedOver
    <3>8. \A n \in {last_acked_seq, relayAcked} \cup acks : DurableUpTo(n)'
      BY <3>2, <3>6 DEF IInv, AckedIsDurable
    <3>9. QED
      BY <3>3, <3>5, <3>7, <3>8, <1>2 DEF AckedIsDurable, DurableUpTo
  <2>3. QED BY <2>1, <2>2
<1>6. QED BY <1>4, <1>5 DEF NothingPassedOver

LEMMA IInvPreserved == IInv /\ [Next]_vars => IInv'
<1> SUFFICES ASSUME IInv, [Next]_vars PROVE IInv'
  OBVIOUS
<1> USE DEF taskVars, sessionVars, relayVars, storeVars, consumerVars
<1>1. DataOK' /\ Kept
  BY DataPreserved, StepKeeps DEF IInv
<1>2. SUFFICES NothingPassedOver' /\ AckedIsDurable'
  BY <1>1 DEF IInv
<1>3. ASSUME NEW id \in Ids, PeerPosts(id)
      PROVE  NothingPassedOver' /\ AckedIsDurable'
  BY <1>1, <1>3, NoAckStep, NoSessionStep DEF NothingPassedOver, PeerPosts
<1>4. ASSUME NEW id \in Ids, RelayPushesUnnumbered(id)
      PROVE  NothingPassedOver' /\ AckedIsDurable'
  <2>1. AckedIsDurable' /\ DurableUpTo(pump.pendingMax)'
    BY <1>1, <1>4, NoAckStep DEF RelayPushesUnnumbered
  <2> DEFINE event == [seq |-> Unnumbered, id |-> id]
  <2>2. event \in Event /\ event.seq = Unnumbered
    BY <1>4, NewEvent DEF Unnumbered
  <2>3. QueueInOrder' /\ CursorInOrder'
    BY <1>1, <1>4, <2>2, PushKeepsOrder DEF RelayPushesUnnumbered
  <2>4. QED BY <2>1, <2>3 DEF NothingPassedOver
<1>5. CASE RelayPushes
  <2>1. AckedIsDurable' /\ DurableUpTo(pump.pendingMax)'
    BY <1>1, <1>5, NoAckStep DEF RelayPushes
  <2> DEFINE event == [seq |-> cursor, id |-> log[cursor]]
  <2>2. event \in Event /\ event.seq = cursor /\ event.id = log[cursor]
    <3>1. cursor \in Nat /\ log[cursor] \in Ids
      BY <1>5 DEF IInv, DataOK, RelayPushes
    <3>2. QED BY <3>1, NewEvent
  <2>3. QueueInOrder' /\ CursorInOrder'
    BY <1>1, <1>5, <2>2, PushKeepsOrder DEF RelayPushes
  <2>4. QED BY <2>1, <2>3 DEF NothingPassedOver
<1>6. CASE ReaderRejects
  <2>1. AckedIsDurable' /\ DurableUpTo(pump.pendingMax)'
    BY <1>1, <1>6, NoAckStep DEF ReaderRejects
  <2>2. \A m \in Nat : Durable(m) => Durable(m)'
    BY <1>1, DurableStays
  <2>3. CursorInOrder' /\ UNCHANGED <<events, log, received_messages, skipped>>
    BY <1>6 DEF CursorInOrder, ReaderRejects
  <2>4. QueueInOrder'
    BY <2>3 DEF IInv, NothingPassedOver, QueueInOrder, Durable, QueuedBefore
  <2>5. QED BY <2>1, <2>3, <2>4 DEF NothingPassedOver
<1>7. ASSUME NEW upTo \in acks, RelayTakesAck(upTo)
      PROVE  NothingPassedOver' /\ AckedIsDurable'
  <2>1. /\ relayAcked \in Nat /\ last_acked_seq \in Nat /\ acks \subseteq Nat
        /\ pump.pendingMax \in Nat /\ upTo \in Nat
    BY DEF IInv, DataOK, PumpType
  <2>2. \A n \in Nat : DurableUpTo(n) => DurableUpTo(n)'
    BY <1>1, DurableStays
  <2>3. relayAcked' \in {relayAcked, upTo} /\ acks' \subseteq acks
    BY <1>7, <2>1, LargerType DEF RelayTakesAck
  <2>4. AckedIsDurable' /\ DurableUpTo(pump.pendingMax)'
    BY <1>7, <2>1, <2>2, <2>3
    DEF IInv, NothingPassedOver, AckedIsDurable, RelayTakesAck, DurableUpTo
  <2>5. QED
    BY <1>1, <1>7, <2>4, NoSessionStep DEF NothingPassedOver, RelayTakesAck
<1>8. CASE LinkDrops
  BY <1>1, <1>8, NoAckStep, NoSessionStep DEF NothingPassedOver, LinkDrops
<1>9. CASE Start
  BY <1>1, <1>9, OpenSessionKeepsOrder DEF Start
<1>10. ASSUME NEW stored \in BOOLEAN, NEW elapsed \in BOOLEAN,
              HandleInner(stored, elapsed)
       PROVE  NothingPassedOver' /\ AckedIsDurable'
  BY <1>1, <1>10, HandleInnerKeepsOrder
<1>11. CASE HandleInnerPersistFails
  <2>1. AckedIsDurable' /\ DurableUpTo(pump.pendingMax)'
    BY <1>1, <1>11, NoAckStep DEF HandleInnerPersistFails
  <2>2. PICK first : first = Head(events).seq
    OBVIOUS
  <2>3. first # Unnumbered => first \in skipped'
    BY <1>11, <2>2 DEF HandleInnerPersistFails
  <2>4. first # Unnumbered => Durable(first)'
    BY <1>1, <1>11, <2>2, <2>3, HeadCompletesPrefix DEF HandleInnerPersistFails
  <2>5. QueueInOrder' /\ CursorInOrder'
    BY <1>1, <1>11, <2>2, <2>4, PopKeepsOrder DEF HandleInnerPersistFails
  <2>6. QED BY <2>1, <2>5 DEF NothingPassedOver
<1>12. CASE FlushPumpIfDue
  <2>1. /\ relayAcked \in Nat /\ last_acked_seq \in Nat /\ acks \subseteq Nat
        /\ pump \in PumpType /\ pump.pendingMax \in Nat
    BY DEF IInv, DataOK, PumpType
  <2>2. /\ pump'.pendingMax = pump.pendingMax
        /\ acks' \subseteq acks \cup {pump.pendingMax}
    BY <1>12, <2>1, CommitFacts DEF FlushPumpIfDue, SendRecvAck
  <2>3. \A n \in Nat : DurableUpTo(n) => DurableUpTo(n)'
    BY <1>1, DurableStays
  <2>4. \A n \in {pump.pendingMax, last_acked_seq, relayAcked} \cup acks :
          DurableUpTo(n)'
    BY <2>1, <2>3 DEF IInv, NothingPassedOver, AckedIsDurable
  <2>5. AckedIsDurable' /\ DurableUpTo(pump.pendingMax)'
    BY <1>12, <2>2, <2>4 DEF AckedIsDurable, FlushPumpIfDue, DurableUpTo
  <2>6. QED
    BY <1>1, <1>12, <2>5, NoSessionStep DEF NothingPassedOver, FlushPumpIfDue
<1>13. CASE SessionEnds \/ ReconnectFails \/ ConsumerTakes
  BY <1>1, <1>13, NoAckStep, NoSessionStep
  DEF NothingPassedOver, SessionEnds, ReconnectFails, ConsumerTakes
<1>14. CASE Reconnect
  BY <1>1, <1>14, OpenSessionKeepsOrder DEF Reconnect
<1>15. CASE Crash
  BY <1>1, <1>15, ProcessEndsKeepsOrder DEF Crash
<1>16. CASE CrashAfterPersist
  BY <1>1, <1>16, ProcessEndsKeepsOrder DEF CrashAfterPersist
<1>17. CASE Disconnect
  BY <1>1, <1>17, ProcessEndsKeepsOrder DEF Disconnect
<1>18. CASE UNCHANGED vars
  BY <1>1, <1>18, NoAckStep, NoSessionStep DEF NothingPassedOver, vars
<1>19. QED
  BY <1>3, <1>4, <1>5, <1>6, <1>7, <1>8, <1>9, <1>10, <1>11, <1>12, <1>13,
     <1>14, <1>15, <1>16, <1>17, <1>18 DEF Next

LEMMA IInvHolds == Spec => []IInv
<1>1. Init => DataOK
  BY NewPumpFacts DEF Init, DataOK, Usage
<1>2. Init => NothingPassedOver /\ AckedIsDurable
  <2> SUFFICES ASSUME Init PROVE NothingPassedOver /\ AckedIsDurable
    OBVIOUS
  <2>1. DurableUpTo(pump.pendingMax)
    BY NewPumpFacts DEF Init, DurableUpTo
  <2>2. QED
    BY <2>1 DEF Init, NothingPassedOver, AckedIsDurable, QueueInOrder,
                CursorInOrder, DurableUpTo
<1>3. QED BY <1>1, <1>2, IInvPreserved, PTL DEF Spec, IInv

\* The relay is never told, by a recv_ack or by the watermark of a hello, to
\* forget a number whose message the device has not written to disk or failed
\* to write.
THEOREM AckedIsDurableAlways == Spec => []AckedIsDurable
BY IInvHolds, PTL DEF IInv

\* No session hands the transport a number before its predecessors.
THEOREM NothingPassedOverAlways == Spec => []NothingPassedOver
BY IInvHolds, PTL DEF IInv

-----------------------------------------------------------------------------
(* Batches and the session they belong to *)

NumberedOnlyWhenAckAware ==
  \A i \in DOMAIN events : events[i].seq # Unnumbered => ack_aware

AwareInv == NumberedOnlyWhenAckAware /\ BatchOnlyWhenAckAware

LEMMA AwareInvPreserved == IInv /\ AwareInv /\ [Next]_vars => AwareInv'
<1> SUFFICES ASSUME IInv, AwareInv, [Next]_vars PROVE AwareInv'
  OBVIOUS
<1> USE DEF taskVars, sessionVars, relayVars, storeVars, consumerVars
<1>1. events \in Seq(Event) /\ pump \in PumpType
  BY DEF IInv, DataOK
<1>2. ASSUME UNCHANGED <<events, ack_aware, pump>> PROVE AwareInv'
  BY <1>2
  DEF AwareInv, NumberedOnlyWhenAckAware, BatchOnlyWhenAckAware, Unnumbered
<1>3. ASSUME NEW id \in Ids, PeerPosts(id) PROVE AwareInv'
  BY <1>2, <1>3 DEF PeerPosts
<1>4. ASSUME NEW id \in Ids, RelayPushesUnnumbered(id) PROVE AwareInv'
  <2> DEFINE event == [seq |-> Unnumbered, id |-> id]
  <2>1. /\ event.seq = Unnumbered /\ events' = Append(events, event)
        /\ UNCHANGED <<ack_aware, pump>>
    BY <1>4 DEF RelayPushesUnnumbered
  <2>2. NumberedOnlyWhenAckAware'
    BY <2>1, <1>1 DEF AwareInv, NumberedOnlyWhenAckAware, Unnumbered
  <2>3. BatchOnlyWhenAckAware'
    BY <2>1 DEF AwareInv, BatchOnlyWhenAckAware
  <2>4. QED BY <2>2, <2>3 DEF AwareInv
<1>5. CASE RelayPushes \/ ReaderRejects
  BY <1>5
  DEF RelayPushes, ReaderRejects, AwareInv, NumberedOnlyWhenAckAware,
      BatchOnlyWhenAckAware
<1>6. ASSUME NEW upTo \in acks, RelayTakesAck(upTo) PROVE AwareInv'
  BY <1>2, <1>6 DEF RelayTakesAck
<1>7. CASE LinkDrops \/ SessionEnds \/ ReconnectFails \/ ConsumerTakes
  BY <1>2, <1>7 DEF LinkDrops, SessionEnds, ReconnectFails, ConsumerTakes
<1>8. CASE Start \/ Reconnect
  <2>1. OpenSession
    BY <1>8 DEF Start, Reconnect
  <2>2. pump'.pendingCount = 0 /\ events' = <<>>
    BY <2>1, NewPumpFacts DEF OpenSession, IInv, DataOK
  <2>3. QED
    BY <2>2 DEF AwareInv, NumberedOnlyWhenAckAware, BatchOnlyWhenAckAware
<1>9. ASSUME NEW stored \in BOOLEAN, NEW elapsed \in BOOLEAN,
             HandleInner(stored, elapsed)
      PROVE  AwareInv'
  <2>1. PICK first : first = Head(events)
    OBVIOUS
  <2>2. /\ 1 \in DOMAIN events /\ first = events[1] /\ events' = Tail(events)
        /\ UNCHANGED ack_aware
    BY <1>1, <1>9, <2>1 DEF HandleInner
  <2>3. NumberedOnlyWhenAckAware'
    BY <1>1, <2>2 DEF AwareInv, NumberedOnlyWhenAckAware, Unnumbered
  <2>4. CASE first.seq = Unnumbered
    <3>1. UNCHANGED pump
      BY <1>9, <2>1, <2>4 DEF HandleInner
    <3>2. QED BY <3>1, <2>2, <2>3 DEF AwareInv, BatchOnlyWhenAckAware
  <2>5. CASE first.seq # Unnumbered
    <3>1. ack_aware
      BY <2>2, <2>5 DEF AwareInv, NumberedOnlyWhenAckAware
    <3>2. QED BY <3>1, <2>2, <2>3 DEF AwareInv, BatchOnlyWhenAckAware
  <2>6. QED BY <2>4, <2>5
<1>10. CASE HandleInnerPersistFails
  <2>1. /\ events # <<>> /\ events' = Tail(events) /\ UNCHANGED <<ack_aware, pump>>
    BY <1>10 DEF HandleInnerPersistFails
  <2>2. NumberedOnlyWhenAckAware'
    BY <1>1, <2>1 DEF AwareInv, NumberedOnlyWhenAckAware, Unnumbered
  <2>3. QED BY <2>1, <2>2 DEF AwareInv, BatchOnlyWhenAckAware
<1>11. CASE FlushPumpIfDue
  <2>1. pump'.pendingCount = 0 /\ UNCHANGED <<events, ack_aware>>
    BY <1>1, <1>11, CommitFacts DEF FlushPumpIfDue
  <2>2. QED
    BY <2>1
    DEF AwareInv, NumberedOnlyWhenAckAware, BatchOnlyWhenAckAware, Unnumbered
<1>12. CASE Crash \/ CrashAfterPersist \/ Disconnect
  <2>1. events' = <<>> /\ pump' = NewPump(0)
    BY <1>12 DEF Crash, CrashAfterPersist, Disconnect, ProcessEnds
  <2>2. pump'.pendingCount = 0
    BY <2>1, NewPumpFacts
  <2>3. QED
    BY <2>1, <2>2 DEF AwareInv, NumberedOnlyWhenAckAware, BatchOnlyWhenAckAware
<1>13. CASE UNCHANGED vars
  BY <1>2, <1>13 DEF vars
<1>14. QED
  BY <1>3, <1>4, <1>5, <1>6, <1>7, <1>8, <1>9, <1>10, <1>11, <1>12, <1>13
  DEF Next

\* What is pending in the pump came from a relay that numbers messages and is
\* acked on that relay's session: no batch outlives its session.
THEOREM BatchOnlyWhenAckAwareAlways == Spec => []BatchOnlyWhenAckAware
<1>1. Init => AwareInv
  <2> SUFFICES ASSUME Init PROVE AwareInv
    OBVIOUS
  <2>1. pump.pendingCount = 0 /\ events = <<>>
    BY NewPumpFacts DEF Init
  <2>2. QED
    BY <2>1 DEF AwareInv, NumberedOnlyWhenAckAware, BatchOnlyWhenAckAware
<1>2. AwareInv => BatchOnlyWhenAckAware
  BY DEF AwareInv
<1>3. QED BY <1>1, <1>2, IInvHolds, AwareInvPreserved, PTL DEF Spec

-----------------------------------------------------------------------------
(* Inbound implements Mailbox: the transport hands messages over in the    *)
(* relay's order and at most once in the life of a process, and has them   *)
(* on disk before they are forgotten.                                      *)
(*                                                                         *)
(* That no number is forgotten too early is IInv.  That none is handed     *)
(* over late needs more: the live session began after some number, `base', *)
(* that the relay had been told to forget, and what lies between base and  *)
(* an event of its queue, or an event it has forwarded, this process has   *)
(* handled.                                                                *)

\* This process has message m, or the store has refused it.
Handled(m) ==
  m \in skipped \/ (m \in DOMAIN log /\ log[m] \in seen_inner_ids)

QueueFrom(base) ==
  \A i \in DOMAIN events : events[i].seq # Unnumbered =>
    /\ base < events[i].seq
    /\ \A m \in base + 1 .. events[i].seq - 1 : Handled(m) \/ QueuedBefore(m, i)

CursorFrom(base) ==
  /\ base < cursor
  /\ reader => \A m \in base + 1 .. cursor - 1 :
                 Handled(m) \/ QueuedBefore(m, Len(events) + 1)

ForwardedFrom(base) ==
  \A i \in DOMAIN forwarded : \A m \in base + 1 .. forwarded[i].seq : Handled(m)

SessionFrom(base) ==
  base <= relayAcked /\ QueueFrom(base) /\ CursorFrom(base) /\ ForwardedFrom(base)

SeenIsHanded == seen_inner_ids = {forwarded[i].id : i \in DOMAIN forwarded}

OrderInv == SeenIsHanded /\ \E base \in Nat : SessionFrom(base)

LEMMA HandledStays ==
  ASSUME Kept, seen_inner_ids \subseteq seen_inner_ids'
  PROVE  \A m \in Nat : Handled(m) => Handled(m)'
BY DEF Kept, Handled

\* A step that neither queues nor forwards anything.
LEMMA QuietStep ==
  ASSUME IInv, Kept, OrderInv, reader' => reader,
         UNCHANGED <<events, cursor, forwarded, seen_inner_ids>>,
         relayAcked' \in Nat, relayAcked <= relayAcked'
  PROVE  OrderInv'
<1>1. PICK base \in Nat : SessionFrom(base)
  BY DEF OrderInv
<1>2. \A m \in Nat : Handled(m) => Handled(m)'
  BY HandledStays
<1>3. /\ events \in Seq(Event) /\ cursor \in Nat /\ relayAcked \in Nat
      /\ forwarded \in Seq(Event)
  BY DEF IInv, DataOK
<1>4. QueueFrom(base)'
  <2> SUFFICES ASSUME NEW i \in DOMAIN events, events[i].seq # Unnumbered
               PROVE  /\ base < events[i].seq
                      /\ \A m \in base + 1 .. events[i].seq - 1 :
                           Handled(m)' \/ QueuedBefore(m, i)
    BY DEF QueueFrom, QueuedBefore, Unnumbered
  <2>1. events[i].seq \in Nat
    BY <1>3, EventFields
  <2>2. /\ base < events[i].seq
        /\ \A m \in base + 1 .. events[i].seq - 1 :
             Handled(m) \/ QueuedBefore(m, i)
    BY <1>1 DEF SessionFrom, QueueFrom
  <2>3. QED BY <1>2, <2>1, <2>2
<1>5. CursorFrom(base)'
  BY <1>1, <1>2, <1>3 DEF SessionFrom, CursorFrom, QueuedBefore
<1>6. ForwardedFrom(base)'
  <2> SUFFICES ASSUME NEW i \in DOMAIN forwarded,
                      NEW m \in base + 1 .. forwarded[i].seq
               PROVE  Handled(m)'
    BY DEF ForwardedFrom
  <2>1. forwarded[i].seq \in Nat
    BY <1>3, EventFields
  <2>2. QED BY <1>1, <1>2, <2>1 DEF SessionFrom, ForwardedFrom
<1>7. base <= relayAcked'
  BY <1>1, <1>3 DEF SessionFrom
<1>8. SessionFrom(base)'
  BY <1>4, <1>5, <1>6, <1>7 DEF SessionFrom
<1>9. SeenIsHanded'
  BY DEF OrderInv, SeenIsHanded
<1>10. QED BY <1>8, <1>9 DEF OrderInv

\* The reader queues an event.
LEMMA PushStep ==
  ASSUME IInv, Kept, OrderInv, NEW event \in Event,
         events' = Append(events, event), reader,
         UNCHANGED <<forwarded, seen_inner_ids, relayAcked, reader>>,
         \/ event.seq = Unnumbered /\ cursor' = cursor
         \/ event.seq = cursor /\ cursor' = cursor + 1
  PROVE  OrderInv'
<1>1. PICK base \in Nat : SessionFrom(base)
  BY DEF OrderInv
<1>2. \A m \in Nat : Handled(m) => Handled(m)'
  BY HandledStays
<1>3. /\ events \in Seq(Event) /\ cursor \in Nat \ {0}
      /\ Len(events') = Len(events) + 1 /\ DOMAIN events' = 1 .. Len(events')
      /\ events'[Len(events) + 1] = event
      /\ \A i \in DOMAIN events : events'[i] = events[i]
      /\ DOMAIN events = 1 .. Len(events) /\ Len(events) \in Nat
      /\ forwarded \in Seq(Event)
  BY DEF IInv, DataOK
<1>4. /\ base < cursor
      /\ \A m \in base + 1 .. cursor - 1 :
           Handled(m)' \/ \E j \in 1 .. Len(events) : events'[j].seq = m
  BY <1>1, <1>2, <1>3 DEF SessionFrom, CursorFrom, QueuedBefore
<1>5. QueueFrom(base)'
  <2> SUFFICES ASSUME NEW i \in 1 .. Len(events) + 1,
                      events'[i].seq # Unnumbered
               PROVE  /\ base < events'[i].seq
                      /\ \A m \in base + 1 .. events'[i].seq - 1 :
                           \/ Handled(m)'
                           \/ \E j \in 1 .. i - 1 : events'[j].seq = m
    BY <1>3 DEF QueueFrom, QueuedBefore, Unnumbered
  <2>1. CASE i \in 1 .. Len(events)
    <3>1. events'[i] = events[i] /\ events[i].seq \in Nat
      BY <2>1, <1>3, EventFields
    <3>2. /\ base < events[i].seq
          /\ \A m \in base + 1 .. events[i].seq - 1 :
               Handled(m) \/ QueuedBefore(m, i)
      BY <2>1, <3>1, <1>1, <1>3 DEF SessionFrom, QueueFrom
    <3>3. \A j \in 1 .. i - 1 : events'[j].seq = events[j].seq
      BY <1>3, <2>1
    <3>4. ASSUME NEW m \in base + 1 .. events[i].seq - 1
          PROVE  Handled(m)' \/ \E j \in 1 .. i - 1 : events'[j].seq = m
      <4>1. CASE Handled(m)
        BY <1>2, <3>1, <4>1
      <4>2. CASE QueuedBefore(m, i)
        BY <3>3, <4>2 DEF QueuedBefore
      <4>3. QED BY <3>2, <4>1, <4>2
    <3>5. QED BY <3>1, <3>2, <3>4
  <2>2. CASE i = Len(events) + 1
    <3>1. i - 1 = Len(events) /\ events'[i].seq = cursor
      BY <2>2, <1>3
    <3>2. QED BY <3>1, <1>4
  <2>3. QED BY <2>1, <2>2, <1>3
<1>6. CursorFrom(base)'
  <2>1. base < cursor' /\ \A m \in base + 1 .. cursor' - 1 :
          Handled(m)' \/ \E j \in 1 .. Len(events) + 1 : events'[j].seq = m
    BY <1>3, <1>4
  <2>2. QED BY <2>1, <1>3 DEF CursorFrom, QueuedBefore
<1>7. ForwardedFrom(base)'
  <2> SUFFICES ASSUME NEW i \in DOMAIN forwarded,
                      NEW m \in base + 1 .. forwarded[i].seq
               PROVE  Handled(m)'
    BY DEF ForwardedFrom
  <2>1. forwarded[i].seq \in Nat
    BY <1>3, EventFields
  <2>2. QED BY <1>1, <1>2, <2>1 DEF SessionFrom, ForwardedFrom
<1>8. SessionFrom(base)'
  BY <1>1, <1>5, <1>6, <1>7 DEF SessionFrom
<1>9. SeenIsHanded'
  BY DEF OrderInv, SeenIsHanded
<1>10. QED BY <1>8, <1>9 DEF OrderInv

\* The transport task has handled the first event, and forwarded it or not.
LEMMA PopStep ==
  ASSUME IInv, Kept, OrderInv, events # <<>>, events' = Tail(events),
         UNCHANGED <<cursor, reader, relayAcked>>,
         seen_inner_ids \subseteq seen_inner_ids', SeenIsHanded',
         NEW first, first = Head(events),
         first.seq # Unnumbered => Handled(first.seq)',
         forwarded' = forwarded \/ forwarded' = Append(forwarded, first)
  PROVE  OrderInv'
<1>1. PICK base \in Nat : SessionFrom(base)
  BY DEF OrderInv
<1>2. \A m \in Nat : Handled(m) => Handled(m)'
  BY HandledStays
<1>3. /\ events \in Seq(Event) /\ cursor \in Nat \ {0}
      /\ Len(events) \in Nat /\ Len(events) > 0
      /\ DOMAIN events = 1 .. Len(events)
      /\ Len(events') = Len(events) - 1 /\ DOMAIN events' = 1 .. Len(events')
      /\ \A i \in 1 .. Len(events') : events'[i] = events[i + 1]
      /\ first = events[1] /\ forwarded \in Seq(Event)
  BY DEF IInv, DataOK
<1>4. first \in Event /\ first.seq \in Nat
  BY <1>3, EventFields
<1>5. ASSUME NEW m \in Nat \ {0}, NEW i \in 1 .. Len(events),
             Handled(m) \/ QueuedBefore(m, i + 1)
      PROVE  Handled(m)' \/ \E j \in 1 .. i - 1 : events'[j].seq = m
  <2>1. CASE Handled(m)
    BY <2>1, <1>2
  <2>2. CASE QueuedBefore(m, i + 1)
    <3>1. PICK j \in 1 .. i : events[j].seq = m
      BY <2>2 DEF QueuedBefore
    <3>2. CASE j = 1
      BY <3>1, <3>2, <1>3 DEF Unnumbered
    <3>3. CASE j # 1
      <4>1. j - 1 \in 1 .. i - 1 /\ events'[j - 1] = events[j]
        BY <3>3, <1>3
      <4>2. QED BY <4>1, <3>1
    <3>4. QED BY <3>2, <3>3
  <2>3. QED BY <1>5, <2>1, <2>2
<1>6. QueueFrom(base)'
  <2> SUFFICES ASSUME NEW i \in 1 .. Len(events'), events'[i].seq # Unnumbered
               PROVE  /\ base < events'[i].seq
                      /\ \A m \in base + 1 .. events'[i].seq - 1 :
                           \/ Handled(m)'
                           \/ \E j \in 1 .. i - 1 : events'[j].seq = m
    BY <1>3 DEF QueueFrom, QueuedBefore, Unnumbered
  <2>1. /\ i \in 1 .. Len(events) /\ i + 1 \in DOMAIN events
        /\ events'[i] = events[i + 1] /\ events[i + 1] \in Event
    BY <1>3
  <2>2. events[i + 1].seq \in Nat
    BY <2>1, EventFields
  <2>3. /\ base < events[i + 1].seq
        /\ \A m \in base + 1 .. events[i + 1].seq - 1 :
             Handled(m) \/ QueuedBefore(m, i + 1)
    BY <1>1, <2>1 DEF SessionFrom, QueueFrom
  <2>4. ASSUME NEW m \in base + 1 .. events[i + 1].seq - 1
        PROVE  Handled(m)' \/ \E j \in 1 .. i - 1 : events'[j].seq = m
    <3>1. m \in Nat \ {0} /\ (Handled(m) \/ QueuedBefore(m, i + 1))
      BY <2>2, <2>3
    <3>2. QED BY <1>5, <2>1, <3>1
  <2>5. QED BY <2>1, <2>3, <2>4
<1>7. CursorFrom(base)'
  <2>1. ASSUME reader, NEW m \in base + 1 .. cursor - 1
        PROVE  Handled(m)' \/ \E j \in 1 .. Len(events) - 1 : events'[j].seq = m
    <3>1. Len(events) \in 1 .. Len(events) /\ m \in Nat \ {0}
      BY <1>3
    <3>2. Handled(m) \/ QueuedBefore(m, Len(events) + 1)
      BY <2>1, <1>1 DEF SessionFrom, CursorFrom
    <3>3. QED BY <1>5, <3>1, <3>2
  <2>2. QED BY <2>1, <1>1, <1>3 DEF SessionFrom, CursorFrom, QueuedBefore
<1>8. ForwardedFrom(base)'
  <2> SUFFICES ASSUME NEW i \in DOMAIN forwarded',
                      NEW m \in base + 1 .. forwarded'[i].seq
               PROVE  Handled(m)'
    BY DEF ForwardedFrom
  <2>1. CASE i \in DOMAIN forwarded
    <3>1. forwarded'[i] = forwarded[i]
      <4>1. CASE forwarded' = Append(forwarded, first)
        BY <1>3, <2>1, <4>1
      <4>2. QED BY <4>1
    <3>2. forwarded[i].seq \in Nat
      BY <2>1, <1>3, EventFields
    <3>3. QED BY <1>1, <1>2, <2>1, <3>1, <3>2 DEF SessionFrom, ForwardedFrom
  <2>2. CASE i \notin DOMAIN forwarded
    <3>1. forwarded'[i] = first
      BY <2>2, <1>3
    <3>2. m \in Nat /\ first.seq # Unnumbered
      BY <3>1, <1>4 DEF Unnumbered
    <3>3. CASE m = first.seq
      BY <3>2, <3>3
    <3>4. CASE m # first.seq
      <4>1. m \in base + 1 .. first.seq - 1
        BY <3>1, <3>4, <1>4
      <4>2. Handled(m) \/ QueuedBefore(m, 1)
        BY <4>1, <3>2, <1>1, <1>3 DEF SessionFrom, QueueFrom
      <4>3. QED BY <4>2, <3>2, <1>2 DEF QueuedBefore
    <3>5. QED BY <3>3, <3>4
  <2>3. QED BY <2>1, <2>2
<1>9. SessionFrom(base)'
  BY <1>1, <1>6, <1>7, <1>8 DEF SessionFrom
<1>10. QED BY <1>9 DEF OrderInv

\* A new session begins after what the relay then has as acked.
LEMMA OpenStep ==
  ASSUME IInv, Kept, OrderInv, OpenSession,
         UNCHANGED <<forwarded, seen_inner_ids>>
  PROVE  OrderInv'
<1>1. PICK base \in Nat : SessionFrom(base)
  BY DEF OrderInv
<1>2. \A m \in Nat : Handled(m) => Handled(m)'
  BY HandledStays
<1>3. /\ relayAcked \in Nat /\ relayAcked' \in Nat /\ relayAcked <= relayAcked'
      /\ cursor' = relayAcked' + 1 /\ events' = <<>>
      /\ forwarded \in Seq(Event)
  BY DEF IInv, DataOK, OpenSession, Larger
<1>4. PICK start \in Nat : start = relayAcked'
  BY <1>3
<1>5. QueueFrom(start)'
  BY <1>3 DEF QueueFrom
<1>6. CursorFrom(start)'
  <2>1. cursor' = start + 1
    BY <1>3, <1>4
  <2>2. start < start + 1 /\ start + 1 - 1 = start
    OBVIOUS
  <2>3. \A m \in start + 1 .. start : FALSE
    OBVIOUS
  <2>4. QED BY <2>1, <2>2, <2>3 DEF CursorFrom
<1>7. ForwardedFrom(start)'
  <2> SUFFICES ASSUME NEW i \in DOMAIN forwarded,
                      NEW m \in start + 1 .. forwarded[i].seq
               PROVE  Handled(m)'
    BY DEF ForwardedFrom
  <2>1. forwarded[i].seq \in Nat
    BY <1>3, EventFields
  <2>2. base <= start
    BY <1>1, <1>3, <1>4 DEF SessionFrom
  <2>3. m \in Int /\ start + 1 <= m /\ m <= forwarded[i].seq
    BY <2>1
  <2>4. m \in Nat /\ base + 1 <= m
    BY <2>2, <2>3
  <2>5. m \in base + 1 .. forwarded[i].seq
    BY <2>1, <2>3, <2>4
  <2>6. QED BY <1>1, <1>2, <2>4, <2>5 DEF SessionFrom, ForwardedFrom
<1>8. SessionFrom(start)'
  BY <1>3, <1>4, <1>5, <1>6, <1>7 DEF SessionFrom
<1>9. SeenIsHanded'
  BY DEF OrderInv, SeenIsHanded
<1>10. QED BY <1>4, <1>8, <1>9 DEF OrderInv

LEMMA EndStep ==
  ASSUME OrderInv, NEW pending, ProcessEnds(pending)
  PROVE  OrderInv'
<1>1. PICK base \in Nat : SessionFrom(base)
  BY DEF OrderInv
<1>2. SessionFrom(base)'
  BY <1>1
  DEF SessionFrom, QueueFrom, CursorFrom, ForwardedFrom, ProcessEnds
<1>3. SeenIsHanded'
  BY DEF SeenIsHanded, ProcessEnds
<1>4. QED BY <1>2, <1>3 DEF OrderInv

\* What is known of the event at the head of the queue.
LEMMA HeadFacts ==
  ASSUME IInv, events # <<>>, NEW first, first = Head(events)
  PROVE  /\ first \in Event /\ first.seq \in Nat /\ first.id \in Ids
         /\ first.seq # Unnumbered =>
              /\ first.seq \in DOMAIN log /\ first.id = log[first.seq]
              /\ DurableUpTo(first.seq - 1)
<1>1. events \in Seq(Event) /\ 1 \in DOMAIN events /\ first = events[1]
  BY DEF IInv, DataOK
<1>2. first \in Event /\ first.seq \in Nat /\ first.id \in Ids
  BY <1>1, EventFields
<1>3. ASSUME first.seq # Unnumbered
      PROVE  /\ first.seq \in DOMAIN log /\ first.id = log[first.seq]
             /\ \A m \in 1 .. first.seq - 1 : Durable(m) \/ QueuedBefore(m, 1)
  BY <1>1, <1>3 DEF IInv, NothingPassedOver, QueueInOrder
<1>4. QED BY <1>2, <1>3 DEF DurableUpTo, QueuedBefore

LEMMA HandleInnerStep ==
  ASSUME IInv, Kept, OrderInv, NEW stored \in BOOLEAN, NEW elapsed \in BOOLEAN,
         HandleInner(stored, elapsed)
  PROVE  OrderInv'
<1>1. PICK first : first = Head(events)
  OBVIOUS
<1>2. /\ events # <<>> /\ events' = Tail(events) /\ Forward(first)
      /\ UNCHANGED <<cursor, reader, relayAcked, log>>
  BY <1>1 DEF HandleInner
<1>3. /\ forwarded' = forwarded \/ forwarded' = Append(forwarded, first)
      /\ seen_inner_ids \subseteq seen_inner_ids' /\ first.id \in seen_inner_ids'
  BY <1>2 DEF Forward
<1>4. SeenIsHanded'
  <2>1. CASE first.id \in seen_inner_ids
    BY <1>2, <2>1 DEF Forward, OrderInv, SeenIsHanded
  <2>2. CASE first.id \notin seen_inner_ids
    <3>1. /\ seen_inner_ids' = seen_inner_ids \cup {first.id}
          /\ forwarded' = Append(forwarded, first) /\ forwarded \in Seq(Event)
      BY <1>2, <2>2 DEF Forward, IInv, DataOK
    <3>2. /\ DOMAIN forwarded' = DOMAIN forwarded \cup {Len(forwarded) + 1}
          /\ forwarded'[Len(forwarded) + 1] = first
          /\ \A i \in DOMAIN forwarded : forwarded'[i] = forwarded[i]
      BY <3>1
    <3>3. QED BY <3>1, <3>2 DEF OrderInv, SeenIsHanded
  <2>3. QED BY <2>1, <2>2
<1>5. first.seq # Unnumbered => Handled(first.seq)'
  BY <1>1, <1>2, <1>3, HeadFacts DEF Handled
<1>6. QED BY <1>1, <1>2, <1>3, <1>4, <1>5, PopStep

LEMMA OrderInvPreserved == IInv /\ OrderInv /\ [Next]_vars => OrderInv'
<1> SUFFICES ASSUME IInv, OrderInv, [Next]_vars PROVE OrderInv'
  OBVIOUS
<1> USE DEF taskVars, sessionVars, relayVars, storeVars, consumerVars
<1>1. Kept /\ DataOK' /\ relayAcked \in Nat /\ relayAcked <= relayAcked
  <2>1. DataOK
    BY DEF IInv
  <2>2. Kept /\ DataOK'
    BY <2>1, DataPreserved, StepKeeps
  <2>3. relayAcked \in Nat
    BY <2>1 DEF DataOK
  <2>4. QED BY <2>2, <2>3
<1>2. ASSUME NEW id \in Ids, PeerPosts(id) PROVE OrderInv'
  BY <1>1, <1>2, QuietStep DEF PeerPosts
<1>3. ASSUME NEW id \in Ids, RelayPushesUnnumbered(id) PROVE OrderInv'
  <2> DEFINE event == [seq |-> Unnumbered, id |-> id]
  <2>1. event \in Event /\ event.seq = Unnumbered
    BY <1>3, NewEvent DEF Unnumbered
  <2>2. QED BY <1>1, <1>3, <2>1, PushStep DEF RelayPushesUnnumbered
<1>4. CASE RelayPushes
  <2> DEFINE event == [seq |-> cursor, id |-> log[cursor]]
  <2>1. event \in Event /\ event.seq = cursor
    <3>1. cursor \in Nat /\ log[cursor] \in Ids
      BY <1>4 DEF IInv, DataOK, RelayPushes
    <3>2. QED BY <3>1, NewEvent
  <2>2. QED BY <1>1, <1>4, <2>1, PushStep DEF RelayPushes
<1>5. CASE ReaderRejects
  <2>1. PICK base \in Nat : SessionFrom(base)
    BY DEF OrderInv
  <2>2. /\ UNCHANGED <<events, log, forwarded, seen_inner_ids, skipped, relayAcked>>
        /\ ~reader' /\ cursor' = cursor + 1
    BY <1>5 DEF ReaderRejects
  <2>3. QueueFrom(base)' /\ ForwardedFrom(base)' /\ SeenIsHanded'
    BY <2>1, <2>2
    DEF OrderInv, SeenIsHanded, SessionFrom, QueueFrom, ForwardedFrom, Handled,
        QueuedBefore
  <2>4. CursorFrom(base)'
    <3>1. base < cursor /\ cursor \in Nat
      BY <2>1 DEF IInv, DataOK, SessionFrom, CursorFrom
    <3>2. base < cursor'
      BY <2>2, <3>1
    <3>3. QED BY <2>2, <3>2 DEF CursorFrom
  <2>5. SessionFrom(base)'
    BY <2>1, <2>2, <2>3, <2>4 DEF SessionFrom
  <2>6. QED BY <2>3, <2>5 DEF OrderInv
<1>6. ASSUME NEW upTo \in acks, RelayTakesAck(upTo) PROVE OrderInv'
  <2>1. relayAcked' \in Nat /\ relayAcked <= relayAcked'
    BY <1>6 DEF IInv, DataOK, RelayTakesAck, Larger
  <2>2. QED BY <1>1, <1>6, <2>1, QuietStep DEF RelayTakesAck
<1>7. CASE LinkDrops
  BY <1>1, <1>7, QuietStep DEF LinkDrops
<1>8. CASE Start
  BY <1>1, <1>8, OpenStep DEF Start
<1>9. ASSUME NEW stored \in BOOLEAN, NEW elapsed \in BOOLEAN,
             HandleInner(stored, elapsed)
      PROVE  OrderInv'
  BY <1>1, <1>9, HandleInnerStep
<1>10. CASE HandleInnerPersistFails
  <2>1. PICK first : first = Head(events)
    OBVIOUS
  <2>2. first.seq # Unnumbered => Handled(first.seq)'
    BY <1>10, <2>1 DEF HandleInnerPersistFails, Handled
  <2>3. SeenIsHanded'
    BY <1>10 DEF HandleInnerPersistFails, OrderInv, SeenIsHanded
  <2>4. QED
    BY <1>1, <1>10, <2>1, <2>2, <2>3, PopStep DEF HandleInnerPersistFails
<1>11. CASE FlushPumpIfDue
  BY <1>1, <1>11, QuietStep DEF FlushPumpIfDue
<1>12. CASE SessionEnds \/ ReconnectFails \/ ConsumerTakes
  BY <1>1, <1>12, QuietStep DEF SessionEnds, ReconnectFails, ConsumerTakes
<1>13. CASE Reconnect
  BY <1>1, <1>13, OpenStep DEF Reconnect
<1>14. CASE Crash \/ CrashAfterPersist \/ Disconnect
  BY <1>14, EndStep DEF Crash, CrashAfterPersist, Disconnect
<1>15. CASE UNCHANGED vars
  BY <1>1, <1>15, QuietStep DEF vars
<1>16. QED
  BY <1>2, <1>3, <1>4, <1>5, <1>6, <1>7, <1>8, <1>9, <1>10, <1>11, <1>12,
     <1>13, <1>14, <1>15 DEF Next

-----------------------------------------------------------------------------
(* The refinement *)

\* What a step of the relay's record means to Mailbox: an ack of a prefix that
\* is durable, or nothing.
LEMMA AckIsForget ==
  ASSUME IInv, NEW n \in Nat, DurableUpTo(n), relayAcked' = Larger(relayAcked, n),
         UNCHANGED <<log, received_messages, skipped, forwarded>>
  PROVE  MB!Next \/ UNCHANGED MB!vars
<1>1. relayAcked \in Nat
  BY DEF IInv, DataOK
<1>2. CASE n > relayAcked
  <2>1. relayAcked' = n /\ n \in DOMAIN log /\ \A m \in 1 .. n : Durable(m)
    BY <1>1, <1>2 DEF Larger, DurableUpTo, Durable
  <2>2. MB!SafeUpTo(n)
    BY <2>1 DEF MB!SafeUpTo, Durable
  <2>3. MB!Forget(n)
    BY <1>2, <2>1, <2>2 DEF MB!Forget
  <2>4. QED BY <2>1, <2>3 DEF MB!Next
<1>3. CASE ~(n > relayAcked)
  <2>1. relayAcked' = relayAcked
    BY <1>1, <1>3 DEF Larger
  <2>2. QED BY <2>1 DEF MB!vars
<1>4. QED BY <1>2, <1>3

LEMMA OpenSessionIsForget ==
  ASSUME IInv, OpenSession,
         UNCHANGED <<received_messages, skipped, forwarded>>
  PROVE  MB!Next \/ UNCHANGED MB!vars
<1>1. last_acked_seq \in Nat /\ DurableUpTo(last_acked_seq)
  BY DEF IInv, DataOK, AckedIsDurable
<1>2. QED BY <1>1, AckIsForget DEF OpenSession

\* drive_session's handling of a message is its delivery.
LEMMA HandleInnerDelivers ==
  ASSUME IInv, OrderInv, NEW stored \in BOOLEAN, NEW elapsed \in BOOLEAN,
         HandleInner(stored, elapsed)
  PROVE  MB!Next
<1>1. PICK first : first = Head(events)
  OBVIOUS
<1>2. PICK seq, id : seq = first.seq /\ id = first.id
  OBVIOUS
<1>3. /\ events # <<>> /\ Forward(first)
      /\ received_messages' = received_messages \cup {id}
      /\ UNCHANGED <<log, skipped, relayAcked>>
  BY <1>1, <1>2 DEF HandleInner
<1>4. /\ first \in Event /\ seq \in Nat /\ id \in Ids
      /\ seq # Unnumbered =>
           seq \in DOMAIN log /\ id = log[seq] /\ DurableUpTo(seq - 1)
  BY <1>1, <1>2, <1>3, HeadFacts
<1>5. first = [seq |-> seq, id |-> id]
  BY <1>2, <1>4 DEF Event
<1>6. MB!HandOver(seq, id)
  BY <1>2, <1>3, <1>5
  DEF Forward, OrderInv, SeenIsHanded, MB!HandOver, MB!HandedIds
<1>7. CASE seq = Unnumbered
  <2>1. MB!DeliverUnnumbered(id)
    BY <1>3, <1>6, <1>7 DEF MB!DeliverUnnumbered, Unnumbered
  <2>2. QED BY <2>1, <1>4 DEF MB!Next
<1>8. CASE seq # Unnumbered
  <2>1. seq \in DOMAIN log /\ id = log[seq] /\ DurableUpTo(seq - 1)
    BY <1>4, <1>8
  <2>2. MB!SafeUpTo(seq - 1)
    BY <2>1 DEF MB!SafeUpTo, DurableUpTo, Durable
  <2>3. log[seq] \in MB!HandedIds \/ MB!Reached(seq) \/ seq \in skipped
    <3> SUFFICES ASSUME ~MB!Reached(seq) PROVE Handled(seq)
      BY DEF Handled, OrderInv, SeenIsHanded, MB!HandedIds
    <3>1. PICK i \in DOMAIN forwarded : ~(forwarded[i].seq < seq)
      BY DEF MB!Reached
    <3>2. forwarded[i].seq \in Nat
      BY EventFields DEF IInv, DataOK
    <3>3. PICK base \in Nat : SessionFrom(base)
      BY DEF OrderInv
    <3>4. 1 \in DOMAIN events /\ events[1].seq = seq
      BY <1>1, <1>2, <1>3 DEF IInv, DataOK
    <3>5. base < seq
      BY <1>8, <3>3, <3>4 DEF SessionFrom, QueueFrom
    <3>6. seq \in base + 1 .. forwarded[i].seq
      BY <1>4, <3>1, <3>2, <3>5
    <3>7. QED BY <3>3, <3>6 DEF SessionFrom, ForwardedFrom
  <2>4. MB!Deliver(seq)
    BY <2>1, <2>2, <2>3, <1>3, <1>6 DEF MB!Deliver
  <2>5. QED BY <2>1, <2>4 DEF MB!Next
<1>9. QED BY <1>7, <1>8

\* An insert that fails loses the message, or did not concern a numbered one.
LEMMA PersistFailsLoses ==
  ASSUME IInv, HandleInnerPersistFails
  PROVE  MB!Next \/ UNCHANGED MB!vars
<1>1. PICK first : first = Head(events)
  OBVIOUS
<1>2. PICK seq : seq = first.seq
  OBVIOUS
<1>3. /\ events # <<>> /\ skipped' = skipped \cup ({seq} \ {Unnumbered})
      /\ UNCHANGED <<log, received_messages, forwarded, relayAcked>>
  BY <1>1, <1>2
  DEF HandleInnerPersistFails, relayVars, storeVars, consumerVars
<1>4. CASE seq = Unnumbered
  BY <1>3, <1>4 DEF MB!vars
<1>5. CASE seq # Unnumbered
  <2>1. seq \in DOMAIN log /\ DurableUpTo(seq - 1)
    BY <1>1, <1>2, <1>3, <1>5, HeadFacts
  <2>2. MB!SafeUpTo(seq - 1)
    BY <2>1 DEF MB!SafeUpTo, DurableUpTo, Durable
  <2>3. MB!Lose(seq)
    BY <1>3, <1>5, <2>1, <2>2 DEF MB!Lose
  <2>4. QED BY <2>1, <2>3 DEF MB!Next
<1>6. QED BY <1>4, <1>5

LEMMA StepIsMailboxStep ==
  IInv /\ OrderInv /\ [Next]_vars => MB!Next \/ UNCHANGED MB!vars
<1> SUFFICES ASSUME IInv, OrderInv, [Next]_vars
             PROVE  MB!Next \/ UNCHANGED MB!vars
  OBVIOUS
<1> USE DEF taskVars, sessionVars, relayVars, storeVars, consumerVars
<1>1. ASSUME NEW id \in Ids, PeerPosts(id) PROVE MB!Next
  <2>1. MB!Post(id)
    BY <1>1 DEF PeerPosts, MB!Post
  <2>2. QED BY <2>1 DEF MB!Next
<1>2. ASSUME NEW id \in Ids, RelayPushesUnnumbered(id) PROVE UNCHANGED MB!vars
  BY <1>2 DEF RelayPushesUnnumbered, MB!vars
<1>3. CASE RelayPushes \/ ReaderRejects \/ LinkDrops
  BY <1>3 DEF RelayPushes, ReaderRejects, LinkDrops, MB!vars
<1>4. ASSUME NEW upTo \in acks, RelayTakesAck(upTo)
      PROVE  MB!Next \/ UNCHANGED MB!vars
  <2>1. upTo \in Nat /\ DurableUpTo(upTo)
    BY DEF IInv, DataOK, AckedIsDurable
  <2>2. QED BY <1>4, <2>1, AckIsForget DEF RelayTakesAck
<1>5. CASE Start \/ Reconnect
  BY <1>5, OpenSessionIsForget DEF Start, Reconnect
<1>6. ASSUME NEW stored \in BOOLEAN, NEW elapsed \in BOOLEAN,
             HandleInner(stored, elapsed)
      PROVE  MB!Next
  BY <1>6, HandleInnerDelivers
<1>7. CASE HandleInnerPersistFails
  BY <1>7, PersistFailsLoses
<1>8. CASE FlushPumpIfDue \/ SessionEnds \/ ReconnectFails \/ ConsumerTakes
  BY <1>8 DEF FlushPumpIfDue, SessionEnds, ReconnectFails, ConsumerTakes, MB!vars
<1>9. CASE Crash \/ Disconnect
  <2>1. MB!Restart
    BY <1>9 DEF Crash, Disconnect, ProcessEnds, MB!Restart
  <2>2. QED BY <2>1 DEF MB!Next
<1>10. CASE CrashAfterPersist
  <2>1. PICK first : first = Head(events)
    OBVIOUS
  <2>2. first.id \in Ids
    BY <1>10, <2>1, HeadFacts DEF CrashAfterPersist
  <2>3. MB!Restart
    BY <1>10, <2>1, <2>2 DEF CrashAfterPersist, ProcessEnds, MB!Restart
  <2>4. QED BY <2>3 DEF MB!Next
<1>11. CASE UNCHANGED vars
  BY <1>11 DEF vars, MB!vars
<1>12. QED
  BY <1>1, <1>2, <1>3, <1>4, <1>5, <1>6, <1>7, <1>8, <1>9, <1>10, <1>11 DEF Next

\* The transport keeps the promise of Mailbox: sessions, batches, redriven
\* messages, failing inserts and crashes are not visible in what it hands over
\* and what it lets the relay forget.
THEOREM InboundImplementsMailbox == Spec => MailboxSpec
<1>1. Init => OrderInv
  <2> SUFFICES ASSUME Init PROVE OrderInv
    OBVIOUS
  <2>1. SessionFrom(0)
    BY DEF Init, SessionFrom, QueueFrom, CursorFrom, ForwardedFrom
  <2>2. SeenIsHanded
    BY DEF Init, SeenIsHanded
  <2>3. QED BY <2>1, <2>2 DEF OrderInv
<1>2. Init => MB!Init
  BY DEF Init, MB!Init
<1>3. IInv /\ OrderInv /\ [Next]_vars => [MB!Next]_MB!vars
  BY StepIsMailboxStep
<1>4. QED
  BY <1>1, <1>2, <1>3, IInvHolds, OrderInvPreserved, PTL
  DEF Spec, MailboxSpec, MB!Spec

=============================================================================
