--------------------------- MODULE OutboundProofs ---------------------------
(***************************************************************************)
(* Proofs about Outbound, for every set of messages and every bound: type  *)
(* correctness, that no tick claims more than is so, that ticks only move  *)
(* on, and that no message falls between the tasks.                        *)
(***************************************************************************)
EXTENDS Screen, TLAPS

-----------------------------------------------------------------------------
(* The tracker *)

LEMMA TrackerType ==
  ASSUME NEW t \in Tracker, NEW m \in Msgs
  PROVE  /\ Track(t, m) \in Tracker /\ MarkSent(t, m) \in Tracker
         /\ MarkDelivered(t, m) \in Tracker /\ MarkFailed(t, m) \in Tracker
         /\ MarkAllFailed(t) \in Tracker
BY DEF Tracker, OutboundState, Track, MarkSent, MarkDelivered, MarkFailed,
       MarkAllFailed

\* A message is at least Sent after a mark if it was before, or was marked so.
AtLeastSent(t) == {m \in Msgs : t[m] \in {"Sent", "Delivered"}}

LEMMA TrackerMarks ==
  ASSUME NEW t \in Tracker, NEW m \in Msgs
  PROVE  /\ AtLeastSent(Track(t, m)) \subseteq AtLeastSent(t)
         /\ AtLeastSent(MarkFailed(t, m)) \subseteq AtLeastSent(t)
         /\ AtLeastSent(MarkAllFailed(t)) \subseteq AtLeastSent(t)
         /\ AtLeastSent(MarkSent(t, m)) \subseteq AtLeastSent(t) \cup {m}
         /\ AtLeastSent(MarkDelivered(t, m)) \subseteq AtLeastSent(t) \cup {m}
BY DEF AtLeastSent, Tracker, OutboundState, Track, MarkSent, MarkDelivered,
       MarkFailed, MarkAllFailed

-----------------------------------------------------------------------------
(* The events of the transport *)

LEMMA NoticeMade ==
  ASSUME NEW m \in Msgs
  PROVE  /\ Status(m, "Sent") \in Notice /\ Status(m, "Failed") \in Notice
         /\ ReceiveAck(m) \in Notice
         /\ Reconnecting \in Notice /\ Disconnected \in Notice
BY DEF Notice, Status, ReceiveAck, Reconnecting, Disconnected

LEMMA NoticeFields ==
  ASSUME NEW n \in Notice
  PROVE  /\ n.kind = "Status" => n.id \in Msgs
         /\ n.kind = "Receive" => n.refs \in Msgs
BY DEF Notice, Reconnecting, Disconnected

\* Event n says that the relay has message m.
Tells(n, m) ==
  \/ n.kind = "Status" /\ n.status = "Sent" /\ n.id = m
  \/ n.kind = "Receive" /\ n.refs = m

LEMMA WhatNoticesTell ==
  ASSUME NEW m, NEW other
  PROVE  /\ Tells(Status(m, "Sent"), other) => other = m
         /\ Tells(ReceiveAck(m), other) => other = m
         /\ ~Tells(Status(m, "Failed"), other)
         /\ ~Tells(Reconnecting, other) /\ ~Tells(Disconnected, other)
BY DEF Tells, Status, ReceiveAck, Reconnecting, Disconnected

LEMMA HeadTailElements ==
  ASSUME NEW S, NEW q \in Seq(S), q # <<>>
  PROVE  /\ Head(q) \in S /\ Tail(q) \in Seq(S)
         /\ Elements(q) = {Head(q)} \cup Elements(Tail(q))
         /\ Head(q) \in Elements(q) /\ Elements(Tail(q)) \subseteq Elements(q)
<1>1. /\ Head(q) = q[1] /\ 1 \in DOMAIN q
      /\ DOMAIN q = 1 .. Len(q) /\ Len(q) \in Nat
      /\ DOMAIN Tail(q) = 1 .. Len(q) - 1
      /\ \A i \in DOMAIN Tail(q) : Tail(q)[i] = q[i + 1] /\ i + 1 \in DOMAIN q
      /\ Tail(q) \in Seq(S) /\ Head(q) \in S
  OBVIOUS
<1>2. \A i \in DOMAIN q : i # 1 => i - 1 \in DOMAIN Tail(q) /\ Tail(q)[i - 1] = q[i]
  BY <1>1
<1>3. Head(q) \in Elements(q) /\ Elements(Tail(q)) \subseteq Elements(q)
  BY <1>1 DEF Elements
<1>4. Elements(q) \subseteq {Head(q)} \cup Elements(Tail(q))
  <2> SUFFICES ASSUME NEW i \in DOMAIN q, i # 1 PROVE q[i] \in Elements(Tail(q))
    BY <1>1 DEF Elements
  <2>1. QED BY <1>2 DEF Elements
<1>5. QED BY <1>1, <1>3, <1>4

LEMMA AppendElements ==
  ASSUME NEW S, NEW q \in Seq(S), NEW e \in S
  PROVE  /\ Append(q, e) \in Seq(S)
         /\ Elements(Append(q, e)) = Elements(q) \cup {e}
<1>1. /\ DOMAIN Append(q, e) = DOMAIN q \cup {Len(q) + 1}
      /\ Append(q, e)[Len(q) + 1] = e
      /\ \A i \in DOMAIN q : Append(q, e)[i] = q[i]
  OBVIOUS
<1>2. QED BY <1>1 DEF Elements

-----------------------------------------------------------------------------
(* Type correctness *)

LEMMA FlagsPreserved == FlagsOK /\ [Next]_vars => FlagsOK'
<1> SUFFICES ASSUME FlagsOK, [Next]_vars PROVE FlagsOK'
  OBVIOUS
<1> USE DEF chatVars, taskVars, sessionVars, netVars, FlagsOK
<1>1. ASSUME NEW m \in Msgs, Submit(m) \/ ForwardInnerAck(m) PROVE FlagsOK'
  BY <1>1 DEF Submit, ForwardInnerAck
<1>2. CASE TakeNotice \/ Quit \/ HandleSend \/ HandleDisconnect \/ HandleRecvAck
  BY <1>2 DEF TakeNotice, Quit, HandleSend, HandleDisconnect, HandleRecvAck
<1>3. CASE SessionEnds \/ Reconnect \/ ReconnectFails
  BY <1>3 DEF SessionEnds, Reconnect, ReconnectFails
<1>4. CASE RelayAccepts \/ LinkDrops \/ RelayCloses
  BY <1>4 DEF RelayAccepts, LinkDrops, RelayCloses, LoseConnection
<1>5. ASSUME NEW m \in Msgs, StrayAccepted(m) \/ RelayAckArrives(m)
      PROVE  FlagsOK'
  BY <1>5 DEF StrayAccepted, RelayAckArrives
<1>6. CASE ReaderEnds \/ WriterEnds \/ ReaderRejects \/ HeartbeatTimesOut
  BY <1>6 DEF ReaderEnds, WriterEnds, ReaderRejects, HeartbeatTimesOut
<1>7. CASE UNCHANGED vars
  BY <1>7 DEF vars
<1>8. QED BY <1>1, <1>2, <1>3, <1>4, <1>5, <1>6, <1>7 DEF Next, Behind

LEMMA UsedType ==
  ASSUME NEW u \in [drops : Nat, timeouts : Nat, rejects : Nat, failures : Nat]
  PROVE  {[u EXCEPT !.drops = @ + 1], [u EXCEPT !.timeouts = @ + 1],
          [u EXCEPT !.rejects = @ + 1], [u EXCEPT !.failures = @ + 1]}
           \subseteq [drops : Nat, timeouts : Nat, rejects : Nat, failures : Nat]
OBVIOUS

LEMMA DataPreserved == DataOK /\ [Next]_vars => DataOK'
<1> SUFFICES ASSUME DataOK, [Next]_vars PROVE DataOK'
  OBVIOUS
<1> USE DEF chatVars, taskVars, sessionVars, netVars
<1>1. ASSUME NEW m \in Msgs, Submit(m) PROVE DataOK'
  <2>1. tracker' \in Tracker
    BY <1>1, TrackerType DEF DataOK, Submit
  <2>2. cmds' \in Seq(Msgs \cup {Disconnect})
    BY <1>1 DEF DataOK, Submit
  <2>3. QED BY <1>1, <2>1, <2>2 DEF DataOK, Submit
<1>2. ASSUME NEW m \in Msgs, ForwardInnerAck(m) PROVE DataOK'
  <2>1. notices' \in Seq(Notice)
    BY <1>2, NoticeMade, AppendElements DEF DataOK, ForwardInnerAck
  <2>2. QED BY <1>2, <2>1 DEF DataOK, ForwardInnerAck
<1>3. CASE TakeNotice
  <2>1. PICK n : n = Head(notices)
    OBVIOUS
  <2>2. n \in Notice /\ notices' \in Seq(Notice)
    BY <1>3, <2>1, HeadTailElements DEF DataOK, TakeNotice
  <2>3. tracker' \in Tracker
    <3>1. tracker \in Tracker
      BY DEF DataOK
    <3>2. \/ n.kind = "Status" /\ tracker' = MarkSent(tracker, n.id)
          \/ n.kind = "Status" /\ tracker' = MarkFailed(tracker, n.id)
          \/ n.kind = "Receive" /\ tracker' = MarkDelivered(tracker, n.refs)
          \/ tracker' = MarkAllFailed(tracker)
      BY <1>3, <2>1 DEF TakeNotice
    <3>3. CASE n.kind \in {"Status", "Receive"}
      BY <2>2, <3>1, <3>2, <3>3, NoticeFields, TrackerType
    <3>4. CASE tracker' = MarkAllFailed(tracker)
      BY <3>1, <3>4 DEF MarkAllFailed, Tracker, OutboundState
    <3>5. QED BY <3>2, <3>3, <3>4
  <2>4. QED BY <1>3, <2>2, <2>3 DEF DataOK, TakeNotice
<1>4. CASE Quit
  <2>1. cmds' \in Seq(Msgs \cup {Disconnect})
    BY <1>4 DEF DataOK, Quit
  <2>2. QED BY <1>4, <2>1 DEF DataOK, Quit
<1>5. CASE HandleSend
  <2>1. PICK m : m = Head(cmds)
    OBVIOUS
  <2>2. m \in Msgs /\ cmds' \in Seq(Msgs \cup {Disconnect})
    BY <1>5, <2>1, HeadTailElements DEF DataOK, HandleSend
  <2>3. CASE writer
    <3>1. outgoing' \in Seq(Msgs \cup {Close})
      <4>1. outgoing' \in {outgoing, Append(outgoing, m)}
        BY <1>5, <2>1, <2>3 DEF HandleSend, QueueOnWriter
      <4>2. Append(outgoing, m) \in Seq(Msgs \cup {Close})
        BY <2>2 DEF DataOK
      <4>3. QED BY <4>1, <4>2 DEF DataOK
    <3>2. QED BY <1>5, <2>2, <2>3, <3>1 DEF DataOK, HandleSend, QueueOnWriter
  <2>4. CASE ~writer
    <3>1. notices' \in Seq(Notice)
      <4>1. notices' = Append(notices, Status(m, "Failed"))
        BY <1>5, <2>1, <2>4 DEF HandleSend
      <4>2. QED BY <4>1, <2>2, NoticeMade, AppendElements DEF DataOK
    <3>2. QED BY <1>5, <2>2, <2>4, <3>1 DEF DataOK, HandleSend
  <2>5. QED BY <2>3, <2>4
<1>6. CASE HandleDisconnect
  <2>1. notices' = Append(notices, Disconnected) /\ Disconnected \in Notice
    BY <1>6 DEF HandleDisconnect, Notice
  <2>2. notices' \in Seq(Notice)
    BY <2>1, AppendElements DEF DataOK
  <2>3. cmds' \in Seq(Msgs \cup {Disconnect})
    BY <1>6, HeadTailElements DEF DataOK, HandleDisconnect
  <2>4. QED BY <1>6, <2>2, <2>3 DEF DataOK, HandleDisconnect
<1>7. CASE HandleRecvAck
  <2>1. PICK m : m = Head(recvAcks)
    OBVIOUS
  <2>2. m \in Msgs /\ recvAcks' \in Seq(Msgs)
    BY <1>7, <2>1, HeadTailElements DEF DataOK, HandleRecvAck
  <2>3. notices' \in Seq(Notice)
    BY <1>7, <2>1, <2>2, NoticeMade, AppendElements DEF DataOK, HandleRecvAck
  <2>4. QED BY <1>7, <2>2, <2>3 DEF DataOK, HandleRecvAck
<1>8. CASE SessionEnds
  <2>1. notices' = Append(notices, Reconnecting) /\ Reconnecting \in Notice
    BY <1>8 DEF SessionEnds, Notice
  <2>2. notices' \in Seq(Notice)
    BY <2>1, AppendElements DEF DataOK
  <2>3. QED BY <1>8, <2>2 DEF DataOK, SessionEnds
<1>9. CASE Reconnect
  <2>1. Elements(outgoing) \ {Close} \subseteq Msgs
    BY DEF DataOK, Elements
  <2>2. QED BY <1>9, <2>1 DEF DataOK, Reconnect
<1>10. CASE ReconnectFails
  BY <1>10, UsedType DEF DataOK, ReconnectFails
<1>11. CASE RelayAccepts
  <2>1. PICK m : m = Head(outgoing)
    OBVIOUS
  <2>2. m \in Msgs /\ outgoing' \in Seq(Msgs \cup {Close})
    BY <1>11, <2>1, HeadTailElements DEF DataOK, RelayAccepts
  <2>3. QED BY <1>11, <2>1, <2>2 DEF DataOK, RelayAccepts
<1>12. ASSUME NEW m \in Msgs, StrayAccepted(m) PROVE DataOK'
  BY <1>12 DEF DataOK, StrayAccepted
<1>13. ASSUME NEW m \in Msgs, RelayAckArrives(m) PROVE DataOK'
  <2>1. recvAcks' \in Seq(Msgs)
    BY <1>13 DEF DataOK, RelayAckArrives
  <2>2. QED BY <1>13, <2>1 DEF DataOK, RelayAckArrives
<1>14. CASE LinkDrops
  <2>1. used' \in [drops : Nat, timeouts : Nat, rejects : Nat, failures : Nat]
    BY <1>14, UsedType DEF DataOK, LinkDrops
  <2>2. QED BY <1>14, <2>1 DEF DataOK, LinkDrops, LoseConnection
<1>15. CASE RelayCloses
  BY <1>15 DEF DataOK, RelayCloses, LoseConnection
<1>16. CASE ReaderEnds \/ WriterEnds
  BY <1>16 DEF DataOK, ReaderEnds, WriterEnds
<1>17. CASE ReaderRejects
  BY <1>17, UsedType DEF DataOK, ReaderRejects
<1>18. CASE HeartbeatTimesOut
  <2>1. outgoing' \in Seq(Msgs \cup {Close})
    BY <1>18 DEF DataOK, HeartbeatTimesOut
  <2>2. QED BY <1>18, <2>1, UsedType DEF DataOK, HeartbeatTimesOut
<1>19. CASE UNCHANGED vars
  BY <1>19 DEF DataOK, vars
<1>20. QED
  BY <1>1, <1>2, <1>3, <1>4, <1>5, <1>6, <1>7, <1>8, <1>9, <1>10, <1>11,
     <1>12, <1>13, <1>14, <1>15, <1>16, <1>17, <1>18, <1>19 DEF Next, Behind

LEMMA DataHolds == Spec => []DataOK
<1>1. Init => DataOK
  BY DEF Init, DataOK, NothingTracked, Tracker
<1>2. QED BY <1>1, DataPreserved, PTL DEF Spec

\* The channels carry what their readers expect, in every session.
THEOREM TypeCorrect == Spec => []TypeOK
<1>1. Init => FlagsOK
  BY DEF Init, FlagsOK
<1>2. QED
  BY <1>1, DataHolds, FlagsPreserved, PTL DEF Spec, TypeOK

-----------------------------------------------------------------------------
(* Ticks are true *)

\* All that the transport says, or is about to say, of messages at the relay.
NewsIsTrue ==
  /\ \A n \in Elements(notices) : \A m \in Msgs : Tells(n, m) => m \in atRelay
  /\ Elements(recvAcks) \subseteq atRelay
  /\ ackFrames \subseteq atRelay

TruthInv == TickIsTrue /\ NewsIsTrue

LEMMA TickIsTrueMeans == TickIsTrue <=> AtLeastSent(tracker) \subseteq atRelay
BY DEF TickIsTrue, AtLeastSent

LEMMA NewsStep ==
  ASSUME NewsIsTrue, atRelay \subseteq atRelay',
         Elements(recvAcks') \subseteq atRelay', ackFrames' \subseteq atRelay',
         \A n \in Elements(notices') :
           n \in Elements(notices) \/ \A m \in Msgs : Tells(n, m) => m \in atRelay'
  PROVE  NewsIsTrue'
BY DEF NewsIsTrue, Elements

LEMMA TickStep ==
  ASSUME TickIsTrue, atRelay \subseteq atRelay',
         AtLeastSent(tracker') \subseteq AtLeastSent(tracker)
  PROVE  TickIsTrue'
BY DEF TickIsTrue, AtLeastSent

LEMMA TakeNoticeIsTrue ==
  ASSUME DataOK, TruthInv, TakeNotice PROVE TruthInv'
<1> USE DEF chatVars, taskVars, sessionVars, netVars
<1>1. PICK n : n = Head(notices)
  OBVIOUS
<1>2. /\ n \in Notice /\ n \in Elements(notices)
      /\ Elements(notices') \subseteq Elements(notices)
      /\ UNCHANGED <<recvAcks, ackFrames, atRelay>>
  BY <1>1, HeadTailElements DEF DataOK, TakeNotice
<1>3. NewsIsTrue'
  BY <1>2, NewsStep DEF TruthInv, NewsIsTrue
<1>4. tracker \in Tracker
  BY DEF DataOK
<1>5. AtLeastSent(tracker) \subseteq atRelay
  BY TickIsTrueMeans DEF TruthInv
<1>6. AtLeastSent(tracker') \subseteq atRelay
  <2>1. CASE n.kind = "Status" /\ n.status = "Sent" /\ tracker' = MarkSent(tracker, n.id)
    <3>1. n.id \in Msgs /\ n.id \in atRelay
      BY <1>2, <2>1, NoticeFields DEF TruthInv, NewsIsTrue, Tells
    <3>2. QED BY <1>4, <1>5, <2>1, <3>1, TrackerMarks
  <2>2. CASE n.kind = "Status" /\ tracker' = MarkFailed(tracker, n.id)
    BY <1>2, <1>4, <1>5, <2>2, NoticeFields, TrackerMarks
  <2>3. CASE n.kind = "Receive" /\ tracker' = MarkDelivered(tracker, n.refs)
    <3>1. n.refs \in Msgs /\ n.refs \in atRelay
      BY <1>2, <2>3, NoticeFields DEF TruthInv, NewsIsTrue, Tells
    <3>2. QED BY <1>4, <1>5, <2>3, <3>1, TrackerMarks
  <2>4. CASE tracker' = MarkAllFailed(tracker)
    BY <1>5, <2>4 DEF AtLeastSent, MarkAllFailed
  <2>5. QED BY <1>1, <2>1, <2>2, <2>3, <2>4 DEF TakeNotice
<1>7. TickIsTrue'
  BY <1>2, <1>6 DEF TickIsTrue, AtLeastSent
<1>8. QED BY <1>3, <1>7 DEF TruthInv

\* A step of the transport or the network that leaves the ticks alone and says
\* no more than the relay has said.
LEMMA TellingStep ==
  ASSUME DataOK, TruthInv, UNCHANGED tracker, atRelay \subseteq atRelay',
         Elements(recvAcks') \subseteq atRelay', ackFrames' \subseteq atRelay',
         NEW n \in Notice, \A m \in Msgs : Tells(n, m) => m \in atRelay',
         notices' = notices \/ notices' = Append(notices, n)
  PROVE  TruthInv'
<1>1. notices \in Seq(Notice)
  BY DEF DataOK
<1>2. \A e \in Elements(notices') : e \in Elements(notices) \/ e = n
  <2>1. Elements(Append(notices, n)) = Elements(notices) \cup {n}
    BY <1>1, AppendElements
  <2>2. CASE notices' = notices
    BY <2>2
  <2>3. CASE notices' = Append(notices, n)
    BY <2>1, <2>3
  <2>4. QED BY <2>2, <2>3
<1>3. NewsIsTrue'
  BY <1>2, NewsStep DEF TruthInv
<1>4. TickIsTrue'
  BY TickStep DEF TruthInv
<1>5. QED BY <1>3, <1>4 DEF TruthInv

LEMMA TruthInvPreserved == DataOK /\ TruthInv /\ [Next]_vars => TruthInv'
<1> SUFFICES ASSUME DataOK, TruthInv, [Next]_vars PROVE TruthInv'
  OBVIOUS
<1> USE DEF chatVars, taskVars, sessionVars, netVars
<1>1. /\ Reconnecting \in Notice /\ Disconnected \in Notice
      /\ \A m \in Msgs : ~Tells(Reconnecting, m) /\ ~Tells(Disconnected, m)
  BY WhatNoticesTell DEF Notice
<1>2. /\ tracker \in Tracker /\ ackFrames \subseteq atRelay
      /\ Elements(recvAcks) \subseteq atRelay
  BY DEF DataOK, TruthInv, NewsIsTrue
<1>3. ASSUME UNCHANGED <<tracker, notices>>, atRelay \subseteq atRelay',
             Elements(recvAcks') \subseteq atRelay', ackFrames' \subseteq atRelay'
      PROVE  TruthInv'
  BY <1>1, <1>3, TellingStep
<1>4. ASSUME NEW m \in Msgs, Submit(m) PROVE TruthInv'
  <2>1. /\ tracker' = Track(tracker, m)
        /\ UNCHANGED <<notices, recvAcks, ackFrames, atRelay>>
    BY <1>4 DEF Submit
  <2>2. TickIsTrue'
    BY <1>2, <2>1, TrackerMarks, TickStep DEF TruthInv
  <2>3. NewsIsTrue'
    BY <1>2, <2>1, NewsStep DEF TruthInv
  <2>4. QED BY <2>2, <2>3 DEF TruthInv
<1>5. ASSUME NEW m \in Msgs, ForwardInnerAck(m) PROVE TruthInv'
  <2>1. /\ m \in atRelay /\ notices' = Append(notices, ReceiveAck(m))
        /\ UNCHANGED <<tracker, recvAcks, ackFrames, atRelay>>
    BY <1>5 DEF ForwardInnerAck
  <2>2. /\ ReceiveAck(m) \in Notice
        /\ \A k \in Msgs : Tells(ReceiveAck(m), k) => k = m
    BY NoticeMade, WhatNoticesTell
  <2>3. QED BY <1>2, <2>1, <2>2, TellingStep
<1>6. CASE TakeNotice
  BY <1>6, TakeNoticeIsTrue
<1>7. CASE Quit \/ ReconnectFails \/ ReaderEnds \/ WriterEnds \/ ReaderRejects
           \/ HeartbeatTimesOut
  BY <1>2, <1>3, <1>7
  DEF Quit, ReconnectFails, ReaderEnds, WriterEnds, ReaderRejects, HeartbeatTimesOut
<1>8. CASE HandleSend
  <2>1. PICK m : m = Head(cmds)
    OBVIOUS
  <2>2. m \in Msgs
    BY <1>8, <2>1, HeadTailElements DEF DataOK, HandleSend
  <2>3. /\ Status(m, "Failed") \in Notice
        /\ \A k \in Msgs : ~Tells(Status(m, "Failed"), k)
    BY <2>2, NoticeMade, WhatNoticesTell
  <2>4. /\ notices' = notices \/ notices' = Append(notices, Status(m, "Failed"))
        /\ UNCHANGED <<tracker, recvAcks, ackFrames, atRelay>>
    BY <1>8, <2>1 DEF HandleSend, QueueOnWriter
  <2>5. QED BY <1>2, <2>3, <2>4, TellingStep
<1>9. CASE HandleDisconnect
  BY <1>1, <1>2, <1>9, TellingStep DEF HandleDisconnect
<1>10. CASE HandleRecvAck
  <2>1. PICK m : m = Head(recvAcks)
    OBVIOUS
  <2>2. /\ m \in Msgs /\ m \in atRelay
        /\ Elements(recvAcks') \subseteq Elements(recvAcks)
    BY <1>2, <1>10, <2>1, HeadTailElements DEF DataOK, HandleRecvAck
  <2>3. /\ Status(m, "Sent") \in Notice
        /\ \A k \in Msgs : Tells(Status(m, "Sent"), k) => k = m
    BY <2>2, NoticeMade, WhatNoticesTell
  <2>4. /\ notices' = Append(notices, Status(m, "Sent"))
        /\ UNCHANGED <<tracker, ackFrames, atRelay>>
    BY <1>10, <2>1 DEF HandleRecvAck
  <2>5. QED BY <1>2, <2>2, <2>3, <2>4, TellingStep
<1>11. CASE SessionEnds
  BY <1>1, <1>2, <1>11, TellingStep DEF SessionEnds
<1>12. CASE Reconnect
  <2>1. Elements(recvAcks') = {} /\ ackFrames' = {}
    BY <1>12 DEF Reconnect, Elements
  <2>2. QED BY <1>3, <1>12, <2>1 DEF Reconnect
<1>13. CASE RelayAccepts
  BY <1>2, <1>3, <1>13 DEF RelayAccepts
<1>14. ASSUME NEW m \in Msgs, StrayAccepted(m) PROVE TruthInv'
  BY <1>2, <1>3, <1>14 DEF StrayAccepted
<1>15. ASSUME NEW m \in Msgs, RelayAckArrives(m) PROVE TruthInv'
  <2>1. Elements(recvAcks') = Elements(recvAcks) \cup {m}
    BY <1>15, AppendElements DEF DataOK, RelayAckArrives
  <2>2. QED BY <1>2, <1>3, <1>15, <2>1 DEF RelayAckArrives
<1>16. CASE LinkDrops \/ RelayCloses
  BY <1>2, <1>3, <1>16 DEF LinkDrops, RelayCloses, LoseConnection
<1>17. CASE UNCHANGED vars
  BY <1>2, <1>3, <1>17 DEF vars
<1>18. QED
  BY <1>4, <1>5, <1>6, <1>7, <1>8, <1>9, <1>10, <1>11, <1>12, <1>13, <1>14,
     <1>15, <1>16, <1>17 DEF Next, Behind

LEMMA TruthHolds == Spec => []TruthInv
<1>1. Init => TruthInv
  <2> SUFFICES ASSUME Init PROVE TruthInv
    OBVIOUS
  <2>1. Elements(notices) = {} /\ Elements(recvAcks) = {} /\ ackFrames = {}
    BY DEF Init, Elements
  <2>2. QED
    BY <2>1 DEF Init, TruthInv, NewsIsTrue, TickIsTrue, NothingTracked
<1>2. QED
  BY <1>1, DataHolds, TruthInvPreserved, PTL DEF Spec

\* A message is shown as sent or delivered only when the relay has it,
\* whichever of the sessions carried it and whatever failed in between.
THEOREM TickIsTrueAlways == Spec => []TickIsTrue
<1>1. TruthInv => TickIsTrue
  BY DEF TruthInv
<1>2. QED
  BY <1>1, TruthHolds, PTL

-----------------------------------------------------------------------------
(* Ticks move on *)

\* No message is in the queue twice.
Once(q) ==
  \A i, j \in DOMAIN q : q[i] = q[j] /\ q[i] # Disconnect => i = j

\* The messages that a writer has been given, at whatever stage they are, those
\* that Failed is about to be said of, and those the session knows.
Carried ==
  Elements(outgoing) \cup stray \cup ackFrames \cup Elements(recvAcks) \cup atRelay

FailedIds == {m \in Msgs : Status(m, "Failed") \in Elements(notices)}

Tracked == {m \in Msgs : tracker[m] # "untracked"}

\* A message waits for the transport task, is given to a writer, or is reported
\* as failed: never two of these, so that none is reported both Sent and Failed.
FateInv ==
  /\ Once(cmds)
  /\ \A m \in Msgs :
       /\ m \in Elements(cmds) => m \in Tracked /\ m \notin Carried \cup FailedIds
       /\ m \in FailedIds => m \in Tracked /\ m \notin Carried
       /\ m \in Carried => m \in Tracked

LEMMA OnceAppend ==
  ASSUME NEW S, NEW q \in Seq(S), Once(q), NEW e \in S,
         e = Disconnect \/ e \notin Elements(q)
  PROVE  Once(Append(q, e))
<1>1. /\ DOMAIN Append(q, e) = DOMAIN q \cup {Len(q) + 1}
      /\ Append(q, e)[Len(q) + 1] = e
      /\ \A i \in DOMAIN q : Append(q, e)[i] = q[i]
  OBVIOUS
<1>2. QED BY <1>1 DEF Once, Elements

LEMMA OnceTail ==
  ASSUME NEW S, NEW q \in Seq(S), Once(q), q # <<>>
  PROVE  /\ Once(Tail(q))
         /\ Head(q) # Disconnect => Head(q) \notin Elements(Tail(q))
<1>1. /\ Head(q) = q[1] /\ 1 \in DOMAIN q /\ DOMAIN q = 1 .. Len(q) /\ Len(q) \in Nat
      /\ DOMAIN Tail(q) = 1 .. Len(q) - 1
      /\ \A i \in DOMAIN Tail(q) : Tail(q)[i] = q[i + 1] /\ i + 1 \in DOMAIN q
  OBVIOUS
<1>2. Once(Tail(q))
  <2> SUFFICES ASSUME NEW i \in DOMAIN Tail(q), NEW j \in DOMAIN Tail(q),
                      Tail(q)[i] = Tail(q)[j], Tail(q)[i] # Disconnect
               PROVE  i = j
    BY DEF Once
  <2>1. i + 1 = j + 1
    BY <1>1 DEF Once
  <2>2. QED BY <1>1, <2>1
<1>3. ASSUME Head(q) # Disconnect, NEW i \in DOMAIN Tail(q), Head(q) = Tail(q)[i]
      PROVE  FALSE
  <2>1. 1 = i + 1
    BY <1>1, <1>3 DEF Once
  <2>2. QED BY <1>1, <2>1
<1>4. QED BY <1>2, <1>3 DEF Elements

LEMMA MarksTrack ==
  ASSUME NEW t \in Tracker, NEW m \in Msgs, NEW k \in Msgs
  PROVE  /\ t[k] # "untracked" =>
              /\ Track(t, m)[k] # "untracked" /\ MarkSent(t, m)[k] # "untracked"
              /\ MarkDelivered(t, m)[k] # "untracked"
              /\ MarkFailed(t, m)[k] # "untracked"
              /\ MarkAllFailed(t)[k] # "untracked"
         /\ Track(t, m)[m] = "Sending"
BY DEF Tracker, Track, MarkSent, MarkDelivered, MarkFailed, MarkAllFailed

\* Which events say Failed.
LEMMA WhichFail ==
  ASSUME NEW m, NEW k
  PROVE  /\ Status(m, "Failed") = Status(k, "Failed") => m = k
         /\ Status(m, "Failed") # Status(k, "Sent")
         /\ Status(m, "Failed") # ReceiveAck(k)
         /\ Status(m, "Failed") # Reconnecting
         /\ Status(m, "Failed") # Disconnected
<1>1. /\ Status(m, "Failed").id = m /\ Status(m, "Failed").status = "Failed"
      /\ Status(m, "Failed").kind = "Status"
      /\ Status(k, "Failed").id = k /\ Status(k, "Sent").status = "Sent"
      /\ ReceiveAck(k).kind = "Receive"
      /\ Reconnecting.kind = "Reconnecting" /\ Disconnected.kind = "Disconnected"
  BY DEF Status, ReceiveAck, Reconnecting, Disconnected
<1>2. QED BY <1>1

LEMMA FailedAppend ==
  ASSUME DataOK, NEW n \in Notice, notices' = Append(notices, n),
         \A m \in Msgs : n # Status(m, "Failed")
  PROVE  FailedIds' \subseteq FailedIds
<1>1. Elements(notices') = Elements(notices) \cup {n}
  BY AppendElements DEF DataOK
<1>2. QED BY <1>1 DEF FailedIds, Elements

LEMMA FateStep ==
  ASSUME FateInv, Once(cmds'), Elements(cmds') \subseteq Elements(cmds),
         Carried' \cap Msgs \subseteq Carried, FailedIds' \subseteq FailedIds,
         Tracked \subseteq Tracked'
  PROVE  FateInv'
<1>1. /\ Once(cmds)' /\ Elements(cmds)' \subseteq Elements(cmds)
  BY DEF Once, Elements
<1>2. QED BY <1>1 DEF FateInv

LEMMA TakeNoticeTracks ==
  ASSUME DataOK, TakeNotice
  PROVE  /\ Tracked \subseteq Tracked' /\ FailedIds' \subseteq FailedIds
         /\ \A m \in Msgs : tracker[m] # "Sending" => tracker'[m] # "Sending"
<1>1. PICK n : n = Head(notices)
  OBVIOUS
<1>2. n \in Notice /\ Elements(notices') \subseteq Elements(notices)
  BY <1>1, HeadTailElements DEF DataOK, TakeNotice
<1>3. tracker \in Tracker
  BY DEF DataOK
<1>4. \/ n.kind = "Status" /\ tracker' = MarkSent(tracker, n.id)
      \/ n.kind = "Status" /\ tracker' = MarkFailed(tracker, n.id)
      \/ n.kind = "Receive" /\ tracker' = MarkDelivered(tracker, n.refs)
      \/ tracker' = MarkAllFailed(tracker)
  BY <1>1 DEF TakeNotice
<1>5. PICK k : \/ n.kind = "Status" /\ k = n.id
               \/ n.kind = "Receive" /\ k = n.refs
               \/ n.kind \notin {"Status", "Receive"}
  OBVIOUS
<1>6. \/ k \in Msgs /\ tracker' \in {MarkSent(tracker, k), MarkFailed(tracker, k),
                                     MarkDelivered(tracker, k)}
      \/ tracker' = MarkAllFailed(tracker)
  BY <1>2, <1>4, <1>5, NoticeFields
<1>7. \A m \in Msgs : /\ tracker[m] # "untracked" => tracker'[m] # "untracked"
                      /\ tracker[m] # "Sending" => tracker'[m] # "Sending"
  BY <1>3, <1>6 DEF Tracker, MarkSent, MarkFailed, MarkDelivered, MarkAllFailed
<1>8. Tracked \subseteq Tracked'
  BY <1>7 DEF Tracked
<1>9. FailedIds' \subseteq FailedIds
  BY <1>2 DEF FailedIds, Elements
<1>10. QED BY <1>7, <1>8, <1>9

LEMMA HandleSendFate ==
  ASSUME DataOK, FateInv, HandleSend PROVE FateInv'
<1> USE DEF chatVars, taskVars, sessionVars, netVars
<1>1. PICK m : m = Head(cmds)
  OBVIOUS
<1>2. /\ m \in Msgs /\ m \in Elements(cmds)
      /\ Elements(cmds)' \subseteq Elements(cmds)
      /\ Once(cmds)' /\ m \notin Elements(cmds)'
  <2>1. cmds \in Seq(Msgs \cup {Disconnect}) /\ cmds # <<>> /\ cmds' = Tail(cmds)
        /\ m # Disconnect
    BY <1>1 DEF DataOK, HandleSend
  <2>2. /\ m \in Msgs /\ m \in Elements(cmds)
        /\ Elements(Tail(cmds)) \subseteq Elements(cmds)
    BY <1>1, <2>1, HeadTailElements
  <2>3. Once(Tail(cmds)) /\ m \notin Elements(Tail(cmds))
    BY <1>1, <2>1, OnceTail DEF FateInv
  <2>4. QED BY <2>1, <2>2, <2>3 DEF Once, Elements
<1>3. Tracked' = Tracked
  BY DEF HandleSend, Tracked
<1>4. /\ m \in Tracked /\ m \notin Carried /\ m \notin FailedIds
  BY <1>2 DEF FateInv
<1>5. CASE writer
  <2>1. /\ outgoing' \in {outgoing, Append(outgoing, m)}
        /\ UNCHANGED <<notices, stray, ackFrames, recvAcks, atRelay>>
    BY <1>1, <1>5 DEF HandleSend, QueueOnWriter
  <2>2. Elements(outgoing)' \subseteq Elements(outgoing) \cup {m}
    <3>1. Elements(Append(outgoing, m)) = Elements(outgoing) \cup {m}
      BY <1>2, AppendElements DEF DataOK
    <3>2. QED BY <2>1, <3>1 DEF Elements
  <2>3. Carried' \subseteq Carried \cup {m} /\ FailedIds' = FailedIds
    BY <2>1, <2>2 DEF Carried, FailedIds, Elements
  <2>4. QED BY <1>2, <1>3, <1>4, <2>3 DEF FateInv
<1>6. CASE ~writer
  <2>1. /\ notices' = Append(notices, Status(m, "Failed"))
        /\ UNCHANGED <<outgoing, stray, ackFrames, recvAcks, atRelay>>
    BY <1>1, <1>6 DEF HandleSend
  <2>2. Elements(notices)' = Elements(notices) \cup {Status(m, "Failed")}
    <3>1. Status(m, "Failed") \in Notice
      BY <1>2, NoticeMade
    <3>2. Elements(Append(notices, Status(m, "Failed")))
            = Elements(notices) \cup {Status(m, "Failed")}
      BY <3>1, AppendElements DEF DataOK
    <3>3. QED BY <2>1, <3>2 DEF Elements
  <2>3. Carried' = Carried
    BY <2>1 DEF Carried, Elements
  <2>4. FailedIds' \subseteq FailedIds \cup {m}
    BY <2>2, WhichFail DEF FailedIds
  <2>5. QED BY <1>2, <1>3, <1>4, <2>3, <2>4 DEF FateInv
<1>7. QED BY <1>5, <1>6

LEMMA SubmitFate ==
  ASSUME DataOK, FateInv, NEW m \in Msgs, Submit(m) PROVE FateInv'
<1> USE DEF chatVars, taskVars, sessionVars, netVars
<1>1. /\ m \notin Tracked /\ tracker' = Track(tracker, m)
      /\ cmds' = Append(cmds, m)
      /\ UNCHANGED <<notices, outgoing, stray, ackFrames, recvAcks, atRelay>>
  BY DEF Submit, Tracked
<1>2. m \notin Carried /\ m \notin FailedIds /\ m \notin Elements(cmds)
  BY <1>1 DEF FateInv
<1>3. Tracked \subseteq Tracked' /\ m \in Tracked'
  BY <1>1, MarksTrack DEF DataOK, Tracked
<1>4. Elements(cmds)' = Elements(cmds) \cup {m} /\ Once(cmds)'
  <2>1. cmds \in Seq(Msgs \cup {Disconnect})
    BY DEF DataOK
  <2>2. Elements(Append(cmds, m)) = Elements(cmds) \cup {m}
    BY <2>1, AppendElements
  <2>3. Once(Append(cmds, m))
    BY <1>2, <2>1, OnceAppend DEF FateInv
  <2>4. QED BY <1>1, <2>2, <2>3 DEF Elements, Once
<1>5. Carried' = Carried /\ FailedIds' = FailedIds
  BY <1>1 DEF Carried, FailedIds, Elements
<1>6. QED BY <1>2, <1>3, <1>4, <1>5 DEF FateInv

LEMMA FateInvPreserved == DataOK /\ FateInv /\ [Next]_vars => FateInv'
<1> SUFFICES ASSUME DataOK, FateInv, [Next]_vars PROVE FateInv'
  OBVIOUS
<1> USE DEF chatVars, taskVars, sessionVars, netVars
<1>1. /\ cmds \in Seq(Msgs \cup {Disconnect}) /\ notices \in Seq(Notice)
      /\ recvAcks \in Seq(Msgs) /\ outgoing \in Seq(Msgs \cup {Close})
      /\ Once(cmds)
  BY DEF DataOK, FateInv
<1>2. ASSUME UNCHANGED <<cmds, tracker>>, Carried' \cap Msgs \subseteq Carried,
             FailedIds' \subseteq FailedIds
      PROVE  FateInv'
  <2>1. Once(cmds') /\ Tracked' = Tracked
    BY <1>1, <1>2 DEF Tracked, Once
  <2>2. QED BY <1>2, <2>1, FateStep
<1>3. ASSUME NEW n \in Notice, notices' = notices \/ notices' = Append(notices, n),
             \A m \in Msgs : n # Status(m, "Failed")
      PROVE  FailedIds' \subseteq FailedIds
  <2>1. CASE notices' = notices
    BY <2>1 DEF FailedIds, Elements
  <2>2. CASE notices' = Append(notices, n)
    BY <1>3, <2>2, FailedAppend
  <2>3. QED BY <1>3, <2>1, <2>2
<1>4. /\ Reconnecting \in Notice /\ \A m \in Msgs : Reconnecting # Status(m, "Failed")
      /\ Disconnected \in Notice /\ \A m \in Msgs : Disconnected # Status(m, "Failed")
  BY WhichFail DEF Notice
<1>5. ASSUME NEW m \in Msgs, Submit(m) PROVE FateInv'
  BY <1>5, SubmitFate
<1>6. ASSUME NEW m \in Msgs, ForwardInnerAck(m) PROVE FateInv'
  <2>1. /\ notices' = Append(notices, ReceiveAck(m))
        /\ UNCHANGED <<cmds, tracker, outgoing, stray, ackFrames, recvAcks, atRelay>>
    BY <1>6 DEF ForwardInnerAck
  <2>2. ReceiveAck(m) \in Notice /\ \A k \in Msgs : ReceiveAck(m) # Status(k, "Failed")
    BY NoticeMade, WhichFail
  <2>3. FailedIds' \subseteq FailedIds
    BY <1>3, <2>1, <2>2
  <2>4. Carried' = Carried
    BY <2>1 DEF Carried, Elements
  <2>5. QED BY <1>2, <2>1, <2>3, <2>4
<1>7. CASE TakeNotice
  <2>1. /\ UNCHANGED <<cmds, outgoing, stray, ackFrames, recvAcks, atRelay>>
    BY <1>7 DEF TakeNotice
  <2>2. Carried' = Carried /\ Once(cmds') /\ Elements(cmds') = Elements(cmds)
    BY <1>1, <2>1 DEF Carried, Elements, Once
  <2>3. QED BY <1>7, <2>2, TakeNoticeTracks, FateStep
<1>8. CASE Quit
  <2>1. /\ cmds' = Append(cmds, Disconnect)
        /\ UNCHANGED <<tracker, notices, outgoing, stray, ackFrames, recvAcks, atRelay>>
    BY <1>8 DEF Quit
  <2>2. Carried' = Carried /\ FailedIds' = FailedIds /\ Tracked' = Tracked
    BY <2>1 DEF Carried, FailedIds, Tracked, Elements
  <2>3. Elements(cmds') = Elements(cmds) \cup {Disconnect} /\ Once(cmds')
    BY <1>1, <2>1, AppendElements, OnceAppend
  <2>4. Elements(cmds)' = Elements(cmds) \cup {Disconnect} /\ Once(cmds)'
    BY <2>3 DEF Elements, Once
  <2>5. \A m \in Msgs : m # Disconnect
    BY MsgsAssumption DEF Disconnect
  <2>6. QED BY <2>2, <2>4, <2>5 DEF FateInv
<1>9. CASE HandleSend
  BY <1>9, HandleSendFate
<1>10. CASE HandleDisconnect
  <2>1. /\ cmds # <<>> /\ cmds' = Tail(cmds) /\ notices' = Append(notices, Disconnected)
        /\ UNCHANGED <<tracker, outgoing, stray, ackFrames, recvAcks, atRelay>>
    BY <1>10 DEF HandleDisconnect
  <2>2. Carried' = Carried /\ Tracked' = Tracked
    BY <2>1 DEF Carried, Tracked, Elements
  <2>3. FailedIds' \subseteq FailedIds
    BY <1>3, <1>4, <2>1
  <2>4. Elements(cmds') \subseteq Elements(cmds) /\ Once(cmds')
    BY <1>1, <2>1, HeadTailElements, OnceTail
  <2>5. QED BY <2>2, <2>3, <2>4, FateStep
<1>11. CASE HandleRecvAck
  <2>1. PICK m : m = Head(recvAcks)
    OBVIOUS
  <2>2. /\ recvAcks # <<>> /\ recvAcks' = Tail(recvAcks)
        /\ notices' = Append(notices, Status(m, "Sent"))
        /\ UNCHANGED <<cmds, tracker, outgoing, stray, ackFrames, atRelay>>
    BY <1>11, <2>1 DEF HandleRecvAck
  <2>3. m \in Msgs /\ Elements(recvAcks') \subseteq Elements(recvAcks)
    BY <1>1, <2>1, <2>2, HeadTailElements
  <2>4. /\ Status(m, "Sent") \in Notice
        /\ \A k \in Msgs : Status(m, "Sent") # Status(k, "Failed")
    BY <2>3, NoticeMade, WhichFail
  <2>5. FailedIds' \subseteq FailedIds
    BY <1>3, <2>2, <2>4
  <2>6. Carried' \subseteq Carried
    BY <2>2, <2>3 DEF Carried, Elements
  <2>7. QED BY <1>2, <2>2, <2>5, <2>6
<1>12. CASE SessionEnds
  <2>1. /\ notices' = Append(notices, Reconnecting)
        /\ UNCHANGED <<cmds, tracker, outgoing, stray, ackFrames, recvAcks, atRelay>>
    BY <1>12 DEF SessionEnds
  <2>2. FailedIds' \subseteq FailedIds
    BY <1>3, <1>4, <2>1
  <2>3. Carried' = Carried
    BY <2>1 DEF Carried, Elements
  <2>4. QED BY <1>2, <2>1, <2>2, <2>3
<1>13. CASE Reconnect
  <2>1. /\ recvAcks' = <<>> /\ outgoing' = <<>> /\ ackFrames' = {}
        /\ stray' \subseteq stray \cup Elements(outgoing)
        /\ UNCHANGED <<cmds, tracker, notices, atRelay>>
    BY <1>13 DEF Reconnect
  <2>2. Elements(outgoing)' = {} /\ Elements(recvAcks)' = {}
    BY <2>1 DEF Elements
  <2>3. Carried' \subseteq Carried /\ FailedIds' = FailedIds
    BY <2>1, <2>2 DEF Carried, FailedIds, Elements
  <2>4. QED BY <1>2, <2>1, <2>3
<1>14. CASE RelayAccepts
  <2>1. PICK m : m = Head(outgoing)
    OBVIOUS
  <2>2. /\ outgoing # <<>> /\ outgoing' = Tail(outgoing)
        /\ atRelay' = atRelay \cup {m} /\ ackFrames' = ackFrames \cup {m}
        /\ UNCHANGED <<cmds, tracker, notices, stray, recvAcks>>
    BY <1>14, <2>1 DEF RelayAccepts
  <2>3. m \in Elements(outgoing) /\ Elements(outgoing') \subseteq Elements(outgoing)
    BY <1>1, <2>1, <2>2, HeadTailElements
  <2>4. Carried' \subseteq Carried /\ FailedIds' = FailedIds
    BY <2>2, <2>3 DEF Carried, FailedIds, Elements
  <2>5. QED BY <1>2, <2>2, <2>4
<1>15. ASSUME NEW m \in Msgs, StrayAccepted(m) PROVE FateInv'
  <2>1. Carried' \subseteq Carried /\ FailedIds' = FailedIds
    BY <1>15 DEF StrayAccepted, Carried, FailedIds, Elements
  <2>2. QED BY <1>2, <1>15, <2>1 DEF StrayAccepted
<1>16. ASSUME NEW m \in Msgs, RelayAckArrives(m) PROVE FateInv'
  <2>1. /\ m \in ackFrames /\ ackFrames' = ackFrames \ {m}
        /\ recvAcks' = Append(recvAcks, m)
        /\ UNCHANGED <<cmds, tracker, notices, outgoing, stray, atRelay>>
    BY <1>16 DEF RelayAckArrives
  <2>2. Elements(recvAcks') = Elements(recvAcks) \cup {m}
    BY <1>1, <2>1, AppendElements
  <2>3. Carried' \subseteq Carried /\ FailedIds' = FailedIds
    BY <2>1, <2>2 DEF Carried, FailedIds, Elements
  <2>4. QED BY <1>2, <2>1, <2>3
<1>17. CASE LinkDrops \/ RelayCloses
  <2>1. /\ outgoing' = <<>> /\ ackFrames' = {}
        /\ UNCHANGED <<cmds, tracker, notices, stray, recvAcks, atRelay>>
    BY <1>17 DEF LinkDrops, RelayCloses, LoseConnection
  <2>2. Elements(outgoing)' = {}
    BY <2>1 DEF Elements
  <2>3. Carried' \subseteq Carried /\ FailedIds' = FailedIds
    BY <2>1, <2>2 DEF Carried, FailedIds, Elements
  <2>4. QED BY <1>2, <2>1, <2>3
<1>18. CASE HeartbeatTimesOut
  <2>1. /\ outgoing' = Append(outgoing, Close)
        /\ UNCHANGED <<cmds, tracker, notices, stray, ackFrames, recvAcks, atRelay>>
    BY <1>18 DEF HeartbeatTimesOut
  <2>2. Elements(outgoing') = Elements(outgoing) \cup {Close}
    BY <1>1, <2>1, AppendElements
  <2>3. Carried' \subseteq Carried \cup {Close} /\ FailedIds' = FailedIds
    BY <2>1, <2>2 DEF Carried, FailedIds, Elements
  <2>4. Close \notin Msgs
    BY MsgsAssumption DEF Close
  <2>5. QED BY <1>2, <2>1, <2>3, <2>4
<1>19. CASE ReconnectFails \/ ReaderEnds \/ WriterEnds \/ ReaderRejects \/ UNCHANGED vars
  <2>1. UNCHANGED <<cmds, tracker, notices, outgoing, stray, ackFrames, recvAcks, atRelay>>
    BY <1>19 DEF ReconnectFails, ReaderEnds, WriterEnds, ReaderRejects, vars
  <2>2. Carried' = Carried /\ FailedIds' = FailedIds
    BY <2>1 DEF Carried, FailedIds, Elements
  <2>3. QED BY <1>2, <2>1, <2>2
<1>20. QED
  BY <1>5, <1>6, <1>7, <1>8, <1>9, <1>10, <1>11, <1>12, <1>13, <1>14, <1>15,
     <1>16, <1>17, <1>18, <1>19 DEF Next, Behind

LEMMA FateHolds == Spec => []FateInv
<1>1. Init => FateInv
  <2> SUFFICES ASSUME Init PROVE FateInv
    OBVIOUS
  <2>1. /\ Elements(cmds) = {} /\ Elements(notices) = {} /\ Elements(recvAcks) = {}
        /\ Elements(outgoing) = {} /\ stray = {} /\ ackFrames = {} /\ atRelay = {}
        /\ Once(cmds)
    BY DEF Init, Elements, Once
  <2>2. QED BY <2>1 DEF FateInv, Carried, FailedIds
<1>2. QED
  BY <1>1, DataHolds, FateInvPreserved, PTL DEF Spec

\* A tick moves on: nothing turns back a message that is sent or delivered, and
\* in particular none that the relay has accepted is ever marked failed, in
\* whatever order statuses, acks and reconnects reach the session.
THEOREM TicksMoveOnAlways == Spec => TicksMoveOn
<1>1. ASSUME DataOK, TruthInv, FateInv, Next
      PROVE  \A m \in Msgs : MayBecome(tracker[m], tracker'[m])
  <2> SUFFICES ASSUME NEW m \in Msgs PROVE MayBecome(tracker[m], tracker'[m])
    OBVIOUS
  <2> USE DEF chatVars, taskVars, sessionVars, netVars
  <2>1. tracker \in Tracker
    BY <1>1 DEF DataOK
  <2>2. ASSUME NEW k \in Msgs, Submit(k) PROVE MayBecome(tracker[m], tracker'[m])
    BY <2>1, <2>2 DEF Submit, Track, Tracker, MayBecome
  <2>3. CASE TakeNotice
    <3>1. PICK n : n = Head(notices)
      OBVIOUS
    <3>2. n \in Notice /\ n \in Elements(notices)
      BY <1>1, <2>3, <3>1, HeadTailElements DEF DataOK, TakeNotice
    <3>3. CASE n.kind = "Status" /\ tracker' = MarkSent(tracker, n.id)
      BY <2>1, <3>3 DEF MarkSent, Tracker, MayBecome
    <3>4. CASE /\ n.kind = "Status" /\ n.status = "Failed"
               /\ tracker' = MarkFailed(tracker, n.id)
      <4>1. PICK k \in Msgs : k = n.id
        BY <3>2, <3>4, NoticeFields
      <4>2. n = Status(k, "Failed")
        BY <3>2, <3>4, <4>1 DEF Notice, Status, Reconnecting, Disconnected
      <4>3. k \notin atRelay
        BY <1>1, <3>2, <4>2 DEF FateInv, FailedIds, Carried
      <4>4. tracker[k] # "Sent"
        BY <1>1, <4>3 DEF TruthInv, TickIsTrue
      <4>5. QED
        BY <2>1, <3>4, <4>1, <4>4 DEF MarkFailed, Tracker, OutboundState, MayBecome
    <3>5. CASE tracker' = MarkDelivered(tracker, n.refs)
      BY <2>1, <3>5 DEF MarkDelivered, Tracker, OutboundState, MayBecome
    <3>6. CASE tracker' = MarkAllFailed(tracker)
      BY <2>1, <3>6 DEF MarkAllFailed, StillSending, MayBecome
    <3>7. QED BY <2>3, <3>1, <3>3, <3>4, <3>5, <3>6 DEF TakeNotice
  <2>4. CASE UNCHANGED tracker
    BY <2>4 DEF MayBecome
  <2>5. ASSUME NEW k \in Msgs,
               ForwardInnerAck(k) \/ StrayAccepted(k) \/ RelayAckArrives(k)
        PROVE  UNCHANGED tracker
    BY <2>5 DEF ForwardInnerAck, StrayAccepted, RelayAckArrives
  <2>6. CASE Quit \/ HandleSend \/ HandleDisconnect \/ HandleRecvAck \/ SessionEnds
             \/ Reconnect \/ ReconnectFails
    BY <2>4, <2>6 DEF Quit, HandleSend, HandleDisconnect, HandleRecvAck, SessionEnds,
                      Reconnect, ReconnectFails
  <2>7. CASE RelayAccepts \/ LinkDrops \/ RelayCloses \/ ReaderEnds \/ WriterEnds
             \/ ReaderRejects \/ HeartbeatTimesOut
    BY <2>4, <2>7 DEF RelayAccepts, LinkDrops, RelayCloses, LoseConnection, ReaderEnds,
                      WriterEnds, ReaderRejects, HeartbeatTimesOut
  <2>8. QED BY <1>1, <2>2, <2>3, <2>4, <2>5, <2>6, <2>7 DEF Next, Behind
<1>2. QED
  BY <1>1, TruthHolds, DataHolds, FateHolds, PTL DEF Spec, TicksMoveOn

-----------------------------------------------------------------------------
(* No message falls between the tasks *)

\* Event n settles message m.
Settles(n, m) ==
  \/ n = Reconnecting
  \/ n.kind = "Status" /\ n.id = m
  \/ n.kind = "Receive" /\ n.refs = m

\* While the session is open nobody has asked the task to stop, and a task that
\* is not serving a session has announced it to every message it was given.
OrphanInv ==
  chat = "open" =>
    /\ phase # "done" /\ Disconnect \notin Elements(cmds)
    /\ \A m \in Msgs : tracker[m] = "Sending" =>
         /\ OnItsWay(m) \/ Settling(m) \/ SessionDoomed
         /\ phase = "backoff" => m \in Elements(cmds) \/ Settling(m)

LEMMA SettlingMeans ==
  ASSUME NEW m
  PROVE  Settling(m) <=> \E n \in Elements(notices) : Settles(n, m)
BY DEF Settling, Settles, Elements

LEMMA SettlingMeansNext ==
  ASSUME NEW m
  PROVE  Settling(m)' <=> \E n \in Elements(notices') : Settles(n, m)
BY DEF Settling, Settles, Elements

LEMMA SettlingAppend ==
  ASSUME DataOK, NEW n \in Notice, notices' = Append(notices, n), NEW m
  PROVE  Settling(m)' <=> Settling(m) \/ Settles(n, m)
<1>1. Elements(notices') = Elements(notices) \cup {n}
  BY AppendElements DEF DataOK
<1>2. QED BY <1>1, SettlingMeans, SettlingMeansNext

LEMMA SettlingSame ==
  ASSUME UNCHANGED notices, NEW m PROVE Settling(m)' <=> Settling(m)
BY SettlingMeans, SettlingMeansNext

LEMMA NoticesSettle ==
  ASSUME NEW m, NEW status
  PROVE  /\ Settles(Status(m, status), m) /\ Settles(ReceiveAck(m), m)
         /\ Settles(Reconnecting, m)
BY DEF Settles, Status, ReceiveAck

\* A step that leaves the session, the commands and the phase alone.
LEMMA StayStep ==
  ASSUME DataOK, OrphanInv, UNCHANGED <<chat, tracker, phase, cmds>>,
         \A m \in Msgs : Settling(m) => Settling(m)',
         phase = "drive" =>
           \A m \in Msgs : OnItsWay(m) \/ SessionDoomed
                             => OnItsWay(m)' \/ Settling(m)' \/ SessionDoomed'
  PROVE  OrphanInv'
<1> SUFFICES ASSUME chat = "open"
             PROVE  /\ phase' # "done" /\ Disconnect \notin Elements(cmds)'
                    /\ \A m \in Msgs : tracker'[m] = "Sending" =>
                         /\ OnItsWay(m)' \/ Settling(m)' \/ SessionDoomed'
                         /\ phase' = "backoff" => m \in Elements(cmds)' \/ Settling(m)'
  BY DEF OrphanInv
<1>1. Elements(cmds)' = Elements(cmds)
  BY DEF Elements
<1>2. phase \in {"drive", "backoff"}
  BY DEF DataOK, OrphanInv
<1>3. \A m \in Msgs : m \in Elements(cmds) => OnItsWay(m)'
  BY <1>1 DEF OnItsWay
<1>4. ASSUME NEW m \in Msgs, tracker[m] = "Sending"
      PROVE  /\ OnItsWay(m)' \/ Settling(m)' \/ SessionDoomed'
             /\ phase = "backoff" => m \in Elements(cmds) \/ Settling(m)'
  <2>1. CASE phase = "drive"
    BY <1>4, <2>1 DEF OrphanInv
  <2>2. CASE phase = "backoff"
    BY <1>3, <1>4, <2>2 DEF OrphanInv
  <2>3. QED BY <1>2, <2>1, <2>2
<1>5. QED BY <1>1, <1>2, <1>4 DEF OrphanInv

LEMMA TakeNoticeOrphan ==
  ASSUME DataOK, OrphanInv, TakeNotice PROVE OrphanInv'
<1> USE DEF chatVars, taskVars, sessionVars, netVars
<1>1. PICK n : n = Head(notices)
  OBVIOUS
<1>2. notices \in Seq(Notice) /\ notices # <<>> /\ notices' = Tail(notices)
  BY DEF DataOK, TakeNotice
<1>3. Elements(notices) = {n} \cup Elements(notices')
  BY <1>1, <1>2, HeadTailElements
<1>4. /\ UNCHANGED <<chat, cmds, phase, reader, writer, link, outgoing, recvAcks, ackFrames>>
      /\ chat = "open"
  BY DEF TakeNotice
<1>5. \A m \in Msgs : tracker'[m] = "Sending" => tracker[m] = "Sending"
  BY TakeNoticeTracks
<1>6. \A m \in Msgs : Settles(n, m) => tracker'[m] # "Sending"
  <2> SUFFICES ASSUME NEW m \in Msgs, Settles(n, m) PROVE tracker'[m] # "Sending"
    OBVIOUS
  <2>1. n \in Notice /\ tracker \in Tracker
    BY <1>1, <1>2, HeadTailElements DEF DataOK
  <2>2. CASE n.kind = "Status"
    <3>1. n.id = m
      BY <2>2 DEF Settles, Reconnecting
    <3>2. tracker' \in {MarkSent(tracker, m), MarkFailed(tracker, m)}
      BY <1>1, <2>2, <3>1 DEF TakeNotice
    <3>3. QED BY <2>1, <3>2 DEF MarkSent, MarkFailed, Tracker
  <2>3. CASE n.kind = "Receive"
    <3>1. n.refs = m
      BY <2>3 DEF Settles, Reconnecting
    <3>2. tracker' = MarkDelivered(tracker, m)
      BY <1>1, <2>3, <3>1 DEF TakeNotice
    <3>3. QED BY <2>1, <3>2 DEF MarkDelivered, Tracker
  <2>4. CASE n.kind \notin {"Status", "Receive"}
    <3>1. tracker' = MarkAllFailed(tracker)
      BY <1>1, <2>4 DEF TakeNotice
    <3>2. QED BY <2>1, <3>1 DEF MarkAllFailed, StillSending
  <2>5. QED BY <2>2, <2>3, <2>4
<1>7. \A m \in Msgs : Settling(m) => Settling(m)' \/ Settles(n, m)
  BY <1>3, SettlingMeans, SettlingMeansNext
<1>8. /\ SessionDoomed' <=> SessionDoomed
      /\ \A m \in Msgs : OnItsWay(m)' <=> OnItsWay(m)
      /\ Elements(cmds)' = Elements(cmds)
  BY <1>4 DEF SessionDoomed, OnItsWay, Elements
<1>9. QED BY <1>4, <1>5, <1>6, <1>7, <1>8 DEF OrphanInv

LEMMA HandleSendOrphan ==
  ASSUME DataOK, OrphanInv, HandleSend PROVE OrphanInv'
<1> USE DEF chatVars, taskVars, sessionVars, netVars
<1>1. PICK k : k = Head(cmds)
  OBVIOUS
<1>2. /\ cmds \in Seq(Msgs \cup {Disconnect}) /\ cmds # <<>> /\ cmds' = Tail(cmds)
      /\ k # Disconnect /\ phase = "drive"
      /\ UNCHANGED <<chat, tracker, phase, reader, writer, link, recvAcks, ackFrames>>
  BY <1>1 DEF DataOK, HandleSend
<1>3. /\ k \in Msgs /\ Elements(cmds)' \subseteq Elements(cmds)
      /\ Elements(cmds) = {k} \cup Elements(cmds)'
  <2>1. k \in Msgs /\ Elements(cmds) = {k} \cup Elements(cmds')
    BY <1>1, <1>2, HeadTailElements
  <2>2. Elements(cmds)' = Elements(cmds')
    BY DEF Elements
  <2>3. QED BY <2>1, <2>2
<1>4. /\ Elements(outgoing) \subseteq Elements(outgoing)'
      /\ \A m \in Msgs : Settling(m) => Settling(m)'
      /\ (link /\ k \in Elements(outgoing)') \/ Settling(k)' \/ ~link
  <2>1. CASE writer
    <3>1. UNCHANGED notices
      BY <2>1 DEF HandleSend, QueueOnWriter
    <3>2. outgoing' = IF link THEN Append(outgoing, k) ELSE outgoing
      BY <1>1, <2>1 DEF HandleSend, QueueOnWriter
    <3>3. Elements(Append(outgoing, k)) = Elements(outgoing) \cup {k}
      BY <1>3, AppendElements DEF DataOK
    <3>4. CASE link
      BY <3>1, <3>2, <3>3, <3>4, SettlingSame DEF Elements
    <3>5. CASE ~link
      BY <3>1, <3>2, <3>5, SettlingSame DEF Elements
    <3>6. QED BY <3>4, <3>5
  <2>2. CASE ~writer
    <3>1. notices' = Append(notices, Status(k, "Failed")) /\ UNCHANGED outgoing
      BY <1>1, <2>2 DEF HandleSend
    <3>2. Status(k, "Failed") \in Notice
      BY <1>3, NoticeMade
    <3>3. \A m \in Msgs : Settling(m)' <=> Settling(m) \/ Settles(Status(k, "Failed"), m)
      BY <3>1, <3>2, SettlingAppend
    <3>4. QED BY <1>3, <3>1, <3>3, NoticesSettle DEF Elements
  <2>3. QED BY <2>1, <2>2
<1>5. ~link => SessionDoomed'
  BY <1>2 DEF SessionDoomed
<1>6. SessionDoomed => SessionDoomed'
  BY <1>2 DEF SessionDoomed
<1>7. \A m \in Msgs : OnItsWay(m) => OnItsWay(m)' \/ Settling(m)' \/ SessionDoomed'
  <2> SUFFICES ASSUME NEW m \in Msgs, OnItsWay(m)
               PROVE  OnItsWay(m)' \/ Settling(m)' \/ SessionDoomed'
    OBVIOUS
  <2>1. CASE m \in Elements(cmds)
    <3>1. CASE m = k
      BY <1>2, <1>4, <1>5, <3>1 DEF OnItsWay
    <3>2. CASE m # k
      BY <1>3, <2>1, <3>2 DEF OnItsWay
    <3>3. QED BY <3>1, <3>2
  <2>2. CASE link /\ m \in Elements(outgoing)
    BY <1>2, <1>4, <2>2 DEF OnItsWay
  <2>3. CASE m \in ackFrames \/ m \in Elements(recvAcks)
    BY <1>2, <2>3 DEF OnItsWay, Elements
  <2>4. QED BY <2>1, <2>2, <2>3 DEF OnItsWay
<1>8. QED BY <1>2, <1>3, <1>4, <1>6, <1>7 DEF OrphanInv

LEMMA OrphanInvPreserved == DataOK /\ OrphanInv /\ [Next]_vars => OrphanInv'
<1> SUFFICES ASSUME DataOK, OrphanInv, [Next]_vars PROVE OrphanInv'
  OBVIOUS
<1> USE DEF chatVars, taskVars, sessionVars, netVars
<1>1. /\ cmds \in Seq(Msgs \cup {Disconnect}) /\ notices \in Seq(Notice)
      /\ recvAcks \in Seq(Msgs) /\ outgoing \in Seq(Msgs \cup {Close})
  BY DEF DataOK
<1>2. ASSUME NEW m \in Msgs, Submit(m) PROVE OrphanInv'
  <2>1. /\ cmds' = Append(cmds, m) /\ tracker' = Track(tracker, m)
        /\ UNCHANGED <<chat, notices, phase, reader, writer, recvAcks, link, outgoing,
                       ackFrames>>
    BY <1>2 DEF Submit
  <2>2. Elements(cmds)' = Elements(cmds) \cup {m}
    <3>1. Elements(Append(cmds, m)) = Elements(cmds) \cup {m}
      BY <1>1, AppendElements
    <3>2. QED BY <2>1, <3>1 DEF Elements
  <2>3. m # Disconnect
    BY MsgsAssumption DEF Disconnect
  <2>4. \A k \in Msgs : k # m => tracker'[k] = tracker[k]
    BY <2>1 DEF DataOK, Tracker, Track
  <2>5. \A k \in Msgs : Settling(k)' <=> Settling(k)
    BY <2>1, SettlingSame
  <2>6. /\ SessionDoomed' <=> SessionDoomed
        /\ \A k \in Msgs : OnItsWay(k) => OnItsWay(k)'
        /\ OnItsWay(m)'
    BY <2>1, <2>2 DEF SessionDoomed, OnItsWay, Elements
  <2>7. QED BY <2>1, <2>2, <2>3, <2>4, <2>5, <2>6 DEF OrphanInv
<1>3. CASE TakeNotice
  BY <1>3, TakeNoticeOrphan
<1>4. CASE Quit
  BY <1>4 DEF Quit, OrphanInv
<1>5. CASE HandleSend
  BY <1>5, HandleSendOrphan
<1>6. CASE HandleDisconnect
  <2>1. Disconnect \in Elements(cmds)
    BY <1>1, <1>6, HeadTailElements DEF HandleDisconnect
  <2>2. QED BY <1>6, <2>1 DEF HandleDisconnect, OrphanInv
<1>7. CASE SessionEnds
  <2>1. /\ notices' = Append(notices, Reconnecting) /\ phase' = "backoff"
        /\ UNCHANGED <<chat, tracker, cmds>>
    BY <1>7 DEF SessionEnds
  <2>2. \A m \in Msgs : Settling(m)'
    BY <2>1, SettlingAppend, NoticesSettle, NoticeMade DEF Notice
  <2>3. QED BY <2>1, <2>2 DEF OrphanInv, Elements
<1>8. CASE Reconnect \/ ReconnectFails
  <2>1. /\ phase = "backoff" /\ phase' = "drive"
        /\ UNCHANGED <<chat, tracker, cmds, notices>>
    BY <1>8 DEF Reconnect, ReconnectFails
  <2>2. \A m \in Msgs : Settling(m)' <=> Settling(m)
    BY <2>1, SettlingSame
  <2>3. \A m \in Msgs : m \in Elements(cmds) => OnItsWay(m)'
    BY <2>1 DEF OnItsWay, Elements
  <2>4. Elements(cmds)' = Elements(cmds)
    BY <2>1 DEF Elements
  <2>5. QED BY <2>1, <2>2, <2>3, <2>4 DEF OrphanInv
<1>9. ASSUME NEW k \in Msgs, ForwardInnerAck(k) PROVE OrphanInv'
  <2>1. /\ notices' = Append(notices, ReceiveAck(k))
        /\ UNCHANGED <<chat, tracker, phase, cmds, reader, writer, recvAcks, link, outgoing,
                       ackFrames>>
    BY <1>9 DEF ForwardInnerAck
  <2>2. \A m \in Msgs : Settling(m) => Settling(m)'
    BY <2>1, SettlingAppend, NoticeMade
  <2>3. /\ SessionDoomed' <=> SessionDoomed
        /\ \A m \in Msgs : OnItsWay(m)' <=> OnItsWay(m)
    BY <2>1 DEF SessionDoomed, OnItsWay, Elements
  <2>4. QED BY <2>1, <2>2, <2>3, StayStep
<1>10. CASE HandleRecvAck
  <2>1. PICK k : k = Head(recvAcks)
    OBVIOUS
  <2>2. /\ recvAcks # <<>> /\ recvAcks' = Tail(recvAcks)
        /\ notices' = Append(notices, Status(k, "Sent"))
        /\ UNCHANGED <<chat, tracker, phase, cmds, reader, writer, link, outgoing, ackFrames>>
    BY <1>10, <2>1 DEF HandleRecvAck
  <2>3. k \in Msgs /\ Elements(recvAcks) \subseteq {k} \cup Elements(recvAcks')
    BY <1>1, <2>1, <2>2, HeadTailElements
  <2>4. \A m \in Msgs : Settling(m)' <=> Settling(m) \/ Settles(Status(k, "Sent"), m)
    BY <2>2, <2>3, SettlingAppend, NoticeMade
  <2>5. Settling(k)'
    BY <2>3, <2>4, NoticesSettle
  <2>6. /\ SessionDoomed' <=> SessionDoomed
        /\ \A m \in Msgs : OnItsWay(m) => OnItsWay(m)' \/ m = k
    BY <2>2, <2>3 DEF SessionDoomed, OnItsWay, Elements
  <2>7. QED BY <2>2, <2>4, <2>5, <2>6, StayStep
<1>11. CASE RelayAccepts
  <2>1. PICK k : k = Head(outgoing)
    OBVIOUS
  <2>2. /\ outgoing # <<>> /\ outgoing' = Tail(outgoing) /\ ackFrames' = ackFrames \cup {k}
        /\ UNCHANGED <<chat, tracker, phase, cmds, notices, reader, writer, link, recvAcks>>
    BY <1>11, <2>1 DEF RelayAccepts
  <2>3. Elements(outgoing) \subseteq {k} \cup Elements(outgoing')
    BY <1>1, <2>1, <2>2, HeadTailElements
  <2>4. /\ SessionDoomed' <=> SessionDoomed
        /\ \A m \in Msgs : OnItsWay(m) => OnItsWay(m)'
    BY <2>2, <2>3 DEF SessionDoomed, OnItsWay, Elements
  <2>5. QED BY <2>2, <2>4, SettlingSame, StayStep
<1>12. ASSUME NEW k \in Msgs, RelayAckArrives(k) PROVE OrphanInv'
  <2>1. /\ ackFrames' = ackFrames \ {k} /\ recvAcks' = Append(recvAcks, k)
        /\ UNCHANGED <<chat, tracker, phase, cmds, notices, reader, writer, link, outgoing>>
    BY <1>12 DEF RelayAckArrives
  <2>2. Elements(recvAcks') = Elements(recvAcks) \cup {k}
    BY <1>1, <2>1, AppendElements
  <2>3. /\ SessionDoomed' <=> SessionDoomed
        /\ \A m \in Msgs : OnItsWay(m) => OnItsWay(m)'
    BY <2>1, <2>2 DEF SessionDoomed, OnItsWay, Elements
  <2>4. QED BY <2>1, <2>3, SettlingSame, StayStep
<1>13. CASE HeartbeatTimesOut
  <2>1. /\ outgoing' = Append(outgoing, Close)
        /\ UNCHANGED <<chat, tracker, phase, cmds, notices, reader, writer, recvAcks, link,
                       ackFrames>>
    BY <1>13 DEF HeartbeatTimesOut
  <2>2. Elements(outgoing') = Elements(outgoing) \cup {Close}
    BY <1>1, <2>1, AppendElements
  <2>3. /\ SessionDoomed' <=> SessionDoomed
        /\ \A m \in Msgs : OnItsWay(m) => OnItsWay(m)'
    BY <2>1, <2>2 DEF SessionDoomed, OnItsWay, Elements
  <2>4. QED BY <2>1, <2>3, SettlingSame, StayStep
<1>14. CASE LinkDrops \/ RelayCloses \/ ReaderEnds \/ WriterEnds \/ ReaderRejects
  <2>1. UNCHANGED <<chat, tracker, phase, cmds, notices>>
    BY <1>14 DEF LinkDrops, RelayCloses, LoseConnection, ReaderEnds, WriterEnds, ReaderRejects
  <2>2. ~(reader /\ writer /\ link)'
    BY <1>14 DEF LinkDrops, RelayCloses, LoseConnection, ReaderEnds, WriterEnds, ReaderRejects
  <2>3. phase = "drive" => SessionDoomed'
    BY <2>1, <2>2 DEF SessionDoomed
  <2>4. QED BY <2>1, <2>3, SettlingSame, StayStep
<1>15. ASSUME \/ \E k \in Msgs : StrayAccepted(k)
              \/ UNCHANGED vars
       PROVE  OrphanInv'
  <2>1. UNCHANGED <<chat, tracker, phase, cmds, notices, reader, writer, recvAcks, link,
                    outgoing, ackFrames>>
    BY <1>15 DEF StrayAccepted, vars
  <2>2. /\ SessionDoomed' <=> SessionDoomed
        /\ \A m \in Msgs : OnItsWay(m)' <=> OnItsWay(m)
    BY <2>1 DEF SessionDoomed, OnItsWay, Elements
  <2>3. QED BY <2>1, <2>2, SettlingSame, StayStep
<1>16. QED
  BY <1>2, <1>3, <1>4, <1>5, <1>6, <1>7, <1>8, <1>9, <1>10, <1>11, <1>12, <1>13,
     <1>14, <1>15 DEF Next, Behind

\* While the chat session is open, a message whose tick is still the dot is in a
\* queue on its way to a status, or an event that settles it is queued, or the
\* session serving it is dead and will say so: none falls between the tasks.
THEOREM NoOrphanSendingAlways == Spec => []NoOrphanSending
<1>1. Init => OrphanInv
  BY DEF Init, OrphanInv, NothingTracked, Elements
<1>2. OrphanInv => NoOrphanSending
  BY DEF OrphanInv, NoOrphanSending
<1>3. QED
  BY <1>1, <1>2, DataHolds, OrphanInvPreserved, PTL DEF Spec

-----------------------------------------------------------------------------
(* The lines of the transcript *)

Lines == {T!Other} \cup [msg : Msgs, tick : T!OutboundState]

ShownData ==
  /\ transcript \in Seq(Lines) /\ Len(transcript) <= Cap
  /\ tracker \in T!Tracker /\ shifted \in BOOLEAN
  /\ pushes \in 0 .. MaxPushes /\ clears \in 0 .. MaxClears

\* The messages recorded are those tracked.
RecordsOK ==
  /\ DOMAIN by_msg_id = Tracked
  /\ \A m \in Tracked : by_msg_id[m] \in 1 .. Cap

\* Lines with a tick are where they were recorded, and the other way round.
LinesOK(lines, states) ==
  /\ \A m \in Tracked : /\ by_msg_id[m] \in DOMAIN lines
                        /\ lines[by_msg_id[m]] = T!Line(m, states[m])
  /\ \A i \in DOMAIN lines :
       \/ lines[i] = T!Other
       \/ \E m \in Tracked : i = by_msg_id[m]

ShownInv ==
  /\ ShownData /\ RecordsOK
  /\ shifted \/ LinesOK(transcript, tracker)

-----------------------------------------------------------------------------
(* The operators on lines *)

\* What push_transcript_line returns.
LEMMA PushedLines ==
  ASSUME NEW lines \in Seq(Lines), Len(lines) <= Cap, NEW line \in Lines
  PROVE  /\ T!Pushed(lines, line) \in Seq(Lines)
         /\ Len(T!Pushed(lines, line)) \in 1 .. Cap
         /\ ~T!Overflows(lines) =>
              /\ Len(T!Pushed(lines, line)) = Len(lines) + 1
              /\ \A i \in 1 .. Len(lines) : T!Pushed(lines, line)[i] = lines[i]
              /\ T!Pushed(lines, line)[Len(lines) + 1] = line
<1>. DEFINE longer == Append(lines, line)
<1>1. /\ longer \in Seq(Lines) /\ Len(longer) = Len(lines) + 1
      /\ \A i \in 1 .. Len(lines) : longer[i] = lines[i]
      /\ longer[Len(lines) + 1] = line
  OBVIOUS
<1>2. PICK n \in Nat : Len(lines) = n
  OBVIOUS
<1>3. Cap \in Nat /\ Cap > 0
  BY ScreenAssumption
<1>. HIDE DEF longer
<1>4. CASE n >= Cap
  <2>1. n = Cap
    BY <1>2, <1>3, <1>4
  <2>2. T!Pushed(lines, line) = SubSeq(longer, 2, Cap + 1)
    BY <1>1, <1>2, <1>3, <2>1 DEF T!Pushed, longer
  <2>3. SubSeq(longer, 2, Cap + 1) \in Seq(Lines) /\ Len(SubSeq(longer, 2, Cap + 1)) = Cap
    BY <1>1, <1>2, <1>3, <2>1
  <2>. QED  BY <1>2, <1>3, <1>4, <2>2, <2>3 DEF T!Overflows
<1>5. CASE n < Cap
  <2>1. T!Pushed(lines, line) = longer
    BY <1>1, <1>2, <1>3, <1>5 DEF T!Pushed, longer
  <2>. QED  BY <1>1, <1>2, <1>3, <1>5, <2>1
<1>. QED  BY <1>2, <1>3, <1>4, <1>5

LEMMA LineType ==
  ASSUME NEW m \in Msgs, NEW state \in T!OutboundState
  PROVE  T!Line(m, state) \in Lines
BY DEF T!Line, Lines

\* Rewriting a line keeps the number of lines, and the other lines.
LEMMA AppliedLines ==
  ASSUME NEW lines \in Seq(Lines), NEW m \in Msgs, NEW state \in T!OutboundState
  PROVE  /\ T!Applied(lines, m, state) \in Seq(Lines)
         /\ Len(T!Applied(lines, m, state)) = Len(lines)
         /\ DOMAIN T!Applied(lines, m, state) = DOMAIN lines
         /\ \A i \in DOMAIN lines :
              T!Applied(lines, m, state)[i] =
                IF m \in DOMAIN by_msg_id /\ i = by_msg_id[m] THEN T!Line(m, state) ELSE lines[i]
<1>1. T!Line(m, state) \in Lines
  BY LineType
<1>. QED  BY <1>1 DEF T!Applied

LEMMA AppliedAllLines ==
  ASSUME NEW lines \in Seq(Lines), NEW ms \in SUBSET Msgs, NEW state \in T!OutboundState,
         NEW result \in T!AppliedAll(lines, ms, state)
  PROVE  /\ result \in Seq(Lines) /\ Len(result) = Len(lines) /\ DOMAIN result = DOMAIN lines
         /\ \A i \in DOMAIN lines :
              \/ /\ \E m \in ms : /\ m \in DOMAIN by_msg_id /\ by_msg_id[m] = i
                                  /\ result[i] = T!Line(m, state)
              \/ /\ \A m \in ms : m \in DOMAIN by_msg_id => by_msg_id[m] # i
                 /\ result[i] = lines[i]
<1>. DEFINE at(i) == {m \in ms \cap DOMAIN by_msg_id : by_msg_id[m] = i}
            hit   == {i \in DOMAIN lines : at(i) # {}}
<1>1. PICK last \in [hit -> ms] :
        /\ \A i \in hit : last[i] \in at(i)
        /\ result = [i \in DOMAIN lines |-> IF i \in hit THEN T!Line(last[i], state) ELSE lines[i]]
  BY DEF T!AppliedAll
<1>2. ASSUME NEW i \in DOMAIN lines PROVE result[i] \in Lines
  <2>1. CASE i \in hit
    <3>1. last[i] \in Msgs
      BY <1>1, <2>1
    <3>. QED  BY <1>1, <2>1, <3>1, LineType
  <2>2. CASE i \notin hit
    BY <1>1, <2>2
  <2>. QED  BY <2>1, <2>2
<1>3. DOMAIN result = 1 .. Len(lines) /\ Len(lines) \in Nat /\ DOMAIN lines = 1 .. Len(lines)
  BY <1>1
<1>4. result = [i \in 1 .. Len(lines) |-> result[i]]
  BY <1>1, <1>3
<1>5. result \in Seq(Lines) /\ Len(result) = Len(lines)
  BY <1>2, <1>3, <1>4
<1>6. ASSUME NEW i \in DOMAIN lines
      PROVE  \/ /\ \E m \in ms : /\ m \in DOMAIN by_msg_id /\ by_msg_id[m] = i
                                 /\ result[i] = T!Line(m, state)
             \/ /\ \A m \in ms : m \in DOMAIN by_msg_id => by_msg_id[m] # i
                /\ result[i] = lines[i]
  <2>1. CASE i \in hit
    <3>1. last[i] \in at(i) /\ result[i] = T!Line(last[i], state)
      BY <1>1, <2>1
    <3>. QED  BY <3>1
  <2>2. CASE i \notin hit
    BY <1>1, <2>2
  <2>. QED  BY <2>1, <2>2
<1>. QED  BY <1>3, <1>5, <1>6

\* Messages have lines of their own.
LEMMA OneLineEach ==
  ASSUME NEW lines, NEW states, LinesOK(lines, states), NEW m \in Tracked, NEW n \in Tracked,
         by_msg_id[m] = by_msg_id[n]
  PROVE  m = n
<1>1. T!Line(m, states[m]) = T!Line(n, states[n])
  BY DEF LinesOK
<1>. QED  BY <1>1 DEF T!Line

-----------------------------------------------------------------------------
(* The operators on states *)

\* A mark changes the state of one message at most, and tracks none.
LEMMA MarkOne ==
  ASSUME NEW t \in T!Tracker, NEW m \in Msgs, NEW marked,
         marked \in {T!MarkSent(t, m), T!MarkFailed(t, m), T!MarkDelivered(t, m)}
  PROVE  /\ marked \in T!Tracker
         /\ \A n \in Msgs : marked[n] = "untracked" <=> t[n] = "untracked"
         /\ \A n \in Msgs \ {m} : marked[n] = t[n]
BY DEF T!Tracker, T!OutboundState, T!MarkSent, T!MarkFailed, T!MarkDelivered

LEMMA MarkAll ==
  ASSUME NEW t \in T!Tracker
  PROVE  /\ T!MarkAllFailed(t) \in T!Tracker
         /\ \A n \in Msgs : T!MarkAllFailed(t)[n] = "untracked" <=> t[n] = "untracked"
         /\ T!StillSending(t) \subseteq Msgs
         /\ \A n \in T!StillSending(t) : t[n] # "untracked" /\ T!MarkAllFailed(t)[n] = "Failed"
         /\ \A n \in Msgs \ T!StillSending(t) : T!MarkAllFailed(t)[n] = t[n]
BY DEF T!Tracker, T!OutboundState, T!MarkAllFailed, T!StillSending

-----------------------------------------------------------------------------
(* Every step keeps the invariant *)

LEMMA ShownInit == T!Init => ShownInv
<1>. SUFFICES ASSUME T!Init PROVE ShownInv
  OBVIOUS
<1>1. /\ transcript = <<>> /\ by_msg_id = [m \in {} |-> 0]
      /\ tracker = [m \in Msgs |-> "untracked"]
      /\ shifted = FALSE /\ pushes = 0 /\ clears = 0
  BY DEF T!Init, T!NothingTracked
<1>2. Tracked = {}
  BY <1>1 DEF Tracked
<1>3. ShownData
  <2>1. transcript \in Seq(Lines) /\ Len(transcript) <= Cap
    BY <1>1, ScreenAssumption
  <2>2. tracker \in T!Tracker
    BY <1>1 DEF T!Tracker
  <2>3. shifted \in BOOLEAN
    BY <1>1
  <2>. QED  BY <1>1, <2>1, <2>2, <2>3, ScreenAssumption DEF ShownData
<1>4. RecordsOK
  BY <1>1, <1>2 DEF RecordsOK
<1>5. LinesOK(transcript, tracker)
  BY <1>1, <1>2 DEF LinesOK
<1>. QED  BY <1>3, <1>4, <1>5 DEF ShownInv

\* A line without a tick goes behind the others.
LEMMA OtherPushed ==
  ASSUME RecordsOK, UNCHANGED by_msg_id, Tracked' = Tracked,
         NEW lines \in Seq(Lines), Len(lines) <= Cap, NEW states, LinesOK(lines, states),
         ~T!Overflows(lines), transcript' = T!Pushed(lines, T!Other), states = tracker'
  PROVE  LinesOK(transcript, tracker)'
<1>1. T!Other \in Lines
  BY DEF Lines
<1>2. PICK n \in Nat : n = Len(lines)
  OBVIOUS
<1>3. /\ transcript' \in Seq(Lines) /\ Len(transcript') = n + 1
      /\ \A i \in 1 .. n : transcript'[i] = lines[i]
      /\ transcript'[n + 1] = T!Other
  BY <1>1, <1>2, PushedLines
<1>4. DOMAIN lines = 1 .. n /\ DOMAIN transcript' = 1 .. n + 1
  BY <1>2, <1>3
<1>5. \A m \in Tracked : /\ by_msg_id[m] \in DOMAIN transcript'
                         /\ transcript'[by_msg_id[m]] = T!Line(m, tracker'[m])
  BY <1>3, <1>4 DEF LinesOK
<1>6. \A i \in DOMAIN transcript' : transcript'[i] = T!Other \/ \E m \in Tracked : i = by_msg_id[m]
  <2>. SUFFICES ASSUME NEW i \in DOMAIN transcript'
                PROVE  transcript'[i] = T!Other \/ \E m \in Tracked : i = by_msg_id[m]
    OBVIOUS
  <2>1. i = n + 1 \/ i \in 1 .. n
    BY <1>4
  <2>. QED  BY <1>3, <1>4, <2>1 DEF LinesOK
<1>. QED  BY <1>5, <1>6 DEF LinesOK

LEMMA PushOtherInv ==
  ASSUME ShownInv, T!PushOther
  PROVE  ShownInv'
<1>1. /\ pushes < MaxPushes /\ pushes' = pushes + 1 /\ transcript' = T!Pushed(transcript, T!Other)
      /\ UNCHANGED <<by_msg_id, tracker, clears>>
  BY DEF T!PushOther
<1>2. shifted' <=> shifted \/ T!Overflows(transcript)
  BY DEF T!PushOther
<1>3. shifted' \in BOOLEAN
  BY DEF T!PushOther, ShownInv, ShownData, T!Overflows
<1>4. T!Other \in Lines /\ Tracked' = Tracked
  BY <1>1 DEF Lines, Tracked
<1>5. transcript' \in Seq(Lines) /\ Len(transcript') <= Cap
  BY <1>1, <1>4, PushedLines, ScreenAssumption DEF ShownInv, ShownData
<1>6. ShownData'
  BY <1>1, <1>3, <1>5, ScreenAssumption DEF ShownInv, ShownData
<1>7. RecordsOK'
  BY <1>1, <1>4 DEF ShownInv, RecordsOK
<1>8. CASE shifted'
  BY <1>6, <1>7, <1>8 DEF ShownInv
<1>9. CASE ~shifted'
  <2>1. LinesOK(transcript, tracker) /\ ~T!Overflows(transcript)
    BY <1>2, <1>9 DEF ShownInv
  <2>2. LinesOK(transcript, tracker)'
    BY <1>1, <1>4, <2>1, OtherPushed DEF ShownInv, ShownData
  <2>. QED  BY <1>6, <1>7, <2>2 DEF ShownInv
<1>. QED  BY <1>8, <1>9

LEMMA SubmitInv ==
  ASSUME ShownInv, NEW m \in Msgs, T!Submit(m)
  PROVE  ShownInv'
<1>1. /\ tracker[m] = "untracked" /\ tracker' = [tracker EXCEPT ![m] = "Sending"]
      /\ transcript' = T!Pushed(transcript, T!Line(m, "Sending"))
      /\ by_msg_id' = [n \in DOMAIN by_msg_id \cup {m} |->
                         IF n = m THEN Len(transcript') ELSE by_msg_id[n]]
      /\ UNCHANGED <<pushes, clears>>
  BY DEF T!Submit, T!Track, T!Recorded
<1>2. shifted' <=> shifted \/ T!Overflows(transcript)
  BY DEF T!Submit
<1>3. shifted' \in BOOLEAN
  BY DEF T!Submit, ShownInv, ShownData, T!Overflows
<1>4. ShownData /\ RecordsOK /\ Cap \in Nat /\ Cap > 0
  BY ScreenAssumption DEF ShownInv
<1>5. T!Line(m, "Sending") \in Lines
  BY LineType DEF T!OutboundState
<1>6. tracker' \in T!Tracker
  BY <1>1, <1>4 DEF ShownData, T!Tracker, T!OutboundState
<1>7. Tracked' = Tracked \cup {m} /\ m \notin Tracked /\ \A n \in Tracked : tracker'[n] = tracker[n]
  BY <1>1, <1>4 DEF Tracked, ShownData, T!Tracker
<1>8. tracker'[m] = "Sending"
  BY <1>1, <1>4 DEF ShownData, T!Tracker
<1>9. transcript' \in Seq(Lines) /\ Len(transcript') \in 1 .. Cap
  BY <1>1, <1>4, <1>5, PushedLines DEF ShownData
<1>10. ShownData'
  <2>1. Len(transcript') <= Cap
    BY <1>4, <1>9
  <2>. QED  BY <1>1, <1>3, <1>4, <1>6, <1>9, <2>1 DEF ShownData
<1>11. /\ DOMAIN by_msg_id' = Tracked'
       /\ \A n \in Tracked : by_msg_id'[n] = by_msg_id[n]
       /\ by_msg_id'[m] = Len(transcript')
  BY <1>1, <1>4, <1>7 DEF RecordsOK
<1>12. RecordsOK'
  BY <1>4, <1>7, <1>9, <1>11 DEF RecordsOK
<1>13. CASE shifted'
  BY <1>10, <1>12, <1>13 DEF ShownInv
<1>14. CASE ~shifted'
  <2>1. LinesOK(transcript, tracker) /\ ~T!Overflows(transcript)
    BY <1>2, <1>14 DEF ShownInv
  <2>2. PICK k \in Nat : k = Len(transcript)
    BY <1>4 DEF ShownData
  <2>3. /\ Len(transcript') = k + 1
        /\ \A i \in 1 .. k : transcript'[i] = transcript[i]
        /\ transcript'[k + 1] = T!Line(m, "Sending")
    BY <1>1, <1>4, <1>5, <2>1, <2>2, PushedLines DEF ShownData
  <2>4. DOMAIN transcript = 1 .. k /\ DOMAIN transcript' = 1 .. k + 1
    BY <1>4, <1>9, <2>2, <2>3 DEF ShownData
  <2>5. ASSUME NEW n \in Tracked'
        PROVE  /\ by_msg_id'[n] \in DOMAIN transcript'
               /\ transcript'[by_msg_id'[n]] = T!Line(n, tracker'[n])
    <3>1. CASE n = m
      BY <1>8, <1>11, <2>3, <2>4, <3>1
    <3>2. CASE n # m
      <4>1. n \in Tracked
        BY <1>7, <3>2
      <4>2. by_msg_id[n] \in 1 .. k /\ transcript[by_msg_id[n]] = T!Line(n, tracker[n])
        BY <2>1, <2>4, <4>1 DEF LinesOK
      <4>3. by_msg_id[n] \in 1 .. k + 1
        BY <4>2
      <4>. QED  BY <1>7, <1>11, <2>3, <2>4, <4>1, <4>2, <4>3
    <3>. QED  BY <3>1, <3>2
  <2>6. ASSUME NEW i \in DOMAIN transcript'
        PROVE  transcript'[i] = T!Other \/ \E n \in Tracked' : i = by_msg_id'[n]
    <3>1. i = k + 1 \/ i \in 1 .. k
      BY <2>4
    <3>2. CASE i = k + 1
      BY <1>7, <1>11, <2>3, <3>2
    <3>3. CASE i \in 1 .. k
      BY <1>7, <1>11, <2>1, <2>3, <2>4, <3>3 DEF LinesOK
    <3>. QED  BY <3>1, <3>2, <3>3
  <2>7. LinesOK(transcript, tracker)'
    BY <2>5, <2>6 DEF LinesOK
  <2>. QED  BY <1>10, <1>12, <2>7 DEF ShownInv
<1>. QED  BY <1>13, <1>14

LEMMA TakeStatusInv ==
  ASSUME ShownInv, NEW m \in Msgs, T!TakeStatus(m)
  PROVE  ShownInv'
<1>1. /\ tracker[m] # "untracked" /\ transcript' = T!Applied(transcript, m, tracker'[m])
      /\ tracker' \in {T!MarkSent(tracker, m), T!MarkFailed(tracker, m), T!MarkDelivered(tracker, m)}
      /\ UNCHANGED <<by_msg_id, pushes, clears>>
  BY DEF T!TakeStatus
<1>2. shifted' = shifted
  BY DEF T!TakeStatus
<1>3. ShownData /\ RecordsOK
  BY DEF ShownInv
<1>4. /\ tracker' \in T!Tracker /\ \A n \in Msgs \ {m} : tracker'[n] = tracker[n]
      /\ \A n \in Msgs : tracker'[n] = "untracked" <=> tracker[n] = "untracked"
  BY <1>1, <1>3, MarkOne DEF ShownData
<1>5. Tracked' = Tracked /\ m \in Tracked
  BY <1>1, <1>4 DEF Tracked
<1>6. PICK state \in T!OutboundState : tracker'[m] = state
  BY <1>1, <1>4 DEF T!Tracker
<1>7. /\ transcript' \in Seq(Lines) /\ Len(transcript') = Len(transcript)
      /\ DOMAIN transcript' = DOMAIN transcript
      /\ \A i \in DOMAIN transcript :
           transcript'[i] = IF m \in DOMAIN by_msg_id /\ i = by_msg_id[m]
                              THEN T!Line(m, state) ELSE transcript[i]
  BY <1>1, <1>3, <1>6, AppliedLines DEF ShownData
<1>8. ShownData'
  <2>1. shifted' \in BOOLEAN
    BY <1>2 DEF ShownInv, ShownData
  <2>. QED  BY <1>1, <1>3, <1>4, <1>7, <2>1 DEF ShownData
<1>9. RecordsOK'
  BY <1>1, <1>3, <1>5 DEF RecordsOK
<1>10. CASE shifted
  BY <1>2, <1>8, <1>9, <1>10 DEF ShownInv
<1>11. CASE ~shifted
  <2>1. LinesOK(transcript, tracker)
    BY <1>11 DEF ShownInv
  <2>2. ASSUME NEW n \in Tracked
        PROVE  /\ by_msg_id[n] \in DOMAIN transcript'
               /\ transcript'[by_msg_id[n]] = T!Line(n, tracker'[n])
    <3>1. by_msg_id[n] \in DOMAIN transcript /\ transcript[by_msg_id[n]] = T!Line(n, tracker[n])
      BY <2>1 DEF LinesOK
    <3>2. CASE n = m
      BY <1>3, <1>5, <1>6, <1>7, <3>1, <3>2 DEF RecordsOK
    <3>3. CASE n # m
      <4>1. by_msg_id[n] # by_msg_id[m]
        BY <1>5, <2>1, <3>3, OneLineEach
      <4>2. tracker'[n] = tracker[n]
        BY <1>4, <3>3 DEF Tracked
      <4>. QED  BY <1>7, <3>1, <4>1, <4>2
    <3>. QED  BY <3>2, <3>3
  <2>3. ASSUME NEW i \in DOMAIN transcript'
        PROVE  transcript'[i] = T!Other \/ \E n \in Tracked : i = by_msg_id[n]
    BY <1>5, <1>7, <2>1 DEF LinesOK
  <2>4. LinesOK(transcript, tracker)'
    BY <1>1, <1>5, <2>2, <2>3 DEF LinesOK
  <2>. QED  BY <1>8, <1>9, <2>4 DEF ShownInv
<1>. QED  BY <1>10, <1>11

LEMMA TakeReconnectingInv ==
  ASSUME ShownInv, T!TakeReconnecting
  PROVE  ShownInv'
<1>1. /\ pushes < MaxPushes /\ pushes' = pushes + 1 /\ tracker' = T!MarkAllFailed(tracker)
      /\ UNCHANGED <<by_msg_id, clears>>
  BY DEF T!TakeReconnecting
<1>2. shifted' <=> shifted \/ T!Overflows(transcript)
  BY DEF T!TakeReconnecting
<1>3. shifted' \in BOOLEAN
  BY DEF T!TakeReconnecting, ShownInv, ShownData, T!Overflows
<1>4. ShownData /\ RecordsOK /\ Cap \in Nat /\ Cap > 0 /\ MaxPushes \in Nat
  BY ScreenAssumption DEF ShownInv
<1>5. PICK lines \in T!AppliedAll(transcript, T!StillSending(tracker), "Failed") :
        transcript' = T!Pushed(lines, T!Other)
  BY DEF T!TakeReconnecting
<1>6. /\ tracker' \in T!Tracker /\ T!StillSending(tracker) \in SUBSET Tracked
      /\ \A n \in T!StillSending(tracker) : tracker'[n] = "Failed"
      /\ \A n \in Msgs \ T!StillSending(tracker) : tracker'[n] = tracker[n]
  BY <1>1, <1>4, MarkAll DEF ShownData, Tracked
<1>7. Tracked' = Tracked /\ T!StillSending(tracker) \in SUBSET Msgs
  BY <1>1, <1>4, <1>6, MarkAll DEF ShownData, Tracked
<1>8. "Failed" \in T!OutboundState /\ T!Other \in Lines
  BY DEF T!OutboundState, Lines
<1>9. /\ lines \in Seq(Lines) /\ Len(lines) = Len(transcript) /\ DOMAIN lines = DOMAIN transcript
      /\ \A i \in DOMAIN transcript :
           \/ /\ \E n \in T!StillSending(tracker) :
                   n \in DOMAIN by_msg_id /\ by_msg_id[n] = i /\ lines[i] = T!Line(n, "Failed")
           \/ /\ \A n \in T!StillSending(tracker) : n \in DOMAIN by_msg_id => by_msg_id[n] # i
              /\ lines[i] = transcript[i]
  <2>1. transcript \in Seq(Lines)
    BY <1>4 DEF ShownData
  <2>2. PICK ms \in SUBSET Msgs : ms = T!StillSending(tracker)
    BY <1>7
  <2>3. lines \in T!AppliedAll(transcript, ms, "Failed")
    BY <1>5, <2>2
  <2>4. /\ lines \in Seq(Lines) /\ Len(lines) = Len(transcript) /\ DOMAIN lines = DOMAIN transcript
        /\ \A i \in DOMAIN transcript :
             \/ \E n \in ms :
                  n \in DOMAIN by_msg_id /\ by_msg_id[n] = i /\ lines[i] = T!Line(n, "Failed")
             \/ /\ \A n \in ms : n \in DOMAIN by_msg_id => by_msg_id[n] # i
                /\ lines[i] = transcript[i]
    BY <1>8, <2>1, <2>3, AppliedAllLines
  <2>. QED  BY <2>2, <2>4
<1>10. Len(lines) <= Cap /\ transcript' \in Seq(Lines) /\ Len(transcript') \in 1 .. Cap
  BY <1>4, <1>5, <1>8, <1>9, PushedLines DEF ShownData
<1>11. ShownData'
  <2>1. Len(transcript') <= Cap
    BY <1>4, <1>10
  <2>. QED  BY <1>1, <1>3, <1>4, <1>6, <1>10, <2>1 DEF ShownData
<1>12. RecordsOK'
  BY <1>1, <1>4, <1>7 DEF RecordsOK
<1>13. CASE shifted'
  BY <1>11, <1>12, <1>13 DEF ShownInv
<1>14. CASE ~shifted'
  <2>1. LinesOK(transcript, tracker) /\ ~T!Overflows(transcript)
    BY <1>2, <1>14 DEF ShownInv
  <2>2. PICK states : states = tracker'
    OBVIOUS
  <2>3. ASSUME NEW m \in Tracked
        PROVE  by_msg_id[m] \in DOMAIN lines /\ lines[by_msg_id[m]] = T!Line(m, states[m])
    <3>1. by_msg_id[m] \in DOMAIN transcript /\ transcript[by_msg_id[m]] = T!Line(m, tracker[m])
      BY <2>1 DEF LinesOK
    <3>2. CASE m \in T!StillSending(tracker)
      <4>1. PICK n \in T!StillSending(tracker) :
              by_msg_id[n] = by_msg_id[m] /\ lines[by_msg_id[m]] = T!Line(n, "Failed")
        BY <1>4, <1>9, <3>1, <3>2 DEF RecordsOK
      <4>2. n = m
        BY <1>6, <2>1, <4>1, OneLineEach
      <4>. QED  BY <1>6, <1>9, <2>2, <3>1, <3>2, <4>1, <4>2
    <3>3. CASE m \notin T!StillSending(tracker)
      <4>1. \A n \in T!StillSending(tracker) : by_msg_id[n] # by_msg_id[m]
        BY <1>6, <2>1, <3>3, OneLineEach
      <4>2. tracker'[m] = tracker[m]
        BY <1>6, <3>3 DEF Tracked
      <4>. QED  BY <1>9, <2>2, <3>1, <4>1, <4>2
    <3>. QED  BY <3>2, <3>3
  <2>4. ASSUME NEW i \in DOMAIN lines
        PROVE  lines[i] = T!Other \/ \E m \in Tracked : i = by_msg_id[m]
    BY <1>6, <1>9, <2>1 DEF LinesOK
  <2>5. LinesOK(lines, states)
    BY <2>3, <2>4 DEF LinesOK
  <2>6. ~T!Overflows(lines)
    BY <1>9, <2>1 DEF T!Overflows
  <2>7. LinesOK(transcript, tracker)'
    BY <1>1, <1>4, <1>5, <1>7, <1>9, <1>10, <2>2, <2>5, <2>6, OtherPushed
  <2>. QED  BY <1>11, <1>12, <2>7 DEF ShownInv
<1>. QED  BY <1>13, <1>14

LEMMA ClearInv ==
  ASSUME ShownInv, T!Clear
  PROVE  ShownInv'
<1>1. /\ clears < MaxClears /\ clears' = clears + 1 /\ transcript' = <<>>
      /\ UNCHANGED <<by_msg_id, tracker, pushes>>
  BY DEF T!Clear
<1>2. shifted' = TRUE
  BY DEF T!Clear
<1>3. ShownData'
  BY <1>1, <1>2, ScreenAssumption DEF ShownInv, ShownData
<1>4. RecordsOK'
  BY <1>1 DEF ShownInv, RecordsOK, Tracked
<1>. QED  BY <1>2, <1>3, <1>4 DEF ShownInv

LEMMA ShownStep == ShownInv /\ [T!Next]_(T!vars) => ShownInv'
<1>. SUFFICES ASSUME ShownInv, [T!Next]_(T!vars) PROVE ShownInv'
  OBVIOUS
<1>1. CASE T!PushOther
  BY <1>1, PushOtherInv
<1>2. ASSUME NEW m \in Msgs, T!Submit(m) PROVE ShownInv'
  BY <1>2, SubmitInv
<1>3. ASSUME NEW m \in Msgs, T!TakeStatus(m) PROVE ShownInv'
  BY <1>3, TakeStatusInv
<1>4. CASE T!TakeReconnecting
  BY <1>4, TakeReconnectingInv
<1>5. CASE T!Clear
  BY <1>5, ClearInv
<1>6. CASE UNCHANGED T!vars
  BY <1>6 DEF T!vars, ShownInv, ShownData, RecordsOK, LinesOK, Tracked
<1>. QED  BY <1>1, <1>2, <1>3, <1>4, <1>5, <1>6 DEF T!Next

-----------------------------------------------------------------------------
(* The screen in front of the transport *)

\* Nothing but the screen's own steps touches the ticks, and the relay forgets
\* nothing.
LEMMA BehindKeeps == Behind => UNCHANGED tracker /\ atRelay \subseteq atRelay'
BY DEF Behind, ForwardInnerAck, Quit, HandleSend, HandleDisconnect, HandleRecvAck,
       SessionEnds, Reconnect, ReconnectFails, RelayAccepts, StrayAccepted,
       RelayAckArrives, LinkDrops, RelayCloses, ReaderEnds, WriterEnds, ReaderRejects,
       HeartbeatTimesOut, LoseConnection, chatVars, taskVars, sessionVars, netVars

LEMMA NoticeInHand ==
  ASSUME DataOK, TakeNotice
  PROVE  /\ Head(notices).kind = "Status" => Head(notices).id \in Msgs
         /\ Head(notices).kind = "Receive" => Head(notices).refs \in Msgs
         /\ UNCHANGED atRelay
<1>1. notices \in Seq(Notice) /\ notices # <<>>
  BY DEF DataOK, TakeNotice
<1>2. Head(notices) \in Notice
  BY <1>1
<1>3. UNCHANGED atRelay
  BY DEF TakeNotice, netVars
<1>. QED  BY <1>2, <1>3, NoticeFields

\* A step of the screen is a step of the transport and one of the transcript,
\* and what the relay has, it keeps.
LEMMA ScreenStep ==
  ASSUME DataOK, [ScreenNext]_screenVars
  PROVE  [Next]_vars /\ [T!Next]_(T!vars) /\ atRelay \subseteq atRelay'
<1>1. ASSUME NEW m \in Msgs, SubmitShown(m)
      PROVE  [Next]_vars /\ [T!Next]_(T!vars) /\ atRelay \subseteq atRelay'
  <2>1. Submit(m) /\ T!Submit(m)
    BY <1>1 DEF SubmitShown
  <2>2. UNCHANGED atRelay
    BY <2>1 DEF Submit, netVars
  <2>. QED  BY <2>1, <2>2 DEF Next, T!Next
<1>2. CASE TakeNoticeShown
  <2>1. /\ TakeNotice
        /\ \/ Head(notices).kind = "Status" /\ T!TakeStatus(Head(notices).id)
           \/ Head(notices).kind = "Receive" /\ T!TakeStatus(Head(notices).refs)
           \/ T!TakeReconnecting
    BY <1>2 DEF TakeNoticeShown
  <2>2. (\E m \in Msgs : T!TakeStatus(m)) \/ T!TakeReconnecting
    BY <2>1, NoticeInHand
  <2>. QED  BY <2>1, <2>2, NoticeInHand DEF Next, T!Next
<1>3. CASE ScreenOnly
  <2>1. T!PushOther \/ T!Clear
    BY <1>3 DEF ScreenOnly
  <2>2. UNCHANGED tracker
    BY <2>1 DEF T!PushOther, T!Clear
  <2>3. UNCHANGED vars /\ UNCHANGED atRelay
    BY <1>3, <2>2 DEF ScreenOnly, vars, chatVars, netVars
  <2>. QED  BY <2>1, <2>3 DEF T!Next
<1>4. CASE Behind /\ UNCHANGED shown
  <2>1. UNCHANGED T!vars
    BY <1>4, BehindKeeps DEF shown, T!vars
  <2>. QED  BY <1>4, <2>1, BehindKeeps DEF Next
<1>5. CASE UNCHANGED screenVars
  BY <1>5 DEF screenVars, shown, T!vars, vars, chatVars, netVars
<1>. QED  BY <1>1, <1>2, <1>3, <1>4, <1>5 DEF ScreenNext

LEMMA ScreenData == ScreenSpec => []DataOK
<1>1. ScreenInit => DataOK
  BY DEF ScreenInit, Init, DataOK, NothingTracked, Tracker
<1>2. DataOK /\ [ScreenNext]_screenVars => DataOK'
  BY ScreenStep, DataPreserved
<1>. QED  BY <1>1, <1>2, PTL DEF ScreenSpec

\* Behind the screen there is the transport of module Outbound: the transcript
\* takes nothing from it, and what holds of the ticks there holds here.
THEOREM ScreenIsOutbound == ScreenSpec => Spec
<1>1. ScreenInit => Init
  BY DEF ScreenInit
<1>2. DataOK /\ [ScreenNext]_screenVars => [Next]_vars
  BY ScreenStep
<1>. QED  BY <1>1, <1>2, ScreenData, PTL DEF ScreenSpec, Spec

\* The lines do what module Transcript says, of which the transport's events are
\* only some.
THEOREM ScreenIsTranscript == ScreenSpec => T!Spec
<1>1. ScreenInit => T!Init
  BY DEF ScreenInit
<1>2. DataOK /\ [ScreenNext]_screenVars => [T!Next]_(T!vars)
  BY ScreenStep
<1>. QED  BY <1>1, <1>2, ScreenData, PTL DEF ScreenSpec, T!Spec

LEMMA TranscriptHolds == T!Spec => []ShownInv
BY ShownInit, ShownStep, PTL DEF T!Spec

\* Both halves are well-typed for every cap and every number of messages and
\* lines: the transcript never has more lines than its cap, and what
\* OutboundLines remembers is an index that a full transcript has.
THEOREM ScreenTypeCorrect == ScreenSpec => []ScreenTypeOK
<1>1. ShownInv => T!TypeOK
  BY DEF ShownInv, ShownData, RecordsOK, Lines, Tracked, T!TypeOK
<1>. QED
  BY <1>1, ScreenIsOutbound, ScreenIsTranscript, TranscriptHolds, TypeCorrect, PTL
     DEF ScreenTypeOK

\* What the transport reports on.
Reported ==
  {n.id : n \in {e \in Elements(notices) : e.kind = "Status"}}
    \cup {n.refs : n \in {e \in Elements(notices) : e.kind = "Receive"}}

\* The transport reports on no message that the chat session does not know,
\* however many sessions it went through: mark_sent and its like never miss, and
\* joining the transcript to the transport refuses none of its events.
THEOREM ReportsAreKnown == Spec => [](Reported \subseteq Tracked)
<1>1. DataOK /\ TruthInv /\ FateInv => Reported \subseteq Tracked
  <2>. SUFFICES ASSUME DataOK, TruthInv, FateInv, NEW n \in Elements(notices), NEW m,
                       \/ n.kind = "Status" /\ m = n.id
                       \/ n.kind = "Receive" /\ m = n.refs
                PROVE  m \in Tracked
    BY DEF Reported
  <2>1. n \in Notice
    BY DEF DataOK, Elements
  <2>2. m \in Msgs
    BY <2>1, NoticeFields
  <2>3. CASE Tells(n, m)
    <3>1. m \in Carried
      BY <2>2, <2>3 DEF TruthInv, NewsIsTrue, Carried
    <3>. QED  BY <2>2, <3>1 DEF FateInv
  <2>4. CASE ~Tells(n, m)
    <3>1. n.kind = "Status" /\ m = n.id /\ n.status # "Sent"
      BY <2>4 DEF Tells
    <3>2. n = Status(m, "Failed")
      BY <2>1, <3>1 DEF Notice, Status, Reconnecting, Disconnected
    <3>3. m \in FailedIds
      BY <2>2, <3>2 DEF FailedIds
    <3>. QED  BY <2>2, <3>3 DEF FateInv
  <2>. QED  BY <2>3, <2>4
<1>. QED  BY <1>1, DataHolds, TruthHolds, FateHolds, PTL

-----------------------------------------------------------------------------
(* What the lines claim *)

\* No line claims of a message outside relay that it was sent.
Honest(lines, relay) ==
  \A i \in DOMAIN lines :
    lines[i].tick \in {"Sent", "Delivered"} => lines[i].msg \in relay

LEMMA HonestPushed ==
  ASSUME NEW lines \in Seq(Lines), Len(lines) <= Cap, NEW line \in Lines, NEW relay,
         Honest(lines, relay),
         line.tick \in {"Sent", "Delivered"} => line.msg \in relay
  PROVE  Honest(T!Pushed(lines, line), relay)
<1>. DEFINE longer == Append(lines, line)
<1>1. /\ longer \in Seq(Lines) /\ Len(longer) = Len(lines) + 1
      /\ \A i \in 1 .. Len(lines) : longer[i] = lines[i]
      /\ longer[Len(lines) + 1] = line /\ DOMAIN longer = 1 .. Len(lines) + 1
      /\ DOMAIN lines = 1 .. Len(lines)
  OBVIOUS
<1>2. PICK n \in Nat : Len(lines) = n
  OBVIOUS
<1>3. Cap \in Nat /\ Cap > 0
  BY ScreenAssumption
<1>. HIDE DEF longer
<1>4. ASSUME NEW i \in 1 .. n + 1, longer[i].tick \in {"Sent", "Delivered"}
      PROVE  longer[i].msg \in relay
  <2>1. i = n + 1 \/ i \in 1 .. n
    OBVIOUS
  <2>2. CASE i = n + 1
    BY <1>1, <1>2, <1>4, <2>2
  <2>3. CASE i \in 1 .. n
    BY <1>1, <1>2, <1>4, <2>3 DEF Honest
  <2>. QED  BY <2>1, <2>2, <2>3
<1>5. CASE n >= Cap
  <2>1. n = Cap
    BY <1>2, <1>3, <1>5
  <2>2. T!Pushed(lines, line) = SubSeq(longer, 2, Cap + 1)
    BY <1>1, <1>2, <1>3, <2>1 DEF T!Pushed, longer
  <2>3. /\ DOMAIN SubSeq(longer, 2, Cap + 1) = 1 .. Cap
        /\ \A i \in 1 .. Cap : SubSeq(longer, 2, Cap + 1)[i] = longer[i + 1]
    BY <1>1, <1>2, <1>3, <2>1
  <2>4. \A i \in 1 .. Cap : i + 1 \in 1 .. n + 1
    BY <1>3, <2>1
  <2>. QED  BY <1>4, <2>2, <2>3, <2>4 DEF Honest
<1>6. CASE n < Cap
  <2>1. T!Pushed(lines, line) = longer
    BY <1>1, <1>2, <1>3, <1>6 DEF T!Pushed, longer
  <2>. QED  BY <1>1, <1>2, <1>4, <2>1 DEF Honest
<1>. QED  BY <1>2, <1>3, <1>5, <1>6

\* A screen that claims nothing untrue, in front of ticks that are true.
HonestInv == TruthInv /\ ShownInv /\ Honest(transcript, atRelay)

LEMMA MarkedLine ==
  ASSUME NEW m, NEW state
  PROVE  T!Line(m, state).msg = m /\ T!Line(m, state).tick = state
BY DEF T!Line

LEMMA HonestStep ==
  ASSUME ShownInv, ShownInv', TickIsTrue', Honest(transcript, atRelay), [T!Next]_(T!vars),
         atRelay \subseteq atRelay'
  PROVE  Honest(transcript, atRelay)'
<1>1. Honest(transcript, atRelay')
  BY DEF Honest
<1>2. /\ transcript \in Seq(Lines) /\ Len(transcript) <= Cap
      /\ tracker \in T!Tracker /\ tracker' \in T!Tracker
  BY DEF ShownInv, ShownData
<1>3. /\ T!Other \in Lines /\ T!Other.tick = "none"
      /\ \A m \in Msgs : \A s \in T!OutboundState : T!Line(m, s) \in Lines
  BY LineType DEF Lines, T!Other
<1>4. CASE T!PushOther
  <2>1. transcript' = T!Pushed(transcript, T!Other)
    BY <1>4 DEF T!PushOther
  <2>2. Honest(T!Pushed(transcript, T!Other), atRelay')
    BY <1>1, <1>2, <1>3, HonestPushed
  <2>. QED  BY <2>1, <2>2
<1>5. ASSUME NEW m \in Msgs, T!Submit(m)
      PROVE  Honest(transcript, atRelay)'
  <2>1. transcript' = T!Pushed(transcript, T!Line(m, "Sending"))
    BY <1>5 DEF T!Submit
  <2>2. T!Line(m, "Sending") \in Lines /\ T!Line(m, "Sending").tick = "Sending"
    BY <1>3, MarkedLine DEF T!OutboundState
  <2>3. Honest(T!Pushed(transcript, T!Line(m, "Sending")), atRelay')
    BY <1>1, <1>2, <2>2, HonestPushed
  <2>. QED  BY <2>1, <2>3
<1>6. ASSUME NEW m \in Msgs, T!TakeStatus(m)
      PROVE  Honest(transcript, atRelay)'
  <2>1. /\ tracker[m] # "untracked" /\ transcript' = T!Applied(transcript, m, tracker'[m])
        /\ tracker' \in {T!MarkSent(tracker, m), T!MarkFailed(tracker, m),
                         T!MarkDelivered(tracker, m)}
    BY <1>6 DEF T!TakeStatus
  <2>2. tracker'[m] # "untracked"
    BY <1>2, <2>1, MarkOne
  <2>3. PICK state \in T!OutboundState : tracker'[m] = state
    BY <1>2, <2>2 DEF T!Tracker
  <2>4. state \in {"Sent", "Delivered"} => m \in atRelay'
    BY <2>3 DEF TickIsTrue
  <2>5. /\ DOMAIN T!Applied(transcript, m, state) = DOMAIN transcript
        /\ \A i \in DOMAIN transcript :
             T!Applied(transcript, m, state)[i] \in {transcript[i], T!Line(m, state)}
    BY <1>2, AppliedLines
  <2>6. Honest(T!Applied(transcript, m, state), atRelay')
    BY <1>1, <2>4, <2>5, MarkedLine DEF Honest
  <2>. QED  BY <2>1, <2>3, <2>6
<1>7. CASE T!TakeReconnecting
  <2>1. PICK lines \in T!AppliedAll(transcript, T!StillSending(tracker), "Failed") :
          transcript' = T!Pushed(lines, T!Other)
    BY <1>7 DEF T!TakeReconnecting
  <2>2. T!StillSending(tracker) \in SUBSET Msgs /\ "Failed" \in T!OutboundState
    BY DEF T!StillSending, T!OutboundState
  <2>3. /\ lines \in Seq(Lines) /\ Len(lines) = Len(transcript)
        /\ DOMAIN lines = DOMAIN transcript
        /\ \A i \in DOMAIN transcript :
             lines[i] = transcript[i] \/ \E m \in Msgs : lines[i] = T!Line(m, "Failed")
    <3>1. PICK ms \in SUBSET Msgs : ms = T!StillSending(tracker)
      BY <2>2
    <3>2. lines \in T!AppliedAll(transcript, ms, "Failed")
      BY <2>1, <3>1
    <3>3. /\ lines \in Seq(Lines) /\ Len(lines) = Len(transcript)
          /\ DOMAIN lines = DOMAIN transcript
          /\ \A i \in DOMAIN transcript :
               \/ \E m \in ms :
                    /\ m \in DOMAIN by_msg_id /\ by_msg_id[m] = i
                    /\ lines[i] = T!Line(m, "Failed")
               \/ /\ \A m \in ms : m \in DOMAIN by_msg_id => by_msg_id[m] # i
                  /\ lines[i] = transcript[i]
      <4>1. transcript \in Seq(Lines)
        BY <1>2
      <4>. QED  BY <2>2, <3>2, <4>1, AppliedAllLines
    <3>. QED  BY <3>3
  <2>4. Honest(lines, atRelay')
    BY <1>1, <2>3, MarkedLine DEF Honest
  <2>5. Honest(T!Pushed(lines, T!Other), atRelay')
    BY <1>2, <1>3, <2>3, <2>4, HonestPushed
  <2>. QED  BY <2>1, <2>5
<1>8. CASE T!Clear
  BY <1>8 DEF T!Clear, Honest
<1>9. CASE UNCHANGED T!vars
  BY <1>1, <1>9 DEF T!vars, Honest
<1>. QED  BY <1>4, <1>5, <1>6, <1>7, <1>8, <1>9 DEF T!Next

LEMMA ScreenHonest == ScreenSpec => []Honest(transcript, atRelay)
<1>1. ScreenInit => Honest(transcript, atRelay)
  BY DEF ScreenInit, T!Init, Honest
<1>2. /\ DataOK /\ ShownInv /\ ShownInv' /\ TickIsTrue' /\ Honest(transcript, atRelay)
      /\ [ScreenNext]_screenVars
      => Honest(transcript, atRelay)'
  BY ScreenStep, HonestStep
<1>3. ScreenSpec => [](DataOK /\ ShownInv /\ TickIsTrue)
  BY ScreenData, ScreenIsOutbound, ScreenIsTranscript, TranscriptHolds, TickIsTrueAlways, PTL
<1>. QED  BY <1>1, <1>2, <1>3, PTL DEF ScreenSpec

\* What the user sees is so, for every cap and every number of messages and
\* lines: until a line leaves the transcript each message has one line, where
\* OutboundLines recorded it, which shows its tick; and whatever has left, no
\* line claims of a message the relay does not have that it was sent.
THEOREM ShownIsSoAlways == ScreenSpec => []ShownIsSo
<1>1. ShownInv => T!ShowsTick
  <2>. SUFFICES ASSUME ShownInv, ~shifted, NEW m \in Msgs, tracker[m] # "untracked"
                PROVE  /\ {i \in DOMAIN transcript :
                             transcript[i].tick # "none" /\ transcript[i].msg = m} = {by_msg_id[m]}
                       /\ transcript[by_msg_id[m]].tick = tracker[m]
    BY DEF T!ShowsTick
  <2>1. LinesOK(transcript, tracker) /\ m \in Tracked
    BY DEF ShownInv, Tracked
  <2>2. ASSUME NEW n \in Tracked
        PROVE  /\ by_msg_id[n] \in DOMAIN transcript
               /\ transcript[by_msg_id[n]].msg = n
               /\ transcript[by_msg_id[n]].tick = tracker[n]
    <3>1. by_msg_id[n] \in DOMAIN transcript /\ transcript[by_msg_id[n]] = T!Line(n, tracker[n])
      BY <2>1 DEF LinesOK
    <3>. QED  BY <3>1 DEF T!Line
  <2>3. tracker[m] # "none"
    BY DEF ShownInv, ShownData, T!Tracker, T!OutboundState
  <2>4. ASSUME NEW i \in DOMAIN transcript, transcript[i].tick # "none", transcript[i].msg = m
        PROVE  i = by_msg_id[m]
    <3>1. transcript[i] # T!Other
      BY <2>4 DEF T!Other
    <3>2. PICK n \in Tracked : i = by_msg_id[n]
      BY <2>1, <3>1 DEF LinesOK
    <3>. QED  BY <2>2, <2>4, <3>2
  <2>. QED  BY <2>1, <2>2, <2>3, <2>4
<1>2. Honest(transcript, atRelay) => TrueOnScreen
  BY DEF Honest, TrueOnScreen
<1>. QED
  BY <1>1, <1>2, ScreenIsTranscript, TranscriptHolds, ScreenHonest, PTL DEF ShownIsSo

=============================================================================
