------------------------- MODULE RelaySessionProofs -------------------------
(***************************************************************************)
(* Proofs about RelaySession, for every choice of the times and every      *)
(* number of faults: type correctness, with it that no more sessions are   *)
(* opened than connections have failed, and that a connection that works   *)
(* is not given up.                                                        *)
(***************************************************************************)
EXTENDS RelaySession, FiniteSetTheorems, TLAPS

-----------------------------------------------------------------------------
(* The inductive invariant *)

Working(s) == link[s] = "up" /\ reader[s] = "runs"

\* Sessions that a fault has hit.
Broken == {s \in Sessions : link[s] # "none" /\ ~Working(s)}

\* A session that has not been opened has no tasks.
UnopenedOK ==
  \A s \in Sessions : link[s] = "none" =>
    /\ reader[s] = "none" /\ writer[s] = "none" /\ heartbeat[s] = "none"
    /\ send_rx[s] = <<>>
    /\ last_pong[s] = 0 /\ ticker[s] = 0 /\ unanswered[s] = None

\* Every session costs a fault, and the task opens one only when the last is over.
FaultsOK ==
  /\ faults = Cardinality(Broken)
  /\ phase \in {"connect", "sleep"} /\ current # 0 => reader[current] = "done"
  /\ \A s \in Sessions : s < current => reader[s] = "done"

\* The writer is told to close only by a heartbeat that has given up.
CloseOK ==
  \A s \in Sessions :
    /\ heartbeat[s] = "given_up" => s \in Broken
    /\ \A i \in DOMAIN send_rx[s] : send_rx[s][i] = "close" => heartbeat[s] = "given_up"

\* How old the last pong of a session that works can be: an interval, and as
\* much as the answer to the ping under way takes.
PongOK ==
  \A s \in Sessions :
    Working(s) /\ heartbeat[s] = "runs" =>
      /\ writer[s] = "runs"
      /\ unanswered[s] # None => last_pong[s] <= HEARTBEAT_INTERVAL + unanswered[s]
      /\ unanswered[s] = None =>
           /\ last_pong[s] <= HEARTBEAT_INTERVAL
           /\ send_rx[s] = <<>> => last_pong[s] + ticker[s] <= HEARTBEAT_INTERVAL

IInv == TypeOK /\ UnopenedOK /\ FaultsOK /\ CloseOK /\ PongOK

-----------------------------------------------------------------------------
(* Types *)

LEMMA Times ==
  /\ HEARTBEAT_INTERVAL \in Nat /\ HEARTBEAT_DEAD_AFTER \in Nat
  /\ AnswerWithin \in Nat /\ MaxFaults \in Nat
  /\ HEARTBEAT_INTERVAL > 0
  /\ HEARTBEAT_INTERVAL + AnswerWithin < HEARTBEAT_DEAD_AFTER
BY TimesAssumption

\* The delays double until they reach a minute.
LEMMA LongerDelay ==
  ASSUME NEW d \in {2, 4, 8, 16, 32, 60}
  PROVE  Longer(d) \in {2, 4, 8, 16, 32, 60}
<1>1. \A n \in Nat : n <= 60 => Min({n, 60}) = n
  BY DEF Min
<1>2. \A n \in Nat : n > 60 => Min({n, 60}) = 60
  BY DEF Min
<1>3. QED BY <1>1, <1>2 DEF Longer

\* A session that works has not been left behind: all before it are broken.
LEMMA SessionsAreBroken ==
  ASSUME IInv, phase \in {"connect", "sleep"}
  PROVE  current <= faults
<1>1. current \in Nat /\ current <= MaxFaults + 1 /\ MaxFaults \in Nat
  BY Times DEF IInv, TypeOK
<1>2. IsFiniteSet(Sessions) /\ IsFiniteSet(Broken)
  <2>1. IsFiniteSet(Sessions)
    BY <1>1, FS_Interval DEF Sessions
  <2>2. QED BY <2>1, FS_Subset DEF Broken
<1>3. 1 .. current \subseteq Broken
  <2>1. SUFFICES ASSUME NEW s \in 1 .. current PROVE s \in Broken
    OBVIOUS
  <2>2. s \in Sessions
    BY <1>1 DEF Sessions
  <2>3. link[s] # "none"
    BY <2>2 DEF IInv, TypeOK
  <2>4. reader[s] = "done"
    BY <1>1, <2>2 DEF IInv, FaultsOK
  <2>5. QED BY <2>2, <2>3, <2>4 DEF Broken, Working
<1>4. Cardinality(1 .. current) = current
  BY <1>1, FS_Interval
<1>5. Cardinality(1 .. current) <= Cardinality(Broken)
  BY <1>2, <1>3, FS_Subset
<1>6. QED BY <1>4, <1>5 DEF IInv, FaultsOK

LEMMA RoomForOneMore ==
  ASSUME IInv, phase = "connect"
  PROVE  /\ current + 1 \in Sessions
         /\ link[current + 1] = "none"
<1>1. current \in Nat /\ faults <= MaxFaults /\ MaxFaults \in Nat /\ faults \in Nat
  BY Times DEF IInv, TypeOK
<1>2. current + 1 \in Sessions
  BY <1>1, SessionsAreBroken DEF Sessions
<1>3. QED BY <1>1, <1>2 DEF IInv, TypeOK

LEMMA TypePreserved == IInv /\ [Next]_vars => TypeOK'
<1> SUFFICES ASSUME IInv, [Next]_vars PROVE TypeOK'
  OBVIOUS
<1> USE Times DEF IInv, loopVars, taskVars, timeVars, TaskState, None
<1>1. CASE HelloOk
  <2>1. current + 1 \in Sessions
    BY <1>1, RoomForOneMore DEF HelloOk
  <2>2. \A s \in Sessions : s <= current' <=> link'[s] # "none"
    <3>1. \A s \in Sessions : s <= current + 1 <=> s <= current \/ s = current + 1
      BY DEF TypeOK, Sessions
    <3>2. current' = current + 1 /\ link' = [link EXCEPT ![current + 1] = "up"]
      BY <1>1 DEF HelloOk, Opened
    <3>3. QED BY <2>1, <3>1, <3>2 DEF TypeOK
  <2>3. current' \in 0 .. MaxFaults + 1
    BY <1>1, <2>1 DEF HelloOk, Sessions
  <2>4. QED BY <1>1, <2>1, <2>2, <2>3 DEF HelloOk, Opened, TypeOK
<1>2. CASE WakeUp
  BY <1>2, LongerDelay DEF WakeUp, TypeOK
<1>3. CASE ConnectFails \/ SessionOver \/ Disconnect \/ TakeDisconnect
  <2>1. /\ phase' \in {"connect", "sleep", "drive", "ended"} /\ disconnect' \in BOOLEAN
        /\ UNCHANGED <<current, reconnect_delay, link, taskVars, timeVars, faults>>
    BY <1>3 DEF ConnectFails, SessionOver, Disconnect, TakeDisconnect, TypeOK
  <2>2. QED BY <2>1 DEF TypeOK
<1>4. ASSUME NEW s \in Sessions, GiveUp(s) PROVE TypeOK'
  BY <1>4 DEF GiveUp, TypeOK
<1>5. ASSUME NEW s \in Sessions, Ping(s) PROVE TypeOK'
  <2>1. CASE writer[s] = "runs"
    <3>1. Append(send_rx[s], "ping") \in Seq({"ping", "close"})
      BY DEF TypeOK
    <3>2. /\ send_rx' = [send_rx EXCEPT ![s] = Append(send_rx[s], "ping")]
          /\ ticker' = [ticker EXCEPT ![s] = HEARTBEAT_INTERVAL]
          /\ UNCHANGED <<loopVars, disconnect, link, reader, writer, heartbeat, last_pong,
                         unanswered, faults>>
      BY <1>5, <2>1 DEF Ping
    <3>3. QED BY <3>1, <3>2 DEF TypeOK
  <2>2. CASE writer[s] # "runs"
    <3>1. /\ heartbeat' = [heartbeat EXCEPT ![s] = "done"]
          /\ last_pong' = [last_pong EXCEPT ![s] = 0]
          /\ UNCHANGED <<loopVars, disconnect, link, reader, writer, send_rx, ticker,
                         unanswered, faults>>
      BY <1>5, <2>2 DEF Ping
    <3>2. QED BY <3>1 DEF TypeOK
  <2>3. QED BY <2>1, <2>2
<1>6. ASSUME NEW s \in Sessions, Write(s) PROVE TypeOK'
  <2>1. Tail(send_rx[s]) \in Seq({"ping", "close"})
    BY <1>6 DEF Write, TypeOK
  <2>2. send_rx' \in [Sessions -> Seq({"ping", "close"})]
    BY <1>6, <2>1 DEF Write, TypeOK
  <2>3. QED BY <1>6, <2>2 DEF Write, TypeOK
<1>7. ASSUME NEW s \in Sessions, Pong(s) \/ ReaderEnds(s) PROVE TypeOK'
  <2>1. CASE Pong(s)
    BY <2>1 DEF Pong, TypeOK
  <2>2. CASE ReaderEnds(s)
    BY <2>2 DEF ReaderEnds, TypeOK
  <2>3. QED BY <1>7, <2>1, <2>2
<1>8. ASSUME NEW s \in Sessions, Fault(s) PROVE TypeOK'
  <2>1. /\ link' \in [Sessions -> {"none", "up", "silent", "closed"}]
        /\ reader' \in [Sessions -> TaskState]
        /\ \A t \in Sessions : link'[t] # "none" <=> link[t] # "none"
    <3>1. link[s] = "up"
      BY <1>8 DEF Fault
    <3>2. CASE link' = [link EXCEPT ![s] = "closed"] /\ UNCHANGED reader
      BY <3>1, <3>2 DEF TypeOK
    <3>3. CASE link' = [link EXCEPT ![s] = "silent"] /\ UNCHANGED reader
      BY <3>1, <3>3 DEF TypeOK
    <3>4. CASE reader' = [reader EXCEPT ![s] = "done"] /\ UNCHANGED link
      BY <3>4 DEF TypeOK
    <3>5. QED BY <1>8, <3>2, <3>3, <3>4 DEF Fault
  <2>2. unanswered' \in [Sessions -> None .. AnswerWithin] /\ faults' \in 0 .. MaxFaults
    BY <1>8 DEF Fault, TypeOK
  <2>3. QED BY <1>8, <2>1, <2>2 DEF Fault, TypeOK
<1>9. ASSUME NEW s \in Sessions, SilentCloses(s) PROVE TypeOK'
  BY <1>9 DEF SilentCloses, TypeOK
<1>10. CASE TimePasses
  <2>1. \A s \in Sessions : MayPass(s)
    BY <1>10 DEF TimePasses
  <2>2. last_pong' \in [Sessions -> Nat]
    BY <1>10 DEF TimePasses, TypeOK
  <2>3. ticker' \in [Sessions -> 0 .. HEARTBEAT_INTERVAL]
    BY <1>10, <2>1 DEF TimePasses, TypeOK, MayPass
  <2>4. unanswered' \in [Sessions -> None .. AnswerWithin]
    BY <1>10, <2>1 DEF TimePasses, TypeOK, MayPass
  <2>5. QED BY <1>10, <2>2, <2>3, <2>4 DEF TimePasses, TypeOK
<1>11. CASE UNCHANGED vars
  BY <1>11 DEF vars, TypeOK
<1>12. QED
  BY <1>1, <1>2, <1>3, <1>4, <1>5, <1>6, <1>7, <1>8, <1>9, <1>10, <1>11 DEF Next

-----------------------------------------------------------------------------
(* The parts of the invariant *)

LEMMA UnopenedPreserved == IInv /\ [Next]_vars => UnopenedOK'
<1> SUFFICES ASSUME IInv, [Next]_vars PROVE UnopenedOK'
  OBVIOUS
<1> USE Times DEF IInv, loopVars, taskVars, timeVars, TypeOK, UnopenedOK
<1>1. CASE HelloOk
  <2>1. current + 1 \in Sessions
    BY <1>1, RoomForOneMore DEF HelloOk
  <2>2. QED BY <1>1, <2>1 DEF HelloOk, Opened
<1>2. CASE \/ WakeUp \/ ConnectFails \/ SessionOver \/ Disconnect \/ TakeDisconnect
           \/ UNCHANGED vars
  BY <1>2 DEF WakeUp, ConnectFails, SessionOver, Disconnect, TakeDisconnect, vars
<1>3. ASSUME NEW s \in Sessions, GiveUp(s) \/ Ping(s) PROVE UnopenedOK'
  BY <1>3 DEF GiveUp, Ping
<1>4. ASSUME NEW s \in Sessions, Write(s) PROVE UnopenedOK'
  BY <1>4 DEF Write
<1>5. ASSUME NEW s \in Sessions, Pong(s) \/ ReaderEnds(s) PROVE UnopenedOK'
  BY <1>5 DEF Pong, ReaderEnds
<1>6. ASSUME NEW s \in Sessions, Fault(s) \/ SilentCloses(s) PROVE UnopenedOK'
  BY <1>6 DEF Fault, SilentCloses
<1>7. CASE TimePasses
  BY <1>7 DEF TimePasses
<1>8. QED
  BY <1>1, <1>2, <1>3, <1>4, <1>5, <1>6, <1>7 DEF Next

\* A session that has been hit does not work again.
LEMMA BrokenStays ==
  IInv /\ [Next]_vars => \A s \in Sessions : s \in Broken => s \in Broken'
<1> SUFFICES ASSUME IInv, [Next]_vars, NEW t \in Sessions, t \in Broken
             PROVE  t \in Broken'
  OBVIOUS
<1> USE Times DEF IInv, loopVars, taskVars, timeVars, TypeOK, Broken, Working
<1>1. CASE HelloOk
  BY <1>1, RoomForOneMore DEF HelloOk, Opened
<1>2. CASE \/ WakeUp \/ ConnectFails \/ SessionOver \/ Disconnect \/ TakeDisconnect
           \/ UNCHANGED vars
  BY <1>2 DEF WakeUp, ConnectFails, SessionOver, Disconnect, TakeDisconnect, vars
<1>3. ASSUME NEW s \in Sessions, GiveUp(s) \/ Ping(s) \/ Write(s) \/ Pong(s)
      PROVE t \in Broken'
  BY <1>3 DEF GiveUp, Ping, Write, Pong
<1>4. ASSUME NEW s \in Sessions, ReaderEnds(s) \/ Fault(s) \/ SilentCloses(s)
      PROVE t \in Broken'
  BY <1>4 DEF ReaderEnds, Fault, SilentCloses
<1>5. CASE TimePasses
  BY <1>5 DEF TimePasses
<1>6. QED
  BY <1>1, <1>2, <1>3, <1>4, <1>5 DEF Next

\* Nothing but a fault breaks a session: the writer closes only broken ones.
LEMMA OnlyFaultsBreak ==
  IInv /\ [Next]_vars =>
    \A t \in Sessions : t \in Broken' => t \in Broken \/ (Fault(t) /\ faults' = faults + 1)
<1> SUFFICES ASSUME IInv, [Next]_vars, NEW t \in Sessions, t \in Broken', t \notin Broken
             PROVE  Fault(t) /\ faults' = faults + 1
  OBVIOUS
<1> USE Times DEF IInv, loopVars, taskVars, timeVars, TypeOK, Broken, Working
<1>1. CASE HelloOk
  BY <1>1, RoomForOneMore DEF HelloOk, Opened
<1>2. CASE \/ WakeUp \/ ConnectFails \/ SessionOver \/ Disconnect \/ TakeDisconnect
           \/ UNCHANGED vars
  BY <1>2 DEF WakeUp, ConnectFails, SessionOver, Disconnect, TakeDisconnect, vars
<1>3. ASSUME NEW s \in Sessions, GiveUp(s) \/ Ping(s) \/ Pong(s)
      PROVE FALSE
  BY <1>3 DEF GiveUp, Ping, Pong
<1>4. ASSUME NEW s \in Sessions, Write(s)
      PROVE FALSE
  <2>1. Head(send_rx[s]) = send_rx[s][1] /\ 1 \in DOMAIN send_rx[s]
    BY <1>4 DEF Write
  <2>2. Head(send_rx[s]) = "close" => s \in Broken
    BY <2>1 DEF CloseOK
  <2>3. QED BY <1>4, <2>2 DEF Write
<1>5. ASSUME NEW s \in Sessions, ReaderEnds(s) \/ SilentCloses(s)
      PROVE FALSE
  BY <1>5 DEF ReaderEnds, SilentCloses
<1>6. ASSUME NEW s \in Sessions, Fault(s)
      PROVE Fault(t) /\ faults' = faults + 1
  <2>1. s = t
    BY <1>6 DEF Fault
  <2>2. QED BY <1>6, <2>1 DEF Fault
<1>7. CASE TimePasses
  BY <1>7 DEF TimePasses
<1>8. QED
  BY <1>1, <1>2, <1>3, <1>4, <1>5, <1>6, <1>7 DEF Next

LEMMA FaultsPreserved == IInv /\ [Next]_vars => FaultsOK'
<1> SUFFICES ASSUME IInv, [Next]_vars PROVE FaultsOK'
  OBVIOUS
<1> USE Times
<1>1. IsFiniteSet(Broken) /\ Broken \subseteq Broken'
  <2>1. IsFiniteSet(Sessions)
    BY FS_Interval DEF Sessions
  <2>2. IsFiniteSet(Broken)
    BY <2>1, FS_Subset DEF Broken
  <2>3. QED BY <2>2, BrokenStays DEF Broken
<1>2. faults' = Cardinality(Broken')
  <2>1. CASE \E s \in Sessions : Fault(s)
    <3>1. PICK s \in Sessions : Fault(s)
      BY <2>1
    <3>2. s \notin Broken
      BY <3>1 DEF Fault, Broken, Working
    <3>3. s \in Broken'
      BY <3>1 DEF Fault, Broken, Working, IInv, TypeOK
    <3>4. \A t \in Sessions : Fault(t) => t = s
      <4>1. SUFFICES ASSUME NEW t \in Sessions, Fault(t), t # s PROVE FALSE
        OBVIOUS
      <4>2. t \notin Broken /\ t \in Broken'
        BY <4>1 DEF Fault, Broken, Working, IInv, TypeOK
      <4>3. UNCHANGED <<link[t], reader[t]>>
        BY <3>1, <4>1 DEF Fault, IInv, TypeOK
      <4>4. QED BY <4>2, <4>3 DEF Broken, Working
    <3>5. Broken' = Broken \cup {s}
      BY <1>1, <3>3, <3>4, OnlyFaultsBreak DEF Broken
    <3>6. faults' = faults + 1
      BY <3>1 DEF Fault
    <3>7. QED BY <1>1, <3>2, <3>5, <3>6, FS_AddElement DEF IInv, FaultsOK
  <2>2. CASE ~\E s \in Sessions : Fault(s)
    <3>1. Broken' = Broken
      BY <1>1, <2>2, OnlyFaultsBreak DEF Broken
    <3>2. faults' = faults
      BY <2>2 DEF Next, vars, HelloOk, Opened, WakeUp, ConnectFails, SessionOver,
                  Disconnect, TakeDisconnect, GiveUp, Ping, Write, Pong, ReaderEnds,
                  SilentCloses, TimePasses
    <3>3. QED BY <3>1, <3>2 DEF IInv, FaultsOK
  <2>3. QED BY <2>1, <2>2
<1>3. \A s \in Sessions : reader[s] = "done" => reader'[s] = "done"
  <2>1. CASE HelloOk
    BY <2>1, RoomForOneMore DEF HelloOk, Opened, IInv, UnopenedOK, TypeOK
  <2>2. CASE ~HelloOk
    BY <2>2 DEF Next, vars, WakeUp, ConnectFails, SessionOver, Disconnect,
                TakeDisconnect, GiveUp, Ping, Write, Pong, ReaderEnds, Fault,
                SilentCloses, TimePasses, taskVars, IInv, TypeOK
  <2>3. QED BY <2>1, <2>2
<1>4. /\ phase' \in {"connect", "sleep"} /\ current' # 0 => reader'[current'] = "done"
      /\ \A s \in Sessions : s < current' => reader'[s] = "done"
  <2>1. CASE HelloOk
    <3>1. \A s \in Sessions : s < current + 1 => s < current \/ s = current
      BY DEF IInv, TypeOK, Sessions
    <3>2. \A s \in Sessions : s # 0
      BY DEF Sessions
    <3>3. QED BY <1>3, <2>1, <3>1, <3>2 DEF HelloOk, IInv, FaultsOK
  <2>2. CASE WakeUp \/ ConnectFails \/ SessionOver
    <3>1. current # 0 => current \in Sessions
      BY DEF IInv, TypeOK, Sessions
    <3>2. QED BY <1>3, <2>2, <3>1 DEF WakeUp, ConnectFails, SessionOver, IInv, FaultsOK, taskVars
  <2>3. CASE ~(HelloOk \/ WakeUp \/ ConnectFails \/ SessionOver)
    <3>1. UNCHANGED current /\ phase' \in {phase, "ended"}
      BY <2>3 DEF Next, vars, Disconnect, TakeDisconnect, GiveUp, Ping, Write, Pong,
                  ReaderEnds, Fault, SilentCloses, TimePasses, loopVars
    <3>2. current # 0 => current \in Sessions
      BY DEF IInv, TypeOK, Sessions
    <3>3. QED BY <1>3, <3>1, <3>2 DEF IInv, FaultsOK
  <2>4. QED BY <2>1, <2>2, <2>3
<1>5. QED BY <1>2, <1>4 DEF FaultsOK

LEMMA ClosePreserved == IInv /\ [Next]_vars => CloseOK'
<1> SUFFICES ASSUME IInv, [Next]_vars, NEW t \in Sessions
             PROVE  /\ heartbeat'[t] = "given_up" => t \in Broken'
                    /\ \A i \in DOMAIN send_rx'[t] :
                         send_rx'[t][i] = "close" => heartbeat'[t] = "given_up"
  BY DEF CloseOK
<1> DEFINE Kept == heartbeat'[t] = heartbeat[t] /\ send_rx'[t] = send_rx[t]
<1> USE Times DEF loopVars, taskVars, timeVars
<1>1. CASE Kept
  BY <1>1, BrokenStays DEF IInv, CloseOK
<1>2. CASE HelloOk
  <2>1. CASE t = current + 1
    <3>1. heartbeat'[t] = "runs" /\ send_rx'[t] = <<>>
      BY <1>2, <2>1, RoomForOneMore DEF HelloOk, Opened, IInv, TypeOK, UnopenedOK
    <3>2. QED BY <3>1
  <2>2. CASE t # current + 1
    BY <1>1, <1>2, <2>2 DEF HelloOk, Opened, IInv, TypeOK
  <2>3. QED BY <2>1, <2>2
<1>3. ASSUME NEW s \in Sessions, GiveUp(s) PROVE Kept \/ t = s
  BY <1>3 DEF GiveUp, IInv, TypeOK
<1>4. CASE GiveUp(t)
  <2>1. ~Working(t)
    <3>1. /\ heartbeat[t] = "runs" /\ ticker[t] = 0
          /\ last_pong[t] >= HEARTBEAT_DEAD_AFTER
      BY <1>4 DEF GiveUp, MayBeTimedOut
    <3>2. last_pong[t] \in Nat /\ unanswered[t] \in None .. AnswerWithin
      BY DEF IInv, TypeOK
    <3>3. QED BY <3>1, <3>2 DEF IInv, PongOK, None
  <2>2. link[t] # "none"
    BY <1>4 DEF GiveUp, IInv, UnopenedOK
  <2>3. t \in Broken'
    BY <2>1, <2>2, BrokenStays DEF Broken
  <2>4. heartbeat'[t] = "given_up"
    BY <1>4 DEF GiveUp, IInv, TypeOK
  <2>5. QED BY <2>3, <2>4
<1>5. ASSUME NEW s \in Sessions, Ping(s) PROVE Kept \/ t = s
  BY <1>5 DEF Ping, IInv, TypeOK
<1>6. CASE Ping(t)
  <2>1. CASE writer[t] = "runs"
    <3>1. heartbeat'[t] = "runs" /\ send_rx'[t] = Append(send_rx[t], "ping")
      BY <1>6, <2>1 DEF Ping, IInv, TypeOK
    <3>2. send_rx[t] \in Seq({"ping", "close"}) /\ heartbeat[t] = "runs"
      BY <1>6 DEF Ping, IInv, TypeOK
    <3>3. \A i \in DOMAIN send_rx'[t] :
             send_rx'[t][i] = "ping" \/ (i \in DOMAIN send_rx[t] /\ send_rx'[t][i] = send_rx[t][i])
      BY <3>1, <3>2
    <3>4. QED BY <3>1, <3>2, <3>3 DEF IInv, CloseOK
  <2>2. CASE writer[t] # "runs"
    <3>1. heartbeat'[t] = "done" /\ send_rx'[t] = send_rx[t] /\ heartbeat[t] = "runs"
      BY <1>6, <2>2 DEF Ping, IInv, TypeOK
    <3>2. QED BY <3>1 DEF IInv, CloseOK
  <2>3. QED BY <2>1, <2>2
<1>7. ASSUME NEW s \in Sessions, Write(s) PROVE Kept \/ t = s
  BY <1>7 DEF Write, IInv, TypeOK
<1>8. CASE Write(t)
  <2>1. /\ heartbeat'[t] = heartbeat[t]
        /\ send_rx'[t] \in {<<>>, Tail(send_rx[t])}
        /\ send_rx[t] # <<>> /\ send_rx[t] \in Seq({"ping", "close"})
    BY <1>8 DEF Write, IInv, TypeOK
  <2>2. \A i \in DOMAIN send_rx'[t] :
          i + 1 \in DOMAIN send_rx[t] /\ send_rx'[t][i] = send_rx[t][i + 1]
    BY <2>1
  <2>3. QED BY <2>1, <2>2, BrokenStays DEF IInv, CloseOK
<1>9. ASSUME NEW s \in Sessions,
             Pong(s) \/ ReaderEnds(s) \/ Fault(s) \/ SilentCloses(s)
      PROVE  Kept
  BY <1>9 DEF Pong, ReaderEnds, Fault, SilentCloses
<1>10. CASE \/ WakeUp \/ ConnectFails \/ SessionOver \/ Disconnect \/ TakeDisconnect
            \/ TimePasses \/ UNCHANGED vars
  BY <1>1, <1>10 DEF WakeUp, ConnectFails, SessionOver, Disconnect, TakeDisconnect,
                     TimePasses, vars
<1>11. QED
  BY <1>1, <1>2, <1>3, <1>4, <1>5, <1>6, <1>7, <1>8, <1>9, <1>10 DEF Next

\* What PongOK says of one session.
PongRecent(s) ==
  Working(s) /\ heartbeat[s] = "runs" =>
    /\ writer[s] = "runs"
    /\ unanswered[s] # None => last_pong[s] <= HEARTBEAT_INTERVAL + unanswered[s]
    /\ unanswered[s] = None =>
         /\ last_pong[s] <= HEARTBEAT_INTERVAL
         /\ send_rx[s] = <<>> => last_pong[s] + ticker[s] <= HEARTBEAT_INTERVAL

LEMMA PongPreserved == IInv /\ [Next]_vars => PongOK'
<1> SUFFICES ASSUME IInv, [Next]_vars, NEW t \in Sessions PROVE PongRecent(t)'
  BY DEF PongOK, PongRecent
<1> DEFINE Same == UNCHANGED <<link[t], reader[t], writer[t], heartbeat[t], send_rx[t],
                               last_pong[t], ticker[t], unanswered[t]>>
<1> USE Times DEF taskVars, timeVars
<1>1. PongRecent(t)
  BY DEF IInv, PongOK, PongRecent
<1>2. /\ last_pong[t] \in Nat /\ ticker[t] \in 0 .. HEARTBEAT_INTERVAL
      /\ unanswered[t] \in None .. AnswerWithin
      /\ send_rx[t] \in Seq({"ping", "close"})
  BY DEF IInv, TypeOK
<1>3. CASE Same
  BY <1>1, <1>3 DEF PongRecent, Working
<1>4. CASE HelloOk
  <2>1. CASE t = current + 1
    <3>1. UnopenedOK /\ link[t] = "none" /\ UNCHANGED <<send_rx, timeVars>>
      BY <1>4, <2>1, RoomForOneMore DEF HelloOk, Opened, IInv
    <3>2. /\ send_rx'[t] = <<>> /\ last_pong'[t] = 0 /\ ticker'[t] = 0
          /\ unanswered'[t] = None
      BY <3>1 DEF UnopenedOK
    <3>3. writer'[t] = "runs"
      BY <1>4, <2>1 DEF HelloOk, Opened, IInv, TypeOK
    <3>4. QED BY <3>2, <3>3 DEF PongRecent
  <2>2. CASE t # current + 1
    BY <1>3, <1>4, <2>2 DEF HelloOk, Opened, IInv, TypeOK
  <2>3. QED BY <2>1, <2>2
<1>5. ASSUME NEW s \in Sessions, s # t,
             GiveUp(s) \/ Ping(s) \/ Write(s) \/ Pong(s) \/ ReaderEnds(s)
      PROVE  Same
  BY <1>5 DEF GiveUp, Ping, Write, Pong, ReaderEnds, IInv, TypeOK
<1>6. ASSUME NEW s \in Sessions, s # t, Fault(s) \/ SilentCloses(s)
      PROVE  Same
  BY <1>6 DEF Fault, SilentCloses, IInv, TypeOK
<1>7. CASE GiveUp(t)
  <2>1. heartbeat'[t] = "given_up"
    BY <1>7 DEF GiveUp, IInv, TypeOK
  <2>2. QED BY <2>1 DEF PongRecent
<1>8. CASE Ping(t)
  <2>1. CASE writer[t] # "runs"
    <3>1. heartbeat'[t] = "done"
      BY <1>8, <2>1 DEF Ping, IInv, TypeOK
    <3>2. QED BY <3>1 DEF PongRecent
  <2>2. CASE writer[t] = "runs"
    <3>1. /\ heartbeat[t] = "runs" /\ ticker[t] = 0
          /\ send_rx'[t] = Append(send_rx[t], "ping")
          /\ UNCHANGED <<link, reader, writer, heartbeat, unanswered, last_pong>>
      BY <1>8, <2>2 DEF Ping, IInv, TypeOK
    <3>2. send_rx'[t] # <<>>
      BY <1>2, <3>1
    <3>3. QED BY <1>1, <1>2, <3>1, <3>2 DEF PongRecent, Working, None
  <2>3. QED BY <2>1, <2>2
<1>9. CASE Write(t)
  <2>1. SUFFICES ASSUME Working(t)', heartbeat[t] = "runs" PROVE PongRecent(t)'
    BY <1>9 DEF Write, PongRecent
  <2>2. UNCHANGED <<reader, heartbeat, last_pong, ticker>> /\ send_rx[t] # <<>>
    BY <1>9 DEF Write
  <2>3. Working(t)
    BY <1>9, <2>1 DEF Write, Working, IInv, TypeOK
  <2>4. Head(send_rx[t]) = "ping"
    <3>1. Head(send_rx[t]) = send_rx[t][1] /\ 1 \in DOMAIN send_rx[t]
      BY <1>2, <2>2
    <3>2. send_rx[t][1] # "close"
      BY <2>1, <3>1 DEF IInv, CloseOK
    <3>3. QED BY <1>2, <2>2, <3>1, <3>2
  <2>5. writer'[t] = "runs"
    BY <1>1, <1>9, <2>1, <2>3, <2>4 DEF Write, Working, PongRecent, IInv, TypeOK
  <2>6. unanswered'[t] = IF unanswered[t] = None THEN 0 ELSE unanswered[t]
    BY <1>9, <2>3, <2>4 DEF Write, Working, IInv, TypeOK
  <2>7. QED BY <1>1, <1>2, <2>1, <2>2, <2>3, <2>5, <2>6 DEF PongRecent, None
<1>10. CASE Pong(t)
  <2>1. /\ last_pong'[t] = 0 /\ unanswered'[t] = None
        /\ UNCHANGED <<link, reader, writer, heartbeat, send_rx, ticker>>
    BY <1>10 DEF Pong, IInv, TypeOK
  <2>2. QED BY <1>1, <1>2, <2>1 DEF PongRecent, Working
<1>11. CASE ReaderEnds(t) \/ Fault(t) \/ SilentCloses(t)
  <2>1. ~Working(t)'
    BY <1>11 DEF ReaderEnds, Fault, SilentCloses, Working, IInv, TypeOK
  <2>2. QED BY <2>1 DEF PongRecent
<1>12. CASE TimePasses
  <2>1. SUFFICES ASSUME Working(t)', heartbeat[t] = "runs" PROVE PongRecent(t)'
    BY <1>12 DEF TimePasses, PongRecent
  <2>2. Working(t) /\ UNCHANGED taskVars /\ MayPass(t)
    BY <1>12, <2>1 DEF TimePasses, Working
  <2>3. /\ last_pong'[t] = last_pong[t] + 1
        /\ ticker'[t] = ticker[t] - 1
        /\ unanswered'[t] = IF unanswered[t] # None THEN unanswered[t] + 1 ELSE None
    BY <1>12, <2>1, <2>2 DEF TimePasses, Working
  <2>4. ticker[t] > 0 /\ send_rx[t] = <<>>
    BY <1>1, <2>1, <2>2 DEF MayPass, PongRecent
  <2>5. /\ writer'[t] = "runs" /\ send_rx'[t] = <<>>
        /\ last_pong[t] \in Nat /\ ticker[t] \in Nat /\ unanswered[t] \in None .. AnswerWithin
    BY <1>1, <1>2, <2>1, <2>2, <2>4 DEF PongRecent
  <2>6. CASE unanswered[t] = None
    <3>1. unanswered'[t] = None /\ last_pong[t] + ticker[t] <= HEARTBEAT_INTERVAL
      BY <1>1, <2>1, <2>2, <2>3, <2>4, <2>6 DEF PongRecent
    <3>2. /\ last_pong'[t] <= HEARTBEAT_INTERVAL
          /\ last_pong'[t] + ticker'[t] <= HEARTBEAT_INTERVAL
      BY <2>3, <2>4, <2>5, <3>1
    <3>. QED  BY <2>5, <3>1, <3>2 DEF PongRecent
  <2>7. CASE unanswered[t] # None
    <3>1. last_pong[t] <= HEARTBEAT_INTERVAL + unanswered[t]
      BY <1>1, <2>1, <2>2, <2>7 DEF PongRecent
    <3>2. /\ last_pong'[t] <= HEARTBEAT_INTERVAL + unanswered'[t]
          /\ unanswered'[t] # None
      BY <2>3, <2>5, <2>7, <3>1 DEF None
    <3>. QED  BY <2>5, <3>2 DEF PongRecent
  <2>. QED  BY <2>6, <2>7
<1>13. CASE WakeUp \/ ConnectFails \/ SessionOver \/ Disconnect \/ TakeDisconnect \/ UNCHANGED vars
  BY <1>3, <1>13 DEF WakeUp, ConnectFails, SessionOver, Disconnect, TakeDisconnect, vars
<1>14. QED
  BY <1>3, <1>4, <1>5, <1>6, <1>7, <1>8, <1>9, <1>10, <1>11, <1>12, <1>13 DEF Next

-----------------------------------------------------------------------------
(* The theorems *)

LEMMA Initially == Init => IInv
<1> SUFFICES ASSUME Init PROVE IInv
  OBVIOUS
<1> USE Times
<1>1. TypeOK
  <2>1. /\ link \in [Sessions -> {"none", "up", "silent", "closed"}]
        /\ reader \in [Sessions -> TaskState] /\ writer \in [Sessions -> TaskState]
        /\ heartbeat \in [Sessions -> TaskState \cup {"given_up"}]
        /\ send_rx \in [Sessions -> Seq({"ping", "close"})]
    BY DEF Init, TaskState
  <2>2. /\ last_pong \in [Sessions -> Nat] /\ ticker \in [Sessions -> 0 .. HEARTBEAT_INTERVAL]
        /\ unanswered \in [Sessions -> None .. AnswerWithin]
    BY DEF Init, None
  <2>3. \A s \in Sessions : s <= current <=> link[s] # "none"
    BY DEF Init, Sessions
  <2>4. /\ phase \in {"connect", "sleep", "drive", "ended"}
        /\ current \in 0 .. MaxFaults + 1
        /\ reconnect_delay \in {2, 4, 8, 16, 32, 60}
        /\ faults \in 0 .. MaxFaults
    BY DEF Init
  <2>5. disconnect \in BOOLEAN
    BY DEF Init
  <2>6. QED BY <2>1, <2>2, <2>3, <2>4, <2>5 DEF TypeOK
<1>2. UnopenedOK /\ CloseOK /\ PongOK
  BY DEF Init, UnopenedOK, CloseOK, PongOK, Working, None
<1>3. FaultsOK
  <2>1. Broken = {}
    BY DEF Init, Broken
  <2>2. QED BY <2>1, FS_EmptySet DEF Init, FaultsOK, Sessions
<1>4. QED BY <1>1, <1>2, <1>3 DEF IInv

LEMMA Invariant == Spec => []IInv
<1>1. IInv /\ [Next]_vars => IInv'
  BY TypePreserved, UnopenedPreserved, FaultsPreserved, ClosePreserved, PongPreserved
     DEF IInv
<1>2. QED BY Initially, <1>1, PTL DEF Spec

\* Every variable keeps its type.  The transport opens at most one session more
\* than connections have failed: it never replaces one that works (run_event_loop).
THEOREM TypeCorrect == Spec => []TypeOK
<1>1. IInv => TypeOK
  BY DEF IInv
<1>2. QED BY Invariant, <1>1, PTL

\* The heartbeat gives up no connection that works, whatever its interval, as
\* long as interval and answer together take less than its patience
\* (spawn_heartbeat, HEARTBEAT_INTERVAL and HEARTBEAT_DEAD_AFTER).
THEOREM WorkingIsKeptAlways == Spec => WorkingIsKept
<1> DEFINE Kept ==
      \A s \in Sessions : heartbeat'[s] = "given_up" /\ heartbeat[s] = "runs" =>
         link[s] # "up" \/ reader[s] # "runs"
<1>1. IInv /\ [Next]_vars => Kept
  <2> SUFFICES ASSUME IInv, [Next]_vars, NEW s \in Sessions,
                      heartbeat'[s] = "given_up", heartbeat[s] = "runs", Working(s)
               PROVE  FALSE
    BY DEF Working
  <2>1. GiveUp(s)
    <3>1. ~HelloOk
      BY RoomForOneMore DEF HelloOk, Opened, IInv, TypeOK
    <3>2. ASSUME NEW t \in Sessions, GiveUp(t) PROVE t = s
      BY <3>2 DEF GiveUp, IInv, TypeOK
    <3>3. ASSUME NEW t \in Sessions, Ping(t) PROVE FALSE
      BY <3>3 DEF Ping, IInv, TypeOK
    <3>4. QED
      BY <3>1, <3>2, <3>3 DEF Next, vars, WakeUp, ConnectFails, SessionOver, Disconnect,
         TakeDisconnect, Write, Pong, ReaderEnds, Fault, SilentCloses, TimePasses, taskVars
  <2>2. last_pong[s] >= HEARTBEAT_DEAD_AFTER /\ ticker[s] = 0
    BY <2>1 DEF GiveUp, MayBeTimedOut
  <2>3. last_pong[s] \in Nat /\ unanswered[s] \in None .. AnswerWithin
    BY DEF IInv, TypeOK
  <2>4. QED BY <2>2, <2>3, Times DEF IInv, PongOK, None
<1>2. IInv /\ [Next]_vars => [Kept]_vars
  BY <1>1
<1>3. QED BY Invariant, <1>2, PTL DEF Spec, WorkingIsKept

=============================================================================
