----------------------------- MODULE RelaySession -----------------------------
(***************************************************************************)
(* The life of relay sessions: handshake, the three tasks of a session,    *)
(* the heartbeat that pings every 30 s and gives up when no pong has come  *)
(* for 60 s, and the transport task around them, which sleeps longer and   *)
(* longer and connects again.  What the sessions carry is the subject of   *)
(* modules Inbound and Outbound.                                           *)
(*                                                                         *)
(* Time goes in units, some to an interval.  Sessions are numbered; the    *)
(* tasks of one that has been replaced are detached and go on by           *)
(* themselves.  A connection may close, which its reader notices, or fall  *)
(* silent, which nobody notices but the heartbeat.                         *)
(***************************************************************************)
EXTENDS Integers, SequencesExt

CONSTANTS HEARTBEAT_INTERVAL,   \* 30 s, in units
          HEARTBEAT_DEAD_AFTER, \* 60 s, in units
          AnswerWithin,         \* units in which a relay answers a ping
          MaxFaults             \* bound: connections that fail

ASSUME TimesAssumption ==
  /\ {HEARTBEAT_INTERVAL, HEARTBEAT_DEAD_AFTER, AnswerWithin, MaxFaults} \subseteq Nat
  /\ 0 < HEARTBEAT_INTERVAL
  /\ HEARTBEAT_INTERVAL + AnswerWithin < HEARTBEAT_DEAD_AFTER

Sessions == 1 .. MaxFaults + 1
None == -1

VARIABLES
  \* start_transport_with_retries and run_event_loop: "connect" and "sleep" come
  \* before the first session when current is 0; "drive" is drive_session.
  phase, current, reconnect_delay,
  disconnect,  \* the consumer has asked for it
  \* For each session the connection, its tasks, and the writer's channel.
  link, reader, writer, heartbeat, send_rx,
  \* Units since the last pong and until the next tick, while the heartbeat
  \* runs; units since the ping that the relay has to answer.
  last_pong, ticker, unanswered,
  faults

loopVars == <<phase, current, reconnect_delay>>
taskVars == <<reader, writer, heartbeat, send_rx>>
timeVars == <<last_pong, ticker, unanswered>>
vars == <<loopVars, disconnect, link, taskVars, timeVars, faults>>

Init ==
  /\ phase = "connect" /\ current = 0 /\ reconnect_delay = 2
  /\ disconnect = FALSE
  /\ link = [s \in Sessions |-> "none"]
  /\ reader = link /\ writer = link /\ heartbeat = link
  /\ send_rx = [s \in Sessions |-> <<>>]
  /\ last_pong = [s \in Sessions |-> 0] /\ ticker = last_pong
  /\ unanswered = [s \in Sessions |-> None]
  /\ faults = 0

-----------------------------------------------------------------------------
(* The transport task *)

\* Mutant of Longer: never as long as a minute.
LongerUncapped(delay) == delay * 2

Longer(delay) == Min({delay * 2, 60})

Opened ==
  /\ link' = [link EXCEPT ![current'] = "up"]
  /\ reader' = [reader EXCEPT ![current'] = "runs"]
  /\ writer' = [writer EXCEPT ![current'] = "runs"]
  /\ heartbeat' = [heartbeat EXCEPT ![current'] = "runs"]
  /\ UNCHANGED <<send_rx, timeVars, faults>>

\* Mutant of HelloOk: commands given during the outage are thrown away.
HelloOkAfresh ==
  /\ phase = "connect"
  /\ phase' = "drive" /\ current' = current + 1
  /\ reconnect_delay' = 2
  /\ disconnect' = FALSE
  /\ Opened

\* connect_session gets hello_ok and spawns the tasks; interval() ticks at once.
HelloOk ==
  /\ phase = "connect"
  /\ phase' = "drive" /\ current' = current + 1
  /\ reconnect_delay' = 2
  /\ Opened
  /\ UNCHANGED disconnect

\* Mutant of ConnectFails: a lost session is given up when it cannot be replaced.
ConnectFailsForGood ==
  /\ phase = "connect"
  /\ phase' = IF current = 0 THEN "sleep" ELSE "ended"
  /\ UNCHANGED <<current, reconnect_delay, disconnect, link, taskVars, timeVars, faults>>

\* The connection cannot be opened, or the relay answers hello with hello_error
\* or anything else, or closes.  Before the first session the task sleeps; later
\* it drives the old session again, which is over.
ConnectFails ==
  /\ phase = "connect"
  /\ phase' = IF current = 0 THEN "sleep" ELSE "drive"
  /\ UNCHANGED <<current, reconnect_delay, disconnect, link, taskVars, timeVars, faults>>

\* The sleep ends.  Nothing else happens meanwhile: commands wait.
WakeUp ==
  /\ phase = "sleep"
  /\ phase' = "connect"
  /\ reconnect_delay' = Longer(reconnect_delay)
  /\ UNCHANGED <<current, disconnect, link, taskVars, timeVars, faults>>

\* drive_session: the reader has ended, and its channel with it.
SessionOver ==
  /\ phase = "drive"
  /\ reader[current] = "done"
  /\ phase' = "sleep"
  /\ UNCHANGED <<current, reconnect_delay, disconnect, link, taskVars, timeVars, faults>>

\* The consumer calls disconnect(); the transport is its own from the first
\* session on.
Disconnect ==
  /\ current # 0 /\ ~disconnect
  /\ disconnect' = TRUE
  /\ UNCHANGED <<loopVars, link, taskVars, timeVars, faults>>

TakeDisconnect ==
  /\ phase = "drive" /\ disconnect
  /\ phase' = "ended"
  /\ UNCHANGED <<current, reconnect_delay, disconnect, link, taskVars, timeVars, faults>>

-----------------------------------------------------------------------------
(* The tasks of a session *)

\* Mutant of MayBeTimedOut: no more than an interval without a pong.
MissedOnePong(s) == last_pong[s] >= HEARTBEAT_INTERVAL

\* elapsed() > 60 s.  A unit is a rounded time: when they are equal it may be so.
MayBeTimedOut(s) == last_pong[s] >= HEARTBEAT_DEAD_AFTER
MayBeAlive(s) == last_pong[s] <= HEARTBEAT_DEAD_AFTER

\* spawn_heartbeat: an empty payload tells the writer to close.
GiveUp(s) ==
  /\ heartbeat[s] = "runs" /\ ticker[s] = 0
  /\ MayBeTimedOut(s)
  /\ heartbeat' = [heartbeat EXCEPT ![s] = "given_up"]
  /\ send_rx' = [send_rx EXCEPT ![s] = Append(@, "close")]
  /\ last_pong' = [last_pong EXCEPT ![s] = 0]
  /\ UNCHANGED <<loopVars, disconnect, link, reader, writer, ticker, unanswered, faults>>

\* Mutant of Ping: a heartbeat without a writer goes on.
PingNoOne(s) ==
  /\ heartbeat[s] = "runs" /\ ticker[s] = 0
  /\ MayBeAlive(s)
  /\ send_rx' = [send_rx EXCEPT ![s] = IF writer[s] = "runs" THEN Append(@, "ping") ELSE @]
  /\ ticker' = [ticker EXCEPT ![s] = HEARTBEAT_INTERVAL]
  /\ last_pong' = [last_pong EXCEPT ![s] = IF writer[s] = "runs" THEN @ ELSE 0]
  /\ UNCHANGED <<loopVars, disconnect, link, reader, writer, heartbeat, unanswered, faults>>

Ping(s) ==
  /\ heartbeat[s] = "runs" /\ ticker[s] = 0
  /\ MayBeAlive(s)
  /\ IF writer[s] = "runs"
       THEN /\ send_rx' = [send_rx EXCEPT ![s] = Append(@, "ping")]
            /\ ticker' = [ticker EXCEPT ![s] = HEARTBEAT_INTERVAL]
            /\ UNCHANGED <<heartbeat, last_pong>>
       ELSE /\ heartbeat' = [heartbeat EXCEPT ![s] = "done"]
            /\ last_pong' = [last_pong EXCEPT ![s] = 0]
            /\ UNCHANGED <<send_rx, ticker>>
  /\ UNCHANGED <<loopVars, disconnect, link, reader, writer, unanswered, faults>>

\* spawn_writer takes the next payload.  On a closed connection the write fails,
\* on a silent one it seems to succeed; a close that arrives the relay answers.
\* The channel is never closed under it: the heartbeat holds it, and ends only
\* after a close or when the writer has.
Write(s) ==
  /\ writer[s] = "runs" /\ send_rx[s] # <<>>
  /\ LET payload == Head(send_rx[s])
         ends == payload = "close" \/ link[s] = "closed"
     IN
     /\ writer' = [writer EXCEPT ![s] = IF ends THEN "done" ELSE @]
     /\ send_rx' = [send_rx EXCEPT ![s] = IF ends THEN <<>> ELSE Tail(@)]
     /\ link' = [link EXCEPT ![s] = IF payload = "close" /\ @ = "up" THEN "closed" ELSE @]
     /\ unanswered' = [unanswered EXCEPT
          ![s] = IF payload = "ping" /\ link[s] = "up" /\ @ = None THEN 0 ELSE @]
  /\ UNCHANGED <<loopVars, disconnect, reader, heartbeat, last_pong, ticker, faults>>

\* spawn_reader, handle_text_frame: a pong.
Pong(s) ==
  /\ reader[s] = "runs" /\ link[s] = "up" /\ unanswered[s] # None
  /\ unanswered' = [unanswered EXCEPT ![s] = None]
  /\ last_pong' = [last_pong EXCEPT ![s] = 0]
  /\ UNCHANGED <<loopVars, disconnect, link, taskVars, ticker, faults>>

\* A close frame, an error, the end of the stream.
ReaderEnds(s) ==
  /\ reader[s] = "runs" /\ link[s] = "closed"
  /\ reader' = [reader EXCEPT ![s] = "done"]
  /\ UNCHANGED <<loopVars, disconnect, link, writer, heartbeat, send_rx, timeVars, faults>>

-----------------------------------------------------------------------------
(* The network, time *)

\* A connection closes or falls silent, or the reader rejects a frame.
Fault(s) ==
  /\ link[s] = "up" /\ reader[s] = "runs"
  /\ faults < MaxFaults
  /\ faults' = faults + 1
  /\ \/ link' = [link EXCEPT ![s] = "closed"] /\ UNCHANGED reader
     \/ link' = [link EXCEPT ![s] = "silent"] /\ UNCHANGED reader
     \/ reader' = [reader EXCEPT ![s] = "done"] /\ UNCHANGED link
  /\ unanswered' = [unanswered EXCEPT ![s] = None]
  /\ UNCHANGED <<loopVars, disconnect, writer, heartbeat, send_rx, last_pong, ticker>>

\* The operating system gives a silent connection up, late or never.
SilentCloses(s) ==
  /\ link[s] = "silent"
  /\ link' = [link EXCEPT ![s] = "closed"]
  /\ UNCHANGED <<loopVars, disconnect, taskVars, timeVars, faults>>

\* Every task has had its turn and the relay has answered in time.
MayPass(s) ==
  /\ heartbeat[s] = "runs" => ticker[s] > 0
  /\ writer[s] = "runs" => send_rx[s] = <<>>
  /\ unanswered[s] # None /\ reader[s] = "runs" => unanswered[s] < AnswerWithin

TimePasses ==
  /\ \A s \in Sessions : MayPass(s)
  /\ \E s \in Sessions : heartbeat[s] = "runs"
  /\ last_pong' = [s \in Sessions |-> IF heartbeat[s] = "runs" THEN last_pong[s] + 1 ELSE 0]
  /\ ticker' = [s \in Sessions |-> IF heartbeat[s] = "runs" THEN ticker[s] - 1 ELSE 0]
  /\ unanswered' = [s \in Sessions |->
       IF unanswered[s] # None /\ reader[s] = "runs" /\ link[s] = "up"
         THEN unanswered[s] + 1 ELSE None]
  /\ UNCHANGED <<loopVars, disconnect, link, taskVars, faults>>

Next ==
  \/ HelloOk \/ ConnectFails \/ WakeUp \/ SessionOver
  \/ Disconnect \/ TakeDisconnect
  \/ \E s \in Sessions :
       \/ GiveUp(s) \/ Ping(s) \/ Write(s) \/ Pong(s) \/ ReaderEnds(s)
       \/ Fault(s) \/ SilentCloses(s)
  \/ TimePasses

Spec == Init /\ [][Next]_vars

\* Tasks are polled, time passes, and a relay does not refuse for ever.
FairSpec ==
  /\ Spec
  /\ WF_vars(WakeUp) /\ WF_vars(SessionOver) /\ WF_vars(TimePasses)
  /\ SF_vars(HelloOk) /\ SF_vars(TakeDisconnect)
  /\ \A s \in Sessions :
       /\ WF_vars(GiveUp(s) \/ Ping(s)) /\ WF_vars(Write(s))
       /\ WF_vars(Pong(s)) /\ WF_vars(ReaderEnds(s))

-----------------------------------------------------------------------------
(* Properties *)

TaskState == {"none", "runs", "done"}

\* The type invariant.  Only numbers up to the current session are in use.
TypeOK ==
  /\ phase \in {"connect", "sleep", "drive", "ended"}
  /\ current \in 0 .. MaxFaults + 1
  /\ reconnect_delay \in {2, 4, 8, 16, 32, 60}
  /\ disconnect \in BOOLEAN
  /\ link \in [Sessions -> {"none", "up", "silent", "closed"}]
  /\ reader \in [Sessions -> TaskState] /\ writer \in [Sessions -> TaskState]
  /\ heartbeat \in [Sessions -> TaskState \cup {"given_up"}]
  /\ send_rx \in [Sessions -> Seq({"ping", "close"})]
  /\ last_pong \in [Sessions -> Nat]
  /\ ticker \in [Sessions -> 0 .. HEARTBEAT_INTERVAL]
  /\ unanswered \in [Sessions -> None .. AnswerWithin]
  /\ \A s \in Sessions : s <= current <=> link[s] # "none"
  /\ faults \in 0 .. MaxFaults

\* A connection that works, whose relay answers in time, is not given up.
WorkingIsKept ==
  [][\A s \in Sessions : heartbeat'[s] = "given_up" /\ heartbeat[s] = "runs" =>
       link[s] # "up" \/ reader[s] # "runs"]_vars

\* Whatever ends the reader, and however often the relay cannot be reached, the
\* transport connects again unless it is told to stop (run_event_loop).
LostIsReplaced ==
  \A s \in Sessions : reader[s] = "done" /\ s = current ~> current # s \/ disconnect

\* The detached tasks of a session that was replaced end, its pings with them,
\* unless the connection has fallen silent.
StraysEnd ==
  \A s \in Sessions :
    s < current ~> \/ {reader[s], writer[s]} = {"done"} /\ heartbeat[s] # "runs"
                   \/ link[s] = "silent"

\* disconnect() is heeded, at the latest after a sleep and a connect.
DisconnectIsHeeded == disconnect ~> phase = "ended"

\* docs/product.md:201: "reconnect if no pong within 60s".
DeadIsReplaced ==
  \A s \in Sessions : heartbeat[s] = "given_up" /\ s = current ~> s # current \/ phase # "drive"

=============================================================================
