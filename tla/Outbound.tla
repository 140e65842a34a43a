------------------------------ MODULE Outbound ------------------------------
(***************************************************************************)
(* The outbound half of the transport and the tick beside each message the *)
(* user sent: from Enter in the chat session, through the command channel, *)
(* the transport task and the session's writer, to the relay, and back as  *)
(* relay_recv_ack, an inner ack, or the news that the connection is gone.  *)
(*                                                                         *)
(* Actors: the chat session (run_chat_session with its OutboundTracker),   *)
(* the transport task (run_event_loop), the reader, writer and heartbeat   *)
(* tasks of the session, and the relay and the paired device (external).   *)
(*                                                                         *)
(* Left out: outbound_tracking, both arms of whose test do the same; the   *)
(* Connected and Failed(reason) events, which change no state here; table  *)
(* outbound_messages, which is written with the tracker and never read.    *)
(* An inner ack travels as module Inbound describes; here it only arrives. *)
(***************************************************************************)
EXTENDS Ticks, Naturals, Sequences  \* Msgs: the texts the user may submit

CONSTANTS MaxDrops,     \* bound: lost connections
          MaxTimeouts,  \* bound: heartbeats that give up on a live connection
          MaxRejects,   \* bound: inbound frames that end the reader
          MaxFailures   \* bound: failed attempts to reconnect

ASSUME BoundsAssumption ==
  {MaxDrops, MaxTimeouts, MaxRejects, MaxFailures} \subseteq Nat

ASSUME MsgsAssumption == {"Disconnect", "Close"} \cap Msgs = {}

VARIABLES
  \* The chat session
  chat,       \* "open", or "closed" once disconnect() has been called
  tracker,    \* OutboundTracker; "untracked" before submission
  \* The channels between chat session and transport task
  cmds,       \* TransportCommand: a message to Send, or Disconnect
  notices,    \* TransportEvents
  \* The transport task: "drive", "backoff" or "done"
  phase,
  \* RelaySession: its three tasks' state and the RelayRecvAck events queued
  reader, writer, recvAcks,
  \* The network and the relay (external)
  link,       \* the session's TCP connection is up
  outgoing,   \* what is in the writer's channel or on the wire
  stray,      \* messages in that of replaced sessions
  ackFrames,  \* relay_recv_ack frames on the live connection
  atRelay,    \* messages the relay has accepted
  innerAcked, \* messages whose inner ack has been forwarded
  used        \* how much of each bound is used

chatVars    == <<chat, tracker>>
taskVars    == <<cmds, notices, phase>>
sessionVars == <<reader, writer, recvAcks>>
netVars     == <<link, outgoing, stray, ackFrames, atRelay, innerAcked>>
vars == <<chatVars, taskVars, sessionVars, netVars, used>>

\* Besides messages, what the channels carry: the command of disconnect(), the
\* heartbeat's empty payload, which makes the writer send a close frame, and
\* the transport's events.
Disconnect   == "Disconnect"
Close        == "Close"
Reconnecting == [kind |-> "Reconnecting"]
Disconnected == [kind |-> "Disconnected"]
Status(m, status) == [kind |-> "Status", id |-> m, status |-> status]
ReceiveAck(m)     == [kind |-> "Receive", refs |-> m]

Notice == {Reconnecting, Disconnected}
            \cup [kind : {"Status"}, id : Msgs, status : {"Sent", "Failed"}]
            \cup [kind : {"Receive"}, refs : Msgs]

Elements(s) == {s[i] : i \in DOMAIN s}

\* RelayMessageTransport::start has returned: the first session is up.
Init ==
  /\ chat = "open" /\ tracker = NothingTracked
  /\ cmds = <<>> /\ notices = <<>> /\ phase = "drive"
  /\ reader = TRUE /\ writer = TRUE /\ recvAcks = <<>>
  /\ link = TRUE /\ outgoing = <<>> /\ stray = {} /\ ackFrames = {}
  /\ atRelay = {} /\ innerAcked = {}
  /\ used = [drops |-> 0, timeouts |-> 0, rejects |-> 0, failures |-> 0]

-----------------------------------------------------------------------------
(* The chat session *)

\* Enter: send(), then track(); the transport may answer in between, but the
\* session looks at its events only after this handler.
Submit(m) ==
  /\ chat = "open"
  /\ tracker[m] = "untracked"
  /\ cmds' = Append(cmds, m)
  /\ tracker' = Track(tracker, m)
  /\ UNCHANGED <<chat, notices, phase, sessionVars, netVars, used>>

\* One event of the transport's stream.
TakeNotice ==
  /\ chat = "open"
  /\ notices # <<>>
  /\ notices' = Tail(notices)
  /\ LET n == Head(notices) IN
     \/ /\ n.kind = "Status" /\ n.status = "Sent"
        /\ tracker' = MarkSent(tracker, n.id)
     \/ /\ n.kind = "Status" /\ n.status = "Failed"
        /\ tracker' = MarkFailed(tracker, n.id)
     \/ n.kind = "Receive" /\ tracker' = MarkDelivered(tracker, n.refs)
     \/ n.kind = "Reconnecting" /\ tracker' = MarkAllFailed(tracker)
  /\ UNCHANGED <<chat, cmds, phase, sessionVars, netVars, used>>

\* Ctrl-D, /quit, the second Ctrl-C: the loop is left and disconnect() called.
Quit ==
  /\ chat = "open"
  /\ chat' = "closed"
  /\ cmds' = Append(cmds, Disconnect)
  /\ UNCHANGED <<tracker, notices, phase, sessionVars, netVars, used>>

-----------------------------------------------------------------------------
(* The transport task *)

\* Mutant of QueueOnWriter: Sent is announced as soon as the frame is queued.
AnnounceOnQueueing(m) ==
  /\ outgoing' = IF link THEN Append(outgoing, m) ELSE outgoing
  /\ notices' = Append(notices, Status(m, "Sent"))

\* handle_outbound on a running writer; what a dead connection is given is lost.
QueueOnWriter(m) ==
  /\ outgoing' = IF link THEN Append(outgoing, m) ELSE outgoing
  /\ UNCHANGED notices

\* TransportCommand::Send; send_envelope fails once the writer has ended.
HandleSend ==
  /\ phase = "drive"
  /\ cmds # <<>>
  /\ Head(cmds) # Disconnect
  /\ cmds' = Tail(cmds)
  /\ IF writer
       THEN QueueOnWriter(Head(cmds))
       ELSE /\ notices' = Append(notices, Status(Head(cmds), "Failed"))
            /\ UNCHANGED outgoing
  /\ UNCHANGED <<chatVars, phase, sessionVars, link, stray, ackFrames, atRelay,
                 innerAcked, used>>

\* TransportCommand::Disconnect ends the loop and the task.
HandleDisconnect ==
  /\ phase = "drive"
  /\ cmds # <<>>
  /\ Head(cmds) = Disconnect
  /\ cmds' = Tail(cmds)
  /\ phase' = "done"
  /\ notices' = Append(notices, Disconnected)
  /\ UNCHANGED <<chatVars, sessionVars, netVars, used>>

\* SessionEvent::RelayRecvAck
HandleRecvAck ==
  /\ phase = "drive"
  /\ recvAcks # <<>>
  /\ recvAcks' = Tail(recvAcks)
  /\ notices' = Append(notices, Status(Head(recvAcks), "Sent"))
  /\ UNCHANGED <<chatVars, cmds, phase, reader, writer, netVars, used>>

\* The inner ack of the paired device, at any time after the relay has the
\* message: it does not wait for relay_recv_ack.
ForwardInnerAck(m) ==
  /\ phase = "drive"
  /\ m \in atRelay \ innerAcked
  /\ innerAcked' = innerAcked \cup {m}
  /\ notices' = Append(notices, ReceiveAck(m))
  /\ UNCHANGED <<chatVars, cmds, phase, sessionVars, link, outgoing, stray,
                 ackFrames, atRelay, used>>

\* Mutant of SessionEnds: the Reconnecting event only after a reconnect failed.
SessionEndsQuietly ==
  /\ phase = "drive"
  /\ ~reader /\ recvAcks = <<>>
  /\ phase' = "backoff"
  /\ notices' = IF used.failures > 0 THEN Append(notices, Reconnecting)
                                     ELSE notices
  /\ UNCHANGED <<chatVars, cmds, sessionVars, netVars, used>>

\* The session's last event has been received: DriveOutcome::Reconnect.
SessionEnds ==
  /\ phase = "drive"
  /\ ~reader /\ recvAcks = <<>>
  /\ phase' = "backoff"
  /\ notices' = Append(notices, Reconnecting)
  /\ UNCHANGED <<chatVars, cmds, sessionVars, netVars, used>>

\* Mutant of Reconnect: the old writer's channel is taken over as it is.
ReconnectTakesAll ==
  /\ phase = "backoff"
  /\ phase' = "drive"
  /\ reader' = TRUE /\ writer' = TRUE /\ recvAcks' = <<>>
  /\ link' = TRUE /\ outgoing' = <<>> /\ ackFrames' = {}
  /\ stray' = stray \cup Elements(outgoing)
  /\ UNCHANGED <<chatVars, cmds, notices, atRelay, innerAcked, used>>

\* connect_initial succeeds.  The tasks of the old session are detached: its
\* writer and its connection, when they still work, go on by themselves.
Reconnect ==
  /\ phase = "backoff"
  /\ phase' = "drive"
  /\ reader' = TRUE /\ writer' = TRUE /\ recvAcks' = <<>>
  /\ link' = TRUE /\ outgoing' = <<>> /\ ackFrames' = {}
  /\ stray' = stray \cup (Elements(outgoing) \ {Close})
  /\ UNCHANGED <<chatVars, cmds, notices, atRelay, innerAcked, used>>

\* connect_initial fails: round the loop with the dead session.
ReconnectFails ==
  /\ phase = "backoff"
  /\ used.failures < MaxFailures
  /\ used' = [used EXCEPT !.failures = @ + 1]
  /\ phase' = "drive"
  /\ UNCHANGED <<chatVars, cmds, notices, sessionVars, netVars>>

-----------------------------------------------------------------------------
(* The session's tasks, the network and the relay *)

\* The relay queues the message for the group and says so.
RelayAccepts ==
  /\ link
  /\ outgoing # <<>>
  /\ Head(outgoing) # Close
  /\ outgoing' = Tail(outgoing)
  /\ atRelay' = atRelay \cup {Head(outgoing)}
  /\ ackFrames' = ackFrames \cup {Head(outgoing)}
  /\ UNCHANGED <<chatVars, taskVars, sessionVars, link, stray, innerAcked, used>>

\* A message of a replaced session gets through; nobody reads the answer.
StrayAccepted(m) ==
  /\ m \in stray
  /\ stray' = stray \ {m}
  /\ atRelay' = atRelay \cup {m}
  /\ UNCHANGED <<chatVars, taskVars, sessionVars, link, outgoing, ackFrames,
                 innerAcked, used>>

RelayAckArrives(m) ==
  /\ m \in ackFrames
  /\ reader
  /\ ackFrames' = ackFrames \ {m}
  /\ recvAcks' = Append(recvAcks, m)
  /\ UNCHANGED <<chatVars, taskVars, reader, writer, link, outgoing, stray,
                 atRelay, innerAcked, used>>

\* What was under way on the connection is lost.
LoseConnection ==
  /\ link' = FALSE
  /\ outgoing' = <<>>
  /\ ackFrames' = {}
  /\ UNCHANGED <<chatVars, taskVars, sessionVars, stray, atRelay, innerAcked>>

LinkDrops ==
  /\ link
  /\ used.drops < MaxDrops
  /\ used' = [used EXCEPT !.drops = @ + 1]
  /\ LoseConnection

\* The close frame reaches the relay; what is queued behind it is not sent.
RelayCloses ==
  /\ link
  /\ outgoing # <<>>
  /\ Head(outgoing) = Close
  /\ LoseConnection
  /\ UNCHANGED used

\* Reader and writer notice, each in its own time.
ReaderEnds ==
  /\ reader
  /\ ~link
  /\ reader' = FALSE
  /\ UNCHANGED <<chatVars, taskVars, writer, recvAcks, netVars, used>>

WriterEnds ==
  /\ writer
  /\ ~link \/ Close \in Elements(outgoing)
  /\ writer' = FALSE
  /\ UNCHANGED <<chatVars, taskVars, reader, recvAcks, netVars, used>>

\* An inbound frame that handle_text_frame rejects.
ReaderRejects ==
  /\ reader
  /\ link
  /\ used.rejects < MaxRejects
  /\ used' = [used EXCEPT !.rejects = @ + 1]
  /\ reader' = FALSE
  /\ UNCHANGED <<chatVars, taskVars, writer, recvAcks, netVars>>

\* No pong for HEARTBEAT_DEAD_AFTER_SECS, the connection being up all the same.
HeartbeatTimesOut ==
  /\ link
  /\ writer
  /\ Close \notin Elements(outgoing)
  /\ used.timeouts < MaxTimeouts
  /\ used' = [used EXCEPT !.timeouts = @ + 1]
  /\ outgoing' = Append(outgoing, Close)
  /\ UNCHANGED <<chatVars, taskVars, sessionVars, link, stray, ackFrames,
                 atRelay, innerAcked>>

\* What happens while the chat session looks on, or leaves.
Behind ==
  \/ \E m \in Msgs : ForwardInnerAck(m)
  \/ Quit
  \/ HandleSend
  \/ HandleDisconnect
  \/ HandleRecvAck
  \/ SessionEnds
  \/ Reconnect
  \/ ReconnectFails
  \/ RelayAccepts
  \/ \E m \in Msgs : StrayAccepted(m) \/ RelayAckArrives(m)
  \/ LinkDrops
  \/ RelayCloses
  \/ ReaderEnds
  \/ WriterEnds
  \/ ReaderRejects
  \/ HeartbeatTimesOut

Next ==
  \/ \E m \in Msgs : Submit(m)
  \/ TakeNotice
  \/ Behind

Spec == Init /\ [][Next]_vars

\* Tokio polls every ready task; a select of drive_session picks its ready
\* branches at random, so that none waits forever.  A relay that is connected
\* answers; a connection that is gone is noticed (TCP gives up at last); a
\* reconnect that is tried again and again succeeds.  Nothing obliges the user,
\* the paired device or the network to do anything.
Fairness ==
  /\ WF_vars(TakeNotice)
  /\ SF_vars(HandleSend)
  /\ WF_vars(HandleRecvAck)
  /\ WF_vars(SessionEnds)
  /\ SF_vars(Reconnect)
  /\ WF_vars(RelayAccepts)
  /\ \A m \in Msgs : WF_vars(RelayAckArrives(m))
  /\ WF_vars(RelayCloses)
  /\ WF_vars(ReaderEnds)
  /\ WF_vars(WriterEnds)

FairSpec == Spec /\ Fairness

-----------------------------------------------------------------------------
(* Properties *)

FlagsOK == reader \in BOOLEAN /\ writer \in BOOLEAN /\ link \in BOOLEAN

DataOK ==
  /\ chat \in {"open", "closed"}
  /\ tracker \in Tracker
  /\ cmds \in Seq(Msgs \cup {Disconnect})
  /\ notices \in Seq(Notice)
  /\ phase \in {"drive", "backoff", "done"}
  /\ recvAcks \in Seq(Msgs)
  /\ outgoing \in Seq(Msgs \cup {Close})
  /\ stray \subseteq Msgs /\ ackFrames \subseteq Msgs
  /\ atRelay \subseteq Msgs /\ innerAcked \subseteq atRelay
  /\ used \in [drops : Nat, timeouts : Nat, rejects : Nat, failures : Nat]

TypeOK == FlagsOK /\ DataOK

\* A message whose tick is still the dot has not fallen between the tasks: it
\* is in a queue or on the live connection on the way to a status, or an event
\* that settles it is queued, or the session has died and Reconnecting is yet
\* to come.  Every queue between the tasks, both ends of the connection and the
\* moment of every failure take part.
OnItsWay(m) ==
  \/ m \in Elements(cmds)
  \/ link /\ m \in Elements(outgoing)
  \/ m \in ackFrames
  \/ m \in Elements(recvAcks)

Settling(m) ==
  \E i \in DOMAIN notices :
    \/ notices[i] = Reconnecting
    \/ notices[i].kind = "Status" /\ notices[i].id = m
    \/ notices[i].kind = "Receive" /\ notices[i].refs = m

SessionDoomed == phase = "drive" /\ ~(reader /\ writer /\ link)

NoOrphanSending ==
  chat = "open" =>
    \A m \in Msgs : tracker[m] = "Sending" =>
      OnItsWay(m) \/ Settling(m) \/ SessionDoomed

\* The ticks never claim more than is so: one tick only when the relay has the
\* message, whichever of the sessions carried it.
TickIsTrue == \A m \in Msgs : tracker[m] \in {"Sent", "Delivered"} => m \in atRelay

\* A tick moves on only.  mark_failed would turn a Sent message into a Failed
\* one; that no message gets both a Sent and a Failed status, and that
\* Reconnecting touches only what is Sending, is what prevents it.
MayBecome(old, new) ==
  \/ new = old
  \/ old = "untracked" /\ new = "Sending"
  \/ old = "Sending"
  \/ old \in {"Sent", "Failed"} /\ new = "Delivered"

TicksMoveOn == [][\A m \in Msgs : MayBecome(tracker[m], tracker'[m])]_vars

\* No message is shown as being sent forever, whatever becomes of it.
EventuallySettled ==
  \A m \in Msgs :
    tracker[m] = "Sending" ~> (tracker[m] # "Sending" \/ chat = "closed")

=============================================================================
