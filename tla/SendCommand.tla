----------------------------- MODULE SendCommand -----------------------------
(***************************************************************************)
(* `chat4000 send': cmd_send drains what the group has for this device     *)
(* until the agent seems idle, sends one message, and takes the first      *)
(* reply that is not left over from before for the answer.                 *)
(*                                                                         *)
(* The agent (external) answers one request after the other: it reports    *)
(* that it is busy, sends the reply as deltas and an end, or as one text,  *)
(* may take back with reset what it has sent of it, and reports idle.      *)
(* Requests come from this command (mine) and from other devices and       *)
(* earlier runs of it (Others).  A reply is known by its request, which    *)
(* stands for stream_correlator and inner id; its text is the sequence of  *)
(* the numbers of its deltas.  What another app device of the group asks   *)
(* comes to this one too, as a text, and every loop treats it as a reply.  *)
(*                                                                         *)
(* The transport is here only what it does for this module: frames come in *)
(* order and once (module Inbound), wait while the link is down, and the   *)
(* message may be lost with a link (module Outbound).  The caps of 30 and  *)
(* 60 s, the silence of 500 ms and --timeout may run out at any moment.    *)
(* Left out: the history file, outbound_messages, nags, what is printed.   *)
(***************************************************************************)
EXTENDS Naturals, SequencesExt, Ticks

CONSTANTS Others,      \* requests that are not this command's
          Nobody,      \* no request
          MaxDeltas,   \* bound: deltas of a reply
          MaxDrops,    \* bound: times the link is lost
          MaxFailures  \* bound: reconnects that fail

ASSUME RequestsAssumption ==
  /\ \E m \in Msgs : Msgs = {m}
  /\ Msgs \cap Others = {}
  /\ Nobody \notin Msgs \cup Others
ASSUME BoundsAssumption == {MaxDeltas, MaxDrops, MaxFailures} \subseteq Nat

VARIABLES
  \* cmd_send
  phase,       \* the loop it is in, or how it ended
  last_status, stale, buffers, outbound,
  reply,       \* what it returned: the request it is the reply to, and the text;
               \* Nobody for what another device asked, which is no reply
  \* The transport (external): frames under way, events handed over
  link, frames, events,
  message,     \* where the message is
  \* The agent (external)
  asked, begun, \* requests it has, and of these the ones it has taken up
  turn,         \* the one it works on
  ended,        \* TRUE when the reply has ended and idle has not been reported
  posted, said, \* deltas sent of each reply, and its text so far
  \* History: a request taken up before the command started, if any; and whether
  \* somebody asked or the agent worked without the drain being able to see it.
  unseen, disturbed,
  used          \* how much of the last two bounds is used

sendVars  == <<phase, last_status, stale, buffers, outbound, reply>>
linkVars  == <<link, frames, events, message>>
agentVars == <<asked, begun, turn, ended, posted, said>>
vars == <<sendVars, linkVars, agentVars, unseen, disturbed, used>>

mine     == CHOOSE m \in Msgs : TRUE
Requests == Msgs \cup Others
Upto(n)  == [i \in 1 .. n |-> i]
Texts    == UNION {[1 .. n -> 1 .. MaxDeltas + 1] : n \in 0 .. MaxDeltas + 1}

\* Kinds of events; those that are skipped wherever they come are left out.
Busy  == {"thinking", "typing"}
Plain == Busy \cup {"idle", "sent", "ack", "failed"}
Word(t)            == [t |-> t]
Frame(t, of, text) == [t |-> t, of |-> of, text |-> text]
Question(r)        == [t |-> "asks", from |-> r]
Replies == [t : {"text", "delta", "end", "reset"}, of : Requests, text : Texts]
Questions == {Question(r) : r \in Others}
Events  == {Word(t) : t \in Plain} \cup Replies \cup Questions

Init ==
  /\ phase = "drain" /\ last_status = "none" /\ stale = {}
  /\ buffers = [r \in Requests |-> <<>>]
  /\ outbound = NothingTracked
  /\ reply = [of |-> Nobody, text |-> <<>>]
  /\ link = TRUE /\ frames = <<>> /\ events = <<>> /\ message = "unsent"
  /\ asked \in SUBSET Others
  /\ turn \in asked \cup {Nobody}
  /\ begun = {turn} \ {Nobody} /\ unseen = begun
  /\ ended \in IF turn = Nobody THEN {FALSE} ELSE BOOLEAN
  /\ \E n \in 0 .. MaxDeltas : posted = [r \in Requests |-> IF r = turn THEN n ELSE 0]
  /\ said = [r \in Requests |-> Upto(posted[r])]
  /\ disturbed = FALSE
  /\ used = [drops |-> 0, failures |-> 0]

Running == phase \in {"drain", "idle", "wait"}

-----------------------------------------------------------------------------
(* The agent *)

Post(fs) == frames' = frames \o fs

\* Another device asks, which this one is brought as well; or another process of
\* this device does, whose messages every loop skips (is_local_sender).
OtherAsks(r) ==
  /\ r \in Others \ asked
  /\ asked' = asked \cup {r}
  /\ \/ Post(<<Question(r)>>) /\ disturbed' = (disturbed \/ phase # "drain")
     \/ UNCHANGED <<frames, disturbed>>
  /\ UNCHANGED <<sendVars, link, events, message, begun, turn, ended, posted, said,
                 unseen, used>>

\* It acknowledges what it takes up, mine among it.
TurnBegins(r) ==
  /\ turn = Nobody /\ r \in asked \ begun
  /\ turn' = r /\ begun' = begun \cup {r} /\ ended' = FALSE
  /\ \E s \in Busy : Post(IF r = mine THEN <<Word("ack"), Word(s)>> ELSE <<Word(s)>>)
  /\ disturbed' = (disturbed \/ (r # mine /\ phase # "drain"))
  /\ UNCHANGED <<sendVars, link, events, message, asked, posted, said, unseen, used>>

TurnSays ==
  /\ turn # Nobody /\ ~ended /\ posted[turn] < MaxDeltas
  /\ LET n == posted[turn] + 1 IN
     /\ posted' = [posted EXCEPT ![turn] = n]
     /\ said' = [said EXCEPT ![turn] = Append(@, n)]
     /\ Post(<<Frame("delta", turn, <<n>>)>>)
  /\ UNCHANGED <<sendVars, link, events, message, asked, begun, turn, ended, unseen,
                 disturbed, used>>

TurnResets ==
  /\ turn # Nobody /\ ~ended /\ said[turn] # <<>>
  /\ said' = [said EXCEPT ![turn] = <<>>]
  /\ Post(<<Frame("reset", turn, <<>>)>>)
  /\ UNCHANGED <<sendVars, link, events, message, asked, begun, turn, ended, posted,
                 unseen, disturbed, used>>

\* With a text of its own, without one, or as one message.
TurnEnds ==
  /\ turn # Nobody /\ ~ended
  /\ ended' = TRUE
  /\ \/ /\ \E text \in {said[turn], <<>>} : Post(<<Frame("end", turn, text)>>)
        /\ UNCHANGED said
     \/ /\ posted[turn] = 0
        /\ said' = [said EXCEPT ![turn] = <<1>>]
        /\ Post(<<Frame("text", turn, <<1>>)>>)
  /\ UNCHANGED <<sendVars, link, events, message, asked, begun, turn, posted, unseen,
                 disturbed, used>>

TurnIsOver ==
  /\ turn # Nobody /\ ended
  /\ turn' = Nobody /\ ended' = FALSE
  /\ Post(<<Word("idle")>>)
  /\ UNCHANGED <<sendVars, link, events, message, asked, begun, posted, said, unseen,
                 disturbed, used>>

-----------------------------------------------------------------------------
(* The transport *)

Arrives ==
  /\ link /\ frames # <<>>
  /\ events' = Append(events, Head(frames))
  /\ frames' = Tail(frames)
  /\ UNCHANGED <<sendVars, link, message, agentVars, unseen, disturbed, used>>

\* The relay takes the message; its relay_recv_ack may be lost.
MessageLeaves ==
  /\ link /\ message = "queued"
  /\ message' = "left"
  /\ asked' = asked \cup {mine}
  /\ UNCHANGED frames \/ Post(<<Word("sent")>>)
  /\ UNCHANGED <<sendVars, link, events, begun, turn, ended, posted, said, unseen,
                 disturbed, used>>

\* The message may be in the link.  Reconnecting and Connected are skipped everywhere.
LinkDrops ==
  /\ link /\ used.drops < MaxDrops
  /\ link' = FALSE
  /\ used' = [used EXCEPT !.drops = @ + 1]
  /\ message' \in IF message = "queued" THEN {"queued", "lost"} ELSE {message}
  /\ UNCHANGED <<sendVars, frames, events, agentVars, unseen, disturbed>>

LinkReturns ==
  /\ ~link
  /\ link' = TRUE
  /\ UNCHANGED <<sendVars, frames, events, message, agentVars, unseen, disturbed, used>>

\* ConnectionState::Failed
ReconnectFails ==
  /\ ~link /\ used.failures < MaxFailures
  /\ used' = [used EXCEPT !.failures = @ + 1]
  /\ events' = Append(events, Word("failed"))
  /\ UNCHANGED <<sendVars, link, frames, message, agentVars, unseen, disturbed>>

-----------------------------------------------------------------------------
(* drain_until_idle_via_transport *)

\* Takes event e, of one of these kinds, in phase p.
Takes(p, e, kinds) ==
  /\ phase = p /\ events # <<>>
  /\ e = Head(events) /\ e.t \in kinds
  /\ events' = Tail(events)

\* Mutant of Stale: only whole texts are remembered.
StaleTexts(e) == IF e.t = "text" THEN {e.of} ELSE {}

\* Mutant of Stale: the frame is remembered and not its stream.
StaleFrames(e) == IF e \in Replies THEN {e} ELSE {}

\* The replies that event e is a part of.  A question's id is remembered too, but
\* it comes only once.
Stale(e) == IF e \in Replies THEN {e.of} ELSE {}

\* Mutant of AgentBusy: typing is not busy.
AgentThinking == last_status = "thinking"

AgentBusy == last_status \in Busy

\* transport.send and track
SendMessage ==
  /\ phase' = "wait"
  /\ outbound' = Track(outbound, mine)
  /\ message' = "queued"

DrainTakes(e) ==
  /\ Takes("drain", e, {x.t : x \in Events} \ {"failed"})
  /\ last_status' = IF e.t \in Busy \cup {"idle"} THEN e.t ELSE last_status
  /\ stale' = stale \cup Stale(e)
  /\ UNCHANGED <<phase, buffers, outbound, reply, link, frames, message, agentVars,
                 unseen, disturbed, used>>

DrainIsOver ==
  /\ IF AgentBusy THEN phase' = "idle" /\ UNCHANGED <<outbound, message>> ELSE SendMessage
  /\ UNCHANGED <<last_status, stale, buffers, reply, link, frames, events, agentVars,
                 unseen, used>>

\* QUIET_THRESHOLD passes without an event.  A reply whose beginning was taken
\* before the command started may be in a pause.
DrainIsQuiet ==
  /\ phase = "drain" /\ events = <<>>
  /\ DrainIsOver
  /\ disturbed' = (disturbed \/ frames # <<>> \/ turn \in unseen \ stale)

\* DRAIN_HARD_CAP
DrainIsCapped ==
  /\ phase = "drain"
  /\ DrainIsOver
  /\ disturbed' = TRUE

IdleTakes(e) ==
  /\ Takes("idle", e, {x.t : x \in Events} \ {"failed"})
  /\ stale' = stale \cup Stale(e)
  /\ IF e.t = "idle" THEN SendMessage ELSE UNCHANGED <<phase, outbound, message>>
  /\ UNCHANGED <<last_status, buffers, reply, link, frames, agentVars, unseen,
                 disturbed, used>>

\* Mutant of IdleIsCapped: recv without a timeout.
IdleIsEndless == FALSE

\* IDLE_WAIT_CAP
IdleIsCapped ==
  /\ phase = "idle"
  /\ SendMessage
  /\ disturbed' = TRUE
  /\ UNCHANGED <<last_status, stale, buffers, reply, link, frames, events, agentVars,
                 unseen, used>>

\* The connection fails in either loop: nothing has been sent.
DrainFails(e) ==
  /\ Takes("drain", e, {"failed"}) \/ Takes("idle", e, {"failed"})
  /\ phase' = "failed"
  /\ UNCHANGED <<last_status, stale, buffers, outbound, reply, link, frames, message,
                 agentVars, unseen, disturbed, used>>

-----------------------------------------------------------------------------
(* wait_for_agent_reply_via_transport *)

WaitUnchanged ==
  UNCHANGED <<last_status, stale, link, frames, message, agentVars, unseen, disturbed,
              used>>

\* Statuses, inner acks, and what is of no interest.
WaitNotes(e) ==
  /\ Takes("wait", e, Plain \ {"failed"})
  /\ outbound' = CASE e.t = "sent" -> MarkSent(outbound, mine)
                   [] e.t = "ack"  -> MarkDelivered(outbound, mine)
                   [] OTHER        -> outbound
  /\ UNCHANGED <<phase, buffers, reply>> /\ WaitUnchanged

WaitSkips(e) ==
  /\ Takes("wait", e, {"text", "delta", "end", "reset"})
  /\ e.of \in stale
  /\ UNCHANGED <<phase, buffers, outbound, reply>> /\ WaitUnchanged

WaitCollects(e) ==
  /\ Takes("wait", e, {"delta", "reset"})
  /\ e.of \notin stale
  /\ buffers' = [buffers EXCEPT ![e.of] = IF e.t = "reset" THEN <<>> ELSE @ \o e.text]
  /\ UNCHANGED <<phase, outbound, reply>> /\ WaitUnchanged

WaitReturns(e) ==
  /\ Takes("wait", e, {"text", "end"})
  /\ e.of \notin stale
  /\ phase' = "replied"
  /\ reply' = [of |-> e.of, text |-> IF e.text = <<>> THEN buffers[e.of] ELSE e.text]
  /\ UNCHANGED <<buffers, outbound>> /\ WaitUnchanged

\* The role of the sender is not looked at.
WaitReturnsQuestion(e) ==
  /\ Takes("wait", e, {"asks"})
  /\ phase' = "replied"
  /\ reply' = [of |-> Nobody, text |-> <<>>]
  /\ UNCHANGED <<buffers, outbound>> /\ WaitUnchanged

\* Either way cmd_send marks the message failed.
WaitFails(e) ==
  /\ Takes("wait", e, {"failed"})
  /\ phase' = "failed"
  /\ outbound' = MarkFailed(outbound, mine)
  /\ UNCHANGED <<buffers, reply>> /\ WaitUnchanged

WaitTimesOut ==
  /\ phase = "wait"
  /\ phase' = "timedout"
  /\ outbound' = MarkFailed(outbound, mine)
  /\ UNCHANGED <<buffers, reply, events>> /\ WaitUnchanged

Agent ==
  \/ \E r \in Requests : OtherAsks(r) \/ TurnBegins(r)
  \/ TurnSays \/ TurnResets \/ TurnEnds \/ TurnIsOver

Transport == Arrives \/ MessageLeaves \/ LinkDrops \/ LinkReturns \/ ReconnectFails

TakesEvent ==
  \E e \in ToSet(events) :
    \/ DrainTakes(e) \/ IdleTakes(e) \/ DrainFails(e)
    \/ WaitNotes(e) \/ WaitSkips(e) \/ WaitCollects(e) \/ WaitReturns(e)
    \/ WaitReturnsQuestion(e) \/ WaitFails(e)

TimerFires == DrainIsQuiet \/ DrainIsCapped \/ IdleIsCapped \/ WaitTimesOut

\* What happens after the command has ended is of no interest.
Next == Running /\ (Agent \/ Transport \/ TakesEvent \/ TimerFires)

Spec == Init /\ [][Next]_vars

\* Time passes.
FairSpec == Spec /\ WF_vars(Running /\ TimerFires)

-----------------------------------------------------------------------------
(* Properties *)

TypeOK ==
  /\ phase \in {"drain", "idle", "wait", "replied", "failed", "timedout"}
  /\ last_status \in Busy \cup {"idle", "none"}
  /\ stale \subseteq Requests
  /\ buffers \in [Requests -> Texts]
  /\ outbound \in Tracker
  /\ reply \in [of : Requests \cup {Nobody}, text : Texts]
  /\ \A i \in DOMAIN frames : frames[i] \in Events
  /\ \A i \in DOMAIN events : events[i] \in Events
  /\ message \in {"unsent", "queued", "left", "lost"}
  /\ begun \subseteq asked /\ asked \subseteq Requests
  /\ turn \in begun \cup {Nobody}
  /\ posted \in [Requests -> 0 .. MaxDeltas] /\ said \in [Requests -> Texts]
  /\ {link, ended, disturbed} \subseteq BOOLEAN /\ unseen \subseteq Requests
  /\ used \in [drops : 0 .. MaxDrops, failures : 0 .. MaxFailures]

\* The reply that is printed is whole, as its sender ended it, also when it began
\* before the message was sent and the caps ran out in the middle of it: no part
\* of it was drained.  (Not when it began before the command did.)
ReplyIsWhole ==
  phase = "replied" /\ reply.of \in Requests \ unseen => reply.text = said[reply.of]

\* What is printed is the reply to the message, unless the drain could not tell:
\* after it somebody else asked or the agent took up somebody else's request; a
\* cap ended it, or silence did while frames were under way or while the agent
\* paused in a reply of which the command has seen nothing.  So it is no reply
\* that was going on while the drain lasted, if any of it came, whatever pauses,
\* statuses and ends of it come later.
AnswersUs ==
  phase = "replied" /\ ~disturbed => reply.of = mine

\* The command ends, also when the agent never becomes idle or never answers.
SendReturns == <>~Running

=============================================================================
