------------------------------- MODULE Screen -------------------------------
(***************************************************************************)
(* The chat session as its user sees it: the transcript and its ticks      *)
(* (module Transcript) in front of the transport, the network and the      *)
(* relay (module Outbound).  run_chat_session has both in its hands: the   *)
(* handler of Enter gives the message to the transport and writes its      *)
(* line, and the handler of an event marks the message and rewrites the    *)
(* line before anything else happens.  The tracker is the same in both.    *)
(***************************************************************************)
EXTENDS Outbound

CONSTANTS Cap,       \* 500 in push_transcript_line
          MaxPushes, \* bound: lines without a tick pushed by the session
          MaxClears  \* bound: /clear commands

ASSUME ScreenAssumption == {Cap, MaxPushes, MaxClears} \subseteq Nat /\ Cap > 0

VARIABLES transcript, by_msg_id, shifted, pushes, clears  \* as in Transcript

T == INSTANCE Transcript

shown == <<transcript, by_msg_id, shifted, pushes, clears>>

ScreenInit == Init /\ T!Init

\* Enter
SubmitShown(m) == Submit(m) /\ T!Submit(m)

\* An event of the transport, and what it does to the lines.
TakeNoticeShown ==
  /\ TakeNotice
  /\ LET n == Head(notices) IN
     \/ n.kind = "Status" /\ T!TakeStatus(n.id)
     \/ n.kind = "Receive" /\ T!TakeStatus(n.refs)
     \/ n.kind = "Reconnecting" /\ T!TakeReconnecting

\* Lines and commands that the transport has no part in.
ScreenOnly ==
  /\ chat = "open"
  /\ T!PushOther \/ T!Clear
  /\ UNCHANGED <<chat, taskVars, sessionVars, netVars, used>>

ScreenNext ==
  \/ \E m \in Msgs : SubmitShown(m)
  \/ TakeNoticeShown
  \/ ScreenOnly
  \/ Behind /\ UNCHANGED shown

screenVars == <<vars, shown>>

ScreenSpec == ScreenInit /\ [][ScreenNext]_screenVars

-----------------------------------------------------------------------------
(* Properties *)

\* The type invariant: both halves are well-typed, and the transcript keeps to
\* its cap.
ScreenTypeOK == TypeOK /\ T!TypeOK

\* A line that says sent or delivered is about a message the relay has, also
\* when lines have left the transcript and the line was rewritten at an index
\* that had been another's.
TrueOnScreen ==
  \A i \in DOMAIN transcript :
    transcript[i].tick \in {"Sent", "Delivered"} => transcript[i].msg \in atRelay

\* What the user sees of the messages is so: until a line has left, each message
\* has one line and it shows the tracker's state; and at any time what a line
\* claims is true of the relay.  Sessions that come and go, statuses that
\* overtake one another, pushes and /clear all take part.
ShownIsSo == T!ShowsTick /\ TrueOnScreen

=============================================================================
