----------------------------- MODULE Transcript -----------------------------
(***************************************************************************)
(* The transcript of the chat session and the ticks in it: the vector of   *)
(* lines, at most Cap of them, and OutboundLines, which remembers at which *)
(* index each message the user sent was written and rewrites that line     *)
(* when the state of the message changes.                                  *)
(*                                                                         *)
(* A line is its message and tick, or Other for every line that carries no *)
(* tick.  Indexes count from 1 where the code's count from 0.  The         *)
(* transport's events arrive in any order the tracker copes with; module   *)
(* Screen joins them to the transport that sends them.                     *)
(***************************************************************************)
EXTENDS Ticks, Naturals, Sequences

CONSTANTS Cap,       \* 500 in push_transcript_line
          MaxPushes, \* bound: lines without a tick pushed by the session
          MaxClears  \* bound: /clear commands

VARIABLES
  transcript,
  by_msg_id,  \* OutboundLines: message -> index of its line
  tracker,    \* OutboundTracker
  shifted,    \* history: lines have left the transcript since it was filled
  pushes, clears

vars == <<transcript, by_msg_id, tracker, shifted, pushes, clears>>

Other == [tick |-> "none"]
Line(m, state) == [msg |-> m, tick |-> state]

Init ==
  /\ transcript = <<>>
  /\ by_msg_id = [m \in {} |-> 0]
  /\ tracker = NothingTracked
  /\ shifted = FALSE
  /\ pushes = 0 /\ clears = 0

\* Mutant of Pushed: the length is tested before the push.
PushedCheckFirst(lines, line) ==
  Append(IF Len(lines) > Cap
           THEN SubSeq(lines, Len(lines) - Cap + 1, Len(lines))
           ELSE lines,
         line)

\* push_transcript_line: the oldest lines make room.
Pushed(lines, line) ==
  LET longer == Append(lines, line) IN
  IF Len(longer) > Cap
    THEN SubSeq(longer, Len(longer) - Cap + 1, Len(longer))
    ELSE longer

Overflows(lines) == Len(lines) >= Cap

\* Mutant of Recorded: the index the next line will have.
RecordedPastEnd(lines, m) ==
  [n \in DOMAIN by_msg_id \cup {m} |-> IF n = m THEN Len(lines) + 1 ELSE by_msg_id[n]]

\* OutboundLines::record
Recorded(lines, m) ==
  [n \in DOMAIN by_msg_id \cup {m} |-> IF n = m THEN Len(lines) ELSE by_msg_id[n]]

\* OutboundLines::apply: an index out of range changes nothing.
Applied(lines, m, state) ==
  IF m \in DOMAIN by_msg_id /\ by_msg_id[m] \in DOMAIN lines
    THEN [lines EXCEPT ![by_msg_id[m]] = Line(m, state)]
    ELSE lines

\* apply for each message of a set, which the code walks in no fixed order: the
\* last of those recorded at an index has its line.
AppliedAll(lines, ms, state) ==
  LET at(i) == {m \in ms \cap DOMAIN by_msg_id : by_msg_id[m] = i}
      hit   == {i \in DOMAIN lines : at(i) # {}}
  IN {[i \in DOMAIN lines |-> IF i \in hit THEN Line(last[i], state) ELSE lines[i]] :
        last \in {f \in [hit -> ms] : \A i \in hit : f[i] \in at(i)}}

\* Replies, commands and notices of the session.
PushOther ==
  /\ pushes < MaxPushes
  /\ pushes' = pushes + 1
  /\ transcript' = Pushed(transcript, Other)
  /\ shifted' = (shifted \/ Overflows(transcript))
  /\ UNCHANGED <<by_msg_id, tracker, clears>>

Submit(m) ==
  /\ tracker[m] = "untracked"
  /\ tracker' = Track(tracker, m)
  /\ transcript' = Pushed(transcript, Line(m, "Sending"))
  /\ by_msg_id' = Recorded(transcript', m)
  /\ shifted' = (shifted \/ Overflows(transcript))
  /\ UNCHANGED <<pushes, clears>>

\* TransportEvent::Status and the inner ack: mark, then apply state_of.
TakeStatus(m) ==
  /\ tracker[m] # "untracked"
  /\ \/ tracker' = MarkSent(tracker, m)
     \/ tracker' = MarkFailed(tracker, m)
     \/ tracker' = MarkDelivered(tracker, m)
  /\ transcript' = Applied(transcript, m, tracker'[m])
  /\ UNCHANGED <<by_msg_id, shifted, pushes, clears>>

\* ConnectionState::Reconnecting
TakeReconnecting ==
  /\ pushes < MaxPushes
  /\ pushes' = pushes + 1
  /\ tracker' = MarkAllFailed(tracker)
  /\ \E lines \in AppliedAll(transcript, StillSending(tracker), "Failed") :
       transcript' = Pushed(lines, Other)
  /\ shifted' = (shifted \/ Overflows(transcript))
  /\ UNCHANGED <<by_msg_id, clears>>

\* /clear
Clear ==
  /\ clears < MaxClears
  /\ clears' = clears + 1
  /\ transcript' = <<>>
  /\ shifted' = TRUE
  /\ UNCHANGED <<by_msg_id, tracker, pushes>>

Next ==
  \/ PushOther
  \/ \E m \in Msgs : Submit(m) \/ TakeStatus(m)
  \/ TakeReconnecting
  \/ Clear

Spec == Init /\ [][Next]_vars

-----------------------------------------------------------------------------
(* Properties *)

\* The type invariant: the transcript keeps to its cap.
TypeOK ==
  /\ transcript \in Seq({Other} \cup [msg : Msgs, tick : OutboundState])
  /\ Len(transcript) <= Cap
  /\ DOMAIN by_msg_id \subseteq Msgs
  /\ \A m \in DOMAIN by_msg_id : by_msg_id[m] \in 1 .. Cap
  /\ tracker \in Tracker
  /\ shifted \in BOOLEAN
  /\ pushes \in 0 .. MaxPushes /\ clears \in 0 .. MaxClears

\* As long as no line has left the transcript, each message has one line, and
\* it shows the message's state: the index taken after the push, the marks of
\* the tracker and the rewriting agree, whatever lines and statuses come between.
ShowsTick ==
  ~shifted =>
    \A m \in Msgs : tracker[m] # "untracked" =>
      {i \in DOMAIN transcript : transcript[i].tick # "none" /\ transcript[i].msg = m}
        = {by_msg_id[m]}
      /\ transcript[by_msg_id[m]].tick = tracker[m]

=============================================================================
