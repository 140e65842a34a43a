-------------------------------- MODULE Ticks --------------------------------
(***************************************************************************)
(* OutboundTracker: the state of each message the user sent, which the     *)
(* chat session shows as a tick.  Pure operators on the map from msg_id to *)
(* state; "untracked" stands for a key the map does not hold.              *)
(***************************************************************************)
CONSTANT Msgs

OutboundState == {"Sending", "Sent", "Delivered", "Failed"}

Tracker == [Msgs -> OutboundState \cup {"untracked"}]

NothingTracked == [m \in Msgs |-> "untracked"]

\* OutboundTracker::track
Track(t, m) == [t EXCEPT ![m] = "Sending"]

\* OutboundTracker::mark_sent
MarkSent(t, m) == IF t[m] = "Sending" THEN [t EXCEPT ![m] = "Sent"] ELSE t

\* OutboundTracker::mark_delivered
MarkDelivered(t, m) ==
  IF t[m] = "untracked" THEN t ELSE [t EXCEPT ![m] = "Delivered"]

\* OutboundTracker::mark_failed
MarkFailed(t, m) ==
  IF t[m] \in {"untracked", "Delivered"} THEN t ELSE [t EXCEPT ![m] = "Failed"]

\* Mutant of StillSending: everything without an inner ack.
NotDelivered(t) == {m \in Msgs : t[m] \in {"Sending", "Sent"}}

\* What run_chat_session collects on Reconnecting.
StillSending(t) == {m \in Msgs : t[m] = "Sending"}

\* mark_failed for each of them.
MarkAllFailed(t) ==
  [m \in Msgs |-> IF m \in StillSending(t) THEN "Failed" ELSE t[m]]
=============================================================================
