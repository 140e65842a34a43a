------------------------------- MODULE Mailbox -------------------------------
(***************************************************************************)
(* What the inbound half of MessageTransport promises its consumer, with   *)
(* none of the sessions, queues, watermarks or batches it uses to keep the *)
(* promise: a message the relay has numbered is put on disk and handed     *)
(* over in the relay's order, at most once in the life of a process, and   *)
(* the relay is told to forget a number only when every message up to it   *)
(* is on disk or was refused by it.  Module Inbound implements it.         *)
(***************************************************************************)
EXTENDS Naturals, Sequences

CONSTANT Ids                     \* inner message ids

VARIABLES log,      \* log[n]: the id the relay numbered n
          safe,     \* the ids on disk
          lost,     \* the numbers the disk has refused at least once
          handed,   \* what this process handed over: <<[seq, id], ...>>
          forgotten \* the relay no longer keeps the numbers up to this one

vars == <<log, safe, lost, handed, forgotten>>

HandedIds == {handed[i].id : i \in DOMAIN handed}

\* The position in the relay's order that the consumer has reached; 0 also
\* stands for the messages an old relay does not number.
Reached(n) == \A i \in DOMAIN handed : handed[i].seq < n

SafeUpTo(n) ==
  \A m \in 1 .. n : m \in DOMAIN log /\ (log[m] \in safe \/ m \in lost)

Init ==
  /\ log = <<>>
  /\ safe = {}
  /\ lost = {}
  /\ handed = <<>>
  /\ forgotten = 0

Post(id) ==
  /\ log' = Append(log, id)
  /\ UNCHANGED <<safe, lost, handed, forgotten>>

HandOver(seq, id) ==
  IF id \in HandedIds
    THEN UNCHANGED handed
    ELSE handed' = Append(handed, [seq |-> seq, id |-> id])

\* Message n, whose predecessors are safe, becomes safe and is handed over
\* unless its id already was.  Only one that was refused before may come late.
Deliver(n) ==
  /\ n \in DOMAIN log
  /\ SafeUpTo(n - 1)
  /\ log[n] \in HandedIds \/ Reached(n) \/ n \in lost
  /\ safe' = safe \cup {log[n]}
  /\ HandOver(n, log[n])
  /\ UNCHANGED <<log, lost, forgotten>>

\* A message without a number: nothing is promised about its place.
DeliverUnnumbered(id) ==
  /\ safe' = safe \cup {id}
  /\ HandOver(0, id)
  /\ UNCHANGED <<log, lost, forgotten>>

\* The disk refuses message n.
Lose(n) ==
  /\ n \in DOMAIN log
  /\ SafeUpTo(n - 1)
  /\ lost' = lost \cup {n}
  /\ UNCHANGED <<log, safe, handed, forgotten>>

Forget(n) ==
  /\ SafeUpTo(n)
  /\ forgotten' = n
  /\ n > forgotten
  /\ UNCHANGED <<log, safe, lost, handed>>

\* The process ends; it may just have written the message it was handling.
Restart ==
  /\ handed' = <<>>
  /\ safe' = safe \/ \E id \in Ids : safe' = safe \cup {id}
  /\ UNCHANGED <<log, lost, forgotten>>

Next ==
  \/ \E id \in Ids : Post(id) \/ DeliverUnnumbered(id)
  \/ \E n \in DOMAIN log : Deliver(n) \/ Lose(n) \/ Forget(n)
  \/ Restart

Spec == Init /\ [][Next]_vars
=============================================================================
