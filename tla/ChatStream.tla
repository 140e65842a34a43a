----------------------------- MODULE ChatStream -----------------------------
(***************************************************************************)
(* Streamed replies in the chat session: ChatRenderState, which collects   *)
(* the text_delta frames of the live reply, supersedes it when another     *)
(* stream starts, and hands the text over to the transcript at text_end.   *)
(*                                                                         *)
(* Each stream is one reply of a sender (external), which sends its frames *)
(* in order; several senders interleave, statuses and whole texts come in  *)
(* between, and the transport may report Reconnecting at any time.  Frames *)
(* get here as module Inbound describes: in order, none lost, and only the *)
(* first of those that share an inner id.                                  *)
(*                                                                         *)
(* A text is the sequence of the numbers of its deltas.                    *)
(***************************************************************************)
EXTENDS Naturals, FiniteSets, SequencesExt

CONSTANTS Streams,
          Legacy,    \* streams whose frames all have one inner id
          MaxDeltas  \* bound: deltas of a stream

ASSUME StreamsAssumption == Legacy \subseteq Streams /\ MaxDeltas \in Nat

VARIABLES
  \* The senders (external): deltas sent, and how the stream was ended: with
  \* its "text", with an "empty" text, with reset, or "not" yet.
  deltas, ended,
  \* The transport's dedup, of the legacy streams.
  seen_inner_ids,
  \* ChatRenderState
  busy, stream_buffers, stream_order, suppressed_streams,
  \* The replies pushed to the transcript.
  shown,
  \* History: streams whose buffer was thrown away before their end.
  disturbed

renderVars == <<busy, stream_buffers, stream_order, suppressed_streams>>
vars == <<deltas, ended, seen_inner_ids, renderVars, shown, disturbed>>

Init ==
  /\ deltas = [s \in Streams |-> 0]
  /\ ended = [s \in Streams |-> "not"]
  /\ seen_inner_ids = {}
  /\ busy = "none" /\ stream_buffers = << >> /\ stream_order = <<>>
  /\ suppressed_streams = {}
  /\ shown = <<>>
  /\ disturbed = {}

-----------------------------------------------------------------------------
(* ChatRenderState *)

\* The text of the stream so far.
Whole(s) == [i \in 1 .. deltas[s] |-> i]

Without(buffers, ss) == Restrict(buffers, DOMAIN buffers \ ss)

\* Mutant of Superseded: the last stream that started stays.
SupersededButLast(s) ==
  IF s \in DOMAIN stream_buffers \/ DOMAIN stream_buffers = {}
    THEN {}
    ELSE ToSet(Front(stream_order))

\* The streams that the first delta of s supersedes.
Superseded(s) ==
  IF s \in DOMAIN stream_buffers \/ DOMAIN stream_buffers = {}
    THEN {}
    ELSE ToSet(stream_order)

\* stream_order without s, which is in it once at most.
Retained(s) ==
  IF Contains(stream_order, s)
    THEN RemoveAt(stream_order, CHOOSE i \in DOMAIN stream_order : stream_order[i] = s)
    ELSE stream_order

\* update_stream_delta
UpdateStreamDelta(s, delta) ==
  LET gone == Superseded(s)
      kept == Without(stream_buffers, gone)
      old  == IF s \in DOMAIN kept THEN kept[s] ELSE <<>>
  IN
  /\ busy' = "Typing"
  /\ stream_buffers' = [t \in DOMAIN kept \cup {s} |->
                          IF t = s THEN Append(old, delta) ELSE kept[t]]
  /\ suppressed_streams' = suppressed_streams \cup gone
  /\ stream_order' =
       LET order == IF gone = {} THEN stream_order ELSE <<>>
       IN IF Contains(order, s) THEN order ELSE Append(order, s)
  /\ disturbed' = disturbed \cup gone

\* Mutants of CompleteStream.  The reset flag is ignored:
CompleteStreamDespiteReset(s, final, reset) ==
  LET text == IF final = <<>> /\ s \in DOMAIN stream_buffers
                THEN stream_buffers[s] ELSE final
  IN
  /\ stream_buffers' = Without(stream_buffers, {s})
  /\ stream_order' = Retained(s)
  /\ suppressed_streams' = suppressed_streams \ {s}
  /\ busy' = IF stream_buffers' = << >> THEN "none" ELSE busy
  /\ shown' = IF s \notin suppressed_streams /\ text # <<>>
                THEN Append(shown, [stream |-> s, text |-> text]) ELSE shown

\* the buffer is preferred to the final text:
CompleteStreamFromBuffer(s, final, reset) ==
  LET text == IF s \in DOMAIN stream_buffers THEN stream_buffers[s] ELSE final IN
  /\ stream_buffers' = Without(stream_buffers, {s})
  /\ stream_order' = Retained(s)
  /\ suppressed_streams' = suppressed_streams \ {s}
  /\ busy' = IF stream_buffers' = << >> THEN "none" ELSE busy
  /\ shown' = IF ~reset /\ s \notin suppressed_streams /\ text # <<>>
                THEN Append(shown, [stream |-> s, text |-> text]) ELSE shown

\* the buffer is removed only when its text is used.
CompleteStreamKeepsBuffer(s, final, reset) ==
  /\ IF final = <<>>
       THEN /\ stream_buffers' = Without(stream_buffers, {s})
            /\ stream_order' = Retained(s)
       ELSE UNCHANGED <<stream_buffers, stream_order>>
  /\ suppressed_streams' = suppressed_streams \ {s}
  /\ busy' = IF stream_buffers' = << >> THEN "none" ELSE busy
  /\ shown' = IF ~reset /\ s \notin suppressed_streams
                THEN Append(shown, [stream |-> s, text |-> Whole(s)]) ELSE shown

\* complete_stream, and the push that run_chat_session makes of its answer.
CompleteStream(s, final, reset) ==
  LET text == IF final # <<>> THEN final
              ELSE IF s \in DOMAIN stream_buffers THEN stream_buffers[s]
              ELSE <<>>
  IN
  /\ stream_buffers' = Without(stream_buffers, {s})
  /\ stream_order' = Retained(s)
  /\ suppressed_streams' = suppressed_streams \ {s}
  /\ busy' = IF stream_buffers' = << >> THEN "none" ELSE busy
  /\ shown' = IF ~reset /\ s \notin suppressed_streams /\ text # <<>>
                THEN Append(shown, [stream |-> s, text |-> text])
                ELSE shown

-----------------------------------------------------------------------------
(* What reaches the session *)

Dropped(s) == s \in Legacy /\ s \in seen_inner_ids

\* MessageType text_delta
Delta(s) ==
  /\ ended[s] = "not"
  /\ deltas[s] < MaxDeltas
  /\ deltas' = [deltas EXCEPT ![s] = @ + 1]
  /\ IF Dropped(s)
       THEN UNCHANGED <<seen_inner_ids, renderVars, disturbed>>
       ELSE /\ seen_inner_ids' = seen_inner_ids \cup ({s} \cap Legacy)
            /\ UpdateStreamDelta(s, deltas'[s])
  /\ UNCHANGED <<ended, shown>>

\* MessageType text_end; a stream has at least one delta.
End(s, how) ==
  /\ ended[s] = "not"
  /\ deltas[s] > 0
  /\ ended' = [ended EXCEPT ![s] = how]
  /\ IF Dropped(s)
       THEN UNCHANGED <<seen_inner_ids, renderVars, shown>>
       ELSE /\ seen_inner_ids' = seen_inner_ids \cup ({s} \cap Legacy)
            /\ CompleteStream(s, IF how = "text" THEN Whole(s) ELSE <<>>,
                              how = "reset")
  /\ UNCHANGED <<deltas, disturbed>>

\* set_busy_phase: statuses thinking and typing, and the user's Enter.
SetBusyPhase(phase) ==
  /\ busy' = phase
  /\ UNCHANGED <<deltas, ended, seen_inner_ids, stream_buffers, stream_order,
                 suppressed_streams, shown, disturbed>>

\* clear_busy: status idle, and a whole text.
ClearBusy ==
  /\ busy' = "none"
  /\ UNCHANGED <<deltas, ended, seen_inner_ids, stream_buffers, stream_order,
                 suppressed_streams, shown, disturbed>>

\* ConnectionState::Reconnecting: the render state starts afresh.
TakeReconnecting ==
  /\ busy' = "none" /\ stream_buffers' = << >> /\ stream_order' = <<>>
  /\ suppressed_streams' = {}
  /\ disturbed' = disturbed \cup DOMAIN stream_buffers
  /\ UNCHANGED <<deltas, ended, seen_inner_ids, shown>>

Next ==
  \/ \E s \in Streams :
       Delta(s) \/ \E how \in {"text", "empty", "reset"} : End(s, how)
  \/ \E phase \in {"Thinking", "Typing"} : SetBusyPhase(phase)
  \/ ClearBusy
  \/ TakeReconnecting

Spec == Init /\ [][Next]_vars

\* A sender ends what it has begun, and Inbound hands every frame over.
FairSpec ==
  /\ Spec
  /\ \A s \in Streams : WF_vars(\E how \in {"text", "empty", "reset"} : End(s, how))

-----------------------------------------------------------------------------
(* Properties *)

Texts == UNION {[1 .. n -> 1 .. MaxDeltas] : n \in 0 .. MaxDeltas}

\* The type invariant.  There is never more than one buffer, the one
\* latest_stream() finds and the screen shows.
TypeOK ==
  /\ deltas \in [Streams -> 0 .. MaxDeltas]
  /\ ended \in [Streams -> {"not", "text", "empty", "reset"}]
  /\ seen_inner_ids \subseteq Legacy
  /\ busy \in {"none", "Thinking", "Typing"}
  /\ DOMAIN stream_buffers = ToSet(stream_order)
  /\ \A s \in DOMAIN stream_buffers : s \in Streams /\ stream_buffers[s] \in Texts
  /\ Len(stream_order) <= 1
  /\ suppressed_streams \subseteq Streams /\ disturbed \subseteq Streams
  /\ shown \in Seq([stream : Streams, text : Texts])

Shown(s) == {i \in DOMAIN shown : shown[i].stream = s}

\* A reply that nothing disturbed is in the transcript once, whole, and a reply
\* that was reset is not, whatever other frames came between its own.
UndisturbedIsShown ==
  \A s \in Streams \ (Legacy \cup disturbed) :
    CASE ended[s] \in {"text", "empty"} ->
           \E i \in DOMAIN shown : Shown(s) = {i} /\ shown[i].text = Whole(s)
      [] OTHER -> Shown(s) = {}

\* What is shown of a reply has no hole: it is the reply's text or, when the
\* end carried no text and a reconnect threw the beginning away, a tail of it.
ShownIsTail ==
  \A i \in DOMAIN shown :
    LET s == shown[i].stream IN
    IF ended[s] = "text"
      THEN shown[i].text = Whole(s)
      ELSE s \in Streams \ Legacy =>
             \E k \in 1 .. deltas[s] : shown[i].text = SubSeq(Whole(s), k, deltas[s])

\* compose_status_lines warns of a stream that stays on the screen because its
\* text_end never comes: with senders that end their streams none does.
StreamLeavesScreen ==
  \A s \in Streams \ Legacy :
    s \in DOMAIN stream_buffers ~> s \notin DOMAIN stream_buffers

=============================================================================
