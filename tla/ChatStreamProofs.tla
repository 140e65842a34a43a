-------------------------- MODULE ChatStreamProofs --------------------------
(***************************************************************************)
(* Proofs about ChatStream, for every number of streams and of deltas:     *)
(* there is never more than one buffer, a reply that nothing disturbed is  *)
(* shown once and whole, and what is shown of a reply has no hole.         *)
(***************************************************************************)
EXTENDS ChatStream, TLAPS

-----------------------------------------------------------------------------
(* The inductive invariant *)

\* text is that of s from delta k on.
TailFrom(text, s, k) ==
  /\ text = [i \in 1 .. deltas[s] - k + 1 |-> k - 1 + i]
  /\ k \in 1 .. deltas[s]

IsTail(text, s) == \E k \in Nat : TailFrom(text, s, k)

SendersOK ==
  /\ deltas \in [Streams -> 0 .. MaxDeltas]
  /\ ended \in [Streams -> {"not", "text", "empty", "reset"}]
  /\ seen_inner_ids \subseteq Legacy
  /\ \A s \in Streams : ended[s] # "not" => deltas[s] > 0
  /\ \A s \in Legacy : deltas[s] > 0 => s \in seen_inner_ids

\* One buffer at most, which the order names.
OrderOK ==
  /\ stream_order \in Seq(Streams) /\ Len(stream_order) <= 1
  /\ DOMAIN stream_buffers = ToSet(stream_order)

\* A buffer has the end of what its sender, which has not ended, has sent, and all
\* of it unless the stream was disturbed.  Of a legacy stream it has one delta.
BuffersOK ==
  \A s \in DOMAIN stream_buffers :
    IF s \in Legacy
      THEN s \in seen_inner_ids /\ stream_buffers[s] = <<1>> /\ MaxDeltas > 0
      ELSE /\ ended[s] = "not"
           /\ IsTail(stream_buffers[s], s)
           /\ s \notin disturbed => stream_buffers[s] = Whole(s)

\* A stream that has begun is in the buffers until it is ended or disturbed.
StartedOK ==
  /\ \A s \in Streams \ (Legacy \cup disturbed) :
       deltas[s] > 0 /\ ended[s] = "not" => s \in DOMAIN stream_buffers
  /\ suppressed_streams \subseteq disturbed
  /\ disturbed \subseteq Streams

\* The transcript has replies that ended, of streams whose frames have ids.
ShownOK ==
  /\ shown \in Seq([stream : Streams, text : Texts])
  /\ \A i \in DOMAIN shown :
       /\ shown[i].stream \notin Legacy
       /\ ended[shown[i].stream] # "not"
       /\ ended[shown[i].stream] = "text" => shown[i].text = Whole(shown[i].stream)
       /\ IsTail(shown[i].text, shown[i].stream)

IInv ==
  /\ SendersOK /\ busy \in {"none", "Thinking", "Typing"}
  /\ OrderOK /\ BuffersOK /\ StartedOK /\ ShownOK /\ UndisturbedIsShown

-----------------------------------------------------------------------------
(* Texts, and sequences of one element *)

\* A stream's text is the tail from its first delta on, and not empty.
LEMMA WholeIsTail ==
  ASSUME SendersOK, NEW s \in Streams, deltas[s] > 0
  PROVE  IsTail(Whole(s), s) /\ Whole(s) # <<>>
<1>1. deltas[s] \in Nat
  BY StreamsAssumption DEF SendersOK
<1>2. TailFrom(Whole(s), s, 1)
  BY <1>1 DEF TailFrom, Whole
<1>3. 1 \in DOMAIN Whole(s)
  BY <1>1 DEF Whole
<1>. QED  BY <1>2, <1>3 DEF IsTail

\* A tail is a text, is not empty, and is what SubSeq makes of the whole.
LEMMA TailIsText ==
  ASSUME SendersOK, NEW s \in Streams, NEW text, IsTail(text, s)
  PROVE  /\ text \in Texts /\ text # <<>>
         /\ \E k \in 1 .. deltas[s] : text = SubSeq(Whole(s), k, deltas[s])
<1>1. PICK k \in Nat : TailFrom(text, s, k)
  BY DEF IsTail
<1>. DEFINE n == deltas[s]
<1>2. n \in Nat /\ n <= MaxDeltas /\ MaxDeltas \in Nat
  BY StreamsAssumption DEF SendersOK
<1>3. /\ k \in 1 .. n /\ text = [i \in 1 .. n - k + 1 |-> k - 1 + i]
      /\ Whole(s) = [i \in 1 .. n |-> i]
  BY <1>1 DEF TailFrom, Whole
<1>. HIDE DEF n
<1>4. n - k + 1 \in 0 .. MaxDeltas /\ text \in [1 .. n - k + 1 -> 1 .. MaxDeltas]
  BY <1>2, <1>3
<1>5. text \in Texts
  BY <1>4 DEF Texts
<1>6. text # <<>>
  <2>1. 1 \in DOMAIN text
    BY <1>2, <1>3
  <2>. QED  BY <2>1
<1>7. text = SubSeq(Whole(s), k, n)
  BY <1>2, <1>3
<1>. QED  BY <1>3, <1>5, <1>6, <1>7 DEF n

\* One more element of a text.
LEMMA AppendNext ==
  ASSUME NEW n \in Nat, NEW k \in 1 .. n
  PROVE  Append([i \in 1 .. n - k + 1 |-> k - 1 + i], n + 1) = [i \in 1 .. n + 1 - k + 1 |-> k - 1 + i]
<1>. DEFINE m == n - k + 1
            text == [i \in 1 .. m |-> k - 1 + i]
<1>1. m \in Nat /\ n + 1 - k + 1 = m + 1 /\ k - 1 \in Nat /\ n + 1 = k - 1 + (m + 1)
  OBVIOUS
<1>. HIDE DEF m
<1>2. text \in [1 .. m -> Nat] /\ \A i \in 1 .. m : text[i] = k - 1 + i
  BY <1>1
<1>. HIDE DEF text
<1>3. Len(text) = m /\ text \in Seq(Nat)
  BY <1>1, <1>2
<1>4. /\ DOMAIN Append(text, n + 1) = 1 .. m + 1
      /\ \A i \in 1 .. m + 1 : Append(text, n + 1)[i] = k - 1 + i
      /\ Append(text, n + 1) \in Seq(Nat)
  BY <1>1, <1>2, <1>3
<1>5. Append(text, n + 1) = [i \in DOMAIN Append(text, n + 1) |-> Append(text, n + 1)[i]]
  BY <1>4
<1>6. Append(text, n + 1) = [i \in 1 .. m + 1 |-> k - 1 + i]
  BY <1>4, <1>5
<1>. QED  BY <1>1, <1>6 DEF text, m

\* The next delta makes the tail of a longer text of a tail, or of nothing.
LEMMA TailGrows ==
  ASSUME SendersOK, NEW s \in Streams, NEW n \in Nat, deltas[s] = n,
         deltas' = [deltas EXCEPT ![s] = n + 1],
         NEW text, text = <<>> \/ IsTail(text, s)
  PROVE  /\ IsTail(Append(text, n + 1), s)'
         /\ text = Whole(s) => Append(text, n + 1) = Whole(s)'
<1>1. deltas'[s] = n + 1
  BY DEF SendersOK
<1>2. CASE text = <<>>
  <2>1. Append(text, n + 1) = [i \in 1 .. 1 |-> n + i]
    BY <1>2
  <2>2. TailFrom(Append(text, n + 1), s, n + 1)'
    <3>1. (n + 1) - (n + 1) + 1 = 1 /\ n + 1 \in 1 .. n + 1 /\ (n + 1) - 1 = n
      OBVIOUS
    <3>2. Append(text, n + 1) = [i \in 1 .. (n + 1) - (n + 1) + 1 |-> (n + 1) - 1 + i]
      BY <2>1, <3>1
    <3>. QED  BY <1>1, <3>1, <3>2 DEF TailFrom
  <2>3. text = Whole(s) => n = 0
    BY <1>2 DEF Whole
  <2>4. text = Whole(s) => Append(text, n + 1) = Whole(s)'
    BY <1>1, <2>1, <2>3 DEF Whole
  <2>. QED  BY <2>2, <2>4 DEF IsTail
<1>3. CASE IsTail(text, s)
  <2>1. PICK k \in Nat : TailFrom(text, s, k)
    BY <1>3 DEF IsTail
  <2>2. k \in 1 .. n /\ text = [i \in 1 .. n - k + 1 |-> k - 1 + i]
    BY <2>1 DEF TailFrom
  <2>. DEFINE longer == [i \in 1 .. n + 1 - k + 1 |-> k - 1 + i]
  <2>3. Append(text, n + 1) = longer
    BY <2>2, AppendNext
  <2>4. TailFrom(longer, s, k)'
    <3>1. longer = [i \in 1 .. deltas'[s] - k + 1 |-> k - 1 + i] /\ k \in 1 .. deltas'[s]
      BY <1>1, <2>2
    <3>. QED  BY <3>1 DEF TailFrom
  <2>5. text = Whole(s) => longer = Whole(s)'
    <3>. SUFFICES ASSUME text = Whole(s) PROVE longer = Whole(s)'
      OBVIOUS
    <3>1. text[1] = k /\ Whole(s)[1] = 1
      BY <2>2 DEF Whole
    <3>. QED  BY <1>1, <3>1 DEF Whole
  <2>. QED  BY <2>3, <2>4, <2>5 DEF IsTail
<1>. QED  BY <1>2, <1>3

\* What the order is and becomes, one stream being in it at most.
LEMMA ToSetOfOne ==
  /\ ToSet(<<>>) = {}
  /\ \A s : ToSet(<<s>>) = {s}
BY DEF ToSet

LEMMA OrderParts ==
  ASSUME OrderOK
  PROVE  /\ stream_order = <<>> \/ \E s \in Streams : stream_order = <<s>>
         /\ \A s \in DOMAIN stream_buffers :
              s \in Streams /\ stream_order = <<s>> /\ DOMAIN stream_buffers = {s}
<1>1. CASE Len(stream_order) = 0
  <2>1. stream_order = <<>>
    BY <1>1 DEF OrderOK
  <2>. QED  BY <2>1, ToSetOfOne DEF OrderOK
<1>2. CASE Len(stream_order) = 1
  <2>1. PICK s \in Streams : stream_order = <<s>>
    <3>1. stream_order[1] \in Streams /\ DOMAIN stream_order = 1 .. 1
      BY <1>2 DEF OrderOK
    <3>2. stream_order = <<stream_order[1]>>
      BY <1>2, <3>1 DEF OrderOK
    <3>. QED  BY <3>1, <3>2
  <2>. QED  BY <2>1, ToSetOfOne DEF OrderOK
<1>3. Len(stream_order) = 0 \/ Len(stream_order) = 1
  <2>1. PICK n \in Nat : n = Len(stream_order)
    BY DEF OrderOK
  <2>2. n <= 1
    BY <2>1 DEF OrderOK
  <2>3. n = 0 \/ n = 1
    BY <2>2
  <2>. QED  BY <2>1, <2>3
<1>. QED  BY <1>1, <1>2, <1>3

LEMMA UpdateParts ==
  ASSUME OrderOK, NEW s \in Streams, NEW d, UpdateStreamDelta(s, d)
  PROVE  /\ busy' = "Typing" /\ stream_order' = <<s>> /\ DOMAIN stream_buffers' = {s}
         /\ stream_buffers'[s] =
              Append(IF s \in DOMAIN stream_buffers THEN stream_buffers[s] ELSE <<>>, d)
         /\ s \in DOMAIN stream_buffers =>
              DOMAIN stream_buffers = {s} /\ UNCHANGED <<suppressed_streams, disturbed>>
         /\ s \notin DOMAIN stream_buffers =>
              /\ suppressed_streams' = suppressed_streams \cup DOMAIN stream_buffers
              /\ disturbed' = disturbed \cup DOMAIN stream_buffers
<1>. DEFINE gone == Superseded(s)
            kept == Without(stream_buffers, gone)
            old  == IF s \in DOMAIN kept THEN kept[s] ELSE <<>>
            order == IF gone = {} THEN stream_order ELSE <<>>
<1>1. /\ busy' = "Typing"
      /\ stream_buffers' = [t \in DOMAIN kept \cup {s} |->
                              IF t = s THEN Append(old, d) ELSE kept[t]]
      /\ suppressed_streams' = suppressed_streams \cup gone
      /\ disturbed' = disturbed \cup gone
      /\ stream_order' = IF Contains(order, s) THEN order ELSE Append(order, s)
  BY DEF UpdateStreamDelta
<1>2. /\ DOMAIN kept = DOMAIN stream_buffers \ gone
      /\ \A t \in DOMAIN kept : kept[t] = stream_buffers[t]
  BY DEF Without, Restrict
<1>3. Contains(<<s>>, s) /\ ~Contains(<<>>, s) /\ Append(<<>>, s) = <<s>>
  BY DEF Contains
<1>4. CASE s \in DOMAIN stream_buffers
  <2>1. gone = {} /\ stream_order = <<s>> /\ DOMAIN stream_buffers = {s}
    BY <1>4, OrderParts DEF Superseded
  <2>2. order = <<s>> /\ DOMAIN kept = {s} /\ old = stream_buffers[s]
    BY <1>2, <2>1
  <2>. HIDE DEF gone, kept, old, order
  <2>3. DOMAIN stream_buffers' = {s} /\ stream_buffers'[s] = Append(old, d)
    BY <1>1, <2>2
  <2>. QED  BY <1>1, <1>3, <1>4, <2>1, <2>2, <2>3
<1>5. CASE s \notin DOMAIN stream_buffers
  <2>1. gone = DOMAIN stream_buffers /\ order = <<>>
    <3>1. CASE DOMAIN stream_buffers = {}
      <4>1. stream_order = <<>>
        BY <3>1, OrderParts, ToSetOfOne DEF OrderOK
      <4>. QED  BY <3>1, <4>1 DEF Superseded
    <3>2. CASE DOMAIN stream_buffers # {}
      BY <1>5, <3>2 DEF Superseded, OrderOK
    <3>. QED  BY <3>1, <3>2
  <2>2. DOMAIN kept = {} /\ old = <<>>
    BY <1>2, <2>1
  <2>. HIDE DEF gone, kept, old, order
  <2>3. DOMAIN stream_buffers' = {s} /\ stream_buffers'[s] = Append(old, d)
    BY <1>1, <2>2
  <2>. QED  BY <1>1, <1>3, <1>5, <2>1, <2>2, <2>3
<1>. QED  BY <1>4, <1>5

LEMMA CompleteParts ==
  ASSUME OrderOK, NEW s \in Streams, NEW final, NEW reset, CompleteStream(s, final, reset)
  PROVE  /\ busy' \in {"none", busy}
         /\ OrderOK'
         /\ DOMAIN stream_buffers' = DOMAIN stream_buffers \ {s}
         /\ \A t \in DOMAIN stream_buffers' : stream_buffers'[t] = stream_buffers[t]
         /\ suppressed_streams' = suppressed_streams \ {s}
<1>1. /\ stream_buffers' = Without(stream_buffers, {s}) /\ stream_order' = Retained(s)
      /\ suppressed_streams' = suppressed_streams \ {s} /\ busy' \in {"none", busy}
  BY DEF CompleteStream
<1>2. /\ DOMAIN stream_buffers' = DOMAIN stream_buffers \ {s}
      /\ \A t \in DOMAIN stream_buffers' : stream_buffers'[t] = stream_buffers[t]
  BY <1>1 DEF Without, Restrict
<1>3. OrderOK'
  <2>1. CASE stream_order = <<>>
    <3>1. stream_order' = <<>>
      BY <1>1, <2>1 DEF Retained, Contains
    <3>. QED  BY <1>2, <2>1, <3>1, ToSetOfOne DEF OrderOK
  <2>2. ASSUME NEW t \in Streams, stream_order = <<t>> PROVE OrderOK'
    <3>1. DOMAIN stream_buffers = {t}
      BY <2>2, ToSetOfOne DEF OrderOK
    <3>2. CASE t = s
      <4>1. Contains(stream_order, s) /\ (CHOOSE i \in DOMAIN stream_order : stream_order[i] = s) = 1
        <5>1. DOMAIN stream_order = {1} /\ stream_order[1] = s /\ Len(stream_order) = 1
          BY <2>2, <3>2
        <5>. QED  BY <5>1 DEF Contains
      <4>2. RemoveAt(stream_order, 1) = <<>>
        BY <2>2 DEF RemoveAt
      <4>3. stream_order' = <<>>
        BY <1>1, <4>1, <4>2 DEF Retained
      <4>. QED  BY <1>2, <3>1, <3>2, <4>3, ToSetOfOne DEF OrderOK
    <3>3. CASE t # s
      <4>1. stream_order' = stream_order
        BY <1>1, <2>2, <3>3 DEF Retained, Contains
      <4>. QED  BY <1>2, <2>2, <3>1, <3>3, <4>1, ToSetOfOne DEF OrderOK
    <3>. QED  BY <3>2, <3>3
  <2>. QED  BY <2>1, <2>2, OrderParts
<1>. QED  BY <1>1, <1>2, <1>3

-----------------------------------------------------------------------------
(* Every step keeps the invariant *)

LEMMA InitInv == Init => IInv
<1>. SUFFICES ASSUME Init PROVE IInv
  OBVIOUS
<1>1. /\ deltas = [s \in Streams |-> 0] /\ ended = [s \in Streams |-> "not"]
      /\ seen_inner_ids = {} /\ busy = "none" /\ stream_buffers = <<>> /\ stream_order = <<>>
      /\ suppressed_streams = {} /\ shown = <<>> /\ disturbed = {} /\ DOMAIN <<>> = {}
  BY DEF Init
<1>2. SendersOK
  BY <1>1, StreamsAssumption DEF SendersOK
<1>3. OrderOK
  BY <1>1, ToSetOfOne DEF OrderOK
<1>4. BuffersOK /\ StartedOK /\ ShownOK /\ UndisturbedIsShown
  BY <1>1, <1>2 DEF BuffersOK, StartedOK, ShownOK, UndisturbedIsShown, Shown, SendersOK
<1>. QED  BY <1>1, <1>2, <1>3, <1>4 DEF IInv

\* What UndisturbedIsShown says, by cases.
LEMMA UndisturbedByCases ==
  UndisturbedIsShown <=>
    \A s \in Streams \ (Legacy \cup disturbed) :
      /\ ended[s] \in {"text", "empty"} =>
           \E i \in DOMAIN shown : Shown(s) = {i} /\ shown[i].text = Whole(s)
      /\ ended[s] \notin {"text", "empty"} => Shown(s) = {}
BY DEF UndisturbedIsShown

\* The transcript's replies are of streams.
LEMMA ShownStream ==
  ASSUME ShownOK, NEW i \in DOMAIN shown
  PROVE  shown[i].stream \in Streams
<1>. DEFINE Replies == [stream : Streams, text : Texts]
<1>1. shown \in Seq(Replies)
  BY DEF ShownOK
<1>. HIDE DEF Replies
<1>2. shown[i] \in Replies
  BY <1>1
<1>. QED  BY <1>2 DEF Replies

\* A delta changes nothing of the streams that ended.
LEMMA DeltaShown ==
  ASSUME IInv, NEW s \in Streams, Delta(s)
  PROVE  ShownOK' /\ UndisturbedIsShown'
<1>1. /\ ended[s] = "not" /\ deltas' = [deltas EXCEPT ![s] = deltas[s] + 1]
      /\ UNCHANGED <<ended, shown>>
  BY DEF Delta
<1>2. disturbed \subseteq disturbed'
  BY <1>1 DEF Delta, UpdateStreamDelta
<1>3. \A t \in Streams : ended[t] # "not" => deltas'[t] = deltas[t]
  BY <1>1 DEF IInv, SendersOK
<1>4. ShownOK'
  <2>. SUFFICES ASSUME NEW i \in DOMAIN shown
                PROVE  /\ shown[i].stream \notin Legacy
                       /\ ended[shown[i].stream] # "not"
                       /\ ended[shown[i].stream] = "text" => shown[i].text = Whole(shown[i].stream)'
                       /\ IsTail(shown[i].text, shown[i].stream)'
    BY <1>1 DEF ShownOK, IInv
  <2>1. shown[i].stream \in Streams
    BY ShownStream DEF IInv
  <2>2. deltas'[shown[i].stream] = deltas[shown[i].stream]
    BY <1>3, <2>1 DEF IInv, ShownOK
  <2>. QED  BY <1>1, <2>2 DEF IInv, ShownOK, Whole, IsTail, TailFrom
<1>5. UndisturbedIsShown'
  <2>. SUFFICES ASSUME NEW t \in Streams \ (Legacy \cup disturbed')
                PROVE  /\ ended[t] \in {"text", "empty"} =>
                            \E i \in DOMAIN shown : Shown(t) = {i} /\ shown[i].text = Whole(t)'
                       /\ ended[t] \notin {"text", "empty"} => Shown(t) = {}
    BY <1>1 DEF UndisturbedIsShown, Shown
  <2>1. t \in Streams \ (Legacy \cup disturbed)
    BY <1>2
  <2>2. ended[t] \in {"text", "empty"} => Whole(t)' = Whole(t)
    BY <1>3 DEF Whole
  <2>. QED  BY <2>1, <2>2, UndisturbedByCases DEF IInv
<1>. QED  BY <1>4, <1>5

LEMMA DeltaSenders ==
  ASSUME IInv, NEW s \in Streams, Delta(s)
  PROVE  SendersOK' /\ busy' \in {"none", "Thinking", "Typing"}
<1>1. /\ deltas[s] < MaxDeltas /\ deltas' = [deltas EXCEPT ![s] = deltas[s] + 1]
      /\ UNCHANGED ended
  BY DEF Delta
<1>2. /\ deltas \in [Streams -> 0 .. MaxDeltas] /\ MaxDeltas \in Nat /\ Legacy \subseteq Streams
      /\ ended \in [Streams -> {"not", "text", "empty", "reset"}] /\ seen_inner_ids \subseteq Legacy
      /\ \A t \in Streams : ended[t] # "not" => deltas[t] > 0
      /\ \A t \in Legacy : deltas[t] > 0 => t \in seen_inner_ids
  BY StreamsAssumption DEF IInv, SendersOK
<1>3. /\ deltas' \in [Streams -> 0 .. MaxDeltas]
      /\ \A t \in Streams : deltas[t] > 0 => deltas'[t] > 0
      /\ \A t \in Streams \ {s} : deltas'[t] = deltas[t]
  BY <1>1, <1>2
<1>4. CASE Dropped(s)
  <2>1. UNCHANGED <<seen_inner_ids, renderVars>> /\ s \in seen_inner_ids
    BY <1>4 DEF Delta, Dropped
  <2>. QED  BY <1>1, <1>2, <1>3, <2>1 DEF SendersOK, renderVars, IInv
<1>5. CASE ~Dropped(s)
  <2>1. seen_inner_ids' = seen_inner_ids \cup ({s} \cap Legacy) /\ busy' = "Typing"
    BY <1>5 DEF Delta, UpdateStreamDelta
  <2>. QED  BY <1>1, <1>2, <1>3, <2>1 DEF SendersOK
<1>. QED  BY <1>4, <1>5

LEMMA DeltaBuffers ==
  ASSUME IInv, NEW s \in Streams, Delta(s)
  PROVE  OrderOK' /\ BuffersOK' /\ StartedOK'
<1>1. /\ ended[s] = "not" /\ deltas' = [deltas EXCEPT ![s] = deltas[s] + 1]
      /\ UNCHANGED ended /\ deltas[s] < MaxDeltas
  BY DEF Delta
<1>2. SendersOK /\ OrderOK /\ BuffersOK /\ StartedOK
  BY DEF IInv
<1>3. PICK n \in Nat : deltas[s] = n
  BY <1>2 DEF SendersOK
<1>4. deltas'[s] = n + 1 /\ \A t \in Streams \ {s} : deltas'[t] = deltas[t]
  BY <1>1, <1>2, <1>3 DEF SendersOK
<1>5. CASE Dropped(s)
  <2>1. /\ UNCHANGED <<seen_inner_ids, stream_buffers, stream_order, suppressed_streams, disturbed>>
        /\ s \in Legacy
    BY <1>5 DEF Delta, Dropped, renderVars
  <2>2. BuffersOK'
    <3>. SUFFICES ASSUME NEW t \in DOMAIN stream_buffers
                  PROVE  IF t \in Legacy
                           THEN t \in seen_inner_ids /\ stream_buffers[t] = <<1>> /\ MaxDeltas > 0
                           ELSE /\ ended[t] = "not"
                                /\ IsTail(stream_buffers[t], t)'
                                /\ t \notin disturbed => stream_buffers[t] = Whole(t)'
      BY <1>1, <2>1 DEF BuffersOK
    <3>1. t \in Streams
      BY <1>2, OrderParts
    <3>2. t \notin Legacy => deltas'[t] = deltas[t]
      BY <1>4, <2>1, <3>1
    <3>. QED  BY <1>2, <2>1, <3>2 DEF BuffersOK, IsTail, TailFrom, Whole
  <2>3. OrderOK'
    BY <1>2, <2>1 DEF OrderOK
  <2>4. StartedOK'
    BY <1>1, <1>2, <1>4, <2>1 DEF StartedOK
  <2>. QED  BY <2>2, <2>3, <2>4
<1>6. CASE ~Dropped(s)
  <2>0. PICK old : old = IF s \in DOMAIN stream_buffers THEN stream_buffers[s] ELSE <<>>
    OBVIOUS
  <2>1. UpdateStreamDelta(s, n + 1) /\ seen_inner_ids' = seen_inner_ids \cup ({s} \cap Legacy)
    BY <1>4, <1>6 DEF Delta
  <2>2. /\ stream_order' = <<s>> /\ DOMAIN stream_buffers' = {s}
        /\ stream_buffers'[s] = Append(old, n + 1)
        /\ s \in DOMAIN stream_buffers =>
              DOMAIN stream_buffers = {s} /\ UNCHANGED <<suppressed_streams, disturbed>>
        /\ s \notin DOMAIN stream_buffers =>
              /\ suppressed_streams' = suppressed_streams \cup DOMAIN stream_buffers
              /\ disturbed' = disturbed \cup DOMAIN stream_buffers
    BY <1>2, <2>0, <2>1, UpdateParts
  <2>3. OrderOK'
    BY <2>2, ToSetOfOne DEF OrderOK
  <2>4. DOMAIN stream_buffers \subseteq Streams
    BY <1>2, OrderParts
  <2>5. StartedOK'
    BY <1>1, <1>2, <1>4, <2>2, <2>4 DEF StartedOK
  <2>6. s \in Legacy => s \in seen_inner_ids' /\ stream_buffers'[s] = <<1>> /\ MaxDeltas > 0
    <3>. SUFFICES ASSUME s \in Legacy
                  PROVE  s \in seen_inner_ids' /\ stream_buffers'[s] = <<1>> /\ MaxDeltas > 0
      OBVIOUS
    <3>1. s \notin seen_inner_ids
      BY <1>6 DEF Dropped
    <3>2. n = 0
      BY <1>2, <1>3, <3>1 DEF SendersOK
    <3>3. s \notin DOMAIN stream_buffers
      BY <1>2, <3>1 DEF BuffersOK
    <3>4. old = <<>> /\ Append(<<>>, 1) = <<1>>
      BY <2>0, <3>3
    <3>5. stream_buffers'[s] = <<1>>
      BY <2>2, <3>2, <3>4
    <3>6. MaxDeltas > 0
      BY <1>1, <1>3, <3>2, StreamsAssumption
    <3>. QED  BY <2>1, <3>5, <3>6
  <2>7. s \notin Legacy => /\ IsTail(stream_buffers[s], s)'
                           /\ s \notin disturbed' => stream_buffers'[s] = Whole(s)'
    <3>. SUFFICES ASSUME s \notin Legacy
                  PROVE  /\ IsTail(Append(old, n + 1), s)'
                         /\ s \notin disturbed' => Append(old, n + 1) = Whole(s)'
      BY <2>2
    <3>1. old = <<>> \/ IsTail(old, s)
      BY <1>2, <2>0 DEF BuffersOK
    <3>2. s \notin disturbed' => old = Whole(s)
      <4>. SUFFICES ASSUME s \notin disturbed' PROVE old = Whole(s)
        OBVIOUS
      <4>1. s \notin disturbed
        BY <2>2
      <4>2. CASE s \in DOMAIN stream_buffers
        BY <1>2, <2>0, <4>1, <4>2 DEF BuffersOK
      <4>3. CASE s \notin DOMAIN stream_buffers
        <5>1. n = 0
          BY <1>1, <1>2, <1>3, <4>1, <4>3 DEF StartedOK
        <5>. QED  BY <1>3, <2>0, <4>3, <5>1 DEF Whole
      <4>. QED  BY <4>2, <4>3
    <3>3. deltas' = [deltas EXCEPT ![s] = n + 1]
      BY <1>1, <1>3
    <3>. QED  BY <1>2, <1>3, <3>1, <3>2, <3>3, TailGrows
  <2>8. BuffersOK'
    <3>1. ended'[s] = "not"
      BY <1>1
    <3>. QED  BY <2>2, <2>6, <2>7, <3>1 DEF BuffersOK
  <2>. QED  BY <2>3, <2>5, <2>8
<1>. QED  BY <1>5, <1>6

LEMMA DeltaInv ==
  ASSUME IInv, NEW s \in Streams, Delta(s)
  PROVE  IInv'
BY DeltaSenders, DeltaBuffers, DeltaShown DEF IInv

\* What complete_stream pushes: nothing, or the text or the tail it has of the
\* reply, and the whole reply, unless that was reset, when nothing disturbed it.
LEMMA EndPushes ==
  ASSUME IInv, NEW s \in Streams, NEW how \in {"text", "empty", "reset"}, End(s, how), ~Dropped(s)
  PROVE  /\ s \notin Legacy
         /\ \/ shown' = shown
            \/ \E text : /\ IsTail(text, s) /\ shown' = Append(shown, [stream |-> s, text |-> text])
                         /\ how = "text" => text = Whole(s)
         /\ s \notin disturbed =>
              IF how = "reset" THEN shown' = shown
                ELSE shown' = Append(shown, [stream |-> s, text |-> Whole(s)])
<1>. DEFINE final == IF how = "text" THEN Whole(s) ELSE <<>>
            reset == how = "reset"
            text == IF final # <<>> THEN final
                    ELSE IF s \in DOMAIN stream_buffers THEN stream_buffers[s] ELSE <<>>
<1>1. /\ ended[s] = "not" /\ deltas[s] > 0 /\ CompleteStream(s, final, reset)
  BY DEF End
<1>2. shown' = IF ~reset /\ s \notin suppressed_streams /\ text # <<>>
                 THEN Append(shown, [stream |-> s, text |-> text]) ELSE shown
  BY <1>1 DEF CompleteStream
<1>3. SendersOK /\ BuffersOK /\ StartedOK
  BY DEF IInv
<1>4. s \notin Legacy
  BY <1>1, <1>3 DEF SendersOK, Dropped
<1>5. IsTail(Whole(s), s) /\ Whole(s) # <<>>
  BY <1>1, <1>3, WholeIsTail
<1>6. s \in DOMAIN stream_buffers => IsTail(stream_buffers[s], s)
  BY <1>3, <1>4 DEF BuffersOK
<1>7. text = <<>> \/ IsTail(text, s)
  BY <1>5, <1>6
<1>8. how = "text" => text = Whole(s)
  BY <1>5
<1>9. s \notin disturbed /\ how # "reset" =>
        text = Whole(s) /\ s \notin suppressed_streams /\ ~reset /\ text # <<>>
  BY <1>1, <1>3, <1>4, <1>5 DEF StartedOK, BuffersOK
<1>10. how = "reset" => shown' = shown
  BY <1>2
<1>. HIDE DEF text, reset
<1>. QED  BY <1>2, <1>4, <1>7, <1>8, <1>9, <1>10

LEMMA EndBuffers ==
  ASSUME IInv, NEW s \in Streams, NEW how \in {"text", "empty", "reset"}, End(s, how)
  PROVE  /\ SendersOK' /\ busy' \in {"none", "Thinking", "Typing"}
         /\ OrderOK' /\ BuffersOK' /\ StartedOK'
<1>1. /\ ended[s] = "not" /\ deltas[s] > 0 /\ ended' = [ended EXCEPT ![s] = how]
      /\ UNCHANGED <<deltas, disturbed>>
  BY DEF End
<1>2. SendersOK /\ OrderOK /\ BuffersOK /\ StartedOK /\ busy \in {"none", "Thinking", "Typing"}
  BY DEF IInv
<1>3. ended'[s] = how /\ \A t \in Streams \ {s} : ended'[t] = ended[t]
  BY <1>1, <1>2 DEF SendersOK
<1>5. CASE Dropped(s)
  <2>1. s \in Legacy /\ UNCHANGED <<seen_inner_ids, stream_buffers, stream_order, suppressed_streams, busy>>
    BY <1>5 DEF End, Dropped, renderVars
  <2>2. SendersOK'
    BY <1>1, <1>2, <1>3, <2>1 DEF SendersOK
  <2>3. BuffersOK'
    <3>1. \A t \in DOMAIN stream_buffers : t \in Streams
      BY <1>2, OrderParts
    <3>2. \A t \in DOMAIN stream_buffers : t \notin Legacy => ended'[t] = ended[t]
      BY <1>3, <2>1, <3>1
    <3>. QED  BY <1>1, <1>2, <2>1, <3>2 DEF BuffersOK, IsTail, TailFrom, Whole
  <2>4. OrderOK' /\ StartedOK'
    BY <1>1, <1>2, <1>3, <2>1 DEF OrderOK, StartedOK
  <2>. QED  BY <1>2, <2>1, <2>2, <2>3, <2>4
<1>6. CASE ~Dropped(s)
  <2>1. s \notin Legacy
    BY <1>6, EndPushes
  <2>2. /\ seen_inner_ids' = seen_inner_ids \cup ({s} \cap Legacy)
        /\ CompleteStream(s, IF how = "text" THEN Whole(s) ELSE <<>>, how = "reset")
    BY <1>6 DEF End
  <2>3. /\ busy' \in {"none", busy} /\ OrderOK'
        /\ DOMAIN stream_buffers' = DOMAIN stream_buffers \ {s}
        /\ \A t \in DOMAIN stream_buffers' : stream_buffers'[t] = stream_buffers[t]
        /\ suppressed_streams' = suppressed_streams \ {s}
    BY <1>2, <2>2, CompleteParts
  <2>4. UNCHANGED seen_inner_ids
    BY <2>1, <2>2
  <2>5. SendersOK'
    BY <1>1, <1>2, <1>3, <2>4 DEF SendersOK
  <2>6. BuffersOK'
    <3>1. \A t \in DOMAIN stream_buffers' : t \in DOMAIN stream_buffers /\ t \in Streams \ {s}
      BY <1>2, <2>3, OrderParts
    <3>. QED  BY <1>1, <1>2, <1>3, <2>3, <2>4, <3>1 DEF BuffersOK, IsTail, TailFrom, Whole
  <2>7. StartedOK'
    BY <1>1, <1>2, <1>3, <2>3 DEF StartedOK
  <2>8. busy' \in {"none", "Thinking", "Typing"}
    BY <1>2, <2>3
  <2>. QED  BY <2>3, <2>5, <2>6, <2>7, <2>8
<1>. QED  BY <1>5, <1>6

\* Pushing a reply of s.
LEMMA PushedOne ==
  ASSUME ShownOK, NEW s \in Streams, NEW text \in Texts,
         shown' = Append(shown, [stream |-> s, text |-> text])
  PROVE  /\ shown' \in Seq([stream : Streams, text : Texts])
         /\ DOMAIN shown' = DOMAIN shown \cup {Len(shown) + 1}
         /\ Len(shown) + 1 \notin DOMAIN shown
         /\ \A i \in DOMAIN shown : shown'[i] = shown[i]
         /\ shown'[Len(shown) + 1].stream = s /\ shown'[Len(shown) + 1].text = text
<1>. DEFINE Replies == [stream : Streams, text : Texts]
<1>1. PICK r \in Replies : r = [stream |-> s, text |-> text]
  OBVIOUS
<1>2. shown \in Seq(Replies)
  BY DEF ShownOK
<1>. HIDE DEF Replies
<1>3. shown' = Append(shown, r)
  BY <1>1
<1>4. /\ shown' \in Seq(Replies) /\ DOMAIN shown' = DOMAIN shown \cup {Len(shown) + 1}
      /\ Len(shown) + 1 \notin DOMAIN shown /\ shown'[Len(shown) + 1] = r
      /\ \A i \in DOMAIN shown : shown'[i] = shown[i]
  BY <1>2, <1>3
<1>. QED  BY <1>1, <1>4 DEF Replies

LEMMA EndShown ==
  ASSUME IInv, NEW s \in Streams, NEW how \in {"text", "empty", "reset"}, End(s, how)
  PROVE  ShownOK'
<1>1. /\ ended[s] = "not" /\ deltas[s] > 0 /\ ended' = [ended EXCEPT ![s] = how]
      /\ UNCHANGED <<deltas, disturbed>>
  BY DEF End
<1>2. SendersOK /\ ShownOK
  BY DEF IInv
<1>3. ended'[s] = how /\ \A t \in Streams \ {s} : ended'[t] = ended[t]
  BY <1>1, <1>2 DEF SendersOK
<1>4. \A i \in DOMAIN shown : shown[i].stream \in Streams \ {s}
  BY <1>1, <1>2, ShownStream DEF ShownOK
<1>5. CASE shown' = shown
  BY <1>1, <1>2, <1>3, <1>4, <1>5 DEF ShownOK, Whole, IsTail, TailFrom
<1>6. ASSUME NEW text, IsTail(text, s), shown' = Append(shown, [stream |-> s, text |-> text]),
             how = "text" => text = Whole(s), s \notin Legacy
      PROVE  ShownOK'
  <2>1. text \in Texts
    BY <1>2, <1>6, TailIsText
  <2>. DEFINE last == Len(shown) + 1
  <2>2. /\ shown' \in Seq([stream : Streams, text : Texts])
        /\ DOMAIN shown' = DOMAIN shown \cup {last}
        /\ \A i \in DOMAIN shown : shown'[i] = shown[i]
        /\ shown'[last].stream = s /\ shown'[last].text = text
    BY <1>2, <1>6, <2>1, PushedOne
  <2>. HIDE DEF last
  <2>3. ASSUME NEW i \in DOMAIN shown'
        PROVE  /\ shown'[i].stream \notin Legacy
               /\ ended'[shown'[i].stream] # "not"
               /\ ended'[shown'[i].stream] = "text" => shown'[i].text = Whole(shown[i].stream)'
               /\ IsTail(shown[i].text, shown[i].stream)'
    <3>1. CASE i \in DOMAIN shown
      <4>1. shown'[i] = shown[i] /\ ended'[shown[i].stream] = ended[shown[i].stream]
        BY <1>3, <1>4, <2>2, <3>1
      <4>. QED  BY <1>1, <1>2, <3>1, <4>1 DEF ShownOK, Whole, IsTail, TailFrom
    <3>2. CASE i = last
      BY <1>1, <1>3, <1>6, <2>2, <3>2 DEF Whole, IsTail, TailFrom
    <3>. QED  BY <2>2, <3>1, <3>2
  <2>. QED  BY <2>2, <2>3 DEF ShownOK
<1>7. CASE Dropped(s)
  BY <1>5, <1>7 DEF End
<1>8. CASE ~Dropped(s)
  BY <1>5, <1>6, <1>8, EndPushes
<1>. QED  BY <1>7, <1>8

LEMMA EndUndisturbed ==
  ASSUME IInv, NEW s \in Streams, NEW how \in {"text", "empty", "reset"}, End(s, how)
  PROVE  UndisturbedIsShown'
<1>1. /\ ended[s] = "not" /\ deltas[s] > 0 /\ ended' = [ended EXCEPT ![s] = how]
      /\ UNCHANGED <<deltas, disturbed>>
  BY DEF End
<1>2. SendersOK /\ ShownOK /\ UndisturbedIsShown
  BY DEF IInv
<1>3. ended'[s] = how /\ \A t \in Streams \ {s} : ended'[t] = ended[t]
  BY <1>1, <1>2 DEF SendersOK
<1>4. \A t : Whole(t)' = Whole(t)
  BY <1>1 DEF Whole
<1>. SUFFICES ASSUME NEW t \in Streams \ (Legacy \cup disturbed)
              PROVE  /\ ended'[t] \in {"text", "empty"} =>
                          \E i \in DOMAIN shown' : Shown(t)' = {i} /\ shown'[i].text = Whole(t)
                     /\ ended'[t] \notin {"text", "empty"} => Shown(t)' = {}
  BY <1>1, <1>4 DEF UndisturbedIsShown
<1>5. /\ ended[t] \in {"text", "empty"} =>
           \E i \in DOMAIN shown : Shown(t) = {i} /\ shown[i].text = Whole(t)
      /\ ended[t] \notin {"text", "empty"} => Shown(t) = {}
  BY <1>2, UndisturbedByCases
<1>6. CASE t # s /\ shown' = shown
  BY <1>3, <1>5, <1>6 DEF Shown
<1>7. ASSUME t # s, NEW text, IsTail(text, s), shown' = Append(shown, [stream |-> s, text |-> text])
      PROVE  /\ ended'[t] \in {"text", "empty"} =>
                  \E i \in DOMAIN shown' : Shown(t)' = {i} /\ shown'[i].text = Whole(t)
             /\ ended'[t] \notin {"text", "empty"} => Shown(t)' = {}
  <2>1. text \in Texts
    BY <1>2, <1>7, TailIsText
  <2>2. /\ DOMAIN shown' = DOMAIN shown \cup {Len(shown) + 1}
        /\ \A i \in DOMAIN shown : shown'[i] = shown[i]
        /\ shown'[Len(shown) + 1].stream = s
    BY <1>2, <1>7, <2>1, PushedOne
  <2>3. Shown(t)' = Shown(t)
    BY <1>7, <2>2 DEF Shown
  <2>. QED  BY <1>3, <1>5, <1>7, <2>2, <2>3
<1>8. CASE t = s
  <2>1. ~Dropped(s) /\ Shown(s) = {}
    BY <1>1, <1>5, <1>8 DEF Dropped
  <2>2. IF how = "reset" THEN shown' = shown
          ELSE shown' = Append(shown, [stream |-> s, text |-> Whole(s)])
    BY <1>8, <2>1, EndPushes
  <2>3. CASE how = "reset"
    BY <1>3, <1>8, <2>1, <2>2, <2>3 DEF Shown
  <2>4. CASE how # "reset"
    <3>1. Whole(s) \in Texts
      BY <1>1, <1>2, WholeIsTail, TailIsText
    <3>. DEFINE last == Len(shown) + 1
    <3>2. shown' = Append(shown, [stream |-> s, text |-> Whole(s)])
      BY <2>2, <2>4
    <3>3. /\ DOMAIN shown' = DOMAIN shown \cup {last} /\ last \notin DOMAIN shown
          /\ \A i \in DOMAIN shown : shown'[i] = shown[i]
          /\ shown'[last].stream = s /\ shown'[last].text = Whole(s)
      BY <1>2, <3>1, <3>2, PushedOne
    <3>. HIDE DEF last
    <3>4. Shown(s)' = {last}
      BY <2>1, <3>3 DEF Shown
    <3>. QED  BY <1>3, <1>8, <2>4, <3>3, <3>4
  <2>. QED  BY <2>3, <2>4
<1>9. CASE t # s
  <2>1. \/ shown' = shown
        \/ \E text : IsTail(text, s) /\ shown' = Append(shown, [stream |-> s, text |-> text])
    <3>1. CASE Dropped(s)
      BY <3>1 DEF End
    <3>2. CASE ~Dropped(s)
      BY <3>2, EndPushes
    <3>. QED  BY <3>1, <3>2
  <2>. QED  BY <1>6, <1>7, <1>9, <2>1
<1>. QED  BY <1>8, <1>9

LEMMA EndInv ==
  ASSUME IInv, NEW s \in Streams, NEW how \in {"text", "empty", "reset"}, End(s, how)
  PROVE  IInv'
BY EndBuffers, EndShown, EndUndisturbed DEF IInv

\* A step that leaves the streams alone.
LEMMA BusyInv ==
  ASSUME IInv, busy' \in {"none", "Thinking", "Typing"},
         UNCHANGED <<deltas, ended, seen_inner_ids, stream_buffers, stream_order,
                     suppressed_streams, shown, disturbed>>
  PROVE  IInv'
<1>1. SendersOK' /\ OrderOK' /\ StartedOK'
  BY DEF IInv, SendersOK, OrderOK, StartedOK
<1>2. BuffersOK' /\ ShownOK'
  BY DEF IInv, BuffersOK, ShownOK, IsTail, TailFrom, Whole
<1>3. UndisturbedIsShown'
  BY DEF IInv, UndisturbedIsShown, Shown, Whole
<1>. QED  BY <1>1, <1>2, <1>3 DEF IInv

LEMMA ReconnectInv ==
  ASSUME IInv, TakeReconnecting
  PROVE  IInv'
<1>1. /\ busy' = "none" /\ stream_buffers' = << >> /\ stream_order' = <<>>
      /\ suppressed_streams' = {} /\ disturbed' = disturbed \cup DOMAIN stream_buffers
      /\ UNCHANGED <<deltas, ended, seen_inner_ids, shown>>
  BY DEF TakeReconnecting
<1>2. DOMAIN stream_buffers' = {}
  BY <1>1
<1>3. SendersOK' /\ OrderOK' /\ BuffersOK'
  BY <1>1, <1>2, ToSetOfOne DEF IInv, SendersOK, OrderOK, BuffersOK
<1>4. StartedOK'
  <2>1. DOMAIN stream_buffers \subseteq Streams
    BY OrderParts DEF IInv
  <2>. QED  BY <1>1, <2>1 DEF IInv, StartedOK
<1>5. ShownOK'
  BY <1>1 DEF IInv, ShownOK, IsTail, TailFrom, Whole
<1>6. UndisturbedIsShown'
  BY <1>1 DEF IInv, UndisturbedIsShown, Shown, Whole
<1>. QED  BY <1>1, <1>3, <1>4, <1>5, <1>6 DEF IInv

LEMMA StepInv == IInv /\ [Next]_vars => IInv'
<1>. SUFFICES ASSUME IInv, [Next]_vars PROVE IInv'
  OBVIOUS
<1>1. ASSUME NEW s \in Streams, Delta(s) PROVE IInv'
  BY <1>1, DeltaInv
<1>2. ASSUME NEW s \in Streams, NEW how \in {"text", "empty", "reset"}, End(s, how) PROVE IInv'
  BY <1>2, EndInv
<1>3. ASSUME NEW phase \in {"Thinking", "Typing"}, SetBusyPhase(phase) PROVE IInv'
  BY <1>3, BusyInv DEF SetBusyPhase
<1>4. CASE ClearBusy
  BY <1>4, BusyInv DEF ClearBusy
<1>5. CASE TakeReconnecting
  BY <1>5, ReconnectInv
<1>6. CASE UNCHANGED vars
  <2>1. /\ busy' \in {"none", "Thinking", "Typing"}
        /\ UNCHANGED <<deltas, ended, seen_inner_ids, stream_buffers, stream_order,
                     suppressed_streams, shown, disturbed>>
    BY <1>6 DEF vars, renderVars, IInv
  <2>. QED  BY <2>1, BusyInv
<1>. QED  BY <1>1, <1>2, <1>3, <1>4, <1>5, <1>6 DEF Next

LEMMA SpecInv == Spec => []IInv
BY InitInv, StepInv, PTL DEF Spec

-----------------------------------------------------------------------------
(* What the runs check *)

\* ChatRenderState keeps one buffer at most, with the texts and the phases of its
\* type, whatever the senders and the transport do.
THEOREM TypeCorrect == Spec => []TypeOK
<1>1. IInv => TypeOK
  <2>. SUFFICES ASSUME IInv PROVE TypeOK
    OBVIOUS
  <2>1. \A s \in DOMAIN stream_buffers : s \in Streams /\ stream_buffers[s] \in Texts
    <3>. SUFFICES ASSUME NEW s \in DOMAIN stream_buffers
                  PROVE  s \in Streams /\ stream_buffers[s] \in Texts
      OBVIOUS
    <3>1. s \in Streams
      BY OrderParts DEF IInv
    <3>2. CASE s \in Legacy
      <4>1. stream_buffers[s] = <<1>> /\ MaxDeltas > 0 /\ MaxDeltas \in Nat
        BY <3>2, StreamsAssumption DEF IInv, BuffersOK
      <4>2. <<1>> \in [1 .. 1 -> 1 .. MaxDeltas] /\ 1 \in 0 .. MaxDeltas
        BY <4>1
      <4>. QED  BY <3>1, <4>1, <4>2 DEF Texts
    <3>3. CASE s \notin Legacy
      BY <3>1, <3>3, TailIsText DEF IInv, BuffersOK
    <3>. QED  BY <3>2, <3>3
  <2>2. suppressed_streams \subseteq Streams /\ disturbed \subseteq Streams
    BY DEF IInv, StartedOK
  <2>. QED  BY <2>1, <2>2 DEF IInv, SendersOK, OrderOK, ShownOK, TypeOK
<1>. QED  BY <1>1, SpecInv, PTL

\* A reply that no other stream and no reconnect disturbed is in the transcript
\* once and whole after its text_end, and not at all when that was a reset.
THEOREM UndisturbedIsShownAlways == Spec => []UndisturbedIsShown
<1>1. IInv => UndisturbedIsShown
  BY DEF IInv
<1>. QED  BY <1>1, SpecInv, PTL

\* What complete_stream pushed is the text of its text_end or, when that had
\* none, what the sender had sent from some delta on.
THEOREM ShownIsTailAlways == Spec => []ShownIsTail
<1>1. IInv => ShownIsTail
  <2>. SUFFICES ASSUME IInv, NEW i \in DOMAIN shown
                PROVE  LET s == shown[i].stream IN
                       IF ended[s] = "text"
                         THEN shown[i].text = Whole(s)
                         ELSE s \in Streams \ Legacy =>
                                \E k \in 1 .. deltas[s] :
                                  shown[i].text = SubSeq(Whole(s), k, deltas[s])
    BY DEF ShownIsTail
  <2>1. shown[i].stream \in Streams
    BY ShownStream DEF IInv
  <2>2. IsTail(shown[i].text, shown[i].stream)
    BY DEF IInv, ShownOK
  <2>3. \E k \in 1 .. deltas[shown[i].stream] :
          shown[i].text = SubSeq(Whole(shown[i].stream), k, deltas[shown[i].stream])
    BY <2>1, <2>2, TailIsText DEF IInv
  <2>. QED  BY <2>3 DEF IInv, ShownOK
<1>. QED  BY <1>1, SpecInv, PTL

=============================================================================
