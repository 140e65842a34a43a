-------------------------- MODULE SendCommandProofs --------------------------
(***************************************************************************)
(* Proofs about SendCommand, for every number of requests and deltas: the  *)
(* reply that is printed is whole, and answers the message when nothing    *)
(* disturbed the drain.                                                    *)
(***************************************************************************)
EXTENDS SendCommand, TLAPS

-----------------------------------------------------------------------------
(* The inductive invariant *)

\* What the command has still to take, in this order.
Coming == events \o frames

\* What the text of r becomes by event e.
Effect(e, r, text) ==
  IF e \notin Replies \/ e.of # r \/ e.t = "end" THEN text
  ELSE CASE e.t = "reset" -> <<>>
         [] e.t = "text"  -> e.text
         [] OTHER         -> text \o e.text

\* The texts v of r one after the other while the events of q are taken.
Reading(v, q, r, first, last) ==
  /\ v \in [1 .. Len(q) + 1 -> Texts]
  /\ v[1] = first /\ v[Len(q) + 1] = last
  /\ \A i \in 1 .. Len(q) :
       /\ v[i + 1] = Effect(q[i], r, v[i])
       /\ q[i] \in Replies /\ q[i].of = r /\ q[i].t = "end" => v[i] = last

\* Who takes q with text first of r ends with text last, and has had it when the
\* end of r came.
Reads(q, r, first, last) == \E v : Reading(v, q, r, first, last)

\* The reply has been sent to its end.
Over(r) == r \in begun /\ (turn # r \/ ended)

DataOK ==
  /\ phase \in {"drain", "idle", "wait", "replied", "failed", "timedout"}
  /\ last_status \in Busy \cup {"idle", "none"}
  /\ stale \subseteq Requests
  /\ buffers \in [Requests -> Texts]
  /\ outbound \in Tracker
  /\ reply \in [of : Requests \cup {Nobody}, text : Texts]
  /\ frames \in Seq(Events) /\ events \in Seq(Events)
  /\ message \in {"unsent", "queued", "left", "lost"}
  /\ used \in [drops : 0 .. MaxDrops, failures : 0 .. MaxFailures]

FlagsOK == link \in BOOLEAN /\ ended \in BOOLEAN /\ disturbed \in BOOLEAN

\* The agent takes up nothing twice; a text is no longer than its deltas are many.
AgentOK ==
  /\ begun \subseteq asked /\ asked \subseteq Requests /\ unseen \subseteq Requests
  /\ turn \in begun \cup {Nobody}
  /\ posted \in [Requests -> 0 .. MaxDeltas] /\ said \in [Requests -> Texts]
  /\ \A r \in Requests : ~Over(r) => Len(said[r]) <= posted[r]

\* Before the message is sent nothing has been collected or asked.
UnsentOK ==
  phase \in {"drain", "idle"} =>
    /\ message = "unsent" /\ mine \notin asked
    /\ \A r \in Requests : buffers[r] = <<>>

\* Ends have the text of their reply or none, and nothing is said after them.
EndsOK(q) ==
  \A i \in DOMAIN q :
    q[i] \in Replies /\ q[i].t \in {"end", "text"} =>
      /\ Over(q[i].of) /\ q[i].text \in {<<>>, said[q[i].of]}
      /\ q[i].t = "text" => q[i].text # <<>>

\* What is to come makes of the buffer what the agent has said.
FlowOK ==
  Running => \A r \in Requests \ stale :
    \E last \in Texts :
      /\ Reads(Coming, r, buffers[r], last)
      /\ ~Over(r) => Len(last) <= posted[r]
      /\ r \notin unseen => last = said[r]

\* The agent's turn can be told from what has been drained and is to come.
TurnIsTold(q, t, status) ==
  t # Nobody =>
    \/ \E i \in DOMAIN q : q[i].t \in Busy /\ \A j \in DOMAIN q : j > i => q[j].t # "idle"
    \/ status \in Busy /\ \A j \in DOMAIN q : q[j].t # "idle"

\* What the loops would print.
Talk == Replies \cup Questions

\* No reply and no question comes after idle.
IdleIsLast(q, t) ==
  \A i \in DOMAIN q :
    q[i].t = "idle" => t = Nobody /\ \A j \in DOMAIN q : j > i => q[j] \notin Talk

\* Nothing but the answer comes, and the replies that are skipped.
OnlyOurs(q, t, skipped) ==
  /\ t \in {mine, Nobody} \cup skipped
  /\ \A i \in DOMAIN q : q[i] \in Talk => q[i] \in Replies /\ q[i].of \in {mine} \cup skipped

UndisturbedOK ==
  ~disturbed =>
    /\ phase = "drain" => turn \in unseen \/ TurnIsTold(Coming, turn, last_status)
    /\ phase = "idle" => IdleIsLast(Coming, turn)
    /\ phase = "wait" => OnlyOurs(Coming, turn, stale)

IInv ==
  /\ DataOK /\ FlagsOK /\ AgentOK /\ UnsentOK /\ EndsOK(Coming)
  /\ FlowOK /\ UndisturbedOK /\ ReplyIsWhole /\ AnswersUs

-----------------------------------------------------------------------------
(* Requests, texts and events *)

LEMMA Mine == mine \in Msgs /\ mine \in Requests /\ mine \notin Others /\ Msgs = {mine}
BY RequestsAssumption DEF mine, Requests

LEMMA NobodyAsks == Nobody \notin Requests
BY RequestsAssumption DEF Requests

LEMMA EventParts ==
  ASSUME NEW e \in Events
  PROVE  \/ e.t \in Plain /\ e \notin Replies
         \/ /\ e \in Replies /\ e.t \in {"text", "delta", "end", "reset"}
            /\ e.of \in Requests /\ e.text \in Texts
         \/ e \in Questions /\ e.t = "asks" /\ e \notin Replies
BY DEF Events, Replies, Questions, Question, Word, Plain, Busy

LEMMA WordParts ==
  ASSUME NEW t \in Plain
  PROVE  Word(t) \in Events /\ Word(t) \notin Replies /\ Word(t).t = t /\ Word(t) \notin Talk
BY DEF Events, Replies, Questions, Question, Talk, Word, Plain, Busy

LEMMA QuestionParts ==
  ASSUME NEW r \in Others
  PROVE  Question(r) \in Events /\ Question(r) \notin Replies /\ Question(r).t = "asks"
BY DEF Events, Replies, Questions, Question

LEMMA FrameParts ==
  ASSUME NEW t \in {"text", "delta", "end", "reset"}, NEW of \in Requests, NEW text \in Texts
  PROVE  /\ Frame(t, of, text) \in Events /\ Frame(t, of, text) \in Replies
         /\ Frame(t, of, text).t = t /\ Frame(t, of, text).of = of
         /\ Frame(t, of, text).text = text
BY DEF Frame, Events, Replies

LEMMA ShortTexts ==
  /\ <<>> \in Texts /\ Len(<<>>) = 0
  /\ \A n \in 1 .. MaxDeltas + 1 : <<n>> \in Texts /\ Len(<<n>>) = 1 /\ <<n>> # <<>>
<1>1. MaxDeltas \in Nat
  BY BoundsAssumption
<1>2. <<>> \in [1 .. 0 -> 1 .. MaxDeltas + 1] /\ 0 \in 0 .. MaxDeltas + 1
  BY <1>1
<1>3. \A n \in 1 .. MaxDeltas + 1 : <<n>> \in [1 .. 1 -> 1 .. MaxDeltas + 1] /\ 1 \in 0 .. MaxDeltas + 1
  BY <1>1
<1>. QED  BY <1>2, <1>3 DEF Texts

LEMMA TextParts ==
  ASSUME NEW text \in Texts
  PROVE  text \in Seq(1 .. MaxDeltas + 1) /\ Len(text) \in 0 .. MaxDeltas + 1
<1>. DEFINE Numbers == 1 .. MaxDeltas + 1
<1>1. PICK n \in 0 .. MaxDeltas + 1 : text \in [1 .. n -> Numbers]
  BY DEF Texts
<1>2. n \in Nat
  BY <1>1, BoundsAssumption
<1>. HIDE DEF Numbers
<1>3. text \in Seq(Numbers) /\ Len(text) = n
  BY <1>1, <1>2
<1>. QED  BY <1>1, <1>3 DEF Numbers

\* A delta more.
LEMMA TextGrows ==
  ASSUME NEW text \in Texts, NEW k \in 0 .. MaxDeltas, Len(text) <= k, k < MaxDeltas
  PROVE  /\ text \o <<k + 1>> \in Texts /\ Append(text, k + 1) = text \o <<k + 1>>
         /\ Len(text \o <<k + 1>>) <= k + 1
<1>. DEFINE Numbers == 1 .. MaxDeltas + 1
<1>1. PICK n \in Nat : n = Len(text)
  BY TextParts
<1>2. MaxDeltas \in Nat /\ k \in Nat /\ text \in Seq(Numbers)
  BY TextParts, BoundsAssumption
<1>3. n + 1 \in 0 .. MaxDeltas + 1 /\ k + 1 \in Numbers /\ n + 1 <= k + 1
  BY <1>1, <1>2
<1>. HIDE DEF Numbers
<1>4. /\ Append(text, k + 1) = text \o <<k + 1>> /\ Len(Append(text, k + 1)) = n + 1
      /\ Append(text, k + 1) \in Seq(Numbers)
  BY <1>1, <1>2, <1>3
<1>5. Append(text, k + 1) \in [1 .. n + 1 -> Numbers]
  <2>1. ASSUME NEW longer \in Seq(Numbers), Len(longer) = n + 1
        PROVE  longer \in [1 .. n + 1 -> Numbers]
    <3>1. longer \in [1 .. Len(longer) -> Numbers]
      BY <2>1
    <3>. QED  BY <2>1, <3>1
  <2>. QED  BY <1>4, <2>1
<1>6. text \o <<k + 1>> \in Texts
  BY <1>3, <1>4, <1>5 DEF Texts, Numbers
<1>7. Append(text, k + 1) = text \o <<k + 1>> /\ Len(text \o <<k + 1>>) <= k + 1
  BY <1>3, <1>4
<1>. QED  BY <1>6, <1>7

-----------------------------------------------------------------------------
(* Reading a sequence of events *)

LEMMA ReadNothing ==
  ASSUME NEW r, NEW text \in Texts
  PROVE  Reads(<<>>, r, text, text)
<1>1. Reading([i \in 1 .. 1 |-> text], <<>>, r, text, text)
  BY DEF Reading
<1>. QED  BY <1>1 DEF Reads

\* Taking the first event.
LEMMA ReadHead ==
  ASSUME NEW q \in Seq(Events), q # <<>>, NEW r, NEW first, NEW last, Reads(q, r, first, last)
  PROVE  /\ Effect(Head(q), r, first) \in Texts
         /\ Reads(Tail(q), r, Effect(Head(q), r, first), last)
         /\ Head(q) \in Replies /\ Head(q).of = r /\ Head(q).t = "end" => first = last
<1>1. PICK v : Reading(v, q, r, first, last)
  BY DEF Reads
<1>2. PICK n \in Nat : Len(q) = n + 1
  <2>1. Len(q) \in Nat /\ Len(q) # 0
    OBVIOUS
  <2>. QED  BY <2>1
<1>3. /\ v \in [1 .. n + 2 -> Texts] /\ v[1] = first /\ v[n + 2] = last
      /\ \A i \in 1 .. n + 1 :
           /\ v[i + 1] = Effect(q[i], r, v[i])
           /\ q[i] \in Replies /\ q[i].of = r /\ q[i].t = "end" => v[i] = last
  BY <1>1, <1>2 DEF Reading
<1>4. Head(q) = q[1] /\ Len(Tail(q)) = n /\ \A i \in 1 .. n : Tail(q)[i] = q[i + 1]
  BY <1>2
<1>5. Effect(q[1], r, first) = v[2] /\ v[2] \in Texts
  BY <1>3
<1>. DEFINE w == [i \in 1 .. n + 1 |-> v[i + 1]]
<1>6. Reading(w, Tail(q), r, v[2], last)
  <2>1. w \in [1 .. n + 1 -> Texts] /\ w[1] = v[2] /\ w[n + 1] = last
    BY <1>3
  <2>2. ASSUME NEW i \in 1 .. n
        PROVE  /\ w[i + 1] = Effect(Tail(q)[i], r, w[i])
               /\ Tail(q)[i] \in Replies /\ Tail(q)[i].of = r /\ Tail(q)[i].t = "end" => w[i] = last
    <3>1. i + 1 \in 1 .. n + 1 /\ w[i] = v[i + 1] /\ w[i + 1] = v[i + 1 + 1] /\ Tail(q)[i] = q[i + 1]
      BY <1>4
    <3>. QED  BY <1>3, <3>1
  <2>. QED  BY <1>4, <2>1, <2>2 DEF Reading
<1>. QED  BY <1>3, <1>4, <1>5, <1>6 DEF Reads

\* One event more at the end, which no end of r precedes if it changes r's text.
LEMMA ReadMore ==
  ASSUME NEW q \in Seq(Events), NEW r, NEW first, NEW last, Reads(q, r, first, last),
         NEW e \in Events, NEW text \in Texts, text = Effect(e, r, last),
         \/ text = last
         \/ \A i \in DOMAIN q : ~(q[i] \in Replies /\ q[i].of = r /\ q[i].t = "end")
  PROVE  Reads(Append(q, e), r, first, text)
<1>1. PICK v : Reading(v, q, r, first, last)
  BY DEF Reads
<1>2. PICK n \in Nat : Len(q) = n
  OBVIOUS
<1>3. /\ v \in [1 .. n + 1 -> Texts] /\ v[1] = first /\ v[n + 1] = last
      /\ \A i \in 1 .. n :
           /\ v[i + 1] = Effect(q[i], r, v[i])
           /\ q[i] \in Replies /\ q[i].of = r /\ q[i].t = "end" => v[i] = last
  BY <1>1, <1>2 DEF Reading
<1>. DEFINE longer == Append(q, e)
            w == [i \in 1 .. n + 2 |-> IF i = n + 2 THEN text ELSE v[i]]
<1>4. Len(longer) = n + 1 /\ longer[n + 1] = e /\ \A i \in 1 .. n : longer[i] = q[i]
  BY <1>2
<1>5. w \in [1 .. n + 2 -> Texts] /\ w[1] = first /\ w[n + 2] = text
  BY <1>3
<1>. HIDE DEF longer
<1>6. ASSUME NEW i \in 1 .. n + 1
      PROVE  /\ w[i + 1] = Effect(longer[i], r, w[i])
             /\ longer[i] \in Replies /\ longer[i].of = r /\ longer[i].t = "end" => w[i] = text
  <2>1. CASE i = n + 1
    <3>1. w[i] = last /\ w[i + 1] = text /\ longer[i] = e
      BY <1>3, <1>4, <2>1
    <3>2. e \in Replies /\ e.of = r /\ e.t = "end" => text = last
      BY DEF Effect
    <3>. QED  BY <3>1, <3>2
  <2>2. CASE i \in 1 .. n
    <3>1. w[i] = v[i] /\ w[i + 1] = v[i + 1] /\ longer[i] = q[i]
      BY <1>4, <2>2
    <3>2. i \in DOMAIN q
      BY <1>2, <2>2
    <3>. QED  BY <1>3, <2>2, <3>1, <3>2
  <2>. QED  BY <2>1, <2>2
<1>. HIDE DEF w
<1>7. n + 1 + 1 = n + 2
  OBVIOUS
<1>8. Reading(w, longer, r, first, text)
  BY <1>4, <1>5, <1>6, <1>7 DEF Reading
<1>. QED  BY <1>8 DEF Reads, longer

\* An event that is no part of a reply, anywhere.
LEMMA ReadInserted ==
  ASSUME NEW a \in Seq(Events), NEW b \in Seq(Events), NEW r, NEW first, NEW last,
         Reads(a \o b, r, first, last), NEW e, e \notin Replies
  PROVE  Reads(Append(a, e) \o b, r, first, last)
<1>. DEFINE q == a \o b
            longer == Append(a, e) \o b
<1>1. PICK v : Reading(v, q, r, first, last)
  BY DEF Reads
<1>2. PICK n \in Nat, k \in Nat : Len(q) = n /\ Len(a) = k /\ k <= n /\ Len(longer) = n + 1
  OBVIOUS
<1>3. /\ \A i \in 1 .. k : longer[i] = q[i]
      /\ longer[k + 1] = e
      /\ \A i \in k + 1 .. n : longer[i + 1] = q[i]
  BY <1>2
<1>. HIDE DEF q, longer
<1>4. /\ v \in [1 .. n + 1 -> Texts] /\ v[1] = first /\ v[n + 1] = last
      /\ \A i \in 1 .. n :
           /\ v[i + 1] = Effect(q[i], r, v[i])
           /\ q[i] \in Replies /\ q[i].of = r /\ q[i].t = "end" => v[i] = last
  BY <1>1, <1>2 DEF Reading
<1>. DEFINE w == [i \in 1 .. n + 2 |-> IF i <= k + 1 THEN v[i] ELSE v[i - 1]]
<1>5. w \in [1 .. n + 2 -> Texts] /\ w[1] = first /\ w[n + 2] = last
  BY <1>2, <1>4
<1>6. ASSUME NEW i \in 1 .. n + 1
      PROVE  /\ w[i + 1] = Effect(longer[i], r, w[i])
             /\ longer[i] \in Replies /\ longer[i].of = r /\ longer[i].t = "end" => w[i] = last
  <2>1. CASE i \in 1 .. k
    <3>1. i \in 1 .. n /\ w[i] = v[i] /\ w[i + 1] = v[i + 1] /\ longer[i] = q[i]
      BY <1>2, <1>3, <2>1
    <3>. QED  BY <1>4, <3>1
  <2>2. CASE i = k + 1
    <3>1. w[i] = v[k + 1] /\ w[i + 1] = v[k + 1] /\ longer[i] = e
      BY <1>2, <1>3, <2>2
    <3>. QED  BY <3>1 DEF Effect
  <2>3. CASE i \in k + 2 .. n + 1
    <3>1. PICK j \in k + 1 .. n : i = j + 1
      <4>1. i - 1 \in k + 1 .. n /\ i = (i - 1) + 1
        BY <1>2, <2>3
      <4>. QED  BY <4>1
    <3>2. j \in 1 .. n /\ longer[i] = q[j]
      BY <1>2, <1>3, <3>1
    <3>3. /\ i \in 1 .. n + 2 /\ i + 1 \in 1 .. n + 2 /\ i > k + 1 /\ i + 1 > k + 1
          /\ i - 1 = j /\ (i + 1) - 1 = j + 1 /\ i \in Nat
      BY <1>2, <3>1
    <3>4. w[i] = v[j] /\ w[i + 1] = v[j + 1]
      BY <1>2, <3>3
    <3>. QED  BY <1>4, <3>2, <3>4
  <2>. QED  BY <1>2, <2>1, <2>2, <2>3
<1>. HIDE DEF w
<1>7. Len(longer) = n + 1 /\ n + 1 + 1 = n + 2
  BY <1>2
<1>8. Reading(w, longer, r, first, last)
  BY <1>5, <1>6, <1>7 DEF Reading
<1>. QED  BY <1>8 DEF Reads, longer

-----------------------------------------------------------------------------
(* How what is to come changes *)

LEMMA Appended ==
  ASSUME NEW a \in Seq(Events), NEW b \in Seq(Events), NEW e \in Events
  PROVE  /\ b \o <<e>> \in Seq(Events)
         /\ a \o (b \o <<e>>) = Append(a \o b, e)
         /\ DOMAIN Append(a \o b, e) = DOMAIN (a \o b) \cup {Len(a \o b) + 1}
         /\ Append(a \o b, e)[Len(a \o b) + 1] = e
         /\ \A i \in DOMAIN (a \o b) : Append(a \o b, e)[i] = (a \o b)[i]
OBVIOUS

LEMMA Arrived ==
  ASSUME NEW a \in Seq(Events), NEW b \in Seq(Events), b # <<>>
  PROVE  /\ Append(a, Head(b)) \in Seq(Events) /\ Tail(b) \in Seq(Events)
         /\ Append(a, Head(b)) \o Tail(b) = a \o b
OBVIOUS

LEMMA Taken ==
  ASSUME NEW a \in Seq(Events), NEW b \in Seq(Events), a # <<>>
  PROVE  /\ Head(a) \in Events /\ Tail(a) \in Seq(Events)
         /\ a \o b \in Seq(Events) /\ a \o b # <<>>
         /\ Head(a) = Head(a \o b) /\ Tail(a) \o b = Tail(a \o b)
OBVIOUS

LEMMA Inserted ==
  ASSUME NEW a \in Seq(Events), NEW b \in Seq(Events), NEW e \in Events
  PROVE  /\ Append(a, e) \in Seq(Events) /\ Len(a) \in Nat
         /\ DOMAIN (a \o b) \subseteq Nat /\ DOMAIN (Append(a, e) \o b) \subseteq Nat
         /\ \A i \in DOMAIN (Append(a, e) \o b) :
              \/ i <= Len(a) /\ i \in DOMAIN (a \o b) /\ (Append(a, e) \o b)[i] = (a \o b)[i]
              \/ i = Len(a) + 1 /\ (Append(a, e) \o b)[i] = e
              \/ i > Len(a) + 1 /\ i - 1 \in DOMAIN (a \o b) /\ (Append(a, e) \o b)[i] = (a \o b)[i - 1]
         /\ \A i \in DOMAIN (a \o b) :
              \E j \in DOMAIN (Append(a, e) \o b) :
                j = (IF i <= Len(a) THEN i ELSE i + 1) /\ (Append(a, e) \o b)[j] = (a \o b)[i]
<1>. DEFINE q == a \o b
            c == Append(a, e)
            longer == c \o b
<1>1. PICK k \in Nat, n \in Nat : k = Len(a) /\ n = Len(b)
  OBVIOUS
<1>2. /\ DOMAIN q = 1 .. k + n
      /\ \A i \in 1 .. k + n : q[i] = IF i <= k THEN a[i] ELSE b[i - k]
  BY <1>1
<1>3. /\ c \in Seq(Events) /\ Len(c) = k + 1 /\ c[k + 1] = e
      /\ \A i \in 1 .. k : c[i] = a[i]
  BY <1>1
<1>. HIDE DEF c, q
<1>4. /\ DOMAIN longer = 1 .. k + 1 + n
      /\ \A i \in 1 .. k + 1 + n : longer[i] = IF i <= k + 1 THEN c[i] ELSE b[i - (k + 1)]
  BY <1>1, <1>3
<1>. HIDE DEF longer
<1>5. \A i \in 1 .. k + n :
        /\ i <= k => i \in 1 .. k + 1 + n /\ longer[i] = q[i]
        /\ i > k => i + 1 \in 1 .. k + 1 + n /\ longer[i + 1] = q[i]
  <2>. SUFFICES ASSUME NEW i \in 1 .. k + n
                PROVE  /\ i <= k => i \in 1 .. k + 1 + n /\ longer[i] = q[i]
                       /\ i > k => i + 1 \in 1 .. k + 1 + n /\ longer[i + 1] = q[i]
    OBVIOUS
  <2>1. ASSUME i <= k PROVE i \in 1 .. k + 1 + n /\ longer[i] = q[i]
    BY <1>2, <1>3, <1>4, <2>1
  <2>2. ASSUME i > k PROVE i + 1 \in 1 .. k + 1 + n /\ longer[i + 1] = q[i]
    <3>1. i + 1 \in 1 .. k + 1 + n /\ i + 1 > k + 1 /\ (i + 1) - (k + 1) = i - k
      BY <2>2
    <3>. QED  BY <1>2, <1>4, <2>2, <3>1
  <2>. QED  BY <2>1, <2>2
<1>6. longer[k + 1] = e
  BY <1>3, <1>4
<1>7. \A i \in 1 .. k + 1 + n :
        \/ i <= k /\ i \in 1 .. k + n /\ longer[i] = q[i]
        \/ i = k + 1 /\ longer[i] = e
        \/ i > k + 1 /\ i - 1 \in 1 .. k + n /\ longer[i] = q[i - 1]
  <2>. SUFFICES ASSUME NEW i \in 1 .. k + 1 + n, i # k + 1
                PROVE  \/ i <= k /\ i \in 1 .. k + n /\ longer[i] = q[i]
                       \/ i > k + 1 /\ i - 1 \in 1 .. k + n /\ longer[i] = q[i - 1]
    BY <1>6
  <2>1. CASE i <= k
    BY <1>5, <2>1
  <2>2. CASE i > k + 1
    <3>1. i - 1 \in 1 .. k + n /\ i - 1 > k /\ (i - 1) + 1 = i
      BY <2>2
    <3>. QED  BY <1>5, <2>2, <3>1
  <2>. QED  BY <2>1, <2>2
<1>8. \A i \in 1 .. k + n :
        \E j \in 1 .. k + 1 + n : j = (IF i <= k THEN i ELSE i + 1) /\ longer[j] = q[i]
  BY <1>5
<1>9. 1 .. k + n \subseteq Nat /\ 1 .. k + 1 + n \subseteq Nat
  OBVIOUS
<1>10. /\ c \in Seq(Events) /\ Len(a) \in Nat
       /\ DOMAIN q \subseteq Nat /\ DOMAIN longer \subseteq Nat
       /\ \A i \in DOMAIN longer :
            \/ i <= Len(a) /\ i \in DOMAIN q /\ longer[i] = q[i]
            \/ i = Len(a) + 1 /\ longer[i] = e
            \/ i > Len(a) + 1 /\ i - 1 \in DOMAIN q /\ longer[i] = q[i - 1]
       /\ \A i \in DOMAIN q :
            \E j \in DOMAIN longer : j = (IF i <= Len(a) THEN i ELSE i + 1) /\ longer[j] = q[i]
  BY <1>1, <1>2, <1>3, <1>4, <1>7, <1>8, <1>9
<1>. QED  BY <1>10, Zenon DEF c, q, longer

LEMMA InsertParts ==
  ASSUME NEW a \in Seq(Events), NEW b \in Seq(Events), NEW e \in Events
  PROVE  /\ Append(a, e) \in Seq(Events)
         /\ \A i \in DOMAIN (Append(a, e) \o b) :
              \/ (Append(a, e) \o b)[i] = e
              \/ \E j \in DOMAIN (a \o b) : (Append(a, e) \o b)[i] = (a \o b)[j]
<1>. DEFINE q == a \o b
            longer == Append(a, e) \o b
<1>1. /\ Len(a) \in Nat
      /\ \A i \in DOMAIN longer :
           \/ i <= Len(a) /\ i \in DOMAIN q /\ longer[i] = q[i]
           \/ i = Len(a) + 1 /\ longer[i] = e
           \/ i > Len(a) + 1 /\ i - 1 \in DOMAIN q /\ longer[i] = q[i - 1]
  BY Inserted, Zenon
<1>. HIDE DEF q, longer
<1>2. PICK k \in Nat :
      /\ k = Len(a)
      /\ \A i \in DOMAIN longer :
           \/ i <= k /\ i \in DOMAIN q /\ longer[i] = q[i]
           \/ i = k + 1 /\ longer[i] = e
           \/ i > k + 1 /\ i - 1 \in DOMAIN q /\ longer[i] = q[i - 1]
  BY <1>1
<1>3. \A i \in DOMAIN longer : longer[i] = e \/ \E j \in DOMAIN q : longer[i] = q[j]
  BY <1>2
<1>. QED  BY <1>3 DEF q, longer

-----------------------------------------------------------------------------
(* What is known of the agent *)

LEMMA ToldMore ==
  ASSUME NEW q \in Seq(Events), NEW t, NEW u, NEW s, TurnIsTold(q, t, s), NEW e \in Events,
         u = Nobody \/ e.t \in Busy \/ (u = t /\ e.t # "idle")
  PROVE  TurnIsTold(Append(q, e), u, s)
<1>. DEFINE longer == Append(q, e)
<1>1. PICK n \in Nat : n = Len(q)
  OBVIOUS
<1>2. /\ DOMAIN q = 1 .. n /\ DOMAIN longer = 1 .. n + 1 /\ longer[n + 1] = e
      /\ \A i \in 1 .. n : longer[i] = q[i] /\ i \in 1 .. n + 1
      /\ \A i \in 1 .. n + 1 : i = n + 1 \/ i \in 1 .. n
  BY <1>1
<1>. HIDE DEF longer
<1>3. CASE u = Nobody
  BY <1>3 DEF TurnIsTold, longer
<1>4. CASE e.t \in Busy
  <2>1. n + 1 \in DOMAIN longer /\ \A j \in DOMAIN longer : ~(j > n + 1)
    BY <1>2
  <2>. QED  BY <1>2, <1>4, <2>1 DEF TurnIsTold, longer
<1>5. CASE u = t /\ e.t # "idle"
  BY <1>2, <1>5 DEF TurnIsTold, longer
<1>. QED  BY <1>3, <1>4, <1>5

LEMMA ToldHead ==
  ASSUME NEW q \in Seq(Events), q # <<>>, NEW t, NEW s, NEW u, TurnIsTold(q, t, s),
         u = IF Head(q).t \in Busy \cup {"idle"} THEN Head(q).t ELSE s
  PROVE  TurnIsTold(Tail(q), t, u)
<1>. DEFINE shorter == Tail(q)
<1>1. PICK n \in Nat : n + 1 = Len(q)
  <2>1. Len(q) \in Nat /\ Len(q) # 0 /\ Len(q) - 1 \in Nat
    OBVIOUS
  <2>. QED  BY <2>1
<1>2. /\ DOMAIN q = 1 .. n + 1 /\ DOMAIN shorter = 1 .. n /\ Head(q) = q[1]
      /\ \A i \in 1 .. n : shorter[i] = q[i + 1] /\ i + 1 \in 1 .. n + 1
  BY <1>1
<1>. HIDE DEF shorter
<1>. SUFFICES ASSUME t # Nobody PROVE TurnIsTold(shorter, t, u)
  BY DEF TurnIsTold, shorter
<1>3. ASSUME NEW i \in DOMAIN q, q[i].t \in Busy, \A j \in DOMAIN q : j > i => q[j].t # "idle"
      PROVE  TurnIsTold(shorter, t, u)
  <2>1. CASE i = 1
    <3>1. u \in Busy
      BY <1>2, <1>3, <2>1
    <3>2. \A j \in DOMAIN shorter : shorter[j].t # "idle"
      BY <1>2, <1>3, <2>1
    <3>. QED  BY <3>1, <3>2 DEF TurnIsTold
  <2>2. CASE i # 1
    <3>1. PICK k \in 1 .. n : i = k + 1
      <4>1. i - 1 \in 1 .. n /\ i = (i - 1) + 1
        BY <1>2, <2>2
      <4>. QED  BY <4>1
    <3>2. shorter[k].t \in Busy
      BY <1>2, <1>3, <3>1
    <3>3. ASSUME NEW j \in DOMAIN shorter, j > k PROVE shorter[j].t # "idle"
      <4>1. j + 1 > i /\ j + 1 \in DOMAIN q /\ shorter[j] = q[j + 1]
        BY <1>2, <3>1, <3>3
      <4>. QED  BY <1>3, <4>1
    <3>. QED  BY <1>2, <3>2, <3>3 DEF TurnIsTold
  <2>. QED  BY <2>1, <2>2
<1>4. ASSUME s \in Busy, \A j \in DOMAIN q : q[j].t # "idle"
      PROVE  TurnIsTold(shorter, t, u)
  <2>1. u \in Busy
    <3>1. q[1].t # "idle"
      BY <1>2, <1>4
    <3>. QED  BY <1>2, <1>4, <3>1
  <2>2. \A j \in DOMAIN shorter : shorter[j].t # "idle"
    BY <1>2, <1>4
  <2>. QED  BY <2>1, <2>2 DEF TurnIsTold
<1>. QED  BY <1>3, <1>4 DEF TurnIsTold

LEMMA ToldInserted ==
  ASSUME NEW a \in Seq(Events), NEW b \in Seq(Events), NEW t, NEW s, TurnIsTold(a \o b, t, s),
         NEW e \in Events, e.t # "idle"
  PROVE  TurnIsTold(Append(a, e) \o b, t, s)
<1>. DEFINE q == a \o b
            longer == Append(a, e) \o b
<1>1. /\ Len(a) \in Nat
      /\ \A i \in DOMAIN longer :
           \/ i <= Len(a) /\ i \in DOMAIN q /\ longer[i] = q[i]
           \/ i = Len(a) + 1 /\ longer[i] = e
           \/ i > Len(a) + 1 /\ i - 1 \in DOMAIN q /\ longer[i] = q[i - 1]
      /\ \A i \in DOMAIN q :
           \E j \in DOMAIN longer : j = (IF i <= Len(a) THEN i ELSE i + 1) /\ longer[j] = q[i]
      /\ DOMAIN q \subseteq Nat /\ DOMAIN longer \subseteq Nat
  BY Inserted, Zenon
<1>. HIDE DEF q, longer
<1>2. PICK k \in Nat :
      /\ k = Len(a)
      /\ \A i \in DOMAIN longer :
           \/ i <= k /\ i \in DOMAIN q /\ longer[i] = q[i]
           \/ i = k + 1 /\ longer[i] = e
           \/ i > k + 1 /\ i - 1 \in DOMAIN q /\ longer[i] = q[i - 1]
      /\ \A i \in DOMAIN q :
           \E j \in DOMAIN longer : j = (IF i <= k THEN i ELSE i + 1) /\ longer[j] = q[i]
      /\ DOMAIN q \subseteq Nat /\ DOMAIN longer \subseteq Nat
  BY <1>1
<1>. SUFFICES ASSUME t # Nobody PROVE TurnIsTold(longer, t, s)
  BY DEF TurnIsTold, longer
<1>3. ASSUME NEW i \in DOMAIN q, q[i].t \in Busy, \A j \in DOMAIN q : j > i => q[j].t # "idle"
      PROVE  TurnIsTold(longer, t, s)
  <2>1. PICK m \in DOMAIN longer : m = (IF i <= k THEN i ELSE i + 1) /\ longer[m] = q[i]
    BY <1>2
  <2>2. ASSUME NEW j \in DOMAIN longer, j > m PROVE longer[j].t # "idle"
    <3>1. CASE j <= k /\ j \in DOMAIN q /\ longer[j] = q[j]
      <4>1. j > i
        BY <1>2, <2>1, <2>2, <3>1
      <4>. QED  BY <1>3, <3>1, <4>1
    <3>2. CASE j = k + 1 /\ longer[j] = e
      BY <3>2
    <3>3. CASE j > k + 1 /\ j - 1 \in DOMAIN q /\ longer[j] = q[j - 1]
      <4>1. j - 1 > i
        BY <1>2, <2>1, <2>2, <3>3
      <4>. QED  BY <1>3, <3>3, <4>1
    <3>. QED  BY <1>2, <3>1, <3>2, <3>3
  <2>. QED  BY <1>3, <2>1, <2>2 DEF TurnIsTold
<1>4. ASSUME s \in Busy, \A j \in DOMAIN q : q[j].t # "idle"
      PROVE  TurnIsTold(longer, t, s)
  BY <1>2, <1>4 DEF TurnIsTold
<1>. QED  BY <1>3, <1>4 DEF TurnIsTold, q

LEMMA IdleMore ==
  ASSUME NEW q \in Seq(Events), NEW t, NEW u, IdleIsLast(q, t), NEW e \in Events,
         \/ u = t /\ e.t # "idle" /\ (e \notin Talk \/ t # Nobody)
         \/ u = Nobody /\ e \notin Talk
  PROVE  IdleIsLast(Append(q, e), u)
<1>. DEFINE longer == Append(q, e)
<1>1. PICK n \in Nat : n = Len(q)
  OBVIOUS
<1>2. /\ DOMAIN q = 1 .. n /\ DOMAIN longer = 1 .. n + 1 /\ longer[n + 1] = e
      /\ \A i \in 1 .. n : longer[i] = q[i] /\ i \in 1 .. n + 1
      /\ \A i \in 1 .. n + 1 : i = n + 1 \/ i \in 1 .. n
  BY <1>1
<1>. HIDE DEF longer
<1>. SUFFICES ASSUME NEW i \in DOMAIN longer, longer[i].t = "idle"
              PROVE  u = Nobody /\ \A j \in DOMAIN longer : j > i => longer[j] \notin Talk
  BY DEF IdleIsLast, longer
<1>3. CASE i = n + 1
  <2>1. \A j \in DOMAIN longer : ~(j > i)
    BY <1>2, <1>3
  <2>. QED  BY <1>2, <1>3, <2>1
<1>4. CASE i \in 1 .. n
  <2>1. q[i].t = "idle" /\ i \in DOMAIN q
    BY <1>2, <1>4
  <2>2. t = Nobody /\ \A j \in DOMAIN q : j > i => q[j] \notin Talk
    BY <2>1 DEF IdleIsLast
  <2>3. e \notin Talk /\ u = Nobody
    BY <2>2
  <2>. QED  BY <1>2, <2>2, <2>3
<1>. QED  BY <1>2, <1>3, <1>4

LEMMA IdleHead ==
  ASSUME NEW q \in Seq(Events), q # <<>>, NEW t, NEW skipped, IdleIsLast(q, t)
  PROVE  /\ IdleIsLast(Tail(q), t)
         /\ Head(q).t = "idle" => OnlyOurs(Tail(q), t, skipped)
<1>. DEFINE shorter == Tail(q)
<1>1. PICK n \in Nat : n + 1 = Len(q)
  <2>1. Len(q) \in Nat /\ Len(q) # 0 /\ Len(q) - 1 \in Nat
    OBVIOUS
  <2>. QED  BY <2>1
<1>2. /\ DOMAIN q = 1 .. n + 1 /\ DOMAIN shorter = 1 .. n /\ Head(q) = q[1]
      /\ \A i \in 1 .. n : shorter[i] = q[i + 1] /\ i + 1 \in 1 .. n + 1 /\ i + 1 > 1
      /\ \A i, j \in 1 .. n : j > i => j + 1 > i + 1
      /\ 1 \in 1 .. n + 1
  BY <1>1
<1>. HIDE DEF shorter
<1>3. IdleIsLast(shorter, t)
  BY <1>2 DEF IdleIsLast
<1>4. q[1].t = "idle" => OnlyOurs(shorter, t, skipped)
  <2>. SUFFICES ASSUME q[1].t = "idle" PROVE OnlyOurs(shorter, t, skipped)
    OBVIOUS
  <2>1. t = Nobody /\ \A j \in DOMAIN q : j > 1 => q[j] \notin Talk
    BY <1>2 DEF IdleIsLast
  <2>2. \A j \in DOMAIN shorter : shorter[j] \notin Talk
    BY <1>2, <2>1
  <2>. QED  BY <2>1, <2>2 DEF OnlyOurs
<1>. QED  BY <1>2, <1>3, <1>4 DEF shorter

LEMMA IdleInserted ==
  ASSUME NEW a \in Seq(Events), NEW b \in Seq(Events), NEW t, IdleIsLast(a \o b, t),
         NEW e \in Events, e.t # "idle", e \notin Talk
  PROVE  IdleIsLast(Append(a, e) \o b, t)
<1>. DEFINE q == a \o b
            longer == Append(a, e) \o b
<1>1. /\ Len(a) \in Nat
      /\ \A i \in DOMAIN longer :
           \/ i <= Len(a) /\ i \in DOMAIN q /\ longer[i] = q[i]
           \/ i = Len(a) + 1 /\ longer[i] = e
           \/ i > Len(a) + 1 /\ i - 1 \in DOMAIN q /\ longer[i] = q[i - 1]
      /\ DOMAIN q \subseteq Nat /\ DOMAIN longer \subseteq Nat
  BY Inserted, Zenon
<1>. HIDE DEF q, longer
<1>2. PICK k \in Nat :
      /\ k = Len(a)
      /\ \A i \in DOMAIN longer :
           \/ i <= k /\ i \in DOMAIN q /\ longer[i] = q[i]
           \/ i = k + 1 /\ longer[i] = e
           \/ i > k + 1 /\ i - 1 \in DOMAIN q /\ longer[i] = q[i - 1]
      /\ DOMAIN q \subseteq Nat /\ DOMAIN longer \subseteq Nat
  BY <1>1
<1>. SUFFICES ASSUME NEW i \in DOMAIN longer, longer[i].t = "idle"
              PROVE  t = Nobody /\ \A j \in DOMAIN longer : j > i => longer[j] \notin Talk
  BY DEF IdleIsLast, longer
<1>3. PICK m \in DOMAIN q : q[m].t = "idle" /\ m = (IF i <= k THEN i ELSE i - 1) /\ i # k + 1
  BY <1>2
<1>4. t = Nobody /\ \A j \in DOMAIN q : j > m => q[j] \notin Talk
  BY <1>3 DEF IdleIsLast, q
<1>5. ASSUME NEW j \in DOMAIN longer, j > i PROVE longer[j] \notin Talk
  <2>1. CASE j <= k /\ j \in DOMAIN q /\ longer[j] = q[j]
    <3>1. j > m
      BY <1>2, <1>3, <1>5, <2>1
    <3>. QED  BY <1>4, <2>1, <3>1
  <2>2. CASE j = k + 1 /\ longer[j] = e
    BY <2>2
  <2>3. CASE j > k + 1 /\ j - 1 \in DOMAIN q /\ longer[j] = q[j - 1]
    <3>1. j - 1 > m
      BY <1>2, <1>3, <1>5, <2>3
    <3>. QED  BY <1>4, <2>3, <3>1
  <2>. QED  BY <1>2, <2>1, <2>2, <2>3
<1>. QED  BY <1>4, <1>5

LEMMA AppendParts ==
  ASSUME NEW q \in Seq(Events), NEW e \in Events
  PROVE  \A i \in DOMAIN Append(q, e) :
           Append(q, e)[i] = e \/ \E j \in DOMAIN q : Append(q, e)[i] = q[j]
<1>1. PICK n \in Nat : n = Len(q)
  OBVIOUS
<1>2. /\ DOMAIN q = 1 .. n /\ DOMAIN Append(q, e) = 1 .. n + 1 /\ Append(q, e)[n + 1] = e
      /\ \A i \in 1 .. n : Append(q, e)[i] = q[i]
      /\ \A i \in 1 .. n + 1 : i = n + 1 \/ i \in 1 .. n
  BY <1>1
<1>. QED  BY <1>2

-----------------------------------------------------------------------------
(* What is kept, whoever moves *)

\* What has been sent to its end stays as it is.
Settled == \A r \in Requests : Over(r) => Over(r)' /\ said'[r] = said[r]

\* Nothing has been said.
Silent ==
  \A r \in Requests :
    posted'[r] = posted[r] /\ said'[r] = said[r] /\ (Over(r)' <=> Over(r))

LEMMA ComingType ==
  ASSUME DataOK
  PROVE  /\ Coming \in Seq(Events) /\ Len(Coming) \in Nat /\ DOMAIN Coming = 1 .. Len(Coming)
         /\ \A i \in DOMAIN Coming : Coming[i] \in Events
<1>1. Coming \in Seq(Events)
  BY DEF DataOK, Coming
<1>. QED  BY <1>1

LEMMA Posted ==
  ASSUME DataOK, NEW e \in Events, Post(<<e>>), UNCHANGED events
  PROVE  /\ frames' \in Seq(Events) /\ Coming' = Append(Coming, e)
         /\ \A i \in DOMAIN Coming' : Coming'[i] = e \/ \E j \in DOMAIN Coming : Coming'[i] = Coming[j]
<1>1. events \in Seq(Events) /\ frames \in Seq(Events) /\ frames' = frames \o <<e>>
  BY DEF DataOK, Post
<1>2. /\ frames' \in Seq(Events) /\ Coming' = Append(Coming, e)
      /\ DOMAIN Append(Coming, e) = DOMAIN Coming \cup {Len(Coming) + 1}
      /\ Append(Coming, e)[Len(Coming) + 1] = e
      /\ \A i \in DOMAIN Coming : Append(Coming, e)[i] = Coming[i]
  BY <1>1, Appended DEF Coming
<1>. QED  BY <1>2

LEMMA EndsKept ==
  ASSUME EndsOK(Coming), Settled, NEW e,
         \A i \in DOMAIN Coming' : Coming'[i] = e \/ \E j \in DOMAIN Coming : Coming'[i] = Coming[j],
         e \in Replies /\ e.t \in {"end", "text"} =>
           /\ Over(e.of)' /\ e.text \in {<<>>, said'[e.of]}
           /\ e.t = "text" => e.text # <<>>
  PROVE  EndsOK(Coming)'
<1>. SUFFICES ASSUME NEW i \in DOMAIN Coming', Coming'[i] \in Replies, Coming'[i].t \in {"end", "text"},
                     NEW f, f = Coming'[i]
              PROVE  /\ Over(f.of)' /\ f.text \in {<<>>, said'[f.of]}
                     /\ f.t = "text" => f.text # <<>>
  BY DEF EndsOK
<1>1. CASE f = e
  BY <1>1
<1>2. CASE f # e
  <2>1. PICK j \in DOMAIN Coming : f = Coming[j]
    BY <1>2
  <2>2. Over(f.of) /\ f.text \in {<<>>, said[f.of]} /\ (f.t = "text" => f.text # <<>>)
    BY <2>1 DEF EndsOK
  <2>3. f.of \in Requests
    BY DEF Replies
  <2>. QED  BY <2>2, <2>3 DEF Settled
<1>. QED  BY <1>1, <1>2

\* The buffers keep step with what is said, when nothing is said.
LEMMA FlowKept ==
  ASSUME FlowOK, Running, Silent, UNCHANGED unseen, stale \subseteq stale',
         \A r \in Requests \ stale' : \A last \in Texts :
           Reads(Coming, r, buffers[r], last) => Reads(Coming', r, buffers'[r], last)
  PROVE  FlowOK'
<1>. SUFFICES ASSUME NEW r \in Requests \ stale'
              PROVE  \E last \in Texts :
                       /\ Reads(Coming', r, buffers'[r], last)
                       /\ ~Over(r)' => Len(last) <= posted'[r]
                       /\ r \notin unseen' => last = said'[r]
  BY DEF FlowOK, Reads, Reading, Effect
<1>1. PICK last \in Texts : /\ Reads(Coming, r, buffers[r], last)
                            /\ ~Over(r) => Len(last) <= posted[r]
                            /\ r \notin unseen => last = said[r]
  BY DEF FlowOK
<1>. QED  BY <1>1 DEF Silent

\* And when a part of a reply is sent.
LEMMA FlowPosted ==
  ASSUME DataOK, EndsOK(Coming), FlowOK, Running, NEW e \in Events, Coming' = Append(Coming, e),
         UNCHANGED <<stale, buffers, unseen>>,
         \A r \in Requests : e \notin Replies \/ e.of # r =>
           posted'[r] = posted[r] /\ said'[r] = said[r] /\ (Over(r)' <=> Over(r)),
         \A r \in Requests : e \in Replies /\ e.of = r =>
           /\ ~Over(r)
           /\ \A last \in Texts : Len(last) <= posted[r] =>
                /\ Effect(e, r, last) \in Texts
                /\ ~Over(r)' => Len(Effect(e, r, last)) <= posted'[r]
                /\ last = said[r] => Effect(e, r, last) = said'[r]
  PROVE  FlowOK'
<1>. SUFFICES ASSUME NEW r \in Requests \ stale
              PROVE  \E last \in Texts :
                       /\ Reads(Coming', r, buffers[r], last)
                       /\ ~Over(r)' => Len(last) <= posted'[r]
                       /\ r \notin unseen => last = said'[r]
  BY DEF FlowOK, Reads, Reading, Effect
<1>1. PICK last \in Texts : /\ Reads(Coming, r, buffers[r], last)
                            /\ ~Over(r) => Len(last) <= posted[r]
                            /\ r \notin unseen => last = said[r]
  BY DEF FlowOK
<1>2. Coming \in Seq(Events)
  BY ComingType
<1>3. CASE e \notin Replies \/ e.of # r
  <2>1. Effect(e, r, last) = last
    BY <1>3 DEF Effect
  <2>2. Reads(Append(Coming, e), r, buffers[r], last)
    BY <1>1, <1>2, <2>1, ReadMore
  <2>. QED  BY <1>1, <1>3, <2>2
<1>4. CASE e \in Replies /\ e.of = r
  <2>. DEFINE text == Effect(e, r, last)
  <2>1. ~Over(r)
    BY <1>4
  <2>2. /\ text \in Texts /\ (~Over(r)' => Len(text) <= posted'[r])
        /\ last = said[r] => text = said'[r]
    BY <1>1, <1>4, <2>1
  <2>3. \A i \in DOMAIN Coming : ~(Coming[i] \in Replies /\ Coming[i].of = r /\ Coming[i].t = "end")
    BY <2>1 DEF EndsOK
  <2>4. Reads(Append(Coming, e), r, buffers[r], text)
    BY <1>1, <1>2, <2>2, <2>3, ReadMore
  <2>. HIDE DEF text
  <2>. QED  BY <1>1, <2>2, <2>4
<1>. QED  BY <1>3, <1>4

\* What the agent and the transport leave alone.
LEMMA CommandWaits ==
  ASSUME IInv, Running, UNCHANGED sendVars, frames' \in Seq(Events), events' \in Seq(Events),
         message' \in {"unsent", "queued", "left", "lost"},
         used' \in [drops : 0 .. MaxDrops, failures : 0 .. MaxFailures]
  PROVE  DataOK' /\ ReplyIsWhole' /\ AnswersUs' /\ Running'
<1>1. phase' \in {"drain", "idle", "wait"}
  BY DEF Running, sendVars
<1>2. DataOK'
  BY <1>1 DEF IInv, DataOK, sendVars
<1>3. ReplyIsWhole' /\ AnswersUs' /\ Running'
  BY <1>1 DEF ReplyIsWhole, AnswersUs, Running
<1>. QED  BY <1>2, <1>3

-----------------------------------------------------------------------------
(* The agent's steps *)

LEMMA OtherAsksInv ==
  ASSUME IInv, Running, NEW r \in Requests, OtherAsks(r)
  PROVE  IInv'
<1>1. /\ r \in Others /\ asked' = asked \cup {r}
      /\ UNCHANGED <<sendVars, events, message, begun, turn, posted, said, unseen, used>>
      /\ UNCHANGED <<phase, last_status, stale, buffers, outbound, reply>>
  BY DEF OtherAsks, sendVars
<1>2. UNCHANGED link /\ UNCHANGED ended
  BY DEF OtherAsks
<1>3. DataOK /\ AgentOK
  BY DEF IInv
<1>4. PICK e \in Events : e = Question(r) /\ e.t = "asks" /\ e \notin Replies
  BY <1>1, QuestionParts
<1>5. \/ Post(<<e>>) /\ (disturbed' <=> disturbed \/ phase # "drain")
      \/ UNCHANGED frames /\ UNCHANGED disturbed
  BY <1>4 DEF OtherAsks
<1>6. /\ frames' \in Seq(Events)
      /\ \/ Coming' = Coming /\ UNCHANGED disturbed
         \/ Coming' = Append(Coming, e) /\ (disturbed' <=> disturbed \/ phase # "drain")
      /\ \A i \in DOMAIN Coming' : Coming'[i] = e \/ \E j \in DOMAIN Coming : Coming'[i] = Coming[j]
  <2>1. CASE Post(<<e>>) /\ (disturbed' <=> disturbed \/ phase # "drain")
    BY <1>1, <1>3, <2>1, Posted
  <2>2. CASE UNCHANGED frames /\ UNCHANGED disturbed
    BY <1>1, <1>3, <2>2 DEF DataOK, Coming
  <2>. QED  BY <1>5, <2>1, <2>2
<1>7. FlagsOK'
  <2>1. disturbed' \in BOOLEAN
    BY DEF OtherAsks, IInv, FlagsOK
  <2>. QED  BY <1>2, <2>1 DEF IInv, FlagsOK
<1>8. DataOK' /\ ReplyIsWhole' /\ AnswersUs'
  BY <1>1, <1>3, <1>6, CommandWaits DEF DataOK
<1>9. \A s : Over(s)' <=> Over(s)
  BY <1>1, <1>2 DEF Over
<1>10. AgentOK'
  BY <1>1, <1>3, <1>9 DEF AgentOK
<1>11. UnsentOK'
  BY <1>1, Mine DEF IInv, UnsentOK
<1>12. EndsOK(Coming)'
  <2>1. Settled
    BY <1>1, <1>9 DEF Settled
  <2>. QED  BY <1>4, <1>6, <2>1, EndsKept DEF IInv
<1>13. FlowOK'
  <2>1. Silent
    BY <1>1, <1>9 DEF Silent
  <2>2. CASE Coming' = Coming
    BY <1>1, <2>1, <2>2, FlowKept DEF IInv
  <2>3. CASE Coming' = Append(Coming, e)
    BY <1>1, <1>3, <1>4, <1>9, <2>3, FlowPosted DEF IInv
  <2>. QED  BY <1>6, <2>2, <2>3
<1>14. UndisturbedOK'
  <2>1. CASE Coming' = Coming /\ UNCHANGED disturbed
    BY <1>1, <2>1 DEF IInv, UndisturbedOK, TurnIsTold, IdleIsLast, OnlyOurs
  <2>2. CASE Coming' = Append(Coming, e) /\ (disturbed' <=> disturbed \/ phase # "drain")
    <3>. SUFFICES ASSUME ~disturbed', phase = "drain"
                  PROVE  turn \in unseen \/ TurnIsTold(Append(Coming, e), turn, last_status)
      BY <1>1, <2>2 DEF UndisturbedOK, TurnIsTold
    <3>1. turn \in unseen \/ TurnIsTold(Coming, turn, last_status)
      BY <2>2 DEF IInv, UndisturbedOK
    <3>2. Coming \in Seq(Events)
      BY <1>3, ComingType
    <3>. QED  BY <1>4, <3>1, <3>2, ToldMore
  <2>. QED  BY <1>6, <2>1, <2>2
<1>. QED  BY <1>7, <1>8, <1>10, <1>11, <1>12, <1>13, <1>14 DEF IInv

LEMMA TurnBeginsInv ==
  ASSUME IInv, Running, NEW r \in Requests, TurnBegins(r)
  PROVE  IInv'
<1>1. /\ turn = Nobody /\ r \in asked \ begun
      /\ turn' = r /\ begun' = begun \cup {r}
      /\ UNCHANGED <<sendVars, events, message, asked, posted, said, unseen, used>>
      /\ UNCHANGED <<phase, last_status, stale, buffers, outbound, reply>>
  BY DEF TurnBegins, sendVars
<1>2. ended' = FALSE /\ UNCHANGED link
  BY DEF TurnBegins
<1>3. disturbed' <=> disturbed \/ (r # mine /\ phase # "drain")
  BY DEF TurnBegins
<1>4. disturbed' \in BOOLEAN
  BY DEF TurnBegins, IInv, FlagsOK
<1>5. FlagsOK'
  BY <1>2, <1>4 DEF IInv, FlagsOK
<1>6. PICK s \in Busy : Post(IF r = mine THEN <<Word("ack"), Word(s)>> ELSE <<Word(s)>>)
  BY DEF TurnBegins
<1>7. DataOK /\ AgentOK
  BY DEF IInv
<1>8. PICK e \in Events : e = Word(s) /\ e.t \in Busy /\ e \notin Replies /\ e \notin Talk
  BY WordParts DEF Plain
<1>9. PICK a \in Events : a = Word("ack") /\ a.t = "ack" /\ a \notin Replies /\ a \notin Talk
  BY WordParts DEF Plain
<1>10. Coming \in Seq(Events) /\ events \in Seq(Events) /\ frames \in Seq(Events)
  BY <1>7, ComingType DEF DataOK
<1>11. PICK q \in Seq(Events) :
         /\ q = Coming \/ (r = mine /\ q = Append(Coming, a))
         /\ frames' \in Seq(Events) /\ Coming' = Append(q, e)
  <2>1. CASE r = mine
    <3>1. frames' = (frames \o <<a>>) \o <<e>>
      BY <1>6, <1>8, <1>9, <1>10, <2>1 DEF Post
    <3>2. /\ frames \o <<a>> \in Seq(Events)
          /\ events \o (frames \o <<a>>) = Append(Coming, a)
      BY <1>10, Appended DEF Coming
    <3>3. /\ (frames \o <<a>>) \o <<e>> \in Seq(Events)
          /\ events \o ((frames \o <<a>>) \o <<e>>) = Append(events \o (frames \o <<a>>), e)
      BY <1>10, <3>2, Appended
    <3>4. Append(Coming, a) \in Seq(Events)
      BY <1>10
    <3>. QED  BY <1>1, <2>1, <3>1, <3>2, <3>3, <3>4 DEF Coming
  <2>2. CASE r # mine
    BY <1>1, <1>6, <1>7, <1>8, <1>10, <2>2, Posted
  <2>. QED  BY <2>1, <2>2
<1>12. /\ \A i \in DOMAIN q : q[i] = a \/ \E j \in DOMAIN Coming : q[i] = Coming[j]
       /\ \A i \in DOMAIN Append(q, e) : Append(q, e)[i] = e \/ \E j \in DOMAIN q : Append(q, e)[i] = q[j]
  <2>1. \A i \in DOMAIN Append(q, e) : Append(q, e)[i] = e \/ \E j \in DOMAIN q : Append(q, e)[i] = q[j]
    BY AppendParts
  <2>2. CASE q = Coming
    BY <2>1, <2>2
  <2>3. CASE q = Append(Coming, a)
    <3>1. \A i \in DOMAIN q : q[i] = a \/ \E j \in DOMAIN Coming : q[i] = Coming[j]
      BY <1>10, <2>3, AppendParts
    <3>. QED  BY <2>1, <3>1
  <2>. QED  BY <1>11, <2>2, <2>3
<1>13. \A t \in Requests : Over(t)' <=> Over(t)
  BY <1>1, <1>2, NobodyAsks DEF Over
<1>14. DataOK' /\ ReplyIsWhole' /\ AnswersUs'
  BY <1>1, <1>10, <1>11, CommandWaits DEF IInv, DataOK
<1>15. AgentOK'
  BY <1>1, <1>7, <1>13 DEF AgentOK
<1>16. UnsentOK'
  BY <1>1 DEF IInv, UnsentOK
<1>17. EndsOK(Coming)'
  <2>. SUFFICES ASSUME NEW i \in DOMAIN Coming', Coming'[i] \in Replies, Coming'[i].t \in {"end", "text"},
                       NEW f, f = Coming'[i]
                PROVE  /\ Over(f.of)' /\ f.text \in {<<>>, said'[f.of]}
                       /\ f.t = "text" => f.text # <<>>
    BY DEF EndsOK
  <2>1. PICK j \in DOMAIN Coming : f = Coming[j]
    BY <1>8, <1>9, <1>11, <1>12
  <2>2. Over(f.of) /\ f.text \in {<<>>, said[f.of]} /\ (f.t = "text" => f.text # <<>>)
    BY <2>1 DEF IInv, EndsOK
  <2>3. f.of \in Requests
    BY DEF Replies
  <2>. QED  BY <1>1, <1>13, <2>2, <2>3
<1>18. FlowOK'
  <2>1. Silent
    BY <1>1, <1>13 DEF Silent
  <2>2. ASSUME NEW t, NEW last \in Texts, Reads(Coming, t, buffers[t], last)
        PROVE  Reads(Coming', t, buffers[t], last)
    <3>1. Effect(a, t, last) = last /\ Effect(e, t, last) = last
      BY <1>8, <1>9 DEF Effect
    <3>2. Reads(q, t, buffers[t], last)
      BY <1>9, <1>10, <1>11, <2>2, <3>1, ReadMore
    <3>. QED  BY <1>11, <3>1, <3>2, ReadMore
  <2>. QED  BY <1>1, <2>1, <2>2, FlowKept DEF IInv
<1>19. UndisturbedOK'
  <2>. SUFFICES ASSUME ~disturbed'
                PROVE  /\ phase = "drain" => TurnIsTold(Coming', turn', last_status)
                       /\ phase = "idle" => IdleIsLast(Coming', turn')
                       /\ phase = "wait" => OnlyOurs(Coming', turn', stale)
    BY <1>1 DEF UndisturbedOK, TurnIsTold, IdleIsLast, OnlyOurs
  <2>1. UndisturbedOK /\ ~disturbed /\ (r = mine \/ phase = "drain")
    BY <1>3 DEF IInv
  <2>2. CASE phase = "drain"
    <3>1. TurnIsTold(Coming, turn, last_status)
      BY <1>1 DEF TurnIsTold
    <3>2. TurnIsTold(q, turn, last_status)
      BY <1>1, <1>9, <1>10, <1>11, <3>1, ToldMore
    <3>3. TurnIsTold(Append(q, e), turn', last_status)
      BY <1>8, <1>11, <3>2, ToldMore
    <3>. QED  BY <1>11, <2>2, <3>3
  <2>3. CASE phase = "idle"
    BY <1>1, <2>1, <2>3 DEF IInv, UnsentOK
  <2>4. CASE phase = "wait"
    <3>1. OnlyOurs(Coming, turn, stale) /\ turn' = mine
      BY <1>1, <2>1, <2>4 DEF UndisturbedOK
    <3>2. OnlyOurs(q, turn', stale)
      BY <1>9, <1>11, <1>12, <3>1 DEF OnlyOurs
    <3>3. OnlyOurs(Append(q, e), turn', stale)
      BY <1>8, <1>12, <3>1, <3>2 DEF OnlyOurs
    <3>. QED  BY <1>11, <2>4, <3>3
  <2>5. phase \in {"drain", "idle", "wait"}
    BY DEF Running
  <2>. QED  BY <2>2, <2>3, <2>4, <2>5
<1>. QED  BY <1>5, <1>14, <1>15, <1>16, <1>17, <1>18, <1>19 DEF IInv

\* A part of the reply the agent works on: what the command knows of the agent
\* stays true.
LEMMA PartPosted ==
  ASSUME IInv, Running, NEW e \in Events, Coming' = Append(Coming, e), turn # Nobody,
         e \in Replies, e.of = turn,
         UNCHANGED <<phase, last_status, stale, turn, unseen>>, UNCHANGED disturbed
  PROVE  UndisturbedOK'
<1>. SUFFICES ASSUME ~disturbed
              PROVE  /\ phase = "drain" => \/ turn \in unseen
                                          \/ TurnIsTold(Append(Coming, e), turn, last_status)
                     /\ phase = "idle" => IdleIsLast(Append(Coming, e), turn)
                     /\ phase = "wait" => OnlyOurs(Append(Coming, e), turn, stale)
  BY DEF UndisturbedOK, TurnIsTold, IdleIsLast, OnlyOurs
<1>1. Coming \in Seq(Events) /\ UndisturbedOK
  BY ComingType DEF IInv
<1>2. e.t \notin Plain
  BY EventParts DEF Replies, Plain, Busy
<1>3. e.t # "idle"
  BY <1>2 DEF Plain
<1>4. phase = "drain" => turn \in unseen \/ TurnIsTold(Append(Coming, e), turn, last_status)
  BY <1>1, <1>3, ToldMore DEF UndisturbedOK
<1>5. phase = "idle" => IdleIsLast(Append(Coming, e), turn)
  BY <1>1, <1>3, IdleMore DEF UndisturbedOK
<1>6. ASSUME phase = "wait" PROVE OnlyOurs(Append(Coming, e), turn, stale)
  <2>1. OnlyOurs(Coming, turn, stale)
    BY <1>1, <1>6 DEF UndisturbedOK
  <2>2. turn \in {mine} \cup stale
    BY <2>1 DEF OnlyOurs
  <2>3. \A i \in DOMAIN Append(Coming, e) :
          Append(Coming, e)[i] = e \/ \E j \in DOMAIN Coming : Append(Coming, e)[i] = Coming[j]
    BY <1>1, AppendParts
  <2>. QED  BY <2>1, <2>2, <2>3 DEF OnlyOurs
<1>. QED  BY <1>4, <1>5, <1>6

\* What the agent works on has not been sent to its end.
LEMMA TurnParts ==
  ASSUME AgentOK, turn # Nobody, ~ended
  PROVE  /\ turn \in Requests /\ turn \in begun /\ ~Over(turn)
         /\ posted[turn] \in 0 .. MaxDeltas /\ said[turn] \in Texts
         /\ Len(said[turn]) <= posted[turn]
<1>1. turn \in Requests /\ turn \in begun
  BY DEF AgentOK
<1>2. ~Over(turn)
  BY DEF Over
<1>. QED  BY <1>1, <1>2 DEF AgentOK

LEMMA TurnSaysInv ==
  ASSUME IInv, Running, TurnSays
  PROVE  IInv'
<1>1. /\ turn # Nobody /\ posted[turn] < MaxDeltas
      /\ posted' = [posted EXCEPT ![turn] = posted[turn] + 1]
      /\ said' = [said EXCEPT ![turn] = Append(said[turn], posted[turn] + 1)]
      /\ Post(<<Frame("delta", turn, <<posted[turn] + 1>>)>>)
      /\ UNCHANGED <<sendVars, events, message, asked, begun, turn, unseen, used>>
      /\ UNCHANGED <<phase, last_status, stale, buffers, outbound, reply>>
  BY DEF TurnSays, sendVars
<1>2. ~ended /\ UNCHANGED link /\ UNCHANGED ended /\ UNCHANGED disturbed
  BY DEF TurnSays
<1>3. DataOK /\ AgentOK
  BY DEF IInv
<1>4. /\ turn \in Requests /\ ~Over(turn) /\ posted[turn] \in 0 .. MaxDeltas
      /\ said[turn] \in Texts /\ Len(said[turn]) <= posted[turn]
  BY <1>1, <1>2, <1>3, TurnParts
<1>5. PICK k \in 0 .. MaxDeltas : k = posted[turn] /\ k < MaxDeltas
  BY <1>1, <1>4
<1>6. k + 1 \in 0 .. MaxDeltas /\ k + 1 \in 1 .. MaxDeltas + 1 /\ MaxDeltas \in Nat
  BY <1>5, BoundsAssumption
<1>7. <<k + 1>> \in Texts
  BY <1>6, ShortTexts
<1>8. PICK e \in Events : /\ e = Frame("delta", turn, <<k + 1>>) /\ e \in Replies
                          /\ e.t = "delta" /\ e.of = turn /\ e.text = <<k + 1>>
  BY <1>4, <1>7, FrameParts
<1>9. /\ frames' \in Seq(Events) /\ Coming' = Append(Coming, e)
      /\ \A i \in DOMAIN Coming' : Coming'[i] = e \/ \E j \in DOMAIN Coming : Coming'[i] = Coming[j]
  BY <1>1, <1>3, <1>5, <1>8, Posted
<1>10. FlagsOK'
  BY <1>2 DEF IInv, FlagsOK
<1>11. DataOK' /\ ReplyIsWhole' /\ AnswersUs'
  BY <1>1, <1>3, <1>9, CommandWaits DEF DataOK
<1>12. \A r : Over(r)' <=> Over(r)
  BY <1>1, <1>2 DEF Over
<1>13. ASSUME NEW text \in Texts, Len(text) <= k
       PROVE  /\ text \o <<k + 1>> \in Texts /\ Append(text, k + 1) = text \o <<k + 1>>
              /\ Len(text \o <<k + 1>>) <= k + 1
  BY <1>5, <1>13, TextGrows
<1>14. /\ posted'[turn] = k + 1 /\ said'[turn] = said[turn] \o <<k + 1>>
       /\ \A r \in Requests \ {turn} : posted'[r] = posted[r] /\ said'[r] = said[r]
  BY <1>1, <1>3, <1>4, <1>5, <1>13 DEF AgentOK
<1>15. said[turn] \o <<k + 1>> \in Texts /\ Len(said[turn] \o <<k + 1>>) <= k + 1
  BY <1>4, <1>5, <1>13
<1>16. AgentOK'
  <2>1. posted' \in [Requests -> 0 .. MaxDeltas]
    BY <1>1, <1>3, <1>5, <1>6 DEF AgentOK
  <2>2. said' \in [Requests -> Texts]
    <3>1. said' = [said EXCEPT ![turn] = said[turn] \o <<k + 1>>]
      BY <1>1, <1>4, <1>5, <1>13
    <3>. QED  BY <1>3, <1>15, <3>1 DEF AgentOK
  <2>3. \A r \in Requests : ~Over(r)' => Len(said'[r]) <= posted'[r]
    BY <1>3, <1>12, <1>14, <1>15 DEF AgentOK
  <2>. QED  BY <1>1, <1>3, <2>1, <2>2, <2>3 DEF AgentOK
<1>17. UnsentOK'
  BY <1>1 DEF IInv, UnsentOK
<1>18. EndsOK(Coming)'
  <2>1. Settled
    BY <1>4, <1>12, <1>14 DEF Settled
  <2>2. EndsOK(Coming) /\ ~(e \in Replies /\ e.t \in {"end", "text"})
    BY <1>8 DEF IInv
  <2>. QED  BY <1>9, <2>1, <2>2, EndsKept
<1>19. FlowOK'
  <2>1. \A text : Effect(e, turn, text) = text \o <<k + 1>>
    BY <1>8 DEF Effect
  <2>2. \A r \in Requests : e \notin Replies \/ e.of # r =>
           posted'[r] = posted[r] /\ said'[r] = said[r] /\ (Over(r)' <=> Over(r))
    BY <1>8, <1>12, <1>14
  <2>3. \A r \in Requests : e \in Replies /\ e.of = r =>
          /\ ~Over(r)
          /\ \A last \in Texts : Len(last) <= posted[r] =>
                /\ Effect(e, r, last) \in Texts
                /\ ~Over(r)' => Len(Effect(e, r, last)) <= posted'[r]
                /\ last = said[r] => Effect(e, r, last) = said'[r]
    <3>1. \A last \in Texts : Len(last) <= k =>
            /\ last \o <<k + 1>> \in Texts /\ Len(last \o <<k + 1>>) <= k + 1
            /\ last = said[turn] => last \o <<k + 1>> = said'[turn]
      BY <1>13, <1>14
    <3>2. \A last \in Texts : Len(last) <= posted[turn] =>
            /\ Effect(e, turn, last) \in Texts
            /\ Len(Effect(e, turn, last)) <= posted'[turn]
            /\ last = said[turn] => Effect(e, turn, last) = said'[turn]
      BY <1>5, <1>14, <2>1, <3>1
    <3>. QED  BY <1>4, <1>8, <3>2
  <2>. QED  BY <1>1, <1>3, <1>9, <2>2, <2>3, FlowPosted DEF IInv
<1>20. UndisturbedOK'
  BY <1>1, <1>2, <1>8, <1>9, PartPosted
<1>. QED  BY <1>10, <1>11, <1>16, <1>17, <1>18, <1>19, <1>20 DEF IInv

LEMMA TurnResetsInv ==
  ASSUME IInv, Running, TurnResets
  PROVE  IInv'
<1>1. /\ turn # Nobody /\ said' = [said EXCEPT ![turn] = <<>>]
      /\ Post(<<Frame("reset", turn, <<>>)>>)
      /\ UNCHANGED <<sendVars, events, message, asked, begun, turn, posted, unseen, used>>
      /\ UNCHANGED <<phase, last_status, stale, buffers, outbound, reply>>
  BY DEF TurnResets, sendVars
<1>2. ~ended /\ UNCHANGED link /\ UNCHANGED ended /\ UNCHANGED disturbed
  BY DEF TurnResets
<1>3. DataOK /\ AgentOK
  BY DEF IInv
<1>4. turn \in Requests /\ ~Over(turn) /\ posted[turn] \in 0 .. MaxDeltas
  BY <1>1, <1>2, <1>3, TurnParts
<1>5. <<>> \in Texts /\ Len(<<>>) = 0 /\ Len(<<>>) <= posted[turn]
  BY <1>4, ShortTexts
<1>6. PICK e \in Events : /\ e = Frame("reset", turn, <<>>) /\ e \in Replies
                          /\ e.t = "reset" /\ e.of = turn /\ e.text = <<>>
  BY <1>4, <1>5, FrameParts
<1>7. /\ frames' \in Seq(Events) /\ Coming' = Append(Coming, e)
      /\ \A i \in DOMAIN Coming' : Coming'[i] = e \/ \E j \in DOMAIN Coming : Coming'[i] = Coming[j]
  BY <1>1, <1>3, <1>6, Posted
<1>8. FlagsOK'
  BY <1>2 DEF IInv, FlagsOK
<1>9. DataOK' /\ ReplyIsWhole' /\ AnswersUs'
  BY <1>1, <1>3, <1>7, CommandWaits DEF DataOK
<1>10. \A r : Over(r)' <=> Over(r)
  BY <1>1, <1>2 DEF Over
<1>11. said'[turn] = <<>> /\ \A r \in Requests \ {turn} : said'[r] = said[r]
  BY <1>1, <1>3, <1>4 DEF AgentOK
<1>12. AgentOK'
  <2>1. said' \in [Requests -> Texts]
    BY <1>1, <1>3, <1>5 DEF AgentOK
  <2>2. \A r \in Requests : ~Over(r)' => Len(said'[r]) <= posted'[r]
    BY <1>1, <1>3, <1>5, <1>10, <1>11 DEF AgentOK
  <2>. QED  BY <1>1, <1>3, <2>1, <2>2 DEF AgentOK
<1>13. UnsentOK'
  BY <1>1 DEF IInv, UnsentOK
<1>14. EndsOK(Coming)'
  <2>1. Settled
    BY <1>4, <1>10, <1>11 DEF Settled
  <2>. QED  BY <1>6, <1>7, <2>1, EndsKept DEF IInv
<1>15. FlowOK'
  <2>1. \A text : Effect(e, turn, text) = <<>>
    BY <1>6 DEF Effect
  <2>2. \A r \in Requests : e \notin Replies \/ e.of # r =>
           posted'[r] = posted[r] /\ said'[r] = said[r] /\ (Over(r)' <=> Over(r))
    BY <1>1, <1>6, <1>10, <1>11
  <2>3. \A r \in Requests : e \in Replies /\ e.of = r =>
          /\ ~Over(r)
          /\ \A last \in Texts : Len(last) <= posted[r] =>
                /\ Effect(e, r, last) \in Texts
                /\ ~Over(r)' => Len(Effect(e, r, last)) <= posted'[r]
                /\ last = said[r] => Effect(e, r, last) = said'[r]
    BY <1>1, <1>4, <1>5, <1>6, <1>11, <2>1
  <2>. QED  BY <1>1, <1>3, <1>7, <2>2, <2>3, FlowPosted DEF IInv
<1>16. UndisturbedOK'
  BY <1>1, <1>2, <1>6, <1>7, PartPosted
<1>. QED  BY <1>8, <1>9, <1>12, <1>13, <1>14, <1>15, <1>16 DEF IInv

LEMMA TurnEndsInv ==
  ASSUME IInv, Running, TurnEnds
  PROVE  IInv'
<1>1. /\ turn # Nobody
      /\ UNCHANGED <<sendVars, events, message, asked, begun, turn, posted, unseen, used>>
      /\ UNCHANGED <<phase, last_status, stale, buffers, outbound, reply>>
  BY DEF TurnEnds, sendVars
<1>2. ~ended /\ ended' = TRUE /\ UNCHANGED link /\ UNCHANGED disturbed
  BY DEF TurnEnds
<1>3. DataOK /\ AgentOK
  BY DEF IInv
<1>4. /\ turn \in Requests /\ turn \in begun /\ ~Over(turn) /\ posted[turn] \in 0 .. MaxDeltas
      /\ said[turn] \in Texts /\ Len(said[turn]) <= posted[turn]
  BY <1>1, <1>2, <1>3, TurnParts
<1>5. 1 \in 1 .. MaxDeltas + 1
  BY BoundsAssumption
<1>6. PICK e \in Events, text \in Texts :
        /\ e \in Replies /\ e.of = turn /\ e.text = text /\ Post(<<e>>)
        /\ said' = [said EXCEPT ![turn] = IF e.t = "end" THEN said[turn] ELSE << 1 >>]
        /\ \/ e.t = "end" /\ text \in {said[turn], <<>>}
           \/ e.t = "text" /\ text = << 1 >> /\ posted[turn] = 0
  <2>1. ASSUME NEW text \in {said[turn], <<>>}, Post(<<Frame("end", turn, text)>>), UNCHANGED said
        PROVE  \E e \in Events, x \in Texts :
                 /\ e \in Replies /\ e.of = turn /\ e.text = x /\ Post(<<e>>)
                 /\ said' = [said EXCEPT ![turn] = IF e.t = "end" THEN said[turn] ELSE << 1 >>]
                 /\ \/ e.t = "end" /\ x \in {said[turn], <<>>}
                    \/ e.t = "text" /\ x = << 1 >> /\ posted[turn] = 0
    <3>1. text \in Texts
      BY <1>4, ShortTexts
    <3>2. PICK e \in Events : /\ e = Frame("end", turn, text) /\ e \in Replies
                              /\ e.t = "end" /\ e.of = turn /\ e.text = text
      BY <1>4, <3>1, FrameParts
    <3>3. said' = [said EXCEPT ![turn] = said[turn]]
      BY <1>3, <2>1 DEF AgentOK
    <3>. QED  BY <2>1, <3>1, <3>2, <3>3
  <2>2. ASSUME posted[turn] = 0, said' = [said EXCEPT ![turn] = << 1 >>],
               Post(<<Frame("text", turn, << 1 >>)>>)
        PROVE  \E e \in Events, x \in Texts :
                 /\ e \in Replies /\ e.of = turn /\ e.text = x /\ Post(<<e>>)
                 /\ said' = [said EXCEPT ![turn] = IF e.t = "end" THEN said[turn] ELSE << 1 >>]
                 /\ \/ e.t = "end" /\ x \in {said[turn], <<>>}
                    \/ e.t = "text" /\ x = << 1 >> /\ posted[turn] = 0
    <3>1. << 1 >> \in Texts
      BY <1>5, ShortTexts
    <3>2. PICK e \in Events : /\ e = Frame("text", turn, << 1 >>) /\ e \in Replies
                              /\ e.t = "text" /\ e.of = turn /\ e.text = << 1 >>
      BY <1>4, <3>1, FrameParts
    <3>. QED  BY <2>2, <3>1, <3>2
  <2>. QED  BY <2>1, <2>2 DEF TurnEnds
<1>7. /\ frames' \in Seq(Events) /\ Coming' = Append(Coming, e)
      /\ \A i \in DOMAIN Coming' : Coming'[i] = e \/ \E j \in DOMAIN Coming : Coming'[i] = Coming[j]
  BY <1>1, <1>3, <1>6, Posted
<1>8. FlagsOK'
  BY <1>2 DEF IInv, FlagsOK
<1>9. DataOK' /\ ReplyIsWhole' /\ AnswersUs'
  BY <1>1, <1>3, <1>7, CommandWaits DEF DataOK
<1>10. \A r \in Requests : Over(r)' <=> Over(r) \/ r = turn
  BY <1>1, <1>2, <1>4 DEF Over
<1>11. /\ said'[turn] = IF e.t = "end" THEN said[turn] ELSE << 1 >>
       /\ \A r \in Requests \ {turn} : said'[r] = said[r]
  BY <1>3, <1>4, <1>6 DEF AgentOK
<1>12. << 1 >> \in Texts /\ << 1 >> # <<>>
  BY <1>5, ShortTexts
<1>13. AgentOK'
  <2>1. said' \in [Requests -> Texts]
    BY <1>3, <1>4, <1>6, <1>12 DEF AgentOK
  <2>2. \A r \in Requests : ~Over(r)' => Len(said'[r]) <= posted'[r]
    BY <1>1, <1>3, <1>10, <1>11 DEF AgentOK
  <2>. QED  BY <1>1, <1>3, <2>1, <2>2 DEF AgentOK
<1>14. UnsentOK'
  BY <1>1 DEF IInv, UnsentOK
<1>15. EndsOK(Coming)'
  <2>1. Settled
    BY <1>4, <1>10, <1>11 DEF Settled
  <2>2. /\ Over(e.of)' /\ e.text \in {<<>>, said'[e.of]}
        /\ e.t = "text" => e.text # <<>>
    <3>1. Over(e.of)'
      BY <1>4, <1>6, <1>10
    <3>. QED  BY <1>6, <1>11, <1>12, <3>1
  <2>. QED  BY <1>7, <2>1, <2>2, EndsKept DEF IInv
<1>16. FlowOK'
  <2>1. \A x : Effect(e, turn, x) = IF e.t = "end" THEN x ELSE << 1 >>
    BY <1>6 DEF Effect
  <2>2. \A r \in Requests : e \notin Replies \/ e.of # r =>
           posted'[r] = posted[r] /\ said'[r] = said[r] /\ (Over(r)' <=> Over(r))
    BY <1>1, <1>6, <1>10, <1>11
  <2>3. \A r \in Requests : e \in Replies /\ e.of = r =>
          /\ ~Over(r)
          /\ \A last \in Texts : Len(last) <= posted[r] =>
                /\ Effect(e, r, last) \in Texts
                /\ ~Over(r)' => Len(Effect(e, r, last)) <= posted'[r]
                /\ last = said[r] => Effect(e, r, last) = said'[r]
    <3>1. \A last \in Texts :
            /\ Effect(e, turn, last) \in Texts
            /\ last = said[turn] => Effect(e, turn, last) = said'[turn]
      BY <1>11, <1>12, <2>1
    <3>. QED  BY <1>4, <1>6, <1>10, <3>1
  <2>. QED  BY <1>1, <1>3, <1>7, <2>2, <2>3, FlowPosted DEF IInv
<1>17. UndisturbedOK'
  BY <1>1, <1>2, <1>6, <1>7, PartPosted
<1>. QED  BY <1>8, <1>9, <1>13, <1>14, <1>15, <1>16, <1>17 DEF IInv

LEMMA TurnIsOverInv ==
  ASSUME IInv, Running, TurnIsOver
  PROVE  IInv'
<1>1. /\ turn # Nobody /\ turn' = Nobody /\ Post(<<Word("idle")>>)
      /\ UNCHANGED <<sendVars, events, message, asked, begun, posted, said, unseen, used>>
      /\ UNCHANGED <<phase, last_status, stale, buffers, outbound, reply>>
  BY DEF TurnIsOver, sendVars
<1>2. ended /\ ended' = FALSE /\ UNCHANGED link /\ UNCHANGED disturbed
  BY DEF TurnIsOver
<1>3. DataOK /\ AgentOK
  BY DEF IInv
<1>4. PICK e \in Events : e = Word("idle") /\ e.t = "idle" /\ e \notin Replies /\ e \notin Talk
  BY WordParts DEF Plain
<1>5. /\ frames' \in Seq(Events) /\ Coming' = Append(Coming, e)
      /\ \A i \in DOMAIN Coming' : Coming'[i] = e \/ \E j \in DOMAIN Coming : Coming'[i] = Coming[j]
  BY <1>1, <1>3, <1>4, Posted
<1>6. FlagsOK'
  BY <1>2 DEF IInv, FlagsOK
<1>7. DataOK' /\ ReplyIsWhole' /\ AnswersUs'
  BY <1>1, <1>3, <1>5, CommandWaits DEF DataOK
<1>8. \A r \in Requests : Over(r)' <=> Over(r)
  BY <1>1, <1>2, NobodyAsks DEF Over
<1>9. AgentOK'
  BY <1>1, <1>3, <1>8 DEF AgentOK
<1>10. UnsentOK'
  BY <1>1 DEF IInv, UnsentOK
<1>11. EndsOK(Coming)'
  <2>1. Settled
    BY <1>1, <1>8 DEF Settled
  <2>. QED  BY <1>4, <1>5, <2>1, EndsKept DEF IInv
<1>12. FlowOK'
  BY <1>1, <1>3, <1>4, <1>5, <1>8, FlowPosted DEF IInv
<1>13. UndisturbedOK'
  <2>. SUFFICES ASSUME ~disturbed
                PROVE  /\ phase = "drain" => TurnIsTold(Append(Coming, e), Nobody, last_status)
                       /\ phase = "idle" => IdleIsLast(Append(Coming, e), Nobody)
                       /\ phase = "wait" => OnlyOurs(Append(Coming, e), Nobody, stale)
    BY <1>1, <1>2, <1>5 DEF UndisturbedOK, TurnIsTold, IdleIsLast, OnlyOurs
  <2>1. Coming \in Seq(Events) /\ UndisturbedOK
    BY ComingType DEF IInv
  <2>2. phase = "idle" => IdleIsLast(Append(Coming, e), Nobody)
    BY <1>4, <2>1, IdleMore DEF UndisturbedOK
  <2>3. phase = "wait" => OnlyOurs(Append(Coming, e), Nobody, stale)
    BY <1>4, <1>5, <2>1 DEF UndisturbedOK, OnlyOurs
  <2>. QED  BY <2>2, <2>3 DEF TurnIsTold
<1>. QED  BY <1>6, <1>7, <1>9, <1>10, <1>11, <1>12, <1>13 DEF IInv

-----------------------------------------------------------------------------
(* The transport's steps *)

LEMMA ArrivesInv ==
  ASSUME IInv, Running, Arrives
  PROVE  IInv'
<1>1. /\ frames # <<>> /\ events' = Append(events, Head(frames)) /\ frames' = Tail(frames)
      /\ UNCHANGED <<sendVars, message, asked, begun, turn, posted, said, unseen, used>>
      /\ UNCHANGED <<phase, last_status, stale, buffers, outbound, reply>>
  BY DEF Arrives, sendVars, agentVars
<1>2. UNCHANGED link /\ UNCHANGED ended /\ UNCHANGED disturbed
  BY DEF Arrives, agentVars
<1>3. DataOK
  BY DEF IInv
<1>4. Coming' = Coming /\ events' \in Seq(Events) /\ frames' \in Seq(Events)
  <2>1. events \in Seq(Events) /\ frames \in Seq(Events)
    BY <1>3 DEF DataOK
  <2>. QED  BY <1>1, <2>1, Arrived DEF Coming
<1>5. FlagsOK'
  BY <1>2 DEF IInv, FlagsOK
<1>6. DataOK' /\ ReplyIsWhole' /\ AnswersUs'
  BY <1>1, <1>3, <1>4, CommandWaits DEF DataOK
<1>7. \A r : Over(r)' <=> Over(r)
  BY <1>1, <1>2 DEF Over
<1>8. AgentOK' /\ UnsentOK'
  BY <1>1, <1>7 DEF IInv, AgentOK, UnsentOK
<1>9. EndsOK(Coming)'
  BY <1>1, <1>4, <1>7 DEF IInv, EndsOK
<1>10. FlowOK'
  <2>1. Silent
    BY <1>1, <1>7 DEF Silent
  <2>. QED  BY <1>1, <1>4, <2>1, FlowKept DEF IInv
<1>11. UndisturbedOK'
  BY <1>1, <1>2, <1>4 DEF IInv, UndisturbedOK, TurnIsTold, IdleIsLast, OnlyOurs
<1>. QED  BY <1>5, <1>6, <1>8, <1>9, <1>10, <1>11 DEF IInv

LEMMA MessageLeavesInv ==
  ASSUME IInv, Running, MessageLeaves
  PROVE  IInv'
<1>1. /\ message = "queued" /\ message' = "left" /\ asked' = asked \cup {mine}
      /\ UNCHANGED frames \/ Post(<<Word("sent")>>)
      /\ UNCHANGED <<sendVars, events, begun, turn, posted, said, unseen, used>>
      /\ UNCHANGED <<phase, last_status, stale, buffers, outbound, reply>>
  BY DEF MessageLeaves, sendVars
<1>2. UNCHANGED link /\ UNCHANGED ended /\ UNCHANGED disturbed
  BY DEF MessageLeaves
<1>3. DataOK /\ AgentOK
  BY DEF IInv
<1>4. PICK e \in Events : e = Word("sent") /\ e.t = "sent" /\ e \notin Replies /\ e \notin Talk
  BY WordParts DEF Plain
<1>5. /\ frames' \in Seq(Events)
      /\ Coming' = Coming \/ Coming' = Append(Coming, e)
      /\ \A i \in DOMAIN Coming' : Coming'[i] = e \/ \E j \in DOMAIN Coming : Coming'[i] = Coming[j]
  <2>1. CASE UNCHANGED frames
    BY <1>1, <1>3, <2>1 DEF DataOK, Coming
  <2>2. CASE Post(<<e>>)
    BY <1>1, <1>3, <2>2, Posted
  <2>. QED  BY <1>1, <1>4, <2>1, <2>2
<1>6. FlagsOK'
  BY <1>2 DEF IInv, FlagsOK
<1>7. DataOK' /\ ReplyIsWhole' /\ AnswersUs'
  <2>1. /\ events' \in Seq(Events) /\ message' \in {"unsent", "queued", "left", "lost"}
        /\ used' \in [drops : 0 .. MaxDrops, failures : 0 .. MaxFailures]
        /\ UNCHANGED sendVars
    BY <1>1, <1>3 DEF DataOK
  <2>. QED  BY <1>5, <2>1, CommandWaits
<1>8. \A r : Over(r)' <=> Over(r)
  BY <1>1, <1>2 DEF Over
<1>9. AgentOK'
  BY <1>1, <1>3, <1>8, Mine DEF AgentOK
<1>10. phase = "wait"
  BY <1>1 DEF IInv, UnsentOK, Running
<1>11. UnsentOK'
  BY <1>1, <1>10 DEF UnsentOK
<1>12. EndsOK(Coming)'
  <2>1. Settled
    BY <1>1, <1>8 DEF Settled
  <2>. QED  BY <1>4, <1>5, <2>1, EndsKept DEF IInv
<1>13. FlowOK'
  <2>1. Silent
    BY <1>1, <1>8 DEF Silent
  <2>2. CASE Coming' = Coming
    BY <1>1, <2>1, <2>2, FlowKept DEF IInv
  <2>3. CASE Coming' = Append(Coming, e)
    BY <1>1, <1>3, <1>4, <1>8, <2>3, FlowPosted DEF IInv
  <2>. QED  BY <1>5, <2>2, <2>3
<1>14. UndisturbedOK'
  <2>. SUFFICES ASSUME ~disturbed PROVE OnlyOurs(Coming', turn, stale)
    BY <1>1, <1>2, <1>10 DEF UndisturbedOK, OnlyOurs
  <2>1. OnlyOurs(Coming, turn, stale)
    BY <1>10 DEF IInv, UndisturbedOK
  <2>. QED  BY <1>4, <1>5, <2>1 DEF OnlyOurs
<1>. QED  BY <1>6, <1>7, <1>9, <1>11, <1>12, <1>13, <1>14 DEF IInv

\* The link goes and returns, and nothing is handed over.
LEMMA LinkInv ==
  ASSUME IInv, Running, link' \in BOOLEAN,
         UNCHANGED <<sendVars, frames, events, asked, begun, turn, posted, said, unseen>>,
         UNCHANGED ended, UNCHANGED disturbed,
         message' \in IF message = "queued" THEN {"queued", "lost"} ELSE {message},
         used' \in [drops : 0 .. MaxDrops, failures : 0 .. MaxFailures]
  PROVE  IInv'
<1>1. UNCHANGED <<phase, last_status, stale, buffers, outbound, reply>>
  BY DEF sendVars
<1>2. DataOK /\ AgentOK /\ events \in Seq(Events)
  BY DEF IInv, DataOK
<1>3. Coming' = Coming
  BY DEF Coming
<1>4. FlagsOK'
  BY DEF IInv, FlagsOK
<1>5. DataOK' /\ ReplyIsWhole' /\ AnswersUs'
  BY <1>2, <1>3, CommandWaits DEF DataOK
<1>6. \A r : Over(r)' <=> Over(r)
  BY DEF Over
<1>7. AgentOK' /\ UnsentOK'
  BY <1>1, <1>2, <1>6 DEF IInv, AgentOK, UnsentOK
<1>8. EndsOK(Coming)'
  BY <1>1, <1>3, <1>6 DEF IInv, EndsOK
<1>9. FlowOK'
  <2>1. Silent
    BY <1>6 DEF Silent
  <2>. QED  BY <1>1, <1>3, <2>1, FlowKept DEF IInv
<1>10. UndisturbedOK'
  BY <1>1, <1>3 DEF IInv, UndisturbedOK, TurnIsTold, IdleIsLast, OnlyOurs
<1>. QED  BY <1>4, <1>5, <1>7, <1>8, <1>9, <1>10 DEF IInv

\* The failure of a reconnect is handed over at once, before frames under way.
LEMMA ConnectionInv ==
  ASSUME IInv, Running, events' = Append(events, Word("failed")),
         UNCHANGED <<sendVars, frames, asked, begun, turn, posted, said, unseen>>,
         UNCHANGED ended, UNCHANGED disturbed, link' \in BOOLEAN,
         message' \in IF message = "queued" THEN {"queued", "lost"} ELSE {message},
         used' \in [drops : 0 .. MaxDrops, failures : 0 .. MaxFailures]
  PROVE  IInv'
<1>1. UNCHANGED <<phase, last_status, stale, buffers, outbound, reply>>
  BY DEF sendVars
<1>2. PICK e \in Events : /\ e = Word("failed") /\ e.t = "failed"
                          /\ e \notin Replies /\ e \notin Talk
  BY WordParts DEF Plain
<1>3. DataOK /\ AgentOK /\ events \in Seq(Events) /\ frames \in Seq(Events)
  BY DEF IInv, DataOK
<1>4. /\ events' \in Seq(Events) /\ Coming' = Append(events, e) \o frames
      /\ \A i \in DOMAIN Coming' : Coming'[i] = e \/ \E j \in DOMAIN Coming : Coming'[i] = Coming[j]
  <2>1. /\ Append(events, e) \in Seq(Events)
        /\ \A i \in DOMAIN (Append(events, e) \o frames) :
             \/ (Append(events, e) \o frames)[i] = e
             \/ \E j \in DOMAIN (events \o frames) : (Append(events, e) \o frames)[i] = (events \o frames)[j]
    BY <1>3, InsertParts
  <2>. QED  BY <1>2, <2>1 DEF Coming
<1>5. FlagsOK'
  BY DEF IInv, FlagsOK
<1>6. DataOK' /\ ReplyIsWhole' /\ AnswersUs'
  BY <1>3, <1>4, CommandWaits DEF DataOK
<1>7. \A r : Over(r)' <=> Over(r)
  BY DEF Over
<1>8. AgentOK'
  BY <1>3, <1>7 DEF AgentOK
<1>9. UnsentOK'
  BY <1>1 DEF IInv, UnsentOK
<1>10. EndsOK(Coming)'
  <2>1. Settled
    BY <1>7 DEF Settled
  <2>. QED  BY <1>2, <1>4, <2>1, EndsKept DEF IInv
<1>11. FlowOK'
  <2>1. Silent
    BY <1>7 DEF Silent
  <2>2. ASSUME NEW r, NEW last, Reads(Coming, r, buffers[r], last)
        PROVE  Reads(Coming', r, buffers[r], last)
    BY <1>2, <1>3, <1>4, <2>2, ReadInserted DEF Coming
  <2>. QED  BY <1>1, <2>1, <2>2, FlowKept DEF IInv
<1>12. UndisturbedOK'
  <2>. SUFFICES ASSUME ~disturbed
                PROVE  /\ phase = "drain" => turn \in unseen \/ TurnIsTold(Coming', turn, last_status)
                       /\ phase = "idle" => IdleIsLast(Coming', turn)
                       /\ phase = "wait" => OnlyOurs(Coming', turn, stale)
    BY <1>1 DEF UndisturbedOK, TurnIsTold, IdleIsLast, OnlyOurs
  <2>1. UndisturbedOK
    BY DEF IInv
  <2>2. ASSUME phase = "drain", turn \notin unseen PROVE TurnIsTold(Coming', turn, last_status)
    <3>1. TurnIsTold(events \o frames, turn, last_status)
      BY <2>1, <2>2 DEF UndisturbedOK, Coming
    <3>. QED  BY <1>2, <1>3, <1>4, <3>1, ToldInserted
  <2>3. ASSUME phase = "idle" PROVE IdleIsLast(Coming', turn)
    <3>1. IdleIsLast(events \o frames, turn)
      BY <2>1, <2>3 DEF UndisturbedOK, Coming
    <3>. QED  BY <1>2, <1>3, <1>4, <3>1, IdleInserted
  <2>4. ASSUME phase = "wait" PROVE OnlyOurs(Coming', turn, stale)
    <3>1. OnlyOurs(Coming, turn, stale)
      BY <2>1, <2>4 DEF UndisturbedOK
    <3>. QED  BY <1>2, <1>4, <3>1 DEF OnlyOurs
  <2>. QED  BY <2>2, <2>3, <2>4
<1>. QED  BY <1>5, <1>6, <1>8, <1>9, <1>10, <1>11, <1>12 DEF IInv

LEMMA TransportInv ==
  ASSUME IInv, Running, Transport
  PROVE  IInv'
<1>1. CASE Arrives
  BY <1>1, ArrivesInv
<1>2. CASE MessageLeaves
  BY <1>2, MessageLeavesInv
<1>3. used \in [drops : 0 .. MaxDrops, failures : 0 .. MaxFailures] /\ MaxDrops \in Nat /\ MaxFailures \in Nat
  BY BoundsAssumption DEF IInv, DataOK
<1>4. CASE LinkDrops
  <2>1. /\ UNCHANGED <<sendVars, frames, events, asked, begun, turn, posted, said, unseen>>
        /\ message' \in IF message = "queued" THEN {"queued", "lost"} ELSE {message}
    BY <1>4 DEF LinkDrops, agentVars
  <2>2. UNCHANGED ended /\ UNCHANGED disturbed /\ link' \in BOOLEAN
    BY <1>4 DEF LinkDrops, agentVars
  <2>3. used' \in [drops : 0 .. MaxDrops, failures : 0 .. MaxFailures]
    BY <1>3, <1>4 DEF LinkDrops
  <2>. QED  BY <2>1, <2>2, <2>3, LinkInv
<1>5. CASE LinkReturns
  <2>1. /\ UNCHANGED <<sendVars, frames, events, asked, begun, turn, posted, said, unseen>>
        /\ message' \in IF message = "queued" THEN {"queued", "lost"} ELSE {message}
        /\ used' = used
    BY <1>5 DEF LinkReturns, agentVars
  <2>2. UNCHANGED ended /\ UNCHANGED disturbed /\ link' \in BOOLEAN
    BY <1>5 DEF LinkReturns, agentVars
  <2>. QED  BY <1>3, <2>1, <2>2, LinkInv
<1>6. CASE ReconnectFails
  <2>1. /\ events' = Append(events, Word("failed"))
        /\ UNCHANGED <<sendVars, frames, asked, begun, turn, posted, said, unseen>>
        /\ message' \in IF message = "queued" THEN {"queued", "lost"} ELSE {message}
    BY <1>6 DEF ReconnectFails, agentVars
  <2>2. UNCHANGED ended /\ UNCHANGED disturbed /\ link' \in BOOLEAN
    BY <1>6 DEF ReconnectFails, agentVars, IInv, FlagsOK
  <2>3. used' \in [drops : 0 .. MaxDrops, failures : 0 .. MaxFailures]
    BY <1>3, <1>6 DEF ReconnectFails
  <2>. QED  BY <2>1, <2>2, <2>3, ConnectionInv
<1>. QED  BY <1>1, <1>2, <1>4, <1>5, <1>6 DEF Transport

-----------------------------------------------------------------------------
(* The command's steps *)

LEMMA TrackerType ==
  ASSUME NEW t \in Tracker
  PROVE  /\ Track(t, mine) \in Tracker /\ MarkSent(t, mine) \in Tracker
         /\ MarkDelivered(t, mine) \in Tracker /\ MarkFailed(t, mine) \in Tracker
BY Mine DEF Tracker, OutboundState, Track, MarkSent, MarkDelivered, MarkFailed

\* The event taken is the first of what is to come.
LEMMA TakesParts ==
  ASSUME DataOK, NEW p, NEW e, NEW kinds, Takes(p, e, kinds), UNCHANGED frames
  PROVE  /\ phase = p /\ e \in Events /\ e.t \in kinds
         /\ Coming \in Seq(Events) /\ Coming # <<>> /\ e = Head(Coming) /\ Coming' = Tail(Coming)
         /\ events' \in Seq(Events) /\ frames' \in Seq(Events)
         /\ 1 \in DOMAIN Coming /\ Coming[1] = e
         /\ \A i \in DOMAIN Coming' : \E j \in DOMAIN Coming : Coming'[i] = Coming[j]
<1>1. phase = p /\ events # <<>> /\ e = Head(events) /\ e.t \in kinds /\ events' = Tail(events)
  BY DEF Takes
<1>2. events \in Seq(Events) /\ frames \in Seq(Events)
  BY DEF DataOK
<1>3. /\ Coming \in Seq(Events) /\ Coming # <<>> /\ e = Head(Coming) /\ Coming' = Tail(Coming)
      /\ e \in Events /\ events' \in Seq(Events)
  BY <1>1, <1>2, Taken DEF Coming
<1>4. PICK n \in Nat : n + 1 = Len(Coming)
  <2>1. PICK m \in Nat : m = Len(Coming)
    BY <1>3
  <2>2. m # 0
    BY <1>3, <2>1
  <2>3. m - 1 \in Nat /\ (m - 1) + 1 = m
    BY <2>2
  <2>. QED  BY <2>1, <2>3
<1>5. /\ DOMAIN Coming = 1 .. n + 1 /\ DOMAIN Coming' = 1 .. n /\ Head(Coming) = Coming[1]
      /\ \A i \in 1 .. n : Coming'[i] = Coming[i + 1] /\ i + 1 \in 1 .. n + 1
      /\ 1 \in 1 .. n + 1
  BY <1>3, <1>4
<1>. QED  BY <1>1, <1>2, <1>3, <1>5

\* What the command's steps leave alone.
LEMMA AgentWaits ==
  ASSUME IInv, UNCHANGED agentVars, UNCHANGED <<unseen, used>>
  PROVE  AgentOK' /\ Silent /\ Settled /\ \A r : Over(r)' <=> Over(r)
<1>1. UNCHANGED <<asked, begun, turn, posted, said>>
  BY DEF agentVars
<1>2. UNCHANGED ended
  BY DEF agentVars
<1>3. \A r : Over(r)' <=> Over(r)
  BY <1>1, <1>2 DEF Over
<1>4. AgentOK'
  BY <1>1, <1>3 DEF IInv, AgentOK
<1>. QED  BY <1>1, <1>3, <1>4 DEF Silent, Settled

LEMMA TakenKept ==
  ASSUME IInv, Running, NEW p, NEW e, NEW kinds, Takes(p, e, kinds), UNCHANGED frames,
         UNCHANGED agentVars, UNCHANGED <<unseen, used>>
  PROVE  /\ EndsOK(Coming)'
         /\ (stale \subseteq stale' /\ \A r \in Requests \ stale' : buffers'[r] = Effect(e, r, buffers[r]))
              => FlowOK'
<1>1. /\ Coming \in Seq(Events) /\ Coming # <<>> /\ e = Head(Coming) /\ Coming' = Tail(Coming)
      /\ \A i \in DOMAIN Coming' : \E j \in DOMAIN Coming : Coming'[i] = Coming[j]
  BY TakesParts DEF IInv
<1>2. Silent /\ Settled
  BY AgentWaits
<1>3. EndsOK(Coming)'
  <2>1. PICK w \in Events : w = Word("failed") /\ w \notin Replies
    BY WordParts DEF Plain
  <2>. QED  BY <1>1, <1>2, <2>1, EndsKept DEF IInv
<1>4. ASSUME stale \subseteq stale', \A r \in Requests \ stale' : buffers'[r] = Effect(e, r, buffers[r])
      PROVE  FlowOK'
  <2>1. ASSUME NEW r \in Requests \ stale', NEW last \in Texts, Reads(Coming, r, buffers[r], last)
        PROVE  Reads(Coming', r, buffers'[r], last)
    BY <1>1, <1>4, <2>1, ReadHead
  <2>. QED  BY <1>2, <1>4, <2>1, FlowKept DEF IInv
<1>. QED  BY <1>3, <1>4

LEMMA NotReplied ==
  ASSUME phase' # "replied"
  PROVE  ReplyIsWhole' /\ AnswersUs'
BY DEF ReplyIsWhole, AnswersUs

LEMMA DrainTakesInv ==
  ASSUME IInv, Running, NEW e, DrainTakes(e)
  PROVE  IInv'
<1>1. /\ Takes("drain", e, {x.t : x \in Events} \ {"failed"})
      /\ last_status' = IF e.t \in Busy \cup {"idle"} THEN e.t ELSE last_status
      /\ stale' = stale \cup Stale(e)
      /\ UNCHANGED <<phase, buffers, outbound, reply, frames, message>>
      /\ UNCHANGED agentVars /\ UNCHANGED <<unseen, used>>
  BY DEF DrainTakes
<1>2. UNCHANGED link /\ UNCHANGED disturbed /\ UNCHANGED ended /\ UNCHANGED <<turn, asked>>
  BY DEF DrainTakes, agentVars
<1>3. DataOK
  BY DEF IInv
<1>4. /\ phase = "drain" /\ e \in Events /\ Coming \in Seq(Events) /\ Coming # <<>>
      /\ e = Head(Coming) /\ Coming' = Tail(Coming)
      /\ events' \in Seq(Events) /\ frames' \in Seq(Events)
  BY <1>1, <1>3, TakesParts
<1>5. Stale(e) \subseteq Requests /\ \A r : r \notin Stale(e) => e \notin Replies \/ e.of # r
  BY DEF Stale, Replies
<1>6. DataOK'
  BY <1>1, <1>3, <1>4, <1>5 DEF DataOK
<1>7. FlagsOK'
  BY <1>2 DEF IInv, FlagsOK
<1>8. AgentOK'
  BY <1>1, AgentWaits
<1>9. UnsentOK'
  BY <1>1, <1>2 DEF IInv, UnsentOK
<1>10. EndsOK(Coming)' /\ FlowOK'
  <2>1. \A r \in Requests \ stale' : buffers'[r] = Effect(e, r, buffers[r])
    BY <1>1, <1>5 DEF Effect
  <2>. QED  BY <1>1, <2>1, TakenKept
<1>11. UndisturbedOK'
  <2>. SUFFICES ASSUME ~disturbed, turn \notin unseen PROVE TurnIsTold(Coming', turn, last_status')
    BY <1>1, <1>2, <1>4 DEF UndisturbedOK, TurnIsTold
  <2>1. TurnIsTold(Coming, turn, last_status)
    BY <1>4 DEF IInv, UndisturbedOK
  <2>. QED  BY <1>1, <1>4, <2>1, ToldHead
<1>12. ReplyIsWhole' /\ AnswersUs'
  BY <1>1, <1>4, NotReplied
<1>. QED  BY <1>6, <1>7, <1>8, <1>9, <1>10, <1>11, <1>12 DEF IInv

\* The drain, or the wait for idle, gives way to another loop.
LEMMA LoopEnds ==
  ASSUME IInv, Running, phase \in {"drain", "idle"}, UNCHANGED <<last_status, stale, buffers, reply, frames, events>>,
         UNCHANGED agentVars, UNCHANGED <<unseen, used>>, UNCHANGED link, disturbed' \in BOOLEAN,
         \/ phase' = "idle" /\ UNCHANGED <<outbound, message>>
         \/ SendMessage,
         ~disturbed' => Coming = <<>> /\ (phase' = "wait" => turn \in {Nobody} \cup stale)
  PROVE  IInv'
<1>1. DataOK /\ UNCHANGED <<asked, turn>>
  BY DEF IInv, agentVars
<1>2. UNCHANGED ended
  BY DEF agentVars
<1>3. phase' \in {"idle", "wait"} /\ outbound' \in Tracker /\ message' \in {"unsent", "queued", "left", "lost"}
  BY <1>1, TrackerType DEF SendMessage, DataOK
<1>4. DataOK'
  BY <1>1, <1>3 DEF DataOK
<1>5. FlagsOK'
  BY <1>2 DEF IInv, FlagsOK
<1>6. AgentOK' /\ Silent /\ Settled /\ Coming' = Coming /\ \A r : Over(r)' <=> Over(r)
  BY AgentWaits DEF Coming
<1>7. UnsentOK'
  <2>1. phase' = "idle" => UNCHANGED message
    BY DEF SendMessage
  <2>. QED  BY <1>1, <1>3, <2>1 DEF IInv, UnsentOK
<1>8. EndsOK(Coming)'
  BY <1>6 DEF IInv, EndsOK, Settled, agentVars
<1>9. FlowOK'
  BY <1>6, FlowKept DEF IInv
<1>10. UndisturbedOK'
  <2>. SUFFICES ASSUME ~disturbed'
                PROVE  /\ phase' = "idle" => IdleIsLast(Coming, turn)
                       /\ phase' = "wait" => OnlyOurs(Coming, turn, stale)
    BY <1>1, <1>3, <1>6 DEF UndisturbedOK, IdleIsLast, OnlyOurs
  <2>. QED  BY DEF IdleIsLast, OnlyOurs
<1>11. ReplyIsWhole' /\ AnswersUs'
  BY <1>3, NotReplied
<1>. QED  BY <1>4, <1>5, <1>6, <1>7, <1>8, <1>9, <1>10, <1>11 DEF IInv

LEMMA TimersInv ==
  ASSUME IInv, Running, DrainIsQuiet \/ DrainIsCapped \/ IdleIsCapped
  PROVE  IInv'
<1>1. CASE DrainIsQuiet
  <2>1. /\ phase = "drain" /\ events = <<>>
        /\ UNCHANGED <<last_status, stale, buffers, reply, frames, events>>
        /\ UNCHANGED agentVars /\ UNCHANGED <<unseen, used>>
        /\ \/ AgentBusy /\ phase' = "idle" /\ UNCHANGED <<outbound, message>>
           \/ ~AgentBusy /\ SendMessage
    BY <1>1 DEF DrainIsQuiet, DrainIsOver
  <2>2. UNCHANGED link
    BY <1>1 DEF DrainIsQuiet, DrainIsOver
  <2>3. disturbed' \in BOOLEAN
    BY <1>1 DEF DrainIsQuiet, IInv, FlagsOK
  <2>4. disturbed' <=> disturbed \/ frames # <<>> \/ turn \in unseen \ stale
    BY <1>1 DEF DrainIsQuiet
  <2>5. ASSUME ~disturbed'
        PROVE  Coming = <<>> /\ (phase' = "wait" => turn \in {Nobody} \cup stale)
    <3>1. ~disturbed /\ frames = <<>> /\ turn \notin unseen \ stale
      BY <2>4, <2>5
    <3>2. Coming = <<>>
      BY <2>1, <3>1 DEF Coming
    <3>3. turn \in stale \/ TurnIsTold(Coming, turn, last_status)
      BY <2>1, <3>1 DEF IInv, UndisturbedOK
    <3>4. phase' = "wait" => last_status \notin Busy
      BY <2>1 DEF AgentBusy
    <3>5. ASSUME phase' = "wait", turn \notin stale PROVE turn = Nobody
      <4>1. DOMAIN Coming = {}
        BY <3>2
      <4>. QED  BY <3>3, <3>4, <3>5, <4>1 DEF TurnIsTold
    <3>. QED  BY <3>2, <3>5
  <2>. QED  BY <2>1, <2>2, <2>3, <2>5, LoopEnds
<1>2. CASE DrainIsCapped
  <2>1. /\ phase = "drain" /\ disturbed'
        /\ UNCHANGED <<last_status, stale, buffers, reply, frames, events>>
        /\ UNCHANGED agentVars /\ UNCHANGED <<unseen, used>>
        /\ \/ phase' = "idle" /\ UNCHANGED <<outbound, message>>
           \/ SendMessage
    BY <1>2 DEF DrainIsCapped, DrainIsOver
  <2>2. UNCHANGED link /\ disturbed' \in BOOLEAN
    BY <1>2 DEF DrainIsCapped, DrainIsOver
  <2>. QED  BY <2>1, <2>2, LoopEnds
<1>3. CASE IdleIsCapped
  <2>1. /\ phase = "idle" /\ disturbed' /\ SendMessage
        /\ UNCHANGED <<last_status, stale, buffers, reply, frames, events>>
        /\ UNCHANGED agentVars /\ UNCHANGED <<unseen, used>>
    BY <1>3 DEF IdleIsCapped
  <2>2. UNCHANGED link /\ disturbed' \in BOOLEAN
    BY <1>3 DEF IdleIsCapped
  <2>. QED  BY <2>1, <2>2, LoopEnds
<1>. QED  BY <1>1, <1>2, <1>3

LEMMA IdleTakesInv ==
  ASSUME IInv, Running, NEW e, IdleTakes(e)
  PROVE  IInv'
<1>1. /\ Takes("idle", e, {x.t : x \in Events} \ {"failed"})
      /\ stale' = stale \cup Stale(e)
      /\ UNCHANGED <<last_status, buffers, reply, frames>>
      /\ UNCHANGED agentVars /\ UNCHANGED <<unseen, used>>
      /\ \/ e.t = "idle" /\ SendMessage
         \/ e.t # "idle" /\ UNCHANGED <<phase, outbound, message>>
  BY DEF IdleTakes
<1>2. UNCHANGED link /\ UNCHANGED disturbed /\ UNCHANGED ended /\ UNCHANGED <<turn, asked>>
  BY DEF IdleTakes, agentVars
<1>3. DataOK
  BY DEF IInv
<1>4. /\ phase = "idle" /\ e \in Events /\ Coming \in Seq(Events) /\ Coming # <<>>
      /\ e = Head(Coming) /\ Coming' = Tail(Coming)
      /\ events' \in Seq(Events) /\ frames' \in Seq(Events)
  BY <1>1, <1>3, TakesParts
<1>5. Stale(e) \subseteq Requests /\ \A r : r \notin Stale(e) => e \notin Replies \/ e.of # r
  BY DEF Stale, Replies
<1>6. /\ phase' \in {"idle", "wait"} /\ outbound' \in Tracker
      /\ message' \in {"unsent", "queued", "left", "lost"}
      /\ phase' = "idle" => message' = message
      /\ phase' = "wait" => e.t = "idle"
  BY <1>1, <1>3, <1>4, TrackerType DEF SendMessage, DataOK
<1>7. DataOK'
  BY <1>1, <1>3, <1>4, <1>5, <1>6 DEF DataOK
<1>8. FlagsOK'
  BY <1>2 DEF IInv, FlagsOK
<1>9. AgentOK'
  BY <1>1, AgentWaits
<1>10. UnsentOK'
  BY <1>1, <1>2, <1>4, <1>6 DEF IInv, UnsentOK
<1>11. EndsOK(Coming)' /\ FlowOK'
  <2>1. \A r \in Requests \ stale' : buffers'[r] = Effect(e, r, buffers[r])
    BY <1>1, <1>5 DEF Effect
  <2>. QED  BY <1>1, <2>1, TakenKept
<1>12. UndisturbedOK'
  <2>. SUFFICES ASSUME ~disturbed
                PROVE  /\ phase' = "idle" => IdleIsLast(Coming', turn)
                       /\ phase' = "wait" => OnlyOurs(Coming', turn, stale')
    BY <1>2, <1>6 DEF UndisturbedOK, IdleIsLast, OnlyOurs
  <2>1. IdleIsLast(Coming, turn)
    BY <1>4 DEF IInv, UndisturbedOK
  <2>. QED  BY <1>4, <1>6, <2>1, IdleHead
<1>13. ReplyIsWhole' /\ AnswersUs'
  BY <1>6, NotReplied
<1>. QED  BY <1>7, <1>8, <1>9, <1>10, <1>11, <1>12, <1>13 DEF IInv

\* The command ends without a reply.
LEMMA EndsInv ==
  ASSUME IInv, phase' \in {"failed", "timedout"}, outbound' \in Tracker, events' \in Seq(Events),
         EndsOK(Coming)', UNCHANGED <<last_status, stale, buffers, reply, frames, message>>,
         UNCHANGED agentVars, UNCHANGED <<unseen, used>>, UNCHANGED link, UNCHANGED disturbed
  PROVE  IInv'
<1>1. UNCHANGED ended
  BY DEF agentVars
<1>2. DataOK'
  BY DEF IInv, DataOK
<1>3. FlagsOK'
  BY <1>1 DEF IInv, FlagsOK
<1>4. AgentOK'
  BY AgentWaits
<1>5. UnsentOK' /\ FlowOK' /\ UndisturbedOK' /\ ReplyIsWhole' /\ AnswersUs'
  BY DEF UnsentOK, FlowOK, Running, UndisturbedOK, ReplyIsWhole, AnswersUs
<1>. QED  BY <1>2, <1>3, <1>4, <1>5 DEF IInv

LEMMA DrainFailsInv ==
  ASSUME IInv, Running, NEW e, DrainFails(e)
  PROVE  IInv'
<1>1. /\ phase' = "failed"
      /\ UNCHANGED <<last_status, stale, buffers, outbound, reply, frames, message>>
      /\ UNCHANGED agentVars /\ UNCHANGED <<unseen, used>>
  BY DEF DrainFails
<1>2. UNCHANGED link /\ UNCHANGED disturbed
  BY DEF DrainFails
<1>3. PICK p : Takes(p, e, {"failed"})
  BY DEF DrainFails
<1>4. EndsOK(Coming)'
  BY <1>1, <1>3, TakenKept
<1>5. events' \in Seq(Events) /\ outbound' \in Tracker
  BY <1>1, <1>3, TakesParts DEF IInv, DataOK
<1>. QED  BY <1>1, <1>2, <1>4, <1>5, EndsInv

\* While it waits, an event that is no end of a reply to the message.
LEMMA WaitTakesInv ==
  ASSUME IInv, Running, NEW e, NEW kinds, Takes("wait", e, kinds), WaitUnchanged,
         UNCHANGED <<phase, reply>>, outbound' \in Tracker, buffers' \in [Requests -> Texts],
         \A r \in Requests \ stale : buffers'[r] = Effect(e, r, buffers[r])
  PROVE  IInv'
<1>1. UNCHANGED <<last_status, stale, frames, message>> /\ UNCHANGED agentVars
      /\ UNCHANGED <<unseen, used>>
  BY DEF WaitUnchanged
<1>2. UNCHANGED link /\ UNCHANGED disturbed /\ UNCHANGED ended /\ UNCHANGED turn
  BY DEF WaitUnchanged, agentVars
<1>3. /\ phase = "wait" /\ events' \in Seq(Events)
      /\ \A i \in DOMAIN Coming' : \E j \in DOMAIN Coming : Coming'[i] = Coming[j]
  BY <1>1, TakesParts DEF IInv
<1>4. DataOK'
  BY <1>1, <1>3 DEF IInv, DataOK
<1>5. FlagsOK'
  BY <1>2 DEF IInv, FlagsOK
<1>6. AgentOK'
  BY <1>1, AgentWaits
<1>7. UnsentOK' /\ ReplyIsWhole' /\ AnswersUs'
  BY <1>3 DEF UnsentOK, ReplyIsWhole, AnswersUs
<1>8. EndsOK(Coming)' /\ FlowOK'
  BY <1>1, TakenKept
<1>9. UndisturbedOK'
  <2>. SUFFICES ASSUME ~disturbed PROVE OnlyOurs(Coming', turn, stale)
    BY <1>1, <1>2, <1>3 DEF UndisturbedOK, OnlyOurs
  <2>1. OnlyOurs(Coming, turn, stale)
    BY <1>3 DEF IInv, UndisturbedOK
  <2>. QED  BY <1>3, <2>1 DEF OnlyOurs
<1>. QED  BY <1>4, <1>5, <1>6, <1>7, <1>8, <1>9 DEF IInv

LEMMA WaitNotesInv ==
  ASSUME IInv, Running, NEW e, WaitNotes(e)
  PROVE  IInv'
<1>1. /\ Takes("wait", e, Plain \ {"failed"}) /\ WaitUnchanged
      /\ UNCHANGED <<phase, buffers, reply, frames>>
      /\ outbound' = CASE e.t = "sent" -> MarkSent(outbound, mine)
                       [] e.t = "ack"  -> MarkDelivered(outbound, mine)
                       [] OTHER        -> outbound
  BY DEF WaitNotes, WaitUnchanged
<1>2. e \in Events /\ e.t \in Plain \ {"failed"}
  BY <1>1, TakesParts DEF IInv
<1>3. outbound' \in Tracker
  <2>1. outbound \in Tracker
    BY DEF IInv, DataOK
  <2>. QED  BY <1>1, <2>1, TrackerType
<1>4. e \notin Replies
  BY <1>2, EventParts DEF Plain, Busy
<1>5. buffers' \in [Requests -> Texts] /\ \A r \in Requests \ stale : buffers'[r] = Effect(e, r, buffers[r])
  BY <1>1, <1>4 DEF IInv, DataOK, Effect
<1>. QED  BY <1>1, <1>3, <1>5, WaitTakesInv

LEMMA WaitSkipsInv ==
  ASSUME IInv, Running, NEW e, WaitSkips(e)
  PROVE  IInv'
<1>1. /\ Takes("wait", e, {"text", "delta", "end", "reset"}) /\ WaitUnchanged
      /\ e.of \in stale /\ UNCHANGED <<phase, buffers, outbound, reply>>
  BY DEF WaitSkips
<1>2. outbound' \in Tracker /\ buffers' \in [Requests -> Texts]
  BY <1>1 DEF IInv, DataOK
<1>3. \A r \in Requests \ stale : buffers'[r] = Effect(e, r, buffers[r])
  BY <1>1 DEF Effect
<1>. QED  BY <1>1, <1>2, <1>3, WaitTakesInv

\* What the first event that is to come does to a buffer.
LEMMA NextReads ==
  ASSUME IInv, Running, NEW p, NEW e, NEW kinds, Takes(p, e, kinds), UNCHANGED frames,
         NEW r \in Requests \ stale
  PROVE  /\ Effect(e, r, buffers[r]) \in Texts
         /\ e \in Replies /\ e.of = r /\ e.t = "end" /\ r \notin unseen => buffers[r] = said[r]
<1>1. Coming \in Seq(Events) /\ Coming # <<>> /\ e = Head(Coming)
  BY TakesParts DEF IInv
<1>2. PICK last \in Texts : Reads(Coming, r, buffers[r], last) /\ (r \notin unseen => last = said[r])
  BY DEF IInv, FlowOK
<1>. QED  BY <1>1, <1>2, ReadHead

LEMMA WaitCollectsInv ==
  ASSUME IInv, Running, NEW e, WaitCollects(e)
  PROVE  IInv'
<1>1. /\ Takes("wait", e, {"delta", "reset"}) /\ WaitUnchanged
      /\ e.of \notin stale /\ UNCHANGED <<phase, outbound, reply, frames>>
      /\ buffers' = [buffers EXCEPT ![e.of] = IF e.t = "reset" THEN <<>> ELSE @ \o e.text]
  BY DEF WaitCollects, WaitUnchanged
<1>2. e \in Events /\ e.t \in {"delta", "reset"}
  BY <1>1, TakesParts DEF IInv
<1>3. e \in Replies /\ e.of \in Requests \ stale
  BY <1>1, <1>2, EventParts DEF Plain, Busy
<1>4. outbound' \in Tracker /\ buffers \in [Requests -> Texts]
  BY <1>1 DEF IInv, DataOK
<1>5. \A r \in Requests : buffers'[r] = Effect(e, r, buffers[r])
  BY <1>1, <1>2, <1>3, <1>4 DEF Effect
<1>6. Effect(e, e.of, buffers[e.of]) \in Texts
  BY <1>1, <1>3, NextReads
<1>7. buffers' \in [Requests -> Texts]
  <2>1. buffers' = [buffers EXCEPT ![e.of] = Effect(e, e.of, buffers[e.of])]
    BY <1>1, <1>2, <1>3, <1>4 DEF Effect
  <2>. QED  BY <1>3, <1>4, <1>6, <2>1
<1>. QED  BY <1>1, <1>4, <1>5, <1>7, WaitTakesInv

LEMMA WaitReturnsInv ==
  ASSUME IInv, Running, NEW e, WaitReturns(e)
  PROVE  IInv'
<1>1. /\ Takes("wait", e, {"text", "end"}) /\ e.of \notin stale /\ phase' = "replied"
      /\ reply' = [of |-> e.of, text |-> IF e.text = <<>> THEN buffers[e.of] ELSE e.text]
      /\ UNCHANGED <<buffers, outbound, last_status, stale, frames, message>>
      /\ UNCHANGED agentVars /\ UNCHANGED <<unseen, used>>
  BY DEF WaitReturns, WaitUnchanged
<1>2. UNCHANGED link /\ UNCHANGED disturbed /\ UNCHANGED ended /\ UNCHANGED <<said, turn>>
  BY DEF WaitReturns, WaitUnchanged, agentVars
<1>3. /\ phase = "wait" /\ e \in Events /\ e.t \in {"text", "end"} /\ events' \in Seq(Events)
      /\ 1 \in DOMAIN Coming /\ Coming[1] = e
  BY <1>1, TakesParts DEF IInv
<1>4. e \in Replies /\ e.of \in Requests \ stale /\ e.text \in Texts
  BY <1>1, <1>3, EventParts DEF Plain, Busy
<1>5. DataOK'
  <2>1. buffers[e.of] \in Texts
    BY <1>4 DEF IInv, DataOK
  <2>2. reply' \in [of : Requests \cup {Nobody}, text : Texts]
    BY <1>1, <1>4, <2>1
  <2>. QED  BY <1>1, <1>3, <2>2 DEF IInv, DataOK
<1>6. FlagsOK'
  BY <1>2 DEF IInv, FlagsOK
<1>7. AgentOK'
  BY <1>1, AgentWaits
<1>8. UnsentOK' /\ FlowOK' /\ UndisturbedOK'
  BY <1>1 DEF UnsentOK, FlowOK, Running, UndisturbedOK
<1>9. EndsOK(Coming)'
  BY <1>1, TakenKept
<1>10. ReplyIsWhole'
  <2>. SUFFICES ASSUME e.of \notin unseen PROVE reply'.text = said[e.of]
    BY <1>1, <1>2 DEF ReplyIsWhole
  <2>1. e.text \in {<<>>, said[e.of]} /\ (e.t = "text" => e.text # <<>>)
    BY <1>3, <1>4 DEF IInv, EndsOK
  <2>2. CASE e.text = <<>>
    <3>1. buffers[e.of] = said[e.of]
      BY <1>1, <1>3, <1>4, <2>1, <2>2, NextReads
    <3>. QED  BY <1>1, <2>2, <3>1
  <2>3. CASE e.text # <<>>
    BY <1>1, <2>1, <2>3
  <2>. QED  BY <2>2, <2>3
<1>11. AnswersUs'
  <2>. SUFFICES ASSUME ~disturbed PROVE e.of = mine
    BY <1>1, <1>2 DEF AnswersUs
  <2>1. OnlyOurs(Coming, turn, stale)
    BY <1>3 DEF IInv, UndisturbedOK
  <2>. QED  BY <1>3, <1>4, <2>1 DEF OnlyOurs, Talk
<1>. QED  BY <1>5, <1>6, <1>7, <1>8, <1>9, <1>10, <1>11 DEF IInv

\* No question is to come unless something has disturbed the drain.
LEMMA WaitReturnsQuestionInv ==
  ASSUME IInv, Running, NEW e, WaitReturnsQuestion(e)
  PROVE  IInv'
<1>1. /\ Takes("wait", e, {"asks"}) /\ phase' = "replied"
      /\ reply' = [of |-> Nobody, text |-> <<>>]
      /\ UNCHANGED <<buffers, outbound, last_status, stale, frames, message>>
      /\ UNCHANGED agentVars /\ UNCHANGED <<unseen, used>>
  BY DEF WaitReturnsQuestion, WaitUnchanged
<1>2. UNCHANGED link /\ UNCHANGED disturbed /\ UNCHANGED ended
  BY DEF WaitReturnsQuestion, WaitUnchanged, agentVars
<1>3. /\ phase = "wait" /\ e \in Events /\ e.t = "asks" /\ events' \in Seq(Events)
      /\ 1 \in DOMAIN Coming /\ Coming[1] = e
  BY <1>1, TakesParts DEF IInv
<1>4. e \in Talk /\ e \notin Replies
  BY <1>3, EventParts DEF Plain, Busy, Talk
<1>5. DataOK'
  <2>1. reply' \in [of : Requests \cup {Nobody}, text : Texts]
    BY <1>1, ShortTexts
  <2>. QED  BY <1>1, <1>3, <2>1 DEF IInv, DataOK
<1>6. FlagsOK'
  BY <1>2 DEF IInv, FlagsOK
<1>7. AgentOK'
  BY <1>1, AgentWaits
<1>8. UnsentOK' /\ FlowOK' /\ UndisturbedOK'
  BY <1>1 DEF UnsentOK, FlowOK, Running, UndisturbedOK
<1>9. EndsOK(Coming)'
  BY <1>1, TakenKept
<1>10. ReplyIsWhole'
  BY <1>1, NobodyAsks DEF ReplyIsWhole
<1>11. disturbed
  <2>. SUFFICES ASSUME ~disturbed PROVE FALSE
    OBVIOUS
  <2>1. OnlyOurs(Coming, turn, stale)
    BY <1>3 DEF IInv, UndisturbedOK
  <2>. QED  BY <1>3, <1>4, <2>1 DEF OnlyOurs
<1>12. AnswersUs'
  BY <1>2, <1>11 DEF AnswersUs
<1>. QED  BY <1>5, <1>6, <1>7, <1>8, <1>9, <1>10, <1>12 DEF IInv

LEMMA WaitFailsInv ==
  ASSUME IInv, Running, NEW e, WaitFails(e)
  PROVE  IInv'
<1>1. /\ Takes("wait", e, {"failed"}) /\ phase' = "failed"
      /\ outbound' = MarkFailed(outbound, mine)
      /\ UNCHANGED <<last_status, stale, buffers, reply, frames, message>>
      /\ UNCHANGED agentVars /\ UNCHANGED <<unseen, used>>
  BY DEF WaitFails, WaitUnchanged
<1>2. UNCHANGED link /\ UNCHANGED disturbed
  BY DEF WaitFails, WaitUnchanged
<1>3. EndsOK(Coming)'
  BY <1>1, TakenKept
<1>4. events' \in Seq(Events) /\ outbound' \in Tracker
  <2>1. outbound \in Tracker
    BY DEF IInv, DataOK
  <2>. QED  BY <1>1, <2>1, TakesParts, TrackerType DEF IInv
<1>. QED  BY <1>1, <1>2, <1>3, <1>4, EndsInv

LEMMA WaitTimesOutInv ==
  ASSUME IInv, Running, WaitTimesOut
  PROVE  IInv'
<1>1. /\ phase' = "timedout" /\ outbound' = MarkFailed(outbound, mine)
      /\ UNCHANGED <<last_status, stale, buffers, reply, events, frames, message>>
      /\ UNCHANGED agentVars /\ UNCHANGED <<unseen, used>>
  BY DEF WaitTimesOut, WaitUnchanged
<1>2. UNCHANGED link /\ UNCHANGED disturbed
  BY DEF WaitTimesOut, WaitUnchanged
<1>3. EndsOK(Coming)'
  <2>1. Settled /\ Coming' = Coming
    BY <1>1, AgentWaits DEF Coming
  <2>2. PICK w \in Events : w = Word("failed") /\ w \notin Replies
    BY WordParts DEF Plain
  <2>. QED  BY <2>1, <2>2, EndsKept DEF IInv
<1>4. events' \in Seq(Events) /\ outbound' \in Tracker
  <2>1. outbound \in Tracker /\ events \in Seq(Events)
    BY DEF IInv, DataOK
  <2>. QED  BY <1>1, <2>1, TrackerType
<1>. QED  BY <1>1, <1>2, <1>3, <1>4, EndsInv

-----------------------------------------------------------------------------
(* Every step *)

LEMMA StepInv ==
  ASSUME IInv, [Next]_vars
  PROVE  IInv'
<1>1. CASE Next
  <2>1. Running
    BY <1>1 DEF Next
  <2>2. CASE Agent
    <3>1. CASE \E r \in Requests : OtherAsks(r)
      BY <2>1, <3>1, OtherAsksInv
    <3>2. CASE \E r \in Requests : TurnBegins(r)
      BY <2>1, <3>2, TurnBeginsInv
    <3>3. CASE TurnSays
      BY <2>1, <3>3, TurnSaysInv
    <3>4. CASE TurnResets
      BY <2>1, <3>4, TurnResetsInv
    <3>5. CASE TurnEnds
      BY <2>1, <3>5, TurnEndsInv
    <3>6. CASE TurnIsOver
      BY <2>1, <3>6, TurnIsOverInv
    <3>. QED  BY <2>2, <3>1, <3>2, <3>3, <3>4, <3>5, <3>6 DEF Agent
  <2>3. CASE Transport
    BY <2>1, <2>3, TransportInv
  <2>4. CASE TakesEvent
    <3>1. PICK e \in ToSet(events) :
            \/ DrainTakes(e) \/ IdleTakes(e) \/ DrainFails(e)
            \/ WaitNotes(e) \/ WaitSkips(e) \/ WaitCollects(e) \/ WaitReturns(e)
            \/ WaitReturnsQuestion(e) \/ WaitFails(e)
      BY <2>4 DEF TakesEvent
    <3>. QED  BY <2>1, <3>1, DrainTakesInv, IdleTakesInv, DrainFailsInv, WaitNotesInv, WaitSkipsInv,
                 WaitCollectsInv, WaitReturnsInv, WaitReturnsQuestionInv, WaitFailsInv
  <2>5. CASE TimerFires
    BY <2>1, <2>5, TimersInv, WaitTimesOutInv DEF TimerFires
  <2>. QED  BY <1>1, <2>2, <2>3, <2>4, <2>5 DEF Next
<1>2. CASE UNCHANGED vars
  <2>1. /\ UNCHANGED <<phase, last_status, stale, buffers, outbound, reply, frames, events, message>>
        /\ UNCHANGED <<asked, begun, turn, posted, said, unseen, used>>
    BY <1>2 DEF vars, sendVars, linkVars, agentVars
  <2>2. UNCHANGED link /\ UNCHANGED ended /\ UNCHANGED disturbed
    BY <1>2 DEF vars, linkVars, agentVars
  <2>3. Coming' = Coming /\ \A r : Over(r)' <=> Over(r)
    BY <2>1, <2>2 DEF Coming, Over
  <2>4. DataOK' /\ AgentOK' /\ UnsentOK' /\ ReplyIsWhole'
    BY <2>1, <2>3 DEF IInv, DataOK, AgentOK, UnsentOK, ReplyIsWhole
  <2>5. FlagsOK'
    BY <2>2 DEF IInv, FlagsOK
  <2>6. EndsOK(Coming)'
    BY <2>1, <2>3 DEF IInv, EndsOK
  <2>7. FlowOK'
    BY <2>1, <2>3 DEF IInv, FlowOK, Running, Reads, Reading, Effect
  <2>8. UndisturbedOK' /\ AnswersUs'
    BY <2>1, <2>2, <2>3 DEF IInv, UndisturbedOK, AnswersUs, TurnIsTold, IdleIsLast, OnlyOurs
  <2>. QED  BY <2>4, <2>5, <2>6, <2>7, <2>8 DEF IInv
<1>. QED  BY <1>1, <1>2

LEMMA UptoParts ==
  /\ \A n \in 0 .. MaxDeltas : Upto(n) \in Texts /\ Len(Upto(n)) = n
  /\ Upto(0) = <<>>
<1>. MaxDeltas \in Nat
  BY BoundsAssumption
<1>1. ASSUME NEW n \in 0 .. MaxDeltas
      PROVE  Upto(n) \in Texts /\ Len(Upto(n)) = n
  <2>1. Upto(n) \in [1 .. n -> 1 .. MaxDeltas + 1] /\ n \in 0 .. MaxDeltas + 1 /\ n \in Nat
    BY DEF Upto
  <2>2. Len(Upto(n)) = n
    BY <2>1 DEF Upto
  <2>. QED  BY <2>1, <2>2 DEF Texts
<1>2. Upto(0) = <<>>
  BY DEF Upto
<1>. QED  BY <1>1, <1>2

LEMMA InitInv ==
  ASSUME Init
  PROVE  IInv
<1>. MaxDeltas \in Nat /\ MaxDrops \in Nat /\ MaxFailures \in Nat
  BY BoundsAssumption
<1>1. /\ phase = "drain" /\ last_status = "none" /\ stale = {}
      /\ buffers = [r \in Requests |-> <<>>]
      /\ outbound = NothingTracked
      /\ reply = [of |-> Nobody, text |-> <<>>]
      /\ frames = <<>> /\ events = <<>> /\ message = "unsent"
      /\ used = [drops |-> 0, failures |-> 0]
      /\ asked \subseteq Others /\ turn \in asked \cup {Nobody}
      /\ begun = {turn} \ {Nobody} /\ unseen = begun
  BY DEF Init
<1>2. link /\ ended \in IF turn = Nobody THEN {FALSE} ELSE BOOLEAN
  BY DEF Init
<1>3. ~disturbed /\ disturbed \in BOOLEAN
  BY DEF Init
<1>4. PICK n \in 0 .. MaxDeltas : posted = [r \in Requests |-> IF r = turn THEN n ELSE 0]
  BY DEF Init
<1>5. said = [r \in Requests |-> Upto(posted[r])]
  BY DEF Init
<1>6. \A r \in Requests : posted[r] \in 0 .. MaxDeltas /\ (r # turn => posted[r] = 0)
  BY <1>4
<1>7. \A r \in Requests : said[r] \in Texts /\ Len(said[r]) = posted[r] /\ (r # turn => said[r] = <<>>)
  BY <1>5, <1>6, UptoParts
<1>8. DataOK
  <2>1. outbound \in Tracker
    BY <1>1 DEF NothingTracked, Tracker
  <2>2. <<>> \in Texts /\ <<>> \in Seq(Events)
    BY ShortTexts
  <2>3. buffers \in [Requests -> Texts] /\ reply \in [of : Requests \cup {Nobody}, text : Texts]
    BY <1>1, <2>2
  <2>4. used \in [drops : 0 .. MaxDrops, failures : 0 .. MaxFailures]
    BY <1>1
  <2>. QED  BY <1>1, <2>1, <2>2, <2>3, <2>4 DEF DataOK
<1>9. FlagsOK
  <2>1. ended \in BOOLEAN
    BY <1>2
  <2>. QED  BY <1>2, <1>3, <2>1 DEF FlagsOK
<1>10. AgentOK
  <2>1. asked \subseteq Requests /\ begun \subseteq asked /\ turn \in begun \cup {Nobody}
    BY <1>1 DEF Requests
  <2>2. posted \in [Requests -> 0 .. MaxDeltas]
    BY <1>4
  <2>3. said \in [Requests -> Texts]
    BY <1>5, <1>7
  <2>4. \A r \in Requests : Len(said[r]) <= posted[r]
    BY <1>6, <1>7
  <2>. QED  BY <1>1, <2>1, <2>2, <2>3, <2>4 DEF AgentOK
<1>11. UnsentOK
  BY <1>1, Mine DEF UnsentOK
<1>12. Coming = <<>>
  BY <1>1 DEF Coming
<1>13. EndsOK(Coming)
  BY <1>12 DEF EndsOK
<1>14. FlowOK
  <2>. SUFFICES ASSUME NEW r \in Requests
                PROVE  \E last \in Texts :
                         /\ Reads(Coming, r, buffers[r], last)
                         /\ ~Over(r) => Len(last) <= posted[r]
                         /\ r \notin unseen => last = said[r]
    BY DEF FlowOK
  <2>1. <<>> \in Texts /\ Reads(Coming, r, <<>>, <<>>)
    BY <1>12, ShortTexts, ReadNothing
  <2>2. buffers[r] = <<>> /\ Len(<<>>) <= posted[r]
    BY <1>1, <1>6
  <2>3. r \notin unseen => said[r] = <<>>
    BY <1>1, <1>7, NobodyAsks
  <2>. QED  BY <2>1, <2>2, <2>3
<1>15. UndisturbedOK
  BY <1>1, <1>3 DEF UndisturbedOK, TurnIsTold
<1>16. ReplyIsWhole /\ AnswersUs
  BY <1>1 DEF ReplyIsWhole, AnswersUs
<1>. QED  BY <1>8, <1>9, <1>10, <1>11, <1>13, <1>14, <1>15, <1>16 DEF IInv

LEMMA SpecInv == Spec => []IInv
<1>1. Init => IInv
  BY InitInv
<1>2. IInv /\ [Next]_vars => IInv'
  BY StepInv
<1>. QED  BY <1>1, <1>2, PTL DEF Spec

-----------------------------------------------------------------------------
(* Theorems *)

\* Every variable of `chat4000 send', of the transport and of the agent has its
\* type: what is printed is a reply to a request that was made.
THEOREM TypeCorrect == Spec => []TypeOK
<1>1. IInv => TypeOK
  <2>. SUFFICES ASSUME IInv PROVE TypeOK
    OBVIOUS
  <2>1. \A i \in DOMAIN frames : frames[i] \in Events
    BY DEF IInv, DataOK
  <2>2. \A i \in DOMAIN events : events[i] \in Events
    BY DEF IInv, DataOK
  <2>3. {link, ended, disturbed} \subseteq BOOLEAN
    BY DEF IInv, FlagsOK
  <2>. QED  BY <2>1, <2>2, <2>3 DEF TypeOK, IInv, DataOK, AgentOK
<1>. QED  BY <1>1, SpecInv, PTL

\* The text that is printed is the reply as its sender ended it, however many
\* replies, deltas and resets there are, whenever the caps run out and the link is
\* lost: the drain remembers every reply that it has taken a part of.
THEOREM ReplyIsWholeAlways == Spec => []ReplyIsWhole
<1>1. IInv => ReplyIsWhole
  BY DEF IInv
<1>. QED  BY <1>1, SpecInv, PTL

\* What is printed is the reply to the message unless something was going on that
\* the drain could not see (AnswersUs says what), for every number of requests and
\* deltas: a reply that the drain has taken a part of is never printed, and once the
\* agent has been heard to be idle nothing but the answer comes until somebody else
\* asks.  A question of another app device that comes after the drain is printed as
\* the reply: the loops do not look at the sender's role.
THEOREM AnswersUsAlways == Spec => []AnswersUs
<1>1. IInv => AnswersUs
  BY DEF IInv
<1>. QED  BY <1>1, SpecInv, PTL

=============================================================================
