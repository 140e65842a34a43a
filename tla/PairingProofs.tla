---------------------------- MODULE PairingProofs ----------------------------
(***************************************************************************)
(* Proofs about Pairing, for every number of sessions, attempts, stops and *)
(* losses: type correctness, that a host's success means that a joiner has *)
(* its key, and that the two agree unless one is cut off.                  *)
(***************************************************************************)
EXTENDS Pairing, SequenceTheorems, TLAPS

-----------------------------------------------------------------------------
(* The inductive invariant *)

QueuesOK ==
  /\ toHost \in Seq(HostFrames)
  /\ toJoiner \in [Attempts -> Seq(JoinerFrames)]

\* What has not been opened is empty, and a room holds the attempt that entered
\* it and has not left.
RoomsOK ==
  /\ \A s \in Sessions : s > session => host[s] = "none" /\ code[s] = None /\ key[s] = None
  /\ \A s \in Sessions : s <= session => host[s] # "none"
  /\ \A a \in Attempts : a > attempts => joiner[a] = "none" /\ got[a] = None /\ toJoiner[a] = <<>>
  /\ \A a \in Attempts : joiner[a] \in {"open", "granted"} =>
       entered[a] # None /\ room[entered[a]] = a
  /\ \A a \in Attempts : joiner[a] \in {"none", "open"} => got[a] = None
  /\ \A c \in Codes : room[c] # None =>
       entered[room[c]] = c /\ joiner[room[c]] \in {"open", "granted"}

\* A grant, and the key that was taken from one, is that of the session whose code
\* and salt it proves.
GrantsOK ==
  /\ \A a \in Attempts : \A i \in DOMAIN toJoiner[a] :
       LET f == toJoiner[a][i] IN
       f.t = "grant" =>
         /\ f.proof[2] <= session
         /\ f.proof[1] = code[f.proof[2]] /\ f.key = key[f.proof[2]]
  /\ \A a \in Attempts : got[a] # None =>
       /\ salt[a] # None /\ salt[a] <= session
       /\ entered[a] = code[salt[a]] /\ got[a] = key[salt[a]]
  /\ \A i \in DOMAIN toHost : toHost[i].t = "pair_complete" =>
       \E a \in Attempts : entered[a] = code[session] /\ got[a] # None

\* Salts reach a joiner in the order of the sessions,
HellosOK ==
  /\ \A a \in Attempts : salt[a] <= session
  /\ \A a \in Attempts : a > attempts => salt[a] = None
  /\ \A a \in Attempts : \A i \in DOMAIN toJoiner[a] :
       toJoiner[a][i].t = "hello" =>
         salt[a] <= toJoiner[a][i].salt /\ toJoiner[a][i].salt <= session
  /\ \A a \in Attempts : \A i, j \in DOMAIN toJoiner[a] :
       j < i /\ toJoiner[a][i].t = "hello" /\ toJoiner[a][j].t = "hello" =>
         toJoiner[a][j].salt <= toJoiner[a][i].salt

\* and nobody has proved more than the last salt it took.
ProvenOK ==
  /\ \A i \in DOMAIN toHost : toHost[i].t = "proof_b" =>
       toHost[i].proof[2] <= salt[toHost[i].proof[3]]
  /\ \A a \in Attempts : \A i \in DOMAIN toJoiner[a] : toJoiner[a][i].t = "grant" =>
       toJoiner[a][i].proof[2] <= salt[toJoiner[a][i].proof[3]]

SaltsOK == HellosOK /\ ProvenOK

\* A frame that does not make the host turn away from attempt a.
Loyal(f, a) ==
  /\ f.t # "pair_cancel"
  /\ f.t = "join" => f.salt = a
  /\ f.t = "proof_b" => f.proof = Proof(code[session], session, a, "B")

\* Attempt a is in the room with the open session.
Meets(a) == Hosting /\ joiner[a] = "open" /\ entered[a] = code[session]

\* The proof of attempt a that the open session expects.
ProofOf(f, a) == f.t = "proof_b" /\ f.proof = Proof(code[session], session, a, "B")

\* Behind the proof of the attempt in the room nothing comes that is not its own.
ProofsFollowed ==
  \A a \in Attempts : Meets(a) =>
    \A i, j \in DOMAIN toHost : i < j /\ ProofOf(toHost[i], a) => Loyal(toHost[j], a)

\* What comes to the host while an attempt that holds the grant of its session waits,
GrantsFollowed ==
  \A a \in Attempts : Meets(a) =>
    \A i \in DOMAIN toJoiner[a] :
      toJoiner[a][i].t = "grant" /\ toJoiner[a][i].proof = Proof(code[session], session, a, "A") =>
        joiner_public_key = a /\ \A j \in DOMAIN toHost : Loyal(toHost[j], a)

\* and once it has the key: its report is the first thing to end the session.
ReportComes(a) ==
  \E k \in DOMAIN toHost :
    toHost[k].t = "pair_complete" /\ \A j \in 1 .. k - 1 : Loyal(toHost[j], a)

ReportsFollowed ==
  \A a \in Attempts : Hosting /\ got[a] # None /\ salt[a] = session =>
    joiner_public_key = a /\ ReportComes(a)

Succeeds(s) == host[s] \in {"open", "done", "saved"}

\* Attempt a has the key of the last session it met, or is about to take it.
Waits(a) ==
  /\ joiner[a] = "open" /\ salt[a] # None
  /\ \E i \in DOMAIN toJoiner[a] :
       toJoiner[a][i].t = "grant" /\ toJoiner[a][i].proof = Proof(entered[a], salt[a], a, "A")

\* No session fails that has granted its key to an attempt that has it or waits.
GrantersSucceed ==
  \A a \in Attempts : got[a] # None \/ Waits(a) => Succeeds(salt[a])

Undisturbed == used.stops = 0 /\ used.losses = 0

BaseInv == TypeOK /\ QueuesOK /\ RoomsOK

SafeInv == BaseInv /\ GrantsOK /\ CompletedMeansJoined

AgreeInv ==
  /\ SaltsOK /\ ProofsFollowed
  /\ Undisturbed => GrantsFollowed /\ ReportsFollowed /\ GrantersSucceed

-----------------------------------------------------------------------------
(* Frames and queues *)

LEMMA Constructors ==
  /\ Ready \in HostFrames /\ Cancel \in HostFrames /\ Complete \in HostFrames
  /\ Cancel \in JoinerFrames
  /\ \A a \in Attempts : Join(a) \in HostFrames
  /\ \A p \in Proofs : ProofB(p) \in HostFrames
  /\ \A s \in Sessions : Hello(s) \in JoinerFrames
  /\ \A p \in Proofs, k \in Keys, a \in Attempts : Grant(p, k, a) \in JoinerFrames
BY DEF HostFrames, JoinerFrames

LEMMA HostFrameParts ==
  ASSUME NEW f \in HostFrames
  PROVE  /\ f.t = "join" => f.salt \in Attempts
         /\ f.t = "proof_b" => f.proof \in Proofs
BY DEF HostFrames, Ready, Cancel, Complete, Join, ProofB

LEMMA JoinerFrameParts ==
  ASSUME NEW f \in JoinerFrames
  PROVE  /\ f.t = "hello" => f.salt \in Sessions
         /\ f.t = "grant" => f.proof \in Proofs /\ f.key \in Keys /\ f.for \in Attempts
BY DEF JoinerFrames, Cancel, Hello, Grant

\* What is in the host's queue after the relay took some frames of a joiner.
LEMMA HostQueue ==
  ASSUME QueuesOK, NEW c, NEW frames \in Seq(HostFrames), ForwardToHost(c, frames)
  PROVE  /\ toHost' \in Seq(HostFrames)
         /\ ~HostIn(c) => toHost' = toHost
         /\ HostIn(c) => Len(toHost') = Len(toHost) + Len(frames)
         /\ \A i \in DOMAIN toHost : i \in DOMAIN toHost' /\ toHost'[i] = toHost[i]
         /\ \A i \in DOMAIN toHost' :
              \/ i \in DOMAIN toHost
              \/ /\ HostIn(c) /\ i - Len(toHost) \in DOMAIN frames
                 /\ toHost'[i] = frames[i - Len(toHost)]
<1>1. toHost \in Seq(HostFrames)
  BY DEF QueuesOK
<1>2. CASE ~HostIn(c)
  BY <1>1, <1>2 DEF ForwardToHost
<1>3. CASE HostIn(c)
  <2>1. toHost' = toHost \o frames
    BY <1>3 DEF ForwardToHost
  <2>2. /\ toHost' \in Seq(HostFrames) /\ Len(toHost') = Len(toHost) + Len(frames)
        /\ DOMAIN toHost = 1 .. Len(toHost) /\ Len(toHost) \in Nat
        /\ DOMAIN frames = 1 .. Len(frames) /\ Len(frames) \in Nat
        /\ DOMAIN toHost' = 1 .. Len(toHost) + Len(frames)
        /\ \A i \in 1 .. Len(toHost) + Len(frames) :
             toHost'[i] = IF i <= Len(toHost) THEN toHost[i] ELSE frames[i - Len(toHost)]
    BY <1>1, <2>1
  <2>. QED  BY <1>3, <2>2
<1>. QED  BY <1>2, <1>3

\* What is in the joiners' queues after the relay took a frame of the host.
LEMMA JoinerQueues ==
  ASSUME QueuesOK, room \in [Codes -> Attempts \cup {None}], code[session] \in Codes,
         NEW frame \in JoinerFrames, ForwardToJoiner(frame)
  PROVE  /\ toJoiner' \in [Attempts -> Seq(JoinerFrames)]
         /\ \A a \in Attempts :
              \/ toJoiner'[a] = toJoiner[a]
              \/ a = room[code[session]] /\ toJoiner'[a] = Append(toJoiner[a], frame)
         /\ \A a \in Attempts : \A i \in DOMAIN toJoiner'[a] :
              \/ i \in DOMAIN toJoiner[a] /\ toJoiner'[a][i] = toJoiner[a][i]
              \/ /\ toJoiner'[a][i] = frame
                 /\ a = room[code[session]] /\ i = Len(toJoiner[a]) + 1
<1>. DEFINE r == room[code[session]]
<1>1. r \in Attempts \cup {None} /\ toJoiner \in [Attempts -> Seq(JoinerFrames)]
  BY DEF QueuesOK
<1>2. CASE r = None
  BY <1>1, <1>2 DEF ForwardToJoiner
<1>3. CASE r # None
  <2>1. r \in Attempts /\ toJoiner' = [toJoiner EXCEPT ![r] = Append(@, frame)]
    BY <1>1, <1>3 DEF ForwardToJoiner
  <2>2. Append(toJoiner[r], frame) \in Seq(JoinerFrames)
    BY <1>1, <2>1
  <2>3. \A i \in DOMAIN Append(toJoiner[r], frame) :
          \/ i \in DOMAIN toJoiner[r] /\ Append(toJoiner[r], frame)[i] = toJoiner[r][i]
          \/ Append(toJoiner[r], frame)[i] = frame /\ i = Len(toJoiner[r]) + 1
    BY <1>1, <2>1
  <2>. QED  BY <1>1, <2>1, <2>2, <2>3
<1>. QED  BY <1>2, <1>3

\* What leaving a room does to the queues.
LEMMA HostLeavesQueues ==
  ASSUME QueuesOK, room \in [Codes -> Attempts \cup {None}], code[session] \in Codes,
         HostLeaves
  PROVE  /\ toHost' = <<>> /\ QueuesOK'
         /\ \A a \in Attempts :
              \/ toJoiner'[a] = toJoiner[a]
              \/ a = room[code[session]] /\ toJoiner'[a] = Append(toJoiner[a], Cancel)
         /\ \A a \in Attempts : \A i \in DOMAIN toJoiner'[a] :
              \/ i \in DOMAIN toJoiner[a] /\ toJoiner'[a][i] = toJoiner[a][i]
              \/ /\ toJoiner'[a][i] = Cancel
                 /\ a = room[code[session]] /\ i = Len(toJoiner[a]) + 1
<1>1. toHost' = <<>> /\ toHost' \in Seq(HostFrames)
  BY DEF HostLeaves
<1>2. CASE UNCHANGED toJoiner
  BY <1>1, <1>2 DEF QueuesOK
<1>3. CASE ForwardToJoiner(Cancel)
  BY <1>1, <1>3, JoinerQueues, Constructors DEF QueuesOK
<1>. QED  BY <1>2, <1>3 DEF HostLeaves

LEMMA JoinerLeavesQueues ==
  ASSUME QueuesOK, NEW a \in Attempts, JoinerLeaves(a, <<>>)
  PROVE  /\ toHost' \in Seq(HostFrames)
         /\ room' = [room EXCEPT ![entered[a]] = None]
         /\ \/ toHost' = toHost
            \/ HostIn(entered[a]) /\ toHost' = Append(toHost, Cancel)
<1>1. toHost \in Seq(HostFrames) /\ Cancel \in HostFrames
  BY Constructors DEF QueuesOK
<1>2. CASE ForwardToHost(entered[a], <<>>)
  <2>1. toHost' = toHost
    BY <1>1, <1>2 DEF ForwardToHost
  <2>. QED  BY <1>1, <2>1 DEF JoinerLeaves
<1>3. CASE ForwardToHost(entered[a], Append(<<>>, Cancel))
  <2>1. Append(<<>>, Cancel) = <<Cancel>>
    OBVIOUS
  <2>2. toHost \o <<Cancel>> = Append(toHost, Cancel)
    BY <1>1
  <2>3. CASE HostIn(entered[a])
    BY <1>1, <1>3, <2>1, <2>2, <2>3 DEF ForwardToHost, JoinerLeaves
  <2>4. CASE ~HostIn(entered[a])
    BY <1>1, <1>3, <2>4 DEF ForwardToHost, JoinerLeaves
  <2>. QED  BY <2>3, <2>4
<1>. QED  BY <1>2, <1>3 DEF JoinerLeaves

-----------------------------------------------------------------------------
(* Types, and who is in a room *)

LEMMA InitBase == Init => BaseInv
<1>. SUFFICES ASSUME Init PROVE BaseInv
  OBVIOUS
<1>. USE BoundsAssumption
<1>1. QueuesOK
  BY DEF Init, QueuesOK
<1>2. TypeOK
  BY <1>1 DEF Init, TypeOK, QueuesOK, Keys, OldGroup, Sessions, Attempts, Codes, None
<1>3. RoomsOK
  BY DEF Init, RoomsOK, Sessions, Attempts, Codes, None
<1>. QED  BY <1>1, <1>2, <1>3 DEF BaseInv

\* While a session is open or has just succeeded, it has its code and its key.
LEMMA InSession ==
  ASSUME BaseInv, session # 0
  PROVE  session \in Sessions /\ code[session] \in Codes /\ key[session] \in Keys
BY BoundsAssumption DEF BaseInv, TypeOK, RoomsOK, Sessions, Codes, None

LEMMA HostOpensBase ==
  ASSUME BaseInv, NEW c \in Codes, HostOpens(c)
  PROVE  BaseInv'
<1>. USE BoundsAssumption
<1>1. QueuesOK'
  <2>1. <<>> \in Seq(HostFrames) /\ <<Ready>> \in Seq(HostFrames)
    BY Constructors
  <2>. QED  BY <2>1 DEF BaseInv, HostOpens, QueuesOK
<1>2. GroupKey(session + 1) \in Keys
  BY DEF BaseInv, TypeOK, HostOpens, GroupKey, Keys, Sessions
<1>3. TypeOK'
  <2>. DEFINE s == session + 1
  <2>1. s \in Sessions /\ s \in 0 .. MaxHosts
    BY DEF BaseInv, TypeOK, HostOpens, Sessions
  <2>2. /\ session' = s /\ joiner_public_key' = None
        /\ host' = [host EXCEPT ![s] = "open"] /\ code' = [code EXCEPT ![s] = c]
        /\ key' = [key EXCEPT ![s] = GroupKey(s)]
        /\ UNCHANGED <<group, attempts, joiner, entered, salt, got, room, toJoiner, used>>
    BY DEF HostOpens, joinerVars
  <2>3. GroupKey(s) \in Keys /\ GroupKey(s) # None /\ c # None
    BY <1>2 DEF Keys, Sessions, OldGroup, Codes, None
  <2>. HIDE DEF s
  <2>4. /\ host' \in [Sessions -> {"none", "open", "done", "saved", "failed"}]
        /\ code' \in [Sessions -> Codes \cup {None}]
        /\ key' \in [Sessions -> Keys \cup {None}]
    BY <2>1, <2>2, <2>3 DEF BaseInv, TypeOK
  <2>5. \A t \in Sessions : host'[t] # "none" => key'[t] # None /\ code'[t] # None
    BY <2>1, <2>2, <2>3 DEF BaseInv, TypeOK
  <2>6. /\ \A i \in DOMAIN toHost' : toHost'[i] \in HostFrames
        /\ joiner_public_key' \in Attempts \cup {None}
    BY <1>1, <2>2 DEF QueuesOK
  <2>7. TypeOK
    BY DEF BaseInv
  <2>. QED  BY <2>1, <2>2, <2>4, <2>5, <2>6, <2>7 DEF TypeOK
<1>4. RoomsOK'
  BY DEF BaseInv, TypeOK, RoomsOK, HostOpens, joinerVars, Codes, Sessions, None
<1>. QED  BY <1>1, <1>3, <1>4 DEF BaseInv

LEMMA JoinerOpensBase ==
  ASSUME BaseInv, NEW c \in Codes, JoinerOpens(c)
  PROVE  BaseInv'
<1>. DEFINE a == attempts + 1
<1>1. MaxJoins \in Nat /\ attempts \in Nat /\ a \in Attempts /\ attempts' = a /\ a \in 0 .. MaxJoins
  BY BoundsAssumption DEF BaseInv, TypeOK, JoinerOpens, Attempts
<1>2. QueuesOK'
  <2>1. <<Ready>> \in Seq(HostFrames)
    BY Constructors
  <2>. QED  BY <2>1, HostQueue DEF BaseInv, JoinerOpens, QueuesOK
<1>3. /\ joiner' = [joiner EXCEPT ![a] = "open"] /\ entered' = [entered EXCEPT ![a] = c]
      /\ room[c] = None /\ room' = [room EXCEPT ![c] = a]
      /\ UNCHANGED <<session, host, code, key, joiner_public_key, group, salt, got, toJoiner, used>>
  BY DEF JoinerOpens, hostVars
<1>. HIDE DEF a
<1>4. TypeOK'
  BY <1>1, <1>2, <1>3 DEF BaseInv, TypeOK, QueuesOK
<1>5. RoomsOK'
  <2>1. \A b \in Attempts : b > a => b > attempts /\ b # a
    BY <1>1 DEF a, Attempts
  <2>2. a > attempts /\ a # None /\ c # None
    BY <1>1 DEF a, None, Codes, Sessions
  <2>3. /\ joiner[a] = "none" /\ got[a] = None /\ toJoiner[a] = <<>>
        /\ joiner \in [Attempts -> {"none", "open", "granted", "paired", "failed"}]
        /\ entered \in [Attempts -> Codes \cup {None}] /\ room \in [Codes -> Attempts \cup {None}]
    BY <1>1, <2>2 DEF BaseInv, RoomsOK, TypeOK
  <2>4. \A b \in Attempts : b > a => joiner'[b] = "none" /\ got'[b] = None /\ toJoiner'[b] = <<>>
    BY <1>3, <2>1, <2>3 DEF BaseInv, RoomsOK
  <2>5. \A b \in Attempts : joiner'[b] \in {"open", "granted"} =>
          entered'[b] # None /\ room'[entered'[b]] = b
    <3>1. \A b \in Attempts : b # None
      BY DEF Attempts, None
    <3>. QED  BY <1>1, <1>3, <2>2, <2>3, <3>1 DEF BaseInv, RoomsOK
  <2>6. \A x \in Codes : room'[x] # None =>
          entered'[room'[x]] = x /\ joiner'[room'[x]] \in {"open", "granted"}
    BY <1>1, <1>3, <2>2, <2>3 DEF BaseInv, RoomsOK
  <2>. QED  BY <1>1, <1>3, <2>3, <2>4, <2>5, <2>6 DEF BaseInv, RoomsOK
<1>. QED  BY <1>2, <1>4, <1>5 DEF BaseInv

\* Only the attempt in the room is sent anything.
LEMMA OthersUntouched ==
  ASSUME BaseInv, session # 0, UNCHANGED <<attempts, joiner, got>>,
         \A a \in Attempts : toJoiner'[a] = toJoiner[a] \/ a = room[code[session]]
  PROVE  \A a \in Attempts : a > attempts' =>
           joiner'[a] = "none" /\ got'[a] = None /\ toJoiner'[a] = <<>>
<1>. SUFFICES ASSUME NEW a \in Attempts, a > attempts
              PROVE  joiner[a] = "none" /\ got[a] = None /\ toJoiner'[a] = <<>>
  OBVIOUS
<1>1. joiner[a] = "none" /\ got[a] = None /\ toJoiner[a] = <<>>
  BY DEF BaseInv, RoomsOK
<1>2. a # None
  BY DEF Attempts, None
<1>3. a # room[code[session]]
  BY <1>1, <1>2, InSession DEF BaseInv, RoomsOK
<1>. QED  BY <1>1, <1>3

\* A step of the open session that takes a frame and answers it.
LEMMA HostAnswersBase ==
  ASSUME BaseInv, Hosting, toHost # <<>>, toHost' = Tail(toHost),
         UNCHANGED <<session, host, code, key, group, joinerVars, room, used>>,
         joiner_public_key' \in Attempts \cup {None},
         toJoiner' \in [Attempts -> Seq(JoinerFrames)],
         \A a \in Attempts : toJoiner'[a] = toJoiner[a] \/ a = room[code[session]]
  PROVE  BaseInv'
<1>1. QueuesOK'
  BY DEF BaseInv, QueuesOK
<1>2. TypeOK'
  BY <1>1 DEF BaseInv, TypeOK, QueuesOK, joinerVars
<1>3. RoomsOK'
  <2>1. session # 0 /\ UNCHANGED <<attempts, joiner, entered, got, room>>
    BY DEF Hosting, joinerVars
  <2>2. \A a \in Attempts : a > attempts' =>
           joiner'[a] = "none" /\ got'[a] = None /\ toJoiner'[a] = <<>>
    BY <2>1, OthersUntouched
  <2>. QED  BY <2>1, <2>2 DEF BaseInv, RoomsOK
<1>. QED  BY <1>1, <1>2, <1>3 DEF BaseInv

LEMMA HostTakesReadyBase == ASSUME BaseInv, HostTakesReady PROVE BaseInv'
<1>1. Hosting /\ toHost # <<>> /\ ForwardToJoiner(Hello(session)) /\ session # 0
  BY DEF HostTakesReady, Took, Hosting
<1>2. Hello(session) \in JoinerFrames /\ code[session] \in Codes
  BY <1>1, InSession, Constructors
<1>. QED  BY <1>1, <1>2, JoinerQueues, HostAnswersBase
          DEF BaseInv, TypeOK, HostTakesReady, hostVars

LEMMA HostTakesJoinBase == ASSUME BaseInv, HostTakesJoin PROVE BaseInv'
<1>1. Hosting /\ toHost # <<>> /\ Head(toHost) \in HostFrames /\ Head(toHost).t = "join"
  BY DEF HostTakesJoin, Took, BaseInv, QueuesOK
<1>2. Head(toHost).salt \in Attempts
  BY <1>1, HostFrameParts
<1>. QED  BY <1>1, <1>2, HostAnswersBase DEF BaseInv, QueuesOK, HostTakesJoin, joinerVars

\* The proofs that the open session makes are proofs.
LEMMA ExpectedOK ==
  ASSUME BaseInv, Hosting, joiner_public_key # None
  PROVE  Expected("A") \in Proofs /\ Expected("B") \in Proofs /\ joiner_public_key \in Attempts
<1>1. session \in Sessions /\ code[session] \in Codes /\ joiner_public_key \in Attempts
  BY InSession DEF Hosting, BaseInv, TypeOK
<1>. QED  BY <1>1 DEF Expected, Proof, Proofs

LEMMA HostTakesProofBase == ASSUME BaseInv, HostTakesProof PROVE BaseInv'
<1>. DEFINE grant == Grant(Expected("A"), key[session], joiner_public_key)
<1>1. Hosting /\ toHost # <<>> /\ ForwardToJoiner(grant) /\ session # 0 /\ joiner_public_key # None
  BY DEF HostTakesProof, Took, Hosting
<1>2. grant \in JoinerFrames /\ code[session] \in Codes
  BY <1>1, InSession, ExpectedOK, Constructors
<1>. HIDE DEF grant
<1>. QED  BY <1>1, <1>2, JoinerQueues, HostAnswersBase
          DEF BaseInv, TypeOK, HostTakesProof, hostVars

\* The host closes its session, which ended so.
LEMMA HostClosesBase ==
  ASSUME BaseInv, Hosting, NEW state \in {"done", "failed"}, HostLeaves,
         host' = [host EXCEPT ![session] = state],
         UNCHANGED <<session, code, key, joiner_public_key, group, joinerVars, room>>,
         used' \in [stops : 0 .. MaxStops, losses : 0 .. MaxLosses]
  PROVE  BaseInv'
<1>1. session # 0 /\ session \in Sessions /\ code[session] \in Codes /\ host[session] = "open"
  BY InSession DEF Hosting
<1>2. /\ QueuesOK'
      /\ \A a \in Attempts : toJoiner'[a] = toJoiner[a] \/ a = room[code[session]]
  BY <1>1, HostLeavesQueues DEF BaseInv, TypeOK
<1>3. TypeOK'
  <2>1. UNCHANGED <<session, code, key, joiner_public_key, group, attempts, joiner, entered, salt,
                    got, room>>
    BY DEF joinerVars
  <2>2. host' \in [Sessions -> {"none", "open", "done", "saved", "failed"}]
    BY <1>1 DEF BaseInv, TypeOK
  <2>3. \A s \in Sessions : host'[s] # "none" => host[s] # "none"
    BY <1>1 DEF BaseInv, TypeOK
  <2>. QED  BY <1>2, <2>1, <2>2, <2>3 DEF BaseInv, TypeOK, QueuesOK
<1>4. RoomsOK'
  <2>1. UNCHANGED <<attempts, joiner, entered, got, room>>
    BY DEF joinerVars
  <2>2. \A a \in Attempts : a > attempts' =>
           joiner'[a] = "none" /\ got'[a] = None /\ toJoiner'[a] = <<>>
    BY <1>1, <1>2, <2>1, OthersUntouched
  <2>3. host \in [Sessions -> {"none", "open", "done", "saved", "failed"}]
    BY DEF BaseInv, TypeOK
  <2>. QED  BY <1>1, <2>1, <2>2, <2>3 DEF BaseInv, RoomsOK, Sessions
<1>. QED  BY <1>2, <1>3, <1>4 DEF BaseInv

LEMMA HostEndsBase ==
  ASSUME BaseInv, Hosting, NEW state \in {"done", "failed"}, HostEnds(state)
  PROVE  BaseInv'
BY HostClosesBase DEF HostEnds, BaseInv, TypeOK

LEMMA HostSavesBase == ASSUME BaseInv, HostSaves PROVE BaseInv'
<1>1. session # 0 /\ session \in Sessions /\ key[session] \in Keys /\ host[session] = "done"
  BY InSession DEF HostSaves
<1>2. QueuesOK'
  BY DEF HostSaves, BaseInv, QueuesOK
<1>3. TypeOK'
  BY <1>1, <1>2 DEF HostSaves, BaseInv, TypeOK, QueuesOK, joinerVars
<1>4. RoomsOK'
  BY <1>1 DEF HostSaves, BaseInv, TypeOK, RoomsOK, joinerVars, Sessions
<1>. QED  BY <1>2, <1>3, <1>4 DEF BaseInv

LEMMA UsedOK ==
  ASSUME BaseInv
  PROVE  /\ used \in [stops : 0 .. MaxStops, losses : 0 .. MaxLosses]
         /\ used.stops < MaxStops =>
              [used EXCEPT !.stops = @ + 1] \in [stops : 0 .. MaxStops, losses : 0 .. MaxLosses]
         /\ used.losses < MaxLosses =>
              [used EXCEPT !.losses = @ + 1] \in [stops : 0 .. MaxStops, losses : 0 .. MaxLosses]
BY BoundsAssumption DEF BaseInv, TypeOK

LEMMA HostStopsBase == ASSUME BaseInv, HostStops PROVE BaseInv'
<1>1. /\ session # 0 /\ session \in Sessions /\ host[session] \in {"open", "done"}
      /\ used' \in [stops : 0 .. MaxStops, losses : 0 .. MaxLosses]
  BY InSession, UsedOK DEF HostStops
<1>2. CASE Hosting
  BY <1>1, <1>2, HostClosesBase DEF HostStops
<1>3. CASE ~Hosting
  <2>1. UNCHANGED <<toHost, toJoiner>>
    BY <1>3 DEF HostStops
  <2>2. QueuesOK'
    BY <2>1 DEF BaseInv, QueuesOK
  <2>3. TypeOK'
    BY <1>1, <2>1, <2>2 DEF HostStops, BaseInv, TypeOK, QueuesOK, joinerVars
  <2>4. RoomsOK'
    BY <1>1, <2>1 DEF HostStops, BaseInv, TypeOK, RoomsOK, joinerVars, Sessions
  <2>. QED  BY <2>2, <2>3, <2>4 DEF BaseInv
<1>. QED  BY <1>2, <1>3

\* An attempt that is under way has entered a code and is alone in its room.
LEMMA InRoom ==
  ASSUME BaseInv, NEW a \in Attempts, joiner[a] \in {"open", "granted"}
  PROVE  /\ entered[a] \in Codes /\ room[entered[a]] = a /\ a <= attempts
         /\ \A b \in Attempts : b # a /\ joiner[b] \in {"open", "granted"} => entered[b] # entered[a]
         /\ toJoiner[a] \in Seq(JoinerFrames)
         /\ Tail(toJoiner[a]) \in Seq(JoinerFrames) \/ toJoiner[a] = <<>>
<1>1. entered[a] \in Codes /\ room[entered[a]] = a
  BY DEF BaseInv, TypeOK, RoomsOK
<1>2. a <= attempts
  BY DEF BaseInv, TypeOK, RoomsOK, Attempts
<1>3. \A b \in Attempts : b # a /\ joiner[b] \in {"open", "granted"} => entered[b] # entered[a]
  BY <1>1 DEF BaseInv, RoomsOK
<1>4. toJoiner[a] \in Seq(JoinerFrames)
  BY DEF BaseInv, QueuesOK
<1>. QED  BY <1>1, <1>2, <1>3, <1>4

LEMMA JoinerTakesHelloBase ==
  ASSUME BaseInv, NEW a \in Attempts, JoinerTakesHello(a)
  PROVE  BaseInv'
<1>. DEFINE s == Head(toJoiner[a]).salt
            frames == <<Join(a), ProofB(Proof(entered[a], s, a, "B"))>>
<1>1. joiner[a] = "open" /\ toJoiner[a] # <<>> /\ Head(toJoiner[a]).t = "hello"
  BY DEF JoinerTakesHello, Gets
<1>2. s \in Sessions
  BY <1>1, InRoom, JoinerFrameParts
<1>3. frames \in Seq(HostFrames)
  <2>1. Proof(entered[a], s, a, "B") \in Proofs
    BY <1>1, <1>2, InRoom DEF Proof, Proofs
  <2>. QED  BY <2>1, Constructors
<1>4. /\ salt' = [salt EXCEPT ![a] = s] /\ ForwardToHost(entered[a], frames)
      /\ toJoiner' = [toJoiner EXCEPT ![a] = Tail(toJoiner[a])]
      /\ UNCHANGED <<session, host, code, key, joiner_public_key, group, attempts, joiner, entered,
                     got, room, used>>
  BY DEF JoinerTakesHello, hostVars
<1>. HIDE DEF s, frames
<1>5. QueuesOK'
  <2>1. toHost' \in Seq(HostFrames)
    BY <1>3, <1>4, HostQueue DEF BaseInv
  <2>. QED  BY <1>1, <1>4, <2>1, InRoom DEF BaseInv, QueuesOK
<1>6. TypeOK'
  BY <1>2, <1>4, <1>5 DEF BaseInv, TypeOK, QueuesOK
<1>7. RoomsOK'
  <2>1. a <= attempts /\ attempts \in Nat
    BY <1>1, InRoom DEF BaseInv, TypeOK
  <2>2. \A b \in Attempts : b > attempts' => toJoiner'[b] = <<>>
    BY <1>4, <2>1 DEF BaseInv, RoomsOK, QueuesOK, Attempts
  <2>. QED  BY <1>4, <2>2 DEF BaseInv, RoomsOK
<1>. QED  BY <1>5, <1>6, <1>7 DEF BaseInv

LEMMA JoinerTakesGrantBase ==
  ASSUME BaseInv, NEW a \in Attempts, JoinerTakesGrant(a)
  PROVE  BaseInv'
<1>. DEFINE k == Head(toJoiner[a]).key
<1>1. joiner[a] = "open" /\ toJoiner[a] # <<>> /\ Head(toJoiner[a]).t = "grant"
  BY DEF JoinerTakesGrant, Gets
<1>2. k \in Keys
  BY <1>1, InRoom, JoinerFrameParts
<1>4. /\ got' = [got EXCEPT ![a] = k] /\ joiner' = [joiner EXCEPT ![a] = "granted"]
      /\ toJoiner' = [toJoiner EXCEPT ![a] = Tail(toJoiner[a])]
      /\ UNCHANGED <<session, host, code, key, joiner_public_key, group, attempts, entered, salt, room>>
  BY DEF JoinerTakesGrant, hostVars
<1>. HIDE DEF k
<1>5. toHost' \in Seq(HostFrames) /\ used' \in [stops : 0 .. MaxStops, losses : 0 .. MaxLosses]
  <2>1. <<Complete>> \in Seq(HostFrames)
    BY Constructors
  <2>2. CASE Report(a) /\ UNCHANGED used
    BY <2>1, <2>2, HostQueue, UsedOK DEF Report, BaseInv
  <2>3. CASE used.losses < MaxLosses /\ used' = [used EXCEPT !.losses = @ + 1] /\ UNCHANGED toHost
    BY <2>3, UsedOK DEF BaseInv, QueuesOK
  <2>. QED  BY <2>2, <2>3 DEF JoinerTakesGrant
<1>6. QueuesOK'
  BY <1>1, <1>4, <1>5, InRoom DEF BaseInv, QueuesOK
<1>7. TypeOK'
  BY <1>2, <1>4, <1>5, <1>6 DEF BaseInv, TypeOK, QueuesOK
<1>8. RoomsOK'
  <2>1. a <= attempts /\ attempts \in Nat
    BY <1>1, InRoom DEF BaseInv, TypeOK
  <2>2. \A b \in Attempts : b > attempts' =>
          joiner'[b] = "none" /\ got'[b] = None /\ toJoiner'[b] = <<>>
    BY <1>4, <2>1 DEF BaseInv, TypeOK, RoomsOK, QueuesOK, Attempts
  <2>3. /\ joiner \in [Attempts -> {"none", "open", "granted", "paired", "failed"}]
        /\ got \in [Attempts -> Keys \cup {None}] /\ room \in [Codes -> Attempts \cup {None}]
    BY DEF BaseInv, TypeOK
  <2>. QED  BY <1>1, <1>4, <2>2, <2>3 DEF BaseInv, RoomsOK
<1>. QED  BY <1>6, <1>7, <1>8 DEF BaseInv

\* An attempt ends, and leaves its room.
LEMMA JoinerLeavesBase ==
  ASSUME BaseInv, NEW a \in Attempts, joiner[a] \in {"open", "granted"},
         NEW state \in {"failed", "paired"}, joiner' = [joiner EXCEPT ![a] = state],
         JoinerLeaves(a, <<>>),
         toJoiner' = toJoiner \/ toJoiner' = [toJoiner EXCEPT ![a] = <<>>],
         UNCHANGED <<hostVars, attempts, entered, salt, got>>,
         used' \in [stops : 0 .. MaxStops, losses : 0 .. MaxLosses]
  PROVE  BaseInv'
<1>1. toHost' \in Seq(HostFrames) /\ room' = [room EXCEPT ![entered[a]] = None]
  BY JoinerLeavesQueues DEF BaseInv
<1>2. QueuesOK' /\ (\A b \in Attempts : toJoiner'[b] \in {toJoiner[b], <<>>})
  <2>. USE <1>1 DEF BaseInv, QueuesOK
  <2>1. CASE toJoiner' = toJoiner
    BY <2>1
  <2>2. CASE toJoiner' = [toJoiner EXCEPT ![a] = <<>>]
    BY <2>2
  <2>. QED  BY <2>1, <2>2
<1>3. UNCHANGED <<session, host, code, key, joiner_public_key, group>>
  BY DEF hostVars
<1>4. TypeOK'
  <2>1. /\ \A i \in DOMAIN toHost' : toHost'[i] \in HostFrames
        /\ \A b \in Attempts : \A i \in DOMAIN toJoiner'[b] : toJoiner'[b][i] \in JoinerFrames
    BY <1>2 DEF QueuesOK
  <2>. QED  BY <1>1, <1>3, <2>1 DEF BaseInv, TypeOK
<1>5. RoomsOK'
  <2>1. a <= attempts /\ attempts \in Nat
    BY InRoom DEF BaseInv, TypeOK
  <2>2. \A b \in Attempts : b > attempts' =>
          joiner'[b] = "none" /\ got'[b] = None /\ toJoiner'[b] = <<>>
    BY <1>2, <2>1 DEF BaseInv, TypeOK, RoomsOK, Attempts
  <2>3. /\ joiner \in [Attempts -> {"none", "open", "granted", "paired", "failed"}]
        /\ entered \in [Attempts -> Codes \cup {None}] /\ room \in [Codes -> Attempts \cup {None}]
    BY DEF BaseInv, TypeOK
  <2>4. entered[a] \in Codes /\ room[entered[a]] = a
    BY InRoom
  <2>5. \A b \in Attempts : joiner'[b] \in {"open", "granted"} =>
          entered'[b] # None /\ room'[entered'[b]] = b
    BY <1>1, <2>3, InRoom DEF BaseInv, RoomsOK
  <2>6. \A c \in Codes : room'[c] # None =>
          entered'[room'[c]] = c /\ joiner'[room'[c]] \in {"open", "granted"}
    BY <1>1, <2>3, <2>4 DEF BaseInv, RoomsOK
  <2>. QED  BY <1>1, <1>3, <2>2, <2>3, <2>5, <2>6 DEF BaseInv, RoomsOK
<1>. QED  BY <1>2, <1>4, <1>5 DEF BaseInv

\* The ways to end.
JoinerEnds(a) ==
  JoinerRefusesGrant(a) \/ JoinerTakesCancel(a) \/ JoinerSaves(a) \/ JoinerStops(a)

LEMMA JoinerEndsParts ==
  ASSUME BaseInv, NEW a \in Attempts, JoinerEnds(a)
  PROVE  /\ joiner[a] \in {"open", "granted"} /\ JoinerLeaves(a, <<>>)
         /\ \E state \in {"failed", "paired"} : joiner' = [joiner EXCEPT ![a] = state]
         /\ toJoiner' = toJoiner \/ toJoiner' = [toJoiner EXCEPT ![a] = <<>>]
         /\ UNCHANGED <<hostVars, attempts, entered, salt, got>>
         /\ used' \in [stops : 0 .. MaxStops, losses : 0 .. MaxLosses]
         /\ used' = used \/ used'.stops # 0
<1>1. CASE JoinerRefusesGrant(a)
  BY <1>1, UsedOK DEF JoinerRefusesGrant, Gets, JoinerFails, RefusalSends
<1>2. CASE JoinerTakesCancel(a)
  BY <1>2, UsedOK DEF JoinerTakesCancel, Gets, JoinerFails
<1>3. CASE JoinerSaves(a)
  BY <1>3, UsedOK DEF JoinerSaves
<1>4. CASE JoinerStops(a)
  <2>1. used'.stops # 0
    BY <1>4, BoundsAssumption DEF JoinerStops, BaseInv, TypeOK
  <2>. QED  BY <1>4, <2>1, UsedOK DEF JoinerStops, JoinerFails
<1>. QED  BY <1>1, <1>2, <1>3, <1>4 DEF JoinerEnds

LEMMA BaseStep == BaseInv /\ [Next]_vars => BaseInv'
<1>. SUFFICES ASSUME BaseInv, [Next]_vars PROVE BaseInv'
  OBVIOUS
<1>1. CASE \E c \in Codes : HostOpens(c) \/ JoinerOpens(c)
  BY <1>1, HostOpensBase, JoinerOpensBase
<1>2. CASE HostTakes
  <2>1. HostRefusesProof \/ HostTakesComplete \/ HostTakesCancel => BaseInv'
    BY HostEndsBase DEF HostRefusesProof, HostTakesComplete, HostTakesCancel, Took
  <2>. QED  BY <1>2, <2>1, HostTakesReadyBase, HostTakesJoinBase, HostTakesProofBase DEF HostTakes
<1>3. CASE HostSaves \/ HostStops
  BY <1>3, HostSavesBase, HostStopsBase
<1>4. CASE \E a \in Attempts : JoinerTakes(a) \/ JoinerSaves(a) \/ JoinerStops(a)
  <2>1. PICK a \in Attempts : JoinerTakes(a) \/ JoinerSaves(a) \/ JoinerStops(a)
    BY <1>4
  <2>2. JoinerEnds(a) => BaseInv'
    BY JoinerEndsParts, JoinerLeavesBase
  <2>. QED  BY <2>1, <2>2, JoinerTakesHelloBase, JoinerTakesGrantBase DEF JoinerTakes, JoinerEnds
<1>5. CASE UNCHANGED vars
  <2>1. UNCHANGED <<session, host, code, key, joiner_public_key, group, attempts, joiner, entered,
                    salt, got, room, toHost, toJoiner, used>>
    BY <1>5 DEF vars, hostVars, joinerVars
  <2>. QED  BY <2>1 DEF BaseInv, TypeOK, QueuesOK, RoomsOK
<1>. QED  BY <1>1, <1>2, <1>3, <1>4, <1>5 DEF Next

\* The types of the whole, in every reachable state.
THEOREM TypeCorrect == Spec => []TypeOK
<1>1. BaseInv => TypeOK
  BY DEF BaseInv
<1>. QED  BY <1>1, InitBase, BaseStep, PTL DEF Spec

-----------------------------------------------------------------------------
(* A host's success means that a joiner has its key *)

\* Steps that neither grant nor report.
LEMMA GrantsKept ==
  ASSUME GrantsOK, UNCHANGED <<session, code, key, entered, salt, got>>,
         \A a \in Attempts : \A i \in DOMAIN toJoiner'[a] :
           \/ toJoiner'[a][i].t # "grant"
           \/ \E j \in DOMAIN toJoiner[a] : toJoiner'[a][i] = toJoiner[a][j],
         \A i \in DOMAIN toHost' :
           \/ toHost'[i].t # "pair_complete"
           \/ \E j \in DOMAIN toHost : toHost'[i] = toHost[j]
  PROVE  GrantsOK'
BY DEF GrantsOK

\* What Tail leaves of a queue was in it.
LEMMA TailFrames ==
  ASSUME NEW S, NEW q \in Seq(S), q # <<>>
  PROVE  /\ Head(q) = q[1] /\ 1 \in DOMAIN q /\ Len(q) \in Nat
         /\ DOMAIN q = 1 .. Len(q) /\ DOMAIN Tail(q) = 1 .. Len(q) - 1
         /\ \A i \in DOMAIN Tail(q) : i + 1 \in DOMAIN q /\ Tail(q)[i] = q[i + 1]
OBVIOUS

LEMMA HostOpensGrants ==
  ASSUME BaseInv, GrantsOK, NEW c \in Codes, HostOpens(c)
  PROVE  GrantsOK'
<1>1. /\ session \in Nat /\ session' = session + 1
      /\ code' = [code EXCEPT ![session + 1] = c]
      /\ key' = [key EXCEPT ![session + 1] = GroupKey(session + 1)]
      /\ toHost' \in {<<>>, <<Ready>>}
      /\ UNCHANGED <<entered, salt, got, toJoiner>>
  BY DEF HostOpens, joinerVars, BaseInv, TypeOK
<1>2. \A t \in Nat : t <= session => code'[t] = code[t] /\ key'[t] = key[t]
  BY <1>1 DEF BaseInv, TypeOK
<1>3. \A a \in Attempts : salt[a] \in Nat
  BY DEF BaseInv, TypeOK, Sessions, None
<1>4. \A a \in Attempts : \A i \in DOMAIN toJoiner[a] :
        toJoiner[a][i].t = "grant" => toJoiner[a][i].proof[2] \in Nat
  <2>. SUFFICES ASSUME NEW a \in Attempts, NEW i \in DOMAIN toJoiner[a],
                       toJoiner[a][i].t = "grant"
                PROVE  toJoiner[a][i].proof[2] \in Nat
    OBVIOUS
  <2>1. toJoiner[a][i] \in JoinerFrames
    BY DEF BaseInv, TypeOK
  <2>. QED  BY <2>1, JoinerFrameParts DEF Proofs, Sessions
<1>5. \A i \in DOMAIN toHost' : toHost'[i].t # "pair_complete"
  <2>1. \A i \in DOMAIN <<Ready>> : <<Ready>>[i].t # "pair_complete"
    BY DEF Ready
  <2>. QED  BY <1>1, <2>1
<1>. QED  BY <1>1, <1>2, <1>3, <1>4, <1>5 DEF GrantsOK

LEMMA JoinerOpensGrants ==
  ASSUME BaseInv, GrantsOK, NEW c \in Codes, JoinerOpens(c)
  PROVE  GrantsOK'
<1>. DEFINE a == attempts + 1
<1>1. /\ a \in Attempts /\ entered' = [entered EXCEPT ![a] = c] /\ ForwardToHost(c, <<Ready>>)
      /\ UNCHANGED <<session, code, key, salt, got, toJoiner>>
  BY BoundsAssumption DEF JoinerOpens, hostVars, BaseInv, TypeOK, Attempts
<1>2. got[a] = None
  BY <1>1 DEF BaseInv, TypeOK, RoomsOK, Attempts
<1>. HIDE DEF a
<1>3. \A i \in DOMAIN toHost' : toHost'[i].t = "pair_complete" =>
        i \in DOMAIN toHost /\ toHost'[i] = toHost[i]
  <2>1. <<Ready>> \in Seq(HostFrames) /\ \A i \in DOMAIN <<Ready>> : <<Ready>>[i].t # "pair_complete"
    BY Constructors DEF Ready
  <2>. QED  BY <1>1, <2>1, HostQueue DEF BaseInv
<1>4. \A b \in Attempts : got[b] # None => entered'[b] = entered[b]
  BY <1>1, <1>2 DEF BaseInv, TypeOK
<1>. QED  BY <1>1, <1>3, <1>4 DEF GrantsOK

LEMMA HostTakesProofGrants ==
  ASSUME BaseInv, GrantsOK, HostTakesProof
  PROVE  GrantsOK'
<1>. DEFINE grant == Grant(Expected("A"), key[session], joiner_public_key)
<1>1. /\ Hosting /\ session # 0 /\ toHost # <<>> /\ toHost' = Tail(toHost)
      /\ ForwardToJoiner(grant) /\ joiner_public_key # None
      /\ UNCHANGED <<session, code, key, entered, salt, got>>
  BY DEF HostTakesProof, Took, Hosting, hostVars, joinerVars
<1>2. code[session] \in Codes /\ session \in Nat /\ grant \in JoinerFrames
  BY <1>1, InSession, ExpectedOK, Constructors DEF Sessions
<1>3. /\ grant.proof[2] = session /\ grant.proof[1] = code[session] /\ grant.key = key[session]
  BY DEF Grant, Expected, Proof
<1>. HIDE DEF grant
<1>4. \A b \in Attempts : \A i \in DOMAIN toJoiner'[b] :
        \/ i \in DOMAIN toJoiner[b] /\ toJoiner'[b][i] = toJoiner[b][i]
        \/ toJoiner'[b][i] = grant
  BY <1>1, <1>2, JoinerQueues DEF BaseInv, TypeOK
<1>5. \A i \in DOMAIN toHost' : \E j \in DOMAIN toHost : toHost'[i] = toHost[j]
  BY <1>1, TailFrames DEF BaseInv, QueuesOK
<1>. QED  BY <1>1, <1>2, <1>3, <1>4, <1>5 DEF GrantsOK

LEMMA JoinerTakesHelloGrants ==
  ASSUME BaseInv, GrantsOK, NEW a \in Attempts, JoinerTakesHello(a)
  PROVE  GrantsOK'
<1>. DEFINE s == Head(toJoiner[a]).salt
            p == Proof(entered[a], s, a, "B")
            frames == <<Join(a), ProofB(p)>>
<1>1. joiner[a] = "open" /\ toJoiner[a] # <<>> /\ Head(toJoiner[a]).t = "hello"
  BY DEF JoinerTakesHello, Gets
<1>2. /\ salt' = [salt EXCEPT ![a] = s] /\ ForwardToHost(entered[a], frames)
      /\ toJoiner' = [toJoiner EXCEPT ![a] = Tail(toJoiner[a])]
      /\ UNCHANGED <<session, code, key, got, entered>>
  BY DEF JoinerTakesHello, hostVars
<1>3. frames \in Seq(HostFrames) /\ \A i \in DOMAIN frames : frames[i].t # "pair_complete"
  <2>1. p \in Proofs
    BY <1>1, InRoom, JoinerFrameParts DEF Proof, Proofs
  <2>2. Join(a) \in HostFrames /\ ProofB(p) \in HostFrames
    BY <2>1, Constructors
  <2>. HIDE DEF p
  <2>. QED  BY <2>2 DEF Join, ProofB
<1>4. got[a] = None
  BY <1>1 DEF BaseInv, RoomsOK
<1>. HIDE DEF s, frames
<1>5. \A i \in DOMAIN toHost' : toHost'[i].t = "pair_complete" =>
        i \in DOMAIN toHost /\ toHost'[i] = toHost[i]
  BY <1>2, <1>3, HostQueue DEF BaseInv
<1>6. \A b \in Attempts : \A i \in DOMAIN toJoiner'[b] :
        \E j \in DOMAIN toJoiner[b] : toJoiner'[b][i] = toJoiner[b][j]
  BY <1>1, <1>2, TailFrames DEF BaseInv, QueuesOK
<1>7. \A b \in Attempts : got[b] # None => salt'[b] = salt[b]
  BY <1>2, <1>4 DEF BaseInv, TypeOK
<1>. QED  BY <1>2, <1>5, <1>6, <1>7 DEF GrantsOK

\* What a joiner that takes a grant has then.
LEMMA TakenGrant ==
  ASSUME BaseInv, GrantsOK, NEW a \in Attempts, JoinerTakesGrant(a)
  PROVE  /\ joiner[a] = "open" /\ toJoiner[a] # <<>> /\ got[a] = None
         /\ got' = [got EXCEPT ![a] = Head(toJoiner[a]).key] /\ got'[a] \in Keys
         /\ salt[a] # None /\ salt[a] <= session
         /\ entered[a] = code[salt[a]] /\ got'[a] = key[salt[a]]
         /\ toJoiner[a][1].t = "grant"
         /\ toJoiner[a][1].proof = Proof(entered[a], salt[a], a, "A")
         /\ 1 \in DOMAIN toJoiner[a]
         /\ UNCHANGED <<session, host, code, key, joiner_public_key, group, attempts, entered,
                        salt, room>>
<1>1. /\ joiner[a] = "open" /\ toJoiner[a] # <<>> /\ Fits(a, Head(toJoiner[a]))
      /\ Head(toJoiner[a]).t = "grant"
      /\ got' = [got EXCEPT ![a] = Head(toJoiner[a]).key]
      /\ UNCHANGED <<session, host, code, key, joiner_public_key, group, attempts, entered,
                     salt, room>>
  BY DEF JoinerTakesGrant, Gets, hostVars
<1>2. 1 \in DOMAIN toJoiner[a] /\ Head(toJoiner[a]) = toJoiner[a][1]
  BY <1>1, TailFrames DEF BaseInv, QueuesOK
<1>3. salt[a] # None /\ toJoiner[a][1].proof = Proof(entered[a], salt[a], a, "A")
  BY <1>1, <1>2 DEF Fits
<1>4. /\ salt[a] <= session /\ entered[a] = code[salt[a]]
      /\ toJoiner[a][1].key = key[salt[a]]
  BY <1>1, <1>2, <1>3 DEF GrantsOK, Proof
<1>5. toJoiner[a][1].key \in Keys
  BY <1>1, <1>2, JoinerFrameParts DEF BaseInv, TypeOK
<1>6. got[a] = None
  BY <1>1 DEF BaseInv, RoomsOK
<1>7. got'[a] = toJoiner[a][1].key
  BY <1>1, <1>2 DEF BaseInv, TypeOK
<1>. QED  BY <1>1, <1>2, <1>3, <1>4, <1>5, <1>6, <1>7

LEMMA JoinerTakesGrantGrants ==
  ASSUME BaseInv, GrantsOK, NEW a \in Attempts, JoinerTakesGrant(a)
  PROVE  GrantsOK'
<1>1. got'[a] # None
  BY TakenGrant, BoundsAssumption DEF Keys, Sessions, OldGroup, None
<1>2. \A i \in DOMAIN toHost' :
        \/ i \in DOMAIN toHost /\ toHost'[i] = toHost[i]
        \/ HostIn(entered[a])
  <2>1. <<Complete>> \in Seq(HostFrames)
    BY Constructors
  <2>. QED  BY <2>1, HostQueue DEF JoinerTakesGrant, Report, BaseInv
<1>3. \A i \in DOMAIN toHost' : toHost'[i].t = "pair_complete" =>
        \E b \in Attempts : entered[b] = code[session] /\ got'[b] # None
  <2>. SUFFICES ASSUME NEW i \in DOMAIN toHost', toHost'[i].t = "pair_complete"
                PROVE  \E b \in Attempts : entered[b] = code[session] /\ got'[b] # None
    OBVIOUS
  <2>1. CASE i \in DOMAIN toHost /\ toHost'[i] = toHost[i]
    BY <1>1, <2>1, TakenGrant DEF GrantsOK, BaseInv, TypeOK
  <2>2. CASE HostIn(entered[a])
    BY <1>1, <2>2 DEF HostIn
  <2>. QED  BY <1>2, <2>1, <2>2
<1>4. \A b \in Attempts : \A i \in DOMAIN toJoiner'[b] :
        \E j \in DOMAIN toJoiner[b] : toJoiner'[b][i] = toJoiner[b][j]
  <2>1. toJoiner[a] # <<>> /\ toJoiner' = [toJoiner EXCEPT ![a] = Tail(toJoiner[a])]
    BY TakenGrant DEF JoinerTakesGrant
  <2>. QED  BY <2>1, TailFrames DEF BaseInv, QueuesOK
<1>5. \A b \in Attempts : got'[b] # None =>
       /\ salt[b] # None /\ salt[b] <= session
       /\ entered[b] = code[salt[b]] /\ got'[b] = key[salt[b]]
  BY TakenGrant DEF GrantsOK, BaseInv, TypeOK
<1>. QED  BY <1>3, <1>4, <1>5, TakenGrant DEF GrantsOK

\* The ways for an open session to end.
HostCloses ==
  HostRefusesProof \/ HostTakesComplete \/ HostTakesCancel \/ HostStops

LEMMA HostClosesParts ==
  ASSUME BaseInv, HostCloses
  PROVE  /\ session # 0 /\ session \in Sessions /\ code[session] \in Codes
         /\ host[session] \in {"open", "done"}
         /\ \E state \in {"done", "failed"} : host' = [host EXCEPT ![session] = state]
         /\ HostStops \/ HostRefusesProof \/ HostTakesCancel => host'[session] = "failed"
         /\ HostStops => used'.stops # 0
         /\ HostLeaves \/ (~Hosting /\ UNCHANGED <<toHost, toJoiner>>)
         /\ UNCHANGED <<session, code, key, joiner_public_key, group, attempts, joiner, entered,
                        salt, got, room>>
<1>1. CASE HostRefusesProof \/ HostTakesComplete \/ HostTakesCancel
  <2>1. Hosting /\ \E state \in {"done", "failed"} : HostEnds(state)
    BY <1>1 DEF HostRefusesProof, HostTakesComplete, HostTakesCancel, Took
  <2>2. session # 0 /\ session \in Sessions /\ host[session] = "open" /\ code[session] \in Codes
    BY <2>1, InSession DEF Hosting
  <2>3. \A state \in {"done", "failed"} : HostEnds(state) => HostLeaves
    BY DEF HostEnds
  <2>4. HostRefusesProof \/ HostTakesCancel => host'[session] = "failed"
    BY <2>2 DEF HostRefusesProof, HostTakesCancel, HostEnds, BaseInv, TypeOK
  <2>5. HostStops => host'[session] = "failed" /\ used'.stops # 0
    BY <2>2, BoundsAssumption DEF HostStops, BaseInv, TypeOK
  <2>. QED  BY <2>1, <2>2, <2>3, <2>4, <2>5 DEF HostEnds, joinerVars
<1>2. CASE HostStops
  <2>1. session # 0 /\ session \in Sessions /\ code[session] \in Codes
    BY <1>2, InSession DEF HostStops
  <2>2. host'[session] = "failed" /\ used'.stops # 0
    BY <1>2, <2>1, BoundsAssumption DEF HostStops, BaseInv, TypeOK
  <2>3. HostLeaves \/ (~Hosting /\ UNCHANGED <<toHost, toJoiner>>)
    BY <1>2 DEF HostStops
  <2>. QED  BY <1>2, <2>1, <2>2, <2>3 DEF HostStops, joinerVars
<1>. QED  BY <1>1, <1>2 DEF HostCloses

LEMMA HostClosesGrants ==
  ASSUME BaseInv, GrantsOK, HostCloses
  PROVE  GrantsOK'
<1>1. \A a \in Attempts : \A i \in DOMAIN toJoiner'[a] :
        \/ toJoiner'[a][i].t # "grant"
        \/ \E j \in DOMAIN toJoiner[a] : toJoiner'[a][i] = toJoiner[a][j]
  <2>1. Cancel.t # "grant"
    BY DEF Cancel
  <2>. QED  BY <2>1, HostClosesParts, HostLeavesQueues DEF BaseInv, TypeOK
<1>2. \A i \in DOMAIN toHost' : \E j \in DOMAIN toHost : toHost'[i] = toHost[j]
  <2>1. DOMAIN <<>> = {}
    OBVIOUS
  <2>. QED  BY <2>1, HostClosesParts DEF HostLeaves
<1>. QED  BY <1>1, <1>2, HostClosesParts, GrantsKept

LEMMA GrantsStep ==
  ASSUME BaseInv, GrantsOK, [Next]_vars
  PROVE  GrantsOK'
<1>1. CASE \E c \in Codes : HostOpens(c) \/ JoinerOpens(c)
  BY <1>1, HostOpensGrants, JoinerOpensGrants
<1>2. CASE HostTakesReady
  <2>1. /\ toHost' = Tail(toHost) /\ toHost # <<>> /\ session # 0
        /\ ForwardToJoiner(Hello(session))
        /\ UNCHANGED <<session, code, key, entered, salt, got>>
    BY <1>2 DEF HostTakesReady, Took, Hosting, hostVars, joinerVars
  <2>2. Hello(session) \in JoinerFrames /\ code[session] \in Codes /\ Hello(session).t # "grant"
    BY <2>1, InSession, Constructors DEF Hello
  <2>3. \A a \in Attempts : \A i \in DOMAIN toJoiner'[a] :
          \/ toJoiner'[a][i].t # "grant"
          \/ \E j \in DOMAIN toJoiner[a] : toJoiner'[a][i] = toJoiner[a][j]
    <3>1. \A a \in Attempts : \A i \in DOMAIN toJoiner'[a] :
            \/ i \in DOMAIN toJoiner[a] /\ toJoiner'[a][i] = toJoiner[a][i]
            \/ toJoiner'[a][i] = Hello(session)
      BY <2>1, <2>2, JoinerQueues DEF BaseInv, TypeOK
    <3>. QED  BY <2>2, <3>1
  <2>4. \A i \in DOMAIN toHost' : \E j \in DOMAIN toHost : toHost'[i] = toHost[j]
    BY <2>1, TailFrames DEF BaseInv, QueuesOK
  <2>. QED  BY <2>1, <2>3, <2>4, GrantsKept
<1>3. CASE HostTakesJoin
  <2>1. /\ toHost' = Tail(toHost) /\ toHost # <<>>
        /\ UNCHANGED <<session, code, key, entered, salt, got, toJoiner>>
    BY <1>3 DEF HostTakesJoin, Took, joinerVars
  <2>2. \A i \in DOMAIN toHost' : \E j \in DOMAIN toHost : toHost'[i] = toHost[j]
    BY <2>1, TailFrames DEF BaseInv, QueuesOK
  <2>. QED  BY <2>1, <2>2, GrantsKept
<1>4. CASE HostTakesProof
  BY <1>4, HostTakesProofGrants
<1>5. CASE HostCloses
  BY <1>5, HostClosesGrants
<1>6. CASE HostSaves \/ UNCHANGED vars
  <2>1. UNCHANGED <<session, code, key, entered, salt, got, toHost, toJoiner>>
    BY <1>6 DEF HostSaves, vars, hostVars, joinerVars
  <2>. QED  BY <2>1, GrantsKept
<1>7. CASE \E a \in Attempts : JoinerTakesHello(a) \/ JoinerTakesGrant(a)
  BY <1>7, JoinerTakesHelloGrants, JoinerTakesGrantGrants
<1>8. CASE \E a \in Attempts : JoinerEnds(a)
  <2>1. PICK a \in Attempts : JoinerEnds(a)
    BY <1>8
  <2>2. /\ UNCHANGED <<session, code, key, entered, salt, got>>
        /\ toJoiner' = toJoiner \/ toJoiner' = [toJoiner EXCEPT ![a] = <<>>]
        /\ toHost' = toHost \/ toHost' = Append(toHost, Cancel)
    BY <2>1, JoinerEndsParts, JoinerLeavesQueues DEF BaseInv, hostVars
  <2>3. \A b \in Attempts : \A i \in DOMAIN toJoiner'[b] :
          \E j \in DOMAIN toJoiner[b] : toJoiner'[b][i] = toJoiner[b][j]
    <3>1. CASE toJoiner' = toJoiner
      BY <3>1
    <3>2. CASE toJoiner' = [toJoiner EXCEPT ![a] = <<>>]
      BY <3>2 DEF BaseInv, QueuesOK
    <3>. QED  BY <2>2, <3>1, <3>2
  <2>4. \A i \in DOMAIN toHost' :
          \/ toHost'[i].t # "pair_complete"
          \/ \E j \in DOMAIN toHost : toHost'[i] = toHost[j]
    <3>1. toHost \in Seq(HostFrames) /\ Cancel.t # "pair_complete"
      BY DEF Cancel, BaseInv, QueuesOK
    <3>2. CASE toHost' = toHost
      BY <3>2
    <3>3. CASE toHost' = Append(toHost, Cancel)
      BY <3>1, <3>3
    <3>. QED  BY <2>2, <3>2, <3>3
  <2>. QED  BY <2>2, <2>3, <2>4, GrantsKept
<1>. QED  BY <1>1, <1>2, <1>3, <1>4, <1>5, <1>6, <1>7, <1>8
          DEF Next, HostTakes, JoinerTakes, JoinerEnds, HostCloses

\* Which session it is for that the host reports success.
LEMMA CompletedStep ==
  ASSUME BaseInv, GrantsOK, CompletedMeansJoined, [Next]_vars
  PROVE  CompletedMeansJoined'
<1>. SUFFICES ASSUME NEW s \in Sessions, host'[s] \in {"done", "saved"}, NewCode(s)'
              PROVE  \E a \in Attempts : entered'[a] = code'[s] /\ got'[a] = key'[s]
  BY DEF CompletedMeansJoined
<1>1. \A a \in Attempts : got[a] # None =>
        entered'[a] = entered[a] /\ got'[a] = got[a]
  <2>. SUFFICES ASSUME NEW a \in Attempts, got[a] # None
                PROVE  entered'[a] = entered[a] /\ got'[a] = got[a]
    OBVIOUS
  <2>1. CASE \E c \in Codes : HostOpens(c)
    BY <2>1 DEF HostOpens, joinerVars
  <2>2. CASE \E c \in Codes : JoinerOpens(c)
    <3>. PICK c \in Codes : JoinerOpens(c)
      BY <2>2
    <3>1. got' = got /\ attempts \in Nat /\ entered' = [entered EXCEPT ![attempts + 1] = c]
      BY DEF JoinerOpens, BaseInv, TypeOK
    <3>2. a # attempts + 1
      BY <3>1 DEF BaseInv, RoomsOK, Attempts
    <3>. QED  BY <3>1, <3>2 DEF BaseInv, TypeOK
  <2>3. CASE HostTakes \/ HostSaves \/ HostStops \/ UNCHANGED vars
    BY <2>3 DEF HostTakes, HostTakesReady, HostTakesJoin, HostTakesProof, HostRefusesProof,
       HostTakesComplete, HostTakesCancel, HostEnds, HostSaves, HostStops, vars, joinerVars
  <2>4. CASE \E b \in Attempts : JoinerEnds(b) \/ JoinerTakesHello(b)
    BY <2>4, JoinerEndsParts DEF JoinerTakesHello
  <2>5. CASE \E b \in Attempts : JoinerTakesGrant(b)
    BY <2>5, TakenGrant DEF BaseInv, TypeOK
  <2>. QED  BY <2>1, <2>2, <2>3, <2>4, <2>5 DEF Next, JoinerTakes, JoinerEnds
<1>2. session \in Nat /\ s \in Nat /\ host[s] \in {"none", "open", "done", "saved", "failed"}
  BY DEF BaseInv, TypeOK, Sessions
<1>3. /\ s <= session
      /\ \A t \in 1 .. s : code'[t] = code[t] /\ key'[t] = key[t]
  <2>1. CASE \E c \in Codes : HostOpens(c)
    <3>1. PICK c \in Codes : HostOpens(c)
      BY <2>1
    <3>2. /\ host' = [host EXCEPT ![session + 1] = "open"] /\ session + 1 \in Sessions
          /\ code' = [code EXCEPT ![session + 1] = c]
          /\ key' = [key EXCEPT ![session + 1] = GroupKey(session + 1)]
      BY <1>2, <3>1, BoundsAssumption DEF HostOpens, Sessions
    <3>3. s # session + 1 /\ host[s] # "none"
      BY <3>2 DEF BaseInv, TypeOK
    <3>4. s <= session
      BY <1>2, <3>3 DEF BaseInv, RoomsOK
    <3>. QED  BY <1>2, <3>2, <3>4 DEF BaseInv, TypeOK, Sessions
  <2>2. CASE ~\E c \in Codes : HostOpens(c)
    <3>1. UNCHANGED <<session, code, key>>
      <4>1. CASE HostTakes \/ HostSaves \/ HostStops \/ UNCHANGED vars
        BY <4>1 DEF HostTakes, HostTakesReady, HostTakesJoin, HostTakesProof, HostRefusesProof,
           HostTakesComplete, HostTakesCancel, HostEnds, HostSaves, HostStops, vars, hostVars
      <4>2. CASE \E b \in Attempts : JoinerEnds(b) \/ JoinerTakesHello(b)
        BY <4>2, JoinerEndsParts DEF JoinerTakesHello, hostVars
      <4>3. CASE \E b \in Attempts : JoinerTakesGrant(b)
        BY <4>3 DEF JoinerTakesGrant, hostVars
      <4>4. CASE \E c \in Codes : JoinerOpens(c)
        BY <4>4 DEF JoinerOpens, hostVars
      <4>. QED  BY <2>2, <4>1, <4>2, <4>3, <4>4 DEF Next, JoinerTakes, JoinerEnds
    <3>2. BaseInv'
      BY BaseStep
    <3>. QED  BY <1>2, <3>1, <3>2 DEF BaseInv, RoomsOK
  <2>. QED  BY <2>1, <2>2
<1>4. NewCode(s) /\ code'[s] = code[s] /\ key'[s] = key[s]
  BY <1>2, <1>3 DEF NewCode, Sessions
<1>5. CASE host[s] \in {"done", "saved"}
  <2>1. PICK a \in Attempts : entered[a] = code[s] /\ got[a] = key[s]
    BY <1>4, <1>5 DEF CompletedMeansJoined
  <2>2. key[s] # None
    BY <1>5 DEF BaseInv, TypeOK
  <2>. QED  BY <1>1, <1>4, <2>1, <2>2
<1>6. CASE host[s] \notin {"done", "saved"}
  <2>1. HostTakesComplete /\ s = session
    <3>1. CASE \E c \in Codes : HostOpens(c)
      BY <1>6, <3>1 DEF HostOpens, BaseInv, TypeOK
    <3>2. CASE HostSaves
      BY <1>6, <3>2 DEF HostSaves, BaseInv, TypeOK
    <3>3. CASE HostCloses
      BY <1>6, <3>3, HostClosesParts DEF HostCloses, BaseInv, TypeOK
    <3>4. CASE HostTakesReady \/ HostTakesJoin \/ HostTakesProof \/ UNCHANGED vars
      BY <1>6, <3>4 DEF HostTakesReady, HostTakesJoin, HostTakesProof, vars, hostVars
    <3>5. CASE \E a \in Attempts : JoinerEnds(a) \/ JoinerTakesHello(a)
      BY <1>6, <3>5, JoinerEndsParts DEF JoinerTakesHello, hostVars
    <3>6. CASE \E a \in Attempts : JoinerTakesGrant(a)
      BY <1>6, <3>6 DEF JoinerTakesGrant, hostVars
    <3>7. CASE \E c \in Codes : JoinerOpens(c)
      BY <1>6, <3>7 DEF JoinerOpens, hostVars
    <3>. QED  BY <3>1, <3>2, <3>3, <3>4, <3>5, <3>6, <3>7
              DEF Next, HostTakes, HostCloses, JoinerTakes, JoinerEnds
  <2>2. toHost # <<>> /\ Head(toHost).t = "pair_complete"
    BY <2>1 DEF HostTakesComplete, Took
  <2>3. 1 \in DOMAIN toHost /\ Head(toHost) = toHost[1]
    BY <2>2, TailFrames DEF BaseInv, QueuesOK
  <2>4. PICK a \in Attempts : entered[a] = code[session] /\ got[a] # None
    BY <2>2, <2>3 DEF GrantsOK
  <2>5. /\ salt[a] # None /\ salt[a] <= session /\ salt[a] \in Nat
        /\ entered[a] = code[salt[a]] /\ got[a] = key[salt[a]]
    BY <2>4 DEF GrantsOK, BaseInv, TypeOK, Sessions, None
  <2>6. salt[a] \in 1 .. s /\ code[salt[a]] = code[s]
    BY <1>2, <2>1, <2>4, <2>5 DEF None
  <2>7. got[a] = key[s]
    BY <1>4, <2>5, <2>6 DEF NewCode
  <2>. QED  BY <1>1, <1>4, <2>1, <2>4, <2>7
<1>. QED  BY <1>5, <1>6

LEMMA InitSafe == Init => SafeInv
<1>. SUFFICES ASSUME Init PROVE SafeInv
  OBVIOUS
<1>1. GrantsOK
  BY DEF Init, GrantsOK
<1>2. CompletedMeansJoined
  BY DEF Init, CompletedMeansJoined
<1>. QED  BY <1>1, <1>2, InitBase DEF SafeInv

LEMMA SafeStep == SafeInv /\ [Next]_vars => SafeInv'
BY BaseStep, GrantsStep, CompletedStep DEF SafeInv

\* A host that reports success, and saves a new group, has handed its key to a
\* joiner that entered its code, unless that code has stood for another group.
THEOREM CompletedMeansJoinedAlways == Spec => []CompletedMeansJoined
<1>1. SafeInv => CompletedMeansJoined
  BY DEF SafeInv
<1>. QED  BY <1>1, InitSafe, SafeStep, PTL DEF Spec

-----------------------------------------------------------------------------
(* Host and joiner agree *)

\* An open session takes a frame and stays open.
HostAnswers == HostTakesReady \/ HostTakesJoin \/ HostTakesProof

Granted == Grant(Expected("A"), key[session], joiner_public_key)

LEMMA HostAnswersParts ==
  ASSUME BaseInv, HostAnswers
  PROVE  /\ Hosting /\ session \in Sessions /\ code[session] \in Codes
         /\ toHost # <<>> /\ toHost' = Tail(toHost) /\ 1 \in DOMAIN toHost
         /\ toHost[1].t \notin {"pair_complete", "pair_cancel"}
         /\ UNCHANGED <<session, host, code, key, group, attempts, joiner, entered, salt, got,
                        room, used>>
         /\ \/ UNCHANGED joiner_public_key
            \/ toHost[1].t = "join" /\ joiner_public_key' = toHost[1].salt
         /\ HostTakesProof =>
              /\ UNCHANGED joiner_public_key /\ joiner_public_key # None
              /\ toHost[1].t = "proof_b" /\ toHost[1].proof = Expected("B")
         /\ \A a \in Attempts : \A i \in DOMAIN toJoiner'[a] :
              \/ i \in DOMAIN toJoiner[a] /\ toJoiner'[a][i] = toJoiner[a][i]
              \/ toJoiner'[a][i] = Hello(session) /\ i = Len(toJoiner[a]) + 1
              \/ toJoiner'[a][i] = Granted /\ HostTakesProof /\ i = Len(toJoiner[a]) + 1
<1>1. /\ Hosting /\ session # 0 /\ toHost # <<>> /\ toHost' = Tail(toHost)
      /\ Head(toHost).t \in {"pair_ready", "join", "proof_b"}
      /\ UNCHANGED <<session, host, code, key, group, attempts, joiner, entered, salt, got,
                     room, used>>
  BY DEF HostAnswers, HostTakesReady, HostTakesJoin, HostTakesProof, Took, Hosting, hostVars,
     joinerVars
<1>2. 1 \in DOMAIN toHost /\ Head(toHost) = toHost[1]
  BY <1>1, TailFrames DEF BaseInv, QueuesOK
<1>3. session \in Sessions /\ code[session] \in Codes
  BY <1>1, InSession
<1>4. /\ \/ UNCHANGED joiner_public_key
         \/ toHost[1].t = "join" /\ joiner_public_key' = toHost[1].salt
      /\ HostTakesProof =>
           /\ UNCHANGED joiner_public_key /\ joiner_public_key # None
           /\ toHost[1].t = "proof_b" /\ toHost[1].proof = Expected("B")
  BY <1>2 DEF HostAnswers, HostTakesReady, HostTakesJoin, HostTakesProof, Took, hostVars
<1>5. \A a \in Attempts : \A i \in DOMAIN toJoiner'[a] :
        \/ i \in DOMAIN toJoiner[a] /\ toJoiner'[a][i] = toJoiner[a][i]
        \/ toJoiner'[a][i] = Hello(session) /\ i = Len(toJoiner[a]) + 1
        \/ toJoiner'[a][i] = Granted /\ HostTakesProof /\ i = Len(toJoiner[a]) + 1
  <2>1. CASE HostTakesReady
    <3>1. Hello(session) \in JoinerFrames /\ ForwardToJoiner(Hello(session))
      BY <1>3, <2>1, Constructors DEF HostTakesReady
    <3>. QED  BY <1>3, <3>1, JoinerQueues DEF BaseInv, TypeOK
  <2>2. CASE HostTakesJoin
    BY <2>2 DEF HostTakesJoin
  <2>3. CASE HostTakesProof
    <3>1. Granted \in JoinerFrames /\ ForwardToJoiner(Granted)
      BY <1>1, <1>3, <1>4, <2>3, InSession, ExpectedOK, Constructors DEF HostTakesProof, Granted
    <3>. QED  BY <1>3, <2>3, <3>1, JoinerQueues DEF BaseInv, TypeOK
  <2>. QED  BY <2>1, <2>2, <2>3 DEF HostAnswers
<1>. QED  BY <1>1, <1>2, <1>3, <1>4, <1>5

LEMMA JoinerTakesHelloParts ==
  ASSUME BaseInv, HellosOK, NEW a \in Attempts, JoinerTakesHello(a)
  PROVE  /\ joiner[a] = "open" /\ got[a] = None /\ entered[a] \in Codes
         /\ toJoiner[a] # <<>> /\ toJoiner' = [toJoiner EXCEPT ![a] = Tail(toJoiner[a])]
         /\ toJoiner[a][1].t = "hello" /\ 1 \in DOMAIN toJoiner[a]
         /\ salt' = [salt EXCEPT ![a] = toJoiner[a][1].salt]
         /\ salt'[a] \in Sessions /\ salt[a] <= salt'[a] /\ salt'[a] <= session
         /\ UNCHANGED <<session, host, code, key, joiner_public_key, group, attempts, joiner,
                        entered, got, room, used>>
         /\ toHost' \in Seq(HostFrames)
         /\ ~HostIn(entered[a]) => toHost' = toHost
         /\ HostIn(entered[a]) => Len(toHost') = Len(toHost) + 2
         /\ \A i \in DOMAIN toHost : i \in DOMAIN toHost' /\ toHost'[i] = toHost[i]
         /\ \A i \in DOMAIN toHost' :
              \/ i \in DOMAIN toHost /\ toHost'[i] = toHost[i]
              \/ HostIn(entered[a]) /\ i = Len(toHost) + 1 /\ toHost'[i] = Join(a)
              \/ /\ HostIn(entered[a]) /\ i = Len(toHost) + 2
                 /\ toHost'[i] = ProofB(Proof(entered[a], salt'[a], a, "B"))
<1>. DEFINE s == toJoiner[a][1].salt
            p == Proof(entered[a], s, a, "B")
            frames == <<Join(a), ProofB(p)>>
<1>1. joiner[a] = "open" /\ toJoiner[a] # <<>> /\ Head(toJoiner[a]).t = "hello"
  BY DEF JoinerTakesHello, Gets
<1>2. 1 \in DOMAIN toJoiner[a] /\ Head(toJoiner[a]) = toJoiner[a][1]
  BY <1>1, TailFrames DEF BaseInv, QueuesOK
<1>3. /\ salt' = [salt EXCEPT ![a] = s] /\ ForwardToHost(entered[a], frames)
      /\ toJoiner' = [toJoiner EXCEPT ![a] = Tail(toJoiner[a])]
      /\ UNCHANGED <<session, host, code, key, joiner_public_key, group, attempts, joiner,
                     entered, got, room, used>>
  BY <1>2 DEF JoinerTakesHello, hostVars
<1>4. s \in Sessions /\ got[a] = None /\ entered[a] \in Codes
  BY <1>1, <1>2, InRoom, JoinerFrameParts DEF BaseInv, TypeOK, RoomsOK
<1>5. salt'[a] = s /\ salt[a] <= s /\ s <= session
  BY <1>1, <1>2, <1>3 DEF HellosOK, BaseInv, TypeOK
<1>6. frames \in Seq(HostFrames) /\ DOMAIN frames = 1 .. 2 /\ Len(frames) = 2
  <2>1. p \in Proofs
    BY <1>4 DEF Proof, Proofs
  <2>2. Join(a) \in HostFrames /\ ProofB(p) \in HostFrames
    BY <2>1, Constructors
  <2>. HIDE DEF p
  <2>. QED  BY <2>2
<1>7. frames[1] = Join(a) /\ frames[2] = ProofB(p)
  OBVIOUS
<1>. HIDE DEF frames
<1>8. /\ toHost' \in Seq(HostFrames)
      /\ ~HostIn(entered[a]) => toHost' = toHost
      /\ HostIn(entered[a]) => Len(toHost') = Len(toHost) + 2
      /\ \A i \in DOMAIN toHost : i \in DOMAIN toHost' /\ toHost'[i] = toHost[i]
      /\ \A i \in DOMAIN toHost' :
           \/ i \in DOMAIN toHost
           \/ /\ HostIn(entered[a]) /\ i - Len(toHost) \in 1 .. 2
              /\ toHost'[i] = frames[i - Len(toHost)]
  BY <1>3, <1>6, HostQueue DEF BaseInv
<1>9. \A i \in DOMAIN toHost' :
        \/ i \in DOMAIN toHost /\ toHost'[i] = toHost[i]
        \/ HostIn(entered[a]) /\ i = Len(toHost) + 1 /\ toHost'[i] = Join(a)
        \/ HostIn(entered[a]) /\ i = Len(toHost) + 2 /\ toHost'[i] = ProofB(p)
  <2>. SUFFICES ASSUME NEW i \in DOMAIN toHost', i \notin DOMAIN toHost
                PROVE  \/ HostIn(entered[a]) /\ i = Len(toHost) + 1 /\ toHost'[i] = Join(a)
                       \/ HostIn(entered[a]) /\ i = Len(toHost) + 2 /\ toHost'[i] = ProofB(p)
    BY <1>8
  <2>1. /\ i \in Nat /\ Len(toHost) \in Nat /\ HostIn(entered[a])
        /\ i - Len(toHost) \in 1 .. 2 /\ toHost'[i] = frames[i - Len(toHost)]
    <3>1. toHost \in Seq(HostFrames) /\ toHost' \in Seq(HostFrames)
      BY <1>8 DEF BaseInv, QueuesOK
    <3>2. i \in Nat /\ Len(toHost) \in Nat
      BY <3>1
    <3>. QED  BY <1>8, <3>2
  <2>2. i - Len(toHost) = 1 \/ i - Len(toHost) = 2
    BY <2>1
  <2>. QED  BY <1>7, <2>1, <2>2
<1>. QED  BY <1>1, <1>2, <1>3, <1>4, <1>5, <1>8, <1>9

\* An attempt opens: the session in its room, if one is open, is told.
LEMMA JoinerOpensParts ==
  ASSUME BaseInv, NEW c \in Codes, JoinerOpens(c)
  PROVE  /\ attempts \in Nat /\ attempts + 1 \in Attempts /\ attempts' = attempts + 1
         /\ joiner' = [joiner EXCEPT ![attempts + 1] = "open"]
         /\ entered' = [entered EXCEPT ![attempts + 1] = c]
         /\ got[attempts + 1] = None /\ toJoiner[attempts + 1] = <<>>
         /\ UNCHANGED <<session, host, code, key, joiner_public_key, group, salt, got, toJoiner,
                        used>>
         /\ toHost' = toHost \/ toHost' = Append(toHost, Ready)
<1>1. /\ attempts \in Nat /\ attempts + 1 \in Attempts /\ attempts' = attempts + 1
      /\ joiner' = [joiner EXCEPT ![attempts + 1] = "open"]
      /\ entered' = [entered EXCEPT ![attempts + 1] = c]
      /\ ForwardToHost(c, <<Ready>>)
      /\ UNCHANGED <<session, host, code, key, joiner_public_key, group, salt, got, toJoiner,
                     used>>
  BY BoundsAssumption DEF JoinerOpens, BaseInv, TypeOK, Attempts, hostVars
<1>2. got[attempts + 1] = None /\ toJoiner[attempts + 1] = <<>>
  BY <1>1 DEF BaseInv, RoomsOK
<1>3. toHost \o <<Ready>> = Append(toHost, Ready)
  BY Constructors DEF BaseInv, QueuesOK
<1>. QED  BY <1>1, <1>2, <1>3 DEF ForwardToHost

\* The steps that leave the salts alone and send neither hello nor proof.
LEMMA SaltsKept ==
  ASSUME SaltsOK, UNCHANGED <<session, attempts, salt>>,
         \A a \in Attempts : \A i \in DOMAIN toJoiner'[a] :
           \/ i \in DOMAIN toJoiner[a] /\ toJoiner'[a][i] = toJoiner[a][i]
           \/ toJoiner'[a][i].t \notin {"hello", "grant"},
         \A i \in DOMAIN toHost' :
           \/ \E j \in DOMAIN toHost : toHost'[i] = toHost[j]
           \/ toHost'[i].t # "proof_b"
  PROVE  SaltsOK'
<1>1. HellosOK'
  BY DEF SaltsOK, HellosOK
<1>2. ProvenOK'
  BY DEF SaltsOK, ProvenOK
<1>. QED  BY <1>1, <1>2 DEF SaltsOK

LEMMA HostOpensSalts ==
  ASSUME BaseInv, SaltsOK, NEW c \in Codes, HostOpens(c)
  PROVE  SaltsOK'
<1>1. /\ session \in Nat /\ session' = session + 1 /\ toHost' \in {<<>>, <<Ready>>}
      /\ UNCHANGED <<attempts, salt, toJoiner>>
      /\ \A a \in Attempts : salt[a] \in Nat
  BY DEF HostOpens, joinerVars, BaseInv, TypeOK, Sessions, None
<1>2. \A a \in Attempts : \A i \in DOMAIN toJoiner[a] :
        toJoiner[a][i].t = "hello" => toJoiner[a][i].salt \in Nat
  BY JoinerFrameParts DEF BaseInv, TypeOK, Sessions
<1>3. HellosOK'
  BY <1>1, <1>2 DEF SaltsOK, HellosOK
<1>4. \A i \in DOMAIN toHost' : toHost'[i].t # "proof_b"
  <2>1. \A i \in DOMAIN <<Ready>> : <<Ready>>[i].t # "proof_b"
    BY DEF Ready
  <2>. QED  BY <1>1, <2>1
<1>5. ProvenOK'
  BY <1>1, <1>4 DEF SaltsOK, ProvenOK
<1>. QED  BY <1>3, <1>5 DEF SaltsOK

LEMMA JoinerOpensSalts ==
  ASSUME BaseInv, SaltsOK, NEW c \in Codes, JoinerOpens(c)
  PROVE  SaltsOK'
<1>1. /\ attempts \in Nat /\ attempts' = attempts + 1
      /\ toHost' = toHost \/ toHost' = Append(toHost, Ready)
      /\ UNCHANGED <<session, salt, toJoiner>>
  BY JoinerOpensParts
<1>2. HellosOK'
  BY <1>1 DEF SaltsOK, HellosOK, Attempts
<1>3. \A i \in DOMAIN toHost' : toHost'[i].t = "proof_b" =>
        i \in DOMAIN toHost /\ toHost'[i] = toHost[i]
  BY <1>1 DEF Ready, BaseInv, QueuesOK
<1>4. ProvenOK'
  BY <1>1, <1>3 DEF SaltsOK, ProvenOK
<1>. QED  BY <1>2, <1>4 DEF SaltsOK

LEMMA HostAnswersSalts ==
  ASSUME BaseInv, SaltsOK, HostAnswers
  PROVE  SaltsOK'
<1>. DEFINE old(a, i) == i \in DOMAIN toJoiner[a] /\ toJoiner'[a][i] = toJoiner[a][i]
            hello(a, i) == toJoiner'[a][i] = Hello(session) /\ i = Len(toJoiner[a]) + 1
            grant(a, i) == toJoiner'[a][i] = Granted /\ HostTakesProof
                             /\ i = Len(toJoiner[a]) + 1
<1>1. \A a \in Attempts : \A i \in DOMAIN toJoiner'[a] : old(a, i) \/ hello(a, i) \/ grant(a, i)
  BY HostAnswersParts
<1>2. /\ Hello(session).t = "hello" /\ Hello(session).salt = session
      /\ Granted.t = "grant" /\ Granted.proof = Expected("A")
      /\ Expected("A")[2] = session /\ Expected("A")[3] = joiner_public_key
      /\ Expected("B")[2] = session /\ Expected("B")[3] = joiner_public_key
  BY DEF Hello, Granted, Grant, Expected, Proof
<1>3. /\ UNCHANGED <<session, attempts, salt>> /\ session \in Nat
      /\ \A a \in Attempts : salt[a] \in Nat
      /\ \A a \in Attempts : DOMAIN toJoiner[a] = 1 .. Len(toJoiner[a]) /\ Len(toJoiner[a]) \in Nat
  BY HostAnswersParts DEF BaseInv, TypeOK, QueuesOK, Sessions, None
<1>4. HellosOK'
  <2>1. \A a \in Attempts : \A i \in DOMAIN toJoiner'[a] :
          toJoiner'[a][i].t = "hello" =>
            /\ old(a, i) \/ hello(a, i)
            /\ salt[a] <= toJoiner'[a][i].salt /\ toJoiner'[a][i].salt <= session
    BY <1>1, <1>2, <1>3 DEF SaltsOK, HellosOK
  <2>2. ASSUME NEW a \in Attempts, NEW i \in DOMAIN toJoiner'[a], NEW j \in DOMAIN toJoiner'[a],
               j < i, toJoiner'[a][i].t = "hello", toJoiner'[a][j].t = "hello"
        PROVE  toJoiner'[a][j].salt <= toJoiner'[a][i].salt
    <3>1. CASE hello(a, i)
      BY <1>2, <2>1, <2>2, <3>1
    <3>2. CASE old(a, i)
      <4>1. old(a, j)
        BY <1>3, <2>1, <2>2, <3>2
      <4>. QED  BY <2>2, <3>2, <4>1 DEF SaltsOK, HellosOK
    <3>. QED  BY <2>1, <2>2, <3>1, <3>2
  <2>. QED  BY <1>3, <2>1, <2>2 DEF SaltsOK, HellosOK
<1>5. ProvenOK'
  <2>1. \A i \in DOMAIN toHost' : \E j \in DOMAIN toHost : toHost'[i] = toHost[j]
    BY HostAnswersParts, TailFrames DEF BaseInv, QueuesOK
  <2>2. HostTakesProof => session <= salt[joiner_public_key]
    BY <1>2, HostAnswersParts DEF SaltsOK, ProvenOK
  <2>. QED  BY <1>1, <1>2, <1>3, <2>1, <2>2 DEF SaltsOK, ProvenOK
<1>. QED  BY <1>4, <1>5 DEF SaltsOK

LEMMA JoinerTakesHelloSalts ==
  ASSUME BaseInv, SaltsOK, NEW a \in Attempts, JoinerTakesHello(a)
  PROVE  SaltsOK'
<1>1. HellosOK
  BY DEF SaltsOK
<1>2. /\ joiner[a] = "open" /\ toJoiner[a] # <<>>
      /\ toJoiner' = [toJoiner EXCEPT ![a] = Tail(toJoiner[a])]
      /\ toJoiner[a][1].t = "hello" /\ 1 \in DOMAIN toJoiner[a]
      /\ salt' = [salt EXCEPT ![a] = toJoiner[a][1].salt]
      /\ salt[a] <= salt'[a] /\ salt'[a] <= session
      /\ UNCHANGED <<session, attempts>>
  BY <1>1, JoinerTakesHelloParts
<1>3. /\ salt \in [Attempts -> Nat] /\ session \in Nat /\ toJoiner \in [Attempts -> Seq(JoinerFrames)]
      /\ toJoiner[a] \in Seq(JoinerFrames) /\ a <= attempts /\ attempts \in Nat
      /\ salt'[a] = toJoiner[a][1].salt /\ salt'[a] \in Nat
  <2>1. toJoiner[a][1].salt \in Sessions
    BY <1>2, JoinerFrameParts DEF BaseInv, TypeOK
  <2>2. salt \in [Attempts -> Nat] /\ session \in Nat
    BY DEF BaseInv, TypeOK, Sessions, None
  <2>. QED  BY <1>2, <2>1, <2>2, InRoom DEF BaseInv, TypeOK, QueuesOK, Sessions
<1>. DEFINE n == Len(toJoiner[a])
<1>4. /\ \A b \in Attempts : b # a => toJoiner'[b] = toJoiner[b] /\ salt'[b] = salt[b]
      /\ a \in Nat /\ \A b \in Attempts : salt[b] \in Nat /\ salt'[b] \in Nat
      /\ \A b \in Attempts : salt[b] <= salt'[b]
  BY <1>2, <1>3 DEF Attempts
<1>7. /\ n \in Nat /\ DOMAIN toJoiner'[a] = 1 .. n - 1 /\ DOMAIN toJoiner[a] = 1 .. n
      /\ \A i \in 1 .. n - 1 : i + 1 \in 1 .. n /\ toJoiner'[a][i] = toJoiner[a][i + 1]
  BY <1>2, <1>3, TailFrames
<1>. HIDE DEF n
<1>5. HellosOK'
  <2>1. \A b \in Attempts : \A i \in DOMAIN toJoiner'[b] :
          toJoiner'[b][i].t = "hello" =>
            salt'[b] <= toJoiner'[b][i].salt /\ toJoiner'[b][i].salt <= session
    <3>1. \A i \in DOMAIN toJoiner'[a] : toJoiner'[a][i].t = "hello" =>
            salt'[a] <= toJoiner'[a][i].salt /\ toJoiner'[a][i].salt <= session
      <4>. SUFFICES ASSUME NEW i \in 1 .. n - 1, toJoiner'[a][i].t = "hello"
                    PROVE  salt'[a] <= toJoiner'[a][i].salt /\ toJoiner'[a][i].salt <= session
        BY <1>7
      <4>1. /\ i + 1 \in DOMAIN toJoiner[a] /\ toJoiner'[a][i] = toJoiner[a][i + 1] /\ 1 < i + 1
        BY <1>7
      <4>. QED  BY <1>1, <1>2, <1>3, <4>1 DEF HellosOK
    <3>. QED  BY <1>1, <1>4, <3>1 DEF HellosOK
  <2>2. \A b \in Attempts : \A i, j \in DOMAIN toJoiner'[b] :
          j < i /\ toJoiner'[b][i].t = "hello" /\ toJoiner'[b][j].t = "hello" =>
            toJoiner'[b][j].salt <= toJoiner'[b][i].salt
    <3>1. \A i, j \in DOMAIN toJoiner'[a] :
            j < i /\ toJoiner'[a][i].t = "hello" /\ toJoiner'[a][j].t = "hello" =>
              toJoiner'[a][j].salt <= toJoiner'[a][i].salt
      <4>. SUFFICES ASSUME NEW i \in 1 .. n - 1, NEW j \in 1 .. n - 1,
                           j < i, toJoiner'[a][i].t = "hello", toJoiner'[a][j].t = "hello"
                    PROVE  toJoiner'[a][j].salt <= toJoiner'[a][i].salt
        BY <1>7
      <4>1. /\ i + 1 \in DOMAIN toJoiner[a] /\ toJoiner'[a][i] = toJoiner[a][i + 1]
            /\ j + 1 \in DOMAIN toJoiner[a] /\ toJoiner'[a][j] = toJoiner[a][j + 1]
            /\ j + 1 < i + 1
        BY <1>7
      <4>. QED  BY <1>1, <4>1 DEF HellosOK
    <3>. QED  BY <1>1, <1>4, <3>1 DEF HellosOK
  <2>3. \A b \in Attempts : salt'[b] <= session /\ (b > attempts => salt'[b] = None)
    BY <1>1, <1>2, <1>3, <1>4 DEF HellosOK
  <2>. QED  BY <1>2, <2>1, <2>2, <2>3 DEF HellosOK
<1>6. ProvenOK'
  <2>1. \A b \in Attempts : \A i \in DOMAIN toJoiner'[b] : toJoiner'[b][i].t = "grant" =>
          toJoiner'[b][i].proof[2] <= salt'[toJoiner'[b][i].proof[3]]
    <3>. SUFFICES ASSUME NEW b \in Attempts, NEW i \in DOMAIN toJoiner'[b],
                         toJoiner'[b][i].t = "grant"
                  PROVE  toJoiner'[b][i].proof[2] <= salt'[toJoiner'[b][i].proof[3]]
      OBVIOUS
    <3>1. PICK k \in DOMAIN toJoiner[b] : toJoiner'[b][i] = toJoiner[b][k]
      BY <1>4, <1>7
    <3>2. toJoiner[b][k] \in JoinerFrames
      BY DEF BaseInv, TypeOK
    <3>3. toJoiner[b][k].proof[3] \in Attempts /\ toJoiner[b][k].proof[2] \in Nat
      BY <3>1, <3>2, JoinerFrameParts DEF Proofs, Sessions
    <3>4. toJoiner[b][k].proof[2] <= salt[toJoiner[b][k].proof[3]]
      BY <3>1 DEF SaltsOK, ProvenOK
    <3>5. PICK p \in Attempts, n2 \in Nat :
            p = toJoiner[b][k].proof[3] /\ n2 = toJoiner[b][k].proof[2]
      BY <3>3
    <3>6. n2 <= salt[p] /\ salt[p] <= salt'[p] /\ salt[p] \in Nat /\ salt'[p] \in Nat
      BY <1>4, <3>4, <3>5
    <3>7. n2 <= salt'[p]
      BY <3>6
    <3>. QED  BY <3>1, <3>5, <3>7
  <2>2. \A i \in DOMAIN toHost' : toHost'[i].t = "proof_b" =>
          toHost'[i].proof[2] <= salt'[toHost'[i].proof[3]]
    <3>. SUFFICES ASSUME NEW i \in DOMAIN toHost', toHost'[i].t = "proof_b"
                  PROVE  toHost'[i].proof[2] <= salt'[toHost'[i].proof[3]]
      OBVIOUS
    <3>1. CASE i \in DOMAIN toHost /\ toHost'[i] = toHost[i]
      <4>. DEFINE p == toHost[i].proof
      <4>1. toHost[i] \in HostFrames
        BY <3>1 DEF BaseInv, TypeOK
      <4>2. p[3] \in Attempts /\ p[2] \in Nat
        BY <3>1, <4>1, HostFrameParts DEF Proofs, Sessions
      <4>3. p[2] <= salt[p[3]] /\ toHost'[i].proof = p
        BY <3>1 DEF SaltsOK, ProvenOK
      <4>. HIDE DEF p
      <4>4. \A b \in Attempts, t \in Nat : t <= salt[b] => t <= salt'[b]
        BY <1>4
      <4>. QED  BY <4>2, <4>3, <4>4
    <3>2. CASE toHost'[i] = Join(a)
      BY <3>2 DEF Join
    <3>3. CASE toHost'[i] = ProofB(Proof(entered[a], salt'[a], a, "B"))
      <4>1. toHost'[i].proof[2] = salt'[a] /\ toHost'[i].proof[3] = a
        BY <3>3 DEF ProofB, Proof
      <4>. QED  BY <1>3, <4>1
    <3>. QED  BY <1>1, <3>1, <3>2, <3>3, JoinerTakesHelloParts
  <2>. QED  BY <2>1, <2>2 DEF ProvenOK
<1>. QED  BY <1>5, <1>6 DEF SaltsOK

LEMMA SaltsStep ==
  ASSUME BaseInv, SaltsOK, [Next]_vars
  PROVE  SaltsOK'
<1>1. CASE \E c \in Codes : HostOpens(c) \/ JoinerOpens(c)
  BY <1>1, HostOpensSalts, JoinerOpensSalts
<1>2. CASE HostAnswers
  BY <1>2, HostAnswersSalts
<1>3. CASE HostCloses
  <2>1. \A a \in Attempts : \A i \in DOMAIN toJoiner'[a] :
          \/ i \in DOMAIN toJoiner[a] /\ toJoiner'[a][i] = toJoiner[a][i]
          \/ toJoiner'[a][i].t \notin {"hello", "grant"}
    <3>1. Cancel.t \notin {"hello", "grant"}
      BY DEF Cancel
    <3>. QED  BY <1>3, <3>1, HostClosesParts, HostLeavesQueues DEF BaseInv, TypeOK
  <2>2. \A i \in DOMAIN toHost' : \E j \in DOMAIN toHost : toHost'[i] = toHost[j]
    <3>1. DOMAIN <<>> = {}
      OBVIOUS
    <3>. QED  BY <1>3, <3>1, HostClosesParts DEF HostLeaves
  <2>. QED  BY <1>3, <2>1, <2>2, HostClosesParts, SaltsKept
<1>4. CASE HostSaves \/ UNCHANGED vars
  <2>1. UNCHANGED <<session, attempts, salt, toHost, toJoiner>>
    BY <1>4 DEF HostSaves, vars, hostVars, joinerVars
  <2>. QED  BY <2>1, SaltsKept
<1>5. CASE \E a \in Attempts : JoinerTakesHello(a)
  BY <1>5, JoinerTakesHelloSalts
<1>6. CASE \E a \in Attempts : JoinerTakesGrant(a)
  <2>1. PICK a \in Attempts : JoinerTakesGrant(a)
    BY <1>6
  <2>. DEFINE n == Len(toJoiner[a])
  <2>2. /\ toJoiner[a] # <<>> /\ toJoiner' = [toJoiner EXCEPT ![a] = Tail(toJoiner[a])]
        /\ UNCHANGED <<session, attempts, salt>>
    BY <2>1 DEF JoinerTakesGrant, Gets, hostVars
  <2>3. toJoiner \in [Attempts -> Seq(JoinerFrames)]
    BY DEF BaseInv, QueuesOK
  <2>4. /\ n \in Nat /\ DOMAIN toJoiner'[a] = 1 .. n - 1 /\ DOMAIN toJoiner[a] = 1 .. n
        /\ \A i \in 1 .. n - 1 : i + 1 \in 1 .. n /\ toJoiner'[a][i] = toJoiner[a][i + 1]
    BY <2>2, <2>3, TailFrames
  <2>5. \A b \in Attempts : b # a => toJoiner'[b] = toJoiner[b]
    BY <2>2, <2>3
  <2>. HIDE DEF n
  <2>6. HellosOK'
    <3>1. \A i, j \in DOMAIN toJoiner'[a] :
            j < i /\ toJoiner'[a][i].t = "hello" /\ toJoiner'[a][j].t = "hello" =>
              toJoiner'[a][j].salt <= toJoiner'[a][i].salt
      <4>. SUFFICES ASSUME NEW i \in 1 .. n - 1, NEW j \in 1 .. n - 1,
                           j < i, toJoiner'[a][i].t = "hello", toJoiner'[a][j].t = "hello"
                    PROVE  toJoiner'[a][j].salt <= toJoiner'[a][i].salt
        BY <2>4
      <4>1. /\ i + 1 \in DOMAIN toJoiner[a] /\ toJoiner'[a][i] = toJoiner[a][i + 1]
            /\ j + 1 \in DOMAIN toJoiner[a] /\ toJoiner'[a][j] = toJoiner[a][j + 1]
            /\ j + 1 < i + 1
        BY <2>4
      <4>. QED  BY <4>1 DEF SaltsOK, HellosOK
    <3>2. \A i \in DOMAIN toJoiner'[a] : toJoiner'[a][i].t = "hello" =>
            salt[a] <= toJoiner'[a][i].salt /\ toJoiner'[a][i].salt <= session
      BY <2>4 DEF SaltsOK, HellosOK
    <3>. QED  BY <2>2, <2>5, <3>1, <3>2 DEF SaltsOK, HellosOK
  <2>7. ProvenOK'
    <3>1. \A b \in Attempts : \A i \in DOMAIN toJoiner'[b] :
            \E k \in DOMAIN toJoiner[b] : toJoiner'[b][i] = toJoiner[b][k]
      BY <2>4, <2>5
    <3>2. Complete.t # "proof_b" /\ <<Complete>> \in Seq(HostFrames)
      BY Constructors DEF Complete
    <3>3. \A i \in DOMAIN <<Complete>> : <<Complete>>[i].t # "proof_b"
      BY <3>2
    <3>4. \A i \in DOMAIN toHost' : toHost'[i].t = "proof_b" =>
            i \in DOMAIN toHost /\ toHost'[i] = toHost[i]
      BY <2>1, <3>2, <3>3, HostQueue DEF JoinerTakesGrant, Report, BaseInv
    <3>. QED  BY <2>2, <3>1, <3>4 DEF SaltsOK, ProvenOK
  <2>. QED  BY <2>6, <2>7 DEF SaltsOK
<1>7. CASE \E a \in Attempts : JoinerEnds(a)
  <2>1. PICK a \in Attempts : JoinerEnds(a)
    BY <1>7
  <2>2. /\ UNCHANGED <<session, attempts, salt>>
        /\ toJoiner' = toJoiner \/ toJoiner' = [toJoiner EXCEPT ![a] = <<>>]
        /\ toHost' = toHost \/ toHost' = Append(toHost, Cancel)
    BY <2>1, JoinerEndsParts, JoinerLeavesQueues DEF BaseInv, hostVars
  <2>3. \A b \in Attempts : \A i \in DOMAIN toJoiner'[b] :
          i \in DOMAIN toJoiner[b] /\ toJoiner'[b][i] = toJoiner[b][i]
    <3>1. CASE toJoiner' = toJoiner
      BY <3>1
    <3>2. CASE toJoiner' = [toJoiner EXCEPT ![a] = <<>>]
      BY <3>2 DEF BaseInv, QueuesOK
    <3>. QED  BY <2>2, <3>1, <3>2
  <2>4. \A i \in DOMAIN toHost' :
          \/ toHost'[i].t # "proof_b"
          \/ \E j \in DOMAIN toHost : toHost'[i] = toHost[j]
    <3>1. toHost \in Seq(HostFrames) /\ Cancel.t # "proof_b"
      BY DEF Cancel, BaseInv, QueuesOK
    <3>2. CASE toHost' = toHost
      BY <3>2
    <3>3. CASE toHost' = Append(toHost, Cancel)
      BY <3>1, <3>3
    <3>. QED  BY <2>2, <3>2, <3>3
  <2>. QED  BY <2>2, <2>3, <2>4, SaltsKept
<1>. QED  BY <1>1, <1>2, <1>3, <1>4, <1>5, <1>6, <1>7
          DEF Next, HostTakes, HostAnswers, JoinerTakes, JoinerEnds, HostCloses

\* Whoever takes a frame first leaves the others in their order.
LEMMA QueueRest ==
  ASSUME BaseInv, toHost # <<>>, toHost' = Tail(toHost)
  PROVE  /\ Len(toHost) \in Nat /\ DOMAIN toHost = 1 .. Len(toHost)
         /\ DOMAIN toHost' = 1 .. Len(toHost) - 1
         /\ \A i \in 1 .. Len(toHost) - 1 :
              /\ i + 1 \in 1 .. Len(toHost) /\ 1 < i + 1 /\ toHost'[i] = toHost[i + 1]
BY TailFrames DEF BaseInv, QueuesOK

LEMMA QueueGrown ==
  ASSUME BaseInv, NEW f, toHost' = Append(toHost, f)
  PROVE  /\ Len(toHost) \in Nat /\ DOMAIN toHost = 1 .. Len(toHost)
         /\ DOMAIN toHost' = 1 .. Len(toHost) + 1
         /\ \A i \in 1 .. Len(toHost) : i # Len(toHost) + 1 /\ toHost'[i] = toHost[i]
         /\ toHost'[Len(toHost) + 1] = f
BY DEF BaseInv, QueuesOK

\* Steps at which the host's queue only loses its first frame.
LEMMA ProofsFollowedRest ==
  ASSUME BaseInv, ProofsFollowed, UNCHANGED <<session, host, code, joiner, entered>>,
         toHost # <<>>, toHost' = Tail(toHost)
  PROVE  ProofsFollowed'
<1>. SUFFICES ASSUME NEW a \in Attempts, Meets(a), NEW i \in DOMAIN toHost',
                     NEW j \in DOMAIN toHost', i < j, ProofOf(toHost'[i], a)
              PROVE  Loyal(toHost'[j], a)
  BY DEF ProofsFollowed, Meets, Hosting, ProofOf, Loyal
<1>1. /\ i + 1 \in DOMAIN toHost /\ j + 1 \in DOMAIN toHost /\ i + 1 < j + 1
      /\ toHost'[i] = toHost[i + 1] /\ toHost'[j] = toHost[j + 1]
  BY QueueRest
<1>. QED  BY <1>1 DEF ProofsFollowed

LEMMA JoinerTakesHelloFollowed ==
  ASSUME BaseInv, SaltsOK, ProofsFollowed, NEW b \in Attempts, JoinerTakesHello(b)
  PROVE  ProofsFollowed'
<1>. SUFFICES ASSUME NEW a \in Attempts, Meets(a), NEW i \in DOMAIN toHost',
                     NEW j \in DOMAIN toHost', i < j, ProofOf(toHost'[i], a)
              PROVE  Loyal(toHost'[j], a)
  <2>1. UNCHANGED <<session, host, code, joiner, entered>>
    BY JoinerTakesHelloParts DEF SaltsOK
  <2>. QED  BY <2>1 DEF ProofsFollowed, Meets, Hosting, ProofOf, Loyal
<1>. DEFINE n == Len(toHost)
            old(k) == k \in DOMAIN toHost /\ toHost'[k] = toHost[k]
            joins(k) == HostIn(entered[b]) /\ k = n + 1 /\ toHost'[k] = Join(b)
            proves(k) == HostIn(entered[b]) /\ k = n + 2
                           /\ toHost'[k] = ProofB(Proof(entered[b], salt'[b], b, "B"))
<1>1. \A k \in DOMAIN toHost' : old(k) \/ joins(k) \/ proves(k)
  BY JoinerTakesHelloParts DEF SaltsOK
<1>2. n \in Nat /\ DOMAIN toHost = 1 .. n
  BY DEF BaseInv, QueuesOK
<1>3. joiner[b] = "open" /\ salt[b] <= salt'[b] /\ salt'[b] <= session
  BY JoinerTakesHelloParts DEF SaltsOK
<1>4. HostIn(entered[b]) => a = b
  BY <1>3, InRoom DEF HostIn, Meets
<1>5. Join(b).t = "join" /\ Join(b).salt = b
      /\ \A p : ProofB(p).t = "proof_b" /\ ProofB(p).proof = p
  BY DEF Join, ProofB
<1>. HIDE DEF n
<1>6. CASE old(j)
  <2>1. old(i)
    BY <1>1, <1>2, <1>6
  <2>. QED  BY <1>6, <2>1 DEF ProofsFollowed
<1>7. CASE joins(j)
  BY <1>4, <1>5, <1>7 DEF Loyal
<1>8. CASE proves(j)
  <2>1. old(i)
    <3>1. ~joins(i)
      BY <1>5 DEF ProofOf
    <3>2. ~proves(i)
      BY <1>2, <1>8
    <3>. QED  BY <1>1, <3>1, <3>2
  <2>2. a = b /\ entered[b] = code[session]
    BY <1>4, <1>8 DEF HostIn
  <2>3. toHost[i].t = "proof_b" /\ toHost[i].proof[2] = session /\ toHost[i].proof[3] = b
    BY <2>1, <2>2 DEF ProofOf, Proof
  <2>4. session <= salt[b]
    BY <2>1, <2>3 DEF SaltsOK, ProvenOK
  <2>5. session = salt'[b]
    <3>1. session \in Nat /\ salt[b] \in Nat /\ salt'[b] \in Nat
      BY JoinerTakesHelloParts DEF SaltsOK, BaseInv, TypeOK, Sessions, None
    <3>. QED  BY <1>3, <2>4, <3>1
  <2>. QED  BY <1>5, <1>8, <2>2, <2>5 DEF Loyal
<1>. QED  BY <1>1, <1>6, <1>7, <1>8

\* A frame that the relay appends, of an attempt that is not the one in question.
LEMMA ProofsFollowedGrown ==
  ASSUME BaseInv, ProofsFollowed, UNCHANGED <<session, host, code>>,
         NEW f, f.t \notin {"proof_b", "join"},
         toHost' = toHost \/ toHost' = Append(toHost, f),
         \A a \in Attempts : Meets(a)' =>
           \/ Meets(a) /\ f.t # "pair_cancel"
           \/ \A i \in DOMAIN toHost : ~ProofOf(toHost[i], a)
  PROVE  ProofsFollowed'
<1>. SUFFICES ASSUME NEW a \in Attempts, Meets(a)', NEW i \in DOMAIN toHost',
                     NEW j \in DOMAIN toHost', i < j, ProofOf(toHost'[i], a)
              PROVE  Loyal(toHost'[j], a)
  BY DEF ProofsFollowed, Hosting, ProofOf, Loyal
<1>1. CASE toHost' = toHost
  BY <1>1 DEF ProofsFollowed
<1>2. CASE toHost' = Append(toHost, f)
  <2>1. i \in DOMAIN toHost /\ toHost'[i] = toHost[i]
    BY <1>2, QueueGrown
  <2>2. Meets(a) /\ (f.t # "pair_cancel" \/ toHost' = toHost)
    BY <2>1
  <2>3. CASE j \in DOMAIN toHost
    <3>1. toHost'[j] = toHost[j]
      BY <1>2, <2>3, QueueGrown
    <3>. QED  BY <2>1, <2>2, <2>3, <3>1 DEF ProofsFollowed
  <2>4. CASE j \notin DOMAIN toHost
    <3>1. toHost'[j] = f /\ toHost' # toHost
      BY <1>2, <2>4, QueueGrown
    <3>. QED  BY <2>2, <3>1 DEF Loyal
  <2>. QED  BY <2>3, <2>4
<1>. QED  BY <1>1, <1>2

LEMMA ClosedNow ==
  ASSUME BaseInv, HostCloses \/ HostSaves
  PROVE  ~Hosting'
<1>1. host \in [Sessions -> {"none", "open", "done", "saved", "failed"}]
  BY DEF BaseInv, TypeOK
<1>2. CASE HostCloses
  BY <1>1, <1>2, HostClosesParts DEF Hosting
<1>3. CASE HostSaves
  BY <1>1, <1>3, InSession DEF HostSaves, Hosting
<1>. QED  BY <1>2, <1>3

LEMMA ProofsFollowedStep ==
  ASSUME BaseInv, SaltsOK, GrantsOK, ProofsFollowed, [Next]_vars
  PROVE  ProofsFollowed'
<1>1. CASE \E c \in Codes : HostOpens(c)
  <2>1. toHost' = <<>> \/ toHost' = <<Ready>>
    BY <1>1 DEF HostOpens
  <2>2. \A i, j \in DOMAIN toHost' : ~(i < j)
    <3>1. DOMAIN <<>> = {} /\ DOMAIN <<Ready>> = {1}
      OBVIOUS
    <3>. QED  BY <2>1, <3>1
  <2>. QED  BY <2>2 DEF ProofsFollowed
<1>2. CASE \E c \in Codes : JoinerOpens(c)
  <2>1. PICK c \in Codes : JoinerOpens(c)
    BY <1>2
  <2>. DEFINE b == attempts + 1
  <2>2. /\ attempts \in Nat /\ b \in Attempts /\ UNCHANGED <<session, host, code, salt>>
        /\ joiner' = [joiner EXCEPT ![b] = "open"] /\ entered' = [entered EXCEPT ![b] = c]
        /\ toHost' = toHost \/ toHost' = Append(toHost, Ready)
    BY <2>1, JoinerOpensParts
  <2>3. salt[b] = 0
    BY <2>2 DEF SaltsOK, HellosOK, None
  <2>. HIDE DEF b
  <2>4. Ready.t \notin {"proof_b", "join", "pair_cancel"}
    BY DEF Ready
  <2>5. \A i \in DOMAIN toHost : Hosting => ~ProofOf(toHost[i], b)
    <3>. SUFFICES ASSUME NEW i \in DOMAIN toHost, Hosting, ProofOf(toHost[i], b) PROVE FALSE
      OBVIOUS
    <3>1. /\ toHost[i].t = "proof_b" /\ toHost[i].proof[2] = session /\ toHost[i].proof[3] = b
      BY DEF ProofOf, Proof
    <3>2. session <= salt[b]
      BY <3>1 DEF SaltsOK, ProvenOK
    <3>. QED  BY <2>3, <3>2 DEF Hosting, BaseInv, TypeOK
  <2>6. \A a \in Attempts : Meets(a)' => Meets(a) \/ (a = b /\ Hosting)
    BY <2>2 DEF Meets, Hosting, BaseInv, TypeOK
  <2>. QED  BY <2>2, <2>4, <2>5, <2>6, ProofsFollowedGrown
<1>3. CASE HostAnswers
  BY <1>3, HostAnswersParts, ProofsFollowedRest
<1>4. CASE HostCloses \/ HostSaves
  <2>1. ~Hosting'
    BY <1>4, ClosedNow
  <2>. QED  BY <2>1 DEF ProofsFollowed, Meets
<1>5. CASE \E b \in Attempts : JoinerTakesHello(b)
  BY <1>5, JoinerTakesHelloFollowed
<1>6. CASE \E b \in Attempts : JoinerTakesGrant(b)
  <2>1. PICK b \in Attempts : JoinerTakesGrant(b)
    BY <1>6
  <2>2. joiner' = [joiner EXCEPT ![b] = "granted"] /\ UNCHANGED <<session, host, code, entered>>
    BY <2>1 DEF JoinerTakesGrant, hostVars
  <2>3. toHost' = toHost \/ toHost' = Append(toHost, Complete)
    <3>1. toHost \o <<Complete>> = Append(toHost, Complete)
      BY Constructors DEF BaseInv, QueuesOK
    <3>. QED  BY <2>1, <3>1 DEF JoinerTakesGrant, Report, ForwardToHost
  <2>4. \A a \in Attempts : Meets(a)' => Meets(a)
    BY <2>2 DEF Meets, Hosting, BaseInv, TypeOK
  <2>5. Complete.t \notin {"proof_b", "join", "pair_cancel"}
    BY DEF Complete
  <2>. QED  BY <2>2, <2>3, <2>4, <2>5, ProofsFollowedGrown
<1>7. CASE \E b \in Attempts : JoinerEnds(b)
  <2>1. PICK b \in Attempts : JoinerEnds(b)
    BY <1>7
  <2>2. /\ joiner[b] \in {"open", "granted"}
        /\ \E state \in {"failed", "paired"} : joiner' = [joiner EXCEPT ![b] = state]
        /\ UNCHANGED <<session, host, code, entered>>
        /\ toHost' = toHost \/ (HostIn(entered[b]) /\ toHost' = Append(toHost, Cancel))
    BY <2>1, JoinerEndsParts, JoinerLeavesQueues DEF BaseInv, hostVars
  <2>3. \A a \in Attempts : Meets(a)' => Meets(a) /\ a # b
    BY <2>2 DEF Meets, Hosting, BaseInv, TypeOK
  <2>4. \A a \in Attempts : Meets(a)' => ~HostIn(entered[b])
    BY <2>2, <2>3, InRoom DEF Meets, HostIn
  <2>5. Cancel.t \notin {"proof_b", "join"} /\ Ready.t \notin {"proof_b", "join", "pair_cancel"}
    BY DEF Cancel, Ready
  <2>6. CASE toHost' = toHost
    BY <2>2, <2>3, <2>5, <2>6, ProofsFollowedGrown
  <2>7. CASE HostIn(entered[b])
    BY <2>4, <2>7 DEF ProofsFollowed
  <2>. QED  BY <2>2, <2>6, <2>7
<1>8. CASE UNCHANGED vars
  <2>1. UNCHANGED <<session, host, code, joiner, entered, toHost>>
    BY <1>8 DEF vars, hostVars, joinerVars
  <2>. QED  BY <2>1 DEF ProofsFollowed, Meets, Hosting, ProofOf, Loyal
<1>. QED  BY <1>1, <1>2, <1>3, <1>4, <1>5, <1>6, <1>7, <1>8
          DEF Next, HostTakes, HostAnswers, JoinerTakes, JoinerEnds, HostCloses

\* With nothing cut off or lost the bounds are not used.
LEMMA UndisturbedBefore ==
  ASSUME BaseInv, [Next]_vars, Undisturbed'
  PROVE  /\ Undisturbed /\ ~HostStops
         /\ \A a \in Attempts : JoinerEnds(a) => used' = used
         /\ \A a \in Attempts : JoinerTakesGrant(a) => Report(a)
<1>1. used.stops \in Nat /\ used.losses \in Nat
      /\ used \in [stops : 0 .. MaxStops, losses : 0 .. MaxLosses]
  BY BoundsAssumption DEF BaseInv, TypeOK
<1>2. ~HostStops
  BY <1>1 DEF HostStops, Undisturbed
<1>3. \A a \in Attempts : JoinerEnds(a) => used' = used
  BY JoinerEndsParts DEF Undisturbed
<1>4. \A a \in Attempts : JoinerTakesGrant(a) => Report(a) /\ used' = used
  BY <1>1 DEF JoinerTakesGrant, Undisturbed
<1>5. used' = used
  <2>1. CASE \E c \in Codes : HostOpens(c) \/ JoinerOpens(c)
    BY <2>1 DEF HostOpens, JoinerOpens
  <2>2. CASE HostTakes \/ HostSaves \/ UNCHANGED vars
    BY <2>2 DEF HostTakes, HostTakesReady, HostTakesJoin, HostTakesProof, HostRefusesProof,
       HostTakesComplete, HostTakesCancel, HostEnds, HostSaves, vars
  <2>3. CASE \E a \in Attempts : JoinerTakesHello(a)
    BY <2>3 DEF JoinerTakesHello
  <2>. QED  BY <1>2, <1>3, <1>4, <2>1, <2>2, <2>3 DEF Next, JoinerTakes, JoinerEnds
<1>. QED  BY <1>2, <1>3, <1>4, <1>5 DEF Undisturbed

\* A session turns away nobody whose frames are loyal.
LEMMA LoyalNotRefused ==
  ASSUME BaseInv, NEW a \in Attempts, joiner_public_key = a, toHost # <<>>, Loyal(toHost[1], a)
  PROVE  ~HostRefusesProof /\ ~HostTakesCancel
<1>1. Head(toHost) = toHost[1] /\ a # None
  BY TailFrames DEF BaseInv, QueuesOK, Attempts, None
<1>. QED  BY <1>1 DEF HostRefusesProof, HostTakesCancel, Took, Loyal, Expected

\* While an attempt waits with a grant, what it has sent is all that the host gets.
LEMMA GrantsFollowedStep ==
  ASSUME BaseInv, GrantsOK, SaltsOK, ProofsFollowed, GrantsFollowed, [Next]_vars
  PROVE  GrantsFollowed'
<1>. SUFFICES ASSUME NEW a \in Attempts, Meets(a)', NEW i \in DOMAIN toJoiner'[a],
                     toJoiner'[a][i].t = "grant",
                     toJoiner'[a][i].proof = Proof(code'[session'], session', a, "A")
              PROVE  joiner_public_key' = a /\ \A j \in DOMAIN toHost' : Loyal(toHost[j], a)'
  BY DEF GrantsFollowed, Proof
<1>. DEFINE waits == \E k \in DOMAIN toJoiner[a] :
              toJoiner[a][k].t = "grant" /\ toJoiner[a][k].proof = Proof(code[session], session, a, "A")
<1>0. waits /\ Meets(a) => joiner_public_key = a /\ \A j \in DOMAIN toHost : Loyal(toHost[j], a)
  BY DEF GrantsFollowed
<1>1. CASE \E c \in Codes : HostOpens(c)
  <2>1. toJoiner'[a][i].proof[2] = session + 1 /\ UNCHANGED toJoiner /\ session \in Nat
    BY <1>1 DEF HostOpens, Proof, BaseInv, TypeOK
  <2>2. toJoiner[a][i].proof[2] <= session
    BY <2>1 DEF GrantsOK
  <2>. QED  BY <2>1, <2>2
<1>2. CASE \E c \in Codes : JoinerOpens(c)
  <2>1. PICK c \in Codes : JoinerOpens(c)
    BY <1>2
  <2>. DEFINE b == attempts + 1
  <2>2. /\ b \in Attempts /\ UNCHANGED <<session, host, code, toJoiner, joiner_public_key>>
        /\ joiner' = [joiner EXCEPT ![b] = "open"] /\ entered' = [entered EXCEPT ![b] = c]
        /\ toHost' = toHost \/ toHost' = Append(toHost, Ready)
        /\ toJoiner[b] = <<>>
    BY <2>1, JoinerOpensParts
  <2>. HIDE DEF b
  <2>3. a # b
    BY <2>2
  <2>4. Meets(a)
    BY <2>2, <2>3 DEF Meets, Hosting, BaseInv, TypeOK
  <2>5. waits
    BY <2>2
  <2>6. \A j \in DOMAIN toHost' : Loyal(toHost'[j], a)
    <3>1. Loyal(Ready, a)
      BY DEF Loyal, Ready
    <3>2. CASE toHost' = toHost
      BY <1>0, <2>4, <2>5, <3>2
    <3>3. CASE toHost' = Append(toHost, Ready)
      BY <1>0, <2>4, <2>5, <3>1, <3>3, QueueGrown
    <3>. QED  BY <2>2, <3>2, <3>3
  <2>. QED  BY <1>0, <2>2, <2>4, <2>5, <2>6 DEF Loyal
<1>3. CASE HostAnswers
  <2>1. /\ UNCHANGED <<session, host, code, joiner, entered>> /\ toHost # <<>>
        /\ toHost' = Tail(toHost) /\ Hosting
    BY <1>3, HostAnswersParts
  <2>2. Meets(a)
    BY <2>1 DEF Meets, Hosting
  <2>3. /\ Len(toHost) \in Nat /\ DOMAIN toHost = 1 .. Len(toHost)
        /\ DOMAIN toHost' = 1 .. Len(toHost) - 1
        /\ \A j \in 1 .. Len(toHost) - 1 :
             j + 1 \in 1 .. Len(toHost) /\ 1 < j + 1 /\ toHost'[j] = toHost[j + 1]
    BY <2>1, QueueRest
  <2>4. 1 \in DOMAIN toHost /\ a # None
    BY <1>3, HostAnswersParts DEF Attempts, None
  <2>5. CASE waits
    <3>1. joiner_public_key = a /\ \A j \in DOMAIN toHost : Loyal(toHost[j], a)
      BY <1>0, <2>2, <2>5
    <3>2. joiner_public_key' = a
      BY <1>3, <2>4, <3>1, HostAnswersParts DEF Loyal
    <3>3. \A j \in DOMAIN toHost' : Loyal(toHost'[j], a)
      BY <2>3, <3>1
    <3>. QED  BY <2>1, <3>2, <3>3 DEF Loyal
  <2>6. CASE ~waits
    <3>1. toJoiner'[a][i] = Granted /\ HostTakesProof
      <4>1. \/ i \in DOMAIN toJoiner[a] /\ toJoiner'[a][i] = toJoiner[a][i]
            \/ toJoiner'[a][i] = Hello(session)
            \/ toJoiner'[a][i] = Granted /\ HostTakesProof
        BY <1>3, HostAnswersParts
      <4>. QED  BY <2>1, <2>6, <4>1 DEF Hello
    <3>2. Granted.proof = Proof(code[session], session, a, "A")
      BY <2>1, <3>1
    <3>3. joiner_public_key = a
      BY <3>2 DEF Granted, Grant, Expected, Proof
    <3>4. joiner_public_key' = a /\ ProofOf(toHost[1], a)
      BY <1>3, <3>1, <3>3, HostAnswersParts DEF ProofOf, Expected
    <3>5. \A j \in DOMAIN toHost' : Loyal(toHost'[j], a)
      BY <2>2, <2>3, <2>4, <3>4 DEF ProofsFollowed
    <3>. QED  BY <2>1, <3>4, <3>5 DEF Loyal
  <2>. QED  BY <2>5, <2>6
<1>4. CASE HostCloses \/ HostSaves
  BY <1>4, ClosedNow DEF Meets
<1>5. CASE \E b \in Attempts : JoinerTakesHello(b)
  <2>1. PICK b \in Attempts : JoinerTakesHello(b)
    BY <1>5
  <2>2. /\ UNCHANGED <<session, host, code, joiner, entered, joiner_public_key>>
        /\ joiner[b] = "open" /\ salt[b] <= salt'[b] /\ salt'[b] <= session
        /\ toJoiner[b] # <<>> /\ toJoiner' = [toJoiner EXCEPT ![b] = Tail(toJoiner[b])]
        /\ salt'[b] \in Sessions
    BY <2>1, JoinerTakesHelloParts DEF SaltsOK
  <2>3. Meets(a)
    BY <2>2 DEF Meets, Hosting
  <2>4. \E k \in DOMAIN toJoiner[a] : toJoiner'[a][i] = toJoiner[a][k]
    BY <2>2, TailFrames DEF BaseInv, QueuesOK
  <2>5. waits
    BY <2>2, <2>4
  <2>6. joiner_public_key' = a /\ \A j \in DOMAIN toHost : Loyal(toHost[j], a)
    BY <1>0, <2>2, <2>3, <2>5
  <2>7. HostIn(entered[b]) => a = b /\ entered[b] = code[session] /\ salt'[b] = session
    <3>. SUFFICES ASSUME HostIn(entered[b])
                  PROVE  a = b /\ entered[b] = code[session] /\ salt'[b] = session
      OBVIOUS
    <3>1. a = b /\ entered[b] = code[session]
      BY <2>2, <2>3, InRoom DEF HostIn, Meets
    <3>2. PICK k \in DOMAIN toJoiner[a] :
            toJoiner[a][k].t = "grant" /\ toJoiner[a][k].proof = Proof(code[session], session, a, "A")
      BY <2>5
    <3>3. session <= salt[b]
      <4>1. toJoiner[a][k].proof[2] = session /\ toJoiner[a][k].proof[3] = a
        BY <3>2 DEF Proof
      <4>. QED  BY <3>1, <3>2, <4>1 DEF SaltsOK, ProvenOK
    <3>4. session \in Nat /\ salt[b] \in Nat /\ salt'[b] \in Nat
      BY <2>2 DEF BaseInv, TypeOK, Sessions, None
    <3>. QED  BY <2>2, <3>1, <3>3, <3>4
  <2>8. \A j \in DOMAIN toHost' : Loyal(toHost'[j], a)
    <3>. SUFFICES ASSUME NEW j \in DOMAIN toHost' PROVE Loyal(toHost'[j], a)
      OBVIOUS
    <3>1. CASE j \in DOMAIN toHost /\ toHost'[j] = toHost[j]
      BY <2>6, <3>1
    <3>2. CASE HostIn(entered[b]) /\ toHost'[j] = Join(b)
      BY <2>7, <3>2 DEF Join, Loyal
    <3>3. CASE HostIn(entered[b]) /\ toHost'[j] = ProofB(Proof(entered[b], salt'[b], b, "B"))
      BY <2>7, <3>3 DEF ProofB, Loyal
    <3>. QED  BY <2>1, <3>1, <3>2, <3>3, JoinerTakesHelloParts DEF SaltsOK
  <2>. QED  BY <2>2, <2>6, <2>8 DEF Loyal
<1>6. CASE \E b \in Attempts : JoinerTakesGrant(b) \/ JoinerEnds(b)
  <2>1. PICK b \in Attempts : JoinerTakesGrant(b) \/ JoinerEnds(b)
    BY <1>6
  <2>2. /\ UNCHANGED <<session, host, code, entered, joiner_public_key>>
        /\ joiner[b] \in {"open", "granted"}
        /\ \E state \in {"granted", "failed", "paired"} : joiner' = [joiner EXCEPT ![b] = state]
        /\ \/ toHost' = toHost
           \/ toHost' = Append(toHost, Complete)
           \/ HostIn(entered[b]) /\ toHost' = Append(toHost, Cancel)
    <3>1. CASE JoinerTakesGrant(b)
      <4>1. toHost \o <<Complete>> = Append(toHost, Complete)
        BY Constructors DEF BaseInv, QueuesOK
      <4>. QED  BY <3>1, <4>1 DEF JoinerTakesGrant, Gets, Report, ForwardToHost, hostVars
    <3>2. CASE JoinerEnds(b)
      BY <3>2, JoinerEndsParts, JoinerLeavesQueues DEF BaseInv, hostVars
    <3>. QED  BY <2>1, <3>1, <3>2
  <2>3. Meets(a) /\ a # b
    BY <2>2 DEF Meets, Hosting, BaseInv, TypeOK
  <2>4. toJoiner'[a] = toJoiner[a]
    <3>1. toJoiner \in [Attempts -> Seq(JoinerFrames)]
      BY DEF BaseInv, QueuesOK
    <3>2. CASE JoinerTakesGrant(b)
      BY <2>3, <3>1, <3>2 DEF JoinerTakesGrant
    <3>3. CASE JoinerEnds(b)
      BY <2>3, <3>1, <3>3, JoinerEndsParts
    <3>. QED  BY <2>1, <3>2, <3>3
  <2>5. ~HostIn(entered[b])
    BY <2>2, <2>3, InRoom DEF HostIn, Meets
  <2>6. joiner_public_key = a /\ \A j \in DOMAIN toHost : Loyal(toHost[j], a)
    BY <1>0, <2>2, <2>3, <2>4
  <2>7. \A j \in DOMAIN toHost' : Loyal(toHost'[j], a)
    <3>1. Loyal(Complete, a)
      BY DEF Loyal, Complete
    <3>2. CASE toHost' = toHost
      BY <2>6, <3>2
    <3>3. CASE toHost' = Append(toHost, Complete)
      BY <2>6, <3>1, <3>3, QueueGrown
    <3>. QED  BY <2>2, <2>5, <3>2, <3>3
  <2>. QED  BY <2>2, <2>6, <2>7 DEF Loyal
<1>7. CASE UNCHANGED vars
  <2>1. UNCHANGED <<session, host, code, joiner, entered, joiner_public_key, toHost, toJoiner>>
    BY <1>7 DEF vars, hostVars, joinerVars
  <2>2. Meets(a) /\ waits
    BY <2>1 DEF Meets, Hosting
  <2>. QED  BY <1>0, <2>1, <2>2 DEF Loyal
<1>. QED  BY <1>1, <1>2, <1>3, <1>4, <1>5, <1>6, <1>7
          DEF Next, HostTakes, HostAnswers, JoinerTakes, JoinerEnds, HostCloses

\* A report on its way stays so when the queue grows, and comes closer.
LEMMA ReportGrown ==
  ASSUME BaseInv, NEW a \in Attempts, ReportComes(a), UNCHANGED <<session, code>>,
         toHost' \in Seq(HostFrames),
         \A i \in DOMAIN toHost : i \in DOMAIN toHost' /\ toHost'[i] = toHost[i]
  PROVE  ReportComes(a)'
<1>1. PICK k \in DOMAIN toHost :
        toHost[k].t = "pair_complete" /\ \A j \in 1 .. k - 1 : Loyal(toHost[j], a)
  BY DEF ReportComes
<1>2. k \in DOMAIN toHost' /\ toHost'[k].t = "pair_complete"
  BY <1>1
<1>3. \A j \in 1 .. k - 1 : j \in DOMAIN toHost
  BY DEF BaseInv, QueuesOK
<1>4. \A j \in 1 .. k - 1 : Loyal(toHost'[j], a)
  BY <1>1, <1>3
<1>. QED  BY <1>2, <1>4 DEF ReportComes, Loyal

LEMMA ReportRest ==
  ASSUME BaseInv, NEW a \in Attempts, ReportComes(a), UNCHANGED <<session, code>>,
         toHost # <<>>, toHost' = Tail(toHost), toHost[1].t # "pair_complete"
  PROVE  ReportComes(a)' /\ Loyal(toHost[1], a)
<1>1. PICK k \in DOMAIN toHost :
        toHost[k].t = "pair_complete" /\ \A j \in 1 .. k - 1 : Loyal(toHost[j], a)
  BY DEF ReportComes
<1>2. /\ k \in 2 .. Len(toHost) /\ Len(toHost) \in Nat /\ k - 1 \in DOMAIN toHost'
      /\ toHost'[k - 1] = toHost[k]
      /\ \A j \in 1 .. k - 2 : toHost'[j] = toHost[j + 1]
  <2>1. k \in 1 .. Len(toHost) /\ k # 1 /\ Len(toHost) \in Nat
    BY <1>1, QueueRest
  <2>2. k \in 2 .. Len(toHost) /\ k - 1 \in 1 .. Len(toHost) - 1
        /\ \A j \in 1 .. k - 2 : j \in 1 .. Len(toHost) - 1
    BY <2>1
  <2>. QED  BY <2>1, <2>2, QueueRest
<1>3. \A j \in 1 .. k - 2 : Loyal(toHost'[j], a)
  <2>1. \A j \in 1 .. k - 2 : j + 1 \in 1 .. k - 1
    BY <1>2
  <2>. QED  BY <1>1, <1>2, <2>1
<1>4. Loyal(toHost[1], a)
  BY <1>1, <1>2
<1>5. (k - 1) - 1 = k - 2
  BY <1>2
<1>6. \A j \in 1 .. (k - 1) - 1 : Loyal(toHost'[j], a)
  BY <1>3, <1>5
<1>. QED  BY <1>1, <1>2, <1>4, <1>6 DEF ReportComes, Loyal

\* A queue with the host's next frame appended holds what it held.
LEMMA QueueKeeps ==
  ASSUME BaseInv, NEW f \in HostFrames, toHost' = toHost \/ toHost' = Append(toHost, f)
  PROVE  /\ toHost' \in Seq(HostFrames)
         /\ \A i \in DOMAIN toHost : i \in DOMAIN toHost' /\ toHost'[i] = toHost[i]
BY DEF BaseInv, QueuesOK

LEMMA ReportsFollowedStep ==
  ASSUME BaseInv, GrantsOK, SaltsOK, GrantsFollowed, ReportsFollowed, [Next]_vars, Undisturbed'
  PROVE  ReportsFollowed'
<1>. SUFFICES ASSUME NEW a \in Attempts, Hosting', got'[a] # None, salt'[a] = session'
              PROVE  joiner_public_key' = a /\ ReportComes(a)'
  BY DEF ReportsFollowed
<1>0. Hosting /\ got[a] # None /\ salt[a] = session => joiner_public_key = a /\ ReportComes(a)
  BY DEF ReportsFollowed
<1>1. CASE \E c \in Codes : HostOpens(c)
  <2>1. session' = session + 1 /\ UNCHANGED <<got, salt>> /\ session \in Nat
    BY <1>1 DEF HostOpens, joinerVars, BaseInv, TypeOK
  <2>2. salt[a] <= session
    BY <2>1 DEF GrantsOK
  <2>. QED  BY <2>1, <2>2
<1>2. CASE \E c \in Codes : JoinerOpens(c)
  <2>1. /\ UNCHANGED <<session, host, code, salt, got, joiner_public_key>>
        /\ toHost' = toHost \/ toHost' = Append(toHost, Ready)
    BY <1>2, JoinerOpensParts
  <2>2. joiner_public_key = a /\ ReportComes(a)
    BY <1>0, <2>1 DEF Hosting
  <2>. QED  BY <2>1, <2>2, QueueKeeps, Constructors, ReportGrown
<1>3. CASE HostAnswers
  <2>1. /\ UNCHANGED <<session, host, code, salt, got>> /\ toHost # <<>>
        /\ toHost' = Tail(toHost) /\ toHost[1].t # "pair_complete" /\ Hosting
    BY <1>3, HostAnswersParts
  <2>2. joiner_public_key = a /\ ReportComes(a)
    BY <1>0, <2>1
  <2>3. ReportComes(a)' /\ Loyal(toHost[1], a)
    BY <2>1, <2>2, ReportRest
  <2>4. joiner_public_key' = a
    BY <1>3, <2>2, <2>3, HostAnswersParts DEF Loyal
  <2>. QED  BY <2>3, <2>4
<1>4. CASE HostCloses \/ HostSaves
  BY <1>4, ClosedNow
<1>5. CASE \E b \in Attempts : JoinerTakesHello(b)
  <2>1. PICK b \in Attempts : JoinerTakesHello(b)
    BY <1>5
  <2>2. /\ UNCHANGED <<session, host, code, got, joiner_public_key>> /\ got[b] = None
        /\ salt' = [salt EXCEPT ![b] = toJoiner[b][1].salt]
        /\ toHost' \in Seq(HostFrames)
        /\ \A i \in DOMAIN toHost : i \in DOMAIN toHost' /\ toHost'[i] = toHost[i]
    BY <2>1, JoinerTakesHelloParts DEF SaltsOK
  <2>3. joiner_public_key = a /\ ReportComes(a)
    BY <1>0, <2>2 DEF Hosting, BaseInv, TypeOK
  <2>. QED  BY <2>2, <2>3, ReportGrown
<1>6. CASE \E b \in Attempts : JoinerTakesGrant(b)
  <2>1. PICK b \in Attempts : JoinerTakesGrant(b)
    BY <1>6
  <2>2. /\ UNCHANGED <<session, host, code, joiner_public_key, salt, entered>>
        /\ joiner[b] = "open" /\ got' = [got EXCEPT ![b] = Head(toJoiner[b]).key]
        /\ salt[b] # None /\ salt[b] <= session /\ entered[b] = code[salt[b]]
        /\ 1 \in DOMAIN toJoiner[b] /\ toJoiner[b][1].t = "grant"
        /\ toJoiner[b][1].proof = Proof(entered[b], salt[b], b, "A")
        /\ Report(b)
    BY <2>1, TakenGrant, UndisturbedBefore
  <2>3. Hosting /\ salt[a] = session
    BY <2>2 DEF Hosting
  <2>4. CASE a = b
    <3>1. HostIn(entered[b]) /\ Meets(b)
      BY <2>2, <2>3, <2>4 DEF HostIn, Meets
    <3>2. joiner_public_key = b /\ \A j \in DOMAIN toHost : Loyal(toHost[j], b)
      BY <2>2, <2>3, <2>4, <3>1 DEF GrantsFollowed
    <3>3. toHost' = Append(toHost, Complete)
      <4>1. toHost \o <<Complete>> = Append(toHost, Complete)
        BY Constructors DEF BaseInv, QueuesOK
      <4>. QED  BY <2>2, <3>1, <4>1 DEF Report, ForwardToHost
    <3>. DEFINE n == Len(toHost) + 1
    <3>4. /\ n \in DOMAIN toHost' /\ toHost'[n] = Complete
          /\ \A j \in 1 .. n - 1 : j \in DOMAIN toHost /\ toHost'[j] = toHost[j]
      BY <3>3, QueueGrown
    <3>5. Complete.t = "pair_complete"
      BY DEF Complete
    <3>6. \A j \in 1 .. n - 1 : Loyal(toHost'[j], b)
      BY <3>2, <3>4
    <3>. HIDE DEF n
    <3>7. ReportComes(b)'
      BY <2>2, <3>4, <3>5, <3>6 DEF ReportComes, Loyal
    <3>. QED  BY <2>2, <2>4, <3>2, <3>7
  <2>5. CASE a # b
    <3>1. joiner_public_key = a /\ ReportComes(a)
      BY <1>0, <2>2, <2>3, <2>5 DEF BaseInv, TypeOK
    <3>2. toHost' = toHost \/ toHost' = Append(toHost, Complete)
      <4>1. toHost \o <<Complete>> = Append(toHost, Complete)
        BY Constructors DEF BaseInv, QueuesOK
      <4>. QED  BY <2>2, <4>1 DEF Report, ForwardToHost
    <3>. QED  BY <2>2, <3>1, <3>2, QueueKeeps, Constructors, ReportGrown
  <2>. QED  BY <2>4, <2>5
<1>7. CASE \E b \in Attempts : JoinerEnds(b)
  <2>1. PICK b \in Attempts : JoinerEnds(b)
    BY <1>7
  <2>2. /\ UNCHANGED <<session, host, code, salt, got, joiner_public_key>>
        /\ toHost' = toHost \/ toHost' = Append(toHost, Cancel)
    BY <2>1, JoinerEndsParts, JoinerLeavesQueues DEF BaseInv, hostVars
  <2>3. joiner_public_key = a /\ ReportComes(a)
    BY <1>0, <2>2 DEF Hosting
  <2>. QED  BY <2>2, <2>3, QueueKeeps, Constructors, ReportGrown
<1>8. CASE UNCHANGED vars
  <2>1. UNCHANGED <<session, host, code, salt, got, joiner_public_key, toHost>>
    BY <1>8 DEF vars, hostVars, joinerVars
  <2>2. joiner_public_key = a /\ ReportComes(a)
    BY <1>0, <2>1 DEF Hosting
  <2>. QED  BY <2>1, <2>2 DEF ReportComes, Loyal
<1>. QED  BY <1>1, <1>2, <1>3, <1>4, <1>5, <1>6, <1>7, <1>8
          DEF Next, HostTakes, HostAnswers, JoinerTakes, JoinerEnds, HostCloses

\* A step that grants nothing to attempt a leaves it where it is or takes it further.
LEMMA GrantersStep ==
  ASSUME BaseInv, GrantsOK, SaltsOK, ProofsFollowed, GrantsFollowed, ReportsFollowed,
         GrantersSucceed, [Next]_vars, Undisturbed'
  PROVE  GrantersSucceed'
<1>. SUFFICES ASSUME NEW a \in Attempts, (got[a] # None \/ Waits(a))'
              PROVE  Succeeds(salt[a])'
  BY DEF GrantersSucceed
<1>. DEFINE holds == got[a] # None \/ Waits(a)
<1>0. /\ holds => Succeeds(salt[a])
      /\ session \in Nat /\ salt[a] \in Nat /\ salt[a] <= session
      /\ holds => salt[a] # None /\ salt[a] \in Sessions
      /\ host \in [Sessions -> {"none", "open", "done", "saved", "failed"}]
  BY DEF GrantersSucceed, GrantsOK, Waits, SaltsOK, HellosOK, BaseInv, TypeOK, Sessions, None
<1>1. CASE \E c \in Codes : HostOpens(c)
  <2>1. /\ host' = [host EXCEPT ![session + 1] = "open"]
        /\ UNCHANGED <<got, salt, joiner, entered, toJoiner>>
    BY <1>1 DEF HostOpens, joinerVars
  <2>2. holds
    BY <2>1 DEF Waits
  <2>. QED  BY <1>0, <2>1, <2>2 DEF Succeeds
<1>2. CASE \E c \in Codes : JoinerOpens(c)
  <2>1. PICK c \in Codes : JoinerOpens(c)
    BY <1>2
  <2>. DEFINE b == attempts + 1
  <2>2. /\ b \in Attempts /\ UNCHANGED <<host, toJoiner, salt, got>>
        /\ joiner' = [joiner EXCEPT ![b] = "open"] /\ entered' = [entered EXCEPT ![b] = c]
        /\ toJoiner[b] = <<>> /\ got[b] = None
    BY <2>1, JoinerOpensParts
  <2>. HIDE DEF b
  <2>3. a # b
    <3>1. DOMAIN <<>> = {}
      OBVIOUS
    <3>. QED  BY <2>2, <3>1 DEF Waits
  <2>4. holds
    BY <2>2, <2>3 DEF Waits, BaseInv, TypeOK
  <2>. QED  BY <1>0, <2>2, <2>4 DEF Succeeds
<1>3. CASE HostAnswers
  <2>1. UNCHANGED <<host, joiner, entered, salt, got>> /\ host[session] = "open"
    BY <1>3, HostAnswersParts DEF Hosting
  <2>2. CASE holds
    BY <1>0, <2>1, <2>2 DEF Succeeds
  <2>3. CASE ~holds
    <3>1. /\ got[a] = None /\ joiner[a] = "open" /\ salt[a] # None
          /\ \E i \in DOMAIN toJoiner'[a] :
               toJoiner'[a][i].t = "grant" /\ toJoiner'[a][i].proof = Proof(entered[a], salt[a], a, "A")
      BY <2>1, <2>3 DEF Waits
    <3>2. PICK i \in DOMAIN toJoiner'[a] :
            toJoiner'[a][i].t = "grant" /\ toJoiner'[a][i].proof = Proof(entered[a], salt[a], a, "A")
      BY <3>1
    <3>3. \/ i \in DOMAIN toJoiner[a] /\ toJoiner'[a][i] = toJoiner[a][i]
          \/ toJoiner'[a][i] = Hello(session)
          \/ toJoiner'[a][i] = Granted
      BY <1>3, HostAnswersParts
    <3>4. toJoiner'[a][i] = Granted
      BY <2>3, <3>1, <3>2, <3>3 DEF Hello, Waits
    <3>5. salt[a] = session
      BY <3>2, <3>4 DEF Granted, Grant, Expected, Proof
    <3>. QED  BY <2>1, <3>5 DEF Succeeds
  <2>. QED  BY <2>2, <2>3
<1>4. CASE HostCloses
  <2>1. /\ ~HostStops /\ session \in Sessions
        /\ \E state \in {"done", "failed"} : host' = [host EXCEPT ![session] = state]
        /\ UNCHANGED <<joiner, entered, salt, got>>
    BY <1>4, UndisturbedBefore, HostClosesParts
  <2>2. Hosting /\ toHost # <<>>
    BY <1>4, <2>1 DEF HostCloses, HostRefusesProof, HostTakesComplete, HostTakesCancel, Took
  <2>3. holds
    <3>1. Cancel.t # "grant"
      BY DEF Cancel
    <3>2. \A i \in DOMAIN toJoiner'[a] :
            \/ i \in DOMAIN toJoiner[a] /\ toJoiner'[a][i] = toJoiner[a][i]
            \/ toJoiner'[a][i] = Cancel
      BY <1>4, <2>2, HostClosesParts, HostLeavesQueues DEF BaseInv, TypeOK
    <3>. QED  BY <2>1, <3>1, <3>2 DEF Waits
  <2>4. CASE salt[a] # session
    BY <1>0, <2>1, <2>3, <2>4 DEF Succeeds
  <2>5. CASE HostTakesComplete /\ salt[a] = session
    <3>1. host'[session] = "done"
      BY <1>0, <2>1, <2>5 DEF HostTakesComplete, HostEnds
    <3>. QED  BY <2>1, <2>5, <3>1 DEF Succeeds
  <2>6. CASE ~HostTakesComplete /\ salt[a] = session
    <3>1. HostRefusesProof \/ HostTakesCancel
      BY <1>4, <2>1, <2>6 DEF HostCloses
    <3>2. toHost[1] = Head(toHost) /\ toHost[1].t # "pair_complete" /\ 1 \in DOMAIN toHost
      BY <2>2, <3>1, TailFrames DEF HostRefusesProof, HostTakesCancel, Took, BaseInv, QueuesOK
    <3>3. joiner_public_key = a /\ Loyal(toHost[1], a)
      <4>1. CASE got[a] # None
        <5>1. joiner_public_key = a /\ ReportComes(a)
          BY <2>2, <2>6, <4>1 DEF ReportsFollowed
        <5>2. PICK k \in DOMAIN toHost :
                toHost[k].t = "pair_complete" /\ \A j \in 1 .. k - 1 : Loyal(toHost[j], a)
          BY <5>1 DEF ReportComes
        <5>3. k \in Nat /\ k # 1 /\ k # 0
          BY <3>2, <5>2 DEF BaseInv, QueuesOK
        <5>. QED  BY <5>1, <5>2, <5>3
      <4>2. CASE Waits(a)
        <5>1. PICK i \in DOMAIN toJoiner[a] :
                /\ toJoiner[a][i].t = "grant"
                /\ toJoiner[a][i].proof = Proof(entered[a], session, a, "A")
          BY <2>6, <4>2 DEF Waits
        <5>2. entered[a] = code[session]
          BY <5>1 DEF GrantsOK, Proof
        <5>3. Meets(a)
          BY <2>2, <4>2, <5>2 DEF Meets, Waits
        <5>. QED  BY <3>2, <5>1, <5>2, <5>3 DEF GrantsFollowed
      <4>. QED  BY <2>3, <4>1, <4>2
    <3>. QED  BY <2>2, <3>1, <3>3, LoyalNotRefused
  <2>. QED  BY <2>4, <2>5, <2>6
<1>5. CASE HostSaves
  <2>1. /\ session \in Sessions /\ host' = [host EXCEPT ![session] = "saved"]
        /\ UNCHANGED <<got, salt, joiner, entered, toJoiner>>
    BY <1>5, InSession DEF HostSaves, joinerVars
  <2>2. holds
    BY <2>1 DEF Waits
  <2>. QED  BY <1>0, <2>1, <2>2 DEF Succeeds
<1>6. CASE \E b \in Attempts : JoinerTakesHello(b)
  <2>1. PICK b \in Attempts : JoinerTakesHello(b)
    BY <1>6
  <2>2. /\ UNCHANGED <<host, joiner, entered, got>>
        /\ got[b] = None /\ salt[b] <= salt'[b] /\ salt'[b] \in Sessions
        /\ salt' = [salt EXCEPT ![b] = toJoiner[b][1].salt]
        /\ toJoiner[b] # <<>> /\ toJoiner' = [toJoiner EXCEPT ![b] = Tail(toJoiner[b])]
    BY <2>1, JoinerTakesHelloParts DEF SaltsOK
  <2>3. \A i \in DOMAIN toJoiner'[a] : \E k \in DOMAIN toJoiner[a] : toJoiner'[a][i] = toJoiner[a][k]
    BY <2>2, TailFrames DEF BaseInv, QueuesOK
  <2>4. salt'[a] = salt[a]
    <3>1. CASE a # b
      BY <2>2, <3>1 DEF BaseInv, TypeOK
    <3>2. CASE a = b
      <4>1. PICK i \in DOMAIN toJoiner'[a] :
              /\ toJoiner'[a][i].t = "grant"
              /\ toJoiner'[a][i].proof = Proof(entered[a], salt'[a], a, "A")
        BY <2>2, <3>2 DEF Waits
      <4>2. PICK k \in DOMAIN toJoiner[a] : toJoiner'[a][i] = toJoiner[a][k]
        BY <2>3
      <4>3. toJoiner[a][k].proof[2] = salt'[a] /\ toJoiner[a][k].proof[3] = a
        BY <4>1, <4>2 DEF Proof
      <4>4. salt'[a] <= salt[a]
        BY <4>1, <4>2, <4>3 DEF SaltsOK, ProvenOK
      <4>5. salt'[a] \in Nat /\ salt[a] <= salt'[a]
        BY <2>2, <3>2 DEF Sessions
      <4>. QED  BY <1>0, <4>4, <4>5
    <3>. QED  BY <3>1, <3>2
  <2>5. holds
    BY <2>2, <2>3, <2>4 DEF Waits
  <2>. QED  BY <1>0, <2>2, <2>4, <2>5 DEF Succeeds
<1>7. CASE \E b \in Attempts : JoinerTakesGrant(b) \/ JoinerEnds(b)
  <2>1. PICK b \in Attempts : JoinerTakesGrant(b) \/ JoinerEnds(b)
    BY <1>7
  <2>2. UNCHANGED <<host, entered, salt>>
    <3>1. CASE JoinerTakesGrant(b)
      BY <3>1 DEF JoinerTakesGrant, hostVars
    <3>2. CASE JoinerEnds(b)
      BY <3>2, JoinerEndsParts DEF hostVars
    <3>. QED  BY <2>1, <3>1, <3>2
  <2>3. CASE a # b
    <3>1. joiner'[a] = joiner[a] /\ got'[a] = got[a] /\ toJoiner'[a] = toJoiner[a]
      <4>1. toJoiner \in [Attempts -> Seq(JoinerFrames)]
        BY DEF BaseInv, QueuesOK
      <4>2. CASE JoinerTakesGrant(b)
        BY <2>3, <4>1, <4>2 DEF JoinerTakesGrant, BaseInv, TypeOK
      <4>3. CASE JoinerEnds(b)
        <5>1. /\ got' = got
              /\ \E state \in {"failed", "paired"} : joiner' = [joiner EXCEPT ![b] = state]
              /\ toJoiner' = toJoiner \/ toJoiner' = [toJoiner EXCEPT ![b] = <<>>]
          BY <4>3, JoinerEndsParts
        <5>2. joiner'[a] = joiner[a]
          BY <2>3, <5>1 DEF BaseInv, TypeOK
        <5>3. toJoiner'[a] = toJoiner[a]
          <6>1. CASE toJoiner' = toJoiner
            BY <6>1
          <6>2. CASE toJoiner' = [toJoiner EXCEPT ![b] = <<>>]
            BY <2>3, <4>1, <6>2
          <6>. QED  BY <5>1, <6>1, <6>2
        <5>. QED  BY <5>1, <5>2, <5>3
      <4>. QED  BY <2>1, <4>2, <4>3
    <3>2. holds
      BY <2>2, <3>1 DEF Waits
    <3>. QED  BY <1>0, <2>2, <3>2 DEF Succeeds
  <2>4. CASE a = b /\ JoinerTakesGrant(b)
    <3>1. holds
      BY <2>4, TakenGrant DEF Waits
    <3>. QED  BY <1>0, <2>2, <3>1 DEF Succeeds
  <2>5. CASE a = b /\ JoinerEnds(b)
    <3>1. got' = got /\ joiner'[a] # "open"
      BY <2>5, JoinerEndsParts DEF BaseInv, TypeOK
    <3>2. holds
      BY <3>1 DEF Waits
    <3>. QED  BY <1>0, <2>2, <3>2 DEF Succeeds
  <2>. QED  BY <2>1, <2>3, <2>4, <2>5
<1>8. CASE UNCHANGED vars
  <2>1. UNCHANGED <<host, got, salt, joiner, entered, toJoiner>>
    BY <1>8 DEF vars, hostVars, joinerVars
  <2>2. holds
    BY <2>1 DEF Waits
  <2>. QED  BY <1>0, <2>1, <2>2 DEF Succeeds
<1>. QED  BY <1>1, <1>2, <1>3, <1>4, <1>5, <1>6, <1>7, <1>8
          DEF Next, HostTakes, HostAnswers, JoinerTakes, JoinerEnds, HostCloses

LEMMA InitAgree == Init => AgreeInv
<1>. SUFFICES ASSUME Init PROVE AgreeInv
  OBVIOUS
<1>1. /\ session = 0 /\ toHost = <<>> /\ salt = [a \in Attempts |-> None]
      /\ toJoiner = [a \in Attempts |-> <<>>] /\ got = [a \in Attempts |-> None]
      /\ DOMAIN <<>> = {}
  BY DEF Init
<1>2. SaltsOK
  BY <1>1 DEF SaltsOK, HellosOK, ProvenOK, None
<1>3. ProofsFollowed /\ GrantsFollowed /\ ReportsFollowed /\ GrantersSucceed
  BY <1>1 DEF ProofsFollowed, GrantsFollowed, ReportsFollowed, GrantersSucceed, Waits
<1>. QED  BY <1>2, <1>3 DEF AgreeInv

LEMMA AgreeStep == SafeInv /\ AgreeInv /\ [Next]_vars => AgreeInv'
<1>. SUFFICES ASSUME SafeInv, AgreeInv, [Next]_vars PROVE AgreeInv'
  OBVIOUS
<1>1. BaseInv /\ GrantsOK /\ SaltsOK /\ ProofsFollowed
  BY DEF SafeInv, AgreeInv
<1>2. SaltsOK' /\ ProofsFollowed'
  BY <1>1, SaltsStep, ProofsFollowedStep
<1>3. ASSUME Undisturbed' PROVE (GrantsFollowed /\ ReportsFollowed /\ GrantersSucceed)'
  <2>1. GrantsFollowed /\ ReportsFollowed /\ GrantersSucceed
    BY <1>1, <1>3, UndisturbedBefore DEF AgreeInv
  <2>. QED  BY <1>1, <1>3, <2>1, GrantsFollowedStep, ReportsFollowedStep, GrantersStep
<1>. QED  BY <1>2, <1>3 DEF AgreeInv

LEMMA Agreement == SafeInv /\ AgreeInv => AgreeUnlessStopped
<1>. SUFFICES ASSUME SafeInv, AgreeInv, Undisturbed, NEW a \in Attempts, got[a] # None
              PROVE  \E s \in Sessions : key[s] = got[a] /\ host[s] \in {"open", "done", "saved"}
  BY DEF AgreeUnlessStopped, Undisturbed
<1>1. salt[a] # None /\ got[a] = key[salt[a]] /\ salt[a] \in Sessions
  BY DEF SafeInv, GrantsOK, BaseInv, TypeOK
<1>2. Succeeds(salt[a])
  BY DEF AgreeInv, GrantersSucceed
<1>. QED  BY <1>1, <1>2 DEF Succeeds

\* While nothing is cut off or lost, a group key that a joiner holds is that of a
\* session that is open still or has succeeded.
THEOREM AgreeUnlessStoppedAlways == Spec => []AgreeUnlessStopped
<1>. DEFINE Inv == SafeInv /\ AgreeInv
<1>1. Init => Inv
  BY InitSafe, InitAgree
<1>2. Inv /\ [Next]_vars => Inv'
  BY SafeStep, AgreeStep
<1>3. Inv => AgreeUnlessStopped
  BY Agreement
<1>. QED  BY <1>1, <1>2, <1>3, PTL DEF Spec

=============================================================================
