------------------------------- MODULE Pairing -------------------------------
(***************************************************************************)
(* How a device joins a group: a host (host_pairing_session, with the      *)
(* command around it) and joiners (join_pairing_session) meet in a room of *)
(* the relay that their code names, prove to each other that they know the *)
(* code, and the group key goes from the one to the other.                 *)
(*                                                                         *)
(* One device hosts, one session at a time; joiners come one at a time to  *)
(* a room, and a host or a joiner that failed may try again, also with the *)
(* same code.  The relay (external) forwards in order to whoever is in the *)
(* room, and may or may not tell the one that stays when the other leaves. *)
(*                                                                         *)
(* A salt, a key pair and a code stand for their owner's number: the salt  *)
(* of host session s is s, the public key of attempt a is a.  A proof is   *)
(* what it hashes.  Left out: the status lines, pair_open_ok, pair_ready   *)
(* at the joiner, which all change nothing, and codes that do not          *)
(* normalise, which are refused before anything is opened.                 *)
(***************************************************************************)
EXTENDS Naturals, Sequences

CONSTANTS MaxHosts,   \* bound: sessions of the host
          MaxJoins,   \* bound: attempts to join
          MaxStops,   \* bound: sessions and attempts cut off
          MaxLosses   \* bound: pair_complete frames lost

ASSUME BoundsAssumption == {MaxHosts, MaxJoins, MaxStops, MaxLosses} \subseteq Nat

VARIABLES
  \* The host device
  session,   \* how many host sessions there were; only the last may be open
  host,      \* host[s]: "none", "open", "done" (returned Ok), "saved", "failed"
  code, key, \* code[s], key[s]: the session's code and group key
  joiner_public_key, \* local of the open session
  group,     \* the group key in the host's config
  \* The joining devices
  attempts,  \* how many attempts there were
  joiner,    \* joiner[a]: "none", "open", "granted", "paired", "failed"
  entered,   \* entered[a]: the code
  salt,      \* salt[a]: local initiator_salt_b64
  got,       \* got[a]: the group key that was unwrapped
  \* The relay (external)
  room,      \* room[c]: the attempt in it
  toHost,    \* frames on their way to the open host session
  toJoiner,  \* toJoiner[a]: frames on their way to attempt a
  used       \* how much of the last two bounds is used

hostVars   == <<session, host, code, key, joiner_public_key, group>>
joinerVars == <<attempts, joiner, entered, salt, got>>
vars == <<hostVars, joinerVars, room, toHost, toJoiner, used>>

None     == 0
Sessions == 1 .. MaxHosts
Attempts == 1 .. MaxJoins
Codes    == Sessions
OldGroup == MaxHosts + 1     \* the key of a group from before
Keys     == Sessions \cup {OldGroup}

\* derive_pair_proof
Proof(c, s, pk, label) == <<c, s, pk, label>>
Proofs == Codes \X Sessions \X Attempts \X {"A", "B"}

Ready         == [t |-> "pair_ready"]
Cancel        == [t |-> "pair_cancel"]
Complete      == [t |-> "pair_complete"]
Hello(s)      == [t |-> "hello", salt |-> s]
Join(pk)      == [t |-> "join", salt |-> pk]
ProofB(proof) == [t |-> "proof_b", proof |-> proof]
\* wrapped_key: the key k wrapped for the owner of pk
Grant(proof, k, pk) == [t |-> "grant", proof |-> proof, key |-> k, for |-> pk]

HostFrames ==
  {Ready, Cancel, Complete} \cup {Join(a) : a \in Attempts} \cup {ProofB(p) : p \in Proofs}
JoinerFrames ==
  {Cancel} \cup {Hello(s) : s \in Sessions}
    \cup {Grant(p, k, a) : p \in Proofs, k \in Keys, a \in Attempts}

Init ==
  /\ session = 0 /\ host = [s \in Sessions |-> "none"]
  /\ code = [s \in Sessions |-> None] /\ key = [s \in Sessions |-> None]
  /\ joiner_public_key = None /\ group \in {None, OldGroup}
  /\ attempts = 0 /\ joiner = [a \in Attempts |-> "none"]
  /\ entered = [a \in Attempts |-> None] /\ salt = [a \in Attempts |-> None]
  /\ got = [a \in Attempts |-> None]
  /\ room = [c \in Codes |-> None]
  /\ toHost = <<>> /\ toJoiner = [a \in Attempts |-> <<>>]
  /\ used = [stops |-> 0, losses |-> 0]

-----------------------------------------------------------------------------
(* The relay *)

Hosting == session # 0 /\ host[session] = "open"

HostIn(c) == Hosting /\ code[session] = c

\* What the relay does with frames of the joiner in room c.
ForwardToHost(c, frames) ==
  toHost' = IF HostIn(c) THEN toHost \o frames ELSE toHost

\* What it does with a frame of the host.
ForwardToJoiner(frame) ==
  LET a == room[code[session]] IN
  toJoiner' = IF a = None THEN toJoiner
                          ELSE [toJoiner EXCEPT ![a] = Append(@, frame)]

\* Attempt a leaves its room, having sent these frames.
JoinerLeaves(a, frames) ==
  /\ room' = [room EXCEPT ![entered[a]] = None]
  /\ \/ ForwardToHost(entered[a], frames)
     \/ ForwardToHost(entered[a], Append(frames, Cancel))

HostLeaves ==
  /\ toHost' = <<>>
  /\ UNCHANGED toJoiner \/ ForwardToJoiner(Cancel)

-----------------------------------------------------------------------------
(* The host *)

\* Mutant of GroupKey: the new group is not given a key.
GroupKeyUnset(s) == group

\* pair --host hands out the group in the config; interactive_pair, with none,
\* makes one up for this session.
GroupKey(s) == IF group = None THEN s ELSE group

\* Code c is typed (--code) or generated; interactive_pair generates it.
HostOpens(c) ==
  LET s == session + 1 IN
  /\ session < MaxHosts
  /\ session # 0 => host[session] \in {"saved", "failed"}
  /\ group = None => \A i \in 1 .. session : code[i] # c
  /\ session' = s
  /\ host' = [host EXCEPT ![s] = "open"]
  /\ code' = [code EXCEPT ![s] = c]
  /\ key' = [key EXCEPT ![s] = GroupKey(s)]
  /\ joiner_public_key' = None
  /\ toHost' = IF room[c] = None THEN <<>> ELSE <<Ready>>
  /\ UNCHANGED <<group, joinerVars, room, toJoiner, used>>

Took(t) == Hosting /\ toHost # <<>> /\ Head(toHost).t = t

HostEnds(state) ==
  /\ host' = [host EXCEPT ![session] = state]
  /\ HostLeaves
  /\ UNCHANGED <<session, code, key, joiner_public_key, group, joinerVars, room, used>>

\* Mutant of HostTakesReady: hello is said to the first joiner only.
HostTakesReadyOnce ==
  /\ Took("pair_ready")
  /\ toHost' = Tail(toHost)
  /\ IF joiner_public_key = None THEN ForwardToJoiner(Hello(session))
                                 ELSE UNCHANGED toJoiner
  /\ UNCHANGED <<hostVars, joinerVars, room, used>>

\* Every joiner that enters is told the session's salt.
HostTakesReady ==
  /\ Took("pair_ready")
  /\ toHost' = Tail(toHost)
  /\ ForwardToJoiner(Hello(session))
  /\ UNCHANGED <<hostVars, joinerVars, room, used>>

HostTakesJoin ==
  /\ Took("join")
  /\ toHost' = Tail(toHost)
  /\ joiner_public_key' = Head(toHost).salt
  /\ UNCHANGED <<session, host, code, key, group, joinerVars, room, toJoiner, used>>

Expected(label) == Proof(code[session], session, joiner_public_key, label)

HostTakesProof ==
  /\ Took("proof_b")
  /\ joiner_public_key # None
  /\ Head(toHost).proof = Expected("B")
  /\ toHost' = Tail(toHost)
  /\ ForwardToJoiner(Grant(Expected("A"), key[session], joiner_public_key))
  /\ UNCHANGED <<hostVars, joinerVars, room, used>>

\* A proof before a key, or one that does not match.
HostRefusesProof ==
  /\ Took("proof_b")
  /\ joiner_public_key = None \/ Head(toHost).proof # Expected("B")
  /\ HostEnds("failed")

HostTakesComplete == Took("pair_complete") /\ HostEnds("done")

HostTakesCancel == Took("pair_cancel") /\ HostEnds("failed")

\* save_config of interactive_pair; nothing to do for pair --host.
HostSaves ==
  /\ session # 0 /\ host[session] = "done"
  /\ host' = [host EXCEPT ![session] = "saved"]
  /\ group' = key[session]
  /\ UNCHANGED <<session, code, key, joiner_public_key, joinerVars, room, toHost,
                 toJoiner, used>>

\* Ctrl-C, a connection that breaks, the end of the process.
HostStops ==
  /\ session # 0 /\ host[session] \in {"open", "done"}
  /\ used.stops < MaxStops
  /\ used' = [used EXCEPT !.stops = @ + 1]
  /\ host' = [host EXCEPT ![session] = "failed"]
  /\ IF Hosting THEN HostLeaves ELSE UNCHANGED <<toHost, toJoiner>>
  /\ UNCHANGED <<session, code, key, joiner_public_key, group, joinerVars, room>>

-----------------------------------------------------------------------------
(* The joiners *)

JoinerOpens(c) ==
  LET a == attempts + 1 IN
  /\ attempts < MaxJoins
  /\ room[c] = None
  /\ attempts' = a
  /\ joiner' = [joiner EXCEPT ![a] = "open"]
  /\ entered' = [entered EXCEPT ![a] = c]
  /\ room' = [room EXCEPT ![c] = a]
  /\ ForwardToHost(c, <<Ready>>)
  /\ UNCHANGED <<hostVars, salt, got, toJoiner, used>>

Gets(a, t) == joiner[a] = "open" /\ toJoiner[a] # <<>> /\ Head(toJoiner[a]).t = t

JoinerTakesHello(a) ==
  /\ Gets(a, "hello")
  /\ LET s == Head(toJoiner[a]).salt IN
     /\ salt' = [salt EXCEPT ![a] = s]
     /\ ForwardToHost(entered[a], <<Join(a), ProofB(Proof(entered[a], s, a, "B"))>>)
  /\ toJoiner' = [toJoiner EXCEPT ![a] = Tail(@)]
  /\ UNCHANGED <<hostVars, attempts, joiner, entered, got, room, used>>

\* The grant answers this joiner's proof, and unwraps with its private key.
Fits(a, grant) ==
  /\ salt[a] # None
  /\ grant.proof = Proof(entered[a], salt[a], a, "A")
  /\ grant.for = a

JoinerFails(a, frames) ==
  /\ joiner' = [joiner EXCEPT ![a] = "failed"]
  /\ JoinerLeaves(a, frames)
  /\ toJoiner' = [toJoiner EXCEPT ![a] = <<>>]
  /\ UNCHANGED <<hostVars, attempts, entered, salt, got>>

\* Mutant of RefusalSends: pair_complete goes out before the grant is looked at.
RefusalSendsComplete == <<Complete>>

\* What a joiner that refuses a grant has sent since it took it.
RefusalSends == <<>>

JoinerRefusesGrant(a) ==
  /\ Gets(a, "grant")
  /\ ~Fits(a, Head(toJoiner[a]))
  /\ JoinerFails(a, RefusalSends)
  /\ UNCHANGED used

\* Mutant of Report: the joiner leaves without the 300 ms, or a report.
ReportNothing(a) == UNCHANGED toHost

\* pair_complete
Report(a) == ForwardToHost(entered[a], <<Complete>>)

\* The connection may break under pair_complete.
JoinerTakesGrant(a) ==
  /\ Gets(a, "grant")
  /\ Fits(a, Head(toJoiner[a]))
  /\ got' = [got EXCEPT ![a] = Head(toJoiner[a]).key]
  /\ joiner' = [joiner EXCEPT ![a] = "granted"]
  /\ toJoiner' = [toJoiner EXCEPT ![a] = Tail(@)]
  /\ \/ Report(a) /\ UNCHANGED used
     \/ /\ used.losses < MaxLosses
        /\ used' = [used EXCEPT !.losses = @ + 1]
        /\ UNCHANGED toHost
  /\ UNCHANGED <<hostVars, attempts, entered, salt, room>>

JoinerTakesCancel(a) ==
  Gets(a, "pair_cancel") /\ JoinerFails(a, <<>>) /\ UNCHANGED used

\* The end of the sleep of 300 ms, and save_config.
JoinerSaves(a) ==
  /\ joiner[a] = "granted"
  /\ joiner' = [joiner EXCEPT ![a] = "paired"]
  /\ JoinerLeaves(a, <<>>)
  /\ UNCHANGED <<hostVars, attempts, entered, salt, got, toJoiner, used>>

\* A connection that breaks, the end of the process.
JoinerStops(a) ==
  /\ joiner[a] \in {"open", "granted"}
  /\ used.stops < MaxStops
  /\ used' = [used EXCEPT !.stops = @ + 1]
  /\ JoinerFails(a, <<>>)

HostTakes ==
  \/ HostTakesReady
  \/ HostTakesJoin
  \/ HostTakesProof
  \/ HostRefusesProof
  \/ HostTakesComplete
  \/ HostTakesCancel

JoinerTakes(a) ==
  \/ JoinerTakesHello(a)
  \/ JoinerTakesGrant(a)
  \/ JoinerRefusesGrant(a)
  \/ JoinerTakesCancel(a)

Next ==
  \/ \E c \in Codes : HostOpens(c) \/ JoinerOpens(c)
  \/ HostTakes \/ HostSaves \/ HostStops
  \/ \E a \in Attempts : JoinerTakes(a) \/ JoinerSaves(a) \/ JoinerStops(a)

Spec == Init /\ [][Next]_vars

\* Each side reads what arrives; neither has to be started.
FairSpec ==
  /\ Spec
  /\ WF_vars(HostTakes) /\ WF_vars(HostSaves)
  /\ \A a \in Attempts : WF_vars(JoinerTakes(a)) /\ WF_vars(JoinerSaves(a))

-----------------------------------------------------------------------------
(* Properties *)

TypeOK ==
  /\ session \in 0 .. MaxHosts
  /\ host \in [Sessions -> {"none", "open", "done", "saved", "failed"}]
  /\ code \in [Sessions -> Codes \cup {None}]
  /\ key \in [Sessions -> Keys \cup {None}]
  /\ \A s \in Sessions : host[s] # "none" => key[s] # None /\ code[s] # None
  /\ joiner_public_key \in Attempts \cup {None}
  /\ group \in Keys \cup {None}
  /\ attempts \in 0 .. MaxJoins
  /\ joiner \in [Attempts -> {"none", "open", "granted", "paired", "failed"}]
  /\ entered \in [Attempts -> Codes \cup {None}]
  /\ salt \in [Attempts -> Sessions \cup {None}]
  /\ got \in [Attempts -> Keys \cup {None}]
  /\ room \in [Codes -> Attempts \cup {None}]
  /\ \A i \in DOMAIN toHost : toHost[i] \in HostFrames
  /\ \A a \in Attempts : \A i \in DOMAIN toJoiner[a] : toJoiner[a][i] \in JoinerFrames
  /\ used \in [stops : 0 .. MaxStops, losses : 0 .. MaxLosses]

\* The code of session s has not stood for another group's key before.
NewCode(s) == \A t \in 1 .. s : code[t] = code[s] => key[t] = key[s]

\* A host that reports success, and saves a new group, has handed its key to a
\* joiner that entered its code: a joiner that is brought the grant of one it has
\* replaced in the room, and refuses it, does not make the host believe so.  (Not
\* when the code is typed again for another group, while a joiner of the first one
\* is still under way.)
CompletedMeansJoined ==
  \A s \in Sessions : host[s] \in {"done", "saved"} /\ NewCode(s) =>
    \E a \in Attempts : entered[a] = code[s] /\ got[a] = key[s]

\* While nothing is cut off or lost, host and joiner agree: a group key that a
\* joiner holds is that of a session that is open still or has succeeded.
AgreeUnlessStopped ==
  used.stops = 0 /\ used.losses = 0 =>
    \A a \in Attempts : got[a] # None =>
      \E s \in Sessions : key[s] = got[a] /\ host[s] \in {"open", "done", "saved"}

\* A host and a joiner that are in the room together do not wait for each other
\* for ever: the one or the other ends, whoever was there before.
NobodyWaits ==
  \A a \in Attempts :
    joiner[a] = "open" /\ HostIn(entered[a])
      ~> joiner[a] # "open" \/ ~HostIn(entered[a])

=============================================================================
