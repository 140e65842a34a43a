-------------------------- MODULE LocalStateProofs --------------------------
(***************************************************************************)
(* Proofs about LocalState, for any number of processes that share the     *)
(* files and are killed anywhere: type correctness, that what nobody       *)
(* disturbed is read back, that disconnect removes everything, that only a *)
(* killed writer leaves an unreadable file, that the device id stays, and  *)
(* that an update of the client makes no version verdict worse.            *)
(***************************************************************************)
EXTENDS LocalState, FiniteSetTheorems, TLAPS

-----------------------------------------------------------------------------
(* The inductive invariant *)

Tokens ==
  {NoToken} \cup [line : Nat, piece : 0 .. 2] \cup [group_key : {"key"}] \cup [device_id : Nat]
    \cup {[recommended |-> policy.recommended, shown_at |-> n] : policy \in Policies, n \in Nat}

Calls == [name : Names, file : Files \cup {"none"}, token : Tokens]

\* What the calls are about, with d devices and e entries.
CallOK(c, d, e) ==
  /\ c.name = "create" => c.file \in JsonFiles
  /\ c.name = "append" => c.file \in LogFiles
  /\ c.name = "put" => c.file \in JsonFiles \cup LogFiles
  /\ c.name \in {"exists", "unlink"} => c.file \in Files
  /\ c.name \in {"create", "put"} /\ c.file = "identity" => c.token \in [device_id : 1 .. d]
  /\ c.name = "put" /\ c.file \in LogFiles => c.token \in [line : 1 .. e, piece : 0 .. 2]

\* The process r makes the file it is writing ready first of all.
TodoOK(r, d, e) ==
  /\ r.todo \in Seq(Calls)
  /\ \A i \in DOMAIN r.todo :
       /\ CallOK(r.todo[i], d, e)
       /\ r.todo[i].name \in {"create", "unlink"} => i = 1
       /\ r.todo[i].name = "put" =>
            \A j \in 1 .. i : r.todo[j].name = "put" /\ r.todo[j].file = r.todo[i].file

\* It has no device id before it asks for one, which it does once and before it
\* opens the store.
AsksOK(r) ==
  /\ \A i, j \in DOMAIN r.todo :
       r.todo[i].name = r.todo[j].name /\ r.todo[i].name \in {"identity", "store"} => i = j
  /\ \A i \in DOMAIN r.todo : r.todo[i].name = "identity" =>
       r.device = NoDevice /\ i + 1 \in DOMAIN r.todo /\ r.todo[i + 1].name = "store"
  /\ \A i \in DOMAIN r.todo : r.todo[i].name = "store" /\ r.device # NoDevice =>
       \/ i = 1
       \/ /\ i = 2 /\ r.todo[1].name \in {"create", "put"} /\ r.todo[1].file = "identity"
          /\ r.todo[1].token = [device_id |-> r.device]

DisconnectOK(r) ==
  r.cmd = "disconnect" =>
    \/ r.todo = <<Do("has_local_state")>>
    \/ \A i \in DOMAIN r.todo : r.todo[i].name \in {"exists", "unlink"}

ProcOK ==
  /\ proc \in [Procs -> [cmd : Commands \cup {"idle"}, todo : Seq(Calls),
                         open : Files \cup {"none", "gone"}, device : 0 .. devices]]
  /\ \A p \in Procs :
       /\ TodoOK(proc[p], devices, entries) /\ AsksOK(proc[p]) /\ DisconnectOK(proc[p])
       /\ proc[p].open \in (IF At(p, "put") THEN {File(p), "gone"} ELSE {"none"})
       /\ proc[p].open \in Files => proc[p].open \in exists
       /\ proc[p].cmd = "idle" => proc[p].todo = <<>>

FilesOK ==
  /\ exists \subseteq Files /\ content \in [Files -> Seq(Tokens)]
  /\ \A f \in Files \ exists : content[f] = <<>>
  /\ \A f \in JsonFiles : Len(content[f]) <= 1
  /\ \A f \in Files \ (JsonFiles \cup LogFiles) : content[f] = <<>>
  /\ \A i \in DOMAIN content["identity"] : content["identity"][i] \in [device_id : 1 .. devices]
  /\ \A f \in LogFiles : \A i \in DOMAIN content[f] :
       content[f][i] \in [line : 1 .. entries, piece : 0 .. 2]

\* Who will still ask for a device id.
Pending == {p \in Procs : \E i \in DOMAIN proc[p].todo : proc[p].todo[i].name = "identity"}

CountsOK ==
  /\ starts \in 0 .. MaxStarts /\ events \in 0 .. MaxEvents
  /\ devices \in Nat /\ devices + Cardinality(Pending) <= starts + 1
  /\ clock \in 0 .. events /\ installed \in DOMAIN Releases /\ entries \in 0 .. events + 1

PastOK ==
  /\ holds \cup company \cup clean \subseteq Procs
  /\ torn \subseteq JsonFiles \cap exists
  /\ intact \subseteq LogFiles \X (1 .. entries)

\* Who runs without ever having had company runs alone.
AloneOK == \A p \in Running \ company : Running = {p}

Alone(p) == p \in Running \ company

\* A JSON file that is not whole is being written, or its writer was killed.
WrittenOK ==
  \A f \in JsonFiles \cap exists :
    Len(content[f]) = 1 \/ f \in torn \/ \E p \in Procs : proc[p].open = f

\* Disconnect, alone, is still to look for everything that is there.
RemovedOK ==
  \A p \in Procs : Alone(p) /\ proc[p].cmd = "disconnect" =>
    \/ proc[p].todo = <<Do("has_local_state")>>
    \/ \A f \in exists : \E i \in DOMAIN proc[p].todo : proc[p].todo[i].file = f

Identity(d) == "identity" \in exists /\ content["identity"] = <<[device_id |-> d]>>

Writes(p, f) ==
  \E i \in DOMAIN proc[p].todo : proc[p].todo[i].name \in {"create", "put"} /\ proc[p].todo[i].file = f

\* What a process that runs alone has asked for is in the file when it opens the
\* store, and what it writes to has not been removed.
DeviceOK ==
  /\ \A p \in Procs : Alone(p) => proc[p].open # "gone"
  /\ \A p \in Procs : Alone(p) /\ At(p, "store") /\ proc[p].device # NoDevice =>
       Identity(proc[p].device)
  /\ lastDevice # NoDevice =>
       Identity(lastDevice) /\ \A p \in Procs : ~Writes(p, "identity")

\* Every piece is written once.
PutsTo(todo, f, i) == i \in DOMAIN todo /\ todo[i].name = "put" /\ todo[i].file = f

PiecesOK ==
  \A f \in LogFiles :
    /\ \A i, j \in DOMAIN content[f] : content[f][i] = content[f][j] => i = j
    /\ \A p \in Procs : \A i \in DOMAIN proc[p].todo : PutsTo(proc[p].todo, f, i) =>
         /\ \A j \in DOMAIN content[f] : content[f][j] # proc[p].todo[i].token
         /\ \A q \in Procs : \A j \in DOMAIN proc[q].todo :
              PutsTo(proc[q].todo, f, j) /\ proc[q].todo[j].token = proc[p].todo[i].token =>
                p = q /\ i = j

\* The pieces of line k of file f that come before its end.
LineOf(f, k) == IF f = "history" THEN Entry(k) ELSE <<Piece(k, 1)>>

\* Line k of f is in the text from i on, with its end.
Stored(text, f, k, i) ==
  LET n == Len(LineOf(f, k)) IN
  /\ i + n <= Len(text)
  /\ i = 1 \/ IsLineEnd(text[i - 1])
  /\ \A j \in 1 .. n : text[i + j - 1] = LineOf(f, k)[j]
  /\ text[i + n] = Piece(k, 0)

IntactOK ==
  \A line \in intact : \E i \in DOMAIN content[line[1]] :
    Stored(content[line[1]], line[1], line[2], i)

\* The text ends with the first n pieces of line k of f, and what is to be written to
\* it is the rest of the line and its end.
Midway(todo, text, f, k, n) ==
  LET start == Len(text) - n
      left == Len(LineOf(f, k)) - n + 1
  IN
  /\ start \in Nat
  /\ start = 0 \/ IsLineEnd(text[start])
  /\ \A j \in 1 .. n : text[start + j] = LineOf(f, k)[j]
  /\ \A i \in 1 .. left :
       /\ i \in DOMAIN todo /\ todo[i].name = "put"
       /\ i < left => todo[i].token = Piece(k, n + i)
       /\ i = left => todo[i].token = Piece(k, 0)
  /\ \A i \in DOMAIN todo : i > left => todo[i].name # "put"

\* Nobody else writes to the file of a process that is not disturbed.
CleanOK ==
  \A p \in clean :
    /\ At(p, "put") /\ File(p) \in LogFiles
    /\ proc[p].open # "gone" =>
         /\ \A q \in Procs : proc[q].open = proc[p].open => q = p
         /\ \E k \in 1 .. entries : \E n \in 0 .. Len(LineOf(File(p), k)) :
              Midway(proc[p].todo, content[File(p)], File(p), k, n)

IInv ==
  /\ ProcOK /\ FilesOK /\ CountsOK /\ PastOK /\ AloneOK /\ WrittenOK /\ RemovedOK
  /\ DeviceOK /\ PiecesOK /\ IntactOK /\ CleanOK

-----------------------------------------------------------------------------
(* Files, calls and sequences of calls *)

LEMMA FileNames ==
  /\ JsonFiles \subseteq Files /\ LogFiles \subseteq Files /\ SideFiles \subseteq Files
  /\ JsonFiles \cap LogFiles = {} /\ SideFiles \cap (JsonFiles \cup LogFiles) = {}
  /\ "store" \in Files /\ "store" \notin JsonFiles \cup LogFiles
  /\ "identity" \in JsonFiles /\ "config" \in JsonFiles /\ "nag" \in JsonFiles
  /\ "history" \in LogFiles /\ "input_history" \in LogFiles
  /\ "none" \notin Files /\ "gone" \notin Files
BY DEF Files, JsonFiles, LogFiles, SideFiles

LEMMA Bounded ==
  /\ UPDATE_NAG_INTERVAL \in Nat /\ HistoryLimit \in Nat /\ MaxStarts \in Nat /\ MaxEvents \in Nat
  /\ IsFiniteSet(Procs)
BY LocalAssumption

LEMMA CallParts ==
  ASSUME NEW name \in Names, NEW file \in Files \cup {"none"}, NEW token \in Tokens
  PROVE  /\ Call(name, file, token) \in Calls
         /\ Call(name, file, token).name = name /\ Call(name, file, token).file = file
         /\ Call(name, file, token).token = token
BY DEF Call, Calls

LEMMA DoParts ==
  ASSUME NEW name \in Names
  PROVE  Do(name) \in Calls /\ Do(name).name = name /\ Do(name).file = "none"
<1>1. NoToken \in Tokens
  BY DEF Tokens
<1>. QED  BY <1>1, CallParts DEF Do

LEMMA Prepended ==
  ASSUME NEW c \in Calls, NEW s \in Seq(Calls)
  PROVE  /\ <<c>> \o s \in Seq(Calls) /\ DOMAIN (<<c>> \o s) = 1 .. Len(s) + 1 /\ Len(s) \in Nat
         /\ (<<c>> \o s)[1] = c
         /\ \A i \in 1 .. Len(s) : (<<c>> \o s)[i + 1] = s[i]
OBVIOUS

\* What process p still has to do after the call it is at.
LEMMA RestParts ==
  ASSUME ProcOK, NEW p \in Procs, proc[p].todo # <<>>
  PROVE  /\ proc[p].todo \in Seq(Calls) /\ Head(proc[p].todo) = proc[p].todo[1]
         /\ proc[p].todo[1] \in Calls
         /\ Rest(p) \in Seq(Calls) /\ Len(Rest(p)) \in Nat
         /\ DOMAIN proc[p].todo = 1 .. Len(Rest(p)) + 1
         /\ DOMAIN Rest(p) = 1 .. Len(Rest(p))
         /\ \A i \in 1 .. Len(Rest(p)) : Rest(p)[i] = proc[p].todo[i + 1]
<1>1. proc[p].todo \in Seq(Calls)
  BY DEF ProcOK
<1>. DEFINE s == proc[p].todo
<1>. HIDE DEF s
<1>2. s \in Seq(Calls) /\ s # <<>> =>
           /\ Head(s) = s[1] /\ s[1] \in Calls
           /\ Tail(s) \in Seq(Calls) /\ Len(Tail(s)) \in Nat
           /\ DOMAIN s = 1 .. Len(Tail(s)) + 1
           /\ DOMAIN Tail(s) = 1 .. Len(Tail(s))
           /\ \A i \in 1 .. Len(Tail(s)) : Tail(s)[i] = s[i + 1]
  OBVIOUS
<1>. QED  BY <1>1, <1>2 DEF s, Rest

LEMMA AtParts ==
  ASSUME ProcOK, NEW p \in Procs, NEW name, At(p, name)
  PROVE  /\ proc[p].todo # <<>> /\ proc[p].todo[1].name = name
         /\ File(p) = proc[p].todo[1].file /\ Head(proc[p].todo) = proc[p].todo[1]
         /\ CallOK(proc[p].todo[1], devices, entries) /\ proc[p].cmd # "idle" /\ p \in Running
         /\ name # "put" => proc[p].open = "none"
<1>1. proc[p].todo # <<>> /\ Head(proc[p].todo).name = name
  BY DEF At
<1>2. Head(proc[p].todo) = proc[p].todo[1] /\ 1 \in DOMAIN proc[p].todo
  BY <1>1, RestParts
<1>3. CallOK(proc[p].todo[1], devices, entries) /\ proc[p].cmd # "idle"
  BY <1>1, <1>2 DEF ProcOK, TodoOK
<1>4. name # "put" => proc[p].open = "none"
  BY <1>1 DEF ProcOK, At
<1>. QED  BY <1>1, <1>2, <1>3, <1>4 DEF File, Running

\* What comes after a call that is not a write: no write, no file opened for a write
\* that begins it anew, nothing to unlink.
LEMMA RestNames ==
  ASSUME ProcOK, NEW p \in Procs, proc[p].todo # <<>>
  PROVE  /\ \A i \in DOMAIN Rest(p) : CallOK(Rest(p)[i], devices, entries) /\ Rest(p)[i].name \notin {"create", "unlink"}
         /\ proc[p].todo[1].name # "put" => \A i \in DOMAIN Rest(p) : Rest(p)[i].name # "put"
<1>1. /\ DOMAIN Rest(p) = 1 .. Len(Rest(p)) /\ Len(Rest(p)) \in Nat
      /\ \A i \in DOMAIN Rest(p) : i + 1 \in DOMAIN proc[p].todo /\ i + 1 # 1 /\ 1 \in 1 .. i + 1
                                   /\ Rest(p)[i] = proc[p].todo[i + 1]
  BY RestParts
<1>2. TodoOK(proc[p], devices, entries)
  BY DEF ProcOK
<1>3. ASSUME NEW i \in DOMAIN Rest(p)
      PROVE  /\ CallOK(Rest(p)[i], devices, entries) /\ Rest(p)[i].name \notin {"create", "unlink"}
             /\ proc[p].todo[1].name # "put" => Rest(p)[i].name # "put"
  BY <1>1, <1>2 DEF TodoOK
<1>. QED  BY <1>3

\* What is left is as it should be,
LEMMA RestTodo ==
  ASSUME ProcOK, NEW p \in Procs, proc[p].todo # <<>>,
         NEW r, r.todo = Rest(p), r.device = proc[p].device, r.cmd = proc[p].cmd
  PROVE  TodoOK(r, devices, entries) /\ AsksOK(r) /\ DisconnectOK(r)
<1>. DEFINE rest == Rest(p)
            todo == proc[p].todo
<1>1. /\ rest \in Seq(Calls) /\ DOMAIN rest = 1 .. Len(rest) /\ Len(rest) \in Nat
      /\ DOMAIN todo = 1 .. Len(rest) + 1
      /\ \A i \in 1 .. Len(rest) : rest[i] = todo[i + 1]
  BY RestParts
<1>2. TodoOK(proc[p], devices, entries) /\ AsksOK(proc[p]) /\ DisconnectOK(proc[p])
  BY DEF ProcOK
<1>3. \A i \in DOMAIN rest : i \in Nat /\ i + 1 \in DOMAIN todo /\ rest[i] = todo[i + 1]
  BY <1>1
<1>4. TodoOK(r, devices, entries)
  <2>. SUFFICES ASSUME NEW i \in DOMAIN rest
                PROVE  /\ CallOK(rest[i], devices, entries)
                       /\ rest[i].name \in {"create", "unlink"} => i = 1
                       /\ rest[i].name = "put" =>
                            \A j \in 1 .. i : rest[j].name = "put" /\ rest[j].file = rest[i].file
    BY <1>1 DEF TodoOK
  <2>1. CallOK(rest[i], devices, entries) /\ rest[i].name \notin {"create", "unlink"}
    BY RestNames
  <2>2. ASSUME rest[i].name = "put", NEW j \in 1 .. i
        PROVE  rest[j].name = "put" /\ rest[j].file = rest[i].file
    <3>1. j \in DOMAIN rest /\ j + 1 \in 1 .. i + 1
      BY <1>1
    <3>. QED  BY <1>2, <1>3, <2>2, <3>1 DEF TodoOK
  <2>. QED  BY <2>1, <2>2
<1>5. AsksOK(r)
  <2>1. ASSUME NEW i \in DOMAIN rest, NEW j \in DOMAIN rest, rest[i].name = rest[j].name,
               rest[i].name \in {"identity", "store"}
        PROVE  i = j
    <3>1. i + 1 = j + 1
      BY <1>2, <1>3, <2>1 DEF AsksOK
    <3>. QED  BY <1>3, <3>1
  <2>2. ASSUME NEW i \in DOMAIN rest, rest[i].name = "identity"
        PROVE  r.device = NoDevice /\ i + 1 \in DOMAIN rest /\ rest[i + 1].name = "store"
    <3>1. r.device = NoDevice /\ (i + 1) + 1 \in DOMAIN todo /\ todo[(i + 1) + 1].name = "store"
      BY <1>2, <1>3, <2>2 DEF AsksOK
    <3>2. i + 1 \in DOMAIN rest
      BY <1>1, <3>1
    <3>. QED  BY <1>3, <3>1, <3>2
  <2>3. ASSUME NEW i \in DOMAIN rest, rest[i].name = "store", r.device # NoDevice
        PROVE  i = 1
    <3>1. i + 1 = 1 \/ i + 1 = 2
      BY <1>2, <1>3, <2>3 DEF AsksOK
    <3>. QED  BY <1>1, <3>1
  <2>. HIDE DEF rest
  <2>4. r.todo = rest
    BY DEF rest
  <2>. QED  BY <2>1, <2>2, <2>3, <2>4 DEF AsksOK
<1>6. DisconnectOK(r)
  <2>1. CASE todo = <<Do("has_local_state")>>
    <3>1. DOMAIN rest = {}
      <4>1. DOMAIN todo = 1 .. 1
        BY <2>1
      <4>. QED  BY <1>1, <4>1
    <3>. QED  BY <3>1 DEF DisconnectOK
  <2>2. CASE todo # <<Do("has_local_state")>>
    BY <1>2, <1>3, <2>2 DEF DisconnectOK
  <2>. QED  BY <2>1, <2>2
<1>. QED  BY <1>4, <1>5, <1>6

\* also with another call in front of it.
LEMMA PrependTodo ==
  ASSUME ProcOK, NEW p \in Procs, proc[p].todo # <<>>, proc[p].todo[1].name # "put",
         NEW c \in Calls, CallOK(c, devices, entries), c.name \notin {"identity", "store"},
         proc[p].todo[1].name = "create" =>
           c.name = "put" /\ c.file = proc[p].todo[1].file /\ c.token = proc[p].todo[1].token,
         proc[p].cmd = "disconnect" =>
           proc[p].todo[1].name # "has_local_state" /\ c.name \in {"exists", "unlink"},
         NEW r, r.todo = <<c>> \o Rest(p), r.device = proc[p].device, r.cmd = proc[p].cmd
  PROVE  TodoOK(r, devices, entries) /\ AsksOK(r) /\ DisconnectOK(r)
<1>. DEFINE rest == Rest(p)
            todo == proc[p].todo
            new == <<c>> \o rest
<1>1. /\ rest \in Seq(Calls) /\ DOMAIN rest = 1 .. Len(rest) /\ Len(rest) \in Nat
      /\ DOMAIN todo = 1 .. Len(rest) + 1
      /\ \A i \in 1 .. Len(rest) : rest[i] = todo[i + 1]
  BY RestParts
<1>2. TodoOK(proc[p], devices, entries) /\ AsksOK(proc[p]) /\ DisconnectOK(proc[p])
  BY DEF ProcOK
<1>3. /\ new \in Seq(Calls) /\ DOMAIN new = 1 .. Len(rest) + 1 /\ new[1] = c
      /\ \A i \in 1 .. Len(rest) : new[i + 1] = rest[i]
  BY <1>1, Prepended
<1>. HIDE DEF new
<1>4. r.todo = new
  BY DEF new
<1>5. \A i \in DOMAIN new : i \in Nat /\ i \in DOMAIN todo /\ (i # 1 => new[i] = todo[i])
  <2>. SUFFICES ASSUME NEW i \in DOMAIN new, i # 1 PROVE new[i] = todo[i]
    BY <1>1, <1>3
  <2>1. i - 1 \in 1 .. Len(rest) /\ (i - 1) + 1 = i
    BY <1>1, <1>3
  <2>. QED  BY <1>1, <1>3, <2>1
<1>6. \A i \in DOMAIN new : i # 1 =>
        CallOK(new[i], devices, entries) /\ new[i].name \notin {"create", "unlink", "put"}
  <2>. SUFFICES ASSUME NEW i \in DOMAIN new, i # 1
                PROVE  CallOK(new[i], devices, entries) /\ new[i].name \notin {"create", "unlink", "put"}
    OBVIOUS
  <2>1. i - 1 \in DOMAIN rest /\ new[i] = rest[i - 1]
    <3>1. i - 1 \in 1 .. Len(rest) /\ (i - 1) + 1 = i
      BY <1>1, <1>3
    <3>. QED  BY <1>1, <1>3, <3>1
  <2>. QED  BY <2>1, RestNames
<1>7. TodoOK(r, devices, entries)
  <2>1. \A j \in 1 .. 1 : j = 1
    OBVIOUS
  <2>. QED  BY <1>3, <1>4, <1>6, <2>1 DEF TodoOK
<1>8. AsksOK(r)
  <2>1. ASSUME NEW i \in DOMAIN new, NEW j \in DOMAIN new, new[i].name = new[j].name,
               new[i].name \in {"identity", "store"}
        PROVE  i = j
    BY <1>2, <1>3, <1>5, <2>1 DEF AsksOK
  <2>2. ASSUME NEW i \in DOMAIN new, new[i].name = "identity"
        PROVE  r.device = NoDevice /\ i + 1 \in DOMAIN new /\ new[i + 1].name = "store"
    <3>1. i # 1 /\ i \in DOMAIN todo /\ todo[i].name = "identity"
      BY <1>3, <1>5, <2>2
    <3>2. r.device = NoDevice /\ i + 1 \in DOMAIN todo /\ todo[i + 1].name = "store"
      BY <1>2, <3>1 DEF AsksOK
    <3>3. i + 1 \in DOMAIN new /\ i + 1 # 1
      BY <1>1, <1>3, <2>2, <3>1, <3>2
    <3>. QED  BY <1>5, <3>2, <3>3
  <2>3. ASSUME NEW i \in DOMAIN new, new[i].name = "store", r.device # NoDevice
        PROVE  /\ i = 2 /\ new[1].name \in {"create", "put"} /\ new[1].file = "identity"
               /\ new[1].token = [device_id |-> r.device]
    <3>1. i # 1 /\ i \in DOMAIN todo /\ todo[i].name = "store"
      BY <1>3, <1>5, <2>3
    <3>2. /\ i = 2 /\ todo[1].name \in {"create", "put"} /\ todo[1].file = "identity"
          /\ todo[1].token = [device_id |-> r.device]
      BY <1>2, <2>3, <3>1 DEF AsksOK
    <3>. QED  BY <1>3, <3>2
  <2>. QED  BY <1>4, <2>1, <2>2, <2>3 DEF AsksOK
<1>9. DisconnectOK(r)
  <2>. SUFFICES ASSUME r.cmd = "disconnect", NEW i \in DOMAIN new
                PROVE  new[i].name \in {"exists", "unlink"}
    BY <1>4 DEF DisconnectOK
  <2>1. todo # <<Do("has_local_state")>>
    <3>1. ASSUME todo = <<Do("has_local_state")>> PROVE FALSE
      <4>1. todo[1] = Do("has_local_state")
        BY <3>1
      <4>2. todo[1].name = "has_local_state"
        BY <4>1, DoParts DEF Names
      <4>. QED  BY <4>2
    <3>. QED  BY <3>1
  <2>. QED  BY <1>2, <1>3, <1>5, <2>1 DEF DisconnectOK
<1>. QED  BY <1>7, <1>8, <1>9

\* Numbers only grow.
LEMMA TodoGrows ==
  ASSUME NEW r, NEW d \in Nat, NEW m \in Nat, d <= m, NEW e \in Nat, NEW n \in Nat, e <= n,
         TodoOK(r, d, e)
  PROVE  TodoOK(r, m, n)
<1>1. 1 .. d \subseteq 1 .. m /\ 1 .. e \subseteq 1 .. n
  OBVIOUS
<1>2. /\ [device_id : 1 .. d] \subseteq [device_id : 1 .. m]
      /\ [line : 1 .. e, piece : 0 .. 2] \subseteq [line : 1 .. n, piece : 0 .. 2]
  BY <1>1
<1>3. ASSUME NEW c, CallOK(c, d, e) PROVE CallOK(c, m, n)
  BY <1>2, <1>3 DEF CallOK
<1>. QED  BY <1>3 DEF TodoOK

\* Of a process alone: whatever changes is as it should be.
LEMMA ProcKept ==
  ASSUME ProcOK, NEW p \in Procs, NEW r, proc' = [proc EXCEPT ![p] = r],
         devices \in Nat, devices' \in Nat, devices <= devices',
         entries \in Nat, entries' \in Nat, entries <= entries',
         r \in [cmd : Commands \cup {"idle"}, todo : Seq(Calls),
                open : Files \cup {"none", "gone"}, device : 0 .. devices'],
         TodoOK(r, devices', entries'), AsksOK(r), DisconnectOK(r),
         r.open \in (IF r.todo # <<>> /\ Head(r.todo).name = "put"
                       THEN {Head(r.todo).file, "gone"} ELSE {"none"}),
         r.open \in Files => r.open \in exists',
         r.cmd = "idle" => r.todo = <<>>,
         \A q \in Procs \ {p} : proc[q].open \in Files => proc[q].open \in exists'
  PROVE  ProcOK'
<1>. DEFINE R(n) == [cmd : Commands \cup {"idle"}, todo : Seq(Calls),
                     open : Files \cup {"none", "gone"}, device : 0 .. n]
<1>1. proc' \in [Procs -> R(devices')]
  <2>1. R(devices) \subseteq R(devices')
    <3>1. 0 .. devices \subseteq 0 .. devices'
      OBVIOUS
    <3>. QED  BY <3>1
  <2>2. proc \in [Procs -> R(devices)] /\ r \in R(devices')
    BY DEF ProcOK
  <2>. HIDE DEF R
  <2>. QED  BY <2>1, <2>2
<1>2. ASSUME NEW q \in Procs
      PROVE  /\ TodoOK(proc'[q], devices', entries') /\ AsksOK(proc'[q]) /\ DisconnectOK(proc'[q])
             /\ (proc[q].open \in (IF At(q, "put") THEN {File(q), "gone"} ELSE {"none"}))'
             /\ (proc[q].open \in Files => proc[q].open \in exists)'
             /\ (proc[q].cmd = "idle" => proc[q].todo = <<>>)'
  <2>. PICK s : s = proc'[q]
    OBVIOUS
  <2>1. /\ TodoOK(s, devices', entries') /\ AsksOK(s) /\ DisconnectOK(s)
        /\ s.open \in (IF s.todo # <<>> /\ Head(s.todo).name = "put"
                         THEN {Head(s.todo).file, "gone"} ELSE {"none"})
        /\ s.open \in Files => s.open \in exists'
        /\ s.cmd = "idle" => s.todo = <<>>
    <3>1. CASE q = p
      <4>1. s = r
        BY <3>1 DEF ProcOK
      <4>. QED  BY <4>1
    <3>2. CASE q # p
      <4>1. s = proc[q]
        BY <3>2 DEF ProcOK
      <4>2. /\ TodoOK(s, devices, entries) /\ AsksOK(s) /\ DisconnectOK(s)
            /\ s.open \in (IF s.todo # <<>> /\ Head(s.todo).name = "put"
                             THEN {Head(s.todo).file, "gone"} ELSE {"none"})
            /\ s.cmd = "idle" => s.todo = <<>>
        BY <4>1 DEF ProcOK, At, File
      <4>3. TodoOK(s, devices', entries')
        BY <4>2, TodoGrows
      <4>4. s.open \in Files => s.open \in exists'
        BY <3>2, <4>1
      <4>. QED  BY <4>2, <4>3, <4>4
    <3>. QED  BY <3>1, <3>2
  <2>. QED  BY <2>1 DEF At, File
<1>. QED  BY <1>1, <1>2 DEF ProcOK

\* What is written to the logs by the others is not affected by a process that has
\* nothing to write there.
LEMMA LogsKept ==
  ASSUME IInv, NEW p \in Procs,
         \A q \in Procs \ {p} : proc'[q] = proc[q],
         \A f \in LogFiles : content'[f] = content[f],
         \A i \in DOMAIN proc'[p].todo :
           proc'[p].todo[i].name = "put" => proc'[p].todo[i].file \notin LogFiles,
         proc'[p].open \notin LogFiles,
         clean' = clean \ {p}, intact' = intact, entries' = entries
  PROVE  PiecesOK' /\ IntactOK' /\ CleanOK'
<1>1. PiecesOK'
  <2>1. ASSUME NEW q \in Procs, NEW f \in LogFiles, NEW i, PutsTo(proc'[q].todo, f, i)
        PROVE  proc'[q] = proc[q]
    BY <2>1 DEF PutsTo
  <2>2. PiecesOK
    BY DEF IInv
  <2>. SUFFICES ASSUME NEW f \in LogFiles
                PROVE  /\ \A i, j \in DOMAIN content'[f] : content'[f][i] = content'[f][j] => i = j
                       /\ \A q \in Procs : \A i \in DOMAIN proc'[q].todo : PutsTo(proc'[q].todo, f, i) =>
                            /\ \A j \in DOMAIN content'[f] : content'[f][j] # proc'[q].todo[i].token
                            /\ \A o \in Procs : \A j \in DOMAIN proc'[o].todo :
                                 /\ PutsTo(proc'[o].todo, f, j)
                                 /\ proc'[o].todo[j].token = proc'[q].todo[i].token
                                 => q = o /\ i = j
    BY DEF PiecesOK
  <2>3. \A i, j \in DOMAIN content'[f] : content'[f][i] = content'[f][j] => i = j
    BY <2>2 DEF PiecesOK
  <2>4. ASSUME NEW q \in Procs, NEW i \in DOMAIN proc'[q].todo, PutsTo(proc'[q].todo, f, i)
        PROVE  /\ \A j \in DOMAIN content'[f] : content'[f][j] # proc'[q].todo[i].token
               /\ \A o \in Procs : \A j \in DOMAIN proc'[o].todo :
                    /\ PutsTo(proc'[o].todo, f, j)
                    /\ proc'[o].todo[j].token = proc'[q].todo[i].token
                    => q = o /\ i = j
    <3>1. proc'[q] = proc[q]
      BY <2>1, <2>4
    <3>2. \A j \in DOMAIN content'[f] : content'[f][j] # proc'[q].todo[i].token
      BY <2>2, <2>4, <3>1 DEF PiecesOK
    <3>3. ASSUME NEW o \in Procs, NEW j \in DOMAIN proc'[o].todo, PutsTo(proc'[o].todo, f, j),
                 proc'[o].todo[j].token = proc'[q].todo[i].token
          PROVE  q = o /\ i = j
      <4>1. proc'[o] = proc[o]
        BY <2>1, <3>3
      <4>. QED  BY <2>2, <2>4, <3>1, <3>3, <4>1 DEF PiecesOK
    <3>. QED  BY <3>2, <3>3
  <2>. QED  BY <2>3, <2>4
<1>2. IntactOK'
  <2>1. \A line \in intact : line[1] \in LogFiles
    BY DEF IInv, PastOK
  <2>2. IntactOK
    BY DEF IInv
  <2>. QED  BY <2>1, <2>2 DEF IntactOK
<1>3. CleanOK'
  <2>1. CleanOK
    BY DEF IInv
  <2>. SUFFICES ASSUME NEW q \in clean, q # p
                PROVE  /\ At(q, "put")' /\ File(q)' \in LogFiles
                       /\ proc'[q].open # "gone" =>
                            /\ \A o \in Procs : proc'[o].open = proc'[q].open => o = q
                            /\ \E k \in 1 .. entries : \E n \in 0 .. Len(LineOf(File(q)', k)) :
                                 Midway(proc'[q].todo, content'[File(q)'], File(q)', k, n)
    BY DEF CleanOK
  <2>2. proc'[q] = proc[q] /\ q \in Procs
    BY DEF IInv, PastOK
  <2>3. At(q, "put")' /\ File(q)' = File(q) /\ File(q) \in LogFiles
    BY <2>1, <2>2 DEF CleanOK, At, File
  <2>4. content'[File(q)'] = content[File(q)]
    BY <2>3
  <2>5. ASSUME proc[q].open # "gone"
        PROVE  \A o \in Procs : proc'[o].open = proc'[q].open => o = q
    <3>1. proc[q].open \in LogFiles
      BY <2>1, <2>2, <2>3, <2>5 DEF IInv, ProcOK, CleanOK
    <3>. QED  BY <2>1, <2>2, <2>5, <3>1 DEF CleanOK
  <2>. QED  BY <2>1, <2>2, <2>3, <2>4, <2>5 DEF CleanOK
<1>. QED  BY <1>1, <1>2, <1>3

\* Nothing is written, and who was writing a JSON file goes on or leaves it torn.
LEMMA FilesKept ==
  ASSUME IInv, NEW p \in Procs,
         \A q \in Procs \ {p} : proc'[q] = proc[q], content' = content,
         exists' \in {exists, exists \ SideFiles, exists \cup SideFiles \cup {"store"}},
         proc[p].open \in JsonFiles => proc[p].open \in torn' \/ proc'[p].open = proc[p].open,
         torn \subseteq torn',
         devices' \in Nat, devices <= devices', entries' = entries
  PROVE  FilesOK' /\ WrittenOK'
<1>1. FilesOK'
  <2>1. FilesOK /\ devices \in Nat
    BY DEF IInv, CountsOK
  <2>2. exists' \subseteq Files /\ \A f \in Files \ exists' : content[f] = <<>>
    BY <2>1, FileNames DEF FilesOK
  <2>3. 1 .. devices \subseteq 1 .. devices'
    BY <2>1
  <2>4. [device_id : 1 .. devices] \subseteq [device_id : 1 .. devices']
    BY <2>3
  <2>. QED  BY <2>1, <2>2, <2>4 DEF FilesOK
<1>2. WrittenOK'
  <2>. SUFFICES ASSUME NEW f \in JsonFiles \cap exists'
                PROVE  Len(content[f]) = 1 \/ f \in torn' \/ \E q \in Procs : proc'[q].open = f
    BY DEF WrittenOK
  <2>1. f \in exists
    BY FileNames
  <2>2. Len(content[f]) = 1 \/ f \in torn \/ \E q \in Procs : proc[q].open = f
    BY <2>1 DEF IInv, WrittenOK
  <2>3. CASE \E q \in Procs : proc[q].open = f
    <3>1. PICK q \in Procs : proc[q].open = f
      BY <2>3
    <3>. QED  BY <3>1
  <2>. QED  BY <2>2, <2>3
<1>. QED  BY <1>1, <1>2

LEMMA CountsKept ==
  ASSUME CountsOK, Pending' \subseteq Pending, starts' = starts, devices' = devices,
         clock' = clock, installed' = installed, events' = events \/ Event,
         entries' = entries \/ (Event /\ entries' = entries + 1)
  PROVE  CountsOK'
<1>1. IsFiniteSet(Pending)
  BY Bounded, FS_Subset DEF Pending
<1>2. Cardinality(Pending') <= Cardinality(Pending) /\ Cardinality(Pending) \in Nat
      /\ Cardinality(Pending') \in Nat
  BY <1>1, FS_Subset, FS_CardinalityType
<1>. DEFINE m == Cardinality(Pending)
            n == Cardinality(Pending')
<1>. HIDE DEF m, n
<1>3. n <= m /\ m \in Nat /\ n \in Nat
  BY <1>2 DEF m, n
<1>4. devices \in Nat /\ devices + m <= starts + 1 /\ starts \in 0 .. MaxStarts
  BY DEF CountsOK, m
<1>5. devices' + n <= starts' + 1
  BY <1>3, <1>4, Bounded
<1>6. events' \in 0 .. MaxEvents /\ clock' \in 0 .. events' /\ entries' \in 0 .. events' + 1
  BY Bounded DEF CountsOK, Event
<1>. QED  BY <1>4, <1>5, <1>6 DEF CountsOK, n

LEMMA IdleParts ==
  ASSUME NEW d \in Nat, NEW e \in Nat, NEW n \in Nat
  PROVE  /\ Idle \in [cmd : Commands \cup {"idle"}, todo : Seq(Calls),
                      open : Files \cup {"none", "gone"}, device : 0 .. n]
         /\ Idle.cmd = "idle" /\ Idle.todo = <<>> /\ Idle.open = "none" /\ Idle.device = NoDevice
         /\ DOMAIN Idle.todo = {}
         /\ TodoOK(Idle, d, e) /\ AsksOK(Idle) /\ DisconnectOK(Idle)
<1>1. /\ Idle.cmd = "idle" /\ Idle.todo = <<>> /\ Idle.open = "none" /\ Idle.device = NoDevice
      /\ Idle = [cmd |-> "idle", todo |-> <<>>, open |-> "none", device |-> NoDevice]
  BY DEF Idle, Process
<1>2. DOMAIN Idle.todo = {} /\ <<>> \in Seq(Calls)
  BY <1>1
<1>3. TodoOK(Idle, d, e) /\ AsksOK(Idle) /\ DisconnectOK(Idle)
  BY <1>1, <1>2 DEF TodoOK, AsksOK, DisconnectOK
<1>. QED  BY <1>1, <1>2, <1>3 DEF NoDevice

\* A process ends or is killed.
LEMMA StopInv ==
  ASSUME IInv, NEW p \in Running,
         proc' = [proc EXCEPT ![p] = Idle], content' = content,
         exists' \in {exists, exists \ SideFiles}, holds' = holds \ {p},
         company' = company \ {p}, clean' = clean \ {p},
         torn' = torn \cup ({proc[p].open} \cap JsonFiles),
         intact' = intact, lastDevice' = lastDevice,
         starts' = starts, devices' = devices, entries' = entries, clock' = clock,
         installed' = installed, events' = events \/ Event
  PROVE  IInv'
<1>1. /\ ProcOK /\ FilesOK /\ CountsOK /\ PastOK /\ AloneOK /\ WrittenOK /\ RemovedOK
      /\ DeviceOK /\ PiecesOK /\ IntactOK /\ CleanOK /\ p \in Procs
      /\ devices \in Nat /\ entries \in Nat
  <2>1. CountsOK => devices \in Nat /\ entries \in Nat
    BY Bounded DEF CountsOK
  <2>. QED  BY <2>1 DEF IInv, Running
<1>2. /\ proc'[p] = Idle /\ \A q \in Procs \ {p} : proc'[q] = proc[q]
      /\ \A q \in Procs : proc'[q] = IF q = p THEN Idle ELSE proc[q]
  BY <1>1 DEF ProcOK
<1>3. ASSUME NEW f \in exists, f \notin SideFiles PROVE f \in exists'
  BY <1>3
<1>4. ProcOK'
  <2>1. PICK r : r = Idle
    OBVIOUS
  <2>2. /\ r \in [cmd : Commands \cup {"idle"}, todo : Seq(Calls),
                  open : Files \cup {"none", "gone"}, device : 0 .. devices']
        /\ TodoOK(r, devices', entries') /\ AsksOK(r) /\ DisconnectOK(r)
        /\ r.open = "none" /\ r.todo = <<>>
    BY <1>1, <2>1, IdleParts
  <2>3. ASSUME NEW q \in Procs \ {p}, proc[q].open \in Files PROVE proc[q].open \in exists'
    <3>1. proc[q].open \in exists
      BY <1>1, <2>3 DEF ProcOK
    <3>2. proc[q].open \in JsonFiles \cup LogFiles
      <4>1. At(q, "put") /\ proc[q].open = File(q)
        BY <1>1, <2>3, FileNames DEF ProcOK
      <4>. QED  BY <1>1, <4>1, AtParts DEF CallOK
    <3>. QED  BY <1>3, <3>1, <3>2, FileNames
  <2>4. /\ devices <= devices' /\ entries <= entries' /\ devices' \in Nat /\ entries' \in Nat
        /\ proc' = [proc EXCEPT ![p] = r]
        /\ r.open \in (IF r.todo # <<>> /\ Head(r.todo).name = "put"
                         THEN {Head(r.todo).file, "gone"} ELSE {"none"})
        /\ r.open \in Files => r.open \in exists'
    BY <1>1, <2>1, <2>2, FileNames
  <2>. QED  BY <1>1, <2>2, <2>3, <2>4, ProcKept
<1>5. FilesOK' /\ WrittenOK'
  BY <1>1, <1>2, FilesKept
<1>6. CountsOK'
  <2>1. Pending' \subseteq Pending
    BY <1>2, IdleParts, <1>1 DEF Pending
  <2>. QED  BY <1>1, <2>1, CountsKept
<1>7. PastOK'
  <2>1. ASSUME proc[p].open \in JsonFiles PROVE proc[p].open \in exists
    BY <1>1, <2>1, FileNames DEF ProcOK
  <2>2. torn' \subseteq JsonFiles \cap exists'
    BY <1>1, <1>3, <2>1, FileNames DEF PastOK
  <2>. QED  BY <1>1, <2>2 DEF PastOK
<1>8. Running' = Running \ {p} /\ Running' \cap (Procs \ company') = {}
  <2>1. Running' = Running \ {p}
    BY <1>1, <1>2, IdleParts DEF Running
  <2>. QED  BY <1>1, <2>1 DEF AloneOK
<1>9. \A q \in Procs : ~Alone(q)'
  BY <1>8 DEF Alone
<1>10. AloneOK' /\ RemovedOK'
  <2>1. Running' \subseteq Procs
    BY DEF Running
  <2>. QED  BY <1>8, <1>9, <2>1 DEF AloneOK, RemovedOK
<1>11. DeviceOK'
  <2>1. ASSUME lastDevice # NoDevice
        PROVE  Identity(lastDevice)' /\ \A q \in Procs : ~Writes(q, "identity")'
    <3>1. Identity(lastDevice)'
      BY <1>1, <1>3, <2>1, FileNames DEF DeviceOK, Identity
    <3>2. \A q \in Procs : ~Writes(q, "identity")'
      BY <1>1, <1>2, <2>1, IdleParts DEF DeviceOK, Writes
    <3>. QED  BY <3>1, <3>2
  <2>. QED  BY <1>9, <2>1 DEF DeviceOK
<1>12. PiecesOK' /\ IntactOK' /\ CleanOK'
  <2>1. /\ \A i \in DOMAIN proc'[p].todo :
             proc'[p].todo[i].name = "put" => proc'[p].todo[i].file \notin LogFiles
        /\ proc'[p].open \notin LogFiles
    BY <1>1, <1>2, IdleParts, FileNames
  <2>. QED  BY <1>1, <1>2, <2>1, LogsKept
<1>. QED  BY <1>4, <1>5, <1>6, <1>7, <1>10, <1>11, <1>12 DEF IInv

\* A step in which process p, not in the middle of a write, becomes r and is not to
\* write next; files may only be created.
QuietStep(p, r) ==
  /\ proc' = [proc EXCEPT ![p] = r]
  /\ devices' \in Nat /\ devices <= devices' /\ entries' = entries
  /\ r \in [cmd : Commands \cup {"idle"}, todo : Seq(Calls),
            open : Files \cup {"none", "gone"}, device : 0 .. devices']
  /\ r.cmd = proc[p].cmd /\ r.open = "none"
  /\ TodoOK(r, devices', entries') /\ AsksOK(r) /\ DisconnectOK(r)
  /\ \A i \in DOMAIN r.todo : r.todo[i].name # "put"
  /\ content' = content /\ exists' \in {exists, exists \cup SideFiles \cup {"store"}}
  /\ holds' \subseteq Procs /\ company' = company /\ clean' = clean /\ torn' = torn
  /\ intact' = intact

\* A process goes on that writes to no file before nor after.
LEMMA QuietInv ==
  ASSUME IInv, NEW p \in Running, ~At(p, "put"), NEW r, QuietStep(p, r)
  PROVE  /\ ProcOK' /\ FilesOK' /\ PastOK' /\ AloneOK' /\ WrittenOK'
         /\ PiecesOK' /\ IntactOK' /\ CleanOK'
         /\ proc'[p] = r /\ \A q \in Procs \ {p} : proc'[q] = proc[q]
         /\ \A q \in Running' \ company' : q = p /\ Alone(p)
<1>. USE DEF QuietStep
<1>1. /\ ProcOK /\ FilesOK /\ CountsOK /\ PastOK /\ AloneOK /\ CleanOK /\ p \in Procs
      /\ devices \in Nat /\ entries \in Nat
  <2>1. CountsOK => devices \in Nat /\ entries \in Nat
    BY Bounded DEF CountsOK
  <2>. QED  BY <2>1 DEF IInv, Running
<1>2. /\ proc'[p] = r /\ \A q \in Procs \ {p} : proc'[q] = proc[q]
      /\ \A q \in Procs : proc'[q] = IF q = p THEN r ELSE proc[q]
  BY <1>1 DEF ProcOK
<1>3. proc[p].open = "none" /\ proc[p].cmd # "idle"
  BY <1>1 DEF ProcOK, Running
<1>4. ProcOK'
  <2>1. ~(r.todo # <<>> /\ Head(r.todo).name = "put")
    <3>1. ASSUME r.todo # <<>> PROVE Head(r.todo).name # "put"
      <4>1. \A s \in Seq(Calls) : s # <<>> => Head(s) = s[1] /\ 1 \in DOMAIN s
        OBVIOUS
      <4>2. r.todo \in Seq(Calls)
        OBVIOUS
      <4>. QED  BY <3>1, <4>1, <4>2
    <3>. QED  BY <3>1
  <2>2. r.open \in (IF r.todo # <<>> /\ Head(r.todo).name = "put"
                     THEN {Head(r.todo).file, "gone"} ELSE {"none"})
    BY <2>1
  <2>3. \A q \in Procs \ {p} : proc[q].open \in Files => proc[q].open \in exists'
    BY <1>1 DEF ProcOK
  <2>4. /\ r.open \in Files => r.open \in exists'
        /\ r.cmd = "idle" => r.todo = <<>>
        /\ entries' \in Nat /\ entries <= entries'
    BY <1>1, <1>3, FileNames
  <2>. QED  BY <1>1, <2>2, <2>3, <2>4, ProcKept
<1>5. FilesOK' /\ WrittenOK'
  BY <1>1, <1>2, <1>3, FilesKept, FileNames
<1>6. PastOK'
  BY <1>1 DEF PastOK
<1>7. Running' = Running
  BY <1>1, <1>2, <1>3 DEF Running
<1>8. AloneOK' /\ \A q \in Running' \ company' : q = p /\ Alone(p)
  BY <1>1, <1>7 DEF AloneOK, Alone
<1>9. PiecesOK' /\ IntactOK' /\ CleanOK'
  <2>1. p \notin clean
    BY <1>1 DEF CleanOK
  <2>2. clean' = clean \ {p}
    BY <2>1
  <2>. QED  BY <1>1, <1>2, <2>2, LogsKept, FileNames
<1>. QED  BY <1>2, <1>4, <1>5, <1>6, <1>8, <1>9

\* Of these the ones that only have other calls to make.
LEMMA GoesInv ==
  ASSUME IInv, NEW p \in Running, ~At(p, "put"), NEW todo \in Seq(Calls), Goes(p, todo),
         \A r : r.todo = todo /\ r.device = proc[p].device /\ r.cmd = proc[p].cmd =>
           TodoOK(r, devices, entries) /\ AsksOK(r) /\ DisconnectOK(r),
         \A i \in DOMAIN todo :
           /\ todo[i].name # "put"
           /\ todo[i].name = "identity" => p \in Pending
           /\ todo[i].name = "create" => todo[i].file # "identity"
           /\ i = 1 /\ todo[i].name = "store" => proc[p].device = NoDevice,
         Alone(p) /\ proc[p].cmd = "disconnect" =>
           \A f \in exists : \E i \in DOMAIN todo : todo[i].file = f,
         UNCHANGED <<fileVars, holds, clock, installed, starts, entries, devices, pastVars>>,
         events' = events \/ Event
  PROVE  IInv'
<1>. PICK r : r = [proc[p] EXCEPT !.todo = todo]
  OBVIOUS
<1>1. /\ ProcOK /\ CountsOK /\ PastOK /\ DeviceOK /\ p \in Procs /\ devices \in Nat
      /\ RemovedOK
  <2>1. CountsOK => devices \in Nat
    BY DEF CountsOK
  <2>. QED  BY <2>1 DEF IInv, Running
<1>2. /\ r \in [cmd : Commands \cup {"idle"}, todo : Seq(Calls),
                open : Files \cup {"none", "gone"}, device : 0 .. devices]
      /\ r.cmd = proc[p].cmd /\ r.todo = todo /\ r.open = "none" /\ r.device = proc[p].device
      /\ proc' = [proc EXCEPT ![p] = r]
  BY <1>1 DEF ProcOK, Goes
<1>3. TodoOK(r, devices, entries) /\ AsksOK(r) /\ DisconnectOK(r)
  BY <1>2
<1>4. /\ ProcOK' /\ FilesOK' /\ PastOK' /\ AloneOK' /\ WrittenOK'
      /\ PiecesOK' /\ IntactOK' /\ CleanOK'
      /\ proc'[p] = r /\ \A q \in Procs \ {p} : proc'[q] = proc[q]
      /\ \A q \in Running' \ company' : q = p /\ Alone(p)
  <2>. PICK s : s = r
    OBVIOUS
  <2>1. /\ content' = content /\ exists' = exists /\ holds' \subseteq Procs
        /\ company' = company /\ clean' = clean /\ torn' = torn /\ intact' = intact
        /\ devices' = devices /\ devices <= devices' /\ entries' = entries
    BY <1>1 DEF fileVars, pastVars, PastOK
  <2>2. /\ devices' \in Nat
        /\ TodoOK(s, devices', entries') /\ \A i \in DOMAIN s.todo : s.todo[i].name # "put"
        /\ exists' \in {exists, exists \cup SideFiles \cup {"store"}}
        /\ s \in [cmd : Commands \cup {"idle"}, todo : Seq(Calls),
                open : Files \cup {"none", "gone"}, device : 0 .. devices']
        /\ s.cmd = proc[p].cmd /\ s.open = "none" /\ AsksOK(s) /\ DisconnectOK(s)
        /\ proc' = [proc EXCEPT ![p] = s]
    BY <1>1, <1>2, <1>3, <2>1
  <2>. QuietStep(p, s)
    BY <2>1, <2>2 DEF QuietStep
  <2>3. /\ ProcOK' /\ FilesOK' /\ PastOK' /\ AloneOK' /\ WrittenOK'
        /\ PiecesOK' /\ IntactOK' /\ CleanOK'
        /\ proc'[p] = s /\ \A q \in Procs \ {p} : proc'[q] = proc[q]
        /\ \A q \in Running' \ company' : q = p /\ Alone(p)
    BY QuietInv
  <2>. QED  BY <2>3
<1>5. CountsOK'
  <2>1. Pending' \subseteq Pending
    BY <1>2, <1>4 DEF Pending
  <2>. QED  BY <1>1, <2>1, CountsKept
<1>6. RemovedOK'
  <2>1. ASSUME Alone(p), proc'[p].cmd = "disconnect", NEW f \in exists'
        PROVE  \E i \in DOMAIN proc'[p].todo : proc'[p].todo[i].file = f
    BY <1>2, <1>4, <2>1 DEF fileVars
  <2>. QED  BY <1>4, <2>1 DEF RemovedOK, Alone
<1>7. DeviceOK'
  <2>1. content' = content /\ exists' = exists /\ lastDevice' = lastDevice
    BY DEF fileVars, pastVars
  <2>2. At(p, "store")' => proc[p].device = NoDevice
    <3>1. \A s \in Seq(Calls) : s # <<>> => Head(s) = s[1] /\ 1 \in DOMAIN s
      OBVIOUS
    <3>. QED  BY <1>2, <1>4, <3>1 DEF At
  <2>3. ASSUME lastDevice # NoDevice
        PROVE  Identity(lastDevice)' /\ \A q \in Procs : ~Writes(q, "identity")'
    <3>1. Identity(lastDevice) /\ \A q \in Procs : ~Writes(q, "identity")
      BY <1>1, <2>3 DEF DeviceOK
    <3>2. ~Writes(p, "identity")'
      BY <1>2, <1>4 DEF Writes
    <3>3. ASSUME NEW q \in Procs \ {p} PROVE ~Writes(q, "identity")'
      BY <1>4, <3>1 DEF Writes
    <3>. QED  BY <2>1, <3>1, <3>2, <3>3 DEF Identity
  <2>. QED  BY <1>2, <1>4, <2>1, <2>2, <2>3, FileNames DEF DeviceOK, Alone
<1>. QED  BY <1>4, <1>5, <1>6, <1>7 DEF IInv

\* What disconnect has still to look for.
LEMMA StillRemoved ==
  ASSUME IInv, NEW p \in Procs, Alone(p), proc[p].cmd = "disconnect",
         At(p, "exists") \/ At(p, "unlink"), NEW f \in exists
  PROVE  f = File(p) \/ \E i \in DOMAIN Rest(p) : Rest(p)[i].file = f
<1>1. ProcOK /\ RemovedOK
  BY DEF IInv
<1>2. /\ proc[p].todo # <<>> /\ proc[p].todo[1].name \in {"exists", "unlink"}
      /\ File(p) = proc[p].todo[1].file
  BY <1>1, AtParts
<1>3. proc[p].todo # <<Do("has_local_state")>>
  <2>1. ASSUME proc[p].todo = <<Do("has_local_state")>> PROVE FALSE
    <3>1. proc[p].todo[1] = Do("has_local_state")
      BY <2>1
    <3>. QED  BY <1>2, <3>1, DoParts DEF Names
  <2>. QED  BY <2>1
<1>4. PICK i \in DOMAIN proc[p].todo : proc[p].todo[i].file = f
  BY <1>1, <1>3 DEF RemovedOK
<1>5. /\ DOMAIN proc[p].todo = 1 .. Len(Rest(p)) + 1 /\ DOMAIN Rest(p) = 1 .. Len(Rest(p))
      /\ \A j \in 1 .. Len(Rest(p)) : Rest(p)[j] = proc[p].todo[j + 1]
      /\ Len(Rest(p)) \in Nat
  BY <1>1, <1>2, RestParts
<1>6. CASE i # 1
  <2>1. i - 1 \in 1 .. Len(Rest(p)) /\ (i - 1) + 1 = i
    BY <1>4, <1>5, <1>6
  <2>. QED  BY <1>4, <1>5, <2>1
<1>. QED  BY <1>2, <1>4, <1>6

\* It goes on with what is left,
LEMMA RestGoes ==
  ASSUME IInv, NEW p \in Procs, NEW name \in Names \ {"put", "create"}, At(p, name),
         Goes(p, Rest(p)),
         proc[p].cmd = "disconnect" => name = "exists" /\ File(p) \notin exists,
         UNCHANGED <<fileVars, holds, clock, installed, starts, entries, devices, pastVars>>,
         events' = events \/ Event
  PROVE  IInv'
<1>1. ProcOK
  BY DEF IInv
<1>2. proc[p].todo # <<>> /\ proc[p].todo[1].name = name /\ p \in Running /\ ~At(p, "put")
  BY <1>1, AtParts DEF At
<1>3. Rest(p) \in Seq(Calls) /\ \A i \in DOMAIN Rest(p) : i + 1 \in DOMAIN proc[p].todo
        /\ Rest(p)[i] = proc[p].todo[i + 1] /\ i \in Nat
  BY <1>1, <1>2, RestParts
<1>4. ASSUME NEW i \in DOMAIN Rest(p)
      PROVE  /\ Rest(p)[i].name # "put"
             /\ Rest(p)[i].name = "identity" => p \in Pending
             /\ Rest(p)[i].name = "create" => Rest(p)[i].file # "identity"
             /\ i = 1 /\ Rest(p)[i].name = "store" => proc[p].device = NoDevice
  <2>1. Rest(p)[i].name \notin {"put", "create"}
    BY <1>1, <1>2, RestNames
  <2>2. Rest(p)[i].name = "identity" => p \in Pending
    BY <1>3 DEF Pending
  <2>3. i = 1 /\ Rest(p)[i].name = "store" => proc[p].device = NoDevice
    <3>1. AsksOK(proc[p])
      BY <1>1 DEF ProcOK
    <3>. QED  BY <1>2, <1>3, <3>1 DEF AsksOK
  <2>. QED  BY <2>1, <2>2, <2>3
<1>5. \A r : r.todo = Rest(p) /\ r.device = proc[p].device /\ r.cmd = proc[p].cmd =>
        TodoOK(r, devices, entries) /\ AsksOK(r) /\ DisconnectOK(r)
  BY <1>1, <1>2, RestTodo
<1>6. Alone(p) /\ proc[p].cmd = "disconnect" =>
        \A f \in exists : \E i \in DOMAIN Rest(p) : Rest(p)[i].file = f
  BY StillRemoved
<1>. QED  BY <1>2, <1>3, <1>4, <1>5, <1>6, GoesInv

\* with a call more before it,
LEMMA MoreGoes ==
  ASSUME IInv, NEW p \in Procs, NEW name \in Names \ {"put", "create"}, At(p, name),
         NEW c \in Calls, CallOK(c, devices, entries),
         c.name \notin {"put", "identity", "store"}, c.name = "create" => c.file # "identity",
         Goes(p, <<c>> \o Rest(p)),
         proc[p].cmd = "disconnect" => name = "exists" /\ c.name = "unlink" /\ c.file = File(p),
         UNCHANGED <<fileVars, holds, clock, installed, starts, entries, devices, pastVars>>,
         events' = events \/ Event
  PROVE  IInv'
<1>1. ProcOK
  BY DEF IInv
<1>2. proc[p].todo # <<>> /\ proc[p].todo[1].name = name /\ p \in Running /\ ~At(p, "put")
  BY <1>1, AtParts DEF At
<1>3. Rest(p) \in Seq(Calls) /\ Len(Rest(p)) \in Nat
      /\ \A i \in 1 .. Len(Rest(p)) : i \in DOMAIN Rest(p) /\ i + 1 \in DOMAIN proc[p].todo
           /\ Rest(p)[i] = proc[p].todo[i + 1]
  BY <1>1, <1>2, RestParts
<1>. PICK todo : todo = <<c>> \o Rest(p)
  OBVIOUS
<1>4. /\ todo \in Seq(Calls) /\ DOMAIN todo = 1 .. Len(Rest(p)) + 1 /\ todo[1] = c
      /\ \A i \in 1 .. Len(Rest(p)) : todo[i + 1] = Rest(p)[i]
  BY <1>3, Prepended
<1>5. ASSUME NEW i \in DOMAIN todo
      PROVE  /\ todo[i].name # "put"
             /\ todo[i].name = "identity" => p \in Pending
             /\ todo[i].name = "create" => todo[i].file # "identity"
             /\ i = 1 /\ todo[i].name = "store" => proc[p].device = NoDevice
  <2>1. CASE i = 1
    BY <1>4, <2>1
  <2>2. CASE i # 1
    <3>1. i - 1 \in 1 .. Len(Rest(p)) /\ (i - 1) + 1 = i
      BY <1>3, <1>4, <2>2
    <3>2. todo[i] = Rest(p)[i - 1] /\ i - 1 \in DOMAIN Rest(p) /\ todo[i] = proc[p].todo[i]
          /\ i \in DOMAIN proc[p].todo
      BY <1>3, <1>4, <3>1
    <3>3. todo[i].name \notin {"put", "create"}
      BY <1>1, <1>2, <3>2, RestNames
    <3>4. todo[i].name = "identity" => p \in Pending
      BY <3>2 DEF Pending
    <3>. QED  BY <2>2, <3>3, <3>4
  <2>. QED  BY <2>1, <2>2
<1>6. \A r : r.todo = todo /\ r.device = proc[p].device /\ r.cmd = proc[p].cmd =>
        TodoOK(r, devices, entries) /\ AsksOK(r) /\ DisconnectOK(r)
  BY <1>1, <1>2, PrependTodo
<1>7. Goes(p, todo)
  OBVIOUS
<1>8. ASSUME Alone(p), proc[p].cmd = "disconnect", NEW f \in exists
      PROVE  \E i \in DOMAIN todo : todo[i].file = f
  <2>1. f = File(p) \/ \E i \in DOMAIN Rest(p) : Rest(p)[i].file = f
    BY <1>8, StillRemoved
  <2>2. CASE f = File(p)
    <3>1. 1 \in DOMAIN todo /\ todo[1].file = f
      <4>1. 1 \in 1 .. Len(Rest(p)) + 1
        BY <1>3
      <4>2. proc[p].cmd = "disconnect" => c.file = File(p)
        OBVIOUS
      <4>. QED  BY <1>4, <1>8, <2>2, <4>1, <4>2
    <3>. QED  BY <3>1
  <2>3. CASE \E i \in DOMAIN Rest(p) : Rest(p)[i].file = f
    <3>1. PICK i \in DOMAIN Rest(p) : Rest(p)[i].file = f
      BY <2>3
    <3>2. i \in 1 .. Len(Rest(p))
      BY <1>1, <1>2, RestParts
    <3>3. i + 1 \in DOMAIN todo /\ todo[i + 1].file = f
      BY <1>3, <1>4, <3>1, <3>2
    <3>. QED  BY <3>3
  <2>. QED  BY <2>1, <2>2, <2>3
<1>. QED  BY <1>2, <1>4, <1>5, <1>6, <1>7, <1>8, GoesInv

\* or with something else.
LEMMA PlainGoes ==
  ASSUME IInv, NEW p \in Procs, NEW name \in Names \ {"put"}, At(p, name),
         NEW todo \in Seq(Calls), Goes(p, todo),
         \A i \in DOMAIN todo : /\ todo[i].name \in {"append", "exists", "chat"}
                                /\ CallOK(todo[i], devices, entries),
         proc[p].cmd = "disconnect" =>
           /\ \A i \in DOMAIN todo : todo[i].name = "exists"
           /\ \A f \in exists : \E i \in DOMAIN todo : todo[i].file = f,
         UNCHANGED <<fileVars, holds, boundVars, pastVars>>
  PROVE  IInv'
<1>1. p \in Running /\ ~At(p, "put")
  BY AtParts DEF IInv, At
<1>2. \A r : r.todo = todo /\ r.device = proc[p].device /\ r.cmd = proc[p].cmd =>
        TodoOK(r, devices, entries) /\ AsksOK(r) /\ DisconnectOK(r)
  <2>. SUFFICES ASSUME NEW r, r.todo = todo, r.cmd = proc[p].cmd
                PROVE  TodoOK(r, devices, entries) /\ AsksOK(r) /\ DisconnectOK(r)
    OBVIOUS
  <2>. QED  BY DEF TodoOK, AsksOK, DisconnectOK
<1>3. /\ UNCHANGED <<fileVars, holds, clock, installed, starts, entries, devices, pastVars>>
      /\ events' = events
  BY DEF boundVars
<1>4. \A i \in DOMAIN todo :
        /\ todo[i].name # "put"
        /\ todo[i].name = "identity" => p \in Pending
        /\ todo[i].name = "create" => todo[i].file # "identity"
        /\ i = 1 /\ todo[i].name = "store" => proc[p].device = NoDevice
  OBVIOUS
<1>. QED  BY <1>1, <1>2, <1>3, <1>4, GoesInv

-----------------------------------------------------------------------------
(* The steps that change no file *)

LEMMA EndsInv ==
  ASSUME IInv, NEW p \in Running, ~At(p, "put"), Ends(p)
  PROVE  IInv'
<1>1. /\ proc' = [proc EXCEPT ![p] = Idle] /\ content' = content
      /\ exists' \in {exists, exists \ SideFiles} /\ holds' = holds \ {p}
      /\ company' = company \ {p} /\ intact' = intact /\ lastDevice' = lastDevice
      /\ starts' = starts /\ devices' = devices /\ entries' = entries /\ clock' = clock
      /\ installed' = installed /\ events' = events
      /\ clean' = clean /\ torn' = torn
  BY DEF Ends, boundVars
<1>2. clean' = clean \ {p} /\ torn' = torn \cup ({proc[p].open} \cap JsonFiles)
  <2>1. p \notin clean
    BY DEF IInv, CleanOK
  <2>2. proc[p].open = "none"
    BY DEF IInv, ProcOK, Running
  <2>. QED  BY <1>1, <2>1, <2>2, FileNames
<1>. QED  BY <1>1, <1>2, StopInv

LEMMA KillInv ==
  ASSUME IInv, NEW p \in Procs, Kill(p)
  PROVE  IInv'
<1>1. /\ p \in Running /\ proc' = [proc EXCEPT ![p] = Idle] /\ content' = content
      /\ exists' \in {exists, exists \ SideFiles} /\ holds' = holds \ {p}
      /\ company' = company \ {p} /\ clean' = clean \ {p}
      /\ torn' = torn \cup ({proc[p].open} \cap JsonFiles)
      /\ intact' = intact /\ lastDevice' = lastDevice
      /\ starts' = starts /\ devices' = devices /\ entries' = entries /\ clock' = clock
      /\ installed' = installed /\ (events' = events \/ Event)
  BY DEF Kill, fileVars
<1>. QED  BY <1>1, StopInv

LEMMA FinishInv ==
  ASSUME IInv, NEW p \in Procs, Finish(p)
  PROVE  IInv'
<1>1. p \in Running /\ ~At(p, "put") /\ Ends(p)
  BY DEF Finish, At
<1>. QED  BY <1>1, EndsInv

\* Who looks at one call is not at another, nor disconnecting.
LEMMA AtOnly ==
  ASSUME IInv, NEW p \in Procs, NEW name \in Names, At(p, name)
  PROVE  /\ p \in Running /\ proc[p].todo # <<>> /\ proc[p].todo[1].name = name
         /\ CallOK(proc[p].todo[1], devices, entries) /\ proc[p].todo[1] \in Calls
         /\ name # "put" => ~At(p, "put")
         /\ name \notin {"has_local_state", "exists", "unlink"} => proc[p].cmd # "disconnect"
<1>1. ProcOK
  BY DEF IInv
<1>2. /\ p \in Running /\ proc[p].todo # <<>> /\ proc[p].todo[1].name = name
      /\ CallOK(proc[p].todo[1], devices, entries) /\ proc[p].todo[1] \in Calls
      /\ 1 \in DOMAIN proc[p].todo
  BY <1>1, AtParts, RestParts
<1>3. name # "put" => ~At(p, "put")
  BY DEF At
<1>4. ASSUME proc[p].cmd = "disconnect" PROVE name \in {"has_local_state", "exists", "unlink"}
  <2>1. CASE proc[p].todo = <<Do("has_local_state")>>
    <3>1. proc[p].todo[1] = Do("has_local_state")
      BY <2>1
    <3>. QED  BY <1>2, <3>1, DoParts DEF Names
  <2>2. CASE proc[p].todo # <<Do("has_local_state")>>
    BY <1>1, <1>2, <1>4, <2>2 DEF ProcOK, DisconnectOK
  <2>. QED  BY <2>1, <2>2
<1>. QED  BY <1>2, <1>3, <1>4

LEMMA LoadConfigInv ==
  ASSUME IInv, NEW p \in Procs, LoadConfig(p)
  PROVE  IInv'
<1>1. "load_config" \in Names \ {"put", "create"} /\ "pair" \in Names /\ At(p, "load_config")
  BY DEF Names, LoadConfig
<1>2. p \in Running /\ ~At(p, "put") /\ proc[p].cmd # "disconnect"
  BY <1>1, AtOnly
<1>3. ASSUME Goes(p, Rest(p)), UNCHANGED <<fileVars, holds, boundVars, pastVars>>
      PROVE  IInv'
  <2>1. /\ UNCHANGED <<fileVars, holds, clock, installed, starts, entries, devices, pastVars>>
        /\ events' = events
    BY <1>3 DEF boundVars
  <2>. QED  BY <1>1, <1>2, <1>3, <2>1, RestGoes
<1>4. ASSUME Goes(p, <<Do("pair")>> \o Rest(p)), UNCHANGED <<fileVars, holds, boundVars, pastVars>>
      PROVE  IInv'
  <2>1. /\ UNCHANGED <<fileVars, holds, clock, installed, starts, entries, devices, pastVars>>
        /\ events' = events
    BY <1>4 DEF boundVars
  <2>. PICK c : c = Do("pair")
    OBVIOUS
  <2>2. /\ c \in Calls /\ c.name = "pair" /\ c.file = "none" /\ CallOK(c, devices, entries)
        /\ Goes(p, <<c>> \o Rest(p))
    BY <1>1, <1>4, DoParts DEF CallOK
  <2>. QED  BY <1>1, <1>2, <2>1, <2>2, MoreGoes
<1>5. ASSUME Ends(p) PROVE IInv'
  BY <1>2, <1>5, EndsInv
<1>. QED  BY <1>3, <1>4, <1>5 DEF LoadConfig

LEMMA PairInv ==
  ASSUME IInv, NEW p \in Procs, Pair(p)
  PROVE  IInv'
<1>1. "pair" \in Names \ {"put", "create"} /\ "create" \in Names /\ At(p, "pair")
  BY DEF Names, Pair
<1>2. p \in Running /\ ~At(p, "put") /\ proc[p].cmd # "disconnect"
  BY <1>1, AtOnly
<1>3. ASSUME Goes(p, <<Create("config", [group_key |-> "key"])>> \o Rest(p)),
             UNCHANGED <<fileVars, holds, boundVars, pastVars>>
      PROVE  IInv'
  <2>1. /\ UNCHANGED <<fileVars, holds, clock, installed, starts, entries, devices, pastVars>>
        /\ events' = events
    BY <1>3 DEF boundVars
  <2>. PICK c : c = Create("config", [group_key |-> "key"])
    OBVIOUS
  <2>2. c \in Calls /\ c.name = "create" /\ c.file = "config"
    <3>1. [group_key |-> "key"] \in Tokens
      BY DEF Tokens
    <3>. QED  BY <1>1, <3>1, CallParts, FileNames DEF Create
  <2>3. CallOK(c, devices, entries) /\ Goes(p, <<c>> \o Rest(p))
    BY <1>3, <2>2, FileNames DEF CallOK
  <2>. QED  BY <1>1, <1>2, <2>1, <2>2, <2>3, MoreGoes
<1>4. ASSUME Ends(p) PROVE IInv'
  BY <1>2, <1>4, EndsInv
<1>. QED  BY <1>3, <1>4 DEF Pair

LEMMA ReplyInv ==
  ASSUME IInv, NEW p \in Procs, Reply(p)
  PROVE  IInv'
<1>1. "reply" \in Names \ {"put", "create"} /\ "append" \in Names /\ At(p, "reply")
  BY DEF Names, Reply
<1>2. p \in Running /\ ~At(p, "put") /\ proc[p].cmd # "disconnect"
  BY <1>1, AtOnly
<1>3. ASSUME Goes(p, <<AppendTo("history")>> \o Rest(p)),
             UNCHANGED <<fileVars, holds, boundVars, pastVars>>
      PROVE  IInv'
  <2>1. /\ UNCHANGED <<fileVars, holds, clock, installed, starts, entries, devices, pastVars>>
        /\ events' = events
    BY <1>3 DEF boundVars
  <2>. PICK c : c = AppendTo("history")
    OBVIOUS
  <2>2. c \in Calls /\ c.name = "append" /\ c.file = "history"
    <3>1. NoToken \in Tokens
      BY DEF Tokens
    <3>. QED  BY <1>1, <3>1, CallParts, FileNames DEF AppendTo
  <2>3. CallOK(c, devices, entries) /\ Goes(p, <<c>> \o Rest(p))
    BY <1>3, <2>2, FileNames DEF CallOK
  <2>. QED  BY <1>1, <1>2, <2>1, <2>2, <2>3, MoreGoes
<1>4. ASSUME Ends(p) PROVE IInv'
  BY <1>2, <1>4, EndsInv
<1>. QED  BY <1>3, <1>4 DEF Reply

LEMMA ConnectInv ==
  ASSUME IInv, NEW p \in Procs, NEW policy \in Policies, Connect(p, policy)
  PROVE  IInv'
<1>. DEFINE verdict == EvaluateVersionPolicy(Releases[installed], policy)
            shows == verdict = "SoftNag" /\ ShouldShowSoftNag(policy.recommended)
            nag == [recommended |-> policy.recommended, shown_at |-> clock]
<1>1. /\ At(p, "connect")
      /\ Goes(p, IF verdict = "HardBlock" THEN <<>>
                 ELSE IF shows THEN <<Create("nag", nag)>> \o Rest(p)
                 ELSE Rest(p))
      /\ IF shows THEN Event ELSE UNCHANGED events
      /\ UNCHANGED <<fileVars, holds, clock, installed, starts, entries, devices, pastVars>>
  BY DEF Connect
<1>2. "connect" \in Names \ {"put", "create"} /\ "create" \in Names
  BY DEF Names
<1>3. p \in Running /\ proc[p].cmd # "disconnect"
  BY <1>1, <1>2, AtOnly
<1>4. events' = events \/ Event
  BY <1>1
<1>5. CASE verdict = "HardBlock"
  <2>1. Goes(p, <<>>) /\ UNCHANGED <<fileVars, holds, boundVars, pastVars>>
    BY <1>1, <1>5 DEF boundVars
  <2>. PICK todo : todo = <<>>
    OBVIOUS
  <2>2. todo \in Seq(Calls) /\ DOMAIN todo = {} /\ Goes(p, todo)
    BY <2>1
  <2>3. \A i \in DOMAIN todo : /\ todo[i].name \in {"append", "exists", "chat"}
                               /\ CallOK(todo[i], devices, entries)
    BY <2>2
  <2>. QED  BY <1>1, <1>2, <1>3, <2>1, <2>2, <2>3, PlainGoes
<1>6. CASE verdict # "HardBlock" /\ shows
  <2>. PICK c : c = Create("nag", nag)
    OBVIOUS
  <2>1. c \in Calls /\ c.name = "create" /\ c.file = "nag"
    <3>1. clock \in Nat
      BY Bounded DEF IInv, CountsOK
    <3>2. nag \in Tokens
      BY <3>1 DEF Tokens
    <3>. QED  BY <1>2, <3>2, CallParts, FileNames DEF Create
  <2>2. CallOK(c, devices, entries) /\ Goes(p, <<c>> \o Rest(p))
    BY <1>1, <1>6, <2>1, FileNames DEF CallOK
  <2>. QED  BY <1>1, <1>2, <1>3, <1>4, <2>1, <2>2, MoreGoes
<1>7. CASE verdict # "HardBlock" /\ ~shows
  <2>1. Goes(p, Rest(p))
    BY <1>1, <1>7
  <2>. QED  BY <1>1, <1>2, <1>3, <1>4, <2>1, RestGoes
<1>. QED  BY <1>5, <1>6, <1>7

LEMMA RemoveAllParts ==
  /\ RemoveAll \in Seq(Calls)
  /\ \A i \in DOMAIN RemoveAll : RemoveAll[i].name = "exists" /\ RemoveAll[i].file \in Files
  /\ \A f \in Files : \E i \in DOMAIN RemoveAll : RemoveAll[i].file = f
<1>. DEFINE files == <<"config", "history", "input_history", "identity", "nag",
                       "store", "-wal", "-shm">>
<1>1. "exists" \in Names /\ NoToken \in Tokens
  BY DEF Names, Tokens
<1>2. \A i \in 1 .. 8 : files[i] \in Files
  BY DEF Files, JsonFiles, LogFiles, SideFiles
<1>3. \A f \in Files : \E i \in 1 .. 8 : files[i] = f
  BY DEF Files, JsonFiles, LogFiles, SideFiles
<1>. HIDE DEF files
<1>4. /\ DOMAIN RemoveAll = 1 .. 8
      /\ \A i \in 1 .. 8 : RemoveAll[i] = Call("exists", files[i], NoToken)
  BY DEF RemoveAll, files
<1>5. \A i \in 1 .. 8 : RemoveAll[i] \in Calls /\ RemoveAll[i].name = "exists"
                        /\ RemoveAll[i].file = files[i]
  BY <1>1, <1>2, <1>4, CallParts
<1>6. RemoveAll \in [1 .. 8 -> Calls]
  BY <1>4, <1>5 DEF RemoveAll
<1>7. RemoveAll \in Seq(Calls)
  <2>1. \A n \in Nat : \A s \in [1 .. n -> Calls] : s \in Seq(Calls)
    OBVIOUS
  <2>. QED  BY <1>6, <2>1
<1>. QED  BY <1>2, <1>3, <1>4, <1>5, <1>7

LEMMA ChatInv ==
  ASSUME IInv, NEW p \in Procs, Chat(p)
  PROVE  IInv'
<1>. DEFINE Plain(todo) ==
       /\ todo \in Seq(Calls)
       /\ \A i \in DOMAIN todo : /\ todo[i].name \in {"append", "exists", "chat"}
                                 /\ CallOK(todo[i], devices, entries)
<1>1. "chat" \in Names \ {"put"} /\ At(p, "chat") /\ proc[p].cmd # "disconnect"
  BY AtOnly DEF Names, Chat
<1>2. PICK todo \in {<<AppendTo("history"), AppendTo("input_history"), Do("chat")>>,
                     <<AppendTo("history"), Do("chat")>>,
                     <<Call("exists", "history", NoToken), Do("chat")>>,
                     RemoveAll,
                     <<>>} : Goes(p, todo) /\ UNCHANGED <<fileVars, holds, boundVars, pastVars>>
  BY DEF Chat
<1>3. {"append", "exists", "chat"} \subseteq Names /\ NoToken \in Tokens
  BY DEF Names, Tokens
<1>4. /\ \A f \in LogFiles : /\ AppendTo(f) \in Calls /\ AppendTo(f).name = "append"
                             /\ CallOK(AppendTo(f), devices, entries)
      /\ \A f \in Files : /\ Call("exists", f, NoToken) \in Calls
                          /\ Call("exists", f, NoToken).name = "exists"
                          /\ CallOK(Call("exists", f, NoToken), devices, entries)
      /\ Do("chat") \in Calls /\ Do("chat").name = "chat" /\ CallOK(Do("chat"), devices, entries)
  <2>1. ASSUME NEW f \in LogFiles
        PROVE  /\ AppendTo(f) \in Calls /\ AppendTo(f).name = "append"
               /\ CallOK(AppendTo(f), devices, entries)
    <3>1. AppendTo(f) \in Calls /\ AppendTo(f).name = "append" /\ AppendTo(f).file = f
      BY <1>3, CallParts, FileNames DEF AppendTo
    <3>. QED  BY <3>1 DEF CallOK
  <2>2. ASSUME NEW f \in Files
        PROVE  /\ Call("exists", f, NoToken) \in Calls
               /\ Call("exists", f, NoToken).name = "exists"
               /\ CallOK(Call("exists", f, NoToken), devices, entries)
    <3>1. /\ Call("exists", f, NoToken) \in Calls /\ Call("exists", f, NoToken).name = "exists"
          /\ Call("exists", f, NoToken).file = f
      BY <1>3, CallParts
    <3>. QED  BY <3>1 DEF CallOK
  <2>3. Do("chat") \in Calls /\ Do("chat").name = "chat" /\ CallOK(Do("chat"), devices, entries)
    BY <1>3, DoParts DEF CallOK
  <2>. QED  BY <2>1, <2>2, <2>3
<1>5. Plain(RemoveAll)
  BY RemoveAllParts DEF CallOK
<1>6. ASSUME NEW a \in Calls, NEW b \in Calls, NEW c \in Calls,
             \A d \in {a, b, c} : /\ d.name \in {"append", "exists", "chat"}
                                  /\ CallOK(d, devices, entries)
      PROVE  Plain(<<a, b, c>>) /\ Plain(<<a, b>>) /\ Plain(<<>>)
  <2>1. /\ <<a, b, c>> \in Seq(Calls) /\ <<a, b>> \in Seq(Calls) /\ <<>> \in Seq(Calls)
        /\ \A i \in DOMAIN <<a, b, c>> : <<a, b, c>>[i] \in {a, b, c}
        /\ \A i \in DOMAIN <<a, b>> : <<a, b>>[i] \in {a, b, c}
        /\ DOMAIN <<>> = {}
    OBVIOUS
  <2>. QED  BY <1>6, <2>1
<1>7. Plain(todo)
  <2>. HIDE DEF Plain
  <2>. PICK a, b, c, d : /\ a = AppendTo("history") /\ b = AppendTo("input_history")
                         /\ c = Do("chat") /\ d = Call("exists", "history", NoToken)
    OBVIOUS
  <2>. DEFINE Fits(x) == /\ x \in Calls /\ x.name \in {"append", "exists", "chat"}
                         /\ CallOK(x, devices, entries)
  <2>5. Fits(a) /\ Fits(b) /\ Fits(c) /\ Fits(d)
    BY <1>4, FileNames
  <2>6. \A x, y, z : Fits(x) /\ Fits(y) /\ Fits(z) =>
          Plain(<<x, y, z>>) /\ Plain(<<x, y>>) /\ Plain(<<>>)
    BY <1>6
  <2>. HIDE DEF Fits
  <2>1. Plain(<<a, b, c>>)
    BY <2>5, <2>6
  <2>2. Plain(<<a, c>>)
    BY <2>5, <2>6
  <2>3. Plain(<<d, c>>)
    BY <2>5, <2>6
  <2>4. Plain(<<>>)
    BY <2>5, <2>6
  <2>. QED  BY <1>5, <2>1, <2>2, <2>3, <2>4
<1>. QED  BY <1>1, <1>2, <1>7, PlainGoes

LEMMA CheckLocalStateInv ==
  ASSUME IInv, NEW p \in Procs, CheckLocalState(p)
  PROVE  IInv'
<1>1. "has_local_state" \in Names \ {"put"} /\ At(p, "has_local_state")
  BY DEF Names, CheckLocalState
<1>2. ASSUME Goes(p, RemoveAll), UNCHANGED <<fileVars, holds, boundVars, pastVars>>
      PROVE  IInv'
  <2>. PICK todo : todo = RemoveAll
    OBVIOUS
  <2>1. exists \subseteq Files
    BY DEF IInv, FilesOK
  <2>2. /\ todo \in Seq(Calls) /\ Goes(p, todo)
        /\ \A i \in DOMAIN todo : todo[i].name = "exists" /\ CallOK(todo[i], devices, entries)
        /\ \A f \in exists : \E i \in DOMAIN todo : todo[i].file = f
    BY <1>2, <2>1, RemoveAllParts DEF CallOK
  <2>. QED  BY <1>1, <1>2, <2>2, PlainGoes
<1>3. ASSUME Ends(p) PROVE IInv'
  <2>1. p \in Running /\ ~At(p, "put")
    BY <1>1, AtOnly
  <2>. QED  BY <1>3, <2>1, EndsInv
<1>. QED  BY <1>2, <1>3 DEF CheckLocalState

LEMMA CheckExistsInv ==
  ASSUME IInv, NEW p \in Procs, CheckExists(p)
  PROVE  IInv'
<1>1. "exists" \in Names \ {"put", "create"} /\ "unlink" \in Names /\ At(p, "exists")
  BY DEF Names, CheckExists
<1>2. /\ UNCHANGED <<fileVars, holds, clock, installed, starts, entries, devices, pastVars>>
      /\ events' = events
  BY DEF CheckExists, boundVars
<1>3. File(p) \in Files
  <2>1. proc[p].todo[1].name = "exists" /\ CallOK(proc[p].todo[1], devices, entries)
    BY <1>1, AtOnly
  <2>2. File(p) = proc[p].todo[1].file
    BY <1>1, AtParts DEF IInv
  <2>. QED  BY <2>1, <2>2 DEF CallOK
<1>4. CASE File(p) \in exists
  <2>. PICK c : c = Call("unlink", File(p), NoToken)
    OBVIOUS
  <2>1. c \in Calls /\ c.name = "unlink" /\ c.file = File(p)
    <3>1. NoToken \in Tokens
      BY DEF Tokens
    <3>. QED  BY <1>1, <1>3, <3>1, CallParts
  <2>2. CallOK(c, devices, entries) /\ Goes(p, <<c>> \o Rest(p))
    BY <1>3, <1>4, <2>1 DEF CallOK, CheckExists
  <2>. QED  BY <1>1, <1>2, <2>1, <2>2, MoreGoes
<1>5. CASE File(p) \notin exists
  <2>1. Goes(p, Rest(p))
    BY <1>5 DEF CheckExists
  <2>. QED  BY <1>1, <1>2, <1>5, <2>1, RestGoes
<1>. QED  BY <1>4, <1>5

LEMMA SameInv ==
  ASSUME IInv, UNCHANGED <<fileVars, proc, holds, entries, devices, pastVars>>, CountsOK'
  PROVE  IInv'
<1>1. /\ exists' = exists /\ content' = content /\ proc' = proc /\ holds' = holds
      /\ entries' = entries /\ devices' = devices /\ company' = company /\ clean' = clean
      /\ torn' = torn /\ intact' = intact /\ lastDevice' = lastDevice
  BY DEF fileVars, pastVars
<1>2. Running' = Running /\ \A p \in Procs : At(p, "put")' = At(p, "put") /\ File(p)' = File(p)
                            /\ At(p, "store")' = At(p, "store")
  BY <1>1 DEF Running, At, File
<1>3. ProcOK'
  BY <1>1, <1>2 DEF IInv, ProcOK
<1>4. FilesOK' /\ PastOK' /\ AloneOK' /\ WrittenOK'
  BY <1>1, <1>2 DEF IInv, FilesOK, PastOK, AloneOK, WrittenOK
<1>5. RemovedOK'
  BY <1>1, <1>2 DEF IInv, RemovedOK, Alone
<1>6. DeviceOK'
  BY <1>1, <1>2 DEF IInv, DeviceOK, Alone, Identity, Writes
<1>7. PiecesOK' /\ IntactOK'
  BY <1>1 DEF IInv, PiecesOK, IntactOK
<1>8. CleanOK'
  BY <1>1 DEF IInv, CleanOK, At, File
<1>. QED  BY <1>3, <1>4, <1>5, <1>6, <1>7, <1>8 DEF IInv

LEMMA TimePassesInv == IInv /\ TimePasses => IInv'
<1>. SUFFICES ASSUME IInv, TimePasses PROVE IInv'
  OBVIOUS
<1>1. UNCHANGED <<fileVars, proc, holds, entries, devices, pastVars>>
  BY DEF TimePasses
<1>2. CountsOK'
  <2>1. Pending' = Pending
    BY DEF TimePasses, Pending
  <2>2. clock' \in 0 .. events' /\ events' \in 0 .. MaxEvents /\ entries' \in 0 .. events' + 1
    BY Bounded DEF TimePasses, IInv, CountsOK, Event
  <2>. QED  BY <2>1, <2>2 DEF TimePasses, IInv, CountsOK
<1>. QED  BY <1>1, <1>2, SameInv

LEMMA UpdateInv == IInv /\ Update => IInv'
<1>. SUFFICES ASSUME IInv, Update PROVE IInv'
  OBVIOUS
<1>1. UNCHANGED <<fileVars, proc, holds, entries, devices, pastVars>>
  BY DEF Update
<1>2. CountsOK'
  <2>1. Pending' = Pending
    BY DEF Update, Pending
  <2>2. clock' \in 0 .. events' /\ events' \in 0 .. MaxEvents /\ entries' \in 0 .. events' + 1
    BY Bounded DEF Update, IInv, CountsOK, Event
  <2>3. installed' \in DOMAIN Releases
    <3>1. Len(Releases) \in Nat /\ DOMAIN Releases = 1 .. Len(Releases)
      BY ReleasesAssumption
    <3>2. installed \in 1 .. Len(Releases) /\ installed < Len(Releases) /\ installed' = installed + 1
      BY <3>1 DEF IInv, CountsOK, Update
    <3>. QED  BY <3>1, <3>2
  <2>. QED  BY <2>1, <2>2, <2>3 DEF Update, IInv, CountsOK
<1>. QED  BY <1>1, <1>2, SameInv

LEMMA StutterInv == IInv /\ UNCHANGED vars => IInv'
<1>. SUFFICES ASSUME IInv, UNCHANGED vars PROVE IInv'
  OBVIOUS
<1>1. UNCHANGED <<fileVars, proc, holds, entries, devices, pastVars>>
  BY DEF vars, boundVars
<1>2. CountsOK'
  <2>1. Pending' = Pending
    BY DEF vars, Pending
  <2>. QED  BY <2>1 DEF IInv, CountsOK, vars, boundVars
<1>. QED  BY <1>1, <1>2, SameInv

LEMMA OpenStoreInv ==
  ASSUME IInv, NEW p \in Procs, OpenStore(p)
  PROVE  IInv'
<1>. DEFINE r == [proc[p] EXCEPT !.todo = Rest(p)]
<1>1. /\ ProcOK /\ CountsOK /\ PastOK /\ AloneOK /\ DeviceOK /\ devices \in Nat
      /\ "store" \in Names /\ At(p, "store")
  BY DEF IInv, CountsOK, OpenStore, Names
<1>2. /\ p \in Running /\ ~At(p, "put") /\ proc[p].cmd # "disconnect" /\ proc[p].open = "none"
      /\ proc[p].todo # <<>> /\ proc[p].todo[1].name = "store"
  BY <1>1, AtOnly, AtParts
<1>3. /\ Rest(p) \in Seq(Calls) /\ Len(Rest(p)) \in Nat
      /\ \A i \in DOMAIN Rest(p) : i \in Nat /\ i + 1 \in DOMAIN proc[p].todo
                                   /\ Rest(p)[i] = proc[p].todo[i + 1]
  <2>. PICK m : m = Len(Rest(p))
    OBVIOUS
  <2>1. /\ Rest(p) \in Seq(Calls) /\ m \in Nat
        /\ DOMAIN proc[p].todo = 1 .. m + 1 /\ DOMAIN Rest(p) = 1 .. m
        /\ \A i \in 1 .. m : Rest(p)[i] = proc[p].todo[i + 1]
    BY <1>1, <1>2, RestParts
  <2>2. \A i \in 1 .. m : i \in Nat /\ i + 1 \in 1 .. m + 1
    BY <2>1
  <2>. QED  BY <2>1, <2>2
<1>4. \A i \in DOMAIN Rest(p) : Rest(p)[i].name \notin {"put", "create", "store"}
  <2>1. \A i \in DOMAIN Rest(p) : Rest(p)[i].name \notin {"put", "create"}
    BY <1>1, <1>2, RestNames
  <2>2. ASSUME NEW i \in DOMAIN Rest(p), Rest(p)[i].name = "store" PROVE FALSE
    <3>1. AsksOK(proc[p])
      BY <1>1 DEF ProcOK
    <3>2. 1 \in DOMAIN proc[p].todo
      BY <1>1, <1>2, RestParts
    <3>3. i + 1 = 1
      BY <1>2, <1>3, <2>2, <3>1, <3>2 DEF AsksOK
    <3>. QED  BY <1>3, <3>3
  <2>. QED  BY <2>1, <2>2
<1>. HIDE DEF r
<1>. PICK s : s = r
  OBVIOUS
<1>5. /\ s.cmd = proc[p].cmd /\ s.open = "none" /\ s.todo = Rest(p) /\ s.device = proc[p].device
      /\ s \in [cmd : Commands \cup {"idle"}, todo : Seq(Calls),
                open : Files \cup {"none", "gone"}, device : 0 .. devices']
      /\ proc' = [proc EXCEPT ![p] = s]
      /\ devices' = devices /\ devices <= devices' /\ devices' \in Nat /\ entries' = entries
      /\ content' = content /\ exists' \in {exists, exists \cup SideFiles \cup {"store"}}
      /\ holds' \subseteq Procs /\ company' = company /\ clean' = clean /\ torn' = torn
      /\ intact' = intact
  <2>1. /\ devices' = devices /\ entries' = entries /\ content' = content
        /\ exists' = exists \cup SideFiles \cup {"store"} /\ holds' = holds \cup {p}
        /\ company' = company /\ clean' = clean /\ torn' = torn /\ intact' = intact
        /\ proc' = [proc EXCEPT ![p] = r]
    BY DEF OpenStore, Goes, boundVars, r
  <2>2. holds' \subseteq Procs /\ devices <= devices'
    BY <1>1, <2>1 DEF PastOK
  <2>3. proc[p] \in [cmd : Commands \cup {"idle"}, todo : Seq(Calls),
                     open : Files \cup {"none", "gone"}, device : 0 .. devices]
    BY <1>1 DEF ProcOK
  <2>4. /\ r.cmd = proc[p].cmd /\ r.open = "none" /\ r.todo = Rest(p)
        /\ r.device = proc[p].device
        /\ r \in [cmd : Commands \cup {"idle"}, todo : Seq(Calls),
                  open : Files \cup {"none", "gone"}, device : 0 .. devices]
    BY <1>2, <1>3, <2>3 DEF r
  <2>. QED  BY <1>1, <2>1, <2>2, <2>4
<1>6. TodoOK(s, devices', entries') /\ AsksOK(s) /\ DisconnectOK(s)
      /\ \A i \in DOMAIN s.todo : s.todo[i].name # "put"
  <2>1. TodoOK(s, devices, entries) /\ AsksOK(s) /\ DisconnectOK(s)
    BY <1>1, <1>2, <1>5, RestTodo
  <2>. QED  BY <1>4, <1>5, <2>1
<1>7. /\ ProcOK' /\ FilesOK' /\ PastOK' /\ AloneOK' /\ WrittenOK'
      /\ PiecesOK' /\ IntactOK' /\ CleanOK'
      /\ proc'[p] = s /\ \A q \in Procs \ {p} : proc'[q] = proc[q]
      /\ \A q \in Running' \ company' : q = p /\ Alone(p)
  <2>1. QuietStep(p, s)
    BY <1>5, <1>6 DEF QuietStep
  <2>. QED  BY <1>2, <2>1, QuietInv
<1>8. CountsOK'
  <2>1. Pending' \subseteq Pending
    <3>1. ASSUME NEW i \in DOMAIN Rest(p), Rest(p)[i].name = "identity"
          PROVE  p \in Pending
      BY <1>3, <3>1 DEF Pending
    <3>. QED  BY <1>5, <1>7, <3>1 DEF Pending
  <2>2. starts' = starts /\ clock' = clock /\ installed' = installed /\ events' = events
    BY DEF OpenStore, boundVars
  <2>. QED  BY <1>1, <1>5, <2>1, <2>2, CountsKept
<1>9. RemovedOK'
  BY <1>2, <1>5, <1>7 DEF RemovedOK, Alone
<1>10. DeviceOK'
  <2>1. \A d : Identity(d) => Identity(d)'
    BY <1>5 DEF Identity
  <2>2. ~At(p, "store")'
    <3>1. \A z \in Seq(Calls) : z # <<>> => Head(z) = z[1] /\ 1 \in DOMAIN z
      OBVIOUS
    <3>2. Rest(p) # <<>> => Head(Rest(p)).name # "store"
      BY <1>3, <1>4, <3>1
    <3>3. proc'[p].todo = Rest(p)
      BY <1>5, <1>7
    <3>. QED  BY <3>2, <3>3 DEF At
  <2>3. ~Writes(p, "identity") /\ ~Writes(p, "identity")'
    <3>1. ~Writes(p, "identity")'
      BY <1>4, <1>5, <1>7 DEF Writes
    <3>2. ASSUME NEW i \in DOMAIN proc[p].todo, proc[p].todo[i].name \in {"create", "put"}
          PROVE  FALSE
      <4>1. i # 1
        BY <1>2, <3>2
      <4>2. i - 1 \in DOMAIN Rest(p) /\ Rest(p)[i - 1] = proc[p].todo[(i - 1) + 1] /\ (i - 1) + 1 = i
        BY <1>1, <1>2, <4>1, RestParts
      <4>. QED  BY <1>4, <3>2, <4>2
    <3>. QED  BY <3>1, <3>2 DEF Writes
  <2>4. ASSUME lastDevice' # NoDevice
        PROVE  Identity(lastDevice)' /\ \A q \in Procs : ~Writes(q, "identity")'
    <3>1. Identity(lastDevice') /\ \A q \in Procs \ {p} : ~Writes(q, "identity")
      <4>1. CASE p \in company
        BY <1>1, <2>4, <4>1 DEF OpenStore, DeviceOK
      <4>2. CASE p \notin company
        <5>1. Alone(p) /\ lastDevice' = proc[p].device
          BY <1>2, <4>2 DEF Alone, OpenStore
        <5>2. Identity(lastDevice')
          BY <1>1, <2>4, <5>1 DEF DeviceOK
        <5>3. ASSUME NEW q \in Procs \ {p} PROVE ~Writes(q, "identity")
          <6>1. q \notin Running
            BY <1>1, <5>1 DEF AloneOK, Alone
          <6>2. proc[q].todo = <<>>
            BY <1>1, <6>1 DEF ProcOK, Running
          <6>. QED  BY <6>2 DEF Writes
        <5>. QED  BY <5>2, <5>3
      <4>. QED  BY <4>1, <4>2
    <3>2. Identity(lastDevice)'
      BY <1>5, <3>1 DEF Identity
    <3>3. ASSUME NEW q \in Procs \ {p} PROVE ~Writes(q, "identity")'
      BY <1>7, <3>1 DEF Writes
    <3>. QED  BY <2>3, <3>2, <3>3
  <2>5. proc'[p].open # "gone" /\ \A q \in Procs : Alone(q)' => q = p
    BY <1>5, <1>7 DEF Alone
  <2>. QED  BY <2>2, <2>4, <2>5 DEF DeviceOK
<1>. QED  BY <1>7, <1>8, <1>9, <1>10 DEF IInv

LEMMA IdentityParts ==
  ASSUME IInv, NEW p \in Procs, At(p, "identity")
  PROVE  /\ p \in Running /\ p \in Pending /\ ~At(p, "put") /\ proc[p].cmd # "disconnect"
         /\ proc[p].open = "none" /\ proc[p].device = NoDevice
         /\ Rest(p) \in Seq(Calls) /\ Len(Rest(p)) \in Nat /\ DOMAIN Rest(p) = 1 .. Len(Rest(p))
         /\ 1 \in DOMAIN Rest(p) /\ Rest(p)[1].name = "store"
         /\ \A i \in DOMAIN Rest(p) :
              /\ CallOK(Rest(p)[i], devices, entries)
              /\ Rest(p)[i].name \notin {"create", "put", "unlink", "identity"}
              /\ Rest(p)[i].name = "store" => i = 1
<1>1. ProcOK /\ "identity" \in Names
  BY DEF IInv, Names
<1>2. /\ p \in Running /\ ~At(p, "put") /\ proc[p].cmd # "disconnect" /\ proc[p].open = "none"
      /\ proc[p].todo # <<>> /\ proc[p].todo[1].name = "identity"
  BY <1>1, AtOnly, AtParts
<1>3. /\ Rest(p) \in Seq(Calls) /\ Len(Rest(p)) \in Nat /\ DOMAIN Rest(p) = 1 .. Len(Rest(p))
      /\ DOMAIN proc[p].todo = 1 .. Len(Rest(p)) + 1 /\ 1 \in DOMAIN proc[p].todo
      /\ \A i \in DOMAIN Rest(p) : i \in Nat /\ i + 1 \in DOMAIN proc[p].todo
                                   /\ Rest(p)[i] = proc[p].todo[i + 1]
  BY <1>1, <1>2, RestParts
<1>4. AsksOK(proc[p])
  BY <1>1 DEF ProcOK
<1>5. /\ proc[p].device = NoDevice /\ 1 + 1 \in DOMAIN proc[p].todo
      /\ proc[p].todo[1 + 1].name = "store"
  BY <1>2, <1>3, <1>4 DEF AsksOK
<1>6. 1 \in DOMAIN Rest(p) /\ Rest(p)[1].name = "store"
  BY <1>3, <1>5
<1>7. ASSUME NEW i \in DOMAIN Rest(p)
      PROVE  /\ CallOK(Rest(p)[i], devices, entries)
             /\ Rest(p)[i].name \notin {"create", "put", "unlink", "identity"}
             /\ Rest(p)[i].name = "store" => i = 1
  <2>1. CallOK(Rest(p)[i], devices, entries) /\ Rest(p)[i].name \notin {"create", "put", "unlink"}
    BY <1>1, <1>2, RestNames
  <2>2. ASSUME Rest(p)[i].name = "identity" PROVE FALSE
    <3>1. i + 1 = 1
      BY <1>2, <1>3, <1>4, <2>2 DEF AsksOK
    <3>. QED  BY <1>3, <3>1
  <2>3. ASSUME Rest(p)[i].name = "store" PROVE i = 1
    <3>1. i + 1 = 1 + 1
      BY <1>3, <1>4, <1>5, <2>3 DEF AsksOK
    <3>. QED  BY <1>3, <3>1
  <2>. QED  BY <2>1, <2>2, <2>3
<1>. QED  BY <1>2, <1>3, <1>5, <1>6, <1>7 DEF Pending

LEMMA TwoParts ==
  ASSUME NEW p \in DOMAIN proc, NEW d, NEW todo
  PROVE  [proc EXCEPT ![p].device = d, ![p].todo = todo] =
           [proc EXCEPT ![p] = [proc[p] EXCEPT !.device = d, !.todo = todo]]
OBVIOUS

LEMMA LoadIdentityInv ==
  ASSUME IInv, NEW p \in Procs, At(p, "identity"), Whole("identity"),
         proc' = [proc EXCEPT ![p] =
                    [proc[p] EXCEPT !.device = content["identity"][1].device_id, !.todo = Rest(p)]],
         UNCHANGED <<fileVars, holds, boundVars, pastVars>>
  PROVE  IInv'
<1>. DEFINE d == content["identity"][1].device_id
            r == [proc[p] EXCEPT !.device = d, !.todo = Rest(p)]
<1>1. /\ ProcOK /\ FilesOK /\ CountsOK /\ PastOK /\ DeviceOK
      /\ devices \in Nat /\ entries \in Nat
  BY Bounded DEF IInv, CountsOK
<1>2. /\ p \in Running /\ ~At(p, "put") /\ proc[p].cmd # "disconnect"
      /\ proc[p].open = "none" /\ Rest(p) \in Seq(Calls)
      /\ \A i \in DOMAIN Rest(p) :
           /\ i \in Nat /\ Rest(p)[i].name \notin {"create", "put", "unlink", "identity"}
           /\ CallOK(Rest(p)[i], devices, entries)
           /\ Rest(p)[i].name = "store" => i = 1
  BY IdentityParts
<1>3. d \in 1 .. devices /\ Identity(d)
  <2>1. content["identity"] \in Seq(Tokens) /\ Len(content["identity"]) = 1 /\ "identity" \in exists
    BY <1>1, FileNames DEF FilesOK, Whole
  <2>2. \A s \in Seq(Tokens) : Len(s) = 1 => s = <<s[1]>> /\ 1 \in DOMAIN s
    OBVIOUS
  <2>3. content["identity"][1] \in [device_id : 1 .. devices]
    BY <1>1, <2>1, <2>2 DEF FilesOK
  <2>4. d \in 1 .. devices /\ content["identity"][1] = [device_id |-> d]
    BY <2>3
  <2>. QED  BY <2>1, <2>2, <2>4 DEF Identity
<1>. HIDE DEF r, d
<1>. PICK s : s = r
  OBVIOUS
<1>4. /\ s.cmd = proc[p].cmd /\ s.open = "none" /\ s.todo = Rest(p) /\ s.device = d
      /\ s \in [cmd : Commands \cup {"idle"}, todo : Seq(Calls),
                open : Files \cup {"none", "gone"}, device : 0 .. devices']
      /\ proc' = [proc EXCEPT ![p] = s]
      /\ devices' = devices /\ devices <= devices' /\ devices' \in Nat /\ entries' = entries
      /\ content' = content /\ exists' = exists
      /\ holds' \subseteq Procs /\ company' = company /\ clean' = clean /\ torn' = torn
      /\ intact' = intact
  <2>1. d \in 0 .. devices
    BY <1>1, <1>3
  <2>2. proc' = [proc EXCEPT ![p] = r]
    BY DEF r, d
  <2>3. proc[p] \in [cmd : Commands \cup {"idle"}, todo : Seq(Calls),
                     open : Files \cup {"none", "gone"}, device : 0 .. devices]
    BY <1>1 DEF ProcOK
  <2>4. /\ r.cmd = proc[p].cmd /\ r.open = "none" /\ r.todo = Rest(p) /\ r.device = d
        /\ r \in [cmd : Commands \cup {"idle"}, todo : Seq(Calls),
                  open : Files \cup {"none", "gone"}, device : 0 .. devices]
    BY <1>2, <2>1, <2>3 DEF r
  <2>5. /\ devices' = devices /\ entries' = entries /\ content' = content /\ exists' = exists
        /\ holds' \subseteq Procs /\ company' = company /\ clean' = clean /\ torn' = torn
        /\ intact' = intact
    BY <1>1 DEF boundVars, fileVars, pastVars, PastOK
  <2>6. /\ r \in [cmd : Commands \cup {"idle"}, todo : Seq(Calls),
                  open : Files \cup {"none", "gone"}, device : 0 .. devices']
        /\ devices <= devices' /\ devices' \in Nat
    <3>1. devices' = devices
      BY <2>5
    <3>. QED  BY <1>1, <2>4, <3>1
  <2>. QED  BY <2>2, <2>4, <2>5, <2>6
<1>5. TodoOK(s, devices', entries') /\ AsksOK(s) /\ DisconnectOK(s)
      /\ \A i \in DOMAIN s.todo : s.todo[i].name # "put"
  BY <1>2, <1>4 DEF TodoOK, AsksOK, DisconnectOK
<1>6. /\ ProcOK' /\ FilesOK' /\ PastOK' /\ AloneOK' /\ WrittenOK'
      /\ PiecesOK' /\ IntactOK' /\ CleanOK'
      /\ proc'[p] = s /\ \A q \in Procs \ {p} : proc'[q] = proc[q]
      /\ \A q \in Running' \ company' : q = p /\ Alone(p)
  <2>1. exists' \in {exists, exists \cup SideFiles \cup {"store"}}
    BY <1>4
  <2>2. QuietStep(p, s)
    BY <1>4, <1>5, <2>1 DEF QuietStep
  <2>. QED  BY <1>2, <2>2, QuietInv
<1>7. CountsOK'
  <2>1. Pending' \subseteq Pending
    <3>1. \A i \in DOMAIN proc'[p].todo : proc'[p].todo[i].name # "identity"
      BY <1>2, <1>4, <1>6
    <3>. QED  BY <1>6, <3>1 DEF Pending
  <2>2. starts' = starts /\ clock' = clock /\ installed' = installed /\ events' = events
    BY DEF boundVars
  <2>. QED  BY <1>1, <1>4, <2>1, <2>2, CountsKept
<1>8. RemovedOK'
  BY <1>2, <1>4, <1>6 DEF RemovedOK, Alone
<1>9. DeviceOK'
  <2>1. \A n : Identity(n) => Identity(n)'
    BY <1>4 DEF Identity
  <2>2. Identity(proc'[p].device)
    BY <1>3, <1>4, <1>6
  <2>3. lastDevice' = lastDevice
    BY DEF pastVars
  <2>4. ASSUME lastDevice # NoDevice
        PROVE  Identity(lastDevice)' /\ \A q \in Procs : ~Writes(q, "identity")'
    <3>1. Identity(lastDevice)'
      BY <1>1, <1>4, <2>3, <2>4 DEF DeviceOK, Identity
    <3>2. ~Writes(p, "identity")'
      BY <1>2, <1>4, <1>6 DEF Writes
    <3>3. ASSUME NEW q \in Procs \ {p} PROVE ~Writes(q, "identity")'
      BY <1>1, <1>6, <2>4 DEF DeviceOK, Writes
    <3>. QED  BY <3>1, <3>2, <3>3
  <2>5. proc'[p].open # "gone" /\ \A q \in Procs : Alone(q)' => q = p
    BY <1>4, <1>6 DEF Alone
  <2>6. Identity(proc[p].device)'
    BY <1>4, <2>2 DEF Identity
  <2>. QED  BY <2>3, <2>4, <2>5, <2>6 DEF DeviceOK
<1>. QED  BY <1>6, <1>7, <1>8, <1>9 DEF IInv

LEMMA NewDeviceInv ==
  ASSUME IInv, NEW p \in Procs, At(p, "identity"), "identity" \notin exists, NewDevice(p)
  PROVE  IInv'
<1>. DEFINE d == devices + 1
            c == Create("identity", [device_id |-> d])
            r == [proc[p] EXCEPT !.device = d, !.todo = <<c>> \o Rest(p)]
<1>1. /\ ProcOK /\ FilesOK /\ CountsOK /\ PastOK /\ DeviceOK
      /\ devices \in Nat /\ entries \in Nat /\ d \in Nat /\ devices <= d
  BY Bounded DEF IInv, CountsOK
<1>2. /\ p \in Running /\ p \in Pending /\ ~At(p, "put") /\ proc[p].cmd # "disconnect"
      /\ proc[p].open = "none" /\ Rest(p) \in Seq(Calls) /\ Len(Rest(p)) \in Nat
      /\ DOMAIN Rest(p) = 1 .. Len(Rest(p))
      /\ \A i \in DOMAIN Rest(p) :
           /\ CallOK(Rest(p)[i], devices, entries)
           /\ Rest(p)[i].name \notin {"create", "put", "unlink", "identity"}
           /\ Rest(p)[i].name = "store" => i = 1
  BY IdentityParts
<1>3. /\ c \in Calls /\ c.name = "create" /\ c.file = "identity" /\ c.token = [device_id |-> d]
      /\ CallOK(c, d, entries)
  <2>1. [device_id |-> d] \in Tokens
    BY <1>1 DEF Tokens
  <2>2. "create" \in Names
    BY DEF Names
  <2>3. c \in Calls /\ c.name = "create" /\ c.file = "identity" /\ c.token = [device_id |-> d]
    BY <2>1, <2>2, CallParts, FileNames DEF Create
  <2>4. c.token \in [device_id : 1 .. d]
    BY <1>1, <2>3
  <2>. HIDE DEF c, d
  <2>. QED  BY <2>3, <2>4, FileNames DEF CallOK
<1>. HIDE DEF r, c, d
<1>. PICK s : s = r
  OBVIOUS
<1>. PICK todo : todo = <<c>> \o Rest(p)
  OBVIOUS
<1>4. /\ todo \in Seq(Calls) /\ DOMAIN todo = 1 .. Len(Rest(p)) + 1 /\ todo[1] = c
      /\ \A i \in 1 .. Len(Rest(p)) : todo[i + 1] = Rest(p)[i]
  BY <1>2, <1>3, Prepended
<1>5. /\ s.cmd = proc[p].cmd /\ s.open = "none" /\ s.todo = todo /\ s.device = d
      /\ s \in [cmd : Commands \cup {"idle"}, todo : Seq(Calls),
                open : Files \cup {"none", "gone"}, device : 0 .. devices']
      /\ proc' = [proc EXCEPT ![p] = s]
      /\ devices' = d /\ devices <= devices' /\ devices' \in Nat /\ entries' = entries
      /\ content' = content /\ exists' = exists
      /\ holds' \subseteq Procs /\ company' = company /\ clean' = clean /\ torn' = torn
      /\ intact' = intact
  <2>1. d \in 0 .. d /\ devices' = d
    BY <1>1 DEF NewDevice, d
  <2>2. proc' = [proc EXCEPT ![p].device = d, ![p].todo = todo]
    BY <2>1 DEF NewDevice, c
  <2>3. r = [proc[p] EXCEPT !.device = d, !.todo = todo]
    BY DEF r
  <2>4. proc' = [proc EXCEPT ![p] = r]
    BY <1>1, <2>2, <2>3, TwoParts DEF ProcOK
  <2>5. proc[p] \in [cmd : Commands \cup {"idle"}, todo : Seq(Calls),
                     open : Files \cup {"none", "gone"}, device : 0 .. devices]
    BY <1>1 DEF ProcOK
  <2>6. /\ r.cmd = proc[p].cmd /\ r.open = "none" /\ r.todo = todo /\ r.device = d
        /\ r \in [cmd : Commands \cup {"idle"}, todo : Seq(Calls),
                  open : Files \cup {"none", "gone"}, device : 0 .. d]
    BY <1>2, <1>4, <2>1, <2>3, <2>5
  <2>7. /\ entries' = entries /\ content' = content /\ exists' = exists
        /\ holds' \subseteq Procs /\ company' = company /\ clean' = clean /\ torn' = torn
        /\ intact' = intact
    BY <1>1 DEF NewDevice, fileVars, pastVars, PastOK
  <2>. QED  BY <1>1, <2>1, <2>4, <2>6, <2>7
<1>6. ASSUME NEW i \in DOMAIN todo, i # 1
      PROVE  /\ CallOK(todo[i], d, entries)
             /\ todo[i].name \notin {"create", "put", "unlink", "identity"}
             /\ todo[i].name = "store" => i = 2
  <2>1. i - 1 \in DOMAIN Rest(p) /\ (i - 1) + 1 = i
    BY <1>2, <1>4, <1>6
  <2>2. todo[i] = Rest(p)[i - 1]
    BY <1>2, <1>4, <2>1
  <2>3. 1 .. devices \subseteq 1 .. d
    BY <1>1
  <2>4. [device_id : 1 .. devices] \subseteq [device_id : 1 .. d]
    BY <2>3
  <2>5. CallOK(todo[i], d, entries)
    BY <1>2, <2>1, <2>2, <2>4 DEF CallOK
  <2>6. todo[i].name = "store" => i - 1 = 1
    BY <1>2, <2>1, <2>2
  <2>. QED  BY <1>2, <2>1, <2>2, <2>5, <2>6
<1>7. TodoOK(s, devices', entries') /\ AsksOK(s) /\ DisconnectOK(s)
      /\ \A i \in DOMAIN s.todo : s.todo[i].name # "put"
  <2>1. TodoOK(s, devices', entries')
    BY <1>3, <1>4, <1>5, <1>6 DEF TodoOK
  <2>2. AsksOK(s)
    BY <1>3, <1>4, <1>5, <1>6 DEF AsksOK
  <2>3. DisconnectOK(s) /\ \A i \in DOMAIN s.todo : s.todo[i].name # "put"
    BY <1>2, <1>3, <1>4, <1>5, <1>6 DEF DisconnectOK
  <2>. QED  BY <2>1, <2>2, <2>3
<1>8. /\ ProcOK' /\ FilesOK' /\ PastOK' /\ AloneOK' /\ WrittenOK'
      /\ PiecesOK' /\ IntactOK' /\ CleanOK'
      /\ proc'[p] = s /\ \A q \in Procs \ {p} : proc'[q] = proc[q]
      /\ \A q \in Running' \ company' : q = p /\ Alone(p)
  <2>1. exists' \in {exists, exists \cup SideFiles \cup {"store"}}
    BY <1>5
  <2>2. QuietStep(p, s)
    BY <1>5, <1>7, <2>1 DEF QuietStep
  <2>. QED  BY <1>2, <2>2, QuietInv
<1>9. CountsOK'
  <2>1. Pending' \subseteq Pending \ {p}
    <3>1. \A i \in DOMAIN todo : todo[i].name # "identity"
      BY <1>3, <1>4, <1>6
    <3>2. proc'[p].todo = todo
      BY <1>5, <1>8
    <3>. QED  BY <1>8, <3>1, <3>2 DEF Pending
  <2>2. IsFiniteSet(Pending)
    BY Bounded, FS_Subset DEF Pending
  <2>3. /\ Cardinality(Pending) \in Nat /\ Cardinality(Pending \ {p}) = Cardinality(Pending) - 1
        /\ IsFiniteSet(Pending \ {p})
    BY <1>2, <2>2, FS_CardinalityType, FS_RemoveElement
  <2>4. Cardinality(Pending') <= Cardinality(Pending \ {p}) /\ Cardinality(Pending') \in Nat
    BY <2>1, <2>3, FS_Subset, FS_CardinalityType
  <2>. PICK m, n : m = Cardinality(Pending) /\ n = Cardinality(Pending')
    OBVIOUS
  <2>5. m \in Nat /\ n \in Nat /\ n <= m - 1 /\ devices + m <= starts + 1 /\ starts \in Nat
    BY <1>1, <2>3, <2>4, Bounded DEF CountsOK
  <2>6. devices' + n <= starts + 1
    BY <1>1, <1>5, <2>5 DEF d
  <2>. QED  BY <1>1, <1>5, <2>6 DEF CountsOK, NewDevice
<1>10. RemovedOK'
  BY <1>2, <1>5, <1>8 DEF RemovedOK, Alone
<1>11. DeviceOK'
  <2>1. lastDevice' = NoDevice
    BY <1>1 DEF DeviceOK, Identity, NewDevice, pastVars
  <2>2. ~At(p, "store")'
    <3>1. \A z \in Seq(Calls) : z # <<>> => Head(z) = z[1]
      OBVIOUS
    <3>. QED  BY <1>3, <1>4, <1>5, <1>8, <3>1 DEF At
  <2>3. proc'[p].open # "gone" /\ \A q \in Procs : Alone(q)' => q = p
    BY <1>5, <1>8 DEF Alone
  <2>. QED  BY <2>1, <2>2, <2>3 DEF DeviceOK
<1>. QED  BY <1>8, <1>9, <1>10, <1>11 DEF IInv

LEMMA LoadOrCreateDeviceIdentityInv ==
  ASSUME IInv, NEW p \in Procs, LoadOrCreateDeviceIdentity(p)
  PROVE  IInv'
<1>1. "identity" \in Names /\ At(p, "identity")
  BY DEF Names, LoadOrCreateDeviceIdentity
<1>2. p \in Running /\ ~At(p, "put")
  BY <1>1, AtOnly
<1>3. ASSUME "identity" \notin exists, NewDevice(p) PROVE IInv'
  BY <1>1, <1>3, NewDeviceInv
<1>4. ASSUME Whole("identity"),
             proc' = [proc EXCEPT ![p].device = content["identity"][1].device_id, ![p].todo = Rest(p)],
             UNCHANGED <<fileVars, holds, boundVars, pastVars>>
      PROVE  IInv'
  <2>1. p \in DOMAIN proc
    BY DEF IInv, ProcOK
  <2>2. proc' = [proc EXCEPT ![p] =
                   [proc[p] EXCEPT !.device = content["identity"][1].device_id, !.todo = Rest(p)]]
    BY <1>4, <2>1, TwoParts
  <2>. QED  BY <1>1, <1>4, <2>2, LoadIdentityInv
<1>5. ASSUME Ends(p) PROVE IInv'
  BY <1>2, <1>5, EndsInv
<1>. QED  BY <1>3, <1>4, <1>5 DEF LoadOrCreateDeviceIdentity

LEMMA ScriptParts ==
  ASSUME NEW c \in Commands, NEW d \in Nat, NEW e \in Nat, NEW n \in Nat
  PROVE  LET r == Process(c, Script(c)) IN
         /\ r \in [cmd : Commands \cup {"idle"}, todo : Seq(Calls),
                   open : Files \cup {"none", "gone"}, device : 0 .. n]
         /\ r.cmd = c /\ c # "idle" /\ r.open = "none" /\ r.device = NoDevice
         /\ TodoOK(r, d, e) /\ AsksOK(r) /\ DisconnectOK(r)
         /\ \A i \in DOMAIN r.todo : r.todo[i].name \notin {"put", "create"}
         /\ c = "disconnect" => r.todo = <<Do("has_local_state")>>
<1>. DEFINE Fits(todo) ==
       /\ todo \in Seq(Calls)
       /\ \A i \in DOMAIN todo :
            /\ CallOK(todo[i], d, e) /\ todo[i].name \notin {"create", "unlink", "put"}
            /\ todo[i].name = "identity" => i + 1 \in DOMAIN todo /\ todo[i + 1].name = "store"
       /\ \A i, j \in DOMAIN todo :
            todo[i].name = todo[j].name /\ todo[i].name \in {"identity", "store"} => i = j
<1>. DEFINE Plain(x, name) == x \in Calls /\ x.name = name /\ CallOK(x, d, e)
<1>1. \A name \in Names \ {"append", "create", "put", "exists", "unlink"} : Plain(Do(name), name)
  BY DoParts DEF CallOK
<1>2. Plain(AppendTo("history"), "append")
  <2>1. AppendTo("history") \in Calls /\ AppendTo("history").name = "append"
        /\ AppendTo("history").file = "history"
    <3>1. NoToken \in Tokens /\ "append" \in Names
      BY DEF Tokens, Names
    <3>. QED  BY <3>1, CallParts, FileNames DEF AppendTo
  <2>. QED  BY <2>1, FileNames DEF CallOK
<1>3. ASSUME NEW a, NEW b, NEW s, NEW t, NEW u, Plain(a, "load_config"), Plain(b, "identity"),
             Plain(s, "store"), Plain(t, "connect"), Plain(u, "chat")
      PROVE  Fits(<<a, b, s, t, u>>)
  <2>. PICK todo : todo = <<a, b, s, t, u>>
    OBVIOUS
  <2>1. /\ todo \in Seq(Calls) /\ DOMAIN todo = 1 .. 5
        /\ todo[1] = a /\ todo[2] = b /\ todo[3] = s /\ todo[4] = t /\ todo[5] = u
    BY <1>3
  <2>2. \A i \in DOMAIN todo : i = 1 \/ i = 2 \/ i = 3 \/ i = 4 \/ i = 5
    BY <2>1
  <2>3. Fits(todo)
    BY <1>3, <2>1, <2>2
  <2>. QED  BY <2>3
<1>4. ASSUME NEW a, NEW b, NEW s, NEW t, NEW u, Plain(a, "load_config"), Plain(b, "append"),
             Plain(s, "identity"), Plain(t, "store"), Plain(u, "reply")
      PROVE  Fits(<<a, b, s, t, u>>)
  <2>. PICK todo : todo = <<a, b, s, t, u>>
    OBVIOUS
  <2>1. /\ todo \in Seq(Calls) /\ DOMAIN todo = 1 .. 5
        /\ todo[1] = a /\ todo[2] = b /\ todo[3] = s /\ todo[4] = t /\ todo[5] = u
    BY <1>4
  <2>2. \A i \in DOMAIN todo : i = 1 \/ i = 2 \/ i = 3 \/ i = 4 \/ i = 5
    BY <2>1
  <2>3. Fits(todo)
    BY <1>4, <2>1, <2>2
  <2>. QED  BY <2>3
<1>5. ASSUME NEW a, NEW b, NEW s, Plain(a, "load_config"), Plain(b, "identity"), Plain(s, "store")
      PROVE  Fits(<<a, b, s>>)
  <2>. PICK todo : todo = <<a, b, s>>
    OBVIOUS
  <2>1. /\ todo \in Seq(Calls) /\ DOMAIN todo = 1 .. 3
        /\ todo[1] = a /\ todo[2] = b /\ todo[3] = s
    BY <1>5
  <2>2. \A i \in DOMAIN todo : i = 1 \/ i = 2 \/ i = 3
    BY <2>1
  <2>3. Fits(todo)
    BY <1>5, <2>1, <2>2
  <2>. QED  BY <2>3
<1>6. ASSUME NEW a, Plain(a, "pair") \/ Plain(a, "has_local_state")
      PROVE  Fits(<<a>>)
  <2>. PICK todo : todo = <<a>>
    OBVIOUS
  <2>1. todo \in Seq(Calls) /\ DOMAIN todo = 1 .. 1 /\ todo[1] = a
    BY <1>6
  <2>2. \A i \in DOMAIN todo : i = 1
    BY <2>1
  <2>3. Fits(todo)
    BY <1>6, <2>1, <2>2
  <2>. QED  BY <2>3
<1>7. Fits(Script(c))
  <2>. HIDE DEF Fits, Plain
  <2>1. {"load_config", "identity", "store", "connect", "chat", "reply", "pair", "has_local_state"}
          \subseteq Names \ {"append", "create", "put", "exists", "unlink"}
    BY DEF Names
  <2>2. Fits(ChatScript)
    BY <1>1, <1>3, <2>1 DEF ChatScript
  <2>3. Fits(SendScript)
    BY <1>1, <1>2, <1>4, <2>1 DEF SendScript
  <2>4. Fits(StatusScript)
    BY <1>1, <1>5, <2>1 DEF StatusScript
  <2>5. Fits(<<Do("pair")>>) /\ Fits(<<Do("has_local_state")>>)
    BY <1>1, <1>6, <2>1
  <2>6. c \in {"chat", "send", "pair", "status", "disconnect"}
    BY LocalAssumption
  <2>. QED  BY <2>2, <2>3, <2>4, <2>5, <2>6 DEF Script
<1>8. c # "idle" /\ (c = "disconnect" => Script(c) = <<Do("has_local_state")>>)
  BY LocalAssumption DEF Script
<1>. PICK todo : todo = Script(c)
  OBVIOUS
<1>. PICK r : r = Process(c, todo)
  OBVIOUS
<1>9. /\ r.cmd = c /\ r.todo = todo /\ r.open = "none" /\ r.device = NoDevice
      /\ r = [cmd |-> c, todo |-> todo, open |-> "none", device |-> NoDevice]
  BY DEF Process
<1>10. Fits(todo)
  BY <1>7
<1>11. r \in [cmd : Commands \cup {"idle"}, todo : Seq(Calls),
              open : Files \cup {"none", "gone"}, device : 0 .. n]
  BY <1>9, <1>10 DEF NoDevice
<1>12. /\ TodoOK(r, d, e) /\ AsksOK(r) /\ DisconnectOK(r)
       /\ \A i \in DOMAIN r.todo : r.todo[i].name \notin {"put", "create"}
       /\ c = "disconnect" => r.todo = <<Do("has_local_state")>>
  <2>1. TodoOK(r, d, e)
    BY <1>9, <1>10 DEF TodoOK
  <2>2. AsksOK(r)
    BY <1>9, <1>10 DEF AsksOK
  <2>3. DisconnectOK(r)
    BY <1>8, <1>9 DEF DisconnectOK
  <2>. QED  BY <1>8, <1>9, <1>10, <2>1, <2>2, <2>3
<1>13. r = Process(c, Script(c))
  OBVIOUS
<1>. QED  BY <1>8, <1>9, <1>11, <1>12, <1>13

LEMMA StartInv ==
  ASSUME IInv, NEW p \in Procs, NEW c \in Commands, Start(p, c)
  PROVE  IInv'
<1>1. /\ ProcOK /\ FilesOK /\ CountsOK /\ PastOK /\ AloneOK /\ WrittenOK /\ RemovedOK
      /\ DeviceOK /\ CleanOK /\ devices \in Nat /\ entries \in Nat /\ starts \in Nat
  BY Bounded DEF IInv, CountsOK
<1>2. PICK r : r = Process(c, Script(c))
  OBVIOUS
<1>3. /\ proc' = [proc EXCEPT ![p] = r] /\ p \notin Running
      /\ content' = content /\ exists' = exists /\ holds' = holds
      /\ devices' = devices /\ entries' = entries /\ starts' = starts + 1 /\ starts < MaxStarts
      /\ clock' = clock /\ installed' = installed /\ (events' = events \/ Event)
      /\ clean' = clean /\ torn' = torn /\ intact' = intact /\ lastDevice' = lastDevice
      /\ company' = IF Running = {} THEN {} ELSE Running \cup {p}
  BY <1>2 DEF Start, fileVars
<1>4. /\ r \in [cmd : Commands \cup {"idle"}, todo : Seq(Calls),
                open : Files \cup {"none", "gone"}, device : 0 .. devices']
      /\ r.cmd = c /\ c # "idle" /\ r.open = "none" /\ r.device = NoDevice
      /\ TodoOK(r, devices', entries') /\ AsksOK(r) /\ DisconnectOK(r)
      /\ \A i \in DOMAIN r.todo : r.todo[i].name \notin {"put", "create"}
      /\ c = "disconnect" => r.todo = <<Do("has_local_state")>>
  BY <1>1, <1>2, <1>3, ScriptParts
<1>5. /\ proc'[p] = r /\ \A q \in Procs \ {p} : proc'[q] = proc[q]
  BY <1>1, <1>3 DEF ProcOK
<1>6. proc[p].cmd = "idle" /\ proc[p].todo = <<>> /\ proc[p].open = "none" /\ p \notin clean
  BY <1>1, <1>3 DEF ProcOK, Running, At, CleanOK
<1>7. ProcOK'
  <2>1. r.open \in (IF r.todo # <<>> /\ Head(r.todo).name = "put"
                      THEN {Head(r.todo).file, "gone"} ELSE {"none"})
    <3>1. \A s \in Seq(Calls) : s # <<>> => Head(s) = s[1] /\ 1 \in DOMAIN s
      OBVIOUS
    <3>2. ~(r.todo # <<>> /\ Head(r.todo).name = "put")
      BY <1>4, <3>1
    <3>. QED  BY <1>4, <3>2
  <2>2. /\ r.open \in Files => r.open \in exists'
        /\ r.cmd = "idle" => r.todo = <<>>
    BY <1>4, FileNames
  <2>3. devices' \in Nat /\ devices <= devices' /\ entries' \in Nat /\ entries <= entries'
    BY <1>1, <1>3
  <2>4. \A q \in Procs \ {p} : proc[q].open \in Files => proc[q].open \in exists'
    BY <1>1, <1>3 DEF ProcOK
  <2>. QED  BY <1>1, <1>3, <1>4, <2>1, <2>2, <2>3, <2>4, ProcKept
<1>8. FilesOK' /\ WrittenOK'
  <2>1. /\ exists' \in {exists, exists \ SideFiles, exists \cup SideFiles \cup {"store"}}
        /\ proc[p].open \notin JsonFiles /\ torn \subseteq torn'
        /\ devices' \in Nat /\ devices <= devices'
    BY <1>1, <1>3, <1>6, FileNames
  <2>. QED  BY <1>3, <1>5, <2>1, FilesKept
<1>9. CountsOK'
  <2>1. Pending' \subseteq Pending \cup {p}
    BY <1>5 DEF Pending
  <2>2. IsFiniteSet(Pending)
    BY Bounded, FS_Subset DEF Pending
  <2>3. /\ Cardinality(Pending) \in Nat /\ Cardinality(Pending \cup {p}) <= Cardinality(Pending) + 1
        /\ IsFiniteSet(Pending \cup {p}) /\ Cardinality(Pending \cup {p}) \in Nat
    <3>1. Cardinality(Pending) \in Nat
      BY <2>2, FS_CardinalityType
    <3>2. /\ IsFiniteSet(Pending \cup {p})
          /\ Cardinality(Pending \cup {p}) =
               IF p \in Pending THEN Cardinality(Pending) ELSE Cardinality(Pending) + 1
      BY <2>2, FS_AddElement
    <3>. QED  BY <3>1, <3>2
  <2>4. Cardinality(Pending') <= Cardinality(Pending \cup {p}) /\ Cardinality(Pending') \in Nat
    BY <2>1, <2>3, FS_Subset, FS_CardinalityType
  <2>. PICK m, n : m = Cardinality(Pending) /\ n = Cardinality(Pending')
    OBVIOUS
  <2>5. m \in Nat /\ n \in Nat /\ n <= m + 1 /\ devices + m <= starts + 1
    BY <1>1, <2>3, <2>4 DEF CountsOK
  <2>6. devices' + n <= starts' + 1 /\ starts' \in 0 .. MaxStarts /\ devices' \in Nat
    BY <1>1, <1>3, <2>5, Bounded DEF CountsOK
  <2>7. events' \in 0 .. MaxEvents /\ clock' \in 0 .. events' /\ entries' \in 0 .. events' + 1
    BY <1>1, <1>3, Bounded DEF CountsOK, Event
  <2>. QED  BY <1>1, <1>3, <2>6, <2>7 DEF CountsOK
<1>10. PastOK'
  <2>1. Running \subseteq Procs
    BY DEF Running
  <2>. QED  BY <1>1, <1>3, <2>1 DEF PastOK
<1>11. Running' = Running \cup {p}
  BY <1>1, <1>4, <1>5 DEF Running
<1>12. AloneOK' /\ \A q \in Running' \ company' : q = p /\ Running = {}
  BY <1>1, <1>3, <1>11 DEF AloneOK
<1>13. RemovedOK'
  BY <1>4, <1>5, <1>12 DEF RemovedOK, Alone
<1>14. DeviceOK'
  <2>1. ASSUME lastDevice' # NoDevice
        PROVE  Identity(lastDevice)' /\ \A q \in Procs : ~Writes(q, "identity")'
    <3>1. Identity(lastDevice)'
      BY <1>1, <1>3, <2>1 DEF DeviceOK, Identity
    <3>2. ~Writes(p, "identity")'
      BY <1>4, <1>5 DEF Writes
    <3>3. ASSUME NEW q \in Procs \ {p} PROVE ~Writes(q, "identity")'
      BY <1>1, <1>3, <1>5, <2>1 DEF DeviceOK, Writes
    <3>. QED  BY <3>1, <3>2, <3>3
  <2>2. \A q \in Procs : Alone(q)' => proc'[q].open # "gone" /\ proc'[q].device = NoDevice
    BY <1>4, <1>5, <1>12 DEF Alone
  <2>. QED  BY <2>1, <2>2 DEF DeviceOK
<1>15. PiecesOK' /\ IntactOK' /\ CleanOK'
  <2>1. clean' = clean \ {p} /\ proc'[p].open \notin LogFiles
    BY <1>3, <1>4, <1>5, <1>6, FileNames
  <2>2. \A i \in DOMAIN proc'[p].todo :
          proc'[p].todo[i].name = "put" => proc'[p].todo[i].file \notin LogFiles
    BY <1>4, <1>5
  <2>. QED  BY <1>3, <1>5, <2>1, <2>2, LogsKept
<1>. QED  BY <1>7, <1>8, <1>9, <1>10, <1>12, <1>13, <1>14, <1>15 DEF IInv

-----------------------------------------------------------------------------
(* The steps that change a file *)

LEMMA LineParts ==
  ASSUME NEW f, NEW k
  PROVE  /\ Len(LineOf(f, k)) = IF f = "history" THEN 2 ELSE 1
         /\ \A j \in 1 .. Len(LineOf(f, k)) : LineOf(f, k)[j] = Piece(k, j)
<1>1. CASE f = "history"
  <2>1. LineOf(f, k) = <<Piece(k, 1), Piece(k, 2)>>
    BY <1>1 DEF LineOf, Entry
  <2>2. Len(LineOf(f, k)) = 2 /\ LineOf(f, k)[1] = Piece(k, 1) /\ LineOf(f, k)[2] = Piece(k, 2)
    BY <2>1
  <2>3. \A j \in 1 .. 2 : j = 1 \/ j = 2
    OBVIOUS
  <2>. QED  BY <1>1, <2>2, <2>3
<1>2. CASE f # "history"
  <2>1. LineOf(f, k) = <<Piece(k, 1)>>
    BY <1>2 DEF LineOf
  <2>2. Len(LineOf(f, k)) = 1 /\ LineOf(f, k)[1] = Piece(k, 1)
    BY <2>1
  <2>3. \A j \in 1 .. 1 : j = 1
    OBVIOUS
  <2>. QED  BY <1>2, <2>2, <2>3
<1>. QED  BY <1>1, <1>2

LEMMA Appended ==
  ASSUME NEW text \in Seq(Tokens), NEW token \in Tokens
  PROVE  /\ Append(text, token) \in Seq(Tokens) /\ Len(text) \in Nat
         /\ Len(Append(text, token)) = Len(text) + 1
         /\ DOMAIN text = 1 .. Len(text) /\ DOMAIN Append(text, token) = 1 .. Len(text) + 1
         /\ \A i \in DOMAIN text : Append(text, token)[i] = text[i]
         /\ Append(text, token)[Len(text) + 1] = token
OBVIOUS

\* A line that is stored stays so when more is written.
LEMMA StoredKept ==
  ASSUME NEW text \in Seq(Tokens), NEW token \in Tokens, NEW f, NEW k, NEW i \in DOMAIN text,
         Stored(text, f, k, i)
  PROVE  /\ i \in DOMAIN Append(text, token)
         /\ Stored(Append(text, token), f, k, i)
<1>. PICK new, n, m : new = Append(text, token) /\ n = Len(LineOf(f, k)) /\ m = Len(text)
  OBVIOUS
<1>1. /\ m \in Nat /\ Len(new) = m + 1 /\ DOMAIN new = 1 .. m + 1 /\ DOMAIN text = 1 .. m
      /\ \A j \in 1 .. m : new[j] = text[j]
  BY Appended
<1>2. n \in Nat
  BY LineParts
<1>3. /\ i \in 1 .. m /\ i + n <= m /\ (i = 1 \/ IsLineEnd(text[i - 1]))
      /\ \A j \in 1 .. n : text[i + j - 1] = LineOf(f, k)[j]
      /\ text[i + n] = Piece(k, 0)
  BY <1>1 DEF Stored
<1>4. new[i + n] = text[i + n]
  BY <1>1, <1>2, <1>3
<1>5. ASSUME NEW j \in 1 .. n PROVE new[i + j - 1] = text[i + j - 1]
  BY <1>1, <1>2, <1>3
<1>6. i = 1 \/ new[i - 1] = text[i - 1]
  BY <1>1, <1>3
<1>7. i + n <= Len(new) /\ i \in DOMAIN new
  BY <1>1, <1>2, <1>3
<1>8. Stored(new, f, k, i)
  BY <1>3, <1>4, <1>5, <1>6, <1>7 DEF Stored
<1>. QED  BY <1>7, <1>8

\* The next piece of a line that nobody disturbs: the token, after which the rest is
\* still to do.
NextPiece(f, k, n, text, todo, rest, token) ==
  /\ n \in 0 .. Len(LineOf(f, k)) /\ text \in Seq(Tokens) /\ token \in Tokens
  /\ token = todo[1].token /\ Midway(todo, text, f, k, n)
  /\ \E m \in Nat : /\ DOMAIN todo = 1 .. m + 1 /\ DOMAIN rest = 1 .. m
                    /\ \A i \in 1 .. m : rest[i] = todo[i + 1]

LEMMA MidwayStep ==
  ASSUME NEW f, NEW k, NEW n, NEW text, NEW todo, NEW rest, NEW token,
         NextPiece(f, k, n, text, todo, rest, token)
  PROVE  /\ token.line = k
         /\ IsLineEnd(token) =>
              /\ Len(text) - n + 1 \in DOMAIN Append(text, token)
              /\ Stored(Append(text, token), f, k, Len(text) - n + 1)
         /\ 1 \in DOMAIN rest /\ rest[1].name = "put" =>
              n + 1 \in 0 .. Len(LineOf(f, k)) /\ Midway(rest, Append(text, token), f, k, n + 1)
<1>a. PICK m \in Nat : /\ DOMAIN todo = 1 .. m + 1 /\ DOMAIN rest = 1 .. m
                     /\ \A i \in 1 .. m : rest[i] = todo[i + 1]
  BY DEF NextPiece
<1>b. n \in 0 .. Len(LineOf(f, k)) /\ text \in Seq(Tokens) /\ token \in Tokens
     /\ token = todo[1].token /\ Midway(todo, text, f, k, n)
  BY DEF NextPiece
<1>0. PICK new, w, l, start, left :
       /\ new = Append(text, token) /\ w = Len(LineOf(f, k)) /\ l = Len(text)
       /\ start = l - n /\ left = w - n + 1
  OBVIOUS
<1>1. /\ l \in Nat /\ Len(new) = l + 1 /\ DOMAIN new = 1 .. l + 1 /\ new[l + 1] = token
      /\ \A j \in 1 .. l : new[j] = text[j]
  BY <1>b, <1>0, Appended
<1>2. w \in Nat /\ w >= 1 /\ \A j \in 1 .. w : LineOf(f, k)[j] = Piece(k, j)
  <2>1. Len(LineOf(f, k)) = (IF f = "history" THEN 2 ELSE 1)
    BY LineParts, Zenon
  <2>2. \A j \in 1 .. Len(LineOf(f, k)) : LineOf(f, k)[j] = Piece(k, j)
    BY LineParts, Zenon
  <2>3. w = Len(LineOf(f, k))
    BY <1>0
  <2>. QED  BY <2>1, <2>2, <2>3
<1>3. /\ start \in Nat /\ (start = 0 \/ IsLineEnd(text[start]))
      /\ \A j \in 1 .. n : text[start + j] = LineOf(f, k)[j]
      /\ \A i \in 1 .. left : /\ i \in DOMAIN todo /\ todo[i].name = "put"
                              /\ i < left => todo[i].token = Piece(k, n + i)
                              /\ i = left => todo[i].token = Piece(k, 0)
      /\ \A i \in DOMAIN todo : i > left => todo[i].name # "put"
  BY <1>b, <1>0 DEF Midway
<1>4. /\ n \in 0 .. w /\ n \in Nat /\ left \in Nat /\ left >= 1 /\ left = w - n + 1
      /\ start \in 0 .. l /\ start + n = l
  BY <1>b, <1>0, <1>1, <1>2, <1>3
<1>5. (left = 1 => token = Piece(k, 0)) /\ (left # 1 => token = Piece(k, n + 1))
  BY <1>b, <1>3, <1>4
<1>6. token.line = k /\ (IsLineEnd(token) => left = 1) /\ (left # 1 => token = Piece(k, n + 1))
  BY <1>4, <1>5 DEF Piece, IsLineEnd
<1>7. start = 0 \/ IsLineEnd(new[start])
  BY <1>1, <1>3, <1>4
<1>8. \A j \in 1 .. n : new[start + j] = LineOf(f, k)[j]
  BY <1>1, <1>3, <1>4
<1>9. ASSUME IsLineEnd(token)
      PROVE  start + 1 \in DOMAIN new /\ Stored(new, f, k, start + 1)
  <2>1. n = w /\ token = Piece(k, 0)
    BY <1>2, <1>4, <1>5, <1>6, <1>9
  <2>2. new[(start + 1) + w] = Piece(k, 0) /\ (start + 1) + w <= Len(new)
    BY <1>1, <1>4, <2>1
  <2>3. (start + 1) - 1 = start /\ \A j \in 1 .. w : (start + 1) + j - 1 = start + j
    BY <1>4
  <2>4. start + 1 = 1 \/ IsLineEnd(new[(start + 1) - 1])
    <3>1. new[(start + 1) - 1] = new[start]
      BY <2>3
    <3>. QED  BY <1>7, <3>1
  <2>5. \A j \in 1 .. w : new[(start + 1) + j - 1] = LineOf(f, k)[j]
    BY <1>8, <2>1, <2>3
  <2>6. start + 1 \in DOMAIN new
    BY <1>1, <1>4
  <2>. QED  BY <2>2, <2>4, <2>5, <2>6, <1>0 DEF Stored
<1>10. ASSUME 1 \in DOMAIN rest, rest[1].name = "put"
       PROVE  n + 1 \in 0 .. w /\ Midway(rest, new, f, k, n + 1)
  <2>1. todo[2].name = "put" /\ 2 \in DOMAIN todo
    BY <1>a, <1>10
  <2>2. left >= 2
    BY <1>3, <1>4, <2>1
  <2>3. n + 1 \in 0 .. w
    BY <1>2, <1>4, <2>2
  <2>. PICK b : b = w - (n + 1) + 1
    OBVIOUS
  <2>4. b = left - 1 /\ b \in Nat /\ Len(new) - (n + 1) = start
    BY <1>1, <1>2, <1>4, <2>2
  <2>5. \A j \in 1 .. n + 1 : new[start + j] = LineOf(f, k)[j]
    <3>. SUFFICES ASSUME NEW j \in 1 .. n + 1 PROVE new[start + j] = LineOf(f, k)[j]
      OBVIOUS
    <3>1. CASE j = n + 1
      <4>1. start + j = l + 1 /\ token = Piece(k, n + 1) /\ n + 1 \in 1 .. w
        BY <1>2, <1>4, <1>6, <2>2, <2>3, <3>1
      <4>. QED  BY <1>1, <1>2, <3>1, <4>1
    <3>2. CASE j # n + 1
      <4>1. j \in 1 .. n
        BY <1>4, <3>2
      <4>. QED  BY <1>8, <4>1
    <3>. QED  BY <3>1, <3>2
  <2>6. ASSUME NEW i \in 1 .. b
        PROVE  /\ i \in DOMAIN rest /\ rest[i].name = "put"
               /\ i < b => rest[i].token = Piece(k, (n + 1) + i)
               /\ i = b => rest[i].token = Piece(k, 0)
    <3>1. i + 1 \in 1 .. left /\ i \in Nat /\ (i = b => i + 1 = left) /\ (i < b => i + 1 < left)
      BY <1>4, <2>4
    <3>2. i + 1 \in 1 .. m + 1
      BY <1>a, <1>3, <3>1
    <3>3. i \in 1 .. m
      BY <1>a, <3>1, <3>2
    <3>4. /\ i < b => todo[i + 1].token = Piece(k, (n + 1) + i)
          /\ i = b => todo[i + 1].token = Piece(k, 0)
      <4>1. n + (i + 1) = (n + 1) + i
        BY <1>4, <3>1
      <4>. QED  BY <1>3, <3>1, <4>1
    <3>. QED  BY <1>a, <1>3, <3>1, <3>3, <3>4
  <2>7. ASSUME NEW i \in DOMAIN rest, i > b PROVE rest[i].name # "put"
    <3>1. i \in 1 .. m /\ i \in Nat
      BY <1>a, <2>7
    <3>2. i + 1 > left
      BY <1>4, <2>4, <2>7, <3>1
    <3>4. i + 1 \in 1 .. m + 1
      BY <1>a, <3>1
    <3>3. i + 1 \in DOMAIN todo /\ rest[i] = todo[i + 1]
      BY <1>a, <3>1, <3>4
    <3>. QED  BY <1>3, <3>2, <3>3
  <2>. QED  BY <1>3, <1>7, <2>3, <2>4, <2>5, <2>6, <2>7, <1>0 DEF Midway
<1>. QED  BY <1>0, <1>6, <1>9, <1>10

\* A process that is to write has opened the file: whoever runs goes on running.
LEMMA RunsOn ==
  ASSUME IInv, NEW p \in Running, proc'[p].cmd = proc[p].cmd,
         \A q \in Procs \ {p} : proc'[q].cmd = proc[q].cmd,
         company' = company, proc[p].cmd # "disconnect"
  PROVE  /\ AloneOK' /\ RemovedOK'
         /\ \A q \in Running' \ company' : q = p /\ Alone(p)
<1>1. Running' = Running
  BY DEF Running
<1>2. AloneOK' /\ \A q \in Running' \ company' : q = p /\ Alone(p)
  BY <1>1 DEF IInv, AloneOK, Alone
<1>3. RemovedOK'
  BY <1>2 DEF RemovedOK, Alone
<1>. QED  BY <1>2, <1>3

LEMMA OpenedParts ==
  ASSUME NEW p \in DOMAIN proc, NEW f, NEW todo
  PROVE  [proc EXCEPT ![p].open = f, ![p].todo = todo] =
           [proc EXCEPT ![p] = [proc[p] EXCEPT !.open = f, !.todo = todo]]
OBVIOUS

LEMMA OpenTruncatedInv ==
  ASSUME IInv, NEW p \in Procs, OpenTruncated(p)
  PROVE  IInv'
<1>1. /\ ProcOK /\ FilesOK /\ CountsOK /\ PastOK /\ WrittenOK /\ DeviceOK
      /\ devices \in Nat /\ entries \in Nat
      /\ "create" \in Names /\ "put" \in Names /\ At(p, "create")
  BY Bounded DEF IInv, CountsOK, Names, OpenTruncated
<1>2. /\ p \in Running /\ ~At(p, "put") /\ proc[p].cmd # "disconnect" /\ proc[p].open = "none"
      /\ proc[p].todo # <<>> /\ proc[p].todo[1].name = "create" /\ proc[p].todo[1] \in Calls
      /\ CallOK(proc[p].todo[1], devices, entries) /\ Head(proc[p].todo) = proc[p].todo[1]
      /\ proc[p].cmd # "idle"
  BY <1>1, AtOnly, AtParts
<1>3. PICK f, token : f = proc[p].todo[1].file /\ token = proc[p].todo[1].token
  OBVIOUS
<1>4. /\ f \in JsonFiles /\ token \in Tokens /\ f = File(p)
      /\ f = "identity" => token \in [device_id : 1 .. devices]
  BY <1>2, <1>3 DEF CallOK, Calls, File
<1>5. PICK c : c = Call("put", f, token)
  OBVIOUS
<1>6. /\ c \in Calls /\ c.name = "put" /\ c.file = f /\ c.token = token
      /\ CallOK(c, devices, entries)
  <2>1. c \in Calls /\ c.name = "put" /\ c.file = f /\ c.token = token
    BY <1>1, <1>4, <1>5, CallParts, FileNames
  <2>2. f \notin LogFiles
    BY <1>4, FileNames
  <2>. QED  BY <1>4, <2>1, <2>2 DEF CallOK
<1>7. /\ Rest(p) \in Seq(Calls) /\ Len(Rest(p)) \in Nat
      /\ DOMAIN Rest(p) = 1 .. Len(Rest(p)) /\ DOMAIN proc[p].todo = 1 .. Len(Rest(p)) + 1
      /\ \A i \in 1 .. Len(Rest(p)) : Rest(p)[i] = proc[p].todo[i + 1]
  BY <1>1, <1>2, RestParts
<1>8. PICK todo : todo = <<c>> \o Rest(p)
  OBVIOUS
<1>9. /\ todo \in Seq(Calls) /\ DOMAIN todo = 1 .. Len(Rest(p)) + 1 /\ todo[1] = c
      /\ todo # <<>> /\ Head(todo) = c
      /\ \A i \in 1 .. Len(Rest(p)) : todo[i + 1] = Rest(p)[i]
  <2>1. /\ todo \in Seq(Calls) /\ DOMAIN todo = 1 .. Len(Rest(p)) + 1 /\ todo[1] = c
        /\ \A i \in 1 .. Len(Rest(p)) : todo[i + 1] = Rest(p)[i]
    BY <1>6, <1>7, <1>8, Prepended
  <2>2. todo # <<>> /\ Head(todo) = todo[1]
    <3>1. 1 \in DOMAIN todo
      BY <1>7, <2>1
    <3>2. \A s \in Seq(Calls) : 1 \in DOMAIN s => s # <<>> /\ Head(s) = s[1]
      OBVIOUS
    <3>. QED  BY <2>1, <3>1, <3>2
  <2>. QED  BY <2>1, <2>2
<1>10. PICK r : r = [proc[p] EXCEPT !.open = f, !.todo = todo]
  OBVIOUS
<1>11. /\ r.cmd = proc[p].cmd /\ r.open = f /\ r.todo = todo /\ r.device = proc[p].device
       /\ r \in [cmd : Commands \cup {"idle"}, todo : Seq(Calls),
                 open : Files \cup {"none", "gone"}, device : 0 .. devices]
  <2>1. /\ proc[p] \in [cmd : Commands \cup {"idle"}, todo : Seq(Calls),
                        open : Files \cup {"none", "gone"}, device : 0 .. devices]
        /\ f \in Files
    BY <1>1, <1>4, FileNames DEF ProcOK
  <2>. QED  BY <1>9, <1>10, <2>1
<1>12. /\ exists' = exists \cup {f} /\ content' = [content EXCEPT ![f] = <<>>]
       /\ proc' = [proc EXCEPT ![p] = r]
       /\ holds' = holds /\ company' = company /\ clean' = clean /\ torn' = torn
       /\ intact' = intact /\ lastDevice' = lastDevice
       /\ starts' = starts /\ devices' = devices /\ entries' = entries /\ clock' = clock
       /\ installed' = installed /\ events' = events
  <2>1. proc' = [proc EXCEPT ![p].open = f,
                             ![p].todo = <<Call("put", f, Head(proc[p].todo).token)>> \o Rest(p)]
    BY <1>1, <1>4 DEF OpenTruncated, ProcOK
  <2>2. proc' = [proc EXCEPT ![p].open = f, ![p].todo = todo]
    BY <1>2, <1>3, <1>5, <1>8, <2>1
  <2>3. p \in DOMAIN proc
    BY <1>1 DEF ProcOK
  <2>4. proc' = [proc EXCEPT ![p] = r]
    BY <1>10, <2>2, <2>3, OpenedParts
  <2>5. exists' = exists \cup {f} /\ content' = [content EXCEPT ![f] = <<>>]
    BY <1>4 DEF OpenTruncated, Truncated
  <2>. QED  BY <2>4, <2>5 DEF OpenTruncated, boundVars, pastVars
<1>13. /\ proc'[p] = r /\ \A q \in Procs \ {p} : proc'[q] = proc[q]
  BY <1>1, <1>12 DEF ProcOK
<1>14. TodoOK(r, devices, entries) /\ AsksOK(r) /\ DisconnectOK(r)
  BY <1>1, <1>2, <1>3, <1>6, <1>8, <1>11, PrependTodo
<1>15. \A i \in DOMAIN todo : i # 1 =>
         /\ i \in DOMAIN proc[p].todo /\ todo[i] = proc[p].todo[i]
         /\ todo[i].name \notin {"create", "put"}
  <2>. SUFFICES ASSUME NEW i \in DOMAIN todo, i # 1
                PROVE  /\ i \in DOMAIN proc[p].todo /\ todo[i] = proc[p].todo[i]
                       /\ todo[i].name \notin {"create", "put"}
    OBVIOUS
  <2>1. i - 1 \in 1 .. Len(Rest(p)) /\ (i - 1) + 1 = i
    BY <1>7, <1>9
  <2>2. todo[i] = Rest(p)[i - 1] /\ i - 1 \in DOMAIN Rest(p) /\ Rest(p)[i - 1] = proc[p].todo[i]
    BY <1>7, <1>9, <2>1
  <2>3. Rest(p)[i - 1].name \notin {"create", "put"}
    BY <1>1, <1>2, <2>2, RestNames
  <2>4. i \in DOMAIN proc[p].todo
    BY <1>7, <1>9
  <2>. QED  BY <2>2, <2>3, <2>4
<1>16. ProcOK'
  <2>1. r.open \in (IF r.todo # <<>> /\ Head(r.todo).name = "put"
                      THEN {Head(r.todo).file, "gone"} ELSE {"none"})
    BY <1>6, <1>9, <1>11
  <2>2. /\ r.open \in Files => r.open \in exists'
        /\ r.cmd = "idle" => r.todo = <<>>
        /\ \A q \in Procs \ {p} : proc[q].open \in Files => proc[q].open \in exists'
    BY <1>1, <1>2, <1>11, <1>12 DEF ProcOK
  <2>3. /\ devices' \in Nat /\ devices <= devices' /\ entries' \in Nat /\ entries <= entries'
        /\ TodoOK(r, devices', entries')
        /\ r \in [cmd : Commands \cup {"idle"}, todo : Seq(Calls),
                  open : Files \cup {"none", "gone"}, device : 0 .. devices']
    <3>1. devices' = devices /\ entries' = entries
      BY <1>12
    <3>. QED  BY <1>1, <1>11, <1>14, <3>1
  <2>. QED  BY <1>1, <1>12, <1>14, <2>1, <2>2, <2>3, ProcKept
<1>17. FilesOK'
  <2>1. /\ content' \in [Files -> Seq(Tokens)] /\ content'[f] = <<>>
        /\ \A g \in Files \ {f} : content'[g] = content[g]
    <3>1. <<>> \in Seq(Tokens) /\ f \in Files
      BY <1>4, FileNames
    <3>. QED  BY <1>1, <1>12, <3>1 DEF FilesOK
  <2>2. Len(content'[f]) = 0 /\ DOMAIN content'[f] = {}
    BY <2>1
  <2>3. f \notin LogFiles /\ f \in Files
    BY <1>4, FileNames
  <2>4. /\ exists' \subseteq Files
        /\ \A g \in Files \ exists' : content'[g] = <<>>
        /\ \A g \in JsonFiles : Len(content'[g]) <= 1
        /\ \A g \in Files \ (JsonFiles \cup LogFiles) : content'[g] = <<>>
    BY <1>1, <1>12, <2>1, <2>2, <2>3, FileNames DEF FilesOK
  <2>5. \A i \in DOMAIN content'["identity"] : content'["identity"][i] \in [device_id : 1 .. devices]
    BY <1>1, <2>1, <2>2, FileNames DEF FilesOK
  <2>6. \A g \in LogFiles : \A i \in DOMAIN content'[g] :
          content'[g][i] \in [line : 1 .. entries, piece : 0 .. 2]
    BY <1>1, <2>1, <2>3, FileNames DEF FilesOK
  <2>7. devices' = devices /\ entries' = entries
    BY <1>12
  <2>. QED  BY <2>1, <2>4, <2>5, <2>6, <2>7 DEF FilesOK
<1>18. CountsOK'
  <2>1. Pending' \subseteq Pending
    <3>1. ASSUME NEW i \in DOMAIN todo, todo[i].name = "identity" PROVE p \in Pending
      <4>1. i # 1
        BY <1>6, <1>9, <3>1
      <4>. QED  BY <1>15, <3>1, <4>1 DEF Pending
    <3>2. proc'[p].todo = todo
      BY <1>11, <1>13
    <3>. QED  BY <1>13, <3>1, <3>2 DEF Pending
  <2>. QED  BY <1>1, <1>12, <2>1, CountsKept
<1>19. PastOK'
  BY <1>1, <1>12 DEF PastOK
<1>20. /\ AloneOK' /\ RemovedOK'
       /\ \A q \in Running' \ company' : q = p /\ Alone(p)
  BY <1>2, <1>11, <1>12, <1>13, RunsOn
<1>21. WrittenOK'
  <2>. SUFFICES ASSUME NEW g \in JsonFiles \cap exists'
                PROVE  Len(content'[g]) = 1 \/ g \in torn' \/ \E q \in Procs : proc'[q].open = g
    BY DEF WrittenOK
  <2>1. CASE g = f
    BY <1>11, <1>13, <2>1
  <2>2. CASE g # f
    <3>1. g \in exists /\ content'[g] = content[g]
      BY <1>1, <1>12, <2>2, FileNames DEF FilesOK
    <3>2. Len(content[g]) = 1 \/ g \in torn \/ \E q \in Procs : proc[q].open = g
      BY <1>1, <3>1 DEF WrittenOK
    <3>3. ASSUME NEW q \in Procs, proc[q].open = g PROVE proc'[q].open = g
      <4>1. q # p
        BY <1>2, <3>3, FileNames
      <4>. QED  BY <1>13, <3>3, <4>1
    <3>. QED  BY <1>12, <3>1, <3>2, <3>3
  <2>. QED  BY <2>1, <2>2
<1>22. DeviceOK'
  <2>1. ~At(p, "store")'
    BY <1>6, <1>9, <1>11, <1>13 DEF At
  <2>2. proc'[p].open # "gone"
    BY <1>4, <1>11, <1>13, FileNames
  <2>3. ASSUME lastDevice # NoDevice
        PROVE  Identity(lastDevice)' /\ \A q \in Procs : ~Writes(q, "identity")'
    <3>1. Identity(lastDevice) /\ \A q \in Procs : ~Writes(q, "identity")
      BY <1>1, <2>3 DEF DeviceOK
    <3>2. f # "identity"
      <4>1. 1 \in DOMAIN proc[p].todo
        BY <1>7
      <4>. QED  BY <1>2, <1>3, <3>1, <4>1 DEF Writes
    <3>3. Identity(lastDevice)'
      BY <1>1, <1>12, <3>1, <3>2, FileNames DEF Identity, FilesOK
    <3>4. ~Writes(p, "identity")'
      BY <1>6, <1>9, <1>11, <1>13, <1>15, <3>2 DEF Writes
    <3>5. ASSUME NEW q \in Procs \ {p} PROVE ~Writes(q, "identity")'
      BY <1>13, <3>1 DEF Writes
    <3>. QED  BY <3>3, <3>4, <3>5
  <2>. QED  BY <1>12, <1>20, <2>1, <2>2, <2>3 DEF DeviceOK, Alone
<1>23. PiecesOK' /\ IntactOK' /\ CleanOK'
  <2>1. f \notin LogFiles
    BY <1>4, FileNames
  <2>2. \A g \in LogFiles : content'[g] = content[g]
    BY <1>1, <1>12, <2>1, FileNames DEF FilesOK
  <2>3. \A i \in DOMAIN proc'[p].todo :
          proc'[p].todo[i].name = "put" => proc'[p].todo[i].file \notin LogFiles
    BY <1>6, <1>9, <1>11, <1>13, <1>15, <2>1
  <2>4. p \notin clean
    BY <1>2 DEF IInv, CleanOK
  <2>5. clean' = clean \ {p} /\ proc'[p].open \notin LogFiles
    BY <1>11, <1>12, <1>13, <2>1, <2>4
  <2>. QED  BY <1>12, <1>13, <2>2, <2>3, <2>5, LogsKept
<1>. QED  BY <1>16, <1>17, <1>18, <1>19, <1>20, <1>21, <1>22, <1>23 DEF IInv

\* What process p is to write, and where.
LEMMA PutParts ==
  ASSUME IInv, NEW p \in Procs, At(p, "put")
  PROVE  LET f == File(p)
             token == Head(proc[p].todo).token
             more == Rest(p) # <<>> /\ Head(Rest(p)).name = "put"
         IN
         /\ p \in Running /\ proc[p].cmd # "disconnect" /\ proc[p].cmd # "idle"
         /\ proc[p].todo # <<>> /\ 1 \in DOMAIN proc[p].todo /\ PutsTo(proc[p].todo, f, 1)
         /\ token \in Tokens /\ token = proc[p].todo[1].token /\ f = proc[p].todo[1].file
         /\ proc[p].todo[1].name = "put"
         /\ f \in JsonFiles \cup LogFiles
         /\ f = "identity" => token \in [device_id : 1 .. devices]
         /\ f \in LogFiles => token \in [line : 1 .. entries, piece : 0 .. 2]
         /\ proc[p].open \in {f, "gone"} /\ (proc[p].open = f => f \in exists)
         /\ more \in BOOLEAN
         /\ more <=> 1 \in DOMAIN Rest(p) /\ Rest(p)[1].name = "put"
         /\ more => Head(Rest(p)).file = f
<1>1. ProcOK /\ "put" \in Names
  BY DEF IInv, Names
<1>2. /\ p \in Running /\ proc[p].cmd # "disconnect" /\ proc[p].cmd # "idle"
      /\ proc[p].todo # <<>> /\ proc[p].todo[1].name = "put" /\ proc[p].todo[1] \in Calls
      /\ CallOK(proc[p].todo[1], devices, entries) /\ Head(proc[p].todo) = proc[p].todo[1]
      /\ File(p) = proc[p].todo[1].file
  BY <1>1, AtOnly, AtParts
<1>3. /\ Rest(p) \in Seq(Calls) /\ Len(Rest(p)) \in Nat /\ DOMAIN Rest(p) = 1 .. Len(Rest(p))
      /\ DOMAIN proc[p].todo = 1 .. Len(Rest(p)) + 1 /\ 1 \in DOMAIN proc[p].todo
      /\ \A i \in 1 .. Len(Rest(p)) : Rest(p)[i] = proc[p].todo[i + 1]
  BY <1>1, <1>2, RestParts
<1>4. PICK f, token, rest : f = File(p) /\ token = proc[p].todo[1].token /\ rest = Rest(p)
  OBVIOUS
<1>5. /\ f \in JsonFiles \cup LogFiles /\ token \in Tokens
      /\ f = "identity" => token \in [device_id : 1 .. devices]
      /\ f \in LogFiles => token \in [line : 1 .. entries, piece : 0 .. 2]
  BY <1>2, <1>4 DEF CallOK, Calls
<1>6. proc[p].open \in {f, "gone"} /\ (proc[p].open = f => f \in exists)
  <2>1. f \in Files
    BY <1>5, FileNames
  <2>. QED  BY <1>1, <1>4, <2>1 DEF ProcOK
<1>7. /\ (rest # <<>> /\ Head(rest).name = "put") <=> 1 \in DOMAIN rest /\ rest[1].name = "put"
      /\ 1 \in DOMAIN rest => Head(rest) = rest[1]
  <2>1. \A s \in Seq(Calls) : /\ s # <<>> <=> 1 \in DOMAIN s
                              /\ 1 \in DOMAIN s => Head(s) = s[1]
    OBVIOUS
  <2>2. rest \in Seq(Calls)
    BY <1>3, <1>4
  <2>. QED  BY <2>1, <2>2
<1>8. 1 \in DOMAIN rest /\ rest[1].name = "put" => rest[1].file = f
  <2>1. ASSUME 1 \in DOMAIN rest, rest[1].name = "put" PROVE rest[1].file = f
    <3>1. 2 \in DOMAIN proc[p].todo /\ rest[1] = proc[p].todo[2]
      BY <1>3, <1>4, <2>1
    <3>2. TodoOK(proc[p], devices, entries)
      BY <1>1 DEF ProcOK
    <3>3. 1 \in 1 .. 2
      OBVIOUS
    <3>. QED  BY <1>2, <1>4, <2>1, <3>1, <3>2, <3>3 DEF TodoOK
  <2>. QED  BY <2>1
<1>9. PutsTo(proc[p].todo, f, 1)
  BY <1>2, <1>3, <1>4 DEF PutsTo
<1>. QED  BY <1>2, <1>3, <1>4, <1>5, <1>6, <1>7, <1>8, <1>9

\* What a write does, in short.
PutAs(p, r, f, token) ==
  /\ proc' = [proc EXCEPT ![p] = r]
  /\ r \in [cmd : Commands \cup {"idle"}, todo : Seq(Calls),
            open : Files \cup {"none", "gone"}, device : 0 .. devices]
  /\ r.cmd = proc[p].cmd /\ r.todo = Rest(p) /\ r.device = proc[p].device
  /\ r.open = IF 1 \in DOMAIN Rest(p) /\ Rest(p)[1].name = "put" THEN proc[p].open ELSE "none"
  /\ proc[p].open # f => content' = content /\ intact' = intact /\ torn' = torn
  /\ proc[p].open = f =>
       /\ content' = [content EXCEPT ![f] = IF f \in LogFiles THEN Append(@, token) ELSE <<token>>]
       /\ intact' = IF f \in LogFiles /\ IsLineEnd(token) /\ p \in clean
                      THEN intact \cup {<<f, token.line>>} ELSE intact
       /\ torn' = torn \ {f}
  /\ clean' = IF 1 \in DOMAIN Rest(p) /\ Rest(p)[1].name = "put" THEN clean ELSE clean \ {p}
  /\ exists' = exists /\ holds' = holds /\ company' = company /\ lastDevice' = lastDevice
  /\ starts' = starts /\ devices' = devices /\ entries' = entries /\ clock' = clock
  /\ installed' = installed /\ events' = events

LEMMA PutIs ==
  ASSUME IInv, NEW p \in Procs, Put(p)
  PROVE  /\ At(p, "put")
         /\ \E r : PutAs(p, r, File(p), Head(proc[p].todo).token)
<1>1. At(p, "put")
  BY DEF Put
<1>2. PICK f, token : f = File(p) /\ token = Head(proc[p].todo).token
  OBVIOUS
<1>. DEFINE more == Rest(p) # <<>> /\ Head(Rest(p)).name = "put"
            next == 1 \in DOMAIN Rest(p) /\ Rest(p)[1].name = "put"
<1>3. (more <=> next) /\ token \in Tokens /\ (proc[p].open = f => f \in exists)
  BY <1>1, <1>2, PutParts
<1>4. /\ p \in DOMAIN proc
      /\ proc[p] \in [cmd : Commands \cup {"idle"}, todo : Seq(Calls),
                      open : Files \cup {"none", "gone"}, device : 0 .. devices]
  BY DEF IInv, ProcOK
<1>. HIDE DEF more, next
<1>5. PICK o : o = IF more THEN proc[p].open ELSE "none"
  OBVIOUS
<1>6. proc' = [proc EXCEPT ![p].open = o, ![p].todo = Rest(p)]
  <2>1. proc' = [proc EXCEPT ![p].open = IF more THEN @ ELSE "none", ![p].todo = Rest(p)]
    BY DEF Put, more
  <2>. QED  BY <1>4, <1>5, <2>1
<1>7. PICK r : r = [proc[p] EXCEPT !.open = o, !.todo = Rest(p)]
  OBVIOUS
<1>8. proc' = [proc EXCEPT ![p] = r]
  BY <1>4, <1>6, <1>7, OpenedParts
<1>9. /\ r.cmd = proc[p].cmd /\ r.todo = Rest(p) /\ r.device = proc[p].device /\ r.open = o
      /\ r \in [cmd : Commands \cup {"idle"}, todo : Seq(Calls),
                open : Files \cup {"none", "gone"}, device : 0 .. devices]
  <2>1. o \in Files \cup {"none", "gone"} /\ Rest(p) \in Seq(Calls)
    <3>1. proc[p].todo # <<>> /\ ProcOK
      BY <1>1 DEF At, IInv
    <3>. QED  BY <1>4, <1>5, <3>1, RestParts
  <2>. QED  BY <1>4, <1>7, <2>1
<1>10. /\ proc[p].open # f => content' = content /\ intact' = intact /\ torn' = torn
       /\ proc[p].open = f =>
            /\ content' = [content EXCEPT ![f] = IF f \in LogFiles THEN Append(@, token) ELSE <<token>>]
            /\ intact' = IF f \in LogFiles /\ IsLineEnd(token) /\ p \in clean
                           THEN intact \cup {<<f, token.line>>} ELSE intact
            /\ torn' = torn \ {f}
  <2>1. Append(Truncated(f), token) = <<token>>
    BY DEF Truncated
  <2>. QED  BY <1>2, <2>1 DEF Put
<1>11. clean' = IF more THEN clean ELSE clean \ {p}
  BY DEF Put, more
<1>12. PutAs(p, r, f, token)
  <2>1. r.open = IF next THEN proc[p].open ELSE "none"
    BY <1>3, <1>5, <1>9
  <2>2. clean' = IF next THEN clean ELSE clean \ {p}
    BY <1>3, <1>11
  <2>. QED  BY <1>8, <1>9, <1>10, <2>1, <2>2 DEF PutAs, Put, boundVars, next
<1>. QED  BY <1>1, <1>2, <1>12

LEMMA PutLogs ==
  ASSUME IInv, NEW p \in Procs, At(p, "put"), NEW r, NEW f, NEW token,
         f = File(p), token = Head(proc[p].todo).token, PutAs(p, r, f, token)
  PROVE  PiecesOK' /\ IntactOK' /\ CleanOK'
<1>. DEFINE rest == Rest(p)
            m == Len(rest)
            next == 1 \in DOMAIN rest /\ rest[1].name = "put"
            there == proc[p].open = f
<1>1. ProcOK /\ FilesOK /\ PastOK /\ PiecesOK /\ IntactOK /\ CleanOK
  BY DEF IInv
<1>2. /\ proc[p].todo # <<>> /\ 1 \in DOMAIN proc[p].todo /\ PutsTo(proc[p].todo, f, 1)
      /\ token \in Tokens /\ token = proc[p].todo[1].token /\ f \in JsonFiles \cup LogFiles
      /\ proc[p].open \in {f, "gone"} /\ f \in Files
      /\ next => Head(rest).file = f
  BY PutParts, FileNames
<1>3. /\ m \in Nat /\ DOMAIN rest = 1 .. m /\ DOMAIN proc[p].todo = 1 .. m + 1
      /\ \A i \in 1 .. m : rest[i] = proc[p].todo[i + 1]
      /\ next => rest # <<>> /\ Head(rest) = rest[1]
  <2>1. /\ rest \in Seq(Calls) /\ m \in Nat /\ DOMAIN rest = 1 .. m /\ DOMAIN proc[p].todo = 1 .. m + 1
        /\ \A i \in 1 .. m : rest[i] = proc[p].todo[i + 1]
    BY <1>1, <1>2, RestParts
  <2>2. \A s \in Seq(Calls) : 1 \in DOMAIN s => s # <<>> /\ Head(s) = s[1]
    OBVIOUS
  <2>. HIDE DEF rest
  <2>. QED  BY <2>1, <2>2
<1>4. /\ proc'[p].todo = rest /\ proc'[p].open = IF next THEN proc[p].open ELSE "none"
      /\ \A q \in Procs \ {p} : proc'[q] = proc[q]
      /\ entries' = entries
      /\ clean' = IF next THEN clean ELSE clean \ {p}
  <2>1. proc' = [proc EXCEPT ![p] = r] /\ r.todo = rest
        /\ r.open = IF next THEN proc[p].open ELSE "none"
    BY DEF PutAs
  <2>2. proc'[p] = r /\ \A q \in Procs \ {p} : proc'[q] = proc[q]
    BY <1>1, <2>1 DEF ProcOK
  <2>. HIDE DEF rest, next
  <2>3. entries' = entries /\ clean' = IF next THEN clean ELSE clean \ {p}
    BY DEF PutAs, next, rest
  <2>. QED  BY <2>1, <2>2, <2>3
<1>5. ASSUME NEW g \in LogFiles
      PROVE  /\ content[g] \in Seq(Tokens)
             /\ there /\ g = f => content'[g] = Append(content[g], token)
             /\ ~(there /\ g = f) => content'[g] = content[g]
  <2>1. content[g] \in Seq(Tokens) /\ g \in Files /\ g \in DOMAIN content /\ f \in DOMAIN content
    BY <1>1, <1>2, FileNames DEF FilesOK
  <2>. QED  BY <2>1 DEF PutAs
<1>6. /\ intact' = IF there /\ f \in LogFiles /\ IsLineEnd(token) /\ p \in clean
                     THEN intact \cup {<<f, token.line>>} ELSE intact
  BY DEF PutAs
<1>. HIDE DEF rest, m, next, there
<1>7. PiecesOK'
  <2>. DEFINE Ix(q, i) == IF q = p THEN i + 1 ELSE i
  <2>1. ASSUME NEW g \in LogFiles, NEW q \in Procs, NEW i \in DOMAIN proc'[q].todo,
               PutsTo(proc'[q].todo, g, i)
        PROVE  /\ Ix(q, i) \in DOMAIN proc[q].todo /\ PutsTo(proc[q].todo, g, Ix(q, i))
               /\ proc'[q].todo[i] = proc[q].todo[Ix(q, i)] /\ (q = p => Ix(q, i) # 1)
               /\ q = p => i \in Nat
    <3>1. CASE q = p
      <4>1. i \in 1 .. m /\ proc'[q].todo[i] = proc[p].todo[i + 1] /\ i + 1 \in 1 .. m + 1
        BY <1>3, <1>4, <2>1, <3>1
      <4>. QED  BY <1>3, <2>1, <3>1, <4>1 DEF PutsTo
    <3>2. CASE q # p
      BY <1>4, <2>1, <3>2
    <3>. QED  BY <3>1, <3>2
  <2>. SUFFICES ASSUME NEW g \in LogFiles
                PROVE  /\ \A i, j \in DOMAIN content'[g] : content'[g][i] = content'[g][j] => i = j
                       /\ \A q \in Procs : \A i \in DOMAIN proc'[q].todo : PutsTo(proc'[q].todo, g, i) =>
                            /\ \A j \in DOMAIN content'[g] : content'[g][j] # proc'[q].todo[i].token
                            /\ \A o \in Procs : \A j \in DOMAIN proc'[o].todo :
                                 /\ PutsTo(proc'[o].todo, g, j)
                                 /\ proc'[o].todo[j].token = proc'[q].todo[i].token
                                 => q = o /\ i = j
    BY DEF PiecesOK
  <2>2. /\ \A i, j \in DOMAIN content[g] : content[g][i] = content[g][j] => i = j
        /\ \A q \in Procs : \A i \in DOMAIN proc[q].todo : PutsTo(proc[q].todo, g, i) =>
             /\ \A j \in DOMAIN content[g] : content[g][j] # proc[q].todo[i].token
             /\ \A o \in Procs : \A j \in DOMAIN proc[o].todo :
                  PutsTo(proc[o].todo, g, j) /\ proc[o].todo[j].token = proc[q].todo[i].token
                  => q = o /\ i = j
    BY <1>1 DEF PiecesOK
  <2>3. ASSUME NEW q \in Procs, NEW i \in DOMAIN proc'[q].todo, PutsTo(proc'[q].todo, g, i),
               NEW o \in Procs, NEW j \in DOMAIN proc'[o].todo, PutsTo(proc'[o].todo, g, j),
               proc'[o].todo[j].token = proc'[q].todo[i].token
        PROVE  q = o /\ i = j
    <3>1. q = o /\ Ix(q, i) = Ix(o, j)
      <4>1. /\ Ix(q, i) \in DOMAIN proc[q].todo /\ PutsTo(proc[q].todo, g, Ix(q, i))
            /\ proc'[q].todo[i] = proc[q].todo[Ix(q, i)]
        BY <2>1, <2>3
      <4>2. /\ Ix(o, j) \in DOMAIN proc[o].todo /\ PutsTo(proc[o].todo, g, Ix(o, j))
            /\ proc'[o].todo[j] = proc[o].todo[Ix(o, j)]
        BY <2>1, <2>3
      <4>. HIDE DEF Ix
      <4>. QED  BY <2>2, <2>3, <4>1, <4>2
    <3>2. q = p => i \in Nat /\ j \in Nat
      BY <2>1, <2>3, <3>1
    <3>. QED  BY <3>1, <3>2
  <2>4. ASSUME NEW q \in Procs, NEW i \in DOMAIN proc'[q].todo, PutsTo(proc'[q].todo, g, i)
        PROVE  /\ \A j \in DOMAIN content[g] : content[g][j] # proc'[q].todo[i].token
               /\ g = f => token # proc'[q].todo[i].token
    <3>1. /\ Ix(q, i) \in DOMAIN proc[q].todo /\ PutsTo(proc[q].todo, g, Ix(q, i))
          /\ proc'[q].todo[i] = proc[q].todo[Ix(q, i)] /\ (q = p => Ix(q, i) # 1)
      BY <2>1, <2>4
    <3>. HIDE DEF Ix
    <3>2. \A j \in DOMAIN content[g] : content[g][j] # proc'[q].todo[i].token
      BY <2>2, <3>1
    <3>3. g = f => token # proc'[q].todo[i].token
      BY <1>2, <2>2, <3>1
    <3>. QED  BY <3>2, <3>3
  <2>5. CASE there /\ g = f
    <3>1. \A j \in DOMAIN content[g] : content[g][j] # token
      BY <1>2, <2>2, <2>5
    <3>. PICK old, l : old = content[g] /\ l = Len(content[g])
      OBVIOUS
    <3>2. /\ l \in Nat /\ DOMAIN old = 1 .. l /\ DOMAIN content'[g] = 1 .. l + 1
          /\ \A j \in 1 .. l : content'[g][j] = old[j]
          /\ content'[g][l + 1] = token
      BY <1>2, <1>5, <2>5, Appended
    <3>3. \A j \in DOMAIN content'[g] : j \in 1 .. l \/ j = l + 1
      BY <3>2
    <3>4. ASSUME NEW i \in DOMAIN content'[g], NEW j \in DOMAIN content'[g],
                 content'[g][i] = content'[g][j]
          PROVE  i = j
      <4>1. \A k \in 1 .. l : old[k] # token
        BY <3>1, <3>2
      <4>2. CASE i \in 1 .. l /\ j \in 1 .. l
        <5>1. old[i] = old[j] /\ i \in DOMAIN content[g] /\ j \in DOMAIN content[g]
          BY <3>2, <3>4, <4>2
        <5>. QED  BY <2>2, <5>1
      <4>3. CASE i \in 1 .. l /\ j = l + 1
        BY <3>2, <3>4, <4>1, <4>3
      <4>4. CASE i = l + 1 /\ j \in 1 .. l
        BY <3>2, <3>4, <4>1, <4>4
      <4>. QED  BY <3>3, <4>2, <4>3, <4>4
    <3>5. ASSUME NEW q \in Procs, NEW i \in DOMAIN proc'[q].todo, PutsTo(proc'[q].todo, g, i),
                 NEW j \in DOMAIN content'[g]
          PROVE  content'[g][j] # proc'[q].todo[i].token
      BY <2>4, <2>5, <3>2, <3>3, <3>5
    <3>. QED  BY <2>3, <3>4, <3>5
  <2>6. CASE ~(there /\ g = f)
    <3>1. content'[g] = content[g]
      BY <1>5, <2>6
    <3>. QED  BY <2>2, <2>3, <2>4, <3>1
  <2>. QED  BY <2>5, <2>6
<1>8. ASSUME there, f \in LogFiles, p \in clean
      PROVE  /\ \A q \in Procs : proc[q].open = f => q = p
             /\ \E k \in 1 .. entries : \E n \in 0 .. Len(LineOf(f, k)) :
                  Midway(proc[p].todo, content[f], f, k, n)
  BY <1>1, <1>8, FileNames DEF CleanOK, there
<1>9. IntactOK'
  <2>1. ASSUME NEW line \in intact
        PROVE  \E i \in DOMAIN content'[line[1]] : Stored(content'[line[1]], line[1], line[2], i)
    <3>1. line[1] \in LogFiles
      BY <1>1 DEF PastOK
    <3>2. PICK i \in DOMAIN content[line[1]] : Stored(content[line[1]], line[1], line[2], i)
      BY <1>1 DEF IntactOK
    <3>3. CASE there /\ line[1] = f
      <4>1. f \in LogFiles /\ i \in DOMAIN content[f] /\ Stored(content[f], f, line[2], i)
        BY <3>1, <3>2, <3>3
      <4>2. content[f] \in Seq(Tokens) /\ content'[f] = Append(content[f], token)
        BY <1>5, <3>3, <4>1
      <4>3. i \in DOMAIN Append(content[f], token) /\ Stored(Append(content[f], token), f, line[2], i)
        BY <1>2, <4>1, <4>2, StoredKept
      <4>. QED  BY <3>3, <4>2, <4>3
    <3>4. CASE ~(there /\ line[1] = f)
      BY <1>5, <3>1, <3>2, <3>4
    <3>. QED  BY <3>3, <3>4
  <2>2. ASSUME there, f \in LogFiles, IsLineEnd(token), p \in clean
        PROVE  \E i \in DOMAIN content'[f] : Stored(content'[f], f, token.line, i)
    <3>1. PICK k \in 1 .. entries : \E n \in 0 .. Len(LineOf(f, k)) :
            Midway(proc[p].todo, content[f], f, k, n)
      BY <1>8, <2>2
    <3>2. PICK n \in 0 .. Len(LineOf(f, k)) : Midway(proc[p].todo, content[f], f, k, n)
      BY <3>1
    <3>3. content[f] \in Seq(Tokens) /\ content'[f] = Append(content[f], token)
      BY <1>5, <2>2
    <3>. PICK todo, more, l : todo = proc[p].todo /\ more = rest /\ l = m
      OBVIOUS
    <3>4. /\ l \in Nat /\ DOMAIN todo = 1 .. l + 1 /\ DOMAIN more = 1 .. l
          /\ \A i \in 1 .. l : more[i] = todo[i + 1]
          /\ token \in Tokens /\ token = todo[1].token /\ Midway(todo, content[f], f, k, n)
      BY <1>2, <1>3, <3>2
    <3>5. NextPiece(f, k, n, content[f], todo, more, token)
      BY <3>2, <3>3, <3>4 DEF NextPiece
    <3>6. /\ token.line = k
          /\ Len(content[f]) - n + 1 \in DOMAIN Append(content[f], token)
          /\ Stored(Append(content[f], token), f, k, Len(content[f]) - n + 1)
      BY <2>2, <3>5, MidwayStep
    <3>. QED  BY <3>3, <3>6
  <2>3. ASSUME NEW line \in intact'
        PROVE  \E i \in DOMAIN content'[line[1]] : Stored(content'[line[1]], line[1], line[2], i)
    <3>1. CASE line \in intact
      BY <2>1, <3>1
    <3>2. CASE line \notin intact
      <4>1. /\ there /\ f \in LogFiles /\ IsLineEnd(token) /\ p \in clean
            /\ line = <<f, token.line>>
        BY <1>6, <2>3, <3>2
      <4>2. line[1] = f /\ line[2] = token.line
        BY <4>1
      <4>. QED  BY <2>2, <4>1, <4>2
    <3>. QED  BY <3>1, <3>2
  <2>. QED  BY <2>3 DEF IntactOK
<1>10. CleanOK'
  <2>. SUFFICES ASSUME NEW q \in clean'
                PROVE  /\ At(q, "put")' /\ File(q)' \in LogFiles
                       /\ proc'[q].open # "gone" =>
                            /\ \A o \in Procs : proc'[o].open = proc'[q].open => o = q
                            /\ \E k \in 1 .. entries' : \E n \in 0 .. Len(LineOf(File(q)', k)) :
                                 Midway(proc'[q].todo, content'[File(q)'], File(q)', k, n)
    BY DEF CleanOK
  <2>1. q \in clean /\ q \in Procs
    BY <1>1, <1>4 DEF PastOK
  <2>2. CASE q = p
    <3>1. next /\ p \in clean /\ f \in LogFiles
      BY <1>1, <1>4, <2>1, <2>2 DEF CleanOK
    <3>2. /\ At(p, "put")' /\ File(p)' = f /\ proc'[p].todo = rest /\ proc'[p].open = proc[p].open
      <4>1. rest # <<>> /\ Head(rest) = rest[1] /\ Head(rest).file = f /\ rest[1].name = "put"
        BY <1>2, <1>3, <3>1 DEF next
      <4>2. proc'[p].todo = rest /\ proc'[p].open = proc[p].open
        BY <1>4, <3>1
      <4>. QED  BY <4>1, <4>2 DEF At, File
    <3>3. ASSUME proc[p].open # "gone"
          PROVE  /\ \A o \in Procs : proc'[o].open = proc'[p].open => o = p
                 /\ \E k \in 1 .. entries : \E n \in 0 .. Len(LineOf(f, k)) :
                      Midway(rest, content'[f], f, k, n)
      <4>1. there
        BY <1>2, <3>3 DEF there
      <4>2. \A o \in Procs : proc'[o].open = proc'[p].open => o = p
        BY <1>4, <1>8, <3>1, <3>2, <4>1 DEF there
      <4>3. PICK k \in 1 .. entries : \E n \in 0 .. Len(LineOf(f, k)) :
              Midway(proc[p].todo, content[f], f, k, n)
        BY <1>8, <3>1, <4>1
      <4>4. PICK n \in 0 .. Len(LineOf(f, k)) : Midway(proc[p].todo, content[f], f, k, n)
        BY <4>3
      <4>5. content[f] \in Seq(Tokens) /\ content'[f] = Append(content[f], token)
        BY <1>5, <3>1, <4>1
      <4>. PICK todo, more, l : todo = proc[p].todo /\ more = rest /\ l = m
        OBVIOUS
      <4>6. /\ l \in Nat /\ DOMAIN todo = 1 .. l + 1 /\ DOMAIN more = 1 .. l
            /\ \A i \in 1 .. l : more[i] = todo[i + 1]
            /\ token \in Tokens /\ token = todo[1].token /\ Midway(todo, content[f], f, k, n)
            /\ 1 \in DOMAIN more /\ more[1].name = "put"
        BY <1>2, <1>3, <3>1, <4>4 DEF next
      <4>7. NextPiece(f, k, n, content[f], todo, more, token)
        BY <4>4, <4>5, <4>6 DEF NextPiece
      <4>8. n + 1 \in 0 .. Len(LineOf(f, k)) /\ Midway(more, Append(content[f], token), f, k, n + 1)
        BY <4>6, <4>7, MidwayStep
      <4>. QED  BY <4>2, <4>5, <4>8
    <3>. QED  BY <1>4, <2>2, <3>1, <3>2, <3>3
  <2>3. CASE q # p
    <3>1. proc'[q] = proc[q]
      BY <1>4, <2>1, <2>3
    <3>2. At(q, "put")' /\ File(q)' = File(q) /\ File(q) \in LogFiles
      BY <1>1, <2>1, <3>1 DEF CleanOK, At, File
    <3>3. ASSUME proc[q].open # "gone"
          PROVE  /\ \A o \in Procs : proc'[o].open = proc[q].open => o = q
                 /\ \E k \in 1 .. entries : \E n \in 0 .. Len(LineOf(File(q), k)) :
                      Midway(proc[q].todo, content'[File(q)], File(q), k, n)
      <4>1. /\ \A o \in Procs : proc[o].open = proc[q].open => o = q
            /\ \E k \in 1 .. entries : \E n \in 0 .. Len(LineOf(File(q), k)) :
                 Midway(proc[q].todo, content[File(q)], File(q), k, n)
        BY <1>1, <2>1, <3>3 DEF CleanOK
      <4>2. proc[q].open = File(q)
        BY <1>1, <2>1, <3>3 DEF CleanOK, ProcOK
      <4>3. \A o \in Procs : proc'[o].open = proc[q].open => o = q
        <5>1. ASSUME proc'[p].open = proc[q].open PROVE proc[p].open = proc[q].open
          BY <1>4, <3>2, <4>2, <5>1, FileNames
        <5>. QED  BY <1>4, <4>1, <5>1
      <4>4. ~(there /\ File(q) = f)
        BY <2>3, <4>1, <4>2 DEF there
      <4>5. content'[File(q)] = content[File(q)]
        BY <1>5, <3>2, <4>4
      <4>. QED  BY <4>1, <4>3, <4>5
    <3>. QED  BY <1>4, <3>1, <3>2, <3>3
  <2>. QED  BY <2>2, <2>3
<1>. QED  BY <1>7, <1>9, <1>10

\* A piece is written.
LEMMA PutInv ==
  ASSUME IInv, NEW p \in Procs, Put(p)
  PROVE  IInv'
<1>1. At(p, "put") /\ \E s : PutAs(p, s, File(p), Head(proc[p].todo).token)
  BY PutIs
<1>2. PICK f, token, r : f = File(p) /\ token = Head(proc[p].todo).token /\ PutAs(p, r, f, token)
  BY <1>1
<1>3. /\ ProcOK /\ FilesOK /\ CountsOK /\ PastOK /\ WrittenOK /\ DeviceOK
      /\ devices \in Nat /\ entries \in Nat
  BY Bounded DEF IInv, CountsOK
<1>4. /\ p \in Running /\ proc[p].cmd # "disconnect" /\ proc[p].cmd # "idle"
      /\ proc[p].todo # <<>> /\ 1 \in DOMAIN proc[p].todo /\ PutsTo(proc[p].todo, f, 1)
      /\ token \in Tokens /\ token = proc[p].todo[1].token /\ f = proc[p].todo[1].file
      /\ proc[p].todo[1].name = "put"
      /\ f \in JsonFiles \cup LogFiles /\ f \in Files
      /\ f = "identity" => token \in [device_id : 1 .. devices]
      /\ f \in LogFiles => token \in [line : 1 .. entries, piece : 0 .. 2]
      /\ proc[p].open \in {f, "gone"} /\ (proc[p].open = f => f \in exists)
  BY <1>1, <1>2, PutParts, FileNames
<1>. DEFINE rest == Rest(p)
            next == 1 \in DOMAIN rest /\ rest[1].name = "put"
            there == proc[p].open = f
<1>5. /\ rest \in Seq(Calls) /\ Len(rest) \in Nat
      /\ DOMAIN rest = 1 .. Len(rest) /\ DOMAIN proc[p].todo = 1 .. Len(rest) + 1
      /\ \A i \in DOMAIN rest : /\ i \in Nat /\ i + 1 \in DOMAIN proc[p].todo
                                /\ rest[i] = proc[p].todo[i + 1]
      /\ next => rest # <<>> /\ Head(rest) = rest[1] /\ rest[1].file = f
      /\ rest # <<>> => 1 \in DOMAIN rest /\ Head(rest) = rest[1]
  <2>1. /\ rest \in Seq(Calls) /\ Len(rest) \in Nat
        /\ DOMAIN rest = 1 .. Len(rest) /\ DOMAIN proc[p].todo = 1 .. Len(rest) + 1
        /\ \A i \in 1 .. Len(rest) : rest[i] = proc[p].todo[i + 1]
    BY <1>3, <1>4, RestParts
  <2>2. \A s \in Seq(Calls) : /\ 1 \in DOMAIN s => s # <<>> /\ Head(s) = s[1]
                              /\ s # <<>> => 1 \in DOMAIN s
    OBVIOUS
  <2>3. next => Head(rest).file = f
    BY <1>1, <1>2, PutParts
  <2>. HIDE DEF rest
  <2>4. \A i \in DOMAIN rest : i \in Nat /\ i + 1 \in 1 .. Len(rest) + 1
    BY <2>1
  <2>5. rest # <<>> => 1 \in DOMAIN rest /\ Head(rest) = rest[1]
    BY <2>1, <2>2
  <2>. QED  BY <2>1, <2>3, <2>4, <2>5
<1>6. /\ proc' = [proc EXCEPT ![p] = r]
      /\ r.cmd = proc[p].cmd /\ r.todo = rest /\ r.device = proc[p].device
      /\ r.open = IF next THEN proc[p].open ELSE "none"
      /\ exists' = exists /\ holds' = holds /\ company' = company /\ lastDevice' = lastDevice
      /\ starts' = starts /\ devices' = devices /\ entries' = entries /\ clock' = clock
      /\ installed' = installed /\ events' = events
  BY <1>2 DEF PutAs
<1>7. /\ clean' \subseteq clean
      /\ torn' = IF there THEN torn \ {f} ELSE torn
      /\ intact' \subseteq intact \cup (IF f \in LogFiles THEN {<<f, token.line>>} ELSE {})
  BY <1>2 DEF PutAs
<1>8. /\ ~there => content' = content
      /\ there => content' = [content EXCEPT ![f] = IF f \in LogFiles THEN Append(@, token) ELSE <<token>>]
  BY <1>2 DEF PutAs
<1>. HIDE DEF rest, next, there
<1>9. proc'[p] = r /\ \A q \in Procs \ {p} : proc'[q] = proc[q]
  BY <1>3, <1>6 DEF ProcOK
<1>10. /\ content' \in [Files -> Seq(Tokens)]
       /\ \A g \in Files : ~there \/ g # f => content'[g] = content[g]
       /\ there /\ f \in LogFiles => content'[f] = Append(content[f], token)
       /\ there /\ f \notin LogFiles => content'[f] = <<token>>
  <2>1. content \in [Files -> Seq(Tokens)]
    BY <1>3 DEF FilesOK
  <2>. PICK long, short : long = Append(content[f], token) /\ short = <<token>>
    OBVIOUS
  <2>2. long \in Seq(Tokens) /\ short \in Seq(Tokens)
    <3>1. content[f] \in Seq(Tokens) /\ token \in Tokens
      BY <1>4, <2>1
    <3>2. \A s \in Seq(Tokens) : Append(s, token) \in Seq(Tokens)
      BY <3>1
    <3>3. <<token>> \in Seq(Tokens)
      BY <3>1
    <3>. QED  BY <3>1, <3>2, <3>3
  <2>3. there => content' = [content EXCEPT ![f] = IF f \in LogFiles THEN long ELSE short]
    BY <1>8
  <2>4. content' \in [Files -> Seq(Tokens)]
    BY <1>8, <2>1, <2>2, <2>3
  <2>5. \A g \in Files : ~there \/ g # f => content'[g] = content[g]
    BY <1>8, <2>1, <2>3
  <2>6. there => content'[f] = IF f \in LogFiles THEN long ELSE short
    BY <1>4, <2>1, <2>3
  <2>. QED  BY <2>4, <2>5, <2>6
<1>11. r \in [cmd : Commands \cup {"idle"}, todo : Seq(Calls),
              open : Files \cup {"none", "gone"}, device : 0 .. devices]
       /\ TodoOK(r, devices, entries) /\ AsksOK(r) /\ DisconnectOK(r)
  <2>1. r \in [cmd : Commands \cup {"idle"}, todo : Seq(Calls),
                open : Files \cup {"none", "gone"}, device : 0 .. devices]
    BY <1>2 DEF PutAs
  <2>2. TodoOK(r, devices, entries) /\ AsksOK(r) /\ DisconnectOK(r)
    <3>1. r.todo = Rest(p)
      BY <1>6 DEF rest
    <3>. QED  BY <1>3, <1>4, <1>6, <3>1, RestTodo
  <2>. QED  BY <2>1, <2>2
<1>12. ProcOK'
  <2>1. r.open \in (IF r.todo # <<>> /\ Head(r.todo).name = "put"
                      THEN {Head(r.todo).file, "gone"} ELSE {"none"})
    <3>1. rest # <<>> /\ Head(rest).name = "put" <=> next
      BY <1>5 DEF next
    <3>2. next => Head(rest).file = f
      BY <1>5
    <3>3. r.todo = rest /\ (next => r.open = proc[p].open) /\ (~next => r.open = "none")
      BY <1>6
    <3>4. CASE next
      <4>1. Head(r.todo).file = f /\ r.open \in {f, "gone"} /\ r.todo # <<>> /\ Head(r.todo).name = "put"
        BY <1>4, <3>1, <3>2, <3>3, <3>4
      <4>. QED  BY <4>1
    <3>5. CASE ~next
      <4>1. ~(r.todo # <<>> /\ Head(r.todo).name = "put") /\ r.open = "none"
        BY <3>1, <3>3, <3>5
      <4>. QED  BY <4>1
    <3>. QED  BY <3>4, <3>5
  <2>2. /\ r.open \in Files => r.open \in exists'
        /\ r.cmd = "idle" => r.todo = <<>>
        /\ \A q \in Procs \ {p} : proc[q].open \in Files => proc[q].open \in exists'
    BY <1>3, <1>4, <1>6, FileNames DEF ProcOK
  <2>3. /\ devices' \in Nat /\ devices <= devices' /\ entries' \in Nat /\ entries <= entries'
        /\ TodoOK(r, devices', entries')
        /\ r \in [cmd : Commands \cup {"idle"}, todo : Seq(Calls),
                  open : Files \cup {"none", "gone"}, device : 0 .. devices']
    <3>1. devices' = devices /\ entries' = entries
      BY <1>6
    <3>. QED  BY <1>3, <1>11, <3>1
  <2>. QED  BY <1>3, <1>6, <1>11, <2>1, <2>2, <2>3, ProcKept
<1>13. FilesOK'
  <2>1. ASSUME there, f \in LogFiles
        PROVE  \A i \in DOMAIN content'[f] : content'[f][i] \in [line : 1 .. entries, piece : 0 .. 2]
    <3>1. PICK old, new : old = content[f] /\ new = content'[f]
      OBVIOUS
    <3>2. old \in Seq(Tokens) /\ new = Append(old, token) /\ token \in Tokens
      BY <1>3, <1>4, <1>10, <2>1, <3>1 DEF FilesOK
    <3>3. /\ \A i \in DOMAIN old : new[i] = old[i] /\ old[i] \in [line : 1 .. entries, piece : 0 .. 2]
          /\ \A i \in DOMAIN new : i \in DOMAIN old \/ new[i] = token
      <4>1. /\ Len(old) \in Nat /\ DOMAIN old = 1 .. Len(old) /\ DOMAIN new = 1 .. Len(old) + 1
            /\ \A i \in DOMAIN old : new[i] = old[i]
            /\ new[Len(old) + 1] = token
        BY <3>2, Appended
      <4>2. \A i \in DOMAIN old : old[i] \in [line : 1 .. entries, piece : 0 .. 2]
        BY <1>3, <2>1, <3>1 DEF FilesOK
      <4>3. \A i \in DOMAIN new : i \in DOMAIN old \/ i = Len(old) + 1
        BY <4>1
      <4>. QED  BY <4>1, <4>2, <4>3
    <3>4. token \in [line : 1 .. entries, piece : 0 .. 2]
      BY <1>4, <2>1
    <3>5. \A i \in DOMAIN new : new[i] \in [line : 1 .. entries, piece : 0 .. 2]
      BY <3>3, <3>4
    <3>. QED  BY <3>1, <3>5
  <2>2. ASSUME there, f \notin LogFiles
        PROVE  Len(content'[f]) = 1 /\ DOMAIN content'[f] = {1} /\ content'[f][1] = token /\ f \in JsonFiles
    <3>1. content'[f] = <<token>>
      BY <1>10, <2>2
    <3>2. Len(<<token>>) = 1 /\ DOMAIN <<token>> = {1} /\ <<token>>[1] = token
      OBVIOUS
    <3>. QED  BY <1>4, <2>2, <3>1, <3>2
  <2>3. exists' \subseteq Files /\ \A g \in Files \ exists' : content'[g] = <<>>
    <3>1. \A g \in Files \ exists' : ~there \/ g # f
      BY <1>4, <1>6 DEF there
    <3>. QED  BY <1>3, <1>6, <1>10, <3>1 DEF FilesOK
  <2>4. \A g \in JsonFiles : Len(content'[g]) <= 1
    <3>. SUFFICES ASSUME NEW g \in JsonFiles PROVE Len(content'[g]) <= 1
      OBVIOUS
    <3>1. g \in Files /\ g \notin LogFiles
      BY FileNames
    <3>2. CASE there /\ g = f
      <4>1. Len(content'[g]) = 1
        BY <2>2, <3>1, <3>2, Zenon
      <4>. QED  BY <4>1
    <3>3. CASE ~there \/ g # f
      BY <1>3, <1>10, <3>1, <3>3 DEF FilesOK
    <3>. QED  BY <3>2, <3>3
  <2>5. \A g \in Files \ (JsonFiles \cup LogFiles) : content'[g] = <<>>
    BY <1>3, <1>4, <1>10 DEF FilesOK
  <2>6. \A i \in DOMAIN content'["identity"] : content'["identity"][i] \in [device_id : 1 .. devices]
    <3>1. "identity" \in Files /\ "identity" \notin LogFiles
      BY FileNames
    <3>2. CASE there /\ "identity" = f
      BY <1>4, <2>2, <3>1, <3>2
    <3>3. CASE ~there \/ "identity" # f
      BY <1>3, <1>10, <3>1, <3>3 DEF FilesOK
    <3>. QED  BY <3>2, <3>3
  <2>7. \A g \in LogFiles : \A i \in DOMAIN content'[g] :
          content'[g][i] \in [line : 1 .. entries, piece : 0 .. 2]
    <3>. SUFFICES ASSUME NEW g \in LogFiles
                  PROVE  \A i \in DOMAIN content'[g] : content'[g][i] \in [line : 1 .. entries, piece : 0 .. 2]
      OBVIOUS
    <3>1. g \in Files
      BY FileNames
    <3>2. CASE there /\ g = f
      BY <2>1, <3>2
    <3>3. CASE ~there \/ g # f
      BY <1>3, <1>10, <3>1, <3>3 DEF FilesOK
    <3>. QED  BY <3>2, <3>3
  <2>8. devices' = devices /\ entries' = entries
    BY <1>6
  <2>. QED  BY <1>10, <2>3, <2>4, <2>5, <2>6, <2>7, <2>8 DEF FilesOK
<1>14. CountsOK'
  <2>1. Pending' \subseteq Pending
    <3>1. proc'[p].todo = rest
      BY <1>6, <1>9
    <3>2. ASSUME NEW q \in Procs, NEW i \in DOMAIN proc'[q].todo, proc'[q].todo[i].name = "identity"
          PROVE  \E j \in DOMAIN proc[q].todo : proc[q].todo[j].name = "identity"
      <4>1. CASE q = p
        BY <1>5, <3>1, <3>2, <4>1
      <4>2. CASE q # p
        BY <1>9, <3>2, <4>2
      <4>. QED  BY <4>1, <4>2
    <3>. QED  BY <3>2 DEF Pending
  <2>. QED  BY <1>3, <1>6, <2>1, CountsKept
<1>15. PastOK'
  <2>1. f \in LogFiles => token.line \in 1 .. entries
    BY <1>4
  <2>. QED  BY <1>3, <1>6, <1>7, <2>1 DEF PastOK
<1>16. /\ AloneOK' /\ RemovedOK'
       /\ \A q \in Running' \ company' : q = p /\ Alone(p)
  BY <1>4, <1>6, <1>9, RunsOn
<1>17. WrittenOK'
  <2>. SUFFICES ASSUME NEW g \in JsonFiles \cap exists'
                PROVE  Len(content'[g]) = 1 \/ g \in torn' \/ \E q \in Procs : proc'[q].open = g
    BY DEF WrittenOK
  <2>1. g \in Files /\ g \notin LogFiles /\ g # "gone"
    BY FileNames
  <2>2. CASE there /\ g = f
    <3>1. content'[g] = <<token>> /\ Len(<<token>>) = 1
      BY <1>10, <2>1, <2>2
    <3>. QED  BY <3>1
  <2>3. CASE ~there \/ g # f
    <3>1. g \in exists /\ content'[g] = content[g]
      BY <1>6, <1>10, <2>1, <2>3
    <3>2. Len(content[g]) = 1 \/ g \in torn \/ \E q \in Procs : proc[q].open = g
      BY <1>3, <3>1 DEF WrittenOK
    <3>3. g \in torn => g \in torn'
      BY <1>7, <2>3
    <3>4. ASSUME NEW q \in Procs, proc[q].open = g PROVE proc'[q].open = g
      <4>1. q # p
        BY <1>4, <2>1, <2>3, <3>4 DEF there
      <4>. QED  BY <1>9, <3>4, <4>1
    <3>. QED  BY <3>1, <3>2, <3>3, <3>4
  <2>. QED  BY <2>2, <2>3
<1>18. DeviceOK'
  <2>1. ASSUME Alone(p) PROVE there /\ r.open # "gone"
    <3>1. proc[p].open # "gone" /\ f # "gone"
      BY <1>3, <1>4, <2>1, FileNames DEF DeviceOK
    <3>. QED  BY <1>4, <1>6, <3>1 DEF there
  <2>2. ASSUME Alone(p), At(p, "store")', r.device # NoDevice
        PROVE  "identity" \in exists' /\ content'["identity"] = <<[device_id |-> r.device]>>
    <3>1. rest # <<>> /\ Head(rest).name = "store"
      BY <1>6, <1>9, <2>2 DEF At
    <3>2. 2 \in DOMAIN proc[p].todo /\ proc[p].todo[2].name = "store" /\ 2 # 1
      BY <1>5, <3>1
    <3>3. AsksOK(proc[p]) /\ proc[p].device # NoDevice
      BY <1>3, <1>6, <2>2 DEF ProcOK
    <3>4. f = "identity" /\ token = [device_id |-> proc[p].device]
      BY <1>4, <3>2, <3>3 DEF AsksOK
    <3>5. content'[f] = <<token>> /\ f \in exists
      BY <1>4, <1>10, <2>1, <2>2, <3>4, FileNames DEF there
    <3>. QED  BY <1>6, <3>4, <3>5
  <2>3. ASSUME lastDevice # NoDevice
        PROVE  Identity(lastDevice)' /\ \A q \in Procs : ~Writes(q, "identity")'
    <3>1. Identity(lastDevice) /\ \A q \in Procs : ~Writes(q, "identity")
      BY <1>3, <2>3 DEF DeviceOK
    <3>2. f # "identity"
      BY <1>4, <3>1 DEF Writes
    <3>3. Identity(lastDevice)'
      BY <1>6, <1>10, <3>1, <3>2, FileNames DEF Identity
    <3>4. ~Writes(p, "identity")'
      <4>1. proc'[p].todo = rest
        BY <1>6, <1>9
      <4>. QED  BY <1>5, <3>1, <4>1 DEF Writes
    <3>5. ASSUME NEW q \in Procs \ {p} PROVE ~Writes(q, "identity")'
      BY <1>9, <3>1 DEF Writes
    <3>. QED  BY <3>3, <3>4, <3>5
  <2>4. \A q \in Procs : Alone(q)' => q = p /\ Alone(p)
    BY <1>16 DEF Alone
  <2>. QED  BY <1>6, <1>9, <2>1, <2>2, <2>3, <2>4 DEF DeviceOK, Identity
<1>19. PiecesOK' /\ IntactOK' /\ CleanOK'
  BY <1>1, <1>2, PutLogs
<1>. QED  BY <1>12, <1>13, <1>14, <1>15, <1>16, <1>17, <1>18, <1>19 DEF IInv

-----------------------------------------------------------------------------
(* A line is begun *)

LEMMA Joined ==
  ASSUME NEW s \in Seq(Calls), NEW t \in Seq(Calls)
  PROVE  /\ s \o t \in Seq(Calls) /\ DOMAIN (s \o t) = 1 .. Len(s) + Len(t)
         /\ Len(s) \in Nat /\ Len(t) \in Nat
         /\ \A i \in 1 .. Len(s) : (s \o t)[i] = s[i]
         /\ \A i \in 1 .. Len(t) : (s \o t)[Len(s) + i] = t[i]
OBVIOUS

\* What opening a log does, in short: the w pieces of a line are to be written to f.
AppendAs(p, r, f, w) ==
  /\ proc' = [proc EXCEPT ![p] = r]
  /\ r \in [cmd : Commands \cup {"idle"}, todo : Seq(Calls),
            open : Files \cup {"none", "gone"}, device : 0 .. devices]
  /\ r.cmd = proc[p].cmd /\ r.device = proc[p].device /\ r.open = f
  /\ f \in LogFiles /\ w \in {2, 3} /\ w = Len(LineOf(f, entries + 1)) + 1
  /\ DOMAIN r.todo = 1 .. w + Len(Rest(p))
  /\ \A i \in 1 .. w : /\ r.todo[i].name = "put" /\ r.todo[i].file = f
                       /\ r.todo[i].token = Piece(entries + 1, IF i < w THEN i ELSE 0)
  /\ \A i \in 1 .. Len(Rest(p)) : r.todo[w + i] = Rest(p)[i]
  /\ clean' \subseteq clean \cup {p}
  /\ p \in clean' => /\ \A q \in Procs : proc[q].open # f
                     /\ content[f] = <<>> \/ IsLineEnd(content[f][Len(content[f])])
  /\ \A q \in clean' \ {p} : proc[q].open # f
  /\ entries' = entries + 1 /\ Event /\ exists' = exists \cup {f} /\ content' = content
  /\ holds' = holds /\ company' = company /\ lastDevice' = lastDevice /\ intact' = intact
  /\ torn' = torn /\ starts' = starts /\ devices' = devices /\ clock' = clock
  /\ installed' = installed

LEMMA AppendIs ==
  ASSUME IInv, NEW p \in Procs, OpenAppend(p)
  PROVE  At(p, "append") /\ \E r, w : AppendAs(p, r, File(p), w)
<1>1. /\ ProcOK /\ PastOK /\ entries \in Nat /\ At(p, "append") /\ "append" \in Names
      /\ "put" \in Names
  BY Bounded DEF IInv, CountsOK, Names, OpenAppend
<1>2. PICK f, k : f = File(p) /\ k = entries + 1
  OBVIOUS
<1>3. proc[p].todo # <<>> /\ f \in LogFiles /\ f \in Files /\ f # "none"
  BY <1>1, <1>2, AtParts, FileNames DEF CallOK
<1>4. PICK pieces : pieces = IF f = "history" THEN <<1, 2, 0>> ELSE <<1, 0>>
  OBVIOUS
<1>5. PICK w : w = Len(pieces)
  OBVIOUS
<1>6. /\ w \in {2, 3} /\ w = Len(LineOf(f, k)) + 1 /\ DOMAIN pieces = 1 .. w
      /\ \A i \in 1 .. w : pieces[i] = (IF i < w THEN i ELSE 0) /\ pieces[i] \in 0 .. 2
  <2>1. Len(LineOf(f, k)) = IF f = "history" THEN 2 ELSE 1
    BY LineParts
  <2>2. CASE f = "history"
    <3>1. /\ w = 3 /\ DOMAIN pieces = 1 .. 3
          /\ pieces[1] = 1 /\ pieces[2] = 2 /\ pieces[3] = 0
      BY <1>4, <1>5, <2>2
    <3>2. \A i \in 1 .. 3 : i = 1 \/ i = 2 \/ i = 3
      OBVIOUS
    <3>. QED  BY <2>1, <2>2, <3>1, <3>2
  <2>3. CASE f # "history"
    <3>1. w = 2 /\ DOMAIN pieces = 1 .. 2 /\ pieces[1] = 1 /\ pieces[2] = 0
      BY <1>4, <1>5, <2>3
    <3>2. \A i \in 1 .. 2 : i = 1 \/ i = 2
      OBVIOUS
    <3>. QED  BY <2>1, <2>3, <3>1, <3>2
  <2>. QED  BY <2>2, <2>3
<1>7. PICK puts : puts = [i \in DOMAIN pieces |-> Call("put", f, Piece(k, pieces[i]))]
  OBVIOUS
<1>8. /\ puts \in Seq(Calls) /\ Len(puts) = w
      /\ \A i \in 1 .. w : /\ puts[i].name = "put" /\ puts[i].file = f
                           /\ puts[i].token = Piece(k, IF i < w THEN i ELSE 0)
  <2>1. ASSUME NEW i \in 1 .. w
        PROVE  /\ puts[i] \in Calls /\ puts[i].name = "put" /\ puts[i].file = f
               /\ puts[i].token = Piece(k, IF i < w THEN i ELSE 0)
    <3>1. puts[i] = Call("put", f, Piece(k, pieces[i])) /\ Piece(k, pieces[i]) \in Tokens
      BY <1>1, <1>2, <1>6, <1>7 DEF Piece, Tokens
    <3>. QED  BY <1>1, <1>3, <1>6, <3>1, CallParts
  <2>2. DOMAIN puts = 1 .. w /\ w \in Nat
    BY <1>6, <1>7
  <2>3. puts \in [1 .. w -> Calls]
    BY <1>6, <1>7, <2>1
  <2>. QED  BY <2>1, <2>2, <2>3
<1>9. Rest(p) \in Seq(Calls) /\ Len(Rest(p)) \in Nat
  BY <1>1, <1>3, RestParts
<1>10. PICK todo : todo = puts \o Rest(p)
  OBVIOUS
<1>11. /\ todo \in Seq(Calls) /\ DOMAIN todo = 1 .. w + Len(Rest(p))
       /\ \A i \in 1 .. w : todo[i] = puts[i]
       /\ \A i \in 1 .. Len(Rest(p)) : todo[w + i] = Rest(p)[i]
  BY <1>8, <1>9, <1>10, Joined
<1>12. PICK r : r = [proc[p] EXCEPT !.open = f, !.todo = todo]
  OBVIOUS
<1>13. /\ r \in [cmd : Commands \cup {"idle"}, todo : Seq(Calls),
                 open : Files \cup {"none", "gone"}, device : 0 .. devices]
       /\ r.cmd = proc[p].cmd /\ r.device = proc[p].device /\ r.open = f /\ r.todo = todo
       /\ p \in DOMAIN proc
  <2>1. /\ proc[p] \in [cmd : Commands \cup {"idle"}, todo : Seq(Calls),
                        open : Files \cup {"none", "gone"}, device : 0 .. devices]
        /\ p \in DOMAIN proc
    BY <1>1 DEF ProcOK
  <2>. QED  BY <1>3, <1>11, <1>12, <2>1
<1>14. proc' = [proc EXCEPT ![p] = r]
  <2>1. proc' = [proc EXCEPT ![p].open = f, ![p].todo = todo]
    BY <1>2, <1>4, <1>7, <1>10 DEF OpenAppend
  <2>. QED  BY <1>12, <1>13, <2>1, OpenedParts
<1>15. /\ clean' \subseteq clean \cup {p}
       /\ p \in clean' => /\ \A q \in Procs : proc[q].open # f
                          /\ content[f] = <<>> \/ IsLineEnd(content[f][Len(content[f])])
       /\ \A q \in clean' \ {p} : proc[q].open # f
  <2>. DEFINE writing == {q \in Procs : proc[q].open = f}
              fresh == writing = {} /\ (content[f] = <<>> \/ IsLineEnd(Last(content[f])))
  <2>1. clean' = IF fresh THEN clean \cup {p} ELSE clean \ (writing \cup {p})
    BY <1>2 DEF OpenAppend
  <2>2. CASE fresh
    BY <1>1, <2>1, <2>2 DEF PastOK, Last
  <2>3. CASE ~fresh
    <3>1. clean' = clean \ (writing \cup {p})
      BY <2>1, <2>3
    <3>. QED  BY <1>1, <3>1 DEF PastOK
  <2>. QED  BY <2>2, <2>3
<1>16. /\ Event /\ entries' = k /\ exists' = exists \cup {f}
       /\ content' = content /\ holds' = holds /\ company' = company /\ lastDevice' = lastDevice
       /\ intact' = intact /\ torn' = torn /\ starts' = starts /\ devices' = devices
       /\ clock' = clock /\ installed' = installed
  BY <1>2 DEF OpenAppend
<1>17. AppendAs(p, r, f, w)
  BY <1>2, <1>3, <1>6, <1>8, <1>11, <1>13, <1>14, <1>15, <1>16 DEF AppendAs
<1>. QED  BY <1>1, <1>2, <1>17

\* What it has then to do,
LEMMA AppendTodo ==
  ASSUME IInv, NEW p \in Procs, At(p, "append"), NEW r, NEW w, AppendAs(p, r, File(p), w)
  PROVE  /\ TodoOK(r, devices', entries') /\ AsksOK(r) /\ DisconnectOK(r)
         /\ \A i \in DOMAIN r.todo :
              \/ i \in 1 .. w /\ PutsTo(r.todo, File(p), i)
              \/ /\ i \notin 1 .. w /\ r.todo[i].name \notin {"put", "create", "unlink"}
                 /\ r.todo[i].name = "identity" => p \in Pending
<1>. DEFINE rest == Rest(p)
            m == Len(rest)
<1>1. /\ ProcOK /\ devices \in Nat /\ entries \in Nat /\ entries + 1 \in Nat
      /\ entries <= entries + 1 /\ "append" \in Names
  BY Bounded DEF IInv, CountsOK, Names
<1>2. /\ proc[p].todo # <<>> /\ proc[p].todo[1].name = "append" /\ proc[p].cmd # "disconnect"
      /\ File(p) = proc[p].todo[1].file /\ File(p) \in LogFiles
  BY <1>1, AtParts, AtOnly DEF CallOK
<1>3. /\ m \in Nat /\ DOMAIN rest = 1 .. m /\ DOMAIN proc[p].todo = 1 .. m + 1
      /\ \A i \in 1 .. m : rest[i] = proc[p].todo[i + 1]
  BY <1>1, <1>2, RestParts
<1>4. \A i \in DOMAIN rest : /\ CallOK(rest[i], devices, entries)
                             /\ rest[i].name \notin {"put", "create", "unlink"}
  BY <1>1, <1>2, RestNames
<1>5. PICK f, d, e, todo : f = File(p) /\ d = devices /\ e = entries + 1 /\ todo = r.todo
  OBVIOUS
<1>6. /\ todo \in Seq(Calls) /\ w \in {2, 3} /\ w \in Nat /\ DOMAIN todo = 1 .. w + m
      /\ \A i \in 1 .. w : /\ todo[i].name = "put" /\ todo[i].file = f
                           /\ todo[i].token = Piece(e, IF i < w THEN i ELSE 0)
      /\ \A i \in 1 .. m : todo[w + i] = rest[i]
      /\ r.cmd = proc[p].cmd /\ r.device = proc[p].device
      /\ devices' = d /\ entries' = e
  BY <1>5 DEF AppendAs
<1>. HIDE DEF rest, m
<1>7. \A i \in DOMAIN todo :
        \/ i \in 1 .. w
        \/ /\ i \notin 1 .. w /\ i \in Nat /\ i - w \in 1 .. m /\ i - w \in DOMAIN rest
           /\ todo[i] = rest[i - w] /\ (i - w) + 1 \in DOMAIN proc[p].todo
           /\ (i - w) + 1 = i - w + 1 /\ todo[i] = proc[p].todo[i - w + 1]
  <2>. SUFFICES ASSUME NEW i \in DOMAIN todo, i \notin 1 .. w
                PROVE  /\ i \in Nat /\ i - w \in 1 .. m /\ i - w \in DOMAIN rest
                       /\ todo[i] = rest[i - w] /\ (i - w) + 1 \in DOMAIN proc[p].todo
                       /\ (i - w) + 1 = i - w + 1 /\ todo[i] = proc[p].todo[i - w + 1]
    OBVIOUS
  <2>1. i \in Nat /\ i - w \in 1 .. m /\ w + (i - w) = i /\ (i - w) + 1 \in 1 .. m + 1
    BY <1>3, <1>6
  <2>. QED  BY <1>3, <1>6, <2>1
<1>8. ASSUME NEW i \in 1 .. w PROVE CallOK(todo[i], d, e)
  <2>1. /\ todo[i].name = "put" /\ todo[i].file = f
        /\ todo[i].token = Piece(e, IF i < w THEN i ELSE 0)
    BY <1>6
  <2>2. (IF i < w THEN i ELSE 0) \in 0 .. 2 /\ e \in 1 .. e
    BY <1>1, <1>5, <1>6
  <2>3. todo[i].token \in [line : 1 .. e, piece : 0 .. 2]
    BY <2>1, <2>2 DEF Piece
  <2>4. f \in LogFiles /\ f \notin JsonFiles /\ f # "identity"
    BY <1>2, <1>5, FileNames
  <2>. QED  BY <2>1, <2>3, <2>4 DEF CallOK
<1>9. ASSUME NEW i \in DOMAIN rest PROVE CallOK(rest[i], d, e)
  BY <1>4, <1>9 DEF CallOK
<1>10. TodoOK(r, d, e)
  <2>. SUFFICES ASSUME NEW i \in DOMAIN todo
                PROVE  /\ CallOK(todo[i], d, e)
                       /\ todo[i].name \in {"create", "unlink"} => i = 1
                       /\ todo[i].name = "put" =>
                            \A j \in 1 .. i : todo[j].name = "put" /\ todo[j].file = todo[i].file
    BY <1>5, <1>6 DEF TodoOK
  <2>1. CASE i \in 1 .. w
    <3>1. \A j \in 1 .. i : j \in 1 .. w
      BY <1>6, <2>1
    <3>. QED  BY <1>6, <1>8, <2>1, <3>1
  <2>2. CASE i \notin 1 .. w
    BY <1>4, <1>7, <1>9, <2>2
  <2>. QED  BY <2>1, <2>2
<1>11. AsksOK(r)
  <2>1. AsksOK(proc[p])
    BY <1>1 DEF ProcOK
  <2>2. \A i \in DOMAIN todo : todo[i].name \in {"identity", "store"} =>
          /\ i \notin 1 .. w /\ i \in Nat /\ i - w + 1 \in DOMAIN proc[p].todo /\ i - w + 1 # 1
          /\ i - w + 1 \in Nat /\ todo[i] = proc[p].todo[i - w + 1]
    <3>. SUFFICES ASSUME NEW i \in DOMAIN todo, todo[i].name \in {"identity", "store"}
                  PROVE  /\ i \notin 1 .. w /\ i \in Nat /\ i - w + 1 \in DOMAIN proc[p].todo
                         /\ i - w + 1 # 1 /\ i - w + 1 \in Nat /\ todo[i] = proc[p].todo[i - w + 1]
      OBVIOUS
    <3>1. i \notin 1 .. w
      BY <1>6
    <3>2. /\ i \in Nat /\ i - w \in 1 .. m /\ (i - w) + 1 \in DOMAIN proc[p].todo
          /\ (i - w) + 1 = i - w + 1 /\ todo[i] = proc[p].todo[i - w + 1]
      BY <1>7, <3>1
    <3>3. i - w + 1 # 1 /\ i - w + 1 \in Nat
      BY <1>3, <1>6, <3>2
    <3>. QED  BY <3>1, <3>2, <3>3
  <2>3. ASSUME NEW i \in DOMAIN todo, NEW j \in DOMAIN todo, todo[i].name = todo[j].name,
               todo[i].name \in {"identity", "store"}
        PROVE  i = j
    <3>1. /\ i \in Nat /\ i - w + 1 \in DOMAIN proc[p].todo /\ todo[i] = proc[p].todo[i - w + 1]
          /\ j \in Nat /\ j - w + 1 \in DOMAIN proc[p].todo /\ todo[j] = proc[p].todo[j - w + 1]
      BY <2>2, <2>3
    <3>2. i - w + 1 = j - w + 1
      BY <2>1, <2>3, <3>1 DEF AsksOK
    <3>. QED  BY <1>6, <3>1, <3>2
  <2>4. ASSUME NEW i \in DOMAIN todo, todo[i].name = "identity"
        PROVE  r.device = NoDevice /\ i + 1 \in DOMAIN todo /\ todo[i + 1].name = "store"
    <3>1. /\ i \notin 1 .. w /\ i \in Nat /\ i - w + 1 \in DOMAIN proc[p].todo
          /\ i - w + 1 \in Nat /\ todo[i] = proc[p].todo[i - w + 1]
      BY <2>2, <2>4
    <3>2. /\ proc[p].device = NoDevice /\ (i - w + 1) + 1 \in DOMAIN proc[p].todo
          /\ proc[p].todo[(i - w + 1) + 1].name = "store"
      BY <2>1, <2>4, <3>1 DEF AsksOK
    <3>3. /\ i + 1 \in DOMAIN todo /\ i + 1 \notin 1 .. w /\ (i + 1) - w + 1 = (i - w + 1) + 1
      <4>1. /\ m \in Nat /\ w \in Nat /\ i \in 1 .. w + m /\ i \notin 1 .. w
            /\ (i - w + 1) + 1 \in 1 .. m + 1 /\ DOMAIN todo = 1 .. w + m
        BY <1>3, <1>6, <3>1, <3>2
      <4>2. i + 1 \in 1 .. w + m /\ i + 1 \notin 1 .. w /\ (i + 1) - w + 1 = (i - w + 1) + 1
        BY <4>1
      <4>. QED  BY <4>1, <4>2
    <3>4. todo[i + 1] = proc[p].todo[(i + 1) - w + 1]
      BY <1>7, <3>3
    <3>. QED  BY <1>6, <3>2, <3>3, <3>4
  <2>5. ASSUME NEW i \in DOMAIN todo, todo[i].name = "store" PROVE r.device = NoDevice
    <3>1. /\ i - w + 1 \in DOMAIN proc[p].todo /\ i - w + 1 # 1
          /\ todo[i] = proc[p].todo[i - w + 1]
      BY <2>2, <2>5
    <3>. QED  BY <1>2, <1>6, <2>1, <2>5, <3>1 DEF AsksOK
  <2>. QED  BY <1>5, <2>3, <2>4, <2>5 DEF AsksOK
<1>12. DisconnectOK(r)
  BY <1>2, <1>6 DEF DisconnectOK
<1>13. ASSUME NEW i \in DOMAIN todo
       PROVE  \/ i \in 1 .. w /\ PutsTo(todo, f, i)
              \/ /\ i \notin 1 .. w /\ todo[i].name \notin {"put", "create", "unlink"}
                 /\ todo[i].name = "identity" => p \in Pending
  <2>1. CASE i \in 1 .. w
    BY <1>6, <2>1 DEF PutsTo
  <2>2. CASE i \notin 1 .. w
    <3>1. todo[i].name \notin {"put", "create", "unlink"}
      BY <1>4, <1>7, <2>2
    <3>2. todo[i].name = "identity" => p \in Pending
      BY <1>7, <2>2 DEF Pending
    <3>. QED  BY <2>2, <3>1, <3>2
  <2>. QED  BY <2>1, <2>2
<1>. QED  BY <1>5, <1>6, <1>10, <1>11, <1>12, <1>13

\* and that no line is broken by it that it does not say so.
LEMMA AppendLogs ==
  ASSUME IInv, NEW p \in Procs, At(p, "append"), NEW r, NEW w, AppendAs(p, r, File(p), w)
  PROVE  PiecesOK' /\ IntactOK' /\ CleanOK'
<1>1. /\ ProcOK /\ FilesOK /\ PastOK /\ PiecesOK /\ IntactOK /\ CleanOK /\ entries \in Nat
  BY Bounded DEF IInv, CountsOK
<1>2. PICK f, e, todo : f = File(p) /\ e = entries + 1 /\ todo = r.todo
  OBVIOUS
<1>3. \A i \in DOMAIN todo :
        \/ i \in 1 .. w /\ PutsTo(todo, f, i)
        \/ i \notin 1 .. w /\ todo[i].name \notin {"put", "create", "unlink"}
  BY <1>2, AppendTodo
<1>4. /\ todo \in Seq(Calls) /\ w \in {2, 3} /\ w \in Nat /\ w = Len(LineOf(f, e)) + 1
      /\ \A i \in 1 .. w : /\ i \in DOMAIN todo /\ todo[i].name = "put" /\ todo[i].file = f
                           /\ todo[i].token = Piece(e, IF i < w THEN i ELSE 0)
      /\ r.open = f /\ f \in LogFiles
  <2>1. /\ todo \in Seq(Calls) /\ w \in {2, 3} /\ w = Len(LineOf(f, e)) + 1
        /\ \A i \in 1 .. w : /\ todo[i].name = "put" /\ todo[i].file = f
                             /\ todo[i].token = Piece(e, IF i < w THEN i ELSE 0)
        /\ DOMAIN todo = 1 .. w + Len(Rest(p)) /\ r.open = f /\ f \in LogFiles
    BY <1>2 DEF AppendAs
  <2>2. Len(Rest(p)) \in Nat
    <3>1. proc[p].todo # <<>>
      BY DEF At
    <3>. QED  BY <1>1, <3>1, RestParts
  <2>3. 1 .. w \subseteq 1 .. w + Len(Rest(p))
    BY <2>1, <2>2
  <2>. QED  BY <2>1, <2>3
<1>5. /\ proc'[p] = r /\ \A q \in Procs \ {p} : proc'[q] = proc[q]
      /\ content' = content /\ intact' = intact /\ entries' = e
  BY <1>1, <1>2 DEF AppendAs, ProcOK
<1>6. ASSUME NEW q \in Procs, NEW g \in LogFiles, NEW i \in DOMAIN proc[q].todo,
             PutsTo(proc[q].todo, g, i)
      PROVE  proc[q].todo[i].token.line \in 1 .. entries
  BY <1>1, <1>6 DEF ProcOK, TodoOK, PutsTo, CallOK
<1>7. ASSUME NEW g \in LogFiles, NEW i \in DOMAIN content[g]
      PROVE  content[g][i].line \in 1 .. entries
  BY <1>1, <1>7 DEF FilesOK
<1>8. e \notin 1 .. entries
  BY <1>1, <1>2
<1>9. PiecesOK'
  <2>. SUFFICES ASSUME NEW g \in LogFiles
                PROVE  /\ \A i, j \in DOMAIN content'[g] : content'[g][i] = content'[g][j] => i = j
                       /\ \A q \in Procs : \A i \in DOMAIN proc'[q].todo : PutsTo(proc'[q].todo, g, i) =>
                            /\ \A j \in DOMAIN content'[g] : content'[g][j] # proc'[q].todo[i].token
                            /\ \A o \in Procs : \A j \in DOMAIN proc'[o].todo :
                                 /\ PutsTo(proc'[o].todo, g, j)
                                 /\ proc'[o].todo[j].token = proc'[q].todo[i].token
                                 => q = o /\ i = j
    BY DEF PiecesOK
  <2>1. /\ \A i, j \in DOMAIN content[g] : content[g][i] = content[g][j] => i = j
        /\ \A q \in Procs : \A i \in DOMAIN proc[q].todo : PutsTo(proc[q].todo, g, i) =>
             /\ \A j \in DOMAIN content[g] : content[g][j] # proc[q].todo[i].token
             /\ \A o \in Procs : \A j \in DOMAIN proc[o].todo :
                  PutsTo(proc[o].todo, g, j) /\ proc[o].todo[j].token = proc[q].todo[i].token
                  => q = o /\ i = j
    BY <1>1 DEF PiecesOK
  <2>2. ASSUME NEW i \in DOMAIN todo, PutsTo(todo, g, i)
        PROVE  /\ i \in 1 .. w /\ todo[i].token.line = e
               /\ todo[i].token.piece = (IF i < w THEN i ELSE 0)
    <3>1. i \in 1 .. w
      BY <1>3, <2>2 DEF PutsTo
    <3>2. todo[i].token = Piece(e, IF i < w THEN i ELSE 0)
      BY <1>4, <3>1
    <3>3. \A n : Piece(e, n).line = e /\ Piece(e, n).piece = n
      BY DEF Piece
    <3>. QED  BY <3>1, <3>2, <3>3, Zenon
  <2>3. ASSUME NEW i \in DOMAIN todo, PutsTo(todo, g, i), NEW j \in DOMAIN todo, PutsTo(todo, g, j),
               todo[i].token = todo[j].token
        PROVE  i = j
    <3>1. (IF i < w THEN i ELSE 0) = (IF j < w THEN j ELSE 0)
      BY <2>2, <2>3, Zenon
    <3>2. i \in 1 .. w /\ j \in 1 .. w
      BY <2>2, <2>3
    <3>. QED  BY <1>4, <3>1, <3>2
  <2>4. ASSUME NEW q \in Procs, NEW i \in DOMAIN proc'[q].todo, PutsTo(proc'[q].todo, g, i),
               NEW o \in Procs, NEW j \in DOMAIN proc'[o].todo, PutsTo(proc'[o].todo, g, j),
               proc'[o].todo[j].token = proc'[q].todo[i].token
        PROVE  q = o /\ i = j
    <3>1. CASE q = p /\ o = p
      <4>1. proc'[q].todo = todo /\ proc'[o].todo = todo
        BY <1>2, <1>5, <3>1
      <4>. QED  BY <2>3, <2>4, <3>1, <4>1
    <3>2. CASE q = p /\ o # p
      <4>1. proc'[q].todo = todo /\ proc'[o] = proc[o]
        BY <1>2, <1>5, <3>2
      <4>. QED  BY <1>6, <1>8, <2>2, <2>4, <4>1
    <3>3. CASE q # p /\ o = p
      <4>1. proc'[o].todo = todo /\ proc'[q] = proc[q]
        BY <1>2, <1>5, <3>3
      <4>. QED  BY <1>6, <1>8, <2>2, <2>4, <4>1
    <3>4. CASE q # p /\ o # p
      BY <1>5, <2>1, <2>4, <3>4
    <3>. QED  BY <3>1, <3>2, <3>3, <3>4
  <2>5. ASSUME NEW q \in Procs, NEW i \in DOMAIN proc'[q].todo, PutsTo(proc'[q].todo, g, i),
               NEW j \in DOMAIN content'[g]
        PROVE  content'[g][j] # proc'[q].todo[i].token
    <3>1. CASE q = p
      <4>1. proc'[q].todo = todo /\ content'[g] = content[g]
        BY <1>2, <1>5, <3>1
      <4>. QED  BY <1>7, <1>8, <2>2, <2>5, <4>1
    <3>2. CASE q # p
      BY <1>5, <2>1, <2>5, <3>2
    <3>. QED  BY <3>1, <3>2
  <2>. QED  BY <1>5, <2>1, <2>4, <2>5
<1>10. IntactOK'
  BY <1>1, <1>5 DEF IntactOK
<1>11. CleanOK'
  <2>. SUFFICES ASSUME NEW q \in clean'
                PROVE  /\ At(q, "put")' /\ File(q)' \in LogFiles
                       /\ proc'[q].open # "gone" =>
                            /\ \A o \in Procs : proc'[o].open = proc'[q].open => o = q
                            /\ \E k \in 1 .. entries' : \E n \in 0 .. Len(LineOf(File(q)', k)) :
                                 Midway(proc'[q].todo, content'[File(q)'], File(q)', k, n)
    BY DEF CleanOK
  <2>1. CASE q = p
    <3>1. /\ \A o \in Procs : proc[o].open # f
          /\ content[f] = <<>> \/ IsLineEnd(content[f][Len(content[f])])
      BY <1>2, <2>1 DEF AppendAs
    <3>2. At(p, "put")' /\ File(p)' = f /\ proc'[p].todo = todo /\ proc'[p].open = f
      <4>1. 1 \in DOMAIN todo /\ todo[1].name = "put" /\ todo[1].file = f
        BY <1>4
      <4>2. \A s \in Seq(Calls) : 1 \in DOMAIN s => s # <<>> /\ Head(s) = s[1]
        OBVIOUS
      <4>3. proc'[p].todo = todo /\ proc'[p].open = f
        BY <1>2, <1>4, <1>5
      <4>. QED  BY <1>4, <4>1, <4>2, <4>3 DEF At, File
    <3>3. \A o \in Procs : proc'[o].open = f => o = p
      BY <1>5, <3>1
    <3>4. Midway(todo, content[f], f, e, 0)
      <4>1. PICK text, l : text = content[f] /\ l = Len(text)
        OBVIOUS
      <4>2. text \in Seq(Tokens) /\ l \in Nat /\ (l = 0 \/ IsLineEnd(text[l]))
        <5>1. text \in Seq(Tokens)
          BY <1>1, <1>4, <4>1, FileNames DEF FilesOK
        <5>. QED  BY <3>1, <4>1, <5>1
      <4>3. l - 0 = l /\ w = Len(LineOf(f, e)) - 0 + 1
        BY <1>4, <4>2, LineParts
      <4>4. \A i \in 1 .. w : /\ i < w => todo[i].token = Piece(e, 0 + i)
                              /\ i = w => todo[i].token = Piece(e, 0)
        BY <1>4
      <4>5. \A i \in DOMAIN todo : i > w => todo[i].name # "put"
        BY <1>3, <1>4
      <4>6. \A i \in 1 .. w : i \in DOMAIN todo /\ todo[i].name = "put"
        BY <1>4
      <4>7. Len(text) - 0 = l
        BY <4>1, <4>2
      <4>8. Midway(todo, text, f, e, 0)
        BY <4>2, <4>3, <4>4, <4>5, <4>6, <4>7 DEF Midway
      <4>. QED  BY <4>1, <4>8
    <3>5. e \in 1 .. e /\ 0 \in 0 .. Len(LineOf(f, e))
      BY <1>1, <1>2, <1>4, LineParts
    <3>. QED  BY <1>4, <1>5, <2>1, <3>2, <3>3, <3>4, <3>5
  <2>2. CASE q # p
    <3>1. q \in clean /\ q \in Procs /\ proc[q].open # f
      BY <1>1, <1>2, <2>2 DEF AppendAs, PastOK
    <3>2. proc'[q] = proc[q]
      BY <1>5, <2>2, <3>1
    <3>3. At(q, "put")' /\ File(q)' = File(q) /\ File(q) \in LogFiles
      BY <1>1, <3>1, <3>2 DEF CleanOK, At, File
    <3>4. ASSUME proc[q].open # "gone"
          PROVE  /\ \A o \in Procs : proc'[o].open = proc[q].open => o = q
                 /\ \E k \in 1 .. e : \E n \in 0 .. Len(LineOf(File(q), k)) :
                      Midway(proc[q].todo, content[File(q)], File(q), k, n)
      <4>1. /\ \A o \in Procs : proc[o].open = proc[q].open => o = q
            /\ \E k \in 1 .. entries : \E n \in 0 .. Len(LineOf(File(q), k)) :
                 Midway(proc[q].todo, content[File(q)], File(q), k, n)
        BY <1>1, <3>1, <3>4 DEF CleanOK
      <4>2. 1 .. entries \subseteq 1 .. e
        BY <1>1, <1>2
      <4>3. \A o \in Procs : proc'[o].open = proc[q].open => o = q
        BY <1>4, <1>5, <3>1, <4>1
      <4>. QED  BY <4>1, <4>2, <4>3
    <3>. QED  BY <1>5, <3>2, <3>3, <3>4
  <2>. QED  BY <2>1, <2>2
<1>. QED  BY <1>9, <1>10, <1>11

LEMMA OpenAppendInv ==
  ASSUME IInv, NEW p \in Procs, OpenAppend(p)
  PROVE  IInv'
<1>1. At(p, "append") /\ \E r, w : AppendAs(p, r, File(p), w)
  BY AppendIs
<1>2. PICK f, r, w : f = File(p) /\ AppendAs(p, r, File(p), w)
  BY <1>1
<1>3. /\ ProcOK /\ FilesOK /\ CountsOK /\ PastOK /\ WrittenOK /\ DeviceOK
      /\ devices \in Nat /\ entries \in Nat /\ "append" \in Names
  BY Bounded DEF IInv, CountsOK, Names
<1>4. /\ p \in Running /\ proc[p].cmd # "disconnect" /\ proc[p].cmd # "idle"
      /\ proc[p].open = "none" /\ proc[p].todo # <<>>
  BY <1>1, <1>3, AtOnly, AtParts
<1>5. /\ proc' = [proc EXCEPT ![p] = r] /\ r.cmd = proc[p].cmd /\ r.open = f
      /\ r \in [cmd : Commands \cup {"idle"}, todo : Seq(Calls),
                open : Files \cup {"none", "gone"}, device : 0 .. devices]
      /\ f \in LogFiles /\ f \in Files /\ f \notin JsonFiles /\ f # "identity" /\ f # "gone"
      /\ clean' \subseteq clean \cup {p} /\ entries' = entries + 1 /\ Event
      /\ exists' = exists \cup {f} /\ content' = content
      /\ holds' = holds /\ company' = company /\ lastDevice' = lastDevice /\ intact' = intact
      /\ torn' = torn /\ starts' = starts /\ devices' = devices /\ clock' = clock
      /\ installed' = installed
  BY <1>2, FileNames DEF AppendAs
<1>6. /\ TodoOK(r, devices', entries') /\ AsksOK(r) /\ DisconnectOK(r)
      /\ \A i \in DOMAIN r.todo :
           \/ i \in 1 .. w /\ PutsTo(r.todo, f, i)
           \/ /\ i \notin 1 .. w /\ r.todo[i].name \notin {"put", "create", "unlink"}
              /\ r.todo[i].name = "identity" => p \in Pending
  BY <1>1, <1>2, AppendTodo
<1>7. /\ r.todo # <<>> /\ Head(r.todo).name = "put" /\ Head(r.todo).file = f
  <2>1. 1 \in DOMAIN r.todo /\ 1 \in 1 .. w
    <3>1. /\ Len(Rest(p)) \in Nat /\ DOMAIN r.todo = 1 .. w + Len(Rest(p)) /\ w \in {2, 3}
      BY <1>2, <1>3, <1>4, RestParts DEF AppendAs
    <3>. QED  BY <3>1
  <2>2. \A s \in Seq(Calls) : 1 \in DOMAIN s => s # <<>> /\ Head(s) = s[1]
    OBVIOUS
  <2>3. r.todo \in Seq(Calls)
    BY <1>5
  <2>. QED  BY <1>6, <2>1, <2>2, <2>3 DEF PutsTo
<1>8. /\ proc'[p] = r /\ \A q \in Procs \ {p} : proc'[q] = proc[q]
  BY <1>3, <1>5 DEF ProcOK
<1>9. /\ devices' \in Nat /\ devices <= devices' /\ entries' \in Nat /\ entries <= entries'
      /\ 1 .. entries \subseteq 1 .. entries'
  BY <1>3, <1>5
<1>10. ProcOK'
  <2>1. r.open \in (IF r.todo # <<>> /\ Head(r.todo).name = "put"
                      THEN {Head(r.todo).file, "gone"} ELSE {"none"})
    BY <1>5, <1>7
  <2>2. /\ r.open \in Files => r.open \in exists'
        /\ r.cmd = "idle" => r.todo = <<>>
        /\ \A q \in Procs \ {p} : proc[q].open \in Files => proc[q].open \in exists'
    BY <1>3, <1>4, <1>5 DEF ProcOK
  <2>3. r \in [cmd : Commands \cup {"idle"}, todo : Seq(Calls),
               open : Files \cup {"none", "gone"}, device : 0 .. devices']
    BY <1>5
  <2>. QED  BY <1>3, <1>5, <1>6, <1>9, <2>1, <2>2, <2>3, ProcKept
<1>11. FilesOK'
  <2>1. [line : 1 .. entries, piece : 0 .. 2] \subseteq [line : 1 .. entries', piece : 0 .. 2]
    BY <1>9
  <2>2. exists' \subseteq Files /\ \A g \in Files \ exists' : content[g] = <<>>
    BY <1>3, <1>5 DEF FilesOK
  <2>. QED  BY <1>3, <1>5, <2>1, <2>2 DEF FilesOK
<1>12. CountsOK'
  <2>1. Pending' \subseteq Pending
    <3>1. ASSUME NEW i \in DOMAIN r.todo, r.todo[i].name = "identity" PROVE p \in Pending
      BY <1>6, <3>1 DEF PutsTo
    <3>. QED  BY <1>8, <3>1 DEF Pending
  <2>2. events' = events \/ Event
    BY <1>5
  <2>. QED  BY <1>3, <1>5, <2>1, <2>2, CountsKept
<1>13. PastOK'
  BY <1>3, <1>5, <1>9 DEF PastOK
<1>14. /\ AloneOK' /\ RemovedOK'
       /\ \A q \in Running' \ company' : q = p /\ Alone(p)
  BY <1>4, <1>5, <1>8, RunsOn
<1>15. WrittenOK'
  <2>. SUFFICES ASSUME NEW g \in JsonFiles \cap exists'
                PROVE  Len(content'[g]) = 1 \/ g \in torn' \/ \E q \in Procs : proc'[q].open = g
    BY DEF WrittenOK
  <2>1. g \in exists /\ g # "none"
    BY <1>5, FileNames
  <2>2. Len(content[g]) = 1 \/ g \in torn \/ \E q \in Procs : proc[q].open = g
    BY <1>3, <2>1 DEF WrittenOK
  <2>3. ASSUME NEW q \in Procs, proc[q].open = g PROVE proc'[q].open = g
    BY <1>4, <1>8, <2>1, <2>3
  <2>. QED  BY <1>5, <2>2, <2>3
<1>16. DeviceOK'
  <2>1. ~At(p, "store")'
    BY <1>7, <1>8 DEF At
  <2>2. proc'[p].open # "gone"
    BY <1>5, <1>8
  <2>3. ASSUME lastDevice # NoDevice
        PROVE  Identity(lastDevice)' /\ \A q \in Procs : ~Writes(q, "identity")'
    <3>1. Identity(lastDevice) /\ \A q \in Procs : ~Writes(q, "identity")
      BY <1>3, <2>3 DEF DeviceOK
    <3>2. Identity(lastDevice)'
      BY <1>5, <3>1 DEF Identity
    <3>3. ~Writes(p, "identity")'
      BY <1>5, <1>6, <1>8 DEF Writes, PutsTo
    <3>4. ASSUME NEW q \in Procs \ {p} PROVE ~Writes(q, "identity")'
      BY <1>8, <3>1 DEF Writes
    <3>. QED  BY <3>2, <3>3, <3>4
  <2>. QED  BY <1>5, <1>14, <2>1, <2>2, <2>3 DEF DeviceOK, Alone
<1>17. PiecesOK' /\ IntactOK' /\ CleanOK'
  BY <1>1, <1>2, AppendLogs
<1>. QED  BY <1>10, <1>11, <1>12, <1>13, <1>14, <1>15, <1>16, <1>17 DEF IInv

-----------------------------------------------------------------------------
(* A file is removed *)

\* What unlinking f does, in short: who has it open keeps it open, for nobody to see.
UnlinkAs(p, f) ==
  /\ f \in exists /\ exists' = exists \ {f} /\ content' = [content EXCEPT ![f] = <<>>]
  /\ DOMAIN proc' = Procs
  /\ \A q \in Procs :
       /\ proc'[q] \in [cmd : Commands \cup {"idle"}, todo : Seq(Calls),
                        open : Files \cup {"none", "gone"}, device : 0 .. devices]
       /\ proc'[q].cmd = proc[q].cmd /\ proc'[q].device = proc[q].device
       /\ q # p => proc'[q].todo = proc[q].todo
       /\ q # p /\ proc[q].open = f => proc'[q].open = "gone"
       /\ q = p \/ proc[q].open # f => proc'[q].open = proc[q].open
  /\ proc'[p].todo = Rest(p)
  /\ intact' = {line \in intact : line[1] # f} /\ torn' = torn \ {f}
  /\ f = "identity" => lastDevice' = NoDevice
  /\ f # "identity" => lastDevice' = lastDevice
  /\ holds' = holds /\ company' = company /\ clean' = clean
  /\ starts' = starts /\ devices' = devices /\ entries' = entries /\ clock' = clock
  /\ installed' = installed /\ events' = events

LEMMA UnlinkIs ==
  ASSUME IInv, NEW p \in Procs, Unlink(p), ~Ends(p)
  PROVE  At(p, "unlink") /\ UnlinkAs(p, File(p))
<1>1. PICK f : f = File(p)
  OBVIOUS
<1>2. /\ At(p, "unlink") /\ f \in exists
      /\ exists' = exists \ {f} /\ content' = [content EXCEPT ![f] = <<>>]
      /\ proc' = [q \in Procs |->
             IF q = p THEN [proc[p] EXCEPT !.todo = Rest(p)]
             ELSE [proc[q] EXCEPT !.open = IF @ = f THEN "gone" ELSE @]]
      /\ intact' = {line \in intact : line[1] # f}
      /\ torn' = torn \ {f}
      /\ lastDevice' = IF f = "identity" THEN NoDevice ELSE lastDevice
      /\ holds' = holds /\ company' = company /\ clean' = clean
      /\ starts' = starts /\ devices' = devices /\ entries' = entries /\ clock' = clock
      /\ installed' = installed /\ events' = events
  BY <1>1 DEF Unlink, boundVars
<1>3. ProcOK /\ "unlink" \in Names /\ proc[p].todo # <<>>
  BY <1>2 DEF IInv, Names, At
<1>4. Rest(p) \in Seq(Calls)
  BY <1>3, RestParts
<1>5. ASSUME NEW q \in Procs
      PROVE  /\ proc'[q] \in [cmd : Commands \cup {"idle"}, todo : Seq(Calls),
                              open : Files \cup {"none", "gone"}, device : 0 .. devices]
             /\ proc'[q].cmd = proc[q].cmd /\ proc'[q].device = proc[q].device
             /\ q # p => proc'[q].todo = proc[q].todo
             /\ q = p => proc'[q].todo = Rest(p)
             /\ q # p /\ proc[q].open = f => proc'[q].open = "gone"
             /\ q = p \/ proc[q].open # f => proc'[q].open = proc[q].open
  <2>1. PICK r : r = proc[q]
    OBVIOUS
  <2>2. r \in [cmd : Commands \cup {"idle"}, todo : Seq(Calls),
               open : Files \cup {"none", "gone"}, device : 0 .. devices]
    BY <1>3, <2>1 DEF ProcOK
  <2>3. CASE q = p
    <3>1. proc'[q] = [r EXCEPT !.todo = Rest(p)]
      BY <1>2, <2>1, <2>3
    <3>. QED  BY <1>4, <2>1, <2>2, <2>3, <3>1
  <2>4. CASE q # p /\ r.open = f
    <3>1. proc'[q] = [r EXCEPT !.open = "gone"]
      BY <1>2, <2>1, <2>4
    <3>. QED  BY <2>1, <2>2, <2>4, <3>1
  <2>5. CASE q # p /\ r.open # f
    <3>1. proc'[q] = [r EXCEPT !.open = r.open]
      BY <1>2, <2>1, <2>5
    <3>. QED  BY <2>1, <2>2, <2>5, <3>1
  <2>. QED  BY <2>1, <2>3, <2>4, <2>5
<1>6. DOMAIN proc' = Procs
  BY <1>2
<1>. QED  BY <1>1, <1>2, <1>5, <1>6 DEF UnlinkAs

LEMMA UnlinkInv ==
  ASSUME IInv, NEW p \in Procs, Unlink(p)
  PROVE  IInv'
<1>1. /\ ProcOK /\ FilesOK /\ CountsOK /\ PastOK /\ AloneOK /\ WrittenOK /\ RemovedOK /\ DeviceOK
      /\ PiecesOK /\ IntactOK /\ CleanOK /\ devices \in Nat /\ entries \in Nat
      /\ "unlink" \in Names /\ At(p, "unlink")
  BY Bounded DEF IInv, CountsOK, Names, Unlink
<1>2. /\ p \in Running /\ ~At(p, "put") /\ proc[p].open = "none" /\ proc[p].cmd # "idle"
      /\ proc[p].todo # <<>> /\ proc[p].todo[1].name = "unlink"
  BY <1>1, AtOnly, AtParts
<1>3. CASE Ends(p)
  BY <1>2, <1>3, EndsInv
<1>4. CASE ~Ends(p)
  <2>. PICK f : f = File(p)
    OBVIOUS
  <2>1. UnlinkAs(p, f)
    BY <1>4, UnlinkIs
  <2>2. /\ f \in exists /\ exists' = exists \ {f} /\ content' = [content EXCEPT ![f] = <<>>]
        /\ intact' = {line \in intact : line[1] # f} /\ torn' = torn \ {f}
        /\ holds' = holds /\ company' = company /\ clean' = clean
        /\ starts' = starts /\ devices' = devices /\ entries' = entries /\ clock' = clock
        /\ installed' = installed /\ events' = events
        /\ proc'[p].todo = Rest(p)
        /\ f = "identity" => lastDevice' = NoDevice
        /\ f # "identity" => lastDevice' = lastDevice
    BY <2>1 DEF UnlinkAs
  <2>3. ASSUME NEW q \in Procs
        PROVE  /\ proc'[q] \in [cmd : Commands \cup {"idle"}, todo : Seq(Calls),
                                open : Files \cup {"none", "gone"}, device : 0 .. devices]
               /\ proc'[q].cmd = proc[q].cmd /\ proc'[q].device = proc[q].device
               /\ q # p => proc'[q].todo = proc[q].todo
               /\ q # p /\ proc[q].open = f => proc'[q].open = "gone"
               /\ q = p \/ proc[q].open # f => proc'[q].open = proc[q].open
    BY <2>1 DEF UnlinkAs
  <2>4. /\ content' \in [Files -> Seq(Tokens)] /\ content'[f] = <<>> /\ f \in Files
        /\ \A g \in Files \ {f} : content'[g] = content[g]
    <3>1. <<>> \in Seq(Tokens) /\ f \in Files /\ content \in [Files -> Seq(Tokens)]
      BY <1>1, <2>2 DEF FilesOK
    <3>. QED  BY <2>2, <3>1
  <2>5. \A i \in DOMAIN Rest(p) : /\ Rest(p)[i].name \notin {"put", "create", "unlink"}
                                  /\ i + 1 \in DOMAIN proc[p].todo
                                  /\ Rest(p)[i] = proc[p].todo[i + 1]
    <3>1. \A i \in DOMAIN Rest(p) : Rest(p)[i].name \notin {"put", "create", "unlink"}
      BY <1>1, <1>2, RestNames
    <3>2. \A i \in DOMAIN Rest(p) : i + 1 \in DOMAIN proc[p].todo /\ Rest(p)[i] = proc[p].todo[i + 1]
      BY <1>1, <1>2, RestParts
    <3>. QED  BY <3>1, <3>2
  <2>6. Rest(p) # <<>> => 1 \in DOMAIN Rest(p) /\ Head(Rest(p)) = Rest(p)[1]
    <3>1. Rest(p) \in Seq(Calls)
      BY <1>1, <1>2, RestParts
    <3>2. \A s \in Seq(Calls) : s # <<>> => 1 \in DOMAIN s /\ Head(s) = s[1]
      OBVIOUS
    <3>. QED  BY <3>1, <3>2
  <2>7. f # "none" /\ f # "gone"
    BY <2>4, FileNames
  <2>8. ProcOK'
    <3>1. proc' \in [Procs -> [cmd : Commands \cup {"idle"}, todo : Seq(Calls),
                               open : Files \cup {"none", "gone"}, device : 0 .. devices]]
      <4>1. proc' = [q \in Procs |-> proc'[q]]
        BY <2>1, <1>1 DEF UnlinkAs, Unlink
      <4>. QED  BY <2>3, <4>1
    <3>2. ASSUME NEW q \in Procs
          PROVE  /\ TodoOK(proc'[q], devices, entries) /\ AsksOK(proc'[q]) /\ DisconnectOK(proc'[q])
                 /\ (proc[q].open \in (IF At(q, "put") THEN {File(q), "gone"} ELSE {"none"}))'
                 /\ proc'[q].open \in Files => proc'[q].open \in exists'
                 /\ proc'[q].cmd = "idle" => proc'[q].todo = <<>>
      <4>1. CASE q = p
        <5>1. TodoOK(proc'[q], devices, entries) /\ AsksOK(proc'[q]) /\ DisconnectOK(proc'[q])
          BY <1>1, <1>2, <2>2, <2>3, <4>1, RestTodo
        <5>2. ~At(q, "put")' /\ proc'[q].open = "none"
          BY <1>2, <2>2, <2>3, <2>5, <2>6, <4>1 DEF At
        <5>3. proc'[q].cmd # "idle"
          BY <1>2, <2>3, <4>1
        <5>. QED  BY <5>1, <5>2, <5>3, FileNames
      <4>2. CASE q # p
        <5>1. proc'[q].todo = proc[q].todo /\ proc'[q].device = proc[q].device
              /\ proc'[q].cmd = proc[q].cmd
          BY <2>3, <4>2
        <5>2. /\ TodoOK(proc[q], devices, entries) /\ AsksOK(proc[q]) /\ DisconnectOK(proc[q])
              /\ proc[q].open \in (IF At(q, "put") THEN {File(q), "gone"} ELSE {"none"})
              /\ proc[q].open \in Files => proc[q].open \in exists
              /\ proc[q].cmd = "idle" => proc[q].todo = <<>>
          BY <1>1 DEF ProcOK
        <5>3. TodoOK(proc'[q], devices, entries)
          BY <5>1, <5>2 DEF TodoOK
        <5>4. AsksOK(proc'[q])
          BY <5>1, <5>2 DEF AsksOK
        <5>5. DisconnectOK(proc'[q])
          BY <5>1, <5>2 DEF DisconnectOK
        <5>6. (At(q, "put")' <=> At(q, "put")) /\ File(q)' = File(q)
          BY <5>1 DEF At, File
        <5>7. (proc[q].open \in (IF At(q, "put") THEN {File(q), "gone"} ELSE {"none"}))'
          <6>1. proc'[q].open = proc[q].open \/ (proc[q].open = f /\ proc'[q].open = "gone")
            BY <2>3, <4>2
          <6>. QED  BY <2>7, <5>2, <5>6, <6>1
        <5>8. proc'[q].open \in Files => proc'[q].open \in exists'
          <6>1. \/ proc[q].open # f /\ proc'[q].open = proc[q].open
                \/ proc'[q].open = "gone"
            BY <2>3, <4>2
          <6>. QED  BY <2>2, <5>2, <6>1, FileNames
        <5>. QED  BY <5>1, <5>2, <5>3, <5>4, <5>5, <5>7, <5>8
      <4>. QED  BY <4>1, <4>2
    <3>3. devices' = devices /\ entries' = entries
      BY <2>2
    <3>. QED  BY <3>1, <3>2, <3>3 DEF ProcOK
  <2>9. FilesOK'
    <3>1. Len(content'[f]) = 0 /\ DOMAIN content'[f] = {}
      BY <2>4
    <3>2. /\ exists' \subseteq Files
          /\ \A g \in Files \ exists' : content'[g] = <<>>
          /\ \A g \in Files \ (JsonFiles \cup LogFiles) : content'[g] = <<>>
      BY <1>1, <2>2, <2>4 DEF FilesOK
    <3>3. ASSUME NEW g \in JsonFiles PROVE Len(content'[g]) <= 1
      <4>1. CASE g = f
        <5>1. Len(content'[g]) = 0
          BY <3>1, <4>1, Zenon
        <5>. QED  BY <5>1
      <4>2. CASE g # f
        <5>1. content'[g] = content[g] /\ Len(content[g]) <= 1
          BY <1>1, <2>4, <4>2, FileNames DEF FilesOK
        <5>. QED  BY <5>1
      <4>. QED  BY <4>1, <4>2
    <3>4. \A i \in DOMAIN content'["identity"] : content'["identity"][i] \in [device_id : 1 .. devices]
      BY <1>1, <2>4, <3>1, FileNames DEF FilesOK
    <3>5. \A g \in LogFiles : \A i \in DOMAIN content'[g] :
            content'[g][i] \in [line : 1 .. entries, piece : 0 .. 2]
      BY <1>1, <2>4, <3>1, FileNames DEF FilesOK
    <3>6. devices' = devices /\ entries' = entries
      BY <2>2
    <3>. QED  BY <2>4, <3>2, <3>3, <3>4, <3>5, <3>6 DEF FilesOK
  <2>10. CountsOK'
    <3>1. Pending' \subseteq Pending
      <4>. SUFFICES ASSUME NEW q \in Procs, NEW i \in DOMAIN proc'[q].todo,
                           proc'[q].todo[i].name = "identity"
                    PROVE  \E j \in DOMAIN proc[q].todo : proc[q].todo[j].name = "identity"
        BY DEF Pending
      <4>1. CASE q = p
        BY <2>2, <2>5, <4>1
      <4>2. CASE q # p
        BY <2>3, <4>2
      <4>. QED  BY <4>1, <4>2
    <3>. QED  BY <1>1, <2>2, <3>1, CountsKept
  <2>11. PastOK'
    BY <1>1, <2>2 DEF PastOK
  <2>12. Running' = Running /\ AloneOK' /\ \A q \in Procs : Alone(q)' => q = p /\ Alone(p)
    <3>1. Running' = Running
      BY <2>3 DEF Running
    <3>. QED  BY <1>1, <1>2, <2>2, <3>1 DEF AloneOK, Alone
  <2>13. WrittenOK'
    <3>. SUFFICES ASSUME NEW g \in JsonFiles \cap exists'
                  PROVE  Len(content'[g]) = 1 \/ g \in torn' \/ \E q \in Procs : proc'[q].open = g
      BY DEF WrittenOK
    <3>1. g \in exists /\ g # f /\ content'[g] = content[g]
      BY <2>2, <2>4, FileNames
    <3>2. Len(content[g]) = 1 \/ g \in torn \/ \E q \in Procs : proc[q].open = g
      BY <1>1, <3>1 DEF WrittenOK
    <3>3. ASSUME NEW q \in Procs, proc[q].open = g PROVE proc'[q].open = g
      BY <2>3, <3>1, <3>3
    <3>. QED  BY <2>2, <3>1, <3>2, <3>3
  <2>14. RemovedOK'
    <3>1. ASSUME Alone(p), proc[p].cmd = "disconnect", NEW g \in exists'
          PROVE  \E i \in DOMAIN Rest(p) : Rest(p)[i].file = g
      BY <1>1, <2>2, <3>1, StillRemoved
    <3>2. proc'[p].cmd = proc[p].cmd /\ proc'[p].todo = Rest(p)
      BY <2>2, <2>3
    <3>. QED  BY <2>12, <3>1, <3>2 DEF RemovedOK
  <2>15. DeviceOK'
    <3>1. proc'[p].open # "gone" /\ proc'[p].device = proc[p].device
      BY <1>2, <2>3
    <3>2. At(p, "store")' => proc[p].device = NoDevice
      <4>. SUFFICES ASSUME At(p, "store")' PROVE proc[p].device = NoDevice
        OBVIOUS
      <4>1. 1 \in DOMAIN Rest(p) /\ Rest(p)[1].name = "store"
        BY <2>2, <2>6 DEF At
      <4>2. 2 \in DOMAIN proc[p].todo /\ proc[p].todo[2].name = "store" /\ 2 # 1
        BY <2>5, <4>1
      <4>3. AsksOK(proc[p])
        BY <1>1 DEF ProcOK
      <4>. QED  BY <1>2, <4>2, <4>3 DEF AsksOK
    <3>3. ASSUME lastDevice' # NoDevice
          PROVE  Identity(lastDevice)' /\ \A q \in Procs : ~Writes(q, "identity")'
      <4>1. f # "identity" /\ lastDevice' = lastDevice
        BY <2>2, <3>3
      <4>2. Identity(lastDevice) /\ \A q \in Procs : ~Writes(q, "identity")
        BY <1>1, <3>3, <4>1 DEF DeviceOK
      <4>3. Identity(lastDevice)'
        BY <2>2, <2>4, <4>1, <4>2, FileNames DEF Identity
      <4>4. ~Writes(p, "identity")'
        BY <2>2, <2>5 DEF Writes
      <4>5. ASSUME NEW q \in Procs \ {p} PROVE ~Writes(q, "identity")'
        BY <2>3, <4>2 DEF Writes
      <4>. QED  BY <4>3, <4>4, <4>5
    <3>. QED  BY <2>12, <3>1, <3>2, <3>3 DEF DeviceOK
  <2>16. PiecesOK'
    <3>. SUFFICES ASSUME NEW g \in LogFiles
                  PROVE  /\ \A i, j \in DOMAIN content'[g] : content'[g][i] = content'[g][j] => i = j
                         /\ \A q \in Procs : \A i \in DOMAIN proc'[q].todo : PutsTo(proc'[q].todo, g, i) =>
                              /\ \A j \in DOMAIN content'[g] : content'[g][j] # proc'[q].todo[i].token
                              /\ \A o \in Procs : \A j \in DOMAIN proc'[o].todo :
                                   /\ PutsTo(proc'[o].todo, g, j)
                                   /\ proc'[o].todo[j].token = proc'[q].todo[i].token
                                   => q = o /\ i = j
      BY DEF PiecesOK
    <3>1. content'[g] = content[g] \/ DOMAIN content'[g] = {}
      <4>1. CASE g = f
        <5>1. DOMAIN <<>> = {}
          OBVIOUS
        <5>. QED  BY <2>4, <4>1, <5>1
      <4>2. CASE g # f
        BY <2>4, <4>2, FileNames
      <4>. QED  BY <4>1, <4>2
    <3>2. /\ \A i, j \in DOMAIN content[g] : content[g][i] = content[g][j] => i = j
          /\ \A q \in Procs : \A i \in DOMAIN proc[q].todo : PutsTo(proc[q].todo, g, i) =>
               /\ \A j \in DOMAIN content[g] : content[g][j] # proc[q].todo[i].token
               /\ \A o \in Procs : \A j \in DOMAIN proc[o].todo :
                    PutsTo(proc[o].todo, g, j) /\ proc[o].todo[j].token = proc[q].todo[i].token
                    => q = o /\ i = j
      BY <1>1 DEF PiecesOK
    <3>3. ASSUME NEW q \in Procs, NEW i \in DOMAIN proc'[q].todo, PutsTo(proc'[q].todo, g, i)
          PROVE  proc'[q].todo = proc[q].todo
      <4>1. q # p
        BY <2>2, <2>5, <3>3 DEF PutsTo
      <4>. QED  BY <2>3, <4>1
    <3>4. ASSUME NEW q \in Procs, NEW i \in DOMAIN proc'[q].todo, PutsTo(proc'[q].todo, g, i)
          PROVE  /\ \A j \in DOMAIN content'[g] : content'[g][j] # proc'[q].todo[i].token
                 /\ \A o \in Procs : \A j \in DOMAIN proc'[o].todo :
                      /\ PutsTo(proc'[o].todo, g, j)
                      /\ proc'[o].todo[j].token = proc'[q].todo[i].token
                      => q = o /\ i = j
      <4>1. proc'[q].todo = proc[q].todo
        BY <3>3, <3>4
      <4>2. \A j \in DOMAIN content'[g] : content'[g][j] # proc'[q].todo[i].token
        BY <3>1, <3>2, <3>4, <4>1
      <4>3. ASSUME NEW o \in Procs, NEW j \in DOMAIN proc'[o].todo, PutsTo(proc'[o].todo, g, j),
                   proc'[o].todo[j].token = proc'[q].todo[i].token
            PROVE  q = o /\ i = j
        <5>1. proc'[o].todo = proc[o].todo
          BY <3>3, <4>3
        <5>. QED  BY <3>2, <3>4, <4>1, <4>3, <5>1
      <4>. QED  BY <4>2, <4>3
    <3>. QED  BY <3>1, <3>2, <3>4
  <2>17. IntactOK'
    <3>. SUFFICES ASSUME NEW line \in intact'
                  PROVE  \E i \in DOMAIN content'[line[1]] : Stored(content'[line[1]], line[1], line[2], i)
      BY DEF IntactOK
    <3>1. line \in intact /\ line[1] # f /\ line[1] \in LogFiles
      BY <1>1, <2>2 DEF PastOK
    <3>2. content'[line[1]] = content[line[1]]
      BY <2>4, <3>1, FileNames
    <3>. QED  BY <1>1, <3>1, <3>2 DEF IntactOK
  <2>18. CleanOK'
    <3>. SUFFICES ASSUME NEW q \in clean
                  PROVE  /\ At(q, "put")' /\ File(q)' \in LogFiles
                         /\ proc'[q].open # "gone" =>
                              /\ \A o \in Procs : proc'[o].open = proc'[q].open => o = q
                              /\ \E k \in 1 .. entries' : \E n \in 0 .. Len(LineOf(File(q)', k)) :
                                   Midway(proc'[q].todo, content'[File(q)'], File(q)', k, n)
      BY <2>2 DEF CleanOK
    <3>1. q \in Procs /\ At(q, "put") /\ File(q) \in LogFiles /\ q # p
      BY <1>1, <1>2 DEF CleanOK, PastOK
    <3>2. proc'[q].todo = proc[q].todo
      BY <2>3, <3>1
    <3>3. At(q, "put")' /\ File(q)' = File(q)
      BY <3>1, <3>2 DEF At, File
    <3>4. ASSUME proc'[q].open # "gone"
          PROVE  /\ \A o \in Procs : proc'[o].open = proc'[q].open => o = q
                 /\ \E k \in 1 .. entries : \E n \in 0 .. Len(LineOf(File(q), k)) :
                      Midway(proc[q].todo, content'[File(q)], File(q), k, n)
      <4>1. proc[q].open # f /\ proc'[q].open = proc[q].open
        BY <2>3, <3>1, <3>4
      <4>2. proc[q].open = File(q)
        BY <1>1, <3>1, <3>4, <4>1 DEF ProcOK
      <4>3. content'[File(q)] = content[File(q)]
        BY <2>4, <3>1, <4>1, <4>2, FileNames
      <4>4. /\ \A o \in Procs : proc[o].open = proc[q].open => o = q
            /\ \E k \in 1 .. entries : \E n \in 0 .. Len(LineOf(File(q), k)) :
                 Midway(proc[q].todo, content[File(q)], File(q), k, n)
        BY <1>1, <3>4, <4>1 DEF CleanOK
      <4>5. \A o \in Procs : proc'[o].open = proc'[q].open => proc[o].open = proc[q].open
        BY <2>3, <3>4, <4>1
      <4>. QED  BY <4>3, <4>4, <4>5
    <3>. QED  BY <2>2, <3>1, <3>2, <3>3, <3>4
  <2>. QED  BY <2>8, <2>9, <2>10, <2>11, <2>12, <2>13, <2>14, <2>15, <2>16, <2>17, <2>18 DEF IInv
<1>. QED  BY <1>3, <1>4

-----------------------------------------------------------------------------
(* The invariant holds *)

\* What a killed chat leaves.
LEMMA LeftParts ==
  /\ LeftByKilledChat \in [Files -> Seq(Tokens)]
  /\ LeftByKilledChat["config"] = <<[group_key |-> "key"]>>
  /\ LeftByKilledChat["identity"] = <<[device_id |-> 1]>>
  /\ LeftByKilledChat["history"] = <<Piece(1, 1)>>
  /\ \A f \in Files \ {"config", "identity", "history"} : LeftByKilledChat[f] = <<>>
<1>1. /\ [group_key |-> "key"] \in Tokens /\ [device_id |-> 1] \in Tokens /\ Piece(1, 1) \in Tokens
  BY DEF Tokens, Piece
<1>2. <<[group_key |-> "key"]>> \in Seq(Tokens) /\ <<[device_id |-> 1]>> \in Seq(Tokens)
      /\ <<Piece(1, 1)>> \in Seq(Tokens) /\ <<>> \in Seq(Tokens)
  BY <1>1
<1>3. /\ \A f \in Files : LeftByKilledChat[f] =
           CASE f = "config" -> <<[group_key |-> "key"]>>
             [] f = "identity" -> <<[device_id |-> 1]>>
             [] f = "history" -> <<Piece(1, 1)>>
             [] OTHER -> <<>>
      /\ LeftByKilledChat = [f \in Files |-> LeftByKilledChat[f]]
  BY DEF LeftByKilledChat
<1>4. /\ LeftByKilledChat["config"] = <<[group_key |-> "key"]>>
      /\ LeftByKilledChat["identity"] = <<[device_id |-> 1]>>
      /\ LeftByKilledChat["history"] = <<Piece(1, 1)>>
      /\ \A f \in Files \ {"config", "identity", "history"} : LeftByKilledChat[f] = <<>>
  BY <1>3, FileNames
<1>5. \A f \in Files : LeftByKilledChat[f] \in Seq(Tokens)
  BY <1>2, <1>4
<1>6. LeftByKilledChat \in [Files -> Seq(Tokens)]
  <2>1. PICK left : left = LeftByKilledChat
    OBVIOUS
  <2>2. left = [f \in Files |-> left[f]] /\ \A f \in Files : left[f] \in Seq(Tokens)
    BY <1>3, <1>5, <2>1
  <2>3. left \in [Files -> Seq(Tokens)]
    BY <2>2
  <2>. QED  BY <2>1, <2>3
<1>. QED  BY <1>4, <1>6

LEMMA InitFiles ==
  ASSUME Init
  PROVE  /\ FilesOK /\ entries \in {0, 1} /\ devices \in {0, 1}
         /\ \A f \in JsonFiles \cap exists : Len(content[f]) = 1
         /\ \A f \in LogFiles : \A i \in DOMAIN content[f] : i = 1
<1>1. <<>> \in Seq(Tokens) /\ Len(<<>>) = 0 /\ DOMAIN <<>> = {}
  OBVIOUS
<1>2. CASE exists = {} /\ content = [f \in Files |-> <<>>] /\ entries = 0 /\ devices = 0
  <2>1. /\ content \in [Files -> Seq(Tokens)]
        /\ \A f \in Files : content[f] = <<>> /\ Len(content[f]) <= 1 /\ DOMAIN content[f] = {}
    BY <1>1, <1>2
  <2>2. FilesOK
    BY <1>2, <2>1, FileNames DEF FilesOK
  <2>. QED  BY <1>2, <2>1, <2>2, FileNames
<1>3. CASE /\ exists = {"config", "identity", "history", "store"} \cup SideFiles
           /\ content = LeftByKilledChat /\ entries = 1 /\ devices = 1
  <2>1. /\ content \in [Files -> Seq(Tokens)]
        /\ content["config"] = <<[group_key |-> "key"]>>
        /\ content["identity"] = <<[device_id |-> 1]>>
        /\ content["history"] = <<Piece(1, 1)>>
        /\ \A f \in Files \ {"config", "identity", "history"} : content[f] = <<>>
    BY <1>3, LeftParts
  <2>2. /\ Len(content["config"]) = 1 /\ Len(content["identity"]) = 1
        /\ DOMAIN content["identity"] = {1} /\ DOMAIN content["history"] = {1}
        /\ content["identity"][1] \in [device_id : 1 .. 1]
        /\ content["history"][1] \in [line : 1 .. 1, piece : 0 .. 2]
    BY <2>1 DEF Piece
  <2>3. /\ exists \subseteq Files
        /\ \A f \in Files \ exists : f \in Files \ {"config", "identity", "history"}
        /\ JsonFiles = {"config", "identity", "nag"} /\ LogFiles = {"history", "input_history"}
        /\ "nag" \notin exists /\ "nag" \in Files /\ "input_history" \in Files
    BY <1>3 DEF Files, JsonFiles, LogFiles, SideFiles
  <2>4. \A f \in JsonFiles : Len(content[f]) <= 1
    <3>1. content["nag"] = <<>>
      BY <2>1, <2>3
    <3>2. Len(content["nag"]) = 0
      BY <1>1, <3>1, Zenon
    <3>3. \A f \in JsonFiles : Len(content[f]) = 1 \/ Len(content[f]) = 0
      BY <2>2, <2>3, <3>2, Zenon
    <3>4. \A f \in JsonFiles : Len(content[f]) \in {0, 1}
      BY <3>3, Zenon
    <3>5. \A n \in {0, 1} : n <= 1
      OBVIOUS
    <3>. QED  BY <3>4, <3>5, Zenon
  <2>5. \A f \in LogFiles : \A i \in DOMAIN content[f] :
          i = 1 /\ content[f][i] \in [line : 1 .. 1, piece : 0 .. 2]
    BY <1>1, <2>1, <2>2, <2>3
  <2>6. \A f \in Files \ (JsonFiles \cup LogFiles) : content[f] = <<>>
    BY <2>1, <2>3
  <2>7. \A f \in Files \ exists : content[f] = <<>>
    BY <2>1, <2>3
  <2>8. FilesOK
    BY <1>3, <2>1, <2>2, <2>3, <2>4, <2>5, <2>6, <2>7 DEF FilesOK
  <2>9. \A f \in JsonFiles \cap exists : Len(content[f]) = 1
    BY <2>2, <2>3
  <2>. QED  BY <1>3, <2>5, <2>8, <2>9
<1>. QED  BY <1>2, <1>3 DEF Init

LEMMA InitInv == Init => IInv
<1>. SUFFICES ASSUME Init PROVE IInv
  OBVIOUS
<1>1. /\ FilesOK /\ entries \in {0, 1} /\ devices \in {0, 1}
      /\ \A f \in JsonFiles \cap exists : Len(content[f]) = 1
      /\ \A f \in LogFiles : \A i \in DOMAIN content[f] : i = 1
  BY InitFiles
<1>2. /\ proc = [p \in Procs |-> Idle] /\ holds = {} /\ clock = 0 /\ installed = 1 /\ starts = 0
      /\ events = 0 /\ company = {} /\ clean = {} /\ torn = {} /\ intact = {}
      /\ lastDevice = NoDevice
  BY DEF Init
<1>3. \A p \in Procs : proc[p] = Idle
  BY <1>2
<1>4. /\ Idle \in [cmd : Commands \cup {"idle"}, todo : Seq(Calls),
                   open : Files \cup {"none", "gone"}, device : 0 .. devices]
      /\ Idle.cmd = "idle" /\ Idle.todo = <<>> /\ Idle.open = "none" /\ Idle.device = NoDevice
      /\ DOMAIN Idle.todo = {}
      /\ TodoOK(Idle, devices, entries) /\ AsksOK(Idle) /\ DisconnectOK(Idle)
  <2>1. devices \in Nat /\ entries \in Nat
    BY <1>1
  <2>. QED  BY <2>1, IdleParts
<1>5. ProcOK
  <2>1. PICK idle : idle = Idle
    OBVIOUS
  <2>2. /\ idle \in [cmd : Commands \cup {"idle"}, todo : Seq(Calls),
                     open : Files \cup {"none", "gone"}, device : 0 .. devices]
        /\ idle.cmd = "idle" /\ idle.todo = <<>> /\ idle.open = "none"
        /\ TodoOK(idle, devices, entries) /\ AsksOK(idle) /\ DisconnectOK(idle)
    BY <1>4, <2>1
  <2>3. proc = [p \in Procs |-> idle] /\ \A p \in Procs : proc[p] = idle
    BY <1>2, <2>1
  <2>. QED  BY <2>2, <2>3, FileNames DEF ProcOK, At
<1>6. CountsOK
  <2>1. Pending = {}
    BY <1>3, <1>4 DEF Pending
  <2>2. Cardinality(Pending) = 0
    BY <2>1, FS_EmptySet
  <2>3. installed \in DOMAIN Releases
    BY <1>2, ReleasesAssumption
  <2>4. /\ starts \in 0 .. MaxStarts /\ events \in 0 .. MaxEvents /\ devices \in Nat
        /\ clock \in 0 .. events /\ entries \in 0 .. events + 1
        /\ devices + 0 <= starts + 1
    BY <1>1, <1>2, Bounded
  <2>. QED  BY <2>2, <2>3, <2>4 DEF CountsOK
<1>7. PastOK
  BY <1>2 DEF PastOK
<1>8. Running = {} /\ \A p \in Procs : ~Alone(p)
  BY <1>3, <1>4 DEF Running, Alone
<1>9. AloneOK /\ RemovedOK
  BY <1>8 DEF AloneOK, RemovedOK
<1>10. WrittenOK
  BY <1>1 DEF WrittenOK
<1>11. DeviceOK
  BY <1>2, <1>8 DEF DeviceOK
<1>12. PiecesOK
  BY <1>1, <1>3, <1>4 DEF PiecesOK, PutsTo
<1>13. IntactOK /\ CleanOK
  BY <1>2 DEF IntactOK, CleanOK
<1>. QED  BY <1>1, <1>5, <1>6, <1>7, <1>9, <1>10, <1>11, <1>12, <1>13 DEF IInv

LEMMA NextInv == IInv /\ [Next]_vars => IInv'
<1>. SUFFICES ASSUME IInv, [Next]_vars PROVE IInv'
  OBVIOUS
<1>1. ASSUME NEW p \in Procs, NEW c \in Commands, Start(p, c) PROVE IInv'
  BY <1>1, StartInv
<1>2. ASSUME NEW p \in Procs, Finish(p) PROVE IInv'
  BY <1>2, FinishInv
<1>3. ASSUME NEW p \in Procs, LoadConfig(p) PROVE IInv'
  BY <1>3, LoadConfigInv
<1>4. ASSUME NEW p \in Procs, Pair(p) PROVE IInv'
  BY <1>4, PairInv
<1>5. ASSUME NEW p \in Procs, LoadOrCreateDeviceIdentity(p) PROVE IInv'
  BY <1>5, LoadOrCreateDeviceIdentityInv
<1>6. ASSUME NEW p \in Procs, OpenStore(p) PROVE IInv'
  BY <1>6, OpenStoreInv
<1>7. ASSUME NEW p \in Procs, NEW policy \in Policies, Connect(p, policy) PROVE IInv'
  BY <1>7, ConnectInv
<1>8. ASSUME NEW p \in Procs, Chat(p) PROVE IInv'
  BY <1>8, ChatInv
<1>9. ASSUME NEW p \in Procs, Reply(p) PROVE IInv'
  BY <1>9, ReplyInv
<1>10. ASSUME NEW p \in Procs, CheckLocalState(p) PROVE IInv'
  BY <1>10, CheckLocalStateInv
<1>11. ASSUME NEW p \in Procs, OpenTruncated(p) PROVE IInv'
  BY <1>11, OpenTruncatedInv
<1>12. ASSUME NEW p \in Procs, OpenAppend(p) PROVE IInv'
  BY <1>12, OpenAppendInv
<1>13. ASSUME NEW p \in Procs, Put(p) PROVE IInv'
  BY <1>13, PutInv
<1>14. ASSUME NEW p \in Procs, CheckExists(p) PROVE IInv'
  BY <1>14, CheckExistsInv
<1>15. ASSUME NEW p \in Procs, Unlink(p) PROVE IInv'
  BY <1>15, UnlinkInv
<1>16. ASSUME NEW p \in Procs, Kill(p) PROVE IInv'
  BY <1>16, KillInv
<1>17. TimePasses \/ Update \/ UNCHANGED vars => IInv'
  BY TimePassesInv, UpdateInv, StutterInv
<1>. QED
  BY <1>1, <1>2, <1>3, <1>4, <1>5, <1>6, <1>7, <1>8, <1>9, <1>10, <1>11, <1>12, <1>13,
     <1>14, <1>15, <1>16, <1>17 DEF Next

LEMMA SpecInv == Spec => []IInv
<1>. QED  BY InitInv, NextInv, PTL DEF Spec

-----------------------------------------------------------------------------
(* What follows from it *)

LEMMA InvType == IInv => TypeOK
<1>. SUFFICES ASSUME IInv PROVE TypeOK
  OBVIOUS
<1>1. ProcOK /\ FilesOK /\ CountsOK /\ PastOK
  BY DEF IInv
<1>2. exists \subseteq Files /\ DOMAIN content = Files /\ \A f \in Files \ exists : content[f] = <<>>
  BY <1>1 DEF FilesOK
<1>3. ASSUME NEW f \in Files \ LogFiles PROVE Len(content[f]) <= 1
  <2>1. CASE f \in JsonFiles
    BY <1>1, <2>1 DEF FilesOK
  <2>2. CASE f \notin JsonFiles
    <3>1. content[f] = <<>>
      BY <1>1, <1>3, <2>2 DEF FilesOK
    <3>2. Len(<<>>) = 0
      OBVIOUS
    <3>3. Len(content[f]) = 0
      BY <3>1, <3>2, Zenon
    <3>. QED  BY <3>3
  <2>. QED  BY <2>1, <2>2
<1>4. ASSUME NEW p \in Procs
      PROVE  /\ proc[p].cmd \in Commands \cup {"idle"}
             /\ \A i \in DOMAIN proc[p].todo : proc[p].todo[i].name \in Names
             /\ proc[p].open \in (IF At(p, "put") THEN {File(p), "gone"} ELSE {"none"})
             /\ proc[p].device \in 0 .. devices
  <2>1. proc[p] \in [cmd : Commands \cup {"idle"}, todo : Seq(Calls),
                     open : Files \cup {"none", "gone"}, device : 0 .. devices]
    BY <1>1 DEF ProcOK
  <2>2. \A i \in DOMAIN proc[p].todo : proc[p].todo[i] \in Calls
    BY <2>1
  <2>3. proc[p].open \in (IF At(p, "put") THEN {File(p), "gone"} ELSE {"none"})
    BY <1>1 DEF ProcOK
  <2>. QED  BY <2>1, <2>2, <2>3 DEF Calls
<1>5. /\ starts \in 0 .. MaxStarts /\ events \in 0 .. MaxEvents /\ devices \in 0 .. starts + 1
      /\ clock \in 0 .. events /\ installed \in DOMAIN Releases /\ entries \in 0 .. events + 1
  <2>1. IsFiniteSet(Pending)
    BY Bounded, FS_Subset DEF Pending
  <2>2. PICK n : n = Cardinality(Pending)
    OBVIOUS
  <2>3. n \in Nat
    BY <2>1, <2>2, FS_CardinalityType
  <2>4. devices \in Nat /\ devices + n <= starts + 1 /\ starts \in 0 .. MaxStarts
    BY <1>1, <2>2 DEF CountsOK
  <2>5. devices \in 0 .. starts + 1
    BY <2>3, <2>4, Bounded
  <2>. QED  BY <1>1, <2>5 DEF CountsOK
<1>. QED  BY <1>1, <1>2, <1>3, <1>4, <1>5 DEF TypeOK, PastOK

LEMMA InvUnreadable == IInv => UnreadableIsTorn
<1>. SUFFICES ASSUME IInv, NEW p \in Procs \ company, NEW name \in {"load_config", "identity"},
                     NEW f \in {"config", "identity"}, At(p, name), f \in exists
              PROVE  Whole(f) \/ f \in torn
  BY DEF UnreadableIsTorn
<1>1. /\ p \in Running /\ proc[p].open = "none"
      /\ ProcOK /\ AloneOK /\ WrittenOK
  <2>1. ProcOK /\ AloneOK /\ WrittenOK /\ name # "put" /\ name \in Names
    BY DEF IInv, Names
  <2>. QED  BY <2>1, AtParts, AtOnly
<1>2. ASSUME NEW q \in Procs, proc[q].open = f PROVE FALSE
  <2>1. f # "none"
    OBVIOUS
  <2>2. At(q, "put")
    BY <1>1, <1>2, <2>1 DEF ProcOK
  <2>3. q \in Running
    BY <2>2, AtOnly DEF Names
  <2>. QED  BY <1>1, <1>2, <2>1, <2>3 DEF AloneOK
<1>3. f \in JsonFiles
  BY FileNames
<1>. QED  BY <1>1, <1>2, <1>3 DEF WrittenOK, Whole

LEMMA InvRemoves == IInv => RemovalIsComplete
<1>. SUFFICES ASSUME IInv, NEW p \in Procs \ company, proc[p].cmd = "disconnect", proc[p].todo = <<>>
              PROVE  exists = {}
  BY DEF RemovalIsComplete
<1>1. Alone(p)
  BY DEF Alone, Running
<1>2. proc[p].todo # <<Do("has_local_state")>> /\ DOMAIN proc[p].todo = {}
  OBVIOUS
<1>. QED  BY <1>1, <1>2 DEF IInv, RemovedOK

\* The device id of who ran alone last is in the file, so that whoever runs alone next
\* goes by it too.
LEMMA OneDeviceStep ==
  IInv /\ [Next]_vars => [lastDevice # NoDevice => lastDevice' \in {lastDevice, NoDevice}]_vars
<1>. SUFFICES ASSUME IInv, Next, lastDevice # NoDevice
              PROVE  lastDevice' \in {lastDevice, NoDevice}
  BY DEF vars, pastVars
<1>1. ASSUME NEW p \in Procs, OpenStore(p) PROVE lastDevice' \in {lastDevice, NoDevice}
  <2>1. CASE p \in company
    BY <1>1, <2>1 DEF OpenStore
  <2>2. CASE p \notin company /\ proc[p].device # NoDevice
    <3>1. At(p, "store") /\ lastDevice' = proc[p].device
      BY <1>1, <2>2 DEF OpenStore
    <3>2. Alone(p)
      BY <2>2, <3>1, AtOnly DEF Alone, Names
    <3>3. Identity(proc[p].device) /\ Identity(lastDevice)
      BY <2>2, <3>1, <3>2 DEF IInv, DeviceOK
    <3>4. <<[device_id |-> proc[p].device]>> = <<[device_id |-> lastDevice]>>
      BY <3>3 DEF Identity
    <3>5. \A a, b : <<[device_id |-> a]>> = <<[device_id |-> b]>> => a = b
      <4>1. \A a, b : <<a>> = <<b>> => a = b
        OBVIOUS
      <4>2. \A a, b : [device_id |-> a] = [device_id |-> b] => a = b
        OBVIOUS
      <4>. QED  BY <4>1, <4>2, Zenon
    <3>. QED  BY <3>1, <3>4, <3>5, Zenon
  <2>3. CASE p \notin company /\ proc[p].device = NoDevice
    BY <1>1, <2>3 DEF OpenStore
  <2>. QED  BY <2>1, <2>2, <2>3
<1>2. ASSUME NEW p \in Procs, Unlink(p) PROVE lastDevice' \in {lastDevice, NoDevice}
  BY <1>2 DEF Unlink, Ends
<1>3. ASSUME NEW p \in Procs,
             \/ \E c \in Commands : Start(p, c)
             \/ Finish(p) \/ LoadConfig(p) \/ Pair(p) \/ LoadOrCreateDeviceIdentity(p)
             \/ (\E policy \in Policies : Connect(p, policy))
             \/ Chat(p) \/ Reply(p) \/ CheckLocalState(p)
             \/ OpenTruncated(p) \/ OpenAppend(p) \/ Put(p) \/ CheckExists(p) \/ Kill(p)
      PROVE  lastDevice' = lastDevice
  BY <1>3 DEF Start, Finish, Ends, LoadConfig, Pair, LoadOrCreateDeviceIdentity, NewDevice,
              Connect, Chat, Reply, CheckLocalState, OpenTruncated, OpenAppend, Put,
              CheckExists, Kill, pastVars
<1>4. TimePasses \/ Update => lastDevice' = lastDevice
  BY DEF TimePasses, Update, pastVars
<1>. QED  BY <1>1, <1>2, <1>3, <1>4 DEF Next

\* A line that is stored is a line of the file.
LEMMA StoredIsLine ==
  ASSUME NEW text \in Seq(Tokens), NEW f, NEW k, NEW i \in DOMAIN text, Stored(text, f, k, i),
         LineOf(f, k) \in Seq(Tokens)
  PROVE  HasLine(text, i, LineOf(f, k))
<1>. PICK line, n, m : line = LineOf(f, k) /\ n = Len(LineOf(f, k)) /\ m = Len(text)
  OBVIOUS
<1>1. /\ m \in Nat /\ DOMAIN text = 1 .. m /\ i \in 1 .. m /\ n \in Nat
      /\ line \in Seq(Tokens) /\ Len(line) = n
  OBVIOUS
<1>2. /\ i + n <= m /\ (i = 1 \/ IsLineEnd(text[i - 1]))
      /\ \A j \in 1 .. n : text[i + j - 1] = line[j]
      /\ text[i + n] = Piece(k, 0)
  BY DEF Stored
<1>3. i \in LineStarts(text)
  BY <1>1, <1>2 DEF LineStarts
<1>4. SubSeq(text, i, i + n - 1) = line
  <2>1. PICK part : part = SubSeq(text, i, i + n - 1)
    OBVIOUS
  <2>2. i \in 1 .. m + 1 /\ i + n - 1 \in Nat /\ i + n - 1 <= m /\ (i + n - 1) - i + 1 = n
    BY <1>1, <1>2
  <2>3. /\ part \in Seq(Tokens) /\ Len(part) = n
        /\ \A j \in 1 .. n : part[j] = text[i + j - 1]
    <3>1. PICK b : b = i + n - 1
      OBVIOUS
    <3>2. b \in Nat /\ b <= m /\ b - i + 1 = n /\ i >= 1 /\ i <= b + 1
      BY <1>1, <2>2, <3>1
    <3>3. part = SubSeq(text, i, b)
      BY <2>1, <3>1
    <3>4. part \in Seq(Tokens) /\ Len(part) = b - i + 1
      BY <1>1, <3>2, <3>3
    <3>5. \A j \in 1 .. b - i + 1 : part[j] = text[i + j - 1]
      BY <1>1, <3>2, <3>3
    <3>. QED  BY <3>2, <3>4, <3>5
  <2>4. \A j \in 1 .. n : part[j] = line[j]
    BY <1>2, <2>3
  <2>5. part = line
    BY <1>1, <2>3, <2>4
  <2>. QED  BY <2>1, <2>5
<1>5. IsLineEnd(text[i + n]) /\ i + n <= m + 1
  BY <1>1, <1>2 DEF Piece, IsLineEnd
<1>. QED  BY <1>3, <1>4, <1>5 DEF HasLine

\* Where a line begins its first piece is.
LEMMA LineBegins ==
  ASSUME NEW text \in Seq(Tokens), NEW j \in DOMAIN text, NEW k, HasLine(text, j, Entry(k))
  PROVE  text[j] = Piece(k, 1)
<1>1. Len(Entry(k)) = 2 /\ Entry(k)[1] = Piece(k, 1)
  BY DEF Entry
<1>2. SubSeq(text, j, j + 2 - 1) = Entry(k) /\ j + 2 <= Len(text) + 1
  BY <1>1 DEF HasLine
<1>3. SubSeq(text, j, j + 1)[1] = text[j]
  <2>1. j \in 1 .. Len(text) /\ Len(text) \in Nat /\ j + 1 <= Len(text)
    BY <1>2
  <2>. QED  BY <2>1
<1>4. j + 2 - 1 = j + 1
  OBVIOUS
<1>. QED  BY <1>1, <1>2, <1>3, <1>4

\* Of the lines of the history after one that is stored no more are valid than there
\* are lines with pieces after its end.
LEMMA EntriesAfter ==
  ASSUME NEW text \in Seq(Tokens), NEW k, NEW i \in DOMAIN text, Stored(text, "history", k, i),
         \A a, b \in DOMAIN text : text[a] = text[b] => a = b
  PROVE  /\ {j \in IsEntry(text) : j > i} \subseteq 1 .. Len(text)
         /\ IsFiniteSet({text[j].line : j \in i + 3 .. Len(text)})
         /\ Cardinality({j \in IsEntry(text) : j > i})
              <= Cardinality({text[j].line : j \in i + 3 .. Len(text)})
<1>1. PICK m : m = Len(text)
  OBVIOUS
<1>2. m \in Nat /\ DOMAIN text = 1 .. m /\ i \in 1 .. m
  BY <1>1
<1>3. Len(LineOf("history", k)) = 2 /\ \A j \in 1 .. 2 : LineOf("history", k)[j] = Piece(k, j)
  <2>1. Len(LineOf("history", k)) = 2
    BY LineParts
  <2>. QED  BY <2>1, LineParts
<1>4. i + 2 <= m /\ text[i + 1] = Piece(k, 2) /\ text[i + 2] = Piece(k, 0)
  <2>1. /\ i + 2 <= m /\ text[i + 2] = Piece(k, 0)
        /\ \A j \in 1 .. 2 : text[i + j - 1] = Piece(k, j)
    BY <1>1, <1>3 DEF Stored
  <2>2. i + 2 - 1 = i + 1 /\ 2 \in 1 .. 2
    BY <1>2
  <2>3. text[i + 2 - 1] = Piece(k, 2)
    BY <2>1, <2>2
  <2>. QED  BY <2>1, <2>2, <2>3
<1>. DEFINE S == {j \in IsEntry(text) : j > i}
            T == {text[j].line : j \in i + 3 .. m}
<1>5. ASSUME NEW j \in S
      PROVE  /\ j \in DOMAIN text /\ j \in i + 3 .. m
             /\ \E n \in 1 .. entries : text[j] = Piece(n, 1)
  <2>1. /\ j \in DOMAIN text /\ j > i
        /\ \E n \in 1 .. entries : HasLine(text, j, Entry(n))
    BY DEF IsEntry
  <2>2. PICK n \in 1 .. entries : HasLine(text, j, Entry(n))
    BY <2>1
  <2>3. text[j] = Piece(n, 1)
    BY <2>1, <2>2, LineBegins
  <2>4. text[j].piece = 1 /\ text[i + 1].piece = 2 /\ text[i + 2].piece = 0
    BY <1>4, <2>3 DEF Piece
  <2>5. j # i + 1 /\ j # i + 2
    <3>1. text[j] # text[i + 1] /\ text[j] # text[i + 2]
      BY <2>4
    <3>. QED  BY <3>1
  <2>6. j \in i + 3 .. m
    BY <1>2, <2>1, <2>5
  <2>. QED  BY <2>1, <2>3, <2>6
<1>6. S \subseteq 1 .. m
  BY <1>2, <1>5
<1>7. IsFiniteSet(T)
  <2>1. IsFiniteSet(i + 3 .. m)
    BY <1>2, FS_Interval
  <2>2. PICK g : g = [j \in i + 3 .. m |-> text[j].line]
    OBVIOUS
  <2>3. g \in Surjection(i + 3 .. m, T)
    <3>1. g \in [i + 3 .. m -> T]
      BY <2>2
    <3>2. \A t \in T : \E j \in i + 3 .. m : g[j] = t
      BY <2>2
    <3>. QED  BY <3>1, <3>2 DEF Surjection
  <2>. HIDE DEF T
  <2>. QED  BY <2>1, <2>3, FS_Surjection
<1>8. Cardinality(S) <= Cardinality(T)
  <2>1. PICK g : g = [j \in S |-> text[j].line]
    OBVIOUS
  <2>2. \A j \in S : text[j].line \in T
    BY <1>5
  <2>3. ASSUME NEW a \in S, NEW b \in S, text[a].line = text[b].line PROVE a = b
    <3>1. PICK n \in 1 .. entries : text[a] = Piece(n, 1)
      BY <1>5
    <3>2. PICK o \in 1 .. entries : text[b] = Piece(o, 1)
      BY <1>5
    <3>3. n = o
      BY <2>3, <3>1, <3>2 DEF Piece
    <3>4. text[a] = text[b]
      BY <3>1, <3>2, <3>3
    <3>5. a \in DOMAIN text /\ b \in DOMAIN text
      BY <1>5
    <3>. QED  BY <3>4, <3>5
  <2>. HIDE DEF S, T
  <2>4. g \in [S -> T]
    BY <2>1, <2>2
  <2>5. \A a, b \in S : g[a] = g[b] => a = b
    BY <2>1, <2>3
  <2>6. g \in Injection(S, T)
    BY <2>4, <2>5 DEF Injection, IsInjective
  <2>. QED  BY <1>7, <2>6, FS_Injection
<1>. QED  BY <1>1, <1>6, <1>7, <1>8

LEMMA InvReadBack == IInv => IntactIsReadBack
<1>. SUFFICES ASSUME IInv, NEW line \in intact
              PROVE  IF line[1] = "history"
                     THEN \/ Outdated(line[2])
                          \/ \E i \in ReadHistory : HasLine(content["history"], i, Entry(line[2]))
                     ELSE \E i \in ReadInputHistory :
                            HasLine(content["input_history"], i, <<Piece(line[2], 1)>>)
  BY DEF IntactIsReadBack
<1>1. PICK f, k : f = line[1] /\ k = line[2]
  OBVIOUS
<1>2. f \in LogFiles /\ k \in 1 .. entries /\ entries \in Nat /\ f \in Files
  <2>1. intact \subseteq LogFiles \X (1 .. entries) /\ entries \in Nat
    BY Bounded DEF IInv, PastOK, CountsOK
  <2>. QED  BY <1>1, <2>1, FileNames
<1>3. PICK text : text = content[f]
  OBVIOUS
<1>4. text \in Seq(Tokens) /\ \A a, b \in DOMAIN text : text[a] = text[b] => a = b
  BY <1>2, <1>3 DEF IInv, FilesOK, PiecesOK
<1>5. PICK i \in DOMAIN text : Stored(text, f, k, i)
  BY <1>1, <1>3 DEF IInv, IntactOK
<1>6. LineOf(f, k) \in Seq(Tokens)
  <2>1. Piece(k, 1) \in Tokens /\ Piece(k, 2) \in Tokens
    BY <1>2 DEF Piece, Tokens
  <2>2. <<Piece(k, 1), Piece(k, 2)>> \in Seq(Tokens) /\ <<Piece(k, 1)>> \in Seq(Tokens)
    BY <2>1
  <2>. QED  BY <2>2 DEF LineOf, Entry
<1>7. HasLine(text, i, LineOf(f, k))
  BY <1>4, <1>5, <1>6, StoredIsLine
<1>8. CASE f = "history"
  <2>. DEFINE S == {j \in IsEntry(text) : j > i}
              T == {text[j].line : j \in i + 3 .. Len(text)}
  <2>1. HasLine(text, i, Entry(k)) /\ i \in IsEntry(text)
    BY <1>2, <1>7, <1>8 DEF LineOf, IsEntry
  <2>2. S \subseteq 1 .. Len(text) /\ IsFiniteSet(T) /\ Cardinality(S) <= Cardinality(T)
    BY <1>4, <1>5, <1>8, EntriesAfter
  <2>3. i + 2 \in DOMAIN text /\ text[i + 2] = Piece(k, 0)
    <3>1. Len(LineOf("history", k)) = 2
      BY LineParts
    <3>2. i + 2 <= Len(text) /\ text[i + 2] = Piece(k, 0)
      BY <1>5, <1>8, <3>1 DEF Stored
    <3>. QED  BY <1>4, <3>2
  <2>4. (CHOOSE j \in DOMAIN text : text[j] = Piece(k, 0)) = i + 2
    BY <1>4, <2>3
  <2>5. ASSUME ~Outdated(k) PROVE i \in ReadHistory
    <3>1. ~(Cardinality({text[j].line : j \in (i + 2) + 1 .. Len(text)}) >= HistoryLimit)
      BY <1>3, <1>8, <2>4, <2>5 DEF Outdated
    <3>2. (i + 2) + 1 = i + 3
      BY <1>4
    <3>3. ~(Cardinality(T) >= HistoryLimit)
      BY <3>1, <3>2
    <3>. HIDE DEF S, T
    <3>4. Cardinality(S) < HistoryLimit
      <4>1. IsFiniteSet(S)
        <5>1. IsFiniteSet(1 .. Len(text))
          BY <1>4, FS_Interval
        <5>. QED  BY <2>2, <5>1, FS_Subset
      <4>2. PICK a, b : a = Cardinality(S) /\ b = Cardinality(T)
        OBVIOUS
      <4>3. a \in Nat /\ b \in Nat
        BY <2>2, <4>1, <4>2, FS_CardinalityType
      <4>4. a <= b /\ ~(b >= HistoryLimit) /\ HistoryLimit \in Nat
        BY <2>2, <3>3, <4>2, Bounded
      <4>5. a < HistoryLimit
        BY <4>3, <4>4
      <4>. QED  BY <4>2, <4>5
    <3>. QED  BY <1>3, <1>8, <2>1, <3>4 DEF ReadHistory, LastOf, S
  <2>. QED  BY <1>1, <1>3, <1>8, <2>1, <2>5
<1>9. CASE f # "history"
  <2>1. f = "input_history"
    BY <1>2, <1>9 DEF LogFiles
  <2>2. LineOf(f, k) = <<Piece(k, 1)>>
    BY <1>9 DEF LineOf
  <2>3. text[i] = Piece(k, 1)
    <3>1. Len(LineOf(f, k)) = 1 /\ LineOf(f, k)[1] = Piece(k, 1)
      BY <2>2
    <3>2. text[i + 1 - 1] = Piece(k, 1)
      BY <1>5, <3>1 DEF Stored
    <3>. QED  BY <1>4, <3>2
  <2>4. ~IsLineEnd(text[i])
    BY <2>3 DEF Piece, IsLineEnd
  <2>5. i \in ReadInputHistory
    BY <1>3, <1>7, <2>1, <2>4 DEF ReadInputHistory, HasLine
  <2>. QED  BY <1>1, <1>3, <1>7, <1>9, <2>1, <2>2, <2>5
<1>. QED  BY <1>8, <1>9

-----------------------------------------------------------------------------
(* The order of versions *)

\* What two sequences of numbers make one after the other.
LEMMA JoinedNumbers ==
  ASSUME NEW s \in Seq(Nat), NEW t \in Seq(Nat)
  PROVE  /\ s \o t \in Seq(Nat) /\ Len(s \o t) = Len(s) + Len(t)
         /\ \A i \in 1 .. Len(s) : (s \o t)[i] = s[i]
OBVIOUS

\* The first three numbers of at least three.
LEMMA FirstThree ==
  ASSUME NEW s \in Seq(Nat), 3 <= Len(s)
  PROVE  /\ SubSeq(s, 1, 3) \in Seq(Nat) /\ Len(SubSeq(s, 1, 3)) = 3
         /\ \A i \in 1 .. 3 : SubSeq(s, 1, 3)[i] = s[i]
OBVIOUS

\* Sequences of one length with the same numbers are one sequence.
LEMMA SameNumbers ==
  ASSUME NEW s \in Seq(Nat), NEW t \in Seq(Nat), Len(s) = Len(t),
         \A i \in 1 .. Len(s) : s[i] = t[i]
  PROVE  s = t
<1>1. s = [i \in 1 .. Len(s) |-> s[i]] /\ t = [i \in 1 .. Len(t) |-> t[i]]
  OBVIOUS
<1>2. [i \in 1 .. Len(s) |-> s[i]] = [i \in 1 .. Len(s) |-> t[i]]
  OBVIOUS
<1>. QED  BY <1>1, <1>2

LEMMA PrefixParts ==
  ASSUME NEW s \in Seq(Nat), NEW t \in Seq(Nat)
  PROVE  IsStrictPrefix(s, t) <=> Len(s) < Len(t) /\ \A i \in DOMAIN s : s[i] = t[i]
<1>. PICK m, n : m = Len(s) /\ n = Len(t)
  OBVIOUS
<1>1. m \in Nat /\ n \in Nat /\ DOMAIN s = 1 .. m /\ DOMAIN t = 1 .. n
  OBVIOUS
<1>2. ASSUME IsStrictPrefix(s, t) PROVE m < n /\ \A i \in 1 .. m : s[i] = t[i]
  <2>1. m <= n /\ SubSeq(s, 1, m) = SubSeq(t, 1, m) /\ s # t
    BY <1>2 DEF IsStrictPrefix, IsPrefix
  <2>2. ASSUME NEW i \in 1 .. m PROVE s[i] = t[i]
    <3>1. SubSeq(s, 1, m)[i] = s[i] /\ SubSeq(t, 1, m)[i] = t[i]
      BY <1>1, <2>1
    <3>. QED  BY <2>1, <3>1
  <2>3. m # n
    <3>1. m = n => s = t
      BY <1>1, <2>2
    <3>. QED  BY <2>1, <3>1
  <2>. QED  BY <1>1, <2>1, <2>2, <2>3
<1>3. ASSUME m < n, \A i \in 1 .. m : s[i] = t[i] PROVE IsStrictPrefix(s, t)
  <2>1. SubSeq(s, 1, m) = SubSeq(t, 1, m)
    <3>1. PICK a, b : a = SubSeq(s, 1, m) /\ b = SubSeq(t, 1, m)
      OBVIOUS
    <3>2. a \in Seq(Nat) /\ Len(a) = m /\ \A i \in 1 .. m : a[i] = s[i]
      BY <1>1, <3>1
    <3>3. b \in Seq(Nat) /\ Len(b) = m /\ \A i \in 1 .. m : b[i] = t[i]
      BY <1>1, <1>3, <3>1
    <3>4. Len(a) = Len(b) /\ \A i \in 1 .. Len(a) : a[i] = b[i]
      BY <1>3, <3>2, <3>3
    <3>5. a = b
      BY <3>2, <3>3, <3>4, SameNumbers
    <3>. QED  BY <3>1, <3>5
  <2>2. m <= n /\ s # t
    BY <1>1, <1>3
  <2>. QED  BY <2>1, <2>2 DEF IsStrictPrefix, IsPrefix
<1>. QED  BY <1>1, <1>2, <1>3

LEMMA BeforeTransitive ==
  ASSUME NEW s \in Seq(Nat), NEW t \in Seq(Nat), NEW u \in Seq(Nat), Before(s, t), Before(t, u)
  PROVE  Before(s, u)
<1>. DEFINE Prefix(a, b) == Len(a) < Len(b) /\ \A i \in DOMAIN a : a[i] = b[i]
            Differs(a, b, i) == /\ i \in DOMAIN a /\ i \in DOMAIN b /\ a[i] < b[i]
                                /\ \A j \in 1 .. i - 1 : a[j] = b[j]
<1>1. \A a, b \in Seq(Nat) : Before(a, b) <=> Prefix(a, b) \/ \E i \in Nat : Differs(a, b, i)
  <2>. SUFFICES ASSUME NEW a \in Seq(Nat), NEW b \in Seq(Nat)
                PROVE  Before(a, b) <=> Prefix(a, b) \/ \E i \in Nat : Differs(a, b, i)
    OBVIOUS
  <2>1. IsStrictPrefix(a, b) <=> Prefix(a, b)
    BY PrefixParts
  <2>2. \A i \in DOMAIN a : i \in Nat
    OBVIOUS
  <2>. QED  BY <2>1, <2>2 DEF Before
<1>2. /\ Len(s) \in Nat /\ Len(t) \in Nat /\ Len(u) \in Nat
      /\ DOMAIN s = 1 .. Len(s) /\ DOMAIN t = 1 .. Len(t) /\ DOMAIN u = 1 .. Len(u)
      /\ (\A i \in DOMAIN s : s[i] \in Nat) /\ (\A i \in DOMAIN t : t[i] \in Nat)
      /\ \A i \in DOMAIN u : u[i] \in Nat
  OBVIOUS
<1>3. ASSUME Prefix(s, t), Prefix(t, u) PROVE Prefix(s, u)
  BY <1>2, <1>3
<1>4. ASSUME Prefix(s, t), NEW i \in Nat, Differs(t, u, i)
      PROVE  Prefix(s, u) \/ Differs(s, u, i)
  <2>1. CASE i \in DOMAIN s
    <3>0. i \in DOMAIN u /\ t[i] < u[i]
      BY <1>4
    <3>1. s[i] = t[i] /\ i <= Len(s)
      <4>1. s[i] = t[i]
        BY <1>4, <2>1
      <4>2. i \in 1 .. Len(s)
        BY <1>2, <2>1
      <4>. QED  BY <1>2, <4>1, <4>2
    <3>2. ASSUME NEW j \in 1 .. i - 1 PROVE s[j] = u[j]
      <4>1. j \in DOMAIN s
        BY <1>2, <3>1
      <4>. QED  BY <1>4, <4>1
    <3>3. s[i] < u[i]
      BY <3>0, <3>1
    <3>. QED  BY <2>1, <3>0, <3>2, <3>3
  <2>2. CASE i \notin DOMAIN s
    <3>1. i \in DOMAIN t /\ i \in DOMAIN u
      BY <1>4
    <3>2. Len(s) < i /\ i <= Len(u)
      BY <1>2, <2>2, <3>1
    <3>3. Len(s) < Len(u)
      BY <1>2, <3>2
    <3>4. ASSUME NEW j \in DOMAIN s PROVE s[j] = u[j]
      <4>1. j \in 1 .. i - 1
        BY <1>2, <3>2
      <4>. QED  BY <1>4, <4>1
    <3>. QED  BY <3>3, <3>4
  <2>. QED  BY <2>1, <2>2
<1>5. ASSUME NEW i \in Nat, Differs(s, t, i), Prefix(t, u) PROVE Differs(s, u, i)
  <2>0. i \in DOMAIN s /\ i \in DOMAIN t /\ s[i] < t[i] /\ Len(t) < Len(u)
    BY <1>5
  <2>1. t[i] = u[i]
    BY <1>5, <2>0
  <2>2. i \in DOMAIN u /\ i <= Len(t)
    <3>1. i \in 1 .. Len(t)
      BY <1>2, <2>0
    <3>2. i \in 1 .. Len(u) /\ i <= Len(t)
      BY <1>2, <2>0, <3>1
    <3>. QED  BY <1>2, <3>2
  <2>3. ASSUME NEW j \in 1 .. i - 1 PROVE s[j] = u[j]
    <3>1. j \in DOMAIN t
      <4>1. j \in 1 .. Len(t)
        BY <1>2, <2>2
      <4>. QED  BY <1>2, <4>1
    <3>2. s[j] = t[j]
      BY <1>5
    <3>3. t[j] = u[j]
      BY <1>5, <3>1
    <3>. QED  BY <3>2, <3>3
  <2>4. s[i] < u[i]
    BY <2>0, <2>1
  <2>. QED  BY <2>0, <2>2, <2>3, <2>4
<1>6. ASSUME NEW i \in Nat, Differs(s, t, i), NEW j \in Nat, Differs(t, u, j)
      PROVE  Differs(s, u, i) \/ Differs(s, u, j)
  <2>1. CASE i < j
    BY <1>2, <1>6, <2>1
  <2>2. CASE j <= i
    <3>1. j \in DOMAIN t /\ j \in DOMAIN u /\ t[j] < u[j] /\ i \in DOMAIN s /\ s[i] < t[i]
      BY <1>6
    <3>2. j \in DOMAIN s
      <4>1. j \in 1 .. Len(t) /\ i \in 1 .. Len(s)
        BY <1>2, <3>1
      <4>2. j \in 1 .. Len(s)
        BY <1>2, <2>2, <4>1
      <4>. QED  BY <1>2, <4>2
    <3>3. s[j] <= t[j]
      <4>1. CASE i = j
        BY <1>2, <3>1, <3>2, <4>1
      <4>2. CASE i # j
        <5>1. j \in 1 .. i - 1
          BY <1>2, <2>2, <3>1, <4>2
        <5>2. s[j] = t[j]
          BY <1>6, <5>1
        <5>. QED  BY <1>2, <3>1, <5>2
      <4>. QED  BY <4>1, <4>2
    <3>4. s[j] < u[j]
      BY <1>2, <3>1, <3>2, <3>3
    <3>5. ASSUME NEW k \in 1 .. j - 1 PROVE s[k] = u[k]
      <4>1. k \in 1 .. i - 1
        BY <2>2
      <4>. QED  BY <1>6, <4>1
    <3>. QED  BY <3>1, <3>2, <3>4, <3>5
  <2>3. i < j \/ j <= i
    OBVIOUS
  <2>. QED  BY <2>1, <2>2, <2>3
<1>. HIDE DEF Prefix, Differs
<1>7. /\ Prefix(s, t) \/ \E i \in Nat : Differs(s, t, i)
      /\ Prefix(t, u) \/ \E i \in Nat : Differs(t, u, i)
  BY <1>1
<1>8. Prefix(s, u) \/ \E i \in Nat : Differs(s, u, i)
  BY <1>3, <1>4, <1>5, <1>6, <1>7
<1>. QED  BY <1>1, <1>8

LEMMA OlderTransitive ==
  ASSUME NEW a \in Version, NEW b \in Version, NEW c \in Version, Older(a, b), Older(b, c)
  PROVE  Older(a, c)
<1>1. /\ a.numbers \in Seq(Nat) /\ b.numbers \in Seq(Nat) /\ c.numbers \in Seq(Nat)
      /\ a.pre \in Seq(Nat) /\ b.pre \in Seq(Nat) /\ c.pre \in Seq(Nat)
  BY DEF Version
<1>2. Before(a.numbers, b.numbers) /\ Before(b.numbers, c.numbers) => Before(a.numbers, c.numbers)
  BY <1>1, BeforeTransitive
<1>3. Before(a.pre, b.pre) /\ Before(b.pre, c.pre) => Before(a.pre, c.pre)
  BY <1>1, BeforeTransitive
<1>. QED  BY <1>2, <1>3 DEF Older

\* The numbers of a release are what the lenient comparison goes by.
LEMMA PartsOfRelease ==
  ASSUME NEW version \in Version
  PROVE  /\ VersionParts(version) \in Seq(Nat)
         /\ Len(version.numbers) = 3 => VersionParts(version) = version.numbers
<1>. DEFINE s == version.numbers
            st == s \o version.pre
            u == st \o <<0, 0, 0>>
            parts == SubSeq(u, 1, 3)
<1>1. s \in Seq(Nat) /\ version.pre \in Seq(Nat)
  BY DEF Version
<1>2. <<0, 0, 0>> \in Seq(Nat) /\ Len(<<0, 0, 0>>) = 3
  OBVIOUS
<1>3. st \in Seq(Nat) /\ Len(st) = Len(s) + Len(version.pre) /\ \A i \in 1 .. Len(s) : st[i] = s[i]
  BY <1>1, JoinedNumbers
<1>. HIDE DEF st, s
<1>4. u \in Seq(Nat) /\ Len(u) = Len(st) + 3 /\ \A i \in 1 .. Len(st) : u[i] = st[i]
  <2>1. u \in Seq(Nat) /\ Len(u) = Len(st) + Len(<<0, 0, 0>>) /\ \A i \in 1 .. Len(st) : u[i] = st[i]
    BY <1>2, <1>3, JoinedNumbers
  <2>. QED  BY <1>2, <2>1
<1>. HIDE DEF u
<1>5. Len(s) \in Nat /\ Len(version.pre) \in Nat /\ Len(st) \in Nat
  BY <1>1, <1>3
<1>6. 3 <= Len(u)
  BY <1>4, <1>5
<1>7. parts \in Seq(Nat) /\ Len(parts) = 3 /\ \A i \in 1 .. 3 : parts[i] = u[i]
  BY <1>4, <1>6, FirstThree
<1>. HIDE DEF parts
<1>8. ASSUME Len(s) = 3 PROVE parts = s
  <2>1. Len(parts) = Len(s)
    BY <1>7, <1>8
  <2>2. ASSUME NEW i \in 1 .. 3 PROVE parts[i] = s[i]
    <3>1. i \in 1 .. Len(s) /\ i \in 1 .. Len(st)
      BY <1>3, <1>5, <1>8
    <3>. QED  BY <1>3, <1>4, <1>7, <3>1
  <2>3. \A i \in 1 .. Len(parts) : parts[i] = s[i]
    BY <1>7, <2>2
  <2>. QED  BY <1>1, <1>7, <2>1, <2>3, SameNumbers
<1>9. VersionParts(version) = parts
  BY DEF VersionParts, parts, u, st, s
<1>. QED  BY <1>7, <1>8, <1>9 DEF s

\* Of a version that is newer no bound is a worse one.
LEMMA NewerHelps ==
  ASSUME NEW old \in Version, NEW new \in Version, Parses(old), Parses(new), Older(old, new),
         NEW bound \in Version
  PROVE  /\ Older(new, bound) => Older(old, bound)
         /\ IsBelow(new, bound) => IsBelow(old, bound)
         /\ IsVersionLessThan(new, bound) => IsVersionLessThan(old, bound)
<1>1. Older(new, bound) => Older(old, bound)
  BY OlderTransitive
<1>2. IsBelow(new, bound) => IsBelow(old, bound)
  <2>1. Trimmed(bound) \in Version
    BY DEF Trimmed, Version
  <2>2. Older(new, Trimmed(bound)) => Older(old, Trimmed(bound))
    BY <2>1, OlderTransitive
  <2>. QED  BY <2>2 DEF IsBelow
<1>3. IsVersionLessThan(new, bound) => IsVersionLessThan(old, bound)
  <2>1. /\ VersionParts(old) = old.numbers /\ VersionParts(new) = new.numbers
        /\ VersionParts(old) \in Seq(Nat) /\ VersionParts(new) \in Seq(Nat)
        /\ VersionParts(bound) \in Seq(Nat)
    BY PartsOfRelease DEF Parses
  <2>2. Before(old.numbers, new.numbers) \/ old.numbers = new.numbers
    BY DEF Older
  <2>. QED  BY <2>1, <2>2, BeforeTransitive DEF IsVersionLessThan
<1>. QED  BY <1>1, <1>2, <1>3

LEMMA VerdictsHelp ==
  ASSUME NEW old \in Version, NEW new \in Version, Parses(old), Parses(new), Older(old, new),
         NEW policy \in [min : Version, recommended : Version]
  PROVE  /\ Severity(EvaluateVersionPolicy(new, policy))
              <= Severity(EvaluateVersionPolicy(old, policy))
         /\ Severity(EvaluatePluginVersionPolicy(new, policy))
              <= Severity(EvaluatePluginVersionPolicy(old, policy))
<1>1. /\ Severity("None") = 0 /\ Severity("Ok") = 0 /\ Severity("SoftNag") = 1
      /\ Severity("HardBlock") = 2
  BY DEF Severity
<1>2. policy.min \in Version /\ policy.recommended \in Version
  OBVIOUS
<1>3. Parses(Trimmed(old)) /\ Parses(Trimmed(new))
  BY DEF Parses, Trimmed, Version
<1>4. Severity(EvaluateVersionPolicy(new, policy)) <= Severity(EvaluateVersionPolicy(old, policy))
  <2>1. /\ IsBelow(new, policy.min) => IsBelow(old, policy.min)
        /\ IsBelow(new, policy.recommended) => IsBelow(old, policy.recommended)
    BY <1>2, NewerHelps
  <2>2. \A version : Parses(Trimmed(version)) =>
          EvaluateVersionPolicy(version, policy) =
            IF IsBelow(version, policy.min) THEN "HardBlock"
            ELSE IF IsBelow(version, policy.recommended) THEN "SoftNag" ELSE "None"
    BY DEF EvaluateVersionPolicy
  <2>. QED  BY <1>1, <1>3, <2>1, <2>2
<1>5. Severity(EvaluatePluginVersionPolicy(new, policy))
        <= Severity(EvaluatePluginVersionPolicy(old, policy))
  <2>1. /\ Older(new, policy.min) => Older(old, policy.min)
        /\ Older(new, policy.recommended) => Older(old, policy.recommended)
    BY <1>2, NewerHelps
  <2>2. \A version : Parses(version) =>
          EvaluatePluginVersionPolicy(version, policy) =
            IF Parses(policy.min) /\ Older(version, policy.min) THEN "HardBlock"
            ELSE IF Parses(policy.recommended) /\ Older(version, policy.recommended) THEN "SoftNag"
            ELSE "Ok"
    BY DEF EvaluatePluginVersionPolicy
  <2>. QED  BY <1>1, <2>1, <2>2
<1>. QED  BY <1>4, <1>5

LEMMA UpdatesStep ==
  IInv /\ [Next]_vars =>
    [installed' # installed =>
       LET old == Releases[installed]
           new == Releases[installed']
       IN /\ \A policy \in [min : Bounds, recommended : Bounds] :
               /\ Severity(EvaluateVersionPolicy(new, policy))
                    <= Severity(EvaluateVersionPolicy(old, policy))
               /\ Severity(EvaluatePluginVersionPolicy(new, policy))
                    <= Severity(EvaluatePluginVersionPolicy(old, policy))
          /\ \A bound \in Bounds :
               IsVersionLessThan(new, bound) => IsVersionLessThan(old, bound)]_vars
<1>. SUFFICES ASSUME IInv, Next, installed' # installed
              PROVE  /\ \A policy \in [min : Bounds, recommended : Bounds] :
                          /\ Severity(EvaluateVersionPolicy(Releases[installed'], policy))
                               <= Severity(EvaluateVersionPolicy(Releases[installed], policy))
                          /\ Severity(EvaluatePluginVersionPolicy(Releases[installed'], policy))
                               <= Severity(EvaluatePluginVersionPolicy(Releases[installed], policy))
                     /\ \A bound \in Bounds :
                          IsVersionLessThan(Releases[installed'], bound)
                          => IsVersionLessThan(Releases[installed], bound)
  BY DEF vars, boundVars
<1>1. Update
  <2>1. ASSUME NEW p \in Procs,
               \/ \E c \in Commands : Start(p, c)
               \/ Finish(p) \/ LoadConfig(p) \/ Pair(p) \/ LoadOrCreateDeviceIdentity(p)
               \/ OpenStore(p) \/ (\E policy \in Policies : Connect(p, policy))
               \/ Chat(p) \/ Reply(p) \/ CheckLocalState(p)
               \/ OpenTruncated(p) \/ OpenAppend(p) \/ Put(p) \/ CheckExists(p) \/ Unlink(p)
               \/ Kill(p)
        PROVE  installed' = installed
    BY <2>1 DEF Start, Finish, Ends, LoadConfig, Pair, LoadOrCreateDeviceIdentity, NewDevice,
                OpenStore, Connect, Chat, Reply, CheckLocalState, OpenTruncated, OpenAppend, Put,
                CheckExists, Unlink, Kill, boundVars
  <2>2. TimePasses => installed' = installed
    BY DEF TimePasses
  <2>. QED  BY <2>1, <2>2 DEF Next
<1>2. /\ installed \in DOMAIN Releases /\ installed < Len(Releases) /\ installed' = installed + 1
      /\ Releases \in Seq(Version)
  BY <1>1, ReleasesAssumption DEF Update, IInv, CountsOK
<1>3. installed' \in DOMAIN Releases /\ installed' # 1 /\ installed' - 1 = installed
  BY <1>2
<1>4. PICK old, new : old = Releases[installed] /\ new = Releases[installed']
  OBVIOUS
<1>5. /\ old \in Version /\ new \in Version /\ Parses(old) /\ Parses(new) /\ Older(old, new)
      /\ Bounds \subseteq Version
  BY <1>2, <1>3, <1>4, ReleasesAssumption
<1>6. ASSUME NEW policy \in [min : Bounds, recommended : Bounds]
      PROVE  /\ Severity(EvaluateVersionPolicy(new, policy))
                  <= Severity(EvaluateVersionPolicy(old, policy))
             /\ Severity(EvaluatePluginVersionPolicy(new, policy))
                  <= Severity(EvaluatePluginVersionPolicy(old, policy))
  <2>1. policy \in [min : Version, recommended : Version]
    BY <1>5
  <2>. QED  BY <1>5, <2>1, VerdictsHelp
<1>7. \A bound \in Bounds : IsVersionLessThan(new, bound) => IsVersionLessThan(old, bound)
  BY <1>5, NewerHelps
<1>. QED  BY <1>4, <1>6, <1>7

-----------------------------------------------------------------------------
(* The theorems *)

\* Every file is one of the known ones, and who writes has it open or had it.
THEOREM TypeCorrect == Spec => []TypeOK
<1>. QED  BY SpecInv, InvType, PTL

\* A line that no kill and no other process disturbed while it was written is read
\* back until its file is removed.
THEOREM IntactIsReadBackAlways == Spec => []IntactIsReadBack
<1>. QED  BY SpecInv, InvReadBack, PTL

\* A disconnect that has found something to remove and has gone on alone to its end
\* leaves no file, side files included.  It says nothing of a disconnect that finds
\* only side files: has_local_state does not look for them.
THEOREM RemovalIsCompleteAlways == Spec => []RemovalIsComplete
<1>. QED  BY SpecInv, InvRemoves, PTL

\* Who runs alone can read its config and its identity unless one was killed in the
\* middle of writing them.
THEOREM UnreadableIsTornAlways == Spec => []UnreadableIsTorn
<1>. QED  BY SpecInv, InvUnreadable, PTL

\* The processes that run alone go by one device id, until it is removed.
THEOREM OneDeviceAlways == Spec => OneDevice
<1>. QED  BY SpecInv, OneDeviceStep, PTL DEF Spec, OneDevice

\* An update of the client makes no version verdict worse, whatever the policy.
THEOREM UpdatesHelpAlways == Spec => UpdatesHelp
<1>. QED  BY SpecInv, UpdatesStep, PTL DEF Spec, UpdatesHelp

=============================================================================
