------------------------------ MODULE LocalState ------------------------------
(***************************************************************************)
(* The files the client keeps (AppPaths) and the processes that share      *)
(* them: chat sessions, one-shot commands, disconnect.  A process works    *)
(* off its calls to the file system one at a time, the others in between,  *)
(* and may be killed before any of them.                                   *)
(*                                                                         *)
(* A file is a sequence of tokens.  A JSON file is one token, written in   *)
(* one piece after the file has been cut to nothing.  A line appended to   *)
(* history.jsonl goes out piece by piece, here two and the line end, piece *)
(* 0; to input_history one and the line end.  Of the store and its two     *)
(* side files only whether they are there matters here.                    *)
(***************************************************************************)
EXTENDS VersionPolicy, FiniteSets

CONSTANTS Procs,
          Releases,            \* versions of the client, one after the other
          Bounds,              \* versions a policy may name
          Policies,            \* what the relay may send with hello_ok
          UPDATE_NAG_INTERVAL, \* 30 days, in units
          HistoryLimit,        \* 50 lines at the start of a chat
          Commands,            \* bound: commands that are run
          MaxStarts,           \* bound: processes started
          MaxEvents            \* bound: lines appended, nags shown, kills, units of
                               \* time, updates, processes started beside another

ASSUME LocalAssumption ==
  /\ {UPDATE_NAG_INTERVAL, HistoryLimit, MaxStarts, MaxEvents} \subseteq Nat
  /\ Commands \subseteq {"chat", "send", "pair", "status", "disconnect"}
  /\ IsFiniteSet(Procs)

\* Each release is newer than the one before it; a bound may be any version.
ASSUME ReleasesAssumption ==
  /\ Releases \in Seq(Version) /\ Releases # <<>> /\ Bounds \subseteq Version
  /\ \A i \in DOMAIN Releases :
       /\ Parses(Releases[i])
       /\ i # 1 => Older(Releases[i - 1], Releases[i])

SideFiles == {"-wal", "-shm"}
JsonFiles == {"config", "identity", "nag"}
LogFiles == {"history", "input_history"}
Files == JsonFiles \cup LogFiles \cup SideFiles \cup {"store"}

VARIABLES
  exists, content,  \* the files that are there, and what is in them
  proc,             \* of each process what it runs; see Process
  holds,            \* processes with the store open
  clock, installed, \* the time; which release is installed
  starts, entries, events, devices,
  \* History: processes that have run beside another; processes whose current
  \* append nothing has disturbed; files whose writer was killed in the middle;
  \* lines that were never disturbed nor removed; the device of the last process
  \* to run alone.
  company, clean, torn, intact, lastDevice

fileVars == <<exists, content>>
boundVars == <<clock, installed, starts, entries, events, devices>>
pastVars == <<company, clean, torn, intact, lastDevice>>
vars == <<fileVars, proc, holds, boundVars, pastVars>>

Event == events < MaxEvents /\ events' = events + 1

NoDevice == 0
NoToken == [none |-> 0]
Piece(k, i) == [line |-> k, piece |-> i]
IsLineEnd(token) == token.piece = 0

\* A call to come: what it does, to which file, with what.
Call(name, file, token) == [name |-> name, file |-> file, token |-> token]
Do(name) == Call(name, "none", NoToken)
Create(file, token) == Call("create", file, token)
AppendTo(file) == Call("append", file, NoToken)

\* What a process has still to do, the file it has open, its device id.
Process(cmd, todo) == [cmd |-> cmd, todo |-> todo, open |-> "none", device |-> NoDevice]

Idle == Process("idle", <<>>)

\* What a chat leaves that was killed in the middle of its first line.
LeftByKilledChat ==
  [f \in Files |-> CASE f = "config" -> <<[group_key |-> "key"]>>
                     [] f = "identity" -> <<[device_id |-> 1]>>
                     [] f = "history" -> <<Piece(1, 1)>>
                     [] OTHER -> <<>>]

Init ==
  /\ \/ exists = {} /\ content = [f \in Files |-> <<>>] /\ entries = 0 /\ devices = 0
     \/ exists = {"config", "identity", "history", "store"} \cup SideFiles
        /\ content = LeftByKilledChat /\ entries = 1 /\ devices = 1
  /\ proc = [p \in Procs |-> Idle]
  /\ holds = {}
  /\ clock = 0 /\ installed = 1 /\ starts = 0 /\ events = 0
  /\ company = {} /\ clean = {} /\ torn = {} /\ intact = {}
  /\ lastDevice = NoDevice

Running == {p \in Procs : proc[p].cmd # "idle"}

\* Process p is about to do what is named.
At(p, name) == proc[p].todo # <<>> /\ Head(proc[p].todo).name = name
File(p) == Head(proc[p].todo).file
Rest(p) == Tail(proc[p].todo)
Goes(p, todo) == proc' = [proc EXCEPT ![p].todo = todo]

\* Process p ends; the last to close the store takes the side files away.
Ends(p) ==
  /\ proc' = [proc EXCEPT ![p] = Idle]
  /\ holds' = holds \ {p}
  /\ exists' = IF holds = {p} THEN exists \ SideFiles ELSE exists
  /\ company' = company \ {p}
  /\ UNCHANGED <<content, boundVars, clean, torn, intact, lastDevice>>

-----------------------------------------------------------------------------
(* Reading *)

Whole(file) == file \in exists /\ Len(content[file]) = 1

\* Where the lines of a text begin, and whether `line' is the one at i.
LineStarts(text) == {i \in 1 .. Len(text) + 1 : i = 1 \/ IsLineEnd(text[i - 1])}

HasLine(text, i, line) ==
  LET next == i + Len(line) IN
  /\ i \in LineStarts(text) /\ next <= Len(text) + 1
  /\ SubSeq(text, i, next - 1) = line
  /\ next = Len(text) + 1 \/ IsLineEnd(text[next])

Entry(k) == <<Piece(k, 1), Piece(k, 2)>>

\* Where the lines are that can be parsed.
IsEntry(text) ==
  {i \in DOMAIN text : \E k \in 1 .. entries : HasLine(text, i, Entry(k))}

LastOf(lines) == {i \in lines : Cardinality({j \in lines : j > i}) < HistoryLimit}

\* Mutant of ReadHistory: nothing after the first line that cannot be parsed.
ReadHistoryToError ==
  LET text == content["history"]
      valid == IsEntry(text)
  IN LastOf({i \in valid : \A j \in LineStarts(text) : j < i => j \in valid})

\* read_history: lines that cannot be parsed are skipped, the last ones kept.
ReadHistory == LastOf(IsEntry(content["history"]))

ReadInputHistory ==
  LET text == content["input_history"] IN
  {i \in DOMAIN text \cap LineStarts(text) : ~IsLineEnd(text[i])}

\* has_local_state does not look for the side files.
HasLocalState == exists \cap (Files \ SideFiles) # {}

-----------------------------------------------------------------------------
(* What the commands do *)

\* Mutant of RemoveAll: the side files are forgotten.
RemoveAllButSideFiles ==
  [i \in 1 .. 6 |->
     Call("exists", <<"config", "history", "input_history", "identity", "nag",
                      "store">>[i], NoToken)]

\* remove_local_state
RemoveAll ==
  [i \in 1 .. 8 |->
     Call("exists", <<"config", "history", "input_history", "identity", "nag",
                      "store", "-wal", "-shm">>[i], NoToken)]

\* run_chat_session, cmd_send, cmd_status
ChatScript ==
  <<Do("load_config"), Do("identity"), Do("store"), Do("connect"), Do("chat")>>
SendScript ==
  <<Do("load_config"), AppendTo("history"), Do("identity"), Do("store"), Do("reply")>>
StatusScript == <<Do("load_config"), Do("identity"), Do("store")>>

Script(c) ==
  CASE c = "chat" -> ChatScript
    [] c = "send" -> SendScript
    [] c = "status" -> StatusScript
    [] c = "pair" -> <<Do("pair")>>
    [] c = "disconnect" -> <<Do("has_local_state")>>

\* main
Start(p, c) ==
  /\ p \notin Running
  /\ starts < MaxStarts /\ starts' = starts + 1
  /\ IF Running = {} THEN UNCHANGED events ELSE Event
  /\ proc' = [proc EXCEPT ![p] = Process(c, Script(c))]
  /\ company' = IF Running = {} THEN {} ELSE Running \cup {p}
  /\ UNCHANGED <<fileVars, holds, clock, installed, entries, devices, clean, torn, intact,
                 lastDevice>>

Finish(p) == p \in Running /\ proc[p].todo = <<>> /\ Ends(p)

\* Without a config the chat pairs first, the other commands end.
LoadConfig(p) ==
  /\ At(p, "load_config")
  /\ \/ Whole("config") /\ Goes(p, Rest(p))
        /\ UNCHANGED <<fileVars, holds, boundVars, pastVars>>
     \/ "config" \notin exists /\ proc[p].cmd = "chat" /\ Goes(p, <<Do("pair")>> \o Rest(p))
        /\ UNCHANGED <<fileVars, holds, boundVars, pastVars>>
     \/ "config" \notin exists /\ proc[p].cmd # "chat" /\ Ends(p)
     \/ "config" \in exists /\ ~Whole("config") /\ Ends(p)

\* join_pairing_session or hosting, which may fail; save_config.
Pair(p) ==
  /\ At(p, "pair")
  /\ \/ Goes(p, <<Create("config", [group_key |-> "key"])>> \o Rest(p))
        /\ UNCHANGED <<fileVars, holds, boundVars, pastVars>>
     \/ Ends(p)

NewDevice(p) ==
  /\ devices' = devices + 1
  /\ proc' = [proc EXCEPT ![p].device = devices',
                          ![p].todo = <<Create("identity", [device_id |-> devices'])>> \o Rest(p)]
  /\ UNCHANGED <<fileVars, holds, clock, installed, starts, entries, events, pastVars>>

\* Mutant of LoadOrCreateDeviceIdentity: what is there is not looked at.
CreateDeviceIdentity(p) == At(p, "identity") /\ NewDevice(p)

LoadOrCreateDeviceIdentity(p) ==
  /\ At(p, "identity")
  /\ \/ "identity" \notin exists /\ NewDevice(p)
     \/ /\ Whole("identity")
        /\ proc' = [proc EXCEPT ![p].device = content["identity"][1].device_id, ![p].todo = Rest(p)]
        /\ UNCHANGED <<fileVars, holds, boundVars, pastVars>>
     \/ "identity" \in exists /\ ~Whole("identity") /\ Ends(p)

\* MessageStore::open; the side files come with WAL mode.
OpenStore(p) ==
  /\ At(p, "store")
  /\ exists' = exists \cup SideFiles \cup {"store"} /\ holds' = holds \cup {p}
  /\ Goes(p, Rest(p))
  /\ lastDevice' = IF p \in company THEN lastDevice ELSE proc[p].device
  /\ UNCHANGED <<content, boundVars, company, clean, torn, intact>>

ShouldShowSoftNag(recommended) ==
  \/ ~Whole("nag")
  \/ content["nag"][1].recommended # recommended
  \/ clock - content["nag"][1].shown_at >= UPDATE_NAG_INTERVAL

\* handle_version_policy_pre_chat: a client that is too old goes no further.
Connect(p, policy) ==
  LET verdict == EvaluateVersionPolicy(Releases[installed], policy)
      shows == verdict = "SoftNag" /\ ShouldShowSoftNag(policy.recommended)
      nag == [recommended |-> policy.recommended, shown_at |-> clock]
  IN
  /\ At(p, "connect")
  /\ Goes(p, IF verdict = "HardBlock" THEN <<>>
             ELSE IF shows THEN <<Create("nag", nag)>> \o Rest(p)
             ELSE Rest(p))
  /\ IF shows THEN Event ELSE UNCHANGED events
  /\ UNCHANGED <<fileVars, holds, clock, installed, starts, entries, devices, pastVars>>

\* run_chat_session: a message sent or received, /reset-history, /disconnect, the end.
Chat(p) ==
  /\ At(p, "chat")
  /\ \E more \in {<<AppendTo("history"), AppendTo("input_history"), Do("chat")>>,
                  <<AppendTo("history"), Do("chat")>>,
                  <<Call("exists", "history", NoToken), Do("chat")>>,
                  RemoveAll,
                  <<>>} : Goes(p, more)
  /\ UNCHANGED <<fileVars, holds, boundVars, pastVars>>

\* cmd_send gets the reply, or gives up.
Reply(p) ==
  /\ At(p, "reply")
  /\ \/ Goes(p, <<AppendTo("history")>> \o Rest(p))
        /\ UNCHANGED <<fileVars, holds, boundVars, pastVars>>
     \/ Ends(p)

\* cmd_disconnect
CheckLocalState(p) ==
  /\ At(p, "has_local_state")
  /\ \/ HasLocalState /\ Goes(p, RemoveAll)
        /\ UNCHANGED <<fileVars, holds, boundVars, pastVars>>
     \/ ~HasLocalState /\ Ends(p)

-----------------------------------------------------------------------------
(* Calls to the file system *)

\* Mutant of Truncated: the file is opened but keeps what it holds.
NotTruncated(file) == content[file]

Truncated(file) == <<>>

\* fs::write opens the file.
OpenTruncated(p) ==
  LET f == File(p) IN
  /\ At(p, "create")
  /\ exists' = exists \cup {f}
  /\ content' = [content EXCEPT ![f] = Truncated(f)]
  /\ proc' = [proc EXCEPT ![p].open = f,
                          ![p].todo = <<Call("put", f, Head(@).token)>> \o Rest(p)]
  /\ UNCHANGED <<holds, boundVars, pastVars>>

\* append_jsonl and append_input_history open the file.
OpenAppend(p) ==
  LET f == File(p)
      k == entries + 1
      pieces == (IF f = "history" THEN <<1, 2, 0>> ELSE <<1, 0>>)
      writing == {q \in Procs : proc[q].open = f}
  IN
  /\ At(p, "append")
  /\ Event /\ entries' = k
  /\ exists' = exists \cup {f}
  /\ proc' = [proc EXCEPT
       ![p].open = f,
       ![p].todo = [i \in DOMAIN pieces |-> Call("put", f, Piece(k, pieces[i]))] \o Rest(p)]
  /\ clean' = IF writing = {} /\ (content[f] = <<>> \/ IsLineEnd(Last(content[f])))
                THEN clean \cup {p} ELSE clean \ (writing \cup {p})
  /\ UNCHANGED <<content, holds, clock, installed, starts, devices, company, torn, intact,
                 lastDevice>>

\* A write, at the start of a file that was cut and at the end of the others.  It
\* is lost when the file has been unlinked since it was opened.
Put(p) ==
  LET f == File(p)
      token == Head(proc[p].todo).token
      there == proc[p].open = f
      more == Rest(p) # <<>> /\ Head(Rest(p)).name = "put"
  IN
  /\ At(p, "put")
  /\ content' = IF ~there THEN content
                ELSE [content EXCEPT ![f] = IF f \in LogFiles THEN Append(@, token)
                                            ELSE Append(Truncated(f), token)]
  /\ proc' = [proc EXCEPT ![p].open = IF more THEN @ ELSE "none", ![p].todo = Rest(p)]
  /\ intact' = IF there /\ f \in LogFiles /\ IsLineEnd(token) /\ p \in clean
                 THEN intact \cup {<<f, token.line>>} ELSE intact
  /\ clean' = IF more THEN clean ELSE clean \ {p}
  /\ torn' = IF there THEN torn \ {f} ELSE torn
  /\ UNCHANGED <<exists, holds, boundVars, company, lastDevice>>

\* path.exists(), before fs::remove_file.
CheckExists(p) ==
  /\ At(p, "exists")
  /\ Goes(p, IF File(p) \in exists THEN <<Call("unlink", File(p), NoToken)>> \o Rest(p)
             ELSE Rest(p))
  /\ UNCHANGED <<fileVars, holds, boundVars, pastVars>>

\* Who has the file open goes on writing to what nobody sees.
Unlink(p) ==
  LET f == File(p) IN
  /\ At(p, "unlink")
  /\ \/ /\ f \in exists
        /\ exists' = exists \ {f} /\ content' = [content EXCEPT ![f] = <<>>]
        /\ proc' = [q \in Procs |->
             IF q = p THEN [proc[p] EXCEPT !.todo = Rest(p)]
             ELSE [proc[q] EXCEPT !.open = IF @ = f THEN "gone" ELSE @]]
        /\ intact' = {line \in intact : line[1] # f}
        /\ torn' = torn \ {f}
        /\ lastDevice' = IF f = "identity" THEN NoDevice ELSE lastDevice
        /\ UNCHANGED <<holds, boundVars, company, clean>>
     \/ f \notin exists /\ Ends(p)

\* The process is killed, or the machine stops: nothing is closed.
Kill(p) ==
  /\ p \in Running /\ Event
  /\ proc' = [proc EXCEPT ![p] = Idle]
  /\ holds' = holds \ {p}
  /\ torn' = torn \cup ({proc[p].open} \cap JsonFiles)
  /\ clean' = clean \ {p} /\ company' = company \ {p}
  /\ UNCHANGED <<fileVars, clock, installed, starts, entries, devices, intact, lastDevice>>

\* Time matters to a process only when it connects: it passes between them.
TimePasses ==
  /\ Running = {}
  /\ Event /\ clock' = clock + 1
  /\ UNCHANGED <<fileVars, proc, holds, installed, starts, entries, devices, pastVars>>

Update ==
  /\ Running = {}
  /\ installed < Len(Releases) /\ installed' = installed + 1 /\ Event
  /\ UNCHANGED <<fileVars, proc, holds, clock, starts, entries, devices, pastVars>>

Next ==
  \/ \E p \in Procs :
       \/ \E c \in Commands : Start(p, c)
       \/ Finish(p) \/ LoadConfig(p) \/ Pair(p) \/ LoadOrCreateDeviceIdentity(p)
       \/ OpenStore(p) \/ (\E policy \in Policies : Connect(p, policy))
       \/ Chat(p) \/ Reply(p) \/ CheckLocalState(p)
       \/ OpenTruncated(p) \/ OpenAppend(p) \/ Put(p) \/ CheckExists(p) \/ Unlink(p)
       \/ Kill(p)
  \/ TimePasses \/ Update

Spec == Init /\ [][Next]_vars

-----------------------------------------------------------------------------
(* Properties *)

Names == {"load_config", "identity", "store", "connect", "chat", "pair", "reply",
          "has_local_state", "create", "append", "put", "exists", "unlink"}

\* The type invariant: who is writing has the file open, or had it.
TypeOK ==
  /\ exists \subseteq Files /\ DOMAIN content = Files
  /\ \A f \in Files \ exists : content[f] = <<>>
  /\ \A f \in Files \ LogFiles : Len(content[f]) <= 1
  /\ \A p \in Procs :
       /\ proc[p].cmd \in Commands \cup {"idle"}
       /\ \A i \in DOMAIN proc[p].todo : proc[p].todo[i].name \in Names
       /\ proc[p].open \in (IF At(p, "put") THEN {File(p), "gone"} ELSE {"none"})
       /\ proc[p].device \in 0 .. devices
  /\ holds \cup company \cup clean \subseteq Procs
  /\ torn \subseteq JsonFiles \cap exists
  /\ intact \subseteq LogFiles \X (1 .. entries)
  /\ starts \in 0 .. MaxStarts /\ events \in 0 .. MaxEvents /\ devices \in 0 .. starts + 1
  /\ clock \in 0 .. events /\ installed \in DOMAIN Releases /\ entries \in 0 .. events + 1

\* Line k comes before as many others as the history shows.
Outdated(k) ==
  LET text == content["history"]
      end == CHOOSE i \in DOMAIN text : text[i] = Piece(k, 0)
  IN Cardinality({text[i].line : i \in end + 1 .. Len(text)}) >= HistoryLimit

\* A line that no kill and no other process disturbed while it was written is
\* read back until its file is removed, whatever half lines there are before and
\* after it ("skipping invalid history entry").
IntactIsReadBack ==
  \A line \in intact :
    LET k == line[2] IN
    IF line[1] = "history"
      THEN Outdated(k) \/ \E i \in ReadHistory : HasLine(content["history"], i, Entry(k))
      ELSE \E i \in ReadInputHistory : HasLine(content["input_history"], i, <<Piece(k, 1)>>)

\* A disconnect that has found something to remove and has gone on alone to its end
\* leaves no file, also when others, killed, had left the store without its side
\* files or these in use.  (One that finds only side files removes nothing and says
\* that there is nothing to remove: a disconnect that is killed between the store
\* and its side files is never made good.)
RemovalIsComplete ==
  \A p \in Procs \ company :
    proc[p].cmd = "disconnect" /\ proc[p].todo = <<>> => exists = {}

\* The processes that run alone go by one device id, until it is removed.
OneDevice == [][lastDevice # NoDevice => lastDevice' \in {lastDevice, NoDevice}]_vars

\* A process that runs alone can read its config and its identity unless one was
\* killed in the middle of writing them.
UnreadableIsTorn ==
  \A p \in Procs \ company :
    /\ At(p, "load_config") /\ "config" \in exists => Whole("config") \/ "config" \in torn
    /\ At(p, "identity") /\ "identity" \in exists => Whole("identity") \/ "identity" \in torn

\* Whatever the relay's policy, an update of the client makes its verdict no worse.
\* The same is to be said of a plugin that is updated so, and of the warning
\* before there is a policy.
UpdatesHelp ==
  [][installed' # installed =>
       LET old == Releases[installed]
           new == Releases[installed']
       IN /\ \A policy \in [min : Bounds, recommended : Bounds] :
               /\ Severity(EvaluateVersionPolicy(new, policy))
                    <= Severity(EvaluateVersionPolicy(old, policy))
               /\ Severity(EvaluatePluginVersionPolicy(new, policy))
                    <= Severity(EvaluatePluginVersionPolicy(old, policy))
          /\ \A bound \in Bounds :
               IsVersionLessThan(new, bound) => IsVersionLessThan(old, bound)]_vars

=============================================================================
