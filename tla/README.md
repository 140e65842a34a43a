# chat4000 in TLA+

A model of the chat4000 terminal client (`src/`), checked with TLC and, where
noted, proved with TLAPS. `relay.rs` is `crates/chat4000/src/transport/relay.rs`,
`main.rs` is `crates/chat4000/src/main.rs`, `lib.rs` is
`crates/chat4000-relay/src/lib.rs`, `store.rs` is `crates/chat4000/src/store.rs`.

The client is one of the devices of a group. A relay, which the repository does
not contain, numbers the group's messages and keeps each until the device has
acknowledged it. Everything here is about what the client makes of that service
when connections, the disk and the process itself fail.

## 1. The system

| component | where | state | operations |
|---|---|---|---|
| ack pump | `relay.rs` `AckPump` | pending maximum and count, time of the last note | note_persisted, try_flush, flush_now, commit, until_flush |
| transport task | `relay.rs` `run_event_loop`, `drive_session` | current session, pump, `ack_aware`, ids seen in this process, backoff | handle a command, handle a session event, flush acks, reconnect, shut down |
| relay session | `lib.rs` `RelaySession`, `spawn_reader`, `spawn_writer`, `spawn_heartbeat` | socket halves, channels between three tasks, last pong | connect and hello, read and decrypt a frame, write a frame, ping and time out |
| message store | `store.rs` | tables of received and outbound messages, watermark of acks | try_persist_received, last_acked_seq, set_last_acked_seq |
| outbound tracker | `main.rs` `OutboundTracker` | message id -> Sending, Sent, Delivered, Failed | track, mark_sent, mark_delivered, mark_failed |
| transcript | `main.rs` `push_transcript_line`, `OutboundLines` | at most 500 lines, index of each sent message's line | push, record, apply, /clear |
| chat render state | `main.rs` `ChatRenderState` | busy phase, buffers and order of live streams, suppressed streams | update_stream_delta, complete_stream, set_busy_phase, clear_busy, reset |
| chat session | `main.rs` `run_chat_session` | the three above, input line, scroll, exit prompt | keys, commands, transport events |
| one-shot send | `main.rs` `cmd_send` | phase, collected reply, timers | drain, idle wait, send, collect, time out |
| pairing | `lib.rs` `run_pairing_*`, `main.rs`, `chat4000-crypto` | room, code, ephemeral keys, group key | host, join, proof, grant, complete, cancel |
| local state | `main.rs` `AppPaths`, `remove_local_state` | config, identity, history, version nag, database | load, save, remove |
| input line | `main.rs` | text, cursor, history position, paste references | edit, walk history, expand pastes |
| version policy | `main.rs` | last verdict, time of the last nag | compare, decide, nag |
| wire formats, cryptography, drawing, telemetry | `chat4000-proto`, `chat4000-crypto`, `main.rs` | none | encode, decode, seal, open, draw, log |

How they interact. The chat session sends `TransportCommand`s over an unbounded
channel and takes `TransportEvent`s from another. The transport task serves one
relay session at a time and selects over three things: commands, the pump's
50 ms timer, and session events. Three detached tasks make up a session: the
reader turns frames into events, the writer drains a channel into the socket, the
heartbeat pings and closes the writer when no pong comes. A replaced session's
tasks are not awaited, so its writer may go on for a while. Only the SQLite store
and a few files outlive the process; any number of processes share them, without
locks.

What is hard about it:

- *Interleaving.* The select takes whatever is ready: a message may be queued on
  a session whose reader is gone; a status, an inner ack and Reconnecting for one
  message race each other and the user.
- *Lost and repeated messages.* A frame lost with its connection is lost
  silently, acks too. The relay pushes again what was not acked, and a sender
  sends again, under a new number, what was not confirmed.
- *Partial failure.* Inserting a message and moving the watermark are two
  transactions; the error of the second is ignored and of the first only logged.
- *Crash and restart.* Acks, dedup table, pump and consumer channel go; the
  store stays. Files are cut and rewritten in place, and history lines are written
  piece by piece, by several processes.
- *Time.* A heartbeat that looks at its clock every 30 s for a pong that may be
  60 s old, beside a reader that knows nothing of it; a backoff that hears no
  command.
- *Stale state.* Indexes into a transcript that is cut and cleared; Reconnecting
  handled long after it was emitted; streams that come back after superseding;
  references on the input line to blocks that were pasted earlier, or are gone.

What makes each part correct: the transport acks nothing it does not have,
passes no number over, hands messages over in order and once, and in the end
acks and delivers everything; every tick is true, only moves on, and settles;
every line shows its own message's tick; a reply is shown once and without
holes; a session that is lost is replaced and its tasks end; what is pasted is
sent; what was saved is read back, and what is removed is gone. `PROJECT.json` lists the hazards line by line with the properties
for each.

## 2. The modules

| module | models | extends |
|---|---|---|
| `AckPump` | the debouncer of cumulative acks, pure operators | |
| `Mailbox` | abstract: what the inbound half promises its consumer and the relay | |
| `Inbound` | relay session, transport task, store, consumer and process life, for what arrives | `AckPump`; implements `Mailbox` |
| `InboundProofs` | proofs of the safety of `Inbound`, and that it implements `Mailbox` | `Inbound` |
| `Ticks` | `OutboundTracker`, pure operators | |
| `Outbound` | chat session, command and event channels, transport task, session tasks and relay, for what is sent | `Ticks` |
| `Transcript` | transcript lines and the ticks in them | `Ticks` |
| `Screen` | the composition of the two: the transcript in front of the transport | `Outbound`; instantiates `Transcript` |
| `OutboundProofs` | proofs of the safety of `Outbound`, `Transcript` and `Screen` | `Screen` |
| `ChatStream` | streamed replies on the screen | |
| `SendCommand` | `chat4000 send`: drain, idle wait, reply, against an agent that others ask too | `Ticks` |
| `Pairing` | host, joiners and a relay's rooms, for joining a group | |
| `RelaySession` | the three tasks of each session, heartbeat and time, connecting again | |
| `ChatStreamProofs`, `SendCommandProofs`, `PairingProofs`, `RelaySessionProofs`, `LocalStateProofs`, `InputLineProofs` | proofs of the safety of these | the module of the name |
| `InputLine` | the input line: cursor, history, pastes, slash palette, scroll mode, exit prompt | |
| `VersionPolicy` | the three comparisons of versions, pure operators | |
| `LocalState` | the files and the processes that share them | `VersionPolicy` |
| `MC*` | instances for TLC: symmetry sets and model values | |

State and actions correspond to the code as follows; `PROJECT.json` "map" gives
the lines of every definition.

**Inbound.** `log`, `relayAcked`, `cursor`, `acks`, `link` are the relay and the
network, which the repository only uses: a numbered log, a cumulative ack, and a
push of everything after the ack a new connection starts with. `reader`,
`events`, `ack_aware` belong to the session; `phase` says where the transport
task is: inside `drive_session`, in the backoff after it, or not running. Only
`received_messages` and `last_acked_seq` survive `ProcessEnds`. `HandleInner` is
the whole InnerMessage arm: insert, watermark, note in the pump, flush when due,
dedup, forward. `CrashAfterPersist` stops it between the two transactions.
`HandleInnerPersistFails` is the `continue` of the failing insert. `Disconnect`
is the final flush, whose frame may or may not leave. A push and its decoding are
one step: a frame lost on the wire is one that was never pushed. Frames the
reader rejects (`Unreadable`) end it, as `handle_text_frame`'s error does.

**Outbound.** `cmds` and `notices` are the two channels, `outgoing` is the
writer's channel and the wire, `recvAcks` the session events queued, `stray` what
a replaced session's writer still holds. `Submit`, `TakeNotice`, `Quit` are
handlers of `run_chat_session`; `HandleSend`, `HandleDisconnect`,
`HandleRecvAck`, `ForwardInnerAck`, `SessionEnds` the branches of the select;
`Reconnect` and `ReconnectFails` the two ends of the backoff; the rest are the
session's tasks, the network and the relay.

**Transcript.** A line is its message and tick. `Pushed` is
`push_transcript_line`, `Recorded` and `Applied` are `OutboundLines`. The
statuses come in any order; which orders are possible is Outbound's subject.

**Screen.** The two share the tracker, and their steps are joined where one handler of
`run_chat_session` does both: Enter sends, tracks and writes the line (`SubmitShown`); an
event marks and rewrites (`TakeNoticeShown`). Pushing other lines and `/clear` concern the
transcript only (`ScreenOnly`), and everything else happens behind it (`Behind`).

**ChatStream.** A text is the sequence of its deltas' numbers, which is enough to
tell whole from partial. `UpdateStreamDelta` and `CompleteStream` are the two
methods, `Delta` and `End` the arms that call them after the transport's dedup.

**SendCommand.** `phase` is the loop that `cmd_send` is in: "drain" and "idle" are
those of `drain_until_idle_via_transport`, "wait" that of
`wait_for_agent_reply_via_transport`. One action each for an event taken in a
loop, for the silence of 500 ms and for the caps, which may run out at any moment.
Agent, network and relay are external: the agent answers one request after the
other, frames wait while the link is down, and Init may find it in the middle of
a reply whose beginning an earlier process took. What another app device asks
(`OtherAsks`) is brought to this one as well, as a Text: the loops skip only what
their own device sent, and so take it for a reply (`Question`, `WaitReturnsQuestion`).
Events that every loop skips, Reconnecting and Connected among them, are left out.

**Pairing.** `session`, `host`, `code`, `key`, `joiner_public_key`, `group` are
one device that hosts, `attempts` to `got` the devices that join; the `Host*`
actions are the arms of `host_pairing_session` with the command around it, the
`Joiner*` actions those of `join_pairing_session`. A joiner in state "granted" is
in its sleep of 300 ms, a host in state "done" has not saved yet. `room`,
`toHost`, `toJoiner` are the relay, which forwards in order to whoever is in the
room and may or may not tell one side that the other left. A relay that refuses
to open a room is left out. Init has a device with a
group (`pair --host`) and one without (a new group is made for each session).
A proof is the tuple it hashes, a wrapped key names whom it is wrapped for.

**RelaySession.** `link` to `send_rx` are one entry per session: its connection
("silent" is the half-open one), its three tasks and the writer's channel, in
which an empty payload is "close". `phase` is the transport task with
`start_transport_with_retries` in front of it. `last_pong`, `ticker` and
`unanswered` count units of time; `TimePasses` waits until every task that is due
has had its turn and the relay has answered in time. "Elapsed more than 60 s" is
open in the unit in which it becomes true (`MayBeTimedOut`, `MayBeAlive`). A reader
that ends by a rejected frame is one disjunct of `Fault`. In a failed reconnect
the task goes back to the session that is over, as the code does.

**InputLine.** The variables are the fields of `InputState` and two of
`ChatRenderState`; one action per arm of `handle_key`, with the arm of
`run_chat_session` its answer leads to. A text is a sequence of characters, a
reference three of them. What a command does to the rest is not here. `submitted`
is what the last key submitted; `pasted`, `firstOfLine` and `walkedFrom` are
history variables. `draft_buffer` is kept only while it can still be read.

**LocalState.** A process is the list of the calls it has still to make, so that
others, and kills, come between any two; a call that decides something (`LoadConfig`,
`Connect`, `Chat`) replaces the rest of the list. A file is a sequence of pieces:
one for a JSON file, which `OpenTruncated` cuts and `Put` writes; two and a line
end for a line of `history.jsonl`, as `serde_json::to_writer` writes to an
unbuffered file. A file that was unlinked while open takes writes that nobody
sees. What is read back is given by where it stands: where lines begin, which of
them can be parsed, which of those are the last. Looking whether a file exists and reading it are one step; looking and
removing it are two. `company`, `clean`, `torn`, `intact` and `lastDevice` record what the
properties speak of: who has run beside whom, which lines nobody disturbed.

**VersionPolicy.** Parsing and order of `semver` are external and modelled by what
they do: three numbers, a tag that sorts before the release.

Names differ from the code only where TLA+ asks for it.

In all modules but `RelaySession` and `LocalState` time is abstracted: a timer may
fire whenever it is running.
Operators called "Mutant of" are not part of a specification. They are wrong
versions of the definition below them (a bound off by one, a dropped test, a
missing reset); `PROJECT.json` "mutants" pairs each with the property that fails
when it is put in place, which shows that the property depends on that code.

## 3. The runs

`tlc -config X.cfg M`; on four cores the longest takes about two minutes.

| configuration | module | question | answer |
|---|---|---|---|
| InboundSafety | MCInbound | Is anything acked, checkpointed or passed over that is not on disk? Is the batch of one session ever flushed under another? Does the whole implement `Mailbox`? | no, no, yes |
| InboundLive | MCInbound | Is everything acked in the end, and does what the relay holds reach the living process's consumer? | yes |
| InboundUnreadable | MCInbound | Also with a frame of an unknown type? | no: finding |
| OutboundTicks | MCOutbound | Does a message ever fall between the tasks, a tick claim too much or go back? Does every dot become a tick or a cross? | no, yes |
| Screen | MCScreen | Until lines leave, does every line show its tick? Does a line ever claim what is not so? Is the cap kept? | yes, no, yes |
| ChatStream | MCChatStream | Are undisturbed replies shown once and whole, and the others without holes? Do streams leave the screen? | yes |
| SendCommand | MCSendCommand | Is the reply that `send` prints whole? Is it the answer, if nobody else asks after the drain and this saw all there was? Does the command return? | yes |
| Pairing | MCPairing | Does a host's success mean that a joiner has its key? Do the two agree unless one is cut off? Does neither wait for the other for ever? | yes |
| InputLine | MCInputLine | Does the cursor stay in the line? Is what was pasted sent, unless it holds references itself? Does the draft come back? | yes |
| RelaySession | MCRelaySession | Is a working connection ever given up? Is a lost one replaced? Do stray tasks end? Is disconnect heeded? | no, yes, yes, yes |
| RelayHalfOpen | MCRelaySession | Is a connection replaced that the heartbeat has given up? | no: finding |
| LocalState | MCLocalState | Are undisturbed lines read back, the device kept, files readable unless their writer was killed? Does a disconnect that has found something remove everything? Does an update ever make a verdict worse? | yes, yes, no |

A type invariant is checked in every passing safety run. Deadlock is off where the
bounds run out or the process may be stopped for good; ChatStream keeps it on.

Bounds, and why they are enough:

- *InboundSafety*: three numbers over two ids (one id must repeat: a message sent
  again) and a frame that cannot be read, a batch of two (a batch can be full, partial, or empty), one message
  without number, one each of lost connection, process end, failing insert and
  failing watermark. Every pair of failures meets every stage of a batch.
- *InboundLive*: two numbers, two lost connections, two process ends, so that a
  redriven message is cut off a second time. No insert fails: a refused number at
  the end of the log is acked only with a later one.
- *OutboundTicks*: two messages, so that one can be on each side of a reconnect,
  and one each of lost connection, heartbeat timeout, rejected frame and failed
  reconnect.
- *Screen*: two messages, two other lines and a cap of three, so that the cap is passed
  with ticks still open; a `/clear`; a lost connection and a rejected frame, so that
  messages fail and that one is carried by a session that was replaced. The other faults of the
  transport are in *OutboundTicks*.
- *ChatStream*: two senders that use an id per frame and one that reuses it, two
  deltas each: superseding both ways, and an end after either.
- *SendCommand*: one other request, brought to this device or not, at any moment; a reply of one delta and an end (which is enough
  to be cut in two), one lost link and one failed reconnect.
- *Pairing*: three host sessions, so that a code can be typed again for another
  group while its joiner is still there, two joiners, so that one is replaced by the
  other, two sessions or attempts cut off, and one `pair_complete` lost.
- *RelaySession*: a unit is 15 s, so that the heartbeat's interval is two units, its
  patience four, and a pong takes up to one: every order of tick, pong and limit.
  Two faults, so that a replacement is lost too while its predecessor's tasks are
  still there. The delays keep their real values.
- *InputLine*: three edits besides any number of moves and walks, a history of up to two
  lines (one before the process starts or none), a paste that is collapsed, one
  that is not and one that is a reference itself, three of the seven commands.
- *LocalState*: three processes, two of them at a time, and three of these in any
  mix: lines appended, nags shown, kills, units of time, an update, a process
  started beside another. A second initial state is what a chat leaves that was
  killed in its first line. One line of history is shown, where the code shows 50.
  Releases are a candidate and its release; the bounds a policy may name include
  tags, a leading v, too few numbers and none.

Fairness, and where it comes from. Tokio polls every ready task, so the handlers
of the transport task, the reader, the writer and the session's loop are weakly
fair. `HandleSend` is strongly fair: `select!` picks among ready branches at
random, and the command branch is there in every session. `Reconnect` is strongly
fair: connecting is retried forever (`relay.rs:209`), and the relay is assumed not
to refuse forever. A connected relay pushes and answers; a lost connection is
noticed in the end. The user is assumed to start the program again
(`Start`, Inbound only) and a sender to end the streams it begins. Host and joiner (Pairing) read what
arrives; nobody has to start either. In SendCommand only time passes. In RelaySession the
tasks are polled and time passes; connecting succeeds now and then (`HelloOk`), and
the select takes a queued Disconnect in the end (`TakeDisconnect`), both strongly
fair. Nothing obliges a silent connection to close. Nothing obliges the
user to submit or quit, the paired device to answer, or the network to fail.

Findings. A passing model does not mean the text around the code is right. The
two runs marked "finding" each check one sentence of the docs and
have a counterexample; `PROJECT.json` quotes both sides. A frame of an
unknown type is pushed first on every session and blocks what is behind it. And a
connection that has fallen silent is given up by the heartbeat, which stops the
writer; the reader, on which the reconnect depends, waits on.

Seen while modelling, and not runs of their own. *Transport*: a
message acked but not yet consumed is lost when the process ends, and, the dedup
table being in memory, one sent again under a new number is processed by the
next process too (`relay.rs:142` says "exactly once"); disconnect() returns before the
last event (against `transport/mod.rs:84`), which no caller waits for;
what is under way when a connection is lost is not sent again; the handshake has no
timeout; a `hello_error` is retried like any failure (`docs/product.md:202`
excepts authentication). *Screen*: Reconnecting marks failed messages that are sent
successfully afterwards; indexes of ticks are not moved when lines leave the
transcript, so that after `/clear` or the cut a status rewrites another line; a stream that was superseded once is
thrown away at its end even if it is on the screen (the test at `main.rs:4827` has
no such stream); a reply whose frames share one id gets no further than its first
frame. *Input line*: a typed message that begins with "/" and is no command of the
palette, `/support` (`README.md:48`) included, is replaced by the first command on
Enter; a recalled line with a newline or a "/" ends the walk, and the draft cannot be
reached any more; a character typed inside a reference leaves the block where nothing
refers to it; references in a recalled line of an earlier process may name blocks of
this one; Reconnecting leaves the scroll mode (`docs/product.md:115`: "until you
jump back"); a pasted text that holds the reference of a block pasted before it is
sent with that block put in. *Files*: lines of two processes may mix and a torn line spoils the next;
a message of several lines comes back as several lines of input history; a running
chat writes the history again that a `disconnect` has removed; a
disconnect killed between the store and its side files is never made good, as the next
one does not look for these and says that there is nothing to disconnect, against `README.md:109` ("wipes
everything except logs and telemetry config"); two processes
started at once for the first time use two device ids; `send` does not look at
the version policy; messages that were never sent are in the history; a policy sent at
a reconnect does not reach the chat, which asked once.

What SendCommand does not promise, against the guide ("prints the agent's full reply",
`main.rs:1400`): what another app device asks after the drain is printed as the reply, since
no loop looks at the role of the sender; a reply to another device that the agent
begins after the drain is printed as the answer; so is the rest, and only the rest,
of one that an earlier process took the beginning of, if the drain took nothing of it
because the agent paused for 500 ms. `disturbed` records these cases, and the caps, and `AnswersUs` speaks of the
others. And a message that the agent has acknowledged is printed with a
failed tick when the connection then fails.
What LocalState does not promise: `RemovalIsComplete` speaks of a disconnect that goes on, and not of one that
finds only side files.
What Pairing does not promise, and the model shows why: a lost `pair_complete`
or an end at the wrong moment leaves a joiner with the key of a group whose host saw
a failure (and, the group being new, threw the key away); a joiner that enters as its
predecessor leaves may be brought the predecessor's grant and stop with a proof
mismatch; alone in a room either side waits for ever, as neither has a timeout. And
a code that the user types (`pair --host --code`) after it has stood for a group that was
given up may find its old joiner, whose report belongs to that group:
`CompletedMeansJoined` speaks of codes that have stood for one group only (`NewCode`).

## 4. What is proved

`tlapm M.tla` for the eight proof modules; the longest takes some minutes. Every invariant
and every action property that a run checks is a theorem. The
theorems hold for every set of ids, messages, senders, requests or processes, every batch threshold above zero, every
length of queues and texts, every sequence of releases and every bound; the runs showed each formula on a small instance first.

| theorem | module | states |
|---|---|---|
| `TypeCorrect` | all | `TypeOK` of the module proved about |
| `ScreenTypeCorrect` | `OutboundProofs` | `ScreenTypeOK`, the transcript's cap included |
| `AckedIsDurableAlways` | `InboundProofs` | acked, in flight or checkpointed means on disk, or refused by the disk |
| `NothingPassedOverAlways` | `InboundProofs` | no session leaves a hole in front of what it hands over |
| `BatchOnlyWhenAckAwareAlways` | `InboundProofs` | the pump holds a batch only under a relay that numbers messages |
| `InboundImplementsMailbox` | `InboundProofs` | every behaviour of `Inbound` is one of `Mailbox` |
| `TickIsTrueAlways` | `OutboundProofs` | no tick claims more than the relay has |
| `TicksMoveOnAlways` | `OutboundProofs` | no tick goes back |
| `NoOrphanSendingAlways` | `OutboundProofs` | no message falls between the tasks |
| `ScreenIsOutbound`, `ScreenIsTranscript` | `OutboundProofs` | every behaviour of `Screen` is one of `Outbound` and one of `Transcript` |
| `ReportsAreKnown` | `OutboundProofs` | the transport reports on no message that is not tracked |
| `ShownIsSoAlways` | `OutboundProofs` | until lines leave, every message's line shows its tick; no line claims what is not so |
| `UndisturbedIsShownAlways` | `ChatStreamProofs` | an undisturbed reply is shown, once and whole |
| `ShownIsTailAlways` | `ChatStreamProofs` | nothing shown has a hole |
| `ReplyIsWholeAlways` | `SendCommandProofs` | the reply that is printed is whole |
| `AnswersUsAlways` | `SendCommandProofs` | it answers the message, unless somebody else asked after the drain or this could not see all |
| `CompletedMeansJoinedAlways` | `PairingProofs` | a host's success means that a joiner has its key |
| `AgreeUnlessStoppedAlways` | `PairingProofs` | host and joiner agree unless one is cut off |
| `WorkingIsKeptAlways` | `RelaySessionProofs` | no connection is given up that works |
| `IntactIsReadBackAlways` | `LocalStateProofs` | a line that nothing disturbed is read back |
| `RemovalIsCompleteAlways` | `LocalStateProofs` | a disconnect that has found something and goes on alone leaves no file |
| `UnreadableIsTornAlways` | `LocalStateProofs` | a file that cannot be read had its writer killed |
| `OneDeviceAlways` | `LocalStateProofs` | processes that run alone go by one device id |
| `UpdatesHelpAlways` | `LocalStateProofs` | an update makes no version verdict worse |
| `DraftKept` | `InputLineProofs` | a walk through the history ends at the line it began with |
| `SentIsPasted` | `InputLineProofs` | a reference on the line is sent as the text it stands for, if that has no mark of a reference |

Assumptions are those the modules declare and TLC evaluates in the runs.
Some say something of the code: the batch threshold is a positive number
(`ThresholdAssumption`); the transcript's cap is one (`ScreenAssumption`), and so is the length
at which a paste is collapsed, while what is pasted is not empty (`InputAssumption`); the heartbeat's interval and the time the relay takes to answer
are together less than its patience (`TimesAssumption`), which holds of 30 s and
60 s if a pong takes less than 30 s; and each release of the client has a version that
can be parsed and is newer than the one before it (`ReleasesAssumption`). The others are about the model's constants:
bounds are natural numbers (`BoundsAssumption`), no message is one of the two control
words that share its channels (`MsgsAssumption`), the streams that reuse an id are
streams (`StreamsAssumption`), the command sends one message, which is no request
of another (`RequestsAssumption`), the processes are finitely many (`LocalAssumption`).

The arguments:

- *Acks* (`IInv`). `AckedIsDurable` is not inductive: noting a number acks all
  below it, so one must know that those are stored. `NothingPassedOver` gives
  that: every number before an event of the queue is durable or is queued before
  it, and every number before the relay's cursor is durable or queued. With it
  the head of the queue completes a durable prefix (`HeadCompletesPrefix`), which
  is what note_persisted needs. The order of push, handle, crash and restart
  disturbs it only where a session opens: it starts after the larger of `relayAcked`
  and the watermark, and all up to there is durable by `AckedIsDurable`. The two invariants need each other.
- *Aware batch* (`AwareInv`). A session whose hello carried no number has none in
  its queue, so nothing is ever noted in its pump.
- *Implementation* (`OrderInv`). `Mailbox` says that messages are handed over in
  order. `IInv` does not, as it does not tell what this process did from what
  its predecessors did. The live session began after some number `base` that the
  relay had been told to forget, and everything from there to an event of the
  queue, or to one that has been forwarded, this process has handled. A crash
  after the insert is a `Restart` with one message more on disk, the failing
  insert is `Lose`, and an ack that reaches the relay is `Forget`.
- *Ticks are true* (`TruthInv`). Every acknowledgement under way, whether a frame, a
  session event or an event of the transport, is about a message the relay has.
- *Ticks move on* (`FateInv`). `mark_failed` on a Sent message would move it back, and
  nothing in `OutboundTracker` prevents that. What does is that a message in the
  command queue is there once and neither carried by a session nor reported
  failed, and one reported failed is carried by none: so the head of the events is never
  Failed for a message the relay has.
- *No orphans* (`OrphanInv`). Between two sessions a message being sent must be in
  the command queue or have its news queued, as no session would bring any: true
  because Reconnecting is emitted before the backoff begins. And while the chat session is
  open no Disconnect is queued, so the task is there.

- *Lines show their ticks* (`ShownInv`). A line has a tick exactly
  where `OutboundLines` has recorded one, so rewriting a recorded index rewrites the
  message's own line. A push keeps the indexes while the transcript is not full, and
  `shifted` records the first time that it does not. This is an invariant of `Transcript`, where
  events come in any order, and `Screen` has it because its steps are steps of `Transcript`
  (`ScreenStep`).
- *Lines are true* (`Honest`). Here the order of events matters: what is written in a line
  is the tick, at whatever index, so the line is true when it is written, by `TickIsTrue` of the
  transport behind it; and it stays so, as the relay forgets nothing and lines are only moved.
  The composition takes no event from the transport but by the bound on pushes: the transcript asks only that
  a message reported on is tracked, and that is so (`ReportsAreKnown`).
- *Replies on the screen* (`IInv` of `ChatStreamProofs`). There is one buffer at most,
  and it holds the end of what its sender has sent: all of it unless the stream was disturbed. A
  stream that was neither ended nor disturbed is in the buffer as soon as it has
  begun, so that its end finds it, once; and who is not in the buffer when its end
  comes brings its text or leaves nothing.
- *The reply is whole* (`FlowOK`). `WaitReturns` takes the buffer for an end without text, and
  what is in the buffer depends on what has been taken so far. The invariant is
  therefore about what is still to come: taking all the events and frames, one after the
  other, turns the buffer of every reply that is not stale into what the agent has
  said of it, and at an end it has that already. One event
  taken is one step of that reading (`ReadHead`), a frame posted prolongs it
  (`ReadMore`), a failed reconnect changes nothing in it wherever it is put
  (`ReadInserted`). A fold would say the same, but the provers cannot reason by
  induction about folds; that a sequence of intermediate texts exists needs none.
- *It is the answer* (`UndisturbedOK`). While draining, a request that the agent works on
  can be told from a busy status that is to come or was the last, but for one it had
  taken up before the command began; waiting for idle,
  no reply and no question comes after the idle that ends the wait; and once the message is sent, nothing
  comes but its answer and what is skipped. Each holds the next up at the moment of the change; of a
  reply that was under way at the start the drain has taken a part, or it was disturbed.
- *Success means a joiner* (`GrantsOK`). A grant in a queue proves code and salt of
  a session and carries that session's key, so what a joiner has accepted is the key
  of the session whose code it entered; and a report in the host's queue is of a joiner that
  holds a key and entered the code.
- *Host and joiner agree* (`AgreeInv`). Salts reach a joiner in the order of the
  sessions (`HellosOK`), and nobody has proved more than the last one it took
  (`ProvenOK`), so an old session's grant is not mistaken for a new one's. Behind the proof that the
  host waits for nothing comes that would make it turn away (`ProofsFollowed`),
  nor while the joiner waits for the grant or holds the key (`GrantsFollowed`), so
  that its report is the first frame to end the session (`ReportsFollowed`).
- *Connections that work are kept* (`PongOK`). While session, reader and writer work, the
  last pong is no older than an interval and, when a ping is under way, the time its
  answer has taken: less than the heartbeat's patience. `TypeOK` needs an argument too: a session
  is opened only when the one before it was lost (`FaultsOK`), so there are never more than faults allow.
- *Lines are read back* (`PiecesOK`, `IntactOK`, `CleanOK`). Every piece of a line is written
  once, so a stored line stays where it is: appends only prolong the file. While
  a process writes undisturbed the file ends with what it has written so far of its line,
  behind a line end, and what it has still to write is the rest (`Midway`); so the
  line is whole when its end comes. A later line is shown instead only if it lies behind it,
  and counts once (`EntriesAfter`): the limit drops a line only when as many others
  have come after it.
- *Removal is complete* (`RemovedOK`). For a process that runs alone, the files that
  are there are among those it has still to look for; nobody else creates one, and it drops a
  file from its list only when that is gone.
- *Unreadable is torn* (`WrittenOK`). A JSON file that is not whole is open in a writer
  or had its writer killed. One that runs alone and is about to read is no writer.
- *One device* (`AsksOK`, `DeviceOK`). A process asks for its id once and before it opens the
  store, and what it made up stands in the identity file by then; and while a process
  that ran alone has left its id, nobody has a write to that file still to make. (`TypeOK`
  needs `CountsOK` for the devices: one for each process at most, those that are
  still to ask counted.)
- *Updates help.* No invariant but an order: at the first difference, then by
  length, is transitive for sequences of any length (`BeforeTransitive`), and so is
  the order of versions, tags included (`OlderTransitive`). A bound that the newer
  release is below, the older one is below as well; the three comparisons follow.

- *The draft comes back* (`DraftOK`). While the history is being walked through, the draft is the line
  as it was before: every edit ends the walk, and Up saves the line only where none is under way.
  For the type invariant, what the texts are made of matters little and where the cursor goes
  matters much: each operator that moves it is shown to stay in the line (`LineOK`, `HistoryOK`),
  and what the blocks of a line refer to, it shows, is what was pasted (`PastesOK`).
- *What is pasted is sent* (`Expanded`). Replacing one reference leaves none of it (`NoneLeft`; by a text without marks) and puts
  in its text (`NewAppears`), which survives when the others are replaced (`PastedSurvives`), if no
  part of it is part of a reference, whatever these are replaced by: so the order does not matter, and a reference
  without a block stays as it is (`OthersSurvive`).
- *Recursive functions.* `Replaced`, `Filtered` and `ExpandPastedBlocks` are recursive functions on the
  positions of a text or list. The library's induction rules cannot be used here; what is proved of these operators for
  all texts is proved through the least position where it would fail, the order of the natural
  numbers being well founded (`Least`, `Backwards`).

Only model-checked: the liveness properties (`EventuallyAcked`,
`EventuallyProcessed`, `EventuallySettled`, `StreamLeavesScreen`, `NobodyWaits`,
`SendReturns`, `LostIsReplaced`, `StraysEnd`, `DisconnectIsHeeded`), which rest on
fairness and ENABLED and are beyond this prover. The
findings are counterexamples and need no proof.

## 5. What is not modelled, and the plan

Not modelled: layout, colours and markdown (output only), telemetry and logs,
serde formats (no state; what decoding rejects is `Unreadable`), the cryptography
(assumed perfect), the mock transport and the colour preview. The table
`outbound_messages` is written with the tracker and read by nothing.

Left out of modelled parts: what `normalize_and_validate_pairing_code` accepts and
the prompt for it; a relay that refuses to open a pairing room; of the telemetry the
setting and the install id, files that only it reads; the line of the transcript that tells of an
old plugin (the comparison behind it is in `VersionPolicy`); what `/support` opens.

`ChatStream` is not composed with `Inbound`: it takes deltas and ends in any
order, which is more than `Inbound` can produce. Their product was tried
and is too large for the instances that make each of them interesting, while what
holds for any order holds for the real ones. The same goes for `RelaySession`
below `Inbound` and `Outbound`, which let a session end at any moment.

Next:

1. `PairingCode`: normalisation and validation of typed codes.
