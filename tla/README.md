# kIRC: verification notes

TLA+ models of the kIRC client, checked with TLC and, where it says so, proved with
TLAPS: the protocol engine (`rust/core`), the bridge to Qt (`rust/src/bridge.rs`), and of
the QML side what decides something, the reconnect policy and the part of the chat page
that follows the bridge. Paths below are relative to the repository.

## 1. Inventory

| Part | State | Operations | Interacts with | Hard behaviour |
|---|---|---|---|---|
| Session engine, `rust/core/src/session.rs` | `Session`: config, `CapState`, SASL client and flags, nick attempts, registered, PING bookkeeping, stop flag and reason | `run_session`: connect, handshake, one select loop over server lines, commands, keepalive, deadline; a handler per line and numeric | socket, event channel, command channel | four sources in any order, any write may fail, the end may be announced by two places |
| Registration: `handle_cap`, `start_sasl`, `handle_authenticate`, `caps.rs`, `sasl.rs` | capabilities seen and acknowledged, SASL step, `cap_end_sent` | LS, ACK, NAK, NEW, DEL, AUTHENTICATE, 900..907, 433, 46x, 001 | server | no order of answers may wedge the handshake or skip the login |
| Keepalive: `handle_ping_tick`, PONG | outstanding PING, missed PONGs | tick, PONG | select loop | a PONG that crosses a tick; misses that add up |
| Line reader: `read_line` | `buf`, `overlong` (locals of the future), the `BufReader` | fill, take part, take line, end of file, cancellation | select loop | select! drops the future between two chunks |
| NAMES, modes: `names_acc`, `handle_line` MODE, numerics 353, 366, 324 | accumulators until the end numeric | JOIN, PART, KICK, NICK, QUIT, MODE, 353, 366 | bridge roster | membership changes while a list is under way |
| Batches, history, echo: `handle_batch`, `handle_privmsg`, `handle_ctcp` | open batches, capped; `echo_message` | BATCH, tagged lines, chathistory replies | bridge stores | caps, unknown references, nested batches |
| Parser: `parser.rs` | none | parse one line | engine | pure function, well tested |
| Bridge, sessions: `connect_server`, `disconnect_server`, `shutdown_session`, `enqueue_command`, event pump, Err closure | `session_epoch`, `command_tx`, `session`, `connection_state`, channels, permits, Qt queue | from QML: connect, disconnect, commands; from the runtime: pump, closures | engine, Qt thread | two unordered paths to the UI, aborts, stragglers, backpressure |
| Bridge, stores: `handle_event`, `STORE`, `UNREAD`, `MessageListModel` | buffers, rosters, unread counts, the visible model | one branch per event, open and clear buffers | QML | copies that must follow each other |
| Reconnect policy: `main.qml`, `kirctray.cpp` | `userDisconnect`, `reconnectAttempt`, `lastDropWasAuthFailure`, a timer | state changes, errors, timer, tray actions | bridge | stale flags, doubled signals |
| Chat page: `ChatPage.qml` | identify and autojoin flags, timers | identify, ghost, autojoin, commands | bridge | timer against confirmation, reconnect in between |
| Settings and secrets: `cpp/kircconfig.cpp`, `cpp/secretstore_*.cpp` | settings file, secret store | load, save, migrate | ConnectPage | two stores, one failing |
| Tray, notifications, shortcuts; pages and themes; packaging | presentation | | | none that a model would show |

What makes each part correct:

- engine: a session ends, is announced over exactly once, and is silent afterwards; a
  welcome is never taken back; a registration is resolved; QUIT is honoured;
- registration: no deadlock of client and server, login before welcome, both sides agree
  on the nickname;
- keepalive: a dead link is noticed, a live one is not given up;
- reader: each line once, whole, in order, in bounded memory;
- bridge: what the UI shows belongs to the current session; disconnect is final; the end
  of a session is seen; no queue grows without bound;
- reconnect policy: leaving is final, a bad password is not repeated, retries end, a live
  session can be reached;
- chat page: one GHOST and one autojoin per connection, and the joins happen;
- NAMES and modes: once everything sent is taken in, the people panel is the channel;
- stores: the rows on screen are the buffer, the badge of a session is the sum of its unread
  counts, nothing new is pruned;
- chat: what is said is shown once to each, histories are whole, CTCP ends.

The hazards behind these, each at its line, are in `PROJECT.json`.

## 2. Plan

| Order | Module | Models | State |
|---|---|---|---|
| 1 | `KircConnection` | abstract: what one connection promises its UI | done, refined by `KircSession` |
| 2 | `KircSession` | `run_session`, its handlers, keepalive | done, proofs in `KircSessionProofs` |
| 3 | `KircRegistration` | `KircSession` with a server and two FIFO links | done, proofs in `KircRegistrationProofs` |
| 4 | `KircReader` | `read_line` under `select!` | done, proofs in `KircReaderProofs` |
| 5 | `KircBridge` | tasks, pumps, Qt queue, epochs | done, proofs in `KircBridgeProofs` |
| 6 | `KircReconnect` | policy of `main.qml` and the tray over the bridge's signals; autojoin and identify of `ChatPage.qml` | done, proofs in `KircReconnectProofs` |
| 7 | `KircNames` | NAMES and mode accumulators against joins, parts, renames; the bridge's roster and flags | done, proofs in `KircNamesProofs` |
| 8 | `KircStore` | buffers, `UNREAD`, `MessageListModel` as a view of a buffer, history prepended | done, proofs in `KircStoreProofs` |
| 9 | `KircChat` | PRIVMSG and echo, CTCP, CHATHISTORY batches, between several clients | done, proofs in `KircChatProofs` |

What composes what: `KircRegistration` extends `KircSession`; `KircSession` implements
`KircConnection`. The modules from `KircBridge` on take of the layer below only what the
modules before them establish: `KircBridge` that a session's events are in order and end
with Disconnected (`KircSession`), `KircReconnect`, `KircStore`, `KircNames` and `KircChat`
that events reach the Qt thread in order and only from the session in command
(`KircBridge`).

Left: the task of `KircBridge` refined from `KircSession`, instead of by hand.

## 3. Modules and code

**KircSession.** One action is one turn of the select loop: `ReadLine(m)` is
`handle_line`, with an operator per handler (`CapAck`, `SaslSucceeded`, `RetryNick`,
`Welcome`, `ServerError`, ...); `HandleCommand`, `CommandsClosed`, `PingTick` and
`RegistrationDeadline` are the other branches; `Start`, `ConnectFails`, `Connected`,
`Handshake` and `Close` are `run_session` around the loop. The handlers await inside a
turn, but nothing else touches the `Session` meanwhile, so a turn is atomic for
everything but the reader, which has its own module. `should_stop` is `pc = "closing"`.
`sent` and `emitted` are what the turn wrote and told the UI. A write may fail wherever
`WritesMayFail`: `SendOrBreak` is a `?`, `TrySend` is `.ok()`. The server is
unconstrained: any line at any time.
*Abstracted*: texts, tags, batches, NAMES, modes (`PassOn`); the SCRAM exchange is one
Boolean, `good`, per challenge; EXTERNAL takes the same steps as PLAIN; PONG tokens are
not compared, as in the code.

**KircRegistration** puts those handlers, unchanged, against a server that follows the
protocol over two FIFO links. The server is not in the repository; it is what the
handlers and the loopback tests expect of one: it may refuse nickname, capabilities,
credentials or the connection, list or acknowledge capabilities in two lines, send
CAP NEW and DEL, rename the user, PING. Deadlines, commands and failed writes are left
out here (`WritesMayFail = FALSE`); `KircSession` has them.

**KircReader.** A byte is its position in the stream, or 0 for a line feed. `Poll` is one
turn of the loop of `read_line`, `EndOfFile` its two exits at end of file, `Cancel` the
drop of the future while it waits for the socket.

**KircBridge.** Per session a task (reduced to what `KircSession` promises: events in
order, ended by Disconnected, or by nothing when a registration line cannot be written:
`HandshakeFails`), an event channel
with its capacity, a pump with the event in hand; one Qt queue. `Sends` waits on a full
channel, `PumpQueues` on the permits, `RunClosure` tests the epoch as the closures do.
`Cancelled` lets an abort take hold at any await, or never before the task returns.

**KircReconnect.** The handlers of the Qt thread run to their end, signals included, so
each is one action: `StateConnected` and `StateDisconnected` are `onState_changed` of the
window followed by that of the chat page, `TryReconnect` the timer, `FormConnect`,
`FormCancel`, `MenuDisconnect`, `CmdQuit`, `TrayConnect`, `TrayDisconnect`, `Back` and
`OpenSettings` the user. `DisconnectServer` emits `state_changed(0)` before it returns,
into whatever its caller had set until then; that order is what the tray gets wrong. The
session below is `KircSession` and `KircBridge` reduced to the signals they may deliver:
the pump's in order (`events`), the Err closure at any time (`failed`).
*Abstracted*: which error texts look like a failed login (any that the server sends may;
the error of a failed connect does not), the backoff interval (timers fire at any time),
`pendingJoins`, and settings that change while the program runs.

**KircNames.** Three parties. The server changes a channel (`TheyJoin`, `Leaves`, `Quits`,
`Renames`, `SetsStatus`, `SetsFlag`) and answers NAMES and MODE, member by member, with
anything in between. The session takes one line at a time: `HearsJoin`, `HearsGone` and the
others are the branches of `handle_line` with `names_acc_add`, `_remove`, `_rename`,
`_apply_mode` and `apply_flag_change`. The bridge takes one event at a time: `ShowsJoin`
and the others are the branches of `handle_event` on `NICKS`, `MODES` and the nickname.
`Reconnects` drops the accumulators with the session and tells the bridge.
*Abstracted*: a map without an entry and one with an empty entry are the same to this
code, so maps are total; spellings, the argument matching of long MODE lines, list modes.

**KircStore.** Events of a session (`EventLine`, `Msg`, `HistoryBatch`, `Joined`, `Parted`,
`Registered`, `Disconnected`, ...) and calls of the page (`OpenBuffer`, `CloseBuffer`,
`Clear`, `MarkRead`, ...), each with every handler it reaches: `Put` is what `push_console_line` and
`push_channel_line` do to `STORE`, `Appended` `append_message`, `Prepended` `prepend_history`, `InFront` the insertion of a
batch, `Load` `load_channel`, `MarkBufferRead` `mark_buffer_read`. `STORE` is a function on
buffers and `key` the spelling it has a buffer under, because lookups through
`canon_map_key` ignore case and others do not. Rows are numbers in the order of arrival.
`LocalLine` is in `PrintingSpec` only, since the model then holds rows `STORE` has not.
*Abstracted*: texts, day separators, highlights; the chat page is on screen throughout.

**KircChat.** Several clients, each the session's handlers for what is said: `Says` is the
PRIVMSG command in one or more lines, `HearsChat`, `HearsCtcp`, `HearsOpen`,
`HearsBatched`, `HearsClose` the lines; the server relays, echoes to those who asked for
echoes, and answers CHATHISTORY in batches whose lines may interleave. What a client
replies to a CTCP is a line the other hears, so that a loop would show.
*Abstracted*: nobody writes to themselves or to NickServ; echo-message stays as it was
acknowledged; the rows of a client are filed when the line is heard (`KircBridge` and
`KircStore` have the rest of the way).

**KircConnection** is the abstract specification; `Phase` in `KircSession` is the
mapping.

## 4. Runs

| Run | Shows | Bounds, and why they are enough |
|---|---|---|
| `session` | every safety property of the engine, and that it implements `KircConnection` | every capability list over the two capabilities with behaviour of their own; 2 nickname attempts and 2 misses, so both the retry and the last failure happen; one nickname, since `session` has no property about which; no inbox, commands are in `session_live` |
| `session_live` | registration resolves, QUIT and a dropped UI end the session, a deaf peer is noticed | one configuration (SASL, the longest handshake); an inbox of 2, so a QUIT stands behind another command, and before one, and meets a busy and a stopped loop |
| `registration` | no wedge, login first, nickname agreement, no late teardown | 3 nicknames and 3 attempts: two fallbacks and then failure; 2 unsolicited lines, so one may cross the other |
| `reader` | whole lines in order, no merging | streams of 7 bytes, every placement of line feeds; lines up to 3, chunks up to 3: two overlong pieces of one line and a line after it fit |
| `reader_loss` | counterexample: a cancelled read returns the rest of a line as a line | same |
| `bridge` | disconnect is final, rows of one session, bounded queue; the UI comes to show what became of the session in command | 2 epochs: connect then reconnect or disconnect, with the first session's stragglers; capacities of 1, so every wait happens and a full command channel refuses; connecting, a registration line and the loop may each fail, so the two paths of an end race |
| `reconnect` | leaving is final, no 904 loop, timers match the state, one GHOST and autojoin, joins happen, retries end | every setting with reconnecting on; limits 2 and 3, since a failed connect counts twice and the parity decides whether one failure can spend the last attempt and be refused too, and 0 for none; the count of an unlimited policy stops at 4, where the interval stops growing |
| `names` | roster, status and flags are the server's | 3 nicknames, so a rename has a new name and a bystander; one channel, as the code keeps channels apart by key; two prefixes, so a 353 has one to leave out, and a member that starts with any of them; 4 changes on the server's side: we come in, leave and return, or a member does, or gets a status and loses it, with a change, a question or a reconnect in between; 1 line and 2 events under way, the least a rename of ours needs |
| `store` | the model is the buffer, the badge of a session, caps, the newest row | the console, one channel, one query, each of them in two spellings; 3 rows and 2 pruned at a time, so pruning leaves something; batches of 0 to 2 meet every fill; 5 rows in all, enough to prune, read history, drop and go on |
| `store_badge` | counterexample: after a drop the badge counts messages of no buffer | same |
| `store_local` | counterexample: printed lines push rows out of the view | same |
| `chat` | shown once, histories whole, CTCP answered once | 2 clients, one of them with echoes in each initial state, one that reads history; 2 lines said (one message in two, or two messages), 3 histories with 2 open batches allowed, so one batch is over the cap; 1 or 2 messages asked for, so a history may be cut short or fill its batch to the cap |

`CHECK_DEADLOCK FALSE` is said where a session may end (and then nothing is left to do)
or where a bound on epochs or streams runs out.

**Fairness.** Weak fairness on the session's own steps: connect, handshake and writes
have timeouts (`CONNECT_TIMEOUT`, `WRITE_TIMEOUT`), the keepalive interval and the
deadline are timers, and `select!` starts at a random branch each time, so a branch that
stays ready is taken. Nothing is assumed of the server or the user. In the bridge the
runtime polls ready tasks and Qt runs its queue; the end of a registration is strongly
fair since a talkative server makes the loop busy again and again in between; that a
registration ends is `RegistrationResolves` of `session_live`. Nothing is asked of the abort,
of the user, or of a failing write. In
`KircReconnect` Qt runs its queue and its timers, and an attempt to connect ends, which is
`RegistrationResolves` of `session_live`; `GivesUp` also supposes that the user does
nothing more.

## 5. What the models found

As runs:

- `reader_loss`: `read_line` is not cancellation safe. When a command, a tick or the
  deadline wins while half a line was read, that half is gone, and the rest is later
  parsed as a line. Lines are never merged, and only a line whose read was cancelled is
  damaged (`LinesNeverMerge`, `LinesAreWhole`).
- `store_local`: `append_message` (`bridge.rs:1950`) takes rows the model has beyond `STORE`
  for rows that `STORE` has pruned. A line printed by `localLine` is in the model only, so
  every line printed after it removes the oldest row shown: of `/help` in an empty buffer the
  last line remains.
- `store_badge`: `main.qml:885` calls `unread_count` the count across buffers. A drop
  (`bridge.rs:1127`) clears `UNREAD` and leaves the property; `connect_server` and
  `disconnect_server` reset both. Until the next connect the badge counts messages that are
  in no buffer. `main.qml:889` knows and hides its label on the connect form; the tray
  mirrors the number all the same. `BadgeOfASession`, which passes, is what is true of it:
  from a connect until the session is over the two agree.

Stated in the modules, not runs of their own; TLC refutes each under the constants of the
runs, or with those named:

- `StateSettles` of `KircBridge` without its antecedent `[]~Overtaken(e)`: a failed
  registration write (`session.rs:2470`) returns Err without Disconnected; its closure
  (`bridge.rs:1671`) can overtake StateConnecting in the pump, and the UI stays in Connecting
  until the user acts. `Overtaken` is that order and nothing else: a session that failed so
  and was not overtaken, or that ended in any other way, is held to the property.
- `QuitIsWritten` of `KircBridge` with `MaxEpoch = 2` and `CommandCapacity = 2`: the abort right after queueing drops the QUIT line that
  /quit announces.
- `TrayLeavingIsFinal` of `KircReconnect`: the tray's Disconnect leaves `userDisconnect`
  alone, so the window connects again.
- `LiveIsReachable` of `KircReconnect`: `ensureChatVisible` trusts any page above the form,
  and settings opened over the form lead back to it; the form then offers to connect over a
  live session.
- `NobodyTwice` of `KircNames` with `ListsLate = FALSE`: who leaves and returns between two
  353 is added by the JOIN and listed again.
- `StatusIsShown` of `KircNames` without `untold`: `multi-prefix` is not in `DEFAULT_CAPS`
  (`caps.rs:6`), so a 353 shows the strongest prefix only, also of a member whose others a
  MODE had told of before, and when that one is taken the weaker one the member still has is
  not shown. Nor does it hold of every row: of a member listed twice `apply_prefix_to_list`
  (`bridge.rs:1070`) patches the first row alone, and the second keeps what it came with.
  `StatusIsShown` speaks of the first.
- `ViewIsTheBufferAnyCase` of `KircStore`: a query opened in a case of its own before the
  first message is loaded under that spelling, which `STORE` may then not have.

Seen while modelling, outside what the modules state:

- A chat page pushed while connected (tray Connect) or after [back] misses
  `state_changed(2)` and neither identifies nor joins, against "identify on connect"
  (`README.md:39`); a tray Connect during the backoff leaves the timer running; a failed
  connect is two `state_changed(0)`, so the default limit of 10 means five retries;
  `lastDropWasAuthFailure` is not "Cleared on every new attempt" (`main.qml:168`), so one
  error text with "904" in it stops the retry of the next drop, whatever its cause.
- `handle_cap` sends CAP END at the first ACK line that does not start SASL, so a server
  that leaves sasl to a second ACK line may welcome the session first
  (`session.rs:1105`). `srv.late` in `KircRegistration` marks exactly these behaviours, and
  `LoggedInBeforeWelcome` and `WelcomedKeepsSession` except them.
- Past its handshake `run_session` returns Ok however the connection was lost
  (`session.rs:2575`), while its comment (`session.rs:2398`) promises Err for an unexpected
  drop. The bridge relies on the events, not on the result.
- A line tagged with any open batch is consumed (`session.rs:547`), a netsplit's QUITs
  included, should a server send them in a batch: `batch` is asked for.
- CAP DEL of echo-message leaves `echo_message` set (`session.rs:1132`): what is said from
  then on is shown nowhere.
- CHATHISTORY is asked for on JOIN (`bridge.rs:1245`): a line said in between is shown live
  and again in the batch, in front of itself.
- The settings page bounds `historyLimit` (`SettingsPage.qml:1495`), `setHistoryLimit`
  (`kircconfig.cpp:460`) does not: with a file edited by hand to ask for more than 5000
  lines, what is dropped of a longer history (`session.rs:552`) is its newest part.

## 6. Proofs

`KircSessionProofs` proves, for every set of capabilities and nicknames, every
configuration, any function `AlternateNick` and all limits, with the assumptions named in
`KircSession`:

- `TypeCorrect`, `DisconnectedOnceHolds`, `WelcomeIsFinalHolds`, `NoFalseTimeoutHolds`,
  `SilenceIsBoundedHolds`, `SilentAfterDisconnectedHolds`;
- `SessionImplementsConnection`: the engine implements `KircConnection`.

The properties are not inductive. `DisconnectedOnce` needs to know that nothing was
announced while the loop runs and that `errorSaid` says whether it was once the loop is
left: `LifeCycle` gives the number of announcements as a function of `pc`, `result` and
`errorSaid`. The bounds of `TypeOK` need the attempts and misses strictly below their
limits in the loop (`CountersBelow`); the keepalive properties need `Counted`: each tick
without a PONG is either the PING that is out or a counted miss. `IInv` is their
conjunction. The step proof has one lemma per handler; each shows an `Outcome` (stay,
stop for a reason, or ERROR's own announcement) and the types of the group of variables
it writes, and `TurnKeepsInv` derives `IInv'` from that once for all of them.

`KircBridgeProofs` proves, for any number of epochs and any capacities, `TypeCorrect`
(with it the bound of every event channel), `DisconnectIsFinalHolds` and
`RowsOfOneSessionHolds`. The strengthening is `NoSessionYet`: an epoch that is still to
come, or that `disconnect_server` opened, has no task and nothing in its channel, its pump
or the Qt queue, so a closure that passes the epoch test belongs to the session attached.

`QtQueueIsBoundedHolds` adds `Slots`: each closure of a pump in the Qt queue holds a
permit of its session, so there are at most `EventSlots` of them; and an Err closure is
queued by the task as it ends, so there is one.

`KircReconnectProofs` proves, for any settings, `TypeCorrect` (the count never passes the
limit), `LeavingIsFinalHolds`, `BadPasswordNotRepeatedHolds`, `TimersMatchStateHolds` and
`OncePerConnectionHolds`.
That a refused password is not repeated rests on the order of signals: `QueueFits` and
`RefusalIsKnown` say that the Disconnected of a refused session is the last signal and that
the error before it has set `lastDropWasAuthFailure` by then; `TimerIsSpent` says that the
timer that started the session does not run beside it; `IdentifyingPage` covers a connect
from the form over a live session. One GHOST and one autojoin rest on `Once`: a session is
welcomed once and told nothing before (`WelcomedOnce`), NickServ's answer finds the page of
that welcome (`ConfirmedInTime`), and while connected the flags of the page say what was
sent (`FlagsCount`), whichever pages were opened and closed meanwhile.

`KircStoreProofs` proves, for any buffers, spellings and caps, `TypeCorrect` (no buffer
outgrows its cap), `ViewIsTheBufferHolds` and `NewestRowStaysHolds`. `append_message` and
`prepend_history` work by counting, so the lemmas about `Appended` and `Prepended` show that
the count determines the rows when the model was the buffer before: an append comes to
`PushBounded`, a history to `InFront`. `ModelOK` adds what is needed of a buffer that `STORE`
has not: while a session is up, the model of it is empty, so that its first line or history
starts from nothing. The assumption is `PruneRows < MaxRows`, as in the code (1000 of 20000).

`BadgeOfASessionHolds` counts: the unread messages of a buffer are as many pairs of it and a
number, so the badge is the cardinality of a set (`Counted`), which a message makes one
larger and a buffer that is opened or closed loses its pairs of; a session that is over is not
spoken of. `BadgeOK` adds that
the page of a session that is up is somewhere, so a message for it is never counted as away.

`KircRegistrationProofs` proves, for every configuration, every set of capabilities and
nicknames, any `AlternateNick`, any number of unsolicited lines and of fallbacks:
`RegistrationIsSession` (each step of the two together is a step of `KircSession` or leaves
it alone, so all that is proved of the session holds here), `RTypeCorrect`,
`LoggedInBeforeWelcomeHolds`, `WelcomedKeepsSessionHolds`, `NickAgreementHolds` and, assuming
`~WritesMayFail`, `HandshakeNeverWedgesHolds`: a line that was never written is never
answered, so without the assumption it is false. The invariant describes both queues
together with what both ends know. `SaslInv` and `CapInv` say at which point each
conversation is: idle, asked, challenged, answered, over, each with the one line that is
under way for it; `GateInv` that the server cannot welcome before CAP END, and CAP END is not
sent before the login; `NickInv` and `ChainInv` that the nickname the client holds leads,
through the NICK and 001 lines under way, to the one the server has; `OwedInv` that what the
client waits for is under way, or owed by a server that has something to read. A turn of the
session is a `KircSession` turn, so `IInv` carries over; what is left is, per line, how the
queues change (`Took`, `Adds`). The assumption `CapLists = SUBSET Caps` says that a
server may split a list anywhere, as it may.

`KircReaderProofs` proves, for every stream, chunk size and limit, `LinesAreWholeHolds`,
`LinesNeverMergeHolds`, `BufferIsBoundedHolds` and `ReaderTypeCorrect`. What is unread is the
stretch of the stream behind the bytes taken so far (`Unread`), `buf` a stretch before them
that does not reach back over the last line feed (`LineUnder`), all of it if nothing cut the
line; and each line returned is a tail of the line of its number, and that line if nothing
cut it (`Good`). A line is numbered by counting line feeds, a cardinality, so nothing about
it needs induction over the stream.

`KircNamesProofs` proves, for any nicknames, channels, flags and bounds, `NamesTypeCorrect`,
`FlagsAreConfirmedHolds`, `RosterIsTruthHolds` and `StatusIsShownHolds`. The properties speak
of the moment when nothing is under way; the invariant must speak of every other one. It
plays what is under way (`PlayedOK`): `EventsLead` takes the bridge through the events that
wait for it, and what comes of that, together with the session, goes through the lines that
wait for the session (`LinesLead`). The end of both is what must agree with the server, and
it is the same end whoever moves: a step of the bridge takes the first event off
(`BridgePlays`), a step of the session the first line and adds its events (`Carried`: session
and bridge fold the same line into their lists alike), and a step of the server adds a line
that makes of agreement with the channel before, agreement with the channel after it
(`ServerTells`). Plays are functions on the places of the queue, not recursive definitions,
so adding and taking one needs no induction; for the same reason `Without` and `Sorted` are
stated by the places they keep (`Arranged`).

`Agrees` claims as much as its `depth`: the flags; who is there as well; or the prefixes too.
Who is there needs a NAMES reply half way (`Pending`): nobody is in the list who is not on
the channel, who is not in it is still to be listed, and who is still to be listed is in it
once at most, so nobody is in it three times. The prefixes need no condition on how many
there are. A 353 sent while a member has two leaves one out, and MODE tells of each change
after it; `untold` is what was left out and not told of since. An entry shows at most what
its member has and at least what is not `untold` (`Showable`, `Truth`): every entry of the
accumulator, where MODE patches all of a name (`AllTrue`), and in the panel the first of each
name, which is the one MODE patches there (`FirstTrue`). Who is in the accumulator before
their turn came in by a JOIN, so nothing of theirs is `untold` yet (`Fresh`), and the 353
that lists them again puts an entry behind theirs that may know less, never more.
One hypothesis is left, where the code gives up, `ListsFit`: beyond `MAX_NAMES_PER_CHANNEL` (50000) entries a 353 is dropped,
and a member that joins during the reply may be entered twice, so a channel of 25000 could
lose one. `SmallNetworks` shows it hold of itself where there are few nicknames, as in the
run.

`KircChatProofs` proves, for any clients, any of them with echoes, any numbers of messages,
lines, histories and batches, `ChatTypeCorrect`, `ShownOnceHolds`, `HistoryIsWholeHolds` and
`AnsweredOnceHolds`. The first two properties after the types speak of a network that has
come to rest; `IInv` says of every other state what is still under way. Of each message and
each client (`MessageOK`): it is with who said it, then on the wire to the client, then taken
in, one of these at a time and once; it is shown to the client, in the one buffer it belongs
in, if and only if it is taken in and to be shown, or was said there without echoes; and it
has its answer if and only if it is due one and taken in. So two answers need two lines on a
wire that carries one, and an answer to an answer is never due. Of each history
(`HistoryOK`): there are numbers n and sent, of what the client has taken in and the server
has sent of it, with the lines between the two on the wire in their order, BATCH opening
before and closing behind them; what is taken in is in the batch while it is open, and else
in the buffer, and is the first n of the history. A batch that was refused is then a batch
that is never open, and its lines are filed one by one to the same end. `LogOK` and `WiresOK`
say that a line of a history belongs to the conversation the history is of, so a line filed
outside its batch finds the same buffer; `HeldOK` that batches and rows carry numbers of
histories, so those of different histories stay apart. A line is at a place of a sequence, so
that it is there once, and in order, is said of sets of places; the lemmas about Append, Tail
and concatenation carry these from one step to the next, without induction.

`ChatAssumption` supposes `Limits \subseteq 1..MaxHistory`: nobody asks for more than an open
batch holds. The page keeps its requests at 1000 and the batch holds 5000; a settings file
edited by hand can ask for more (section 5).

Only model-checked: all liveness (no ENABLED or fairness in the prover). Every safety
property of a passing run is a theorem.

## 7. Not modelled

- The parser (`parser.rs`): a pure function over strings with its own tests; models start
  from parsed lines. Message splitting and formatting likewise.
- The cryptography of SCRAM, and TLS.
- Settings and secrets (`cpp/kircconfig.cpp`, `cpp/secretstore_*.cpp`): synchronous calls
  into KConfig, KWallet and the Windows credential store. Read, not modelled: `save()` deletes
  the legacy plaintext password (`kircconfig.cpp:1059`) before the secret store is asked, and
  syncs `kirc.conf` whatever the store answered. A value that could not be stored stays in
  memory, dirty, for the next save; if the program ends before one succeeds it is gone.
- `pendingJoins` of the chat page, list modes and the argument matching of long MODE lines,
  and a change of settings while the program runs.
- Themes, effects, notifications, tray icons, shortcuts, packaging: presentation.
