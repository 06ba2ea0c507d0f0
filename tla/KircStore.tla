----------------------------- MODULE KircStore -----------------------------
(***************************************************************************)
(* The transcripts of the bridge (STORE, UNREAD, VISIBLE_TARGET and        *)
(* unread_count in rust/src/bridge.rs), and the chat page that follows one *)
(* of them: its currentChannel and channels (rust/qml/ChatPage.qml) and    *)
(* the rows of its MessageListModel.                                       *)
(*                                                                         *)
(* All of it runs on the Qt thread, and a signal runs the page's handler   *)
(* before the bridge goes on, so one action is one event, call or click    *)
(* with every handler it reaches.  A row is its number, in the order of    *)
(* arrival; what it says, its day and its flags are not here.  A target is *)
(* a buffer and a spelling of its name: maps of the bridge are read        *)
(* through canon_map_key, which keeps the spelling that came first, so a   *)
(* map is a function on buffers and `key` the spelling STORE has.          *)
(* The chat page is on screen throughout.                                  *)
(***************************************************************************)
EXTENDS Integers, Sequences, FiniteSets

CONSTANTS
  Channels, Queries, \* the buffers, besides the console
  Spellings,         \* the ways in which upper and lower case are used
  MaxRows,           \* MAX_BUFFER_ROWS, 20000 in the code
  PruneRows,         \* BUFFER_PRUNE_ROWS, 1000 in the code
  MaxBatch,          \* bound: rows of a history batch
  MaxLines           \* bound: rows there ever are

Console == "*server*"
NoKey   == "none"
ASSUME StoreAssumption ==
  /\ {Console, "nowhere"} \cap (Channels \cup Queries) = {} /\ Channels \cap Queries = {}
  /\ Spellings # {} /\ NoKey \notin Spellings
  /\ MaxRows \in Nat \ {0, 1} /\ PruneRows \in 1..(MaxRows - 1)
  /\ MaxBatch \in Nat /\ MaxLines \in Nat

VARIABLES
  key,         \* the spelling under which STORE has a buffer, or NoKey
  store,       \* its rows there
  unread,      \* UNREAD
  unreadCount, \* IrcBridge.unread_count
  visible,     \* VISIBLE_TARGET
  current,     \* currentChannel of the page
  open,        \* channels of the page
  loaded,      \* target of the model
  rows,        \* rows of the model
  phase,       \* what the page was last told: "offline", "connecting", "online"
  lines        \* bound: rows there have been

buffers == <<key, store>>
badge   == <<unread, unreadCount>>
page    == <<current, open>>
model   == <<loaded, rows, visible>>
vars    == <<buffers, badge, page, model, phase, lines>>

Buffers == {Console} \cup Channels \cup Queries
Target(b, s) == [buf |-> b, spell |-> s]
ServerBuffer == Target(Console, CHOOSE s \in Spellings : TRUE)
Targets == {ServerBuffer} \cup [buf : Channels \cup Queries, spell : Spellings]
Nowhere == Target("nowhere", NoKey) \* visible_target is empty

-----------------------------------------------------------------------------
(* STORE *)

Least(a, b) == IF a < b THEN a ELSE b
From(s, i) == SubSeq(s, i, Len(s))

\* canon_map_key: the spelling there is, or the one that was asked for.
Canon(t) == IF key[t.buf] = NoKey THEN t ELSE Target(t.buf, key[t.buf])

\* Lookup by a spelling, exactly.
Get(k, st, t) == IF k[t.buf] = t.spell THEN st[t.buf] ELSE <<>>

\* Mutant: the cap is not looked at.
PushUnbounded(list, row) == Append(list, row)

\* push_bounded
PushBounded(list, row) ==
  Append(IF Len(list) >= MaxRows THEN From(list, Least(PruneRows, Len(list)) + 1) ELSE list, row)

Row == lines + 1
NewRows(n) == lines + n <= MaxLines /\ lines' = lines + n

Put(t, row) ==
  /\ key' = [key EXCEPT ![t.buf] = Canon(t).spell]
  /\ store' = [store EXCEPT ![t.buf] = PushBounded(@, row)]

ClearAllStores ==
  /\ key' = [b \in Buffers |-> NoKey] /\ store' = [b \in Buffers |-> <<>>]
  /\ unread' = [b \in Buffers |-> 0]

-----------------------------------------------------------------------------
(* The model and the page, after STORE has changed *)

\* Mutant: rows STORE has pruned stay.
AppendedOnly(view, at, t, row) == IF at.buf = t.buf THEN Append(view, row) ELSE view

\* append_message: rows STORE has pruned go first.
Appended(view, at, t, row) ==
  LET kept == Len(Get(key', store', at))
      surplus == Len(view) + 1 - kept
      prune == IF surplus > 0 THEN Least(surplus, Len(view)) ELSE 0
  IN IF at.buf = t.buf THEN Append(From(view, prune + 1), row) ELSE view

\* onMessage_received
Receive(t, row) ==
  /\ rows' = IF t.buf = current.buf THEN Appended(rows, loaded, t, row) ELSE rows
  /\ UNCHANGED <<loaded, visible>>

\* prepend_history
Prepended(view, at) ==
  LET stored == Get(key', store', at)
      added == Len(stored) - Len(view)
  IN IF added > 0 THEN SubSeq(stored, 1, added) \o view ELSE view

\* load_channel
Load(t) ==
  LET spell == IF key'[t.buf] = NoKey THEN t.spell ELSE key'[t.buf]
  IN /\ loaded' = Target(t.buf, spell)
     /\ visible' = loaded'
     /\ rows' = Get(key', store', loaded')

\* existingTarget, addBuffer and removeBuffer
Existing(list, t) ==
  IF \E o \in list : o.buf = t.buf THEN CHOOSE o \in list : o.buf = t.buf ELSE t
Adding(list, t) == IF \E o \in list : o.buf = t.buf THEN list ELSE list \cup {t}
Removing(list, t) ==
  LET rest == {o \in list : o.buf # t.buf} IN IF rest = {} THEN {ServerBuffer} ELSE rest

\* mark_buffer_read, from what UNREAD and unread_count are by then.
MarkBufferRead(un, count, b) ==
  /\ unread' = [un EXCEPT ![b] = 0]
  /\ unreadCount' = IF count > un[b] THEN count - un[b] ELSE 0

\* openChannel, in the list of buffers there is by then.
OpenChannel(t) ==
  /\ current' = Existing(open', t)
  /\ MarkBufferRead(unread, unreadCount, t.buf)
  /\ Load(current')

-----------------------------------------------------------------------------
(* Events of a session *)

Online == phase = "online"

\* push_console_line and push_channel_line: an event of the channel, or console text.
EventLine(t) ==
  /\ Online \/ (phase = "connecting" /\ t = ServerBuffer)
  /\ t.buf \notin Queries
  /\ NewRows(1) /\ Put(t, Row) /\ Receive(t, Row)
  /\ UNCHANGED <<badge, page, phase>>

\* Mutant: the buffer on screen is counted too.
BumpUnreadAlways(t, self) ==
  IF self \/ t.buf = Console
  THEN UNCHANGED <<unread, unreadCount>>
  ELSE unread' = [unread EXCEPT ![t.buf] = @ + 1] /\ unreadCount' = unreadCount + 1

\* bump_unread_for
BumpUnread(t, self) ==
  IF self \/ t.buf = Console \/ (visible # Nowhere /\ visible.buf = t.buf)
  THEN UNCHANGED <<unread, unreadCount>>
  ELSE unread' = [unread EXCEPT ![t.buf] = @ + 1] /\ unreadCount' = unreadCount + 1

Msg(t, self) ==
  /\ Online
  /\ NewRows(1) /\ Put(t, Row) /\ BumpUnread(t, self) /\ Receive(t, Row)
  /\ open' = IF t.buf \in Queries THEN Adding(open, Canon(t)) ELSE open
  /\ UNCHANGED <<current, phase>>

\* The answer to a command goes where the user is, never to a buffer of its own.
CommandReply ==
  LET t == IF visible = Nowhere THEN ServerBuffer ELSE visible
  IN /\ phase # "offline"
     /\ NewRows(1) /\ Put(t, Row) /\ Receive(t, Row)
     /\ UNCHANGED <<badge, page, phase>>

\* Mutant: the batch goes in whole and the end is cut.
InFrontCut(list, batch) == SubSeq(batch \o list, 1, Least(MaxRows, Len(batch) + Len(list)))

\* The newest rows of the batch that fit go in front of what is there.
InFront(list, batch) ==
  LET room == MaxRows - Len(list)
      skip == IF Len(batch) > room THEN Len(batch) - room ELSE 0
  IN IF room > 0 THEN From(batch, skip + 1) \o list ELSE list

HistoryBatch(t, n) ==
  /\ Online /\ t # ServerBuffer
  /\ NewRows(n)
  /\ key' = [key EXCEPT ![t.buf] = Canon(t).spell]
  /\ store' = [store EXCEPT ![t.buf] = InFront(@, [i \in 1..n |-> lines + i])]
  /\ rows' = IF t.buf = current.buf /\ t.buf = loaded.buf THEN Prepended(rows, loaded) ELSE rows
  /\ UNCHANGED <<badge, page, loaded, visible, phase>>

Joined(t) ==
  /\ Online /\ t.buf \in Channels
  /\ NewRows(1) /\ Put(t, Row)
  /\ open' = Adding(open, t)
  /\ OpenChannel(t)
  /\ UNCHANGED phase

\* Our own PART, or a KICK of us.
Parted(t) ==
  /\ Online /\ t.buf \in Channels
  /\ NewRows(1) /\ Put(t, Row)
  /\ open' = Removing(open, t)
  /\ IF current.buf = t.buf
     THEN OpenChannel(ServerBuffer)
     ELSE UNCHANGED <<badge, current, model>>
  /\ UNCHANGED phase

JoinFailed(t) ==
  /\ Online /\ t.buf \in Channels
  /\ NewRows(1) /\ Put(ServerBuffer, Row) /\ Receive(ServerBuffer, Row)
  /\ open' = Removing(open, t)
  /\ UNCHANGED <<badge, current, phase>>

\* The page reloads, then the console gets its line.
Registered ==
  LET at == Canon(current)
  IN /\ phase = "connecting" /\ phase' = "online"
     /\ NewRows(1) /\ Put(ServerBuffer, Row)
     /\ loaded' = at /\ visible' = at
     /\ rows' = Appended(Get(key, store, at), at, ServerBuffer, Row)
     /\ UNCHANGED <<badge, page>>

\* The page goes back to the console.
ToConsole == open' = {ServerBuffer} /\ current' = ServerBuffer

\* A drop clears every map, but not unread_count; a reason becomes the first row.
Disconnected(said) ==
  LET last == IF said THEN <<Row>> ELSE <<>>
  IN /\ phase # "offline" /\ phase' = "offline"
     /\ NewRows(Len(last))
     /\ key' = [b \in Buffers |-> IF b = Console /\ said THEN ServerBuffer.spell ELSE NoKey]
     /\ store' = [b \in Buffers |-> IF b = Console THEN last ELSE <<>>]
     /\ unread' = [b \in Buffers |-> 0]
     /\ ToConsole
     /\ loaded' = ServerBuffer /\ visible' = ServerBuffer /\ rows' = last
     /\ UNCHANGED unreadCount

\* run_session returned Err: the page is told, and nothing is cleared.
Failed ==
  /\ ~Online /\ phase' = "offline"
  /\ ToConsole
  /\ MarkBufferRead(unread, unreadCount, Console)
  /\ UNCHANGED <<buffers, lines>>
  /\ Load(ServerBuffer)

-----------------------------------------------------------------------------
(* Calls of the user interface *)

\* connect_server; the page does nothing until Registered.
ConnectServer ==
  /\ phase' = "connecting"
  /\ ClearAllStores /\ unreadCount' = 0 /\ visible' = Nowhere
  /\ UNCHANGED <<page, loaded, rows, lines>>

DisconnectServer ==
  /\ phase # "offline" /\ phase' = "offline"
  /\ ClearAllStores /\ unreadCount' = 0
  /\ ToConsole /\ Load(ServerBuffer)
  /\ UNCHANGED lines

\* A click on a buffer, or /query and /msg to a nickname typed in any case.
OpenBuffer(t) ==
  /\ t.buf \in Queries \/ t \in open
  /\ open' = Adding(open, t)
  /\ UNCHANGED <<buffers, phase, lines>>
  /\ OpenChannel(t)

CloseBuffer(t) ==
  /\ t \in open /\ t # ServerBuffer
  /\ open' = Removing(open, t)
  /\ UNCHANGED <<buffers, phase, lines>>
  /\ IF current.buf = t.buf
     THEN OpenChannel(ServerBuffer)
     ELSE UNCHANGED <<badge, current, model>>

\* /clear: clear_buffer, then a reload.
Clear ==
  /\ key' = [key EXCEPT ![current.buf] = NoKey]
  /\ store' = [store EXCEPT ![current.buf] = <<>>]
  /\ Load(current)
  /\ UNCHANGED <<badge, page, phase, lines>>

\* mark_read: a click on the badge, or /markread.
MarkRead ==
  /\ unread' = [b \in Buffers |-> 0] /\ unreadCount' = 0
  /\ UNCHANGED <<buffers, page, model, phase, lines>>

\* localLine: the model gets a row that STORE has not.
LocalLine ==
  /\ NewRows(1)
  /\ UNCHANGED <<buffers, badge, page, phase>>
  /\ Receive(current, Row)

-----------------------------------------------------------------------------
Init ==
  /\ key = [b \in Buffers |-> NoKey] /\ store = [b \in Buffers |-> <<>>]
  /\ unread = [b \in Buffers |-> 0] /\ unreadCount = 0
  /\ current = ServerBuffer /\ open = {ServerBuffer}
  /\ loaded = ServerBuffer /\ visible = ServerBuffer /\ rows = <<>>
  /\ phase = "offline" /\ lines = 0

Events ==
  \/ \E t \in Targets : EventLine(t) \/ Joined(t) \/ Parted(t) \/ JoinFailed(t)
  \/ \E t \in Targets : \E self \in BOOLEAN : Msg(t, self)
  \/ \E t \in Targets : \E n \in 0..MaxBatch : HistoryBatch(t, n)
  \/ CommandReply \/ Registered \/ Failed
  \/ \E said \in BOOLEAN : Disconnected(said)

Calls ==
  \/ \E t \in Targets : OpenBuffer(t) \/ CloseBuffer(t)
  \/ ConnectServer \/ DisconnectServer \/ Clear \/ MarkRead

Next == Events \/ Calls
Spec == Init /\ [][Next]_vars

\* The same, with lines the page prints on its own (/help, usage, /ctcp).
PrintingSpec == Init /\ [][Next \/ LocalLine]_vars

-----------------------------------------------------------------------------
(* Properties *)

\* Every variable holds what its type says, and no buffer outgrows its cap.
TypeOK ==
  /\ key \in [Buffers -> Spellings \cup {NoKey}]
  /\ store \in [Buffers -> Seq(Nat)] /\ \A b \in Buffers : Len(store[b]) <= MaxRows
  /\ unread \in [Buffers -> Nat] /\ unreadCount \in Nat
  /\ {current, loaded} \subseteq Targets /\ open \subseteq Targets
  /\ visible \in Targets \cup {Nowhere}
  /\ rows \in Seq(Nat)
  /\ phase \in {"offline", "connecting", "online"} /\ lines \in 0..MaxLines

\* Through pruning, history and reconnects the model shows the buffer of the page, row
\* for row: an append, which removes by counting, comes to what a reload would give
\* (bridge.rs:1944).  A buffer stored under another spelling is out.
ViewIsTheBuffer ==
  /\ loaded.buf = current.buf
  /\ visible # Nowhere => visible.buf = current.buf
  /\ key[loaded.buf] = loaded.spell => rows = store[loaded.buf]

\* The messages the counts stand for, each by its buffer and its number there.
Counted(un) == UNION {{b} \X (1..un[b]) : b \in Buffers}

\* While a session is on, the badge is the number of unread messages over all buffers
\* and the buffer on screen has none: UNREAD and unread_count are patched apart, by what
\* comes in, by every way to open, leave, read or clear a buffer and by a reconnect, and
\* never part (bridge.rs:976).
BadgeOfASession ==
  /\ visible # Nowhere => unread[visible.buf] = 0
  /\ phase # "offline" => unreadCount = Cardinality(Counted(unread))

\* Neither pruning nor a history batch costs a buffer its newest row, whatever is full
\* (bridge.rs:118, 1265).
NewestRowStays ==
  [][phase' = phase => \A b \in Buffers :
       LET n == Len(store[b])
       IN n > 0 /\ store'[b] # <<>> => \E i \in DOMAIN store'[b] : store'[b][i] = store[b][n]]_vars

\* "Count of unread messages across buffers; clears when the buffers are read"
\* (main.qml:885), whatever became of the session.
BadgeIsTheSum == unreadCount = Cardinality(Counted(unread))

\* "the same buffer load_channel serves from, so both paths agree" (bridge.rs:1919).
ViewIsTheBufferAnyCase == store[loaded.buf] # <<>> => rows = store[loaded.buf]

\* "/help prints this list into the active buffer" (README.md:213): printing a line into
\* a buffer that loses no row removes none from the view.
PrintedLinesStay ==
  [][LocalLine => \A i \in DOMAIN rows : \E j \in DOMAIN rows' : rows'[j] = rows[i]]_vars
=============================================================================
