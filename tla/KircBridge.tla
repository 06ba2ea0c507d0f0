----------------------------- MODULE KircBridge -----------------------------
(***************************************************************************)
(* IrcBridge (rust/src/bridge.rs): the Qt thread, and for every session it *)
(* starts a run_session task and an event pump on the tokio runtime.       *)
(*                                                                         *)
(* Events reach the UI on two paths nothing orders: event channel, pump,   *)
(* Qt queue; and, when run_session returns Err, a closure the session task *)
(* puts in the Qt queue itself.  A session is replaced by aborting its     *)
(* task, which stops it at some later await; what it queued by then still  *)
(* arrives, and session_epoch is what keeps it from being applied.         *)
(*                                                                         *)
(* A session is here what KircSession promises of one: `todo` holds the    *)
(* events its current step still has to send.  The Qt queue is one for all *)
(* sessions; task, channel and pump are per session.                       *)
(***************************************************************************)
EXTENDS Naturals, Sequences, FiniteSets

CONSTANTS
  MaxEpoch,         \* bound: connects and disconnects together
  EventCapacity,    \* the event channel, 512 in the code
  EventSlots,       \* qt_event_slots, 512 in the code
  CommandCapacity   \* the command channel, 128 in the code

ASSUME BridgeAssumption ==
  /\ MaxEpoch \in Nat
  /\ EventCapacity \in Nat \ {0} /\ EventSlots \in Nat \ {0}
  /\ CommandCapacity \in Nat

VARIABLES
  epoch,            \* session_epoch
  attached,         \* command_tx and session are Some
  connectionState,  \* 0 Disconnected, 1 Connecting, 2 Connected
  rows,             \* the sessions whose lines are in the stores
  task,             \* run_session of each session
  todo,             \* the events its current step still has to send
  inbox,            \* its command channel
  aborted,          \* JoinHandle::abort was called
  channel,          \* its event channel
  pump,             \* its pump: "idle" or the event in hand
  qt                \* the queue of closures for the Qt thread

ui      == <<epoch, attached, connectionState, rows>>
session == <<task, todo, inbox, aborted>>
vars    == <<ui, session, channel, pump, qt>>

Sessions == 1..MaxEpoch
TaskStates ==
  {"none", "connecting", "live", "welcome", "closing", "failed", "unwritten",
   "ended", "lost", "cancelled"}
\* "Row" is any event that adds a line to a buffer.
Events   == {"Connecting", "Registered", "Row", "Error", "Disconnected"}
\* "RAW QUIT" is the line /quit sends with its reason, "QUIT" ClientCommand::Quit.
Commands == {"COMMAND", "RAW QUIT", "QUIT"}
Closures == [session : Sessions, event : Events \cup {"Failed"}]
Returned == {"ended", "lost"}
Over     == Returned \cup {"cancelled"}

-----------------------------------------------------------------------------
(* The session task *)

\* The task of e moves on and has these events to send first.
Moves(e, state, events) ==
  /\ task' = [task EXCEPT ![e] = state]
  /\ todo' = [todo EXCEPT ![e] = events]

Ready(e) == task[e] \notin Over /\ todo[e] = <<>>

Connects(e) ==
  /\ task[e] = "connecting" /\ Ready(e)
  /\ Moves(e, "live", <<>>)
  /\ UNCHANGED <<ui, inbox, aborted, channel, pump, qt>>

\* Mutant: only the Err tells that connecting failed.
ConnectFailsSilently(e) ==
  /\ task[e] = "connecting" /\ Ready(e)
  /\ Moves(e, "failed", <<"Error">>)
  /\ UNCHANGED <<ui, inbox, aborted, channel, pump, qt>>

ConnectFails(e) ==
  /\ task[e] = "connecting" /\ Ready(e)
  /\ Moves(e, "failed", <<"Error", "Disconnected">>)
  /\ UNCHANGED <<ui, inbox, aborted, channel, pump, qt>>

\* A registration line cannot be written: the `?` ends run_session without a word.
HandshakeFails(e) ==
  /\ task[e] = "connecting" /\ Ready(e)
  /\ Moves(e, "unwritten", <<>>)
  /\ UNCHANGED <<ui, inbox, aborted, channel, pump, qt>>

Welcomed(e) ==
  /\ task[e] = "live" /\ Ready(e)
  /\ Moves(e, "welcome", <<"Registered">>)
  /\ UNCHANGED <<ui, inbox, aborted, channel, pump, qt>>

\* A line of the server that leads to an event.  One that adds no line to a buffer
\* takes the same place in the queues and does less when it gets there.
Hears(e) ==
  /\ task[e] \in {"live", "welcome"} /\ Ready(e)
  /\ Moves(e, task[e], <<"Row">>)
  /\ UNCHANGED <<ui, inbox, aborted, channel, pump, qt>>

\* A command, written to the socket; only ClientCommand::Quit also ends the loop.
TakesCommand(e) ==
  /\ task[e] \in {"live", "welcome"} /\ Ready(e) /\ inbox[e] # <<>>
  /\ inbox' = [inbox EXCEPT ![e] = Tail(@)]
  /\ IF Head(inbox[e]) = "QUIT"
     THEN Moves(e, "closing", <<"Disconnected">>)
     ELSE UNCHANGED <<task, todo>>
  /\ UNCHANGED <<ui, aborted, channel, pump, qt>>

\* Any other way out of the loop; the sender's end of the command channel is one.
Stops(e) ==
  /\ task[e] \in {"live", "welcome"} /\ Ready(e)
  /\ Moves(e, "closing", <<"Disconnected">>)
  /\ UNCHANGED <<ui, inbox, aborted, channel, pump, qt>>

\* Mutant: an event channel without a bound.
SendsUnbounded(e) ==
  /\ task[e] \notin Over /\ todo[e] # <<>>
  /\ channel' = [channel EXCEPT ![e] = Append(@, Head(todo[e]))]
  /\ todo' = [todo EXCEPT ![e] = Tail(@)]
  /\ UNCHANGED <<ui, task, inbox, aborted, pump, qt>>

\* emit: waits while the event channel is full.
Sends(e) ==
  /\ task[e] \notin Over /\ todo[e] # <<>> /\ Len(channel[e]) < EventCapacity
  /\ channel' = [channel EXCEPT ![e] = Append(@, Head(todo[e]))]
  /\ todo' = [todo EXCEPT ![e] = Tail(@)]
  /\ UNCHANGED <<ui, task, inbox, aborted, pump, qt>>

\* The loop ends with Ok; whatever failed before it is an Err and one more closure.
Returns(e) ==
  /\ task[e] \in {"closing", "failed", "unwritten"} /\ Ready(e)
  /\ Moves(e, IF task[e] = "unwritten" THEN "lost" ELSE "ended", <<>>)
  /\ qt' = IF task[e] = "closing" THEN qt
                                  ELSE Append(qt, [session |-> e, event |-> "Failed"])
  /\ UNCHANGED <<ui, inbox, aborted, channel, pump>>

\* The abort takes hold at some await of the task, at the first or a later one.
Cancelled(e) ==
  /\ aborted[e] /\ task[e] \notin Over
  /\ Moves(e, "cancelled", <<>>)
  /\ UNCHANGED <<ui, inbox, aborted, channel, pump, qt>>

-----------------------------------------------------------------------------
(* The pump and the Qt thread *)

PumpTakes(e) ==
  /\ pump[e] = "idle" /\ channel[e] # <<>>
  /\ pump' = [pump EXCEPT ![e] = Head(channel[e])]
  /\ channel' = [channel EXCEPT ![e] = Tail(@)]
  /\ UNCHANGED <<ui, session, qt>>

\* The closures of e that hold a permit: those the pump queued.
Permits(e) ==
  Cardinality({i \in DOMAIN qt : qt[i].session = e /\ qt[i].event # "Failed"})

\* Mutant: the pump takes no permit.
PumpQueuesFreely(e) ==
  /\ pump[e] # "idle"
  /\ qt' = Append(qt, [session |-> e, event |-> pump[e]])
  /\ pump' = [pump EXCEPT ![e] = "idle"]
  /\ UNCHANGED <<ui, session, channel>>

PumpQueues(e) ==
  /\ pump[e] # "idle" /\ Permits(e) < EventSlots
  /\ qt' = Append(qt, [session |-> e, event |-> pump[e]])
  /\ pump' = [pump EXCEPT ![e] = "idle"]
  /\ UNCHANGED <<ui, session, channel>>

\* handle_event, and the closure of a session that returned Err.
Apply(c) ==
  \/ /\ c.event = "Connecting"
     /\ connectionState' = 1 /\ UNCHANGED rows
  \/ /\ c.event = "Registered"
     /\ connectionState' = 2 /\ rows' = rows \cup {c.session}
  \/ /\ c.event = "Row"
     /\ rows' = rows \cup {c.session} /\ UNCHANGED connectionState
  \/ /\ c.event = "Error"
     /\ UNCHANGED <<connectionState, rows>>
  \/ /\ c.event = "Disconnected"
     /\ connectionState' = 0 /\ rows' = {c.session}
  \/ /\ c.event = "Failed"
     /\ connectionState' = 0 /\ UNCHANGED rows

\* Mutant: no epoch test.
RunClosureAnyEpoch ==
  /\ qt # <<>>
  /\ qt' = Tail(qt)
  /\ Apply(Head(qt))
  /\ UNCHANGED <<epoch, attached, session, channel, pump>>

RunClosure ==
  /\ qt # <<>>
  /\ qt' = Tail(qt)
  /\ IF Head(qt).session = epoch THEN Apply(Head(qt))
                                 ELSE UNCHANGED <<connectionState, rows>>
  /\ UNCHANGED <<epoch, attached, session, channel, pump>>

\* Commands the channel of the current session takes (try_send): it has room and
\* the task still holds the receiver.
TryCommands(commands) ==
  LET room == CommandCapacity - Len(inbox[epoch])
      took == IF Len(commands) <= room THEN commands ELSE SubSeq(commands, 1, room)
  IN  IF attached /\ task[epoch] \notin Over
      THEN inbox' = [inbox EXCEPT ![epoch] = @ \o took]
      ELSE UNCHANGED inbox

\* enqueue_command; a command that does not fit is an error message.
EnqueueCommand ==
  /\ attached /\ task[epoch] \notin Over /\ Len(inbox[epoch]) < CommandCapacity
  /\ TryCommands(<<"COMMAND">>)
  /\ UNCHANGED <<ui, task, todo, aborted, channel, pump, qt>>

\* shutdown_session, after the commands the caller queued: one more QUIT, and abort.
ShutdownSession(commands) ==
  /\ TryCommands(commands \o <<"QUIT">>)
  /\ aborted' = IF attached THEN [aborted EXCEPT ![epoch] = TRUE] ELSE aborted

ConnectServer ==
  /\ epoch < MaxEpoch
  /\ ShutdownSession(<<>>)
  /\ epoch' = epoch + 1 /\ attached' = TRUE
  /\ connectionState' = 1 /\ rows' = {}
  /\ Moves(epoch', "connecting", <<"Connecting">>)
  /\ UNCHANGED <<channel, pump, qt>>

\* Mutant: the epoch is only bumped by connect_server.
DisconnectServerSameEpoch ==
  /\ ShutdownSession(<<>>)
  /\ UNCHANGED epoch /\ attached' = FALSE
  /\ connectionState' = 0 /\ rows' = {}
  /\ UNCHANGED <<task, todo, channel, pump, qt>>

\* disconnect_server; /quit with a reason queues a QUIT line just before.
DisconnectServer ==
  /\ epoch < MaxEpoch
  /\ ShutdownSession(<<>>) \/ ShutdownSession(<<"RAW QUIT">>)
  /\ epoch' = epoch + 1 /\ attached' = FALSE
  /\ connectionState' = 0 /\ rows' = {}
  /\ UNCHANGED <<task, todo, channel, pump, qt>>

-----------------------------------------------------------------------------
Init ==
  /\ epoch = 0 /\ attached = FALSE /\ connectionState = 0 /\ rows = {}
  /\ task = [e \in Sessions |-> "none"] /\ todo = [e \in Sessions |-> <<>>]
  /\ inbox = [e \in Sessions |-> <<>>] /\ aborted = [e \in Sessions |-> FALSE]
  /\ channel = [e \in Sessions |-> <<>>] /\ pump = [e \in Sessions |-> "idle"]
  /\ qt = <<>>

TaskStep(e) ==
  \/ Connects(e) \/ ConnectFails(e) \/ HandshakeFails(e) \/ Welcomed(e)
  \/ Hears(e) \/ TakesCommand(e) \/ Stops(e) \/ Sends(e) \/ Returns(e) \/ Cancelled(e)
PumpStep(e) == PumpTakes(e) \/ PumpQueues(e)
UserStep == EnqueueCommand \/ ConnectServer \/ DisconnectServer

Next == UserStep \/ RunClosure \/ \E e \in Sessions : TaskStep(e) \/ PumpStep(e)

Spec == Init /\ [][Next]_vars

\* The runtime polls every ready task and Qt runs its queue; connecting times out,
\* and so does a registration (KircSession: RegistrationResolves).  A server that
\* keeps talking only delays the deadline: select! polls its branches in random
\* order, so one that is ready again and again is taken, hence SF.  Nothing is asked
\* of the abort.
Fairness ==
  /\ WF_vars(RunClosure)
  /\ \A e \in Sessions :
       /\ WF_vars(PumpStep(e))
       /\ WF_vars(Sends(e) \/ Returns(e) \/ Connects(e) \/ ConnectFails(e))
       /\ SF_vars(task[e] = "live" /\ (Welcomed(e) \/ Stops(e)))

FairSpec == Spec /\ Fairness

-----------------------------------------------------------------------------
(* Properties *)

TypeOK ==
  /\ epoch \in 0..MaxEpoch /\ attached \in BOOLEAN
  /\ connectionState \in 0..2 /\ rows \subseteq Sessions
  /\ task \in [Sessions -> TaskStates] /\ todo \in [Sessions -> Seq(Events)]
  /\ inbox \in [Sessions -> Seq(Commands)]
  /\ aborted \in [Sessions -> BOOLEAN]
  /\ channel \in [Sessions -> Seq(Events)]
  /\ \A e \in Sessions : Len(channel[e]) <= EventCapacity
  /\ pump \in [Sessions -> Events \cup {"idle"}]
  /\ qt \in Seq(Closures)

\* After disconnect_server its word is final: whatever the dying session still
\* sends, by either path, the UI stays Disconnected with empty buffers until the
\* next connect_server.
DisconnectIsFinal == ~attached => connectionState = 0 /\ rows = {}

\* The buffers hold lines of the current session only: no server inherits another
\* one's log, and no straggler wipes or fills the buffers of its successor.
RowsOfOneSession == rows \subseteq {epoch}

\* The semaphore does bound the Qt queue: each session has at most its permits and
\* the one closure of its own task in it, however fast the server talks.
QtQueueIsBounded ==
  \A e \in Sessions :
    Cardinality({i \in DOMAIN qt : qt[i].session = e}) <= EventSlots + 1

\* What is still to be applied of e once the closure of its Err is.
Behind(e) ==
  LET failed == {i \in DOMAIN qt : qt[i] = [session |-> e, event |-> "Failed"]}
      later(i) == {j \in i+1..Len(qt) : qt[j].session = e}
  IN  UNION {{qt[j].event : j \in later(i)} \cup {pump[e]}
               \cup {channel[e][k] : k \in DOMAIN channel[e]} : i \in failed}

\* A session whose registration could not be written tells of its end by the Err
\* alone, and here that closure overtakes the session's own StateConnecting.
Overtaken(e) == task[e] = "lost" /\ "Connecting" \in Behind(e)

\* The UI comes to show what became of a session: unless the user moves on it leaves
\* Connecting for good, and the end of the session reaches it and stays, whatever
\* lies in the queues.  Only a session whose Err was Overtaken is let off, and the UI
\* of that one the code does leave in Connecting.
StateSettles ==
  \A e \in Sessions :
    []~Overtaken(e) =>
      <>[](epoch = e /\ attached =>
             /\ connectionState # 1
             /\ task[e] \in Returned => connectionState = 0)

\* "The queued QUIT is processed before the disconnect": the farewell that /quit
\* queued for a live session is not dropped by the abort.
QuitIsWritten ==
  [][\A e \in Sessions :
       task[e] \in {"live", "welcome"} /\ task'[e] = "cancelled"
         => \A i \in DOMAIN inbox[e] : inbox[e][i] # "RAW QUIT"]_vars
=============================================================================
