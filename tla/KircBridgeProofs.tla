-------------------------- MODULE KircBridgeProofs --------------------------
(***************************************************************************)
(* Proofs about KircBridge, for every number of connects and disconnects   *)
(* and every capacity of the channels.                                     *)
(***************************************************************************)
EXTENDS KircBridge, SequenceTheorems, FiniteSetTheorems, TLAPS

\* Session e has left no trace: no task, nothing in its channel, its pump or the Qt
\* queue.
Untouched(e) ==
  /\ task[e] = "none" /\ todo[e] = <<>> /\ inbox[e] = <<>>
  /\ channel[e] = <<>> /\ pump[e] = "idle" /\ ~aborted[e]
  /\ \A i \in DOMAIN qt : qt[i].session # e

\* An epoch that is still to come, or that disconnect_server opened, has no session.
NoSessionYet ==
  /\ attached => epoch > 0
  /\ \A e \in Sessions : e > epoch \/ (e = epoch /\ ~attached) => Untouched(e)

IInv == TypeOK /\ NoSessionYet /\ DisconnectIsFinal /\ RowsOfOneSession

-----------------------------------------------------------------------------
LEMMA InitInv == Init => IInv
<1> SUFFICES ASSUME Init PROVE IInv
  OBVIOUS
<1>1. TypeOK
  <2>1. epoch \in 0..MaxEpoch /\ connectionState \in 0..2 /\ rows \subseteq Sessions
    BY BridgeAssumption DEF Init
  <2>2. attached \in BOOLEAN /\ aborted \in [Sessions -> BOOLEAN]
    BY DEF Init
  <2>3. /\ task \in [Sessions -> TaskStates] /\ todo \in [Sessions -> Seq(Events)]
        /\ inbox \in [Sessions -> Seq(Commands)]
        /\ channel \in [Sessions -> Seq(Events)]
        /\ pump \in [Sessions -> Events \cup {"idle"}] /\ qt \in Seq(Closures)
    BY DEF Init, TaskStates
  <2>4. \A e \in Sessions : Len(channel[e]) <= EventCapacity
    <3>1. \A e \in Sessions : channel[e] = <<>>
      BY DEF Init
    <3>2. Len(<<>>) = 0 /\ 0 <= EventCapacity
      BY BridgeAssumption
    <3> QED BY <3>1, <3>2
  <2> QED BY <2>1, <2>2, <2>3, <2>4 DEF TypeOK
<1>2. NoSessionYet
  BY DEF Init, NoSessionYet, Untouched
<1>3. DisconnectIsFinal /\ RowsOfOneSession
  BY DEF Init, DisconnectIsFinal, RowsOfOneSession
<1> QED BY <1>1, <1>2, <1>3 DEF IInv

-----------------------------------------------------------------------------
(* A step of a session's task or pump: it needs a session that was started,  *)
(* and leaves what the UI shows and every other session alone.               *)

\* Where the step of e may leave its session and the Qt queue.
SessionStep(e) ==
  /\ UNCHANGED <<ui, aborted>>
  /\ \A f \in Sessions \ {e} :
       /\ task'[f] = task[f] /\ todo'[f] = todo[f] /\ inbox'[f] = inbox[f]
       /\ channel'[f] = channel[f] /\ pump'[f] = pump[f]
  /\ \/ UNCHANGED qt
     \/ \E event \in Events \cup {"Failed"} :
          qt' = Append(qt, [session |-> e, event |-> event])

LEMMA SessionStepKeeps ==
  ASSUME IInv, NEW e \in Sessions, ~Untouched(e), SessionStep(e), TypeOK'
  PROVE  IInv'
<1>1. UNCHANGED <<epoch, attached, connectionState, rows>>
  BY DEF SessionStep, ui
<1>2. DisconnectIsFinal' /\ RowsOfOneSession'
  BY <1>1 DEF IInv, DisconnectIsFinal, RowsOfOneSession
<1>3. NoSessionYet'
  <2>1. ASSUME NEW f \in Sessions, f > epoch \/ (f = epoch /\ ~attached)
        PROVE  Untouched(f)'
    <3>1. Untouched(f)
      BY <2>1 DEF IInv, NoSessionYet
    <3>2. f # e
      BY <3>1
    <3>3. \A i \in DOMAIN qt' : qt'[i].session # f
      <4>1. CASE UNCHANGED qt
        BY <3>1, <4>1 DEF Untouched
      <4>2. ASSUME NEW event \in Events \cup {"Failed"},
                   qt' = Append(qt, [session |-> e, event |-> event])
            PROVE  \A i \in DOMAIN qt' : qt'[i].session # f
        <5>1. qt \in Seq(Closures) /\ [session |-> e, event |-> event] \in Closures
          BY DEF IInv, TypeOK, Closures
        <5>2. /\ Len(qt') = Len(qt) + 1 /\ DOMAIN qt' = 1..Len(qt') /\ DOMAIN qt = 1..Len(qt)
              /\ \A i \in 1..Len(qt) : qt'[i] = qt[i]
              /\ qt'[Len(qt) + 1] = [session |-> e, event |-> event]
          BY <4>2, <5>1, AppendProperties, LenProperties
        <5>3. Len(qt) \in Nat
          BY <5>1, LenProperties
        <5> QED BY <3>1, <3>2, <5>2, <5>3 DEF Untouched
      <4> QED BY <4>1, <4>2 DEF SessionStep
    <3> QED BY <3>1, <3>2, <3>3 DEF Untouched, SessionStep
  <2> QED BY <1>1, <2>1 DEF IInv, NoSessionYet
<1> QED BY <1>2, <1>3 DEF IInv

LEMMA ShortSequences ==
  /\ \A S : <<>> \in Seq(S)
  /\ \A S : \A a, b \in S : <<a>> \in Seq(S) /\ <<a, b>> \in Seq(S)
OBVIOUS

\* A move of the task, with events of the right type to send.
LEMMA MovesKeeps ==
  ASSUME IInv, NEW e \in Sessions, ~Untouched(e),
         NEW state \in TaskStates, NEW events \in Seq(Events), Moves(e, state, events),
         UNCHANGED <<ui, aborted, channel, pump>>,
         inbox' \in [Sessions -> Seq(Commands)],
         \A f \in Sessions \ {e} : inbox'[f] = inbox[f],
         qt' \in {qt, Append(qt, [session |-> e, event |-> "Failed"])}
  PROVE  IInv'
<1>1. TypeOK
  BY DEF IInv
<1>2. /\ task' \in [Sessions -> TaskStates] /\ todo' \in [Sessions -> Seq(Events)]
      /\ \A f \in Sessions \ {e} : task'[f] = task[f] /\ todo'[f] = todo[f]
  BY <1>1 DEF Moves, TypeOK
<1>3. qt' \in Seq(Closures)
  <2>1. [session |-> e, event |-> "Failed"] \in Closures
    BY DEF Closures
  <2>2. qt \in Seq(Closures)
    BY <1>1 DEF TypeOK
  <2>3. Append(qt, [session |-> e, event |-> "Failed"]) \in Seq(Closures)
    BY <2>1, <2>2, AppendProperties
  <2> QED BY <2>2, <2>3
<1>4. TypeOK'
  BY <1>1, <1>2, <1>3 DEF TypeOK, ui
<1>5. SessionStep(e)
  BY <1>2 DEF SessionStep
<1> QED BY <1>4, <1>5, SessionStepKeeps

LEMMA TaskStepKeeps == ASSUME IInv, NEW e \in Sessions, TaskStep(e) PROVE IInv'
<1>1. TypeOK
  BY DEF IInv
<1>2. inbox \in [Sessions -> Seq(Commands)]
  BY <1>1 DEF TypeOK
<1>3. /\ <<>> \in Seq(Events) /\ <<"Error", "Disconnected">> \in Seq(Events)
      /\ \A event \in Events : <<event>> \in Seq(Events)
  BY ShortSequences DEF Events
<1>4. {"Registered", "Disconnected", "Row", "Error"} \subseteq Events
  BY DEF Events
<1>5. {"live", "welcome", "closing", "failed", "unwritten", "ended", "lost", "cancelled"}
        \subseteq TaskStates
  BY DEF TaskStates
<1>6. CASE Connects(e) \/ ConnectFails(e) \/ HandshakeFails(e) \/ Welcomed(e) \/ Stops(e)
  BY <1>2, <1>3, <1>4, <1>5, <1>6, MovesKeeps
     DEF Connects, ConnectFails, HandshakeFails, Welcomed, Stops, Untouched
<1>7. CASE Hears(e)
  BY <1>2, <1>3, <1>4, <1>5, <1>7, MovesKeeps DEF Hears, Untouched
<1>8. CASE TakesCommand(e)
  <2>1. /\ inbox' \in [Sessions -> Seq(Commands)]
        /\ \A f \in Sessions \ {e} : inbox'[f] = inbox[f]
    <3>1. Tail(inbox[e]) \in Seq(Commands)
      BY <1>2, <1>8, HeadTailProperties DEF TakesCommand
    <3> QED BY <1>2, <1>8, <3>1 DEF TakesCommand
  <2>2. CASE Head(inbox[e]) = "QUIT"
    BY <1>3, <1>4, <1>5, <1>8, <2>1, <2>2, MovesKeeps DEF TakesCommand, Untouched
  <2>3. CASE Head(inbox[e]) # "QUIT"
    <3>1. UNCHANGED <<ui, task, todo, aborted, channel, pump, qt>>
      BY <1>8, <2>3 DEF TakesCommand
    <3>2. TypeOK'
      BY <1>1, <2>1, <3>1 DEF TypeOK, ui
    <3>3. SessionStep(e)
      BY <2>1, <3>1 DEF SessionStep
    <3>4. ~Untouched(e)
      BY <1>8 DEF TakesCommand, Untouched
    <3> QED BY <3>2, <3>3, <3>4, SessionStepKeeps
  <2> QED BY <2>2, <2>3
<1>9. CASE Sends(e)
  <2>1. Head(todo[e]) \in Events /\ Tail(todo[e]) \in Seq(Events)
    BY <1>1, <1>9, HeadTailProperties DEF Sends, TypeOK
  <2>2. Append(channel[e], Head(todo[e])) \in Seq(Events)
    BY <1>1, <2>1, AppendProperties DEF TypeOK
  <2>3. /\ channel' \in [Sessions -> Seq(Events)] /\ todo' \in [Sessions -> Seq(Events)]
        /\ \A f \in Sessions \ {e} : channel'[f] = channel[f] /\ todo'[f] = todo[f]
    BY <1>1, <1>9, <2>1, <2>2 DEF Sends, TypeOK
  <2>4. TypeOK'
    <3>1. Len(Append(channel[e], Head(todo[e]))) = Len(channel[e]) + 1
      BY <1>1, <2>1, AppendProperties DEF TypeOK
    <3>2. channel'[e] = Append(channel[e], Head(todo[e])) /\ Len(channel[e]) < EventCapacity
      BY <1>1, <1>9 DEF Sends, TypeOK
    <3>3. Len(channel[e]) \in Nat
      BY <1>1, LenProperties DEF TypeOK
    <3>4. Len(channel'[e]) <= EventCapacity
      BY <3>1, <3>2, <3>3, BridgeAssumption
    <3>5. \A f \in Sessions : Len(channel'[f]) <= EventCapacity
      BY <1>1, <2>3, <3>4 DEF TypeOK
    <3> QED BY <1>1, <1>9, <2>3, <3>5 DEF Sends, TypeOK, ui
  <2>5. SessionStep(e)
    BY <1>9, <2>3 DEF Sends, SessionStep
  <2>6. ~Untouched(e)
    BY <1>9 DEF Sends, Untouched
  <2> QED BY <2>4, <2>5, <2>6, SessionStepKeeps
<1>10. CASE Returns(e)
  <2>1. /\ ~Untouched(e) /\ (Moves(e, "ended", <<>>) \/ Moves(e, "lost", <<>>))
        /\ qt' \in {qt, Append(qt, [session |-> e, event |-> "Failed"])}
        /\ UNCHANGED <<ui, inbox, aborted, channel, pump>>
    BY <1>10 DEF Returns, Untouched
  <2> QED BY <1>2, <1>3, <1>5, <2>1, MovesKeeps
<1>11. CASE Cancelled(e)
  <2>1. ~Untouched(e)
    BY <1>11 DEF Cancelled, Untouched
  <2> QED BY <1>2, <1>3, <1>5, <1>11, <2>1, MovesKeeps DEF Cancelled
<1> QED BY <1>6, <1>7, <1>8, <1>9, <1>10, <1>11 DEF TaskStep

LEMMA PumpStepKeeps == ASSUME IInv, NEW e \in Sessions, PumpStep(e) PROVE IInv'
<1>1. TypeOK
  BY DEF IInv
<1>2. CASE PumpTakes(e)
  <2>1. Head(channel[e]) \in Events /\ Tail(channel[e]) \in Seq(Events)
    BY <1>1, <1>2, HeadTailProperties DEF PumpTakes, TypeOK
  <2>2. /\ pump' \in [Sessions -> Events \cup {"idle"}] /\ channel' \in [Sessions -> Seq(Events)]
        /\ \A f \in Sessions \ {e} : channel'[f] = channel[f] /\ pump'[f] = pump[f]
    BY <1>1, <1>2, <2>1 DEF PumpTakes, TypeOK
  <2>3. TypeOK'
    <3>1. Len(Tail(channel[e])) <= Len(channel[e])
      BY <1>1, <1>2, HeadTailProperties, LenProperties DEF PumpTakes, TypeOK
    <3>2. channel'[e] = Tail(channel[e]) /\ Len(channel[e]) <= EventCapacity
      BY <1>1, <1>2 DEF PumpTakes, TypeOK
    <3>3. Len(channel[e]) \in Nat /\ Len(Tail(channel[e])) \in Nat
      BY <1>1, <2>1, LenProperties DEF TypeOK
    <3>4. Len(channel'[e]) <= EventCapacity
      <4>1. EventCapacity \in Nat
        BY BridgeAssumption
      <4> QED BY <3>1, <3>2, <3>3, <4>1
    <3>5. \A f \in Sessions : Len(channel'[f]) <= EventCapacity
      BY <1>1, <2>2, <3>4 DEF TypeOK
    <3> QED BY <1>1, <1>2, <2>2, <3>5 DEF PumpTakes, TypeOK, ui, session
  <2>4. SessionStep(e)
    BY <1>2, <2>2 DEF PumpTakes, SessionStep, session
  <2>5. ~Untouched(e)
    BY <1>2 DEF PumpTakes, Untouched
  <2> QED BY <2>3, <2>4, <2>5, SessionStepKeeps
<1>3. CASE PumpQueues(e)
  <2>1. pump[e] \in Events
    BY <1>1, <1>3 DEF PumpQueues, TypeOK
  <2>2. qt \in Seq(Closures) /\ [session |-> e, event |-> pump[e]] \in Closures
    BY <1>1, <2>1 DEF TypeOK, Closures
  <2>3. qt' \in Seq(Closures)
    BY <1>3, <2>2, AppendProperties DEF PumpQueues
  <2>4. /\ pump' \in [Sessions -> Events \cup {"idle"}]
        /\ \A f \in Sessions \ {e} : pump'[f] = pump[f]
    BY <1>1, <1>3 DEF PumpQueues, TypeOK
  <2>5. TypeOK'
    BY <1>1, <1>3, <2>3, <2>4 DEF PumpQueues, TypeOK, ui, session
  <2>6. SessionStep(e)
    BY <1>3, <2>1, <2>4 DEF PumpQueues, SessionStep, session
  <2>7. ~Untouched(e)
    BY <1>3 DEF PumpQueues, Untouched
  <2> QED BY <2>5, <2>6, <2>7, SessionStepKeeps
<1> QED BY <1>2, <1>3 DEF PumpStep

-----------------------------------------------------------------------------
(* The Qt thread *)

\* The epoch test: a closure that is applied is one of the session in command.
LEMMA RunClosureKeeps == ASSUME IInv, RunClosure PROVE IInv'
<1>1. TypeOK /\ qt \in Seq(Closures) /\ qt # <<>>
  BY DEF IInv, TypeOK, RunClosure
<1>2. /\ Head(qt) \in Closures /\ qt' \in Seq(Closures)
      /\ \A i \in DOMAIN qt' : i + 1 \in DOMAIN qt /\ qt'[i] = qt[i + 1]
  BY <1>1, HeadTailProperties, LenProperties DEF RunClosure
<1>3. 1 \in DOMAIN qt /\ Head(qt) = qt[1]
  BY <1>1, LenProperties
<1>4. UNCHANGED <<epoch, attached, task, todo, inbox, aborted, channel, pump>>
  BY DEF RunClosure, session
<1>5. NoSessionYet'
  <2>1. ASSUME NEW f \in Sessions, Untouched(f)
        PROVE  Untouched(f)'
    BY <1>2, <1>4, <2>1 DEF Untouched
  <2> QED BY <1>4, <2>1 DEF IInv, NoSessionYet
<1>6. CASE Head(qt).session # epoch
  <2>1. UNCHANGED <<connectionState, rows>>
    BY <1>6 DEF RunClosure
  <2>2. TypeOK'
    BY <1>1, <1>2, <1>4, <2>1 DEF TypeOK
  <2> QED BY <1>4, <1>5, <2>1, <2>2 DEF IInv, DisconnectIsFinal, RowsOfOneSession
<1>7. CASE Head(qt).session = epoch
  <2>1. Apply(Head(qt)) /\ epoch \in Sessions
    BY <1>2, <1>7 DEF RunClosure, Closures
  <2>2. attached
    BY <1>3, <1>7, <2>1 DEF IInv, NoSessionYet, Untouched
  <2>3. connectionState' \in 0..2 /\ rows' \subseteq {epoch}
    <3>1. connectionState \in 0..2 /\ rows \subseteq {epoch}
      BY <1>1 DEF IInv, TypeOK, RowsOfOneSession
    <3>2. connectionState' \in {connectionState, 0, 1, 2}
      BY <2>1 DEF Apply
    <3>3. rows' \in {rows, rows \cup {epoch}, {epoch}}
      BY <1>7, <2>1 DEF Apply
    <3> QED BY <3>1, <3>2, <3>3
  <2>4. TypeOK'
    BY <1>1, <1>2, <1>4, <2>1, <2>3 DEF TypeOK
  <2> QED BY <1>4, <1>5, <2>2, <2>3, <2>4 DEF IInv, DisconnectIsFinal, RowsOfOneSession
<1> QED BY <1>6, <1>7

\* What try_send leaves in the command channels.
LEMMA TryCommandsTypes ==
  ASSUME IInv, NEW commands \in Seq(Commands), TryCommands(commands)
  PROVE  /\ inbox' \in [Sessions -> Seq(Commands)]
         /\ \A f \in Sessions : f > epoch => inbox'[f] = inbox[f]
<1>1. TypeOK /\ epoch \in Nat
  BY DEF IInv, TypeOK
<1> DEFINE room == CommandCapacity - Len(inbox[epoch])
           took == IF Len(commands) <= room THEN commands ELSE SubSeq(commands, 1, room)
<1>2. CASE attached /\ task[epoch] \notin Over
  <2>1. epoch \in Sessions
    BY <1>1, <1>2, BridgeAssumption DEF IInv, NoSessionYet, TypeOK, Sessions
  <2>2. inbox[epoch] \in Seq(Commands)
    BY <1>1, <2>1 DEF TypeOK
  <2>3. room \in Int
    BY <2>2, LenProperties, BridgeAssumption
  <2>4. Len(commands) \in Nat /\ \A i \in 1..Len(commands) : commands[i] \in Commands
    BY LenProperties, ElementOfSeq
  <2>5. took \in Seq(Commands)
    <3>1. CASE Len(commands) <= room
      BY <3>1
    <3>2. CASE ~(Len(commands) <= room)
      <4>1. \A i \in 1..room : commands[i] \in Commands
        BY <2>3, <2>4, <3>2
      <4> QED BY <2>3, <3>2, <4>1, SubSeqProperties
    <3> QED BY <3>1, <3>2
  <2>6. inbox[epoch] \o took \in Seq(Commands)
    BY <2>2, <2>5, ConcatProperties
  <2>7. inbox' = [inbox EXCEPT ![epoch] = inbox[epoch] \o took]
    BY <1>2 DEF TryCommands
  <2> QED BY <1>1, <2>1, <2>6, <2>7 DEF TypeOK
<1>3. CASE ~(attached /\ task[epoch] \notin Over)
  BY <1>1, <1>3 DEF TryCommands, TypeOK
<1> QED BY <1>2, <1>3

LEMMA UserStepKeeps == ASSUME IInv, UserStep PROVE IInv'
<1>1. /\ TypeOK /\ epoch \in Nat
      /\ \A e \in Sessions : e > epoch => Untouched(e)
  BY DEF IInv, TypeOK, NoSessionYet
<1>2. <<"COMMAND">> \in Seq(Commands) /\ <<>> \o <<"QUIT">> = <<"QUIT">>
        /\ <<"QUIT">> \in Seq(Commands)
        /\ <<"RAW QUIT">> \o <<"QUIT">> \in Seq(Commands)
  <2>1. <<"COMMAND">> \in Seq(Commands) /\ <<"RAW QUIT">> \in Seq(Commands)
          /\ <<"QUIT">> \in Seq(Commands)
    BY ShortSequences DEF Commands
  <2> QED BY <2>1, ConcatProperties, ConcatEmptySeq
<1>3. CASE EnqueueCommand
  <2>1. /\ inbox' \in [Sessions -> Seq(Commands)]
        /\ \A f \in Sessions : f > epoch => inbox'[f] = inbox[f]
    BY <1>2, <1>3, TryCommandsTypes DEF EnqueueCommand
  <2>2. UNCHANGED <<epoch, attached, connectionState, rows, task, todo, aborted, channel,
                    pump, qt>>  /\ attached
    BY <1>3 DEF EnqueueCommand, ui
  <2>3. TypeOK'
    BY <1>1, <2>1, <2>2 DEF TypeOK
  <2>4. NoSessionYet'
    BY <1>1, <2>1, <2>2 DEF IInv, NoSessionYet, Untouched
  <2> QED BY <2>2, <2>3, <2>4 DEF IInv, DisconnectIsFinal, RowsOfOneSession
<1>4. ASSUME NEW commands, ShutdownSession(commands), commands \in {<<>>, <<"RAW QUIT">>}
      PROVE  /\ inbox' \in [Sessions -> Seq(Commands)]
             /\ aborted' \in [Sessions -> BOOLEAN]
             /\ \A f \in Sessions : f > epoch => inbox'[f] = inbox[f] /\ aborted'[f] = aborted[f]
  <2>1. commands \o <<"QUIT">> \in Seq(Commands)
    BY <1>2, <1>4
  <2>2. /\ inbox' \in [Sessions -> Seq(Commands)]
        /\ \A f \in Sessions : f > epoch => inbox'[f] = inbox[f]
    BY <1>4, <2>1, TryCommandsTypes DEF ShutdownSession
  <2>3. /\ aborted' \in [Sessions -> BOOLEAN]
        /\ \A f \in Sessions : f > epoch => aborted'[f] = aborted[f]
    <3>1. aborted \in [Sessions -> BOOLEAN]
      BY <1>1 DEF TypeOK
    <3>2. aborted' \in {aborted, [aborted EXCEPT ![epoch] = TRUE]}
      BY <1>4 DEF ShutdownSession
    <3>3. \A f \in Sessions : f > epoch => f # epoch
      BY <1>1 DEF Sessions
    <3> QED BY <3>1, <3>2, <3>3
  <2> QED BY <2>2, <2>3
<1>5. CASE ConnectServer
  <2>1. /\ inbox' \in [Sessions -> Seq(Commands)]
        /\ aborted' \in [Sessions -> BOOLEAN]
        /\ \A f \in Sessions : f > epoch => inbox'[f] = inbox[f] /\ aborted'[f] = aborted[f]
    BY <1>4, <1>5 DEF ConnectServer
  <2>2. /\ epoch' = epoch + 1 /\ epoch' \in Sessions /\ attached' = TRUE
        /\ connectionState' = 1 /\ rows' = {} /\ UNCHANGED <<channel, pump, qt>>
        /\ Moves(epoch', "connecting", <<"Connecting">>)
    BY <1>1, <1>5, BridgeAssumption DEF ConnectServer, Sessions
  <2>3. /\ task' \in [Sessions -> TaskStates] /\ todo' \in [Sessions -> Seq(Events)]
        /\ \A f \in Sessions \ {epoch'} : task'[f] = task[f] /\ todo'[f] = todo[f]
    <3>1. <<"Connecting">> \in Seq(Events) /\ "connecting" \in TaskStates
      BY ShortSequences DEF Events, TaskStates
    <3> QED BY <1>1, <2>2, <3>1 DEF Moves, TypeOK
  <2>4. TypeOK'
    <3>1. epoch' \in 0..MaxEpoch /\ connectionState' \in 0..2
      BY <2>2, BridgeAssumption DEF Sessions
    <3>2. attached' \in BOOLEAN
      BY <2>2
    <3> QED BY <1>1, <2>1, <2>2, <2>3, <3>1, <3>2 DEF TypeOK
  <2>5. NoSessionYet'
    <3>1. attached' /\ epoch' > 0
      BY <1>1, <2>2
    <3>2. ASSUME NEW f \in Sessions, f > epoch'
          PROVE  Untouched(f)'
      <4>1. f > epoch /\ f # epoch'
        BY <1>1, <2>2, <3>2
      <4> QED BY <1>1, <2>1, <2>2, <2>3, <4>1 DEF Untouched
    <3> QED BY <3>1, <3>2 DEF NoSessionYet
  <2> QED BY <2>2, <2>4, <2>5 DEF IInv, DisconnectIsFinal, RowsOfOneSession
<1>6. CASE DisconnectServer
  <2>1. /\ inbox' \in [Sessions -> Seq(Commands)]
        /\ aborted' \in [Sessions -> BOOLEAN]
        /\ \A f \in Sessions : f > epoch => inbox'[f] = inbox[f] /\ aborted'[f] = aborted[f]
    BY <1>4, <1>6 DEF DisconnectServer
  <2>2. /\ epoch' = epoch + 1 /\ epoch' \in Sessions /\ attached' = FALSE
        /\ connectionState' = 0 /\ rows' = {} /\ UNCHANGED <<task, todo, channel, pump, qt>>
    <3>1. /\ epoch < MaxEpoch /\ epoch' = epoch + 1 /\ attached' = FALSE
          /\ connectionState' = 0 /\ rows' = {} /\ UNCHANGED <<task, todo, channel, pump, qt>>
      BY <1>6, ZenonT(20) DEF DisconnectServer
    <3>2. epoch' \in Sessions
      BY <1>1, <3>1, BridgeAssumption DEF Sessions
    <3> QED BY <3>1, <3>2
  <2>3. TypeOK'
    <3>1. epoch' \in 0..MaxEpoch /\ connectionState' \in 0..2
      BY <2>2, BridgeAssumption DEF Sessions
    <3>2. attached' \in BOOLEAN
      BY <2>2
    <3> QED BY <1>1, <2>1, <2>2, <3>1, <3>2 DEF TypeOK
  <2>4. NoSessionYet'
    <3>1. ASSUME NEW f \in Sessions, f >= epoch'
          PROVE  Untouched(f)'
      <4>1. f > epoch
        BY <1>1, <2>2, <3>1
      <4> QED BY <1>1, <2>1, <2>2, <4>1 DEF Untouched
    <3>2. ~attached' /\ epoch' \in Int
      BY <1>1, <2>2
    <3> QED BY <3>1, <3>2 DEF NoSessionYet, Sessions
  <2> QED BY <2>2, <2>3, <2>4 DEF IInv, DisconnectIsFinal, RowsOfOneSession
<1> QED BY <1>3, <1>5, <1>6 DEF UserStep

-----------------------------------------------------------------------------
\* IInv is an invariant of the bridge: an epoch that is to come, or that
\* disconnect_server opened, has no session whose closures could pass the test.
THEOREM Invariance == Spec => []IInv
<1>1. IInv /\ [Next]_vars => IInv'
  <2> SUFFICES ASSUME IInv, [Next]_vars PROVE IInv'
    OBVIOUS
  <2>1. CASE UserStep
    BY <2>1, UserStepKeeps
  <2>2. CASE RunClosure
    BY <2>2, RunClosureKeeps
  <2>3. CASE \E e \in Sessions : TaskStep(e) \/ PumpStep(e)
    BY <2>3, TaskStepKeeps, PumpStepKeeps
  <2>4. CASE UNCHANGED vars
    BY <2>4 DEF vars, ui, session, IInv, TypeOK, NoSessionYet, Untouched,
                DisconnectIsFinal, RowsOfOneSession
  <2> QED BY <2>1, <2>2, <2>3, <2>4 DEF Next
<1> QED BY <1>1, InitInv, PTL DEF Spec

\* No channel ever holds more than its capacity, and everything has its type.
THEOREM TypeCorrect == Spec => []TypeOK
<1>1. IInv => TypeOK
  BY DEF IInv
<1> QED BY <1>1, Invariance, PTL

\* disconnect_server has the final word.
THEOREM DisconnectIsFinalHolds == Spec => []DisconnectIsFinal
<1>1. IInv => DisconnectIsFinal
  BY DEF IInv
<1> QED BY <1>1, Invariance, PTL

\* No session's lines reach the buffers of another.
THEOREM RowsOfOneSessionHolds == Spec => []RowsOfOneSession
<1>1. IInv => RowsOfOneSession
  BY DEF IInv
<1> QED BY <1>1, Invariance, PTL

-----------------------------------------------------------------------------
(* The Qt queue *)

\* The places of the queue that hold a permit of e.
Held(q, e) == {i \in DOMAIN q : q[i].session = e /\ q[i].event # "Failed"}

\* A permit for every closure of the pump, and one Err closure of a task that is over.
Slots ==
  \A e \in Sessions :
    /\ Cardinality(Held(qt, e)) <= EventSlots
    /\ \A i, j \in DOMAIN qt :
         /\ qt[i].session = e /\ qt[i].event = "Failed"
         /\ qt[j].session = e /\ qt[j].event = "Failed"
         => i = j
    /\ \A i \in DOMAIN qt : qt[i].session = e /\ qt[i].event = "Failed" => task[e] \in Returned

LEMMA HeldFacts ==
  ASSUME NEW q \in Seq(Closures), NEW e
  PROVE  IsFiniteSet(Held(q, e)) /\ Cardinality(Held(q, e)) \in Nat /\ Held(q, e) \subseteq 1..Len(q)
<1>1. Len(q) \in Nat /\ DOMAIN q = 1..Len(q)
  BY LenProperties
<1>2. IsFiniteSet(1..Len(q))
  BY <1>1, FS_Interval
<1>3. Held(q, e) \subseteq 1..Len(q)
  BY <1>1 DEF Held
<1>4. IsFiniteSet(Held(q, e))
  BY <1>2, <1>3, FS_Subset
<1> QED BY <1>3, <1>4, FS_CardinalityType

\* A closure more takes a permit if it is the pump's.
LEMMA HeldAfterAppend ==
  ASSUME NEW q \in Seq(Closures), NEW c \in Closures, NEW e
  PROVE  Cardinality(Held(Append(q, c), e)) <=
           Cardinality(Held(q, e)) + (IF c.session = e /\ c.event # "Failed" THEN 1 ELSE 0)
<1>1. /\ Len(q) \in Nat /\ DOMAIN q = 1..Len(q)
      /\ Append(q, c) \in Seq(Closures) /\ Len(Append(q, c)) = Len(q) + 1
      /\ \A i \in 1..Len(q) : Append(q, c)[i] = q[i]
      /\ Append(q, c)[Len(q) + 1] = c
  BY LenProperties, AppendProperties
<1>2. DOMAIN Append(q, c) = 1..(Len(q) + 1)
  BY <1>1, LenProperties
<1>3. Held(Append(q, c), e) =
        IF c.session = e /\ c.event # "Failed" THEN Held(q, e) \cup {Len(q) + 1} ELSE Held(q, e)
  BY <1>1, <1>2 DEF Held
<1>4. IsFiniteSet(Held(q, e)) /\ Cardinality(Held(q, e)) \in Nat
  BY HeldFacts
<1>5. Cardinality(Held(q, e) \cup {Len(q) + 1}) <= Cardinality(Held(q, e)) + 1
  <2>1. Cardinality(Held(q, e) \cup {Len(q) + 1}) =
          IF Len(q) + 1 \in Held(q, e) THEN Cardinality(Held(q, e)) ELSE Cardinality(Held(q, e)) + 1
    BY <1>4, FS_AddElement
  <2> QED BY <1>4, <2>1
<1>6. CASE c.session = e /\ c.event # "Failed"
  <2>1. Held(Append(q, c), e) = Held(q, e) \cup {Len(q) + 1}
    BY <1>3, <1>6
  <2> QED BY <1>5, <1>6, <2>1
<1>7. CASE ~(c.session = e /\ c.event # "Failed")
  <2>1. Held(Append(q, c), e) = Held(q, e)
    BY <1>3, <1>7
  <2> QED BY <1>4, <1>7, <2>1
<1> QED BY <1>6, <1>7

\* A closure that runs gives its permit back and takes none.
LEMMA HeldAfterTail ==
  ASSUME NEW q \in Seq(Closures), q # <<>>, NEW e
  PROVE  Cardinality(Held(Tail(q), e)) <= Cardinality(Held(q, e))
<1> DEFINE f == [i \in Held(Tail(q), e) |-> i + 1]
<1>1. /\ Len(q) \in Nat /\ DOMAIN q = 1..Len(q)
      /\ Tail(q) \in Seq(Closures) /\ Len(Tail(q)) = Len(q) - 1
      /\ \A i \in 1..Len(Tail(q)) : Tail(q)[i] = q[i + 1]
  BY LenProperties, HeadTailProperties
<1>2. DOMAIN Tail(q) = 1..(Len(q) - 1)
  BY <1>1, LenProperties
<1>3. \A i \in Held(Tail(q), e) : i \in Nat /\ i + 1 \in Held(q, e)
  BY <1>1, <1>2 DEF Held
<1>4. f \in Injection(Held(Tail(q), e), Held(q, e))
  BY <1>3 DEF Injection, IsInjective
<1>5. IsFiniteSet(Held(q, e))
  BY HeldFacts
<1> QED BY <1>4, <1>5, FS_Injection

\* A task that has returned takes no step.
LEMMA EndedIsStill ==
  ASSUME IInv, NEW e \in Sessions, task[e] \in Returned, [Next]_vars
  PROVE  task'[e] \in Returned
<1>1. task \in [Sessions -> TaskStates] /\ epoch \in Nat
  BY DEF IInv, TypeOK
<1>2. ASSUME NEW f \in Sessions, TaskStep(f)
      PROVE  task'[e] \in Returned
  <2>1. f # e
    BY <1>2 DEF TaskStep, Connects, ConnectFails, HandshakeFails, Welcomed, Hears, TakesCommand,
                Stops, Sends, Returns, Cancelled, Ready, Over, Returned
  <2>2. UNCHANGED task \/ \E state \in TaskStates, events \in Seq(Events) : Moves(f, state, events)
    BY <1>2, ShortSequences
       DEF TaskStep, Connects, ConnectFails, HandshakeFails, Welcomed, Hears, TakesCommand,
           Stops, Sends, Returns, Cancelled, TaskStates, Events
  <2> QED BY <1>1, <2>1, <2>2 DEF Moves
<1>3. ASSUME NEW f \in Sessions, PumpStep(f)
      PROVE  task'[e] \in Returned
  BY <1>3 DEF PumpStep, PumpTakes, PumpQueues, session
<1>4. CASE ConnectServer
  <2>1. Moves(epoch + 1, "connecting", <<"Connecting">>)
    BY <1>4 DEF ConnectServer
  <2>2. e # epoch + 1
    BY <1>1 DEF IInv, NoSessionYet, Untouched, Returned
  <2> QED BY <1>1, <2>1, <2>2 DEF Moves
<1>5. CASE EnqueueCommand \/ DisconnectServer \/ RunClosure \/ UNCHANGED vars
  BY <1>5 DEF EnqueueCommand, DisconnectServer, RunClosure, vars, session
<1> QED BY <1>2, <1>3, <1>4, <1>5 DEF Next, UserStep

LEMMA SlotsStep == ASSUME IInv, Slots, [Next]_vars PROVE Slots'
<1>1. qt \in Seq(Closures) /\ task \in [Sessions -> TaskStates] /\ EventSlots \in Nat
  BY BridgeAssumption DEF IInv, TypeOK
<1>2. CASE UNCHANGED qt
  BY <1>2, EndedIsStill DEF Slots
<1>3. ASSUME NEW f \in Sessions, PumpQueues(f)
      PROVE  Slots'
  <2> DEFINE c == [session |-> f, event |-> pump[f]]
  <2>1. c \in Closures
    BY <1>3 DEF IInv, TypeOK, PumpQueues, Closures
  <2>2. pump[f] # "Failed"
    BY <1>3 DEF IInv, TypeOK, PumpQueues, Events
  <2>3. qt' = Append(qt, c) /\ Cardinality(Held(qt, f)) < EventSlots
    BY <1>3 DEF PumpQueues, Permits, Held
  <2>4. ASSUME NEW e \in Sessions
        PROVE  Cardinality(Held(qt', e)) <= EventSlots
    <3>1. Cardinality(Held(qt', e)) <= Cardinality(Held(qt, e)) + (IF f = e /\ c.event # "Failed" THEN 1 ELSE 0)
      BY <1>1, <2>1, <2>3, HeldAfterAppend
    <3>2. Cardinality(Held(qt, e)) \in Nat /\ Cardinality(Held(qt, e)) <= EventSlots
      BY <1>1, HeldFacts DEF Slots
    <3>3. Cardinality(Held(qt', e)) \in Nat
      <4>1. qt' \in Seq(Closures)
        BY <1>1, <2>1, <2>3, AppendProperties
      <4> QED BY <4>1, HeldFacts
    <3> QED BY <1>1, <2>3, <3>1, <3>2, <3>3
  <2>5. /\ Len(qt) \in Nat /\ DOMAIN qt = 1..Len(qt) /\ DOMAIN qt' = 1..(Len(qt) + 1)
        /\ \A i \in 1..Len(qt) : qt'[i] = qt[i]
        /\ qt'[Len(qt) + 1].event # "Failed"
    BY <1>1, <2>1, <2>2, <2>3, AppendProperties, LenProperties
  <2>6. \A e \in Sessions : task[e] \in Returned => task'[e] \in Returned
    BY EndedIsStill
  <2>7. \A i \in DOMAIN qt' : qt'[i].event = "Failed" => i \in DOMAIN qt /\ qt'[i] = qt[i]
    BY <2>5
  <2> QED BY <2>4, <2>6, <2>7 DEF Slots
<1>4. ASSUME NEW f \in Sessions, Returns(f), ~UNCHANGED qt
      PROVE  Slots'
  <2> DEFINE c == [session |-> f, event |-> "Failed"]
  <2>1. c \in Closures
    BY DEF Closures
  <2>2. qt' = Append(qt, c) /\ task[f] \notin Returned /\ task'[f] \in Returned
    BY <1>1, <1>4 DEF Returns, Moves, Returned
  <2>3. ASSUME NEW e \in Sessions
        PROVE  Cardinality(Held(qt', e)) <= EventSlots
    <3>1. Cardinality(Held(qt', e)) <= Cardinality(Held(qt, e)) + 0
      BY <1>1, <2>1, <2>2, HeldAfterAppend
    <3>2. Cardinality(Held(qt, e)) \in Nat /\ Cardinality(Held(qt, e)) <= EventSlots
      BY <1>1, HeldFacts DEF Slots
    <3>3. Cardinality(Held(qt', e)) \in Nat
      <4>1. qt' \in Seq(Closures)
        BY <1>1, <2>1, <2>2, AppendProperties
      <4> QED BY <4>1, HeldFacts
    <3> QED BY <1>1, <3>1, <3>2, <3>3
  <2>4. /\ Len(qt) \in Nat /\ DOMAIN qt = 1..Len(qt) /\ DOMAIN qt' = 1..(Len(qt) + 1)
        /\ \A i \in 1..Len(qt) : qt'[i] = qt[i]
        /\ qt'[Len(qt) + 1].session = f
    BY <1>1, <2>1, <2>2, AppendProperties, LenProperties
  <2>5. \A e \in Sessions : task[e] \in Returned => task'[e] \in Returned
    BY EndedIsStill
  <2>6. ~\E i \in DOMAIN qt : qt[i].session = f /\ qt[i].event = "Failed"
    BY <2>2 DEF Slots
  <2>7. \A i \in DOMAIN qt' : (i \in DOMAIN qt /\ qt'[i] = qt[i]) \/ i = Len(qt) + 1
    BY <2>4
  <2> QED BY <2>2, <2>3, <2>4, <2>5, <2>6, <2>7 DEF Slots
<1>5. CASE RunClosure
  <2>1. qt # <<>> /\ qt' = Tail(qt) /\ UNCHANGED task
    BY <1>5 DEF RunClosure, session
  <2>2. ASSUME NEW e \in Sessions
        PROVE  Cardinality(Held(qt', e)) <= EventSlots
    <3>1. Cardinality(Held(qt', e)) <= Cardinality(Held(qt, e)) /\ Cardinality(Held(qt, e)) <= EventSlots
      BY <1>1, <2>1, HeldAfterTail DEF Slots
    <3>2. qt' \in Seq(Closures)
      BY <1>1, <2>1, HeadTailProperties
    <3>3. Cardinality(Held(qt', e)) \in Nat /\ Cardinality(Held(qt, e)) \in Nat
      BY <1>1, <3>2, HeldFacts
    <3> QED BY <1>1, <3>1, <3>3
  <2>3. \A i \in DOMAIN qt' : i \in Nat /\ i + 1 \in DOMAIN qt /\ qt'[i] = qt[i + 1]
    BY <1>1, <2>1, HeadTailProperties, LenProperties
  <2>4. ASSUME NEW e \in Sessions, NEW i \in DOMAIN qt', NEW j \in DOMAIN qt',
               qt'[i].session = e, qt'[i].event = "Failed",
               qt'[j].session = e, qt'[j].event = "Failed"
        PROVE  i = j
    <3>1. i + 1 = j + 1
      BY <2>3, <2>4 DEF Slots
    <3> QED BY <2>3, <3>1
  <2> QED BY <2>1, <2>2, <2>3, <2>4 DEF Slots
<1>6. ASSUME ~UNCHANGED qt
      PROVE  RunClosure \/ \E f \in Sessions : PumpQueues(f) \/ Returns(f)
  <2>1. ASSUME NEW f \in Sessions, TaskStep(f)
        PROVE  Returns(f) \/ UNCHANGED qt
    BY <2>1 DEF TaskStep, Connects, ConnectFails, HandshakeFails, Welcomed, Hears, TakesCommand,
                Stops, Sends, Cancelled
  <2>2. ASSUME NEW f \in Sessions, PumpStep(f)
        PROVE  PumpQueues(f) \/ UNCHANGED qt
    BY <2>2 DEF PumpStep, PumpTakes
  <2>3. UserStep \/ UNCHANGED vars => UNCHANGED qt
    BY DEF UserStep, EnqueueCommand, ConnectServer, DisconnectServer, vars
  <2> QED BY <1>6, <2>1, <2>2, <2>3 DEF Next
<1> QED BY <1>2, <1>3, <1>4, <1>5, <1>6

\* The permits bound the Qt queue: each session has at most EventSlots closures of its
\* pump and one of its task in it (Semaphore of connect_server).
THEOREM QtQueueIsBoundedHolds == Spec => []QtQueueIsBounded
<1>1. Init => Slots
  <2> SUFFICES ASSUME Init PROVE Slots
    OBVIOUS
  <2>1. qt = <<>> /\ DOMAIN qt = {}
    BY DEF Init
  <2>2. \A e : Held(qt, e) = {}
    BY <2>1 DEF Held
  <2> QED BY <2>1, <2>2, FS_EmptySet, BridgeAssumption DEF Slots
<1>2. IInv /\ Slots => QtQueueIsBounded
  <2> SUFFICES ASSUME IInv, Slots, NEW e \in Sessions
               PROVE  Cardinality({i \in DOMAIN qt : qt[i].session = e}) <= EventSlots + 1
    BY DEF QtQueueIsBounded
  <2> DEFINE failed == {i \in DOMAIN qt : qt[i].session = e /\ qt[i].event = "Failed"}
  <2>1. {i \in DOMAIN qt : qt[i].session = e} = Held(qt, e) \cup failed
    BY DEF Held
  <2>2. /\ qt \in Seq(Closures) /\ EventSlots \in Nat
        /\ IsFiniteSet(Held(qt, e)) /\ Cardinality(Held(qt, e)) \in Nat
        /\ Cardinality(Held(qt, e)) <= EventSlots
    BY HeldFacts, BridgeAssumption DEF IInv, TypeOK, Slots
  <2>3. \A x, y \in failed : x = y
    BY DEF Slots
  <2> DEFINE held == Held(qt, e)
  <2>6. /\ IsFiniteSet(held) /\ Cardinality(held) \in Nat /\ Cardinality(held) <= EventSlots
        /\ EventSlots \in Nat
    BY <2>2
  <2> HIDE DEF failed, held
  <2>4. CASE failed = {}
    <3>1. {i \in DOMAIN qt : qt[i].session = e} = held
      BY <2>1, <2>4 DEF held
    <3> QED BY <2>6, <3>1
  <2>5. CASE failed # {}
    <3>1. PICK x : failed = {x}
      BY <2>3, <2>5
    <3>2. /\ IsFiniteSet(held \cup {x})
          /\ Cardinality(held \cup {x}) = IF x \in held THEN Cardinality(held) ELSE Cardinality(held) + 1
      BY <2>6, FS_AddElement
    <3>3. Cardinality(held \cup {x}) <= EventSlots + 1
      BY <2>6, <3>2
    <3> QED BY <2>1, <3>1, <3>3 DEF held
  <2> QED BY <2>4, <2>5
<1>3. IInv /\ Slots /\ [Next]_vars => Slots'
  BY SlotsStep
<1> QED BY <1>1, <1>2, <1>3, Invariance, PTL DEF Spec
=============================================================================
