------------------------- MODULE KircReconnectProofs -------------------------
(***************************************************************************)
(* Proofs about KircReconnect, for any settings the user may have.         *)
(***************************************************************************)
EXTENDS KircReconnect, SequenceTheorems, TLAPS

\* What is queued fits the session: StateConnecting comes first and long before the
\* welcome is shown, nothing has ended what is not over, and nothing follows an end.
QueueFits ==
  /\ \A i \in 2..Len(events) : events[i] # "Connecting"
  /\ connectionState = 2 => \A i \in 1..Len(events) : events[i] # "Connecting"
  /\ session \in {"connecting", "live"} =>
       ~failed /\ \A i \in 1..Len(events) : events[i] # "Disconnected"
  /\ session = "none" => ~failed /\ events = <<>>

\* Of a session the server refused, the Disconnected comes last, and by then the
\* window knows that it was for the password.
RefusalIsKnown ==
  session = "refused" =>
    /\ ~failed
    /\ \A i \in 1..(Len(events) - 1) : events[i] # "Disconnected"
    /\ Len(events) = 1 => lastDropWasAuthFailure
    /\ Len(events) > 1 => events[Len(events) - 1] = "AuthError"

\* The timer that started a session is not running again while that session may
\* still be refused, nor afterwards.
TimerIsSpent ==
  /\ startedBy = "timer" /\ session \in {"connecting", "live"} => ~reconnectTimer
  /\ startedBy = "timer" /\ session = "refused" /\ ~prefs.reconnectAfterAuthFailure
       => ~reconnectTimer
  /\ retryRefused /\ ~prefs.reconnectAfterAuthFailure
       => /\ ~reconnectTimer /\ connectionState = 0
          /\ session \in {"none", "refused"} /\ events = <<>> /\ ~failed

Left == request = "leave" => userDisconnect /\ session = "none" /\ connectionState = 0

IdentifyingPage == chat.identifying => "chat" \in pages

\* For OncePerConnection.  The welcome of a session is still to come.
Queues(e) == \E i \in 1..Len(events) : events[i] = e
Welcoming == session = "connecting" \/ Queues("Registered")

\* A session is welcomed once, and nothing was said to it before that.
WelcomedOnce ==
  /\ Welcoming => said = Silence /\ connectionState # 2
  /\ session = "connecting" => ~Queues("Registered")
  /\ \A i, j \in 1..Len(events) :
       events[i] = "Registered" /\ events[j] = "Registered" => i = j
  /\ session = "live" => connectionState = 2 \/ Queues("Registered")
  /\ failed => ~Queues("Registered")

\* NickServ's answer comes to a session that was welcomed and is not over.
ConfirmedInTime ==
  /\ Queues("Confirmed") => connectionState = 2 /\ ~Welcoming /\ ~failed
  /\ \A i \in 1..Len(events) : events[i] = "Confirmed" => i = 1

\* What was said is what the flags of the page say, as long as it matters.
FlagsCount ==
  connectionState = 2 =>
    /\ said.autojoins > 0 => "chat" \in pages /\ chat.autojoinDone
    /\ said.ghosts > 0 => "chat" \in pages /\ chat.ghostDone

Once == WelcomedOnce /\ ConfirmedInTime /\ FlagsCount /\ OncePerConnection

\* TypeOK in two parts, for two provers.
Flags ==
  /\ userDisconnect \in BOOLEAN /\ lastDropWasAuthFailure \in BOOLEAN
  /\ reconnectTimer \in BOOLEAN /\ lastHost \in BOOLEAN /\ failed \in BOOLEAN
  /\ retryRefused \in BOOLEAN
  /\ chat \in [autojoinDone : BOOLEAN, ghostDone : BOOLEAN, identifying : BOOLEAN]
  /\ said \in [identified : BOOLEAN, autojoins : Nat, ghosts : Nat]

Rest ==
  /\ prefs \in Prefs
  /\ reconnectAttempt \in Nat
  /\ reconnectAttempt <= IF prefs.reconnectLimit = 0 THEN SteadyAttempt ELSE prefs.reconnectLimit
  /\ pages \subseteq {"chat", "settings"} /\ connectionState \in 0..2
  /\ session \in Sessions /\ events \in Seq(Events)
  /\ request \in {"none", "connect", "leave", "trayLeave"}
  /\ startedBy \in {"user", "timer"}

IInv == /\ TypeOK /\ QueueFits /\ RefusalIsKnown /\ TimerIsSpent
        /\ Left /\ IdentifyingPage /\ TimersMatchState

-----------------------------------------------------------------------------
LEMMA TypeParts == TypeOK <=> Flags /\ Rest
BY DEF TypeOK, Flags, Rest

LEMMA TypePartsNext == TypeOK' <=> Flags' /\ Rest'
BY DEF TypeOK, Flags, Rest

LEMMA InitInv == Init => IInv
<1> SUFFICES ASSUME Init PROVE IInv
  OBVIOUS
<1>1. TypeOK
  <2>1. events \in Seq(Events) /\ prefs.reconnectLimit \in Nat
    BY PrefsAssumption DEF Init
  <2>2. Rest
    BY <2>1 DEF Init, Rest, Sessions, SteadyAttempt
  <2>3. Flags
    BY DEF Init, Flags, NewPage, Silence
  <2> QED BY <2>2, <2>3, TypeParts
<1>2. QueueFits /\ RefusalIsKnown
  BY DEF Init, QueueFits, RefusalIsKnown
<1>3. TimerIsSpent /\ Left /\ IdentifyingPage /\ TimersMatchState
  BY DEF Init, TimerIsSpent, Left, IdentifyingPage, TimersMatchState, NewPage
<1> QED BY <1>1, <1>2, <1>3 DEF IInv

-----------------------------------------------------------------------------
(* What the parts of a step do *)

\* Delivering the head of the queue shifts the rest by one.
LEMMA Delivered ==
  ASSUME events \in Seq(Events), events # <<>>, events' = Tail(events)
  PROVE  /\ events' \in Seq(Events)
         /\ Len(events) \in Nat \ {0} /\ Len(events') = Len(events) - 1
         /\ Head(events) = events[1]
         /\ \A i \in 1..Len(events') : events'[i] = events[i + 1]
OBVIOUS

\* What the window and the chat page make of state_changed(0).
LEMMA StateDisconnectedResult ==
  ASSUME TypeOK, NEW leaving \in BOOLEAN, NEW ticking \in BOOLEAN,
         StateDisconnected(leaving, ticking), UNCHANGED prefs
  PROVE  /\ connectionState' = 0 /\ ~chat'.identifying
         /\ chat' \in [autojoinDone : BOOLEAN, ghostDone : BOOLEAN, identifying : BOOLEAN]
         /\ lastDropWasAuthFailure' \in BOOLEAN /\ reconnectTimer' \in BOOLEAN
         /\ pages' \subseteq {"chat", "settings"}
         /\ reconnectAttempt' \in Nat
         /\ reconnectAttempt' <= IF prefs'.reconnectLimit = 0 THEN SteadyAttempt
                                                             ELSE prefs'.reconnectLimit
         /\ leaving => reconnectTimer' = ticking
         /\ lastDropWasAuthFailure /\ ~prefs.reconnectAfterAuthFailure
              => reconnectTimer' = ticking
<1>1. prefs.reconnectLimit \in Nat
  BY PrefsAssumption DEF TypeOK
<1>2. /\ reconnectAttempt' \in Nat
      /\ reconnectAttempt' <= IF prefs'.reconnectLimit = 0 THEN SteadyAttempt
                                                          ELSE prefs'.reconnectLimit
  BY <1>1 DEF StateDisconnected, CountAttempt, TypeOK, SteadyAttempt
<1>3. pages' \subseteq {"chat", "settings"}
  BY DEF StateDisconnected, Pop, TypeOK
<1> QED BY <1>2, <1>3 DEF StateDisconnected, NewPage, TypeOK

\* What the chat page has said and set is typed whatever it does.
LEMMA ApplyAutojoinResult ==
  ASSUME NEW c \in [autojoinDone : BOOLEAN, ghostDone : BOOLEAN, identifying : BOOLEAN],
         NEW s \in [identified : BOOLEAN, autojoins : Nat, ghosts : Nat],
         ApplyAutojoin(c, s)
  PROVE  /\ chat' \in [autojoinDone : BOOLEAN, ghostDone : BOOLEAN, identifying : BOOLEAN]
         /\ said' \in [identified : BOOLEAN, autojoins : Nat, ghosts : Nat]
         /\ chat'.identifying = c.identifying
<1>1. /\ chat' \in [autojoinDone : BOOLEAN, ghostDone : BOOLEAN, identifying : BOOLEAN]
      /\ chat'.identifying = c.identifying
  BY DEF ApplyAutojoin
<1>2. said' = s \/ said' = [s EXCEPT !.autojoins = @ + 1]
  BY DEF ApplyAutojoin
<1>3. [s EXCEPT !.autojoins = @ + 1] \in [identified : BOOLEAN, autojoins : Nat, ghosts : Nat]
  OBVIOUS
<1> QED BY <1>1, <1>2, <1>3

LEMMA StateConnectedResult ==
  ASSUME TypeOK, StateConnected
  PROVE  /\ connectionState' = 2 /\ ~reconnectTimer'
         /\ reconnectAttempt' = 0 /\ lastDropWasAuthFailure' = FALSE
         /\ chat' \in [autojoinDone : BOOLEAN, ghostDone : BOOLEAN, identifying : BOOLEAN]
         /\ said' \in [identified : BOOLEAN, autojoins : Nat, ghosts : Nat]
         /\ pages' \subseteq {"chat", "settings"}
         /\ IdentifyingPage => IdentifyingPage'
<1>1. pages' \subseteq {"chat", "settings"} /\ pages' # {} /\ pages \subseteq pages'
  BY DEF StateConnected, OpenChat, TypeOK
<1>2. CASE "chat" \notin pages
  BY <1>1, <1>2 DEF StateConnected, TypeOK, IdentifyingPage
<1>3. CASE "chat" \in pages
  <2> DEFINE c == [chat EXCEPT !.autojoinDone = FALSE, !.ghostDone = FALSE]
  <2>1. c \in [autojoinDone : BOOLEAN, ghostDone : BOOLEAN, identifying : BOOLEAN]
    BY DEF TypeOK
  <2>2. CASE prefs.identifyOnConnect
    <3>1. /\ connectionState' = 2 /\ reconnectAttempt' = 0
          /\ reconnectTimer' = FALSE /\ lastDropWasAuthFailure' = FALSE
          /\ chat' = [c EXCEPT !.identifying = TRUE]
          /\ said' = [said EXCEPT !.identified = TRUE]
      BY <1>3, <2>2 DEF StateConnected, StartIdentifyAndJoin
    <3>2. chat' \in [autojoinDone : BOOLEAN, ghostDone : BOOLEAN, identifying : BOOLEAN]
      BY <2>1, <3>1
    <3>3. said' \in [identified : BOOLEAN, autojoins : Nat, ghosts : Nat]
      BY <3>1 DEF TypeOK
    <3> QED BY <1>1, <1>3, <3>1, <3>2, <3>3 DEF IdentifyingPage
  <2>3. CASE ~prefs.identifyOnConnect
    <3>1. ApplyAutojoin(c, said)
      BY <1>3, <2>3 DEF StateConnected, StartIdentifyAndJoin
    <3> QED BY <1>1, <1>3, <2>1, <3>1, ApplyAutojoinResult DEF StateConnected, TypeOK, IdentifyingPage
  <2> QED BY <2>2, <2>3
<1> QED BY <1>2, <1>3

-----------------------------------------------------------------------------
(* What the bridge delivers *)

LEMMA DeliverKeeps == IInv /\ Deliver => IInv'
<1> SUFFICES ASSUME IInv, Deliver PROVE IInv'
  OBVIOUS
<1> USE DEF IInv
<1>1. events # <<>> /\ events' = Tail(events)
  BY DEF Deliver, DeliverConnecting, DeliverRegistered, DeliverAuthError,
         DeliverConfirmed, DeliverDisconnected
<1>2. /\ events' \in Seq(Events)
      /\ Len(events) \in Nat \ {0} /\ Len(events') = Len(events) - 1
      /\ Head(events) = events[1]
      /\ \A i \in 1..Len(events') : events'[i] = events[i + 1]
  BY <1>1, Delivered DEF TypeOK
<1>3. session' = session /\ failed' = failed /\ prefs' = prefs /\ startedBy' = startedBy
  BY DEF Deliver, DeliverConnecting, DeliverRegistered, DeliverAuthError,
         DeliverConfirmed, DeliverDisconnected, link, history
<1>4. session # "none" /\ request # "leave"
  BY <1>1 DEF QueueFits, Left
<1>5. \A i \in 1..Len(events') : events'[i] # "Connecting"
  BY <1>2 DEF QueueFits
<1>6. QueueFits'
  BY <1>2, <1>3, <1>4, <1>5 DEF QueueFits
<1>7. ~(retryRefused /\ ~prefs.reconnectAfterAuthFailure)
  BY <1>1 DEF TimerIsSpent
<1>8. session = "refused" /\ Len(events') = 1 => Head(events) = "AuthError"
  <2> HIDE DEF IInv
  <2> DEFINE m == Len(events) n == Len(events')
  <2>0. m \in Nat \ {0} /\ n = m - 1
    BY <1>2
  <2>1. n = 1 => m > 1 /\ m - 1 = 1
    <3> HIDE DEF m, n
    <3> QED BY <2>0
  <2>2. session = "refused" /\ Len(events) > 1 => events[Len(events) - 1] = "AuthError"
    BY DEF RefusalIsKnown, IInv
  <2> QED BY <1>2, <2>1, <2>2
<1>9. ASSUME lastDropWasAuthFailure => lastDropWasAuthFailure' \/ Len(events) = 1,
             Head(events) = "AuthError" => lastDropWasAuthFailure'
      PROVE  RefusalIsKnown'
  <2> SUFFICES ASSUME session = "refused"
               PROVE  /\ ~failed'
                      /\ \A i \in 1..(Len(events') - 1) : events'[i] # "Disconnected"
                      /\ Len(events') = 1 => lastDropWasAuthFailure'
                      /\ Len(events') > 1 => events'[Len(events') - 1] = "AuthError"
    BY <1>3 DEF RefusalIsKnown
  <2> QED BY <1>2, <1>3, <1>8, <1>9 DEF RefusalIsKnown
<1>10. CASE DeliverConnecting
  <2>1. connectionState # 2
    BY <1>2, <1>10 DEF DeliverConnecting, QueueFits
  <2>2. TypeOK'
    BY <1>2, <1>10 DEF DeliverConnecting, TypeOK, window, history
  <2>3. RefusalIsKnown'
    BY <1>9, <1>10 DEF DeliverConnecting, window
  <2>4. TimerIsSpent' /\ Left' /\ IdentifyingPage' /\ TimersMatchState'
    BY <1>4, <1>7, <1>10, <2>1 DEF DeliverConnecting, window, history, TimerIsSpent, Left,
       IdentifyingPage, TimersMatchState
  <2> QED BY <1>6, <2>2, <2>3, <2>4
<1>11. CASE DeliverRegistered
  <2>1. StateConnected /\ session' = session /\ request' = request /\ retryRefused' = retryRefused
        /\ userDisconnect' = userDisconnect /\ lastHost' = lastHost
    BY <1>11 DEF DeliverRegistered
  <2>2. /\ connectionState' = 2 /\ ~reconnectTimer' /\ reconnectTimer' = FALSE
        /\ reconnectAttempt' = 0 /\ lastDropWasAuthFailure' = FALSE
        /\ chat' \in [autojoinDone : BOOLEAN, ghostDone : BOOLEAN, identifying : BOOLEAN]
        /\ said' \in [identified : BOOLEAN, autojoins : Nat, ghosts : Nat]
        /\ pages' \subseteq {"chat", "settings"}
        /\ IdentifyingPage'
    BY <2>1, StateConnectedResult DEF StateConnected
  <2>3. TypeOK'
    <3>1. prefs.reconnectLimit \in Nat
      BY PrefsAssumption DEF TypeOK
    <3>2. Rest'
      BY <1>2, <1>3, <2>1, <2>2, <3>1 DEF TypeOK, Rest, SteadyAttempt
    <3>3. Flags'
      BY <1>3, <2>1, <2>2 DEF TypeOK, Flags
    <3> QED BY <3>2, <3>3, TypePartsNext
  <2>4. session # "refused" \/ Len(events) > 1 \/ Len(events') = 0
    BY <1>2
  <2>5. RefusalIsKnown'
    BY <1>2, <1>3, <1>8, <1>11, <2>2 DEF RefusalIsKnown, DeliverRegistered
  <2>6. TimerIsSpent' /\ Left' /\ TimersMatchState'
    BY <1>3, <1>4, <1>7, <2>1, <2>2 DEF TimerIsSpent, Left, TimersMatchState
  <2> QED BY <1>6, <2>2, <2>3, <2>5, <2>6
<1>12. CASE DeliverAuthError
  <2>1. TypeOK'
    BY <1>2, <1>12 DEF DeliverAuthError, TypeOK, history
  <2>2. RefusalIsKnown'
    BY <1>9, <1>12 DEF DeliverAuthError
  <2>3. TimerIsSpent' /\ Left' /\ IdentifyingPage' /\ TimersMatchState'
    BY <1>4, <1>7, <1>12 DEF DeliverAuthError, history, TimerIsSpent, Left, IdentifyingPage,
       TimersMatchState
  <2> QED BY <1>6, <2>1, <2>2, <2>3
<1>13. CASE DeliverConfirmed
  <2>1. /\ chat' \in [autojoinDone : BOOLEAN, ghostDone : BOOLEAN, identifying : BOOLEAN]
        /\ said' \in [identified : BOOLEAN, autojoins : Nat, ghosts : Nat]
        /\ chat'.identifying => chat.identifying
    <3>1. CASE "chat" \notin pages
      BY <1>13, <3>1 DEF DeliverConfirmed, TypeOK
    <3>2. CASE "chat" \in pages
      <4> DEFINE c == [chat EXCEPT !.identifying = FALSE, !.ghostDone = TRUE]
                 s == [said EXCEPT !.ghosts = @ + 1]
      <4>1. c \in [autojoinDone : BOOLEAN, ghostDone : BOOLEAN, identifying : BOOLEAN]
            /\ ~c.identifying
        BY DEF TypeOK
      <4>2. said \in [identified : BOOLEAN, autojoins : Nat, ghosts : Nat]
            /\ s \in [identified : BOOLEAN, autojoins : Nat, ghosts : Nat]
        BY DEF TypeOK
      <4>3. ApplyAutojoin(c, said) \/ ApplyAutojoin(c, s)
        BY <1>13, <3>2 DEF DeliverConfirmed, IdentifyConfirmed
      <4> QED BY <4>1, <4>2, <4>3, ApplyAutojoinResult
    <3> QED BY <3>1, <3>2
  <2>2. TypeOK'
    BY <1>2, <1>13, <2>1 DEF DeliverConfirmed, TypeOK, window
  <2>3. RefusalIsKnown'
    BY <1>9, <1>13 DEF DeliverConfirmed, window
  <2>4. TimerIsSpent' /\ Left' /\ IdentifyingPage' /\ TimersMatchState'
    BY <1>3, <1>4, <1>7, <1>13, <2>1 DEF DeliverConfirmed, window, TimerIsSpent, Left,
       IdentifyingPage, TimersMatchState
  <2> QED BY <1>6, <2>2, <2>3, <2>4
<1>14. CASE DeliverDisconnected
  <2>1. /\ StateDisconnected(userDisconnect, reconnectTimer)
        /\ retryRefused' = (retryRefused \/ (session = "refused" /\ startedBy = "timer"))
        /\ userDisconnect' = userDisconnect /\ lastHost' = lastHost
        /\ request' = request /\ said' = said
    BY <1>14 DEF DeliverDisconnected
  <2>2. /\ connectionState' = 0 /\ ~chat'.identifying
        /\ chat' \in [autojoinDone : BOOLEAN, ghostDone : BOOLEAN, identifying : BOOLEAN]
        /\ lastDropWasAuthFailure' \in BOOLEAN /\ reconnectTimer' \in BOOLEAN
        /\ pages' \subseteq {"chat", "settings"}
        /\ reconnectAttempt' \in Nat
        /\ reconnectAttempt' <= IF prefs'.reconnectLimit = 0 THEN SteadyAttempt
                                                            ELSE prefs'.reconnectLimit
        /\ lastDropWasAuthFailure /\ ~prefs.reconnectAfterAuthFailure
             => reconnectTimer' = reconnectTimer
    BY <1>3, <2>1, StateDisconnectedResult DEF TypeOK
  <2>3. TypeOK'
    BY <1>2, <1>3, <2>1, <2>2 DEF TypeOK
  <2>4. events[1] = "Disconnected" /\ session \notin {"connecting", "live"}
    BY <1>2, <1>14 DEF DeliverDisconnected, QueueFits
  <2>5. session = "refused" => Len(events) = 1 /\ lastDropWasAuthFailure /\ ~failed
    BY <1>2, <2>4 DEF RefusalIsKnown
  <2>6. session = "refused" => events' = <<>>
    <3> DEFINE m == Len(events) n == Len(events')
    <3>0. m \in Nat \ {0} /\ n = m - 1 /\ (session = "refused" => m = 1)
      BY <1>2, <2>5
    <3>1. session = "refused" => n = 0
      <4> HIDE DEF m, n, IInv
      <4> QED BY <3>0
    <3> QED BY <1>2, <3>1, EmptySeq
  <2>7. RefusalIsKnown'
    <3> HIDE DEF IInv
    <3>1. CASE session # "refused"
      BY <1>3, <3>1 DEF RefusalIsKnown
    <3>2. CASE session = "refused"
      <4>1. Len(events') = 0 /\ ~failed'
        BY <1>3, <2>5, <2>6, <3>2
      <4> QED BY <4>1 DEF RefusalIsKnown
    <3> QED BY <3>1, <3>2
  <2>8. TimerIsSpent'
    BY <1>3, <1>7, <2>1, <2>2, <2>4, <2>5, <2>6 DEF TimerIsSpent, TypeOK
  <2>9. Left' /\ IdentifyingPage' /\ TimersMatchState'
    BY <1>4, <2>1, <2>2 DEF Left, IdentifyingPage, TimersMatchState
  <2> QED BY <1>6, <2>3, <2>7, <2>8, <2>9
<1> QED BY <1>10, <1>11, <1>12, <1>13, <1>14 DEF Deliver

LEMMA DeliverFailedKeeps == IInv /\ DeliverFailed => IInv'
<1> SUFFICES ASSUME IInv, DeliverFailed PROVE IInv'
  OBVIOUS
<1> USE DEF IInv
<1>1. /\ StateDisconnected(userDisconnect, reconnectTimer) /\ failed /\ failed' = FALSE
      /\ prefs' = prefs /\ userDisconnect' = userDisconnect /\ lastHost' = lastHost
      /\ session' = session /\ events' = events /\ request' = request
      /\ startedBy' = startedBy /\ retryRefused' = retryRefused /\ said' = said
  BY DEF DeliverFailed, history
<1>2. /\ connectionState' = 0 /\ ~chat'.identifying
      /\ chat' \in [autojoinDone : BOOLEAN, ghostDone : BOOLEAN, identifying : BOOLEAN]
      /\ lastDropWasAuthFailure' \in BOOLEAN /\ reconnectTimer' \in BOOLEAN
      /\ pages' \subseteq {"chat", "settings"}
      /\ reconnectAttempt' \in Nat
      /\ reconnectAttempt' <= IF prefs'.reconnectLimit = 0 THEN SteadyAttempt
                                                          ELSE prefs'.reconnectLimit
  BY <1>1, StateDisconnectedResult DEF TypeOK
<1>3. TypeOK'
  <2>1. Rest'
    BY <1>1, <1>2 DEF TypeOK, Rest
  <2>2. Flags'
    BY <1>1, <1>2 DEF TypeOK, Flags
  <2> QED BY <2>1, <2>2, TypePartsNext
<1>4. session \notin {"none", "connecting", "live", "refused"}
  BY <1>1 DEF QueueFits, RefusalIsKnown
<1>5. QueueFits' /\ RefusalIsKnown'
  BY <1>1, <1>2, <1>4 DEF QueueFits, RefusalIsKnown
<1>6. TimerIsSpent' /\ Left' /\ IdentifyingPage' /\ TimersMatchState'
  BY <1>1, <1>2, <1>4 DEF TimerIsSpent, Left, IdentifyingPage, TimersMatchState
<1> QED BY <1>3, <1>5, <1>6

-----------------------------------------------------------------------------
(* What the session adds to the queue *)

\* The session goes on in `state` after sending `sends`: the rest of IInv follows from
\* what the queue is then.
LEMMA BecomesKeeps ==
  ASSUME IInv, session \in {"connecting", "live"},
         NEW state \in Sessions \ {"none"}, NEW sends \in Seq(Events), NEW err \in BOOLEAN,
         Becomes(state, sends, err), QueueFits', RefusalIsKnown',
         startedBy = "timer" => state # "refused" \/ ~reconnectTimer
  PROVE  IInv'
<1> USE DEF IInv
<1>1. events \o sends \in Seq(Events)
  BY ConcatProperties DEF TypeOK
<1>2. /\ session' = state /\ events' = events \o sends /\ failed' = err
      /\ UNCHANGED <<prefs, window, pages, connectionState, chat, history>>
  BY DEF Becomes
<1>3. TypeOK'
  <2>1. Rest'
    BY <1>1, <1>2 DEF TypeOK, Rest, window, history
  <2>2. Flags'
    BY <1>2 DEF TypeOK, Flags, window, history
  <2> QED BY <2>1, <2>2, TypePartsNext
<1>4. TimerIsSpent' /\ Left' /\ IdentifyingPage' /\ TimersMatchState'
  BY <1>2 DEF window, history, TimerIsSpent, Left, IdentifyingPage, TimersMatchState
<1> QED BY <1>3, <1>4

\* The queue after sending one event or two.
LEMMA Queued ==
  ASSUME events \in Seq(Events), NEW sends \in Seq(Events), events' = events \o sends
  PROVE  /\ Len(events) \in Nat /\ Len(sends) \in Nat
         /\ Len(events') = Len(events) + Len(sends)
         /\ \A i \in 1..Len(events') :
              events'[i] = IF i <= Len(events) THEN events[i] ELSE sends[i - Len(events)]
BY ConcatProperties

LEMMA SessionStepKeeps == IInv /\ SessionStep => IInv'
<1> SUFFICES ASSUME IInv, SessionStep PROVE IInv'
  OBVIOUS
<1> USE DEF IInv
<1>1. ASSUME session \in {"connecting", "live"},
             NEW state \in {"connecting", "live", "over"}, NEW sends \in Seq(Events), NEW err \in BOOLEAN,
             Becomes(state, sends, err), err => state = "over",
             \A i \in 1..Len(sends) : sends[i] # "Connecting",
             state # "over" => \A i \in 1..Len(sends) : sends[i] # "Disconnected"
      PROVE  IInv'
  <2>1. session' = state /\ failed' = err /\ connectionState' = connectionState
        /\ events' = events \o sends
    BY <1>1 DEF Becomes
  <2>2. /\ Len(events) \in Nat /\ Len(sends) \in Nat
        /\ Len(events') = Len(events) + Len(sends)
        /\ \A i \in 1..Len(events') :
             events'[i] = IF i <= Len(events) THEN events[i] ELSE sends[i - Len(events)]
    BY <2>1, <1>1, Queued DEF TypeOK
  <2>3. \A i \in 1..Len(events') : i > Len(events) => i - Len(events) \in 1..Len(sends)
    BY <2>2
  <2>4. QueueFits'
    <3>1. \A i \in 2..Len(events') : events'[i] # "Connecting"
      BY <1>1, <2>2, <2>3 DEF QueueFits
    <3>2. connectionState' = 2 => \A i \in 1..Len(events') : events'[i] # "Connecting"
      BY <1>1, <2>1, <2>2, <2>3 DEF QueueFits
    <3>3. state # "over" => \A i \in 1..Len(events') : events'[i] # "Disconnected"
      BY <1>1, <2>2, <2>3 DEF QueueFits
    <3> QED BY <1>1, <2>1, <3>1, <3>2, <3>3 DEF QueueFits
  <2>5. RefusalIsKnown'
    BY <1>1, <2>1 DEF RefusalIsKnown
  <2>6. state \in Sessions \ {"none"} /\ state # "refused"
    BY <1>1 DEF Sessions
  <2> QED BY <1>1, <2>4, <2>5, <2>6, BecomesKeeps
<1>2. CASE Hears
  <2>1. <<"AuthError">> \in Seq(Events) /\ <<"Confirmed">> \in Seq(Events)
    BY DEF Events
  <2>2. /\ \A i \in 1..Len(<<"AuthError">>) : <<"AuthError">>[i] \notin {"Connecting", "Disconnected"}
        /\ \A i \in 1..Len(<<"Confirmed">>) : <<"Confirmed">>[i] \notin {"Connecting", "Disconnected"}
    OBVIOUS
  <2> QED BY <1>1, <1>2, <2>1, <2>2 DEF Hears
<1>3. <<"Disconnected">> \in Seq(Events) /\ <<"Registered">> \in Seq(Events) /\ <<>> \in Seq(Events)
  BY DEF Events
<1>4. /\ \A i \in 1..Len(<<"Disconnected">>) : <<"Disconnected">>[i] # "Connecting"
      /\ \A i \in 1..Len(<<"Registered">>) : <<"Registered">>[i] \notin {"Connecting", "Disconnected"}
      /\ \A i \in 1..Len(<<>>) : <<>>[i] # "Connecting"
  OBVIOUS
<1>5. CASE Drops
  <2>1. session = "live" /\ Becomes("over", <<"Disconnected">>, FALSE)
    BY <1>5 DEF Drops
  <2> QED BY <1>1, <1>3, <1>4, <2>1
<1>6. CASE Resolves
  <2>1. session = "connecting"
    BY <1>6 DEF Resolves
  <2>2. CASE Becomes("over", <<"Disconnected">>, TRUE)
    BY <1>1, <1>3, <1>4, <2>1, <2>2
  <2>3. CASE Becomes("over", <<>>, TRUE)
    BY <1>1, <1>3, <1>4, <2>1, <2>3
  <2>4. CASE Becomes("over", <<"Disconnected">>, FALSE)
    BY <1>1, <1>3, <1>4, <2>1, <2>4
  <2>5. CASE Becomes("live", <<"Registered">>, FALSE)
    BY <1>1, <1>3, <1>4, <2>1, <2>5
  <2>6. CASE Becomes("refused", <<"AuthError", "Disconnected">>, FALSE)
    <3> DEFINE sends == <<"AuthError", "Disconnected">>
    <3>1. sends \in Seq(Events) /\ Len(sends) = 2 /\ sends[1] = "AuthError" /\ sends[2] = "Disconnected"
      BY DEF Events
    <3> HIDE DEF sends
    <3>2. session' = "refused" /\ failed' = FALSE /\ connectionState' = connectionState
          /\ events' = events \o sends
      BY <2>6 DEF Becomes, sends
    <3>3. /\ Len(events) \in Nat /\ Len(events') = Len(events) + 2
          /\ \A i \in 1..Len(events') :
               events'[i] = IF i <= Len(events) THEN events[i] ELSE sends[i - Len(events)]
      BY <3>1, <3>2, Queued DEF TypeOK
    <3>4. \A i \in 1..Len(events) : events'[i] = events[i]
      BY <3>3
    <3>5. events'[Len(events) + 1] = "AuthError" /\ events'[Len(events) + 2] = "Disconnected"
      <4>1. Len(events) + 1 \in 1..Len(events') /\ Len(events) + 2 \in 1..Len(events')
        BY <3>3
      <4>2. (Len(events) + 1) - Len(events) = 1 /\ (Len(events) + 2) - Len(events) = 2
        BY <3>3
      <4> QED BY <3>1, <3>3, <4>1, <4>2
    <3>6. \A i \in 1..Len(events') : i <= Len(events) \/ i = Len(events) + 1 \/ i = Len(events) + 2
      BY <3>3
    <3>7. QueueFits'
      <4>1. \A i \in 2..Len(events') : events'[i] # "Connecting"
        BY <3>3, <3>4, <3>5, <3>6 DEF QueueFits
      <4>2. connectionState' = 2 => \A i \in 1..Len(events') : events'[i] # "Connecting"
        BY <3>2, <3>3, <3>4, <3>5, <3>6 DEF QueueFits
      <4> QED BY <3>2, <4>1, <4>2 DEF QueueFits
    <3>8. RefusalIsKnown'
      <4>1. \A i \in 1..(Len(events') - 1) : events'[i] # "Disconnected"
        BY <2>1, <3>3, <3>4, <3>5, <3>6 DEF QueueFits
      <4>2. Len(events') - 1 = Len(events) + 1 /\ Len(events') > 1
        BY <3>3
      <4> QED BY <3>2, <3>5, <4>1, <4>2 DEF RefusalIsKnown
    <3>9. startedBy = "timer" => ~reconnectTimer
      BY <2>1 DEF TimerIsSpent
    <3> QED BY <2>1, <2>6, <3>1, <3>7, <3>8, <3>9, BecomesKeeps DEF sends, Sessions
  <2> QED BY <1>6, <2>2, <2>3, <2>4, <2>5, <2>6 DEF Resolves
<1> QED BY <1>2, <1>5, <1>6 DEF SessionStep

-----------------------------------------------------------------------------
(* The timers and the user *)

\* connect_server starts a session nothing has come from yet.
LEMMA ConnectKeeps ==
  ASSUME IInv, NEW who \in {"user", "timer"}, ConnectServer(who),
         prefs' = prefs, who = "timer" => ~reconnectTimer',
         reconnectTimer' \in BOOLEAN, userDisconnect' \in BOOLEAN, lastHost' \in BOOLEAN,
         lastDropWasAuthFailure' \in BOOLEAN,
         reconnectAttempt' \in {0, reconnectAttempt},
         pages' \subseteq {"chat", "settings"}, pages \subseteq pages', chat' = chat,
         request' \in {"none", "connect", "trayLeave"}, retryRefused' \in BOOLEAN,
         ~(retryRefused' /\ ~prefs.reconnectAfterAuthFailure), ~chat.identifying
  PROVE  IInv'
<1> USE DEF IInv
<1>1. /\ session' = "connecting" /\ events' = <<"Connecting">> /\ failed' = FALSE
      /\ connectionState' = 1 /\ startedBy' = who /\ said' = Silence
  BY DEF ConnectServer
<1>2. events' \in Seq(Events) /\ Len(events') = 1 /\ events'[1] = "Connecting"
  BY <1>1 DEF Events
<1>3. TypeOK'
  <2>1. prefs.reconnectLimit \in Nat
    BY PrefsAssumption DEF TypeOK
  <2>2. Rest'
    BY <1>1, <1>2, <2>1 DEF TypeOK, Rest, Sessions, SteadyAttempt
  <2>3. Flags'
    BY <1>1 DEF TypeOK, Flags, Silence
  <2> QED BY <2>2, <2>3, TypePartsNext
<1>4. QueueFits' /\ RefusalIsKnown'
  BY <1>1, <1>2 DEF QueueFits, RefusalIsKnown
<1>5. TimerIsSpent' /\ Left' /\ IdentifyingPage' /\ TimersMatchState'
  BY <1>1 DEF TimerIsSpent, Left, IdentifyingPage, TimersMatchState
<1> QED BY <1>3, <1>4, <1>5

LEMMA TryReconnectKeeps == IInv /\ TryReconnect => IInv'
<1> SUFFICES ASSUME IInv, TryReconnect PROVE IInv'
  OBVIOUS
<1> USE DEF IInv
<1>1. /\ reconnectTimer /\ reconnectTimer' = FALSE
      /\ UNCHANGED <<prefs, userDisconnect, reconnectAttempt, lastDropWasAuthFailure, lastHost,
                     pages, chat, request, retryRefused>>
  BY DEF TryReconnect
<1>2. CASE userDisconnect \/ ~lastHost
  <2>1. UNCHANGED <<connectionState, session, events, failed, startedBy, said>>
    BY <1>2 DEF TryReconnect, link
  <2>2. TypeOK'
    <3>1. Rest'
      BY <1>1, <2>1 DEF TypeOK, Rest
    <3>2. Flags'
      BY <1>1, <2>1 DEF TypeOK, Flags
    <3> QED BY <3>1, <3>2, TypePartsNext
  <2>3. QueueFits' /\ RefusalIsKnown'
    BY <1>1, <2>1 DEF QueueFits, RefusalIsKnown
  <2>4. TimerIsSpent' /\ Left' /\ IdentifyingPage' /\ TimersMatchState'
    BY <1>1, <2>1 DEF TimerIsSpent, Left, IdentifyingPage, TimersMatchState
  <2> QED BY <2>2, <2>3, <2>4
<1>3. CASE ~userDisconnect /\ lastHost
  <2>1. ConnectServer("timer")
    BY <1>3 DEF TryReconnect
  <2>2. ~chat.identifying /\ ~(retryRefused /\ ~prefs.reconnectAfterAuthFailure)
    BY <1>1 DEF TimersMatchState, TimerIsSpent
  <2>3. request \in {"none", "connect", "trayLeave"}
    BY <1>3 DEF TypeOK, Left
  <2>4. /\ reconnectTimer' \in BOOLEAN /\ userDisconnect' \in BOOLEAN /\ lastHost' \in BOOLEAN
        /\ lastDropWasAuthFailure' \in BOOLEAN /\ retryRefused' \in BOOLEAN
        /\ pages' \subseteq {"chat", "settings"} /\ pages \subseteq pages'
    BY <1>1 DEF TypeOK
  <2> QED BY <1>1, <2>1, <2>2, <2>3, <2>4, ConnectKeeps
<1> QED BY <1>2, <1>3

LEMMA FormConnectKeeps == IInv /\ FormConnect => IInv'
<1> SUFFICES ASSUME IInv, FormConnect PROVE IInv'
  OBVIOUS
<1> USE DEF IInv
<1>1. ~chat.identifying
  BY DEF FormConnect, IdentifyingPage
<1>2. /\ ConnectServer("user") /\ prefs' = prefs /\ reconnectTimer' = FALSE
      /\ userDisconnect' = FALSE /\ lastDropWasAuthFailure' = FALSE /\ lastHost' = TRUE
      /\ reconnectAttempt' = 0 /\ chat' = chat /\ request' = "connect" /\ retryRefused' = FALSE
  BY DEF FormConnect
<1>3. pages' \subseteq {"chat", "settings"} /\ pages \subseteq pages'
  BY DEF FormConnect, OpenChat
<1> QED BY <1>1, <1>2, <1>3, ConnectKeeps

LEMMA TrayConnectKeeps == IInv /\ TrayConnect => IInv'
<1> SUFFICES ASSUME IInv, TrayConnect PROVE IInv'
  OBVIOUS
<1> USE DEF IInv
<1>1. ~chat.identifying
  BY DEF TrayConnect, TimersMatchState
<1>2. /\ ConnectServer("user") /\ prefs' = prefs /\ reconnectTimer' = reconnectTimer
      /\ userDisconnect' = FALSE /\ lastDropWasAuthFailure' = lastDropWasAuthFailure
      /\ lastHost' = TRUE /\ reconnectAttempt' = reconnectAttempt /\ pages' = pages
      /\ chat' = chat /\ request' = "connect" /\ retryRefused' = FALSE
  BY DEF TrayConnect
<1>3. /\ reconnectTimer' \in BOOLEAN /\ lastDropWasAuthFailure' \in BOOLEAN
      /\ pages' \subseteq {"chat", "settings"}
  BY <1>2 DEF TypeOK
<1> QED BY <1>1, <1>2, <1>3, ConnectKeeps

\* disconnect_server leaves nothing to be delivered; who leaves through the window
\* has set userDisconnect before.
LEMMA DisconnectKeeps ==
  ASSUME IInv, NEW leaving \in BOOLEAN, NEW ticking \in BOOLEAN,
         DisconnectServer(leaving, ticking), ticking => reconnectTimer,
         prefs' = prefs, lastHost' = lastHost,
         leaving = userDisconnect', request' \in {"leave", "trayLeave"},
         request' = "leave" => leaving,
         connectionState # 0
  PROVE  IInv'
<1> USE DEF IInv
<1>1. /\ session' = "none" /\ events' = <<>> /\ failed' = FALSE
      /\ startedBy' = startedBy /\ retryRefused' = retryRefused /\ said' = said
      /\ StateDisconnected(leaving, ticking)
  BY DEF DisconnectServer
<1>2. /\ connectionState' = 0 /\ ~chat'.identifying
      /\ chat' \in [autojoinDone : BOOLEAN, ghostDone : BOOLEAN, identifying : BOOLEAN]
      /\ lastDropWasAuthFailure' \in BOOLEAN /\ reconnectTimer' \in BOOLEAN
      /\ pages' \subseteq {"chat", "settings"}
      /\ reconnectAttempt' \in Nat
      /\ reconnectAttempt' <= IF prefs'.reconnectLimit = 0 THEN SteadyAttempt
                                                          ELSE prefs'.reconnectLimit
  BY <1>1, StateDisconnectedResult DEF TypeOK
<1>3. TypeOK'
  <2>1. events' \in Seq(Events)
    BY <1>1
  <2>2. Rest'
    BY <1>1, <1>2, <2>1 DEF TypeOK, Rest, Sessions
  <2>3. Flags'
    BY <1>1, <1>2 DEF TypeOK, Flags
  <2> QED BY <2>2, <2>3, TypePartsNext
<1>4. QueueFits' /\ RefusalIsKnown'
  BY <1>1, <1>2 DEF QueueFits, RefusalIsKnown
<1>5. ~(retryRefused /\ ~prefs.reconnectAfterAuthFailure)
  BY DEF TimerIsSpent
<1>6. TimerIsSpent' /\ Left' /\ IdentifyingPage' /\ TimersMatchState'
  BY <1>1, <1>2, <1>5 DEF TimerIsSpent, Left, IdentifyingPage, TimersMatchState
<1> QED BY <1>3, <1>4, <1>6

LEMMA LeaveKeeps ==
  IInv /\ (FormCancel \/ MenuDisconnect \/ CmdQuit \/ TrayDisconnect) => IInv'
<1> SUFFICES ASSUME IInv, FormCancel \/ MenuDisconnect \/ CmdQuit \/ TrayDisconnect PROVE IInv'
  OBVIOUS
<1>1. reconnectTimer \in BOOLEAN /\ userDisconnect \in BOOLEAN
  BY DEF IInv, TypeOK
<1>2. CASE FormCancel
  <2>1. /\ DisconnectServer(TRUE, reconnectTimer) /\ userDisconnect' = TRUE
        /\ request' = "leave" /\ prefs' = prefs /\ lastHost' = lastHost
    BY <1>2 DEF FormCancel
  <2>2. connectionState # 0
    BY <1>2 DEF FormCancel
  <2> QED BY <1>1, <2>1, <2>2, DisconnectKeeps
<1>3. CASE MenuDisconnect
  BY <1>1, <1>3, DisconnectKeeps DEF MenuDisconnect
<1>4. CASE CmdQuit
  <2>1. /\ DisconnectServer(TRUE, reconnectTimer) /\ userDisconnect' = TRUE
        /\ request' = "leave" /\ prefs' = prefs /\ lastHost' = lastHost
    BY <1>4 DEF CmdQuit
  <2>2. connectionState # 0
    BY <1>4 DEF CmdQuit
  <2> QED BY <1>1, <2>1, <2>2, DisconnectKeeps
<1>5. CASE TrayDisconnect
  BY <1>1, <1>5, DisconnectKeeps DEF TrayDisconnect
<1> QED BY <1>2, <1>3, <1>4, <1>5

\* What touches the pages, the chat flags and what was said only.
LEMMA PagesKeep ==
  ASSUME IInv, UNCHANGED <<prefs, window, connectionState, link, request, startedBy, retryRefused>>,
         pages' \subseteq {"chat", "settings"},
         chat' \in [autojoinDone : BOOLEAN, ghostDone : BOOLEAN, identifying : BOOLEAN],
         said' \in [identified : BOOLEAN, autojoins : Nat, ghosts : Nat],
         chat'.identifying => chat.identifying /\ "chat" \in pages'
  PROVE  IInv'
<1> USE DEF IInv
<1>1. Rest'
  BY DEF TypeOK, Rest, window, link
<1>4. Flags'
  BY DEF TypeOK, Flags, window, link
<1>2. QueueFits' /\ RefusalIsKnown' /\ TimerIsSpent'
  BY DEF QueueFits, RefusalIsKnown, TimerIsSpent, window, link
<1>3. Left' /\ IdentifyingPage' /\ TimersMatchState'
  BY DEF Left, IdentifyingPage, TimersMatchState, window, link
<1> QED BY <1>1, <1>2, <1>3, <1>4, TypePartsNext

LEMMA PageStepKeeps == IInv /\ (IdentifyTimer \/ Back \/ OpenSettings) => IInv'
<1> SUFFICES ASSUME IInv, IdentifyTimer \/ Back \/ OpenSettings PROVE IInv'
  OBVIOUS
<1>1. /\ pages \subseteq {"chat", "settings"} /\ (chat.identifying => "chat" \in pages)
      /\ chat \in [autojoinDone : BOOLEAN, ghostDone : BOOLEAN, identifying : BOOLEAN]
      /\ said \in [identified : BOOLEAN, autojoins : Nat, ghosts : Nat]
  BY DEF IInv, TypeOK, IdentifyingPage
<1>2. CASE IdentifyTimer
  <2> DEFINE c == [chat EXCEPT !.identifying = FALSE]
  <2>1. c \in [autojoinDone : BOOLEAN, ghostDone : BOOLEAN, identifying : BOOLEAN]
        /\ ~c.identifying
    BY <1>1
  <2>2. ApplyAutojoin(c, said)
        /\ UNCHANGED <<prefs, window, pages, connectionState, link, request, startedBy, retryRefused>>
    BY <1>2 DEF IdentifyTimer
  <2>3. /\ chat' \in [autojoinDone : BOOLEAN, ghostDone : BOOLEAN, identifying : BOOLEAN]
        /\ said' \in [identified : BOOLEAN, autojoins : Nat, ghosts : Nat]
        /\ chat'.identifying = c.identifying
    <3> HIDE DEF c
    <3> QED BY <1>1, <2>1, <2>2, ApplyAutojoinResult
  <2> QED BY <1>1, <2>1, <2>2, <2>3, PagesKeep
<1>3. CASE Back
  <2>1. /\ UNCHANGED <<prefs, window, connectionState, link, request, startedBy, retryRefused, said>>
        /\ pages' = Pop /\ chat' = IF "chat" \in pages' THEN chat ELSE NewPage
    BY <1>3 DEF Back, history
  <2>2. pages' \subseteq {"chat", "settings"}
    BY <1>1, <2>1 DEF Pop
  <2>3. chat' \in [autojoinDone : BOOLEAN, ghostDone : BOOLEAN, identifying : BOOLEAN]
        /\ (chat'.identifying => chat.identifying /\ "chat" \in pages')
    BY <1>1, <2>1 DEF NewPage
  <2> QED BY <1>1, <2>1, <2>2, <2>3, PagesKeep
<1>4. CASE OpenSettings
  <2>1. /\ UNCHANGED <<prefs, window, connectionState, link, request, startedBy, retryRefused,
                       said, chat>>
        /\ pages' = pages \cup {"settings"}
    BY <1>4 DEF OpenSettings, history
  <2> QED BY <1>1, <2>1, PagesKeep
<1> QED BY <1>2, <1>3, <1>4

-----------------------------------------------------------------------------
(* One GHOST and one autojoin for a session *)

Saying == [identified : BOOLEAN, autojoins : Nat, ghosts : Nat]
ChatFlags == [autojoinDone : BOOLEAN, ghostDone : BOOLEAN, identifying : BOOLEAN]

\* The page joins at most once between two resets of its flags.
LEMMA ApplyAutojoinCounts ==
  ASSUME NEW c \in ChatFlags, NEW s \in Saying, ApplyAutojoin(c, s),
         s.autojoins <= 1, s.autojoins > 0 => c.autojoinDone
  PROVE  /\ chat'.autojoinDone /\ chat'.ghostDone = c.ghostDone
         /\ said'.autojoins <= 1 /\ said'.ghosts = s.ghosts
<1>1. chat'.autojoinDone /\ chat'.ghostDone = c.ghostDone
  BY DEF ApplyAutojoin, ChatFlags
<1>2. CASE c.autojoinDone
  BY <1>1, <1>2 DEF ApplyAutojoin
<1>3. CASE ~c.autojoinDone
  <2>1. s.autojoins = 0 /\ said' = [s EXCEPT !.autojoins = @ + 1]
    BY <1>3 DEF ApplyAutojoin, Saying
  <2> QED BY <1>1, <2>1 DEF Saying
<1> QED BY <1>2, <1>3

\* A welcome resets the flags and finds that nothing has been said.
LEMMA WelcomeCounts ==
  ASSUME TypeOK, StateConnected, said = Silence
  PROVE  FlagsCount' /\ OncePerConnection'
<1>1. CASE "chat" \notin pages
  BY <1>1 DEF StateConnected, Silence, FlagsCount, OncePerConnection
<1>2. CASE "chat" \in pages
  <2> DEFINE c == [chat EXCEPT !.autojoinDone = FALSE, !.ghostDone = FALSE]
  <2>1. c \in ChatFlags /\ said \in Saying /\ said.autojoins = 0 /\ said.ghosts = 0
    BY DEF TypeOK, ChatFlags, Saying, Silence
  <2>2. "chat" \in pages'
    BY <1>2 DEF StateConnected, OpenChat
  <2>3. CASE prefs.identifyOnConnect
    <3>1. said' = [said EXCEPT !.identified = TRUE]
      BY <1>2, <2>3 DEF StateConnected, StartIdentifyAndJoin
    <3>2. said'.autojoins = 0 /\ said'.ghosts = 0
      BY <2>1, <3>1 DEF Saying
    <3> QED BY <3>2 DEF FlagsCount, OncePerConnection
  <2>4. CASE ~prefs.identifyOnConnect
    <3>1. ApplyAutojoin(c, said)
      BY <1>2, <2>4 DEF StateConnected, StartIdentifyAndJoin
    <3>2. chat'.autojoinDone /\ said'.autojoins <= 1 /\ said'.ghosts = said.ghosts
      BY <2>1, <3>1, ApplyAutojoinCounts
    <3> QED BY <2>1, <2>2, <3>2 DEF FlagsCount, OncePerConnection
  <2> QED BY <2>3, <2>4
<1> QED BY <1>1, <1>2

\* A confirmation sends GHOST only while ghostDone is not set, and sets it.
LEMMA ConfirmationCounts ==
  ASSUME TypeOK, IdentifyConfirmed, OncePerConnection,
         said.autojoins > 0 => chat.autojoinDone, said.ghosts > 0 => chat.ghostDone
  PROVE  chat'.autojoinDone /\ chat'.ghostDone /\ OncePerConnection'
<1> DEFINE c == [chat EXCEPT !.identifying = FALSE, !.ghostDone = TRUE]
           more == [said EXCEPT !.ghosts = @ + 1]
<1>1. c \in ChatFlags /\ said \in Saying /\ c.autojoinDone = chat.autojoinDone /\ c.ghostDone
  BY DEF TypeOK, ChatFlags, Saying
<1>2. said.autojoins <= 1 /\ said.ghosts <= 1
  BY DEF OncePerConnection
<1>3. CASE ApplyAutojoin(c, said)
  <2>1. /\ chat'.autojoinDone /\ chat'.ghostDone = c.ghostDone
        /\ said'.autojoins <= 1 /\ said'.ghosts = said.ghosts
    BY <1>1, <1>2, <1>3, ApplyAutojoinCounts
  <2> QED BY <1>1, <1>2, <2>1 DEF OncePerConnection
<1>4. CASE ~chat.ghostDone /\ ApplyAutojoin(c, more)
  <2>1. said.ghosts = 0
    BY <1>1, <1>4 DEF Saying
  <2>2. more \in Saying /\ more.autojoins = said.autojoins /\ more.ghosts = 1
    BY <1>1, <2>1 DEF Saying
  <2>3. /\ chat'.autojoinDone /\ chat'.ghostDone = c.ghostDone
        /\ said'.autojoins <= 1 /\ said'.ghosts = more.ghosts
    BY <1>1, <1>2, <1>4, <2>2, ApplyAutojoinCounts
  <2> QED BY <1>1, <2>2, <2>3 DEF OncePerConnection
<1> QED BY <1>3, <1>4 DEF IdentifyConfirmed

LEMMA InitOnce == Init => Once
<1> SUFFICES ASSUME Init PROVE Once
  OBVIOUS
<1>1. \A e : ~Queues(e)
  BY DEF Init, Queues
<1>2. events = <<>> /\ session = "none" /\ ~failed /\ said = Silence /\ connectionState = 0
  BY DEF Init
<1> QED BY <1>1, <1>2 DEF Once, WelcomedOnce, Welcoming, ConfirmedInTime, FlagsCount,
           OncePerConnection, Silence

LEMMA DeliverOnce == IInv /\ Once /\ Deliver => Once'
<1> SUFFICES ASSUME IInv, Once, Deliver PROVE Once'
  OBVIOUS
<1>1. TypeOK /\ QueueFits
  BY DEF IInv
<1>2. events # <<>> /\ events' = Tail(events) /\ session' = session /\ failed' = failed
  BY DEF Deliver, DeliverConnecting, DeliverRegistered, DeliverAuthError,
         DeliverConfirmed, DeliverDisconnected, link
<1>3. /\ events' \in Seq(Events)
      /\ Len(events) \in Nat \ {0} /\ Len(events') = Len(events) - 1
      /\ Head(events) = events[1]
      /\ \A i \in 1..Len(events') : events'[i] = events[i + 1]
  BY <1>1, <1>2, Delivered DEF TypeOK
<1>4. /\ \A e : Queues(e)' => Queues(e)
      /\ \A e : Queues(e) => Queues(e)' \/ Head(events) = e
      /\ Queues(Head(events))
  <2>1. \A e : Queues(e)' => Queues(e)
    BY <1>3 DEF Queues
  <2>2. ASSUME NEW e, Queues(e), Head(events) # e PROVE Queues(e)'
    <3>1. PICK i \in 1..Len(events) : events[i] = e
      BY <2>2 DEF Queues
    <3>2. i - 1 \in 1..Len(events') /\ (i - 1) + 1 = i
      BY <1>3, <2>2, <3>1
    <3> QED BY <1>3, <3>1, <3>2 DEF Queues
  <2>3. Queues(Head(events))
    <3>1. 1 \in 1..Len(events) /\ events[1] = Head(events)
      BY <1>3
    <3> QED BY <3>1 DEF Queues
  <2> QED BY <2>1, <2>2, <2>3
<1>5. \A i, j \in 1..Len(events') :
        events'[i] = "Registered" /\ events'[j] = "Registered" => i = j
  <2>1. SUFFICES ASSUME NEW i \in 1..Len(events'), NEW j \in 1..Len(events'),
                        events'[i] = "Registered", events'[j] = "Registered"
                 PROVE  i = j
    OBVIOUS
  <2>2. i + 1 \in 1..Len(events) /\ j + 1 \in 1..Len(events)
    BY <1>3
  <2>3. i + 1 = j + 1
    BY <1>3, <2>1, <2>2 DEF Once, WelcomedOnce
  <2> QED BY <2>3
<1>6. ~Queues("Confirmed")'
  BY <1>3 DEF Once, ConfirmedInTime, Queues
<1>7. ConfirmedInTime'
  BY <1>6 DEF ConfirmedInTime, Queues
<1>8. ASSUME said' = said, connectionState' # 2, Head(events) # "Registered",
             session # "live" \/ connectionState # 2
      PROVE  Once'
  <2>1. WelcomedOnce'
    BY <1>2, <1>4, <1>5, <1>8 DEF Once, WelcomedOnce, Welcoming
  <2> QED BY <1>7, <1>8, <2>1 DEF Once, FlagsCount, OncePerConnection
<1>9. CASE DeliverConnecting
  <2>1. connectionState # 2
    BY <1>1, <1>3, <1>9 DEF DeliverConnecting, QueueFits
  <2> QED BY <1>8, <1>9, <2>1 DEF DeliverConnecting, history
<1>10. CASE DeliverRegistered
  <2>1. StateConnected /\ said = Silence /\ session # "connecting" /\ ~failed
    BY <1>4, <1>10 DEF DeliverRegistered, Once, WelcomedOnce, Welcoming
  <2>2. FlagsCount' /\ OncePerConnection'
    BY <1>1, <2>1, WelcomeCounts
  <2>3. ~Queues("Registered")'
    <3>1. SUFFICES ASSUME NEW i \in 1..Len(events'), events'[i] = "Registered" PROVE FALSE
      BY DEF Queues
    <3>2. i + 1 \in 1..Len(events) /\ 1 \in 1..Len(events) /\ events[i + 1] = "Registered"
      BY <1>3, <3>1
    <3>3. i + 1 = 1
      BY <1>3, <1>10, <3>2 DEF Once, WelcomedOnce, DeliverRegistered
    <3> QED BY <3>3
  <2>4. connectionState' = 2
    BY <2>1 DEF StateConnected
  <2>5. WelcomedOnce'
    BY <1>2, <1>5, <2>1, <2>3, <2>4 DEF WelcomedOnce, Welcoming
  <2> QED BY <1>7, <2>2, <2>5 DEF Once
<1>11. CASE DeliverAuthError
  <2>1. said' = said /\ chat' = chat /\ pages' = pages /\ connectionState' = connectionState
        /\ Head(events) = "AuthError"
    BY <1>11 DEF DeliverAuthError, history
  <2>2. WelcomedOnce'
    BY <1>2, <1>4, <1>5, <2>1 DEF Once, WelcomedOnce, Welcoming
  <2> QED BY <1>7, <2>1, <2>2 DEF Once, FlagsCount, OncePerConnection
<1>12. CASE DeliverConfirmed
  <2>1. connectionState = 2 /\ ~Welcoming /\ pages' = pages /\ connectionState' = connectionState
    BY <1>4, <1>12 DEF DeliverConfirmed, Once, ConfirmedInTime
  <2>2. ~Welcoming'
    BY <1>2, <1>4, <2>1 DEF Welcoming
  <2>3. WelcomedOnce'
    BY <1>2, <1>5, <2>1, <2>2 DEF WelcomedOnce, Welcoming
  <2>4. CASE "chat" \in pages
    <3>1. IdentifyConfirmed
      BY <1>12, <2>4 DEF DeliverConfirmed
    <3>2. chat'.autojoinDone /\ chat'.ghostDone /\ OncePerConnection'
      BY <1>1, <2>1, <3>1, ConfirmationCounts DEF Once, FlagsCount
    <3> QED BY <1>7, <2>1, <2>3, <2>4, <3>2 DEF Once, FlagsCount
  <2>5. CASE "chat" \notin pages
    <3>1. said' = said /\ chat' = chat
      BY <1>12, <2>5 DEF DeliverConfirmed
    <3> QED BY <1>7, <2>1, <2>3, <3>1 DEF Once, FlagsCount, OncePerConnection
  <2> QED BY <2>4, <2>5
<1>13. CASE DeliverDisconnected
  <2>1. connectionState' = 0 /\ said' = said /\ Head(events) = "Disconnected"
    BY <1>13 DEF DeliverDisconnected, StateDisconnected
  <2>2. session # "live"
    BY <1>1, <1>3, <2>1 DEF QueueFits
  <2> QED BY <1>8, <2>1, <2>2
<1> QED BY <1>9, <1>10, <1>11, <1>12, <1>13 DEF Deliver

LEMMA DeliverFailedOnce == IInv /\ Once /\ DeliverFailed => Once'
<1> SUFFICES ASSUME IInv, Once, DeliverFailed PROVE Once'
  OBVIOUS
<1>1. /\ failed /\ ~failed' /\ connectionState' = 0
      /\ session' = session /\ events' = events /\ said' = said
  BY DEF DeliverFailed, StateDisconnected, history
<1>2. session \notin {"connecting", "live"}
  BY <1>1 DEF IInv, QueueFits
<1>3. ~Queues("Confirmed") /\ \A e : Queues(e)' <=> Queues(e)
  BY <1>1 DEF Once, ConfirmedInTime, Queues
<1>4. WelcomedOnce'
  BY <1>1, <1>2, <1>3 DEF Once, WelcomedOnce, Welcoming
<1>5. ConfirmedInTime'
  BY <1>1, <1>3 DEF Once, ConfirmedInTime
<1> QED BY <1>1, <1>4, <1>5 DEF Once, FlagsCount, OncePerConnection

\* What the session adds to the queue is there after what was there.
LEMMA BecomesQueues ==
  ASSUME TypeOK, NEW sends \in Seq(Events), NEW state, NEW err, Becomes(state, sends, err)
  PROVE  /\ session' = state /\ failed' = err
         /\ UNCHANGED <<said, chat, pages, connectionState>>
         /\ Len(events) \in Nat /\ Len(sends) \in Nat
         /\ Len(events') = Len(events) + Len(sends)
         /\ \A i \in 1..Len(events) : events'[i] = events[i]
         /\ \A i \in 1..Len(events') : i > Len(events) =>
              i - Len(events) \in 1..Len(sends) /\ events'[i] = sends[i - Len(events)]
<1>1. session' = state /\ failed' = err /\ events' = events \o sends
      /\ UNCHANGED <<said, chat, pages, connectionState>>
  BY DEF Becomes, history
<1> QED BY <1>1 DEF TypeOK

LEMMA SessionOnce == IInv /\ Once /\ SessionStep => Once'
<1> SUFFICES ASSUME IInv, Once, SessionStep PROVE Once'
  OBVIOUS
<1>1. TypeOK /\ QueueFits
  BY DEF IInv
\* No Registered, no Confirmed.
<1>2. ASSUME NEW sends \in Seq(Events), NEW state, NEW err, Becomes(state, sends, err),
             \A i \in 1..Len(sends) : sends[i] \notin {"Registered", "Confirmed"},
             \/ state = session /\ ~err
             \/ state \in {"over", "refused"} /\ (err => session = "connecting")
      PROVE  Once'
  <2>1. /\ session' = state /\ failed' = err
        /\ UNCHANGED <<said, chat, pages, connectionState>>
        /\ Len(events) \in Nat /\ Len(sends) \in Nat
        /\ Len(events') = Len(events) + Len(sends)
        /\ \A i \in 1..Len(events) : events'[i] = events[i]
        /\ \A i \in 1..Len(events') : i > Len(events) =>
              i - Len(events) \in 1..Len(sends) /\ events'[i] = sends[i - Len(events)]
    BY <1>1, <1>2, BecomesQueues
  <2>2. \A i \in 1..Len(events') : events'[i] \in {"Registered", "Confirmed"} =>
          i \in 1..Len(events) /\ events[i] = events'[i]
    BY <1>2, <2>1
  <2>3. \A i \in 1..Len(events) : i \in 1..Len(events')
    BY <2>1
  <2>4. /\ Queues("Registered")' <=> Queues("Registered")
        /\ Queues("Confirmed")' <=> Queues("Confirmed")
    BY <2>1, <2>2, <2>3 DEF Queues
  <2>5. WelcomedOnce'
    BY <1>2, <2>1, <2>2, <2>4 DEF Once, WelcomedOnce, Welcoming
  <2>6. ConfirmedInTime'
    BY <1>2, <2>1, <2>2, <2>4 DEF Once, ConfirmedInTime, Welcoming
  <2> QED BY <2>1, <2>5, <2>6 DEF Once, FlagsCount, OncePerConnection
<1>3. CASE Resolves
  <2>1. session = "connecting"
    BY <1>3 DEF Resolves
  <2>2. CASE Becomes("over", <<"Disconnected">>, TRUE) \/ Becomes("over", <<"Disconnected">>, FALSE)
    <3> DEFINE sends == <<"Disconnected">>
    <3>1. sends \in Seq(Events) /\ \A i \in 1..Len(sends) : sends[i] \notin {"Registered", "Confirmed"}
      BY DEF Events
    <3> QED BY <1>2, <2>1, <2>2, <3>1
  <2>3. CASE Becomes("over", <<>>, TRUE)
    <3> DEFINE sends == <<>>
    <3>1. sends \in Seq(Events) /\ \A i \in 1..Len(sends) : sends[i] \notin {"Registered", "Confirmed"}
      OBVIOUS
    <3> QED BY <1>2, <2>1, <2>3, <3>1
  <2>4. CASE Becomes("refused", <<"AuthError", "Disconnected">>, FALSE)
    <3> DEFINE sends == <<"AuthError", "Disconnected">>
    <3>1. sends \in Seq(Events) /\ \A i \in 1..Len(sends) : sends[i] \notin {"Registered", "Confirmed"}
      BY DEF Events
    <3> QED BY <1>2, <2>1, <2>4, <3>1
  <2>5. CASE Becomes("live", <<"Registered">>, FALSE)
    <3> DEFINE sends == <<"Registered">>
    <3>1. sends \in Seq(Events) /\ Len(sends) = 1 /\ sends[1] = "Registered"
      BY DEF Events
    <3>2. /\ session' = "live" /\ failed' = FALSE
          /\ UNCHANGED <<said, chat, pages, connectionState>>
          /\ Len(events) \in Nat /\ Len(sends) \in Nat
          /\ Len(events') = Len(events) + Len(sends)
          /\ \A i \in 1..Len(events) : events'[i] = events[i]
          /\ \A i \in 1..Len(events') : i > Len(events) =>
                i - Len(events) \in 1..Len(sends) /\ events'[i] = sends[i - Len(events)]
      BY <1>1, <2>5, <3>1, BecomesQueues
    <3>3. /\ \A i \in 1..Len(events) : events[i] \notin {"Registered", "Confirmed"}
          /\ said = Silence /\ connectionState # 2
      BY <2>1 DEF Once, WelcomedOnce, ConfirmedInTime, Welcoming, Queues
    <3>4. Len(events') = Len(events) + 1
          /\ \A i \in 1..Len(events') : events'[i] \in {"Registered", "Confirmed"} =>
               i = Len(events') /\ events'[i] = "Registered"
      <4> HIDE DEF sends
      <4> QED BY <3>1, <3>2, <3>3
    <3>5. events'[Len(events')] = "Registered" /\ Len(events') \in 1..Len(events')
      <4> HIDE DEF sends
      <4>1. Len(events') - Len(events) = 1 /\ Len(events') > Len(events)
            /\ Len(events') \in 1..Len(events')
        <5> DEFINE m == Len(events)
                   n == Len(events')
        <5>1. m \in Nat /\ n = m + 1
          BY <3>2, <3>4
        <5>2. n - m = 1 /\ n > m /\ n \in 1..n
          <6> HIDE DEF m, n
          <6> QED BY <5>1
        <5> QED BY <5>2
      <4> QED BY <3>1, <3>2, <4>1
    <3>6. Queues("Registered")' /\ ~Queues("Confirmed")'
      BY <3>4, <3>5 DEF Queues
    <3>7. WelcomedOnce'
      <4>1. \A i, j \in 1..Len(events') :
              events'[i] = "Registered" /\ events'[j] = "Registered" => i = j
        BY <3>4
      <4> QED BY <3>2, <3>3, <3>6, <4>1 DEF WelcomedOnce, Welcoming
    <3>8. ConfirmedInTime'
      BY <3>6 DEF ConfirmedInTime, Queues
    <3> QED BY <3>2, <3>3, <3>7, <3>8 DEF Once, FlagsCount, OncePerConnection
  <2> QED BY <1>3, <2>2, <2>3, <2>4, <2>5 DEF Resolves
<1>4. CASE Hears
  <2>1. events = <<>>
    BY <1>4 DEF Hears
  <2>2. CASE Becomes(session, <<"AuthError">>, FALSE)
    <3> DEFINE sends == <<"AuthError">>
    <3>1. sends \in Seq(Events) /\ \A i \in 1..Len(sends) : sends[i] \notin {"Registered", "Confirmed"}
      BY DEF Events
    <3> QED BY <1>2, <2>2, <3>1
  <2>3. CASE session = "live" /\ Becomes(session, <<"Confirmed">>, FALSE)
    <3>1. session' = session /\ failed' = FALSE /\ events' = <<"Confirmed">>
          /\ UNCHANGED <<said, chat, pages, connectionState>>
      BY <2>1, <2>3 DEF Becomes, history
    <3>2. connectionState = 2 /\ ~Queues("Registered")
      BY <2>1, <2>3 DEF Once, WelcomedOnce, Queues
    <3>3. ~Queues("Registered")' /\ \A i \in 1..Len(events') : i = 1
      BY <3>1 DEF Queues
    <3>4. WelcomedOnce'
      BY <2>3, <3>1, <3>2, <3>3 DEF WelcomedOnce, Welcoming
    <3>5. ConfirmedInTime'
      BY <2>3, <3>1, <3>2, <3>3 DEF ConfirmedInTime, Welcoming
    <3> QED BY <3>1, <3>4, <3>5 DEF Once, FlagsCount, OncePerConnection
  <2> QED BY <1>4, <2>2, <2>3 DEF Hears
<1>5. CASE Drops
  <2> DEFINE sends == <<"Disconnected">>
  <2>1. sends \in Seq(Events) /\ \A i \in 1..Len(sends) : sends[i] \notin {"Registered", "Confirmed"}
    BY DEF Events
  <2> QED BY <1>2, <1>5, <2>1 DEF Drops
<1> QED BY <1>3, <1>4, <1>5 DEF SessionStep

\* A new session has been told nothing; one that was ended delivers nothing.
LEMMA ConnectOnce ==
  ASSUME NEW who, ConnectServer(who)
  PROVE  Once'
<1>1. /\ session' = "connecting" /\ events' = <<"Connecting">> /\ failed' = FALSE
      /\ connectionState' = 1 /\ said' = Silence
  BY DEF ConnectServer
<1>2. ~Queues("Registered")' /\ ~Queues("Confirmed")'
  BY <1>1 DEF Queues
<1>3. WelcomedOnce' /\ ConfirmedInTime'
  BY <1>1, <1>2 DEF WelcomedOnce, ConfirmedInTime, Welcoming, Queues
<1> QED BY <1>1, <1>3 DEF Once, FlagsCount, OncePerConnection, Silence

LEMMA DisconnectOnce ==
  ASSUME Once, NEW leaving, NEW ticking, DisconnectServer(leaving, ticking)
  PROVE  Once'
<1>1. /\ session' = "none" /\ events' = <<>> /\ failed' = FALSE
      /\ connectionState' = 0 /\ said' = said
  BY DEF DisconnectServer, StateDisconnected
<1>2. \A e : ~Queues(e)'
  BY <1>1 DEF Queues
<1>3. WelcomedOnce' /\ ConfirmedInTime'
  BY <1>1, <1>2 DEF WelcomedOnce, ConfirmedInTime, Welcoming
<1> QED BY <1>1, <1>3 DEF Once, FlagsCount, OncePerConnection

\* The link is left alone, and nothing said before the flags say so.
LEMMA PagesOnce ==
  ASSUME Once, UNCHANGED <<session, events, failed, connectionState>>,
         FlagsCount', OncePerConnection', connectionState = 2 \/ said' = said
  PROVE  Once'
<1>1. \A e : Queues(e)' <=> Queues(e)
  BY DEF Queues
<1>2. WelcomedOnce' /\ ConfirmedInTime'
  BY <1>1 DEF Once, WelcomedOnce, ConfirmedInTime, Welcoming
<1> QED BY <1>2 DEF Once

LEMMA PageStepOnce == IInv /\ Once /\ (IdentifyTimer \/ Back \/ OpenSettings) => Once'
<1> SUFFICES ASSUME IInv, Once, IdentifyTimer \/ Back \/ OpenSettings PROVE Once'
  OBVIOUS
<1>1. TypeOK /\ TimersMatchState /\ IdentifyingPage
  BY DEF IInv
<1>2. CASE IdentifyTimer
  <2> DEFINE c == [chat EXCEPT !.identifying = FALSE]
  <2>1. /\ ApplyAutojoin(c, said) /\ chat.identifying
        /\ UNCHANGED <<session, events, failed, connectionState, pages>>
    BY <1>2 DEF IdentifyTimer, link
  <2>2. connectionState = 2 /\ "chat" \in pages
    BY <1>1, <2>1 DEF TimersMatchState, IdentifyingPage
  <2>3. c \in ChatFlags /\ said \in Saying
        /\ c.autojoinDone = chat.autojoinDone /\ c.ghostDone = chat.ghostDone
    BY <1>1 DEF TypeOK, ChatFlags, Saying
  <2>4. /\ chat'.autojoinDone /\ chat'.ghostDone = c.ghostDone
        /\ said'.autojoins <= 1 /\ said'.ghosts = said.ghosts
    BY <2>1, <2>2, <2>3, ApplyAutojoinCounts DEF Once, FlagsCount, OncePerConnection
  <2>5. FlagsCount' /\ OncePerConnection'
    BY <2>1, <2>2, <2>3, <2>4 DEF Once, FlagsCount, OncePerConnection
  <2> QED BY <2>1, <2>2, <2>5, PagesOnce
<1>3. CASE Back
  <2>1. /\ UNCHANGED <<session, events, failed, connectionState, said>>
        /\ pages # {} /\ ("settings" \in pages \/ connectionState # 2)
        /\ pages' = Pop /\ chat' = IF "chat" \in pages' THEN chat ELSE NewPage
    BY <1>3 DEF Back, link, history
  <2>2. connectionState = 2 /\ "chat" \in pages => "chat" \in pages' /\ chat' = chat
    BY <2>1 DEF Pop
  <2>3. FlagsCount' /\ OncePerConnection'
    BY <2>1, <2>2 DEF Once, FlagsCount, OncePerConnection
  <2> QED BY <2>1, <2>3, PagesOnce
<1>4. CASE OpenSettings
  <2>1. /\ UNCHANGED <<session, events, failed, connectionState, said, chat>>
        /\ pages' = pages \cup {"settings"}
    BY <1>4 DEF OpenSettings, link, history
  <2>2. FlagsCount' /\ OncePerConnection'
    BY <2>1 DEF Once, FlagsCount, OncePerConnection
  <2> QED BY <2>1, <2>2, PagesOnce
<1> QED BY <1>2, <1>3, <1>4

LEMMA StepOnce == IInv /\ Once /\ [Next]_vars => Once'
<1> SUFFICES ASSUME IInv, Once, [Next]_vars PROVE Once'
  OBVIOUS
<1>1. CASE TryReconnect
  <2>1. CASE userDisconnect \/ ~lastHost
    <3>1. UNCHANGED <<session, events, failed, connectionState, said, chat, pages>>
      BY <1>1, <2>1 DEF TryReconnect, link
    <3>2. FlagsCount' /\ OncePerConnection'
      BY <3>1 DEF Once, FlagsCount, OncePerConnection
    <3> QED BY <3>1, <3>2, PagesOnce
  <2>2. CASE ~(userDisconnect \/ ~lastHost)
    BY <1>1, <2>2, ConnectOnce DEF TryReconnect
  <2> QED BY <2>1, <2>2
<1>2. CASE FormConnect \/ TrayConnect
  BY <1>2, ConnectOnce DEF FormConnect, TrayConnect
<1>3. CASE FormCancel \/ MenuDisconnect \/ CmdQuit \/ TrayDisconnect
  BY <1>3, DisconnectOnce DEF FormCancel, MenuDisconnect, CmdQuit, TrayDisconnect
<1>4. CASE UNCHANGED vars
  <2>1. UNCHANGED <<session, events, failed, connectionState, said, chat, pages>>
    BY <1>4 DEF vars, link, history
  <2>2. FlagsCount' /\ OncePerConnection'
    BY <2>1 DEF Once, FlagsCount, OncePerConnection
  <2> QED BY <2>1, <2>2, PagesOnce
<1> QED
  BY <1>1, <1>2, <1>3, <1>4, DeliverOnce, DeliverFailedOnce, SessionOnce, PageStepOnce
     DEF Next, UserStep

-----------------------------------------------------------------------------
(* The theorems *)

LEMMA StepInv == IInv /\ [Next]_vars => IInv'
<1> SUFFICES ASSUME IInv, [Next]_vars PROVE IInv'
  OBVIOUS
<1>1. CASE Next
  BY <1>1, DeliverKeeps, DeliverFailedKeeps, SessionStepKeeps, TryReconnectKeeps,
     FormConnectKeeps, TrayConnectKeeps, LeaveKeeps, PageStepKeeps DEF Next, UserStep
<1>2. CASE UNCHANGED vars
  <2>1. UNCHANGED <<prefs, userDisconnect, reconnectAttempt, lastDropWasAuthFailure,
                    reconnectTimer, lastHost, pages, connectionState, session, events, failed,
                    chat, request, startedBy, retryRefused, said>>
    BY <1>2 DEF vars, window, link, history
  <2>2. Rest' /\ Flags'
    <3>1. Rest'
      BY <2>1 DEF IInv, TypeOK, Rest
    <3>2. Flags'
      BY <2>1 DEF IInv, TypeOK, Flags
    <3> QED BY <3>1, <3>2
  <2>3. QueueFits' /\ RefusalIsKnown' /\ TimerIsSpent'
    BY <2>1 DEF IInv, QueueFits, RefusalIsKnown, TimerIsSpent
  <2>4. Left' /\ IdentifyingPage' /\ TimersMatchState'
    BY <2>1 DEF IInv, Left, IdentifyingPage, TimersMatchState
  <2> QED BY <2>2, <2>3, <2>4, TypePartsNext DEF IInv
<1> QED BY <1>1, <1>2

\* Whatever the settings, the user, the server and the two timers do, in any order,
\* the inductive invariant holds.
THEOREM Invariance == Spec => []IInv
<1>1. IInv /\ [Next]_vars => IInv'
  BY StepInv
<1> QED BY InitInv, <1>1, PTL DEF Spec

\* Every variable keeps its type; above all, reconnectAttempt never passes the limit.
THEOREM TypeCorrect == Spec => []TypeOK
<1>1. IInv => TypeOK
  BY DEF IInv
<1> QED BY Invariance, <1>1, PTL

\* Who left through the menu, /quit or [cancel] stays out, a timer still running or not.
THEOREM LeavingIsFinalHolds == Spec => []LeavingIsFinal
<1>1. IInv => LeavingIsFinal
  BY DEF IInv, Left, LeavingIsFinal
<1> QED BY Invariance, <1>1, PTL

\* A password refused to the timer is not sent by it again, without the opt-in: the
\* AuthError that precedes the Disconnected has told the window by then.
THEOREM BadPasswordNotRepeatedHolds == Spec => []BadPasswordNotRepeated
<1>1. IInv => BadPasswordNotRepeated
  BY DEF IInv, TimerIsSpent, BadPasswordNotRepeated
<1> QED BY Invariance, <1>1, PTL

\* Neither timer outlives the connection state it belongs to.
THEOREM TimersMatchStateHolds == Spec => []TimersMatchState
<1>1. IInv => TimersMatchState
  BY DEF IInv
<1> QED BY Invariance, <1>1, PTL

\* However often NickServ confirms, whenever the grace period ends and whichever pages
\* come and go, a session is sent one GHOST and one autojoin at most.
THEOREM OncePerConnectionHolds == Spec => []OncePerConnection
<1>1. IInv /\ Once /\ [Next]_vars => Once'
  BY StepOnce
<1>2. Spec => []Once
  BY Invariance, InitOnce, <1>1, PTL DEF Spec
<1>3. Once => OncePerConnection
  BY DEF Once
<1> QED BY <1>2, <1>3, PTL
=============================================================================
