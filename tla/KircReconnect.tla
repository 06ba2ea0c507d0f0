---------------------------- MODULE KircReconnect ----------------------------
(***************************************************************************)
(* When kIRC connects by itself: the window (main.qml), its pages, the     *)
(* tray (cpp/kirctray.cpp) and what ChatPage.qml sends a new session, over *)
(* the signals of IrcBridge.                                               *)
(*                                                                         *)
(* Every handler runs to its end on the Qt thread, the signals it emits    *)
(* included: state_changed reaches the window first, then the chat page if *)
(* it was open when the signal was emitted.  In between, the session only  *)
(* adds to what the bridge will deliver: `events` through the pump and     *)
(* `failed`, the closure of a run_session that returned Err, in no order.  *)
(* What a replaced session still sends is dropped (KircBridge), so both    *)
(* are those of the current session.                                       *)
(*                                                                         *)
(* Left out: texts, the backoff interval, and pendingJoins, the channels   *)
(* that refused us and are asked again together with the autojoin.         *)
(***************************************************************************)
EXTENDS Naturals, Sequences

CONSTANT
  Prefs     \* the settings a run starts from, see PrefsAssumption

\* limit 0 retries for ever; from 3 s * 2^4 on the interval stays 30 s, so an
\* unlimited count need not be told apart above that.
SteadyAttempt == 4

ASSUME PrefsAssumption ==
  Prefs \subseteq [reconnect : BOOLEAN, reconnectLimit : Nat,
                   reconnectAfterAuthFailure : BOOLEAN, identifyOnConnect : BOOLEAN]

VARIABLES
  prefs,
  userDisconnect, reconnectAttempt, lastDropWasAuthFailure,
  reconnectTimer,         \* it is running
  lastHost,               \* it is not ""
  pages,                  \* open above the connection form; settings are on top
  connectionState,        \* 0 Disconnected, 1 Connecting, 2 Connected
  session, events, failed,
  chat,                   \* the flags of ChatPage and its identifyTimer
  request, startedBy,     \* history: the user's last word; who called connect_server
  retryRefused,           \* history: the server refused a password the timer sent
  said                    \* history: what the chat page sent this session

window  == <<userDisconnect, reconnectAttempt, lastDropWasAuthFailure, reconnectTimer, lastHost>>
link    == <<session, events, failed>>
history == <<request, startedBy, retryRefused, said>>
vars    == <<prefs, window, pages, connectionState, link, chat, history>>

Events   == {"Connecting", "Registered", "AuthError", "Confirmed", "Disconnected"}
Sessions == {"none", "connecting", "live", "refused", "over"}
NewPage  == [autojoinDone |-> FALSE, ghostDone |-> FALSE, identifying |-> FALSE]
Silence  == [identified |-> FALSE, autojoins |-> 0, ghosts |-> 0]

-----------------------------------------------------------------------------
(* The pages, and what the chat page sends *)

Pop == IF "settings" \in pages THEN pages \ {"settings"} ELSE {}

\* openChat and ensureChatVisible: nothing is pushed over another page.
OpenChat == IF pages = {} THEN {"chat"} ELSE pages

\* applyAutojoin, for a page c that has said s.
ApplyAutojoin(c, s) ==
  /\ chat' = [c EXCEPT !.autojoinDone = TRUE]
  /\ said' = IF c.autojoinDone THEN s ELSE [s EXCEPT !.autojoins = @ + 1]

\* state_changed(2) in the chat page: reset the flags, startIdentifyAndJoin.
StartIdentifyAndJoin ==
  LET c == [chat EXCEPT !.autojoinDone = FALSE, !.ghostDone = FALSE]
  IN  IF prefs.identifyOnConnect
      THEN /\ chat' = [c EXCEPT !.identifying = TRUE]
           /\ said' = [said EXCEPT !.identified = TRUE]
      ELSE ApplyAutojoin(c, said)

\* Mutant: GHOST at every confirmation.
IdentifyConfirmedEachTime ==
  LET c == [chat EXCEPT !.identifying = FALSE]
  IN  \/ ApplyAutojoin(c, said)
      \/ ~chat.ghostDone /\ ApplyAutojoin(c, [said EXCEPT !.ghosts = @ + 1])

\* Mutant: the confirmation stops the timer and leaves joining to it.
IdentifyConfirmedNoJoin ==
  /\ chat' = [chat EXCEPT !.identifying = FALSE, !.ghostDone = TRUE]
  /\ \/ UNCHANGED said
     \/ ~chat.ghostDone /\ said' = [said EXCEPT !.ghosts = @ + 1]

\* NickServ confirms: stop the timer, GHOST once unless we have the nick, and join.
IdentifyConfirmed ==
  LET c == [chat EXCEPT !.identifying = FALSE, !.ghostDone = TRUE]
  IN  \/ ApplyAutojoin(c, said)
      \/ ~chat.ghostDone /\ ApplyAutojoin(c, [said EXCEPT !.ghosts = @ + 1])

IdentifyTimer ==
  /\ chat.identifying
  /\ ApplyAutojoin([chat EXCEPT !.identifying = FALSE], said)
  /\ UNCHANGED <<prefs, window, pages, connectionState, link, request, startedBy, retryRefused>>

-----------------------------------------------------------------------------
(* onState_changed of the window and of the chat page *)

CountAttempt ==
  reconnectAttempt' = IF prefs.reconnectLimit = 0 /\ reconnectAttempt >= SteadyAttempt
                      THEN reconnectAttempt ELSE reconnectAttempt + 1

\* Mutant: one attempt more than the limit.
StateDisconnectedOneMore(leaving, ticking) ==
  LET retry == ~leaving /\ prefs.reconnect /\ lastHost
      held  == lastDropWasAuthFailure /\ ~prefs.reconnectAfterAuthFailure
      spent == prefs.reconnectLimit > 0 /\ reconnectAttempt > prefs.reconnectLimit
  IN  /\ connectionState' = 0
      /\ chat' = NewPage
      /\ lastDropWasAuthFailure' = (lastDropWasAuthFailure /\ ~(retry /\ held))
      /\ IF retry /\ ~held /\ ~spent
         THEN CountAttempt /\ reconnectTimer' = TRUE /\ UNCHANGED pages
         ELSE reconnectTimer' = ticking /\ pages' = Pop /\ UNCHANGED reconnectAttempt

\* Mutant: an authentication failure is retried like any other.
StateDisconnectedRetriesAll(leaving, ticking) ==
  LET retry == ~leaving /\ prefs.reconnect /\ lastHost
      spent == prefs.reconnectLimit > 0 /\ reconnectAttempt >= prefs.reconnectLimit
  IN  /\ connectionState' = 0
      /\ chat' = NewPage
      /\ UNCHANGED lastDropWasAuthFailure
      /\ IF retry /\ ~spent
         THEN CountAttempt /\ reconnectTimer' = TRUE /\ UNCHANGED pages
         ELSE reconnectTimer' = ticking /\ pages' = Pop /\ UNCHANGED reconnectAttempt

\* state_changed(0) to a window that has been told to leave or not; `ticking` says
\* whether the timer runs by then.
StateDisconnected(leaving, ticking) ==
  LET retry == ~leaving /\ prefs.reconnect /\ lastHost
      held  == lastDropWasAuthFailure /\ ~prefs.reconnectAfterAuthFailure
      spent == prefs.reconnectLimit > 0 /\ reconnectAttempt >= prefs.reconnectLimit
  IN  /\ connectionState' = 0
      /\ chat' = NewPage
      /\ lastDropWasAuthFailure' = (lastDropWasAuthFailure /\ ~(retry /\ held))
      /\ IF retry /\ ~held /\ ~spent
         THEN CountAttempt /\ reconnectTimer' = TRUE /\ UNCHANGED pages
         ELSE reconnectTimer' = ticking /\ pages' = Pop /\ UNCHANGED reconnectAttempt

\* Mutant: the timer is left running.
StateConnectedTicking ==
  /\ connectionState' = 2
  /\ reconnectAttempt' = 0 /\ lastDropWasAuthFailure' = FALSE /\ UNCHANGED reconnectTimer
  /\ pages' = OpenChat
  /\ IF "chat" \in pages THEN StartIdentifyAndJoin ELSE UNCHANGED <<chat, said>>

\* state_changed(2).  A chat page that opens here is too late for this signal.
StateConnected ==
  /\ connectionState' = 2
  /\ reconnectAttempt' = 0 /\ lastDropWasAuthFailure' = FALSE /\ reconnectTimer' = FALSE
  /\ pages' = OpenChat
  /\ IF "chat" \in pages THEN StartIdentifyAndJoin ELSE UNCHANGED <<chat, said>>

-----------------------------------------------------------------------------
(* The bridge: connect_server, disconnect_server, and what it delivers *)

ConnectServer(who) ==
  /\ session' = "connecting" /\ events' = <<"Connecting">> /\ failed' = FALSE
  /\ connectionState' = 1
  /\ startedBy' = who /\ said' = Silence

DisconnectServer(leaving, ticking) ==
  /\ session' = "none" /\ events' = <<>> /\ failed' = FALSE
  /\ StateDisconnected(leaving, ticking)
  /\ UNCHANGED <<startedBy, retryRefused, said>>

DeliverConnecting ==
  /\ events # <<>> /\ Head(events) = "Connecting" /\ events' = Tail(events)
  /\ connectionState' = 1
  /\ UNCHANGED <<prefs, window, pages, session, failed, chat, history>>

DeliverRegistered ==
  /\ events # <<>> /\ Head(events) = "Registered" /\ events' = Tail(events)
  /\ StateConnected
  /\ UNCHANGED <<prefs, userDisconnect, lastHost, session, failed, request, startedBy, retryRefused>>

\* An error whose text looksLikeAuthFailure.
DeliverAuthError ==
  /\ events # <<>> /\ Head(events) = "AuthError" /\ events' = Tail(events)
  /\ lastDropWasAuthFailure' = TRUE
  /\ UNCHANGED <<prefs, userDisconnect, reconnectAttempt, reconnectTimer, lastHost>>
  /\ UNCHANGED <<pages, connectionState, session, failed, chat, history>>

DeliverConfirmed ==
  /\ events # <<>> /\ Head(events) = "Confirmed" /\ events' = Tail(events)
  /\ IF "chat" \in pages THEN IdentifyConfirmed ELSE UNCHANGED <<chat, said>>
  /\ UNCHANGED <<prefs, window, pages, connectionState, session, failed,
                 request, startedBy, retryRefused>>

DeliverDisconnected ==
  /\ events # <<>> /\ Head(events) = "Disconnected" /\ events' = Tail(events)
  /\ StateDisconnected(userDisconnect, reconnectTimer)
  /\ retryRefused' = (retryRefused \/ (session = "refused" /\ startedBy = "timer"))
  /\ UNCHANGED <<prefs, userDisconnect, lastHost, session, failed, request, startedBy, said>>

\* Its error text speaks of the socket, so it is not taken for a failed login.
DeliverFailed ==
  /\ failed /\ failed' = FALSE
  /\ StateDisconnected(userDisconnect, reconnectTimer)
  /\ UNCHANGED <<prefs, userDisconnect, lastHost, session, events, history>>

-----------------------------------------------------------------------------
(* The session: KircSession and KircBridge, as far as the policy can tell *)

Becomes(state, sends, err) ==
  /\ session' = state /\ events' = events \o sends /\ failed' = err
  /\ UNCHANGED <<prefs, window, pages, connectionState, chat, history>>

\* connect() fails, a registration line is not written, the server refuses the
\* password, hangs up, or welcomes us.
Resolves ==
  /\ session = "connecting"
  /\ \/ Becomes("over", <<"Disconnected">>, TRUE)
     \/ Becomes("over", <<>>, TRUE)
     \/ Becomes("refused", <<"AuthError", "Disconnected">>, FALSE)
     \/ Becomes("over", <<"Disconnected">>, FALSE)
     \/ Becomes("live", <<"Registered">>, FALSE)

\* Any error text may look like a failed login; NickServ may confirm more than once.
Hears ==
  /\ events = <<>>
  /\ \/ session \in {"connecting", "live"} /\ Becomes(session, <<"AuthError">>, FALSE)
     \/ session = "live" /\ Becomes(session, <<"Confirmed">>, FALSE)

Drops == session = "live" /\ Becomes("over", <<"Disconnected">>, FALSE)

-----------------------------------------------------------------------------
(* The reconnect timer and the user *)

\* Mutant: the timer connects whatever the user said since.
TryReconnectAnyway ==
  /\ reconnectTimer /\ reconnectTimer' = FALSE
  /\ ConnectServer("timer")
  /\ UNCHANGED <<prefs, userDisconnect, reconnectAttempt, lastDropWasAuthFailure, lastHost>>
  /\ UNCHANGED <<pages, chat, request, retryRefused>>

\* Mutant: every attempt starts the count afresh.
TryReconnectAfresh ==
  /\ reconnectTimer /\ reconnectTimer' = FALSE
  /\ reconnectAttempt' = 0
  /\ IF userDisconnect \/ ~lastHost
     THEN UNCHANGED <<connectionState, link, startedBy, said>>
     ELSE ConnectServer("timer")
  /\ UNCHANGED <<prefs, userDisconnect, lastDropWasAuthFailure, lastHost>>
  /\ UNCHANGED <<pages, chat, request, retryRefused>>

\* reconnectTimer, tryReconnect.
TryReconnect ==
  /\ reconnectTimer /\ reconnectTimer' = FALSE
  /\ IF userDisconnect \/ ~lastHost
     THEN UNCHANGED <<connectionState, link, startedBy, said>>
     ELSE ConnectServer("timer")
  /\ UNCHANGED <<prefs, userDisconnect, reconnectAttempt, lastDropWasAuthFailure, lastHost>>
  /\ UNCHANGED <<pages, chat, request, retryRefused>>

\* [connect] of the form.
FormConnect ==
  /\ pages = {} /\ connectionState # 1
  /\ userDisconnect' = FALSE /\ lastDropWasAuthFailure' = FALSE /\ reconnectAttempt' = 0
  /\ reconnectTimer' = FALSE /\ lastHost' = TRUE
  /\ ConnectServer("user")
  /\ pages' = OpenChat
  /\ request' = "connect" /\ retryRefused' = FALSE
  /\ UNCHANGED <<prefs, chat>>

\* [cancel] of the form.
FormCancel ==
  /\ pages = {} /\ connectionState = 1
  /\ userDisconnect' = TRUE
  /\ DisconnectServer(TRUE, reconnectTimer)
  /\ request' = "leave"
  /\ UNCHANGED <<prefs, lastHost>>

MenuDisconnect ==
  /\ connectionState # 0
  /\ userDisconnect' = TRUE
  /\ DisconnectServer(TRUE, FALSE)
  /\ request' = "leave"
  /\ UNCHANGED <<prefs, lastHost>>

\* /quit, typed in the chat page: its input is enabled while connected.
CmdQuit ==
  /\ pages = {"chat"} /\ connectionState = 2
  /\ userDisconnect' = TRUE
  /\ DisconnectServer(TRUE, reconnectTimer)
  /\ request' = "leave"
  /\ UNCHANGED <<prefs, lastHost>>

TrayConnect ==
  /\ connectionState = 0
  /\ userDisconnect' = FALSE /\ lastHost' = TRUE
  /\ ConnectServer("user")
  /\ request' = "connect" /\ retryRefused' = FALSE
  /\ UNCHANGED <<prefs, reconnectAttempt, lastDropWasAuthFailure, reconnectTimer, pages, chat>>

TrayDisconnect ==
  /\ connectionState # 0
  /\ DisconnectServer(userDisconnect, reconnectTimer)
  /\ request' = "trayLeave"
  /\ UNCHANGED <<prefs, userDisconnect, lastHost>>

\* [back]: not offered on the chat page of a live session.
Back ==
  /\ pages # {} /\ ("settings" \in pages \/ connectionState # 2)
  /\ pages' = Pop
  /\ chat' = IF "chat" \in pages' THEN chat ELSE NewPage
  /\ UNCHANGED <<prefs, window, connectionState, link, history>>

OpenSettings ==
  /\ pages' = pages \cup {"settings"}
  /\ UNCHANGED <<prefs, window, connectionState, link, chat, history>>

-----------------------------------------------------------------------------
Init ==
  /\ prefs \in Prefs
  /\ userDisconnect = FALSE /\ reconnectAttempt = 0 /\ lastDropWasAuthFailure = FALSE
  /\ reconnectTimer = FALSE /\ lastHost = FALSE
  /\ pages = {} /\ connectionState = 0
  /\ session = "none" /\ events = <<>> /\ failed = FALSE
  /\ chat = NewPage
  /\ request = "none" /\ startedBy = "user" /\ retryRefused = FALSE /\ said = Silence

Deliver ==
  \/ DeliverConnecting \/ DeliverRegistered \/ DeliverAuthError
  \/ DeliverConfirmed \/ DeliverDisconnected
SessionStep == Resolves \/ Hears \/ Drops
UserStep ==
  \/ FormConnect \/ FormCancel \/ MenuDisconnect \/ CmdQuit
  \/ TrayConnect \/ TrayDisconnect \/ Back \/ OpenSettings

Next == Deliver \/ DeliverFailed \/ SessionStep \/ TryReconnect \/ IdentifyTimer \/ UserStep

Spec == Init /\ [][Next]_vars

\* Qt runs its queue and its timers; an attempt to connect ends (KircSession:
\* RegistrationResolves).  Nothing is assumed of the user, or of a live session.
Fairness ==
  /\ WF_vars(Deliver) /\ WF_vars(DeliverFailed)
  /\ WF_vars(TryReconnect) /\ WF_vars(IdentifyTimer)
  /\ WF_vars(Resolves)

FairSpec == Spec /\ Fairness

-----------------------------------------------------------------------------
(* Properties *)

TypeOK ==
  /\ prefs \in Prefs
  /\ userDisconnect \in BOOLEAN /\ lastDropWasAuthFailure \in BOOLEAN
  /\ reconnectTimer \in BOOLEAN /\ lastHost \in BOOLEAN
  /\ reconnectAttempt \in Nat
  /\ reconnectAttempt <= IF prefs.reconnectLimit = 0 THEN SteadyAttempt ELSE prefs.reconnectLimit
  /\ pages \subseteq {"chat", "settings"} /\ connectionState \in 0..2
  /\ session \in Sessions /\ events \in Seq(Events) /\ failed \in BOOLEAN
  /\ chat \in [autojoinDone : BOOLEAN, ghostDone : BOOLEAN, identifying : BOOLEAN]
  /\ request \in {"none", "connect", "leave", "trayLeave"}
  /\ startedBy \in {"user", "timer"} /\ retryRefused \in BOOLEAN
  /\ said \in [identified : BOOLEAN, autojoins : Nat, ghosts : Nat]

\* Whoever left through the window (the menu, /quit or [cancel]) stays out: no
\* session is up or under way until the user connects again, although [cancel]
\* leaves a running timer alone.
LeavingIsFinal == request = "leave" => session = "none" /\ connectionState = 0

\* A password the server refused when the timer sent it is not sent by the timer
\* again, unless the user opted in: no 904 loop.
BadPasswordNotRepeated ==
  retryRefused /\ ~prefs.reconnectAfterAuthFailure => ~reconnectTimer

\* Neither timer outlives the state it belongs to: the reconnect timer never replaces
\* a live session, and the grace period of one session never joins in another.
TimersMatchState ==
  /\ reconnectTimer => connectionState # 2
  /\ chat.identifying => connectionState = 2

\* "exactly once per connection": however often NickServ confirms and whenever the
\* grace period ends, a session sees one GHOST and one autojoin at most.
OncePerConnection == said.ghosts <= 1 /\ said.autojoins <= 1

\* At rest: nothing will happen until the user acts.  (What the header then shows may
\* be Connecting, see Overtaken in KircBridge.)
Resting ==
  session \notin {"connecting", "live"} /\ ~reconnectTimer /\ events = <<>> /\ ~failed

\* "a dead network cannot retry forever": with a limit, and a user who does nothing
\* any more, the client again and again is connected, or it rests.
GivesUp ==
  prefs.reconnectLimit > 0 /\ <>[][~UserStep]_vars
    => []<>(connectionState = 2 \/ Resting)

\* A NickServ that never answers does not keep a session out of its channels.
JoinsEventually ==
  said.identified /\ connectionState = 2 ~> said.autojoins > 0 \/ connectionState # 2

\* The tray's connect policy "must match the UI's": whoever disconnects there is not
\* connected again by the timer.
TrayLeavingIsFinal == request = "trayLeave" => session = "none"

\* "A live session must always be reachable from the current page": it is never
\* stranded on the connection form.
LiveIsReachable == connectionState = 2 => pages # {}
=============================================================================
