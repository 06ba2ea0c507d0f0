---------------------------- MODULE KircSession ----------------------------
(***************************************************************************)
(* One run of run_session (rust/core/src/session.rs): connect, register,   *)
(* then serve server lines, UI commands and two timers from one select     *)
(* loop until the session stops.                                           *)
(*                                                                         *)
(* The server is unconstrained here: any line of ServerLines may arrive at *)
(* any time, any write may fail.  KircRegistration composes the same       *)
(* handlers with a server that follows the protocol.                       *)
(*                                                                         *)
(* One action is one turn of the loop.  `sent` and `emitted` hold what     *)
(* that turn wrote to the socket and to the event channel, so that the     *)
(* composing modules can carry both further.  should_stop is pc =          *)
(* "closing": every caller of a handler tests it as soon as the handler    *)
(* returns.  Message text, batches, NAMES and channel modes are not here.  *)
(***************************************************************************)
EXTENDS Naturals, Sequences

CONSTANTS
  Caps,             \* capability names (DEFAULT_CAPS in the code)
  CapLists,         \* bound: the lists a CAP line of the server may carry
  Nicks,            \* nicknames
  AlternateNick,    \* alternate_nick: [Nicks -> [attempt -> Nicks]]
  ExtraCaps,        \* ConnectionConfig.request_caps
  Configs,          \* the configurations the run starts from
  MaxNickAttempts,  \* MAX_ATTEMPTS, 4 in the code
  MaxMissedPongs,   \* MAX_MISSED_PONGS, 2 in the code
  MaxInbox,         \* bound: capacity of the command channel (128 in the bridge)
  WritesMayFail     \* FALSE: the socket takes every line it is given

\* The capabilities the engine treats specially; the others stand for each other.
ASSUME CapsAssumption ==
  {"sasl", "echo-message"} \subseteq Caps /\ CapLists \subseteq SUBSET Caps
ASSUME NickAssumption ==
  AlternateNick \in [Nicks -> [1..MaxNickAttempts -> Nicks]]
ASSUME LimitAssumption ==
  /\ MaxNickAttempts \in Nat \ {0}
  /\ MaxMissedPongs \in Nat \ {0}
  /\ MaxInbox \in Nat
  /\ WritesMayFail \in BOOLEAN
ASSUME ConfigAssumption ==
  /\ ExtraCaps \subseteq Caps
  /\ Configs \subseteq
       [sasl : BOOLEAN, mech : {"plain", "scram"}, pass : BOOLEAN, nick : Nicks]

VARIABLES
  pc,           \* "start", "connecting", "handshake", "loop", "closing", "ended"
  result,       \* how run_session returned: "running", "ok", "err", "unheard"
  reason,       \* Session.disconnect_reason
  cfg,          \* the ConnectionConfig
  nick,         \* Session.config.nickname
  nickAttempts, \* Session.nick_attempts
  registered,   \* Session.registered
  caps,         \* CapState: [avail, acked, scramOffered]
  sasl,         \* [mech, step, active, done]: SaslClient, sasl_active, sasl_done
  capEndSent,   \* Session.cap_end_sent
  echo,         \* Session.echo_message
  outstanding,  \* Session.outstanding_ping is Some
  missed,       \* Session.missed_pongs
  silence,      \* history: keepalive ticks since the last PONG, counted until too many
  errorSaid,    \* Session.error_disconnect_emitted
  inbox,        \* the command channel
  uiGone,       \* the last command sender was dropped
  sent,         \* lines this turn wrote to the socket
  emitted,      \* events this turn sent to the UI
  disconnects   \* history: how many Disconnected events were sent

life  == <<pc, result, reason, errorSaid>>
ident == <<nick, nickAttempts, registered>>
nego  == <<caps, sasl, capEndSent, echo>>
alive == <<outstanding, missed, silence>>
ui    == <<inbox, uiGone>>
out   == <<sent, emitted, disconnects>>
vars  == <<life, cfg, ident, nego, alive, ui, out>>

-----------------------------------------------------------------------------
(* Lines, events and reasons *)

PlainLines == {"PING", "PONG", "CTCP", "INVITE", "ERROR", "OTHER", "REJECTED",
               "SASL OK", "SASL FAILED", "AUTH +", "AUTH good", "AUTH bad"}
CapLines   == {"CAP LS", "CAP LS *", "CAP ACK", "CAP NAK", "CAP NEW", "CAP DEL"}
NickLines  == {"001", "433"}

\* "REJECTED" is 463..466, "SASL OK" 900 or 903, "SASL FAILED" 904..907, "433" any
\* of 432, 433, 436 and 437; "OTHER" is every line that at most becomes an event.
ServerLines ==
  [cmd : PlainLines] \cup [cmd : CapLines, caps : CapLists, scram : BOOLEAN]
    \cup [cmd : NickLines, nick : Nicks] \cup [cmd : {"NICK"}, old : Nicks, new : Nicks]

Commands == {"PRIVMSG", "RAW", "QUIT"}

Line(c)       == [cmd |-> c]
CapReq(req)   == [cmd |-> "CAP REQ", caps |-> req]
NickLine(n)   == [cmd |-> "NICK", nick |-> n]
SaslLine(m)   == [cmd |-> "AUTHENTICATE", mech |-> m]
ClientLines   ==
  [cmd : {"CAP LS 302", "PASS", "USER", "CAP END", "PAYLOAD", "PONG",
          "PING", "REPLY", "JOIN", "COMMAND", "QUIT"}]
    \cup [cmd : {"CAP REQ"}, caps : SUBSET Caps] \cup [cmd : {"NICK"}, nick : Nicks]
    \cup [cmd : {"AUTHENTICATE"}, mech : {"plain", "scram"}]

Events == {"StateConnecting", "Registered", "Disconnected", "Error", "Info",
           "NickChanged", "Msg", "Other"}

\* Reasons a session that is not welcome gets torn down with.
RegistrationReasons == {"registration timeout", "rejected", "nick in use"}
Reasons == RegistrationReasons \cup
  {"connection closed", "write error", "read error", "eof", "quit", "client shut down",
   "ping timeout", "server error", "sasl failed", "no sasl"}

-----------------------------------------------------------------------------
(* Output and the ways a handler ends *)

Emit(events) == emitted' = events /\ UNCHANGED disconnects
EmitDisconnected(before) ==
  /\ emitted' = Append(before, "Disconnected")
  /\ disconnects' = disconnects + 1

Send(lines) == sent' = lines
\* A send whose result the code ignores.
TrySend(line) == Send(<<line>>) \/ (WritesMayFail /\ Send(<<>>))

Stay == UNCHANGED life
Stop(why) == pc' = "closing" /\ reason' = why /\ UNCHANGED <<result, errorSaid>>

\* The handler's last send, with `?`: a failed write ends the session.
SendOrBreak(line) ==
  \/ Send(<<line>>) /\ Stay
  \/ WritesMayFail /\ Send(<<>>) /\ Stop("write error")

\* Session::abort: say why, try to QUIT, stop.
Abort(why) == Emit(<<"Error">>) /\ TrySend(Line("QUIT")) /\ Stop(why)

\* maybe_send_cap_end, given what sasl_active is by then.
MaybeSendCapEnd(active) ==
  IF capEndSent \/ active
  THEN Send(<<>>) /\ UNCHANGED capEndSent
  ELSE TrySend(Line("CAP END")) /\ capEndSent' = TRUE

-----------------------------------------------------------------------------
(* Capability negotiation: handle_cap and what it calls *)

\* Without credentials sasl is not wanted, unless request_caps names it.
Wanted == (Caps \ (IF cfg.sasl THEN {} ELSE {"sasl"})) \cup ExtraCaps

\* The mechanism start_sasl picks: the SCRAM default is only a preference.
Mechanism == IF cfg.mech = "scram" /\ caps.scramOffered THEN "scram" ELSE "plain"

\* The exchange that start_sasl opens.
StartSasl ==
  /\ sasl' = [sasl EXCEPT !.mech = Mechanism, !.step = "initial", !.active = TRUE]
  /\ SendOrBreak(SaslLine(Mechanism))
  /\ UNCHANGED capEndSent

\* add_available: the mechanisms sasl is advertised with are only ever added to.
Advertise(new, scram) ==
  caps' = [caps EXCEPT !.avail = @ \cup new,
                       !.scramOffered = @ \/ ("sasl" \in new /\ scram)]

\* begin_cap_request, on the capabilities advertised by then.
BeginCapRequest(avail) ==
  LET requested == Wanted \cap avail IN
  \/ /\ cfg.sasl /\ "sasl" \notin avail
     /\ Abort("no sasl")
     /\ UNCHANGED capEndSent
  \/ /\ ~(cfg.sasl /\ "sasl" \notin avail)
     /\ Emit(<<>>)
     /\ \/ requested = {} /\ MaybeSendCapEnd(sasl.active) /\ Stay
        \/ requested # {} /\ SendOrBreak(CapReq(requested)) /\ UNCHANGED capEndSent

CapLsMore(new, scram) ==
  /\ Advertise(new, scram)
  /\ Send(<<>>) /\ Emit(<<>>) /\ Stay
  /\ UNCHANGED <<sasl, capEndSent, echo>>

CapLs(new, scram) ==
  /\ Advertise(new, scram)
  /\ BeginCapRequest(caps.avail \cup new)
  /\ UNCHANGED <<sasl, echo>>

CapAck(new) ==
  LET acked == caps.acked \cup new IN
  /\ caps' = [caps EXCEPT !.acked = acked]
  /\ echo' = (echo \/ "echo-message" \in acked)
  /\ Emit(<<>>)
  /\ IF cfg.sasl /\ "sasl" \in acked /\ ~sasl.active /\ ~sasl.done
     THEN StartSasl
     ELSE MaybeSendCapEnd(sasl.active) /\ Stay /\ UNCHANGED sasl

\* Mutant: a NAK leaves the negotiation open.
CapNakWaits(denied) ==
  /\ IF cfg.sasl /\ "sasl" \in denied
     THEN Abort("no sasl") /\ UNCHANGED capEndSent
     ELSE Send(<<>>) /\ Emit(<<>>) /\ Stay /\ UNCHANGED capEndSent
  /\ UNCHANGED <<caps, sasl, echo>>

CapNak(denied) ==
  /\ IF cfg.sasl /\ "sasl" \in denied
     THEN Abort("no sasl") /\ UNCHANGED capEndSent
     ELSE MaybeSendCapEnd(sasl.active) /\ Emit(<<>>) /\ Stay
  /\ UNCHANGED <<caps, sasl, echo>>

CapNew(new, scram) == CapLsMore(new, scram)

\* Mutant: a session that loses sasl gives up, welcome or not.
CapDelAborts(gone) ==
  /\ caps' = [caps EXCEPT !.avail = @ \ gone]
  /\ IF cfg.sasl /\ "sasl" \in gone THEN Abort("no sasl")
                                    ELSE Send(<<>>) /\ Emit(<<>>) /\ Stay
  /\ UNCHANGED <<sasl, capEndSent, echo>>

CapDel(gone) ==
  /\ caps' = [caps EXCEPT !.avail = @ \ gone]
  /\ Send(<<>>) /\ Emit(<<>>) /\ Stay
  /\ UNCHANGED <<sasl, capEndSent, echo>>

-----------------------------------------------------------------------------
(* SASL: handle_authenticate, SaslClient::initial and ::feed, and the numerics *)

\* The payload goes out, or the exchange waits, or the session gives up.
SaslPayload == SendOrBreak(Line("PAYLOAD")) /\ Emit(<<>>)
SaslWait    == Send(<<>>) /\ Emit(<<>>) /\ Stay

\* `AUTHENTICATE +` asks for the first payload, whatever the step.
AuthenticateEmpty ==
  /\ IF sasl.mech = "none" THEN SaslWait ELSE SaslPayload
  /\ sasl' = [sasl EXCEPT !.step = IF sasl.mech = "scram" THEN "await first" ELSE @]
  /\ UNCHANGED <<caps, capEndSent, echo>>

\* `AUTHENTICATE <data>`; good: what this step of the mechanism accepts.
Authenticate(good) ==
  /\ \/ /\ sasl.mech = "none"
        /\ SaslWait /\ UNCHANGED sasl
     \/ /\ sasl.mech = "plain"
        /\ SaslWait /\ sasl' = [sasl EXCEPT !.step = "done"]
     \/ /\ sasl.mech = "scram" /\ sasl.step = "await first" /\ good
        /\ SaslPayload /\ sasl' = [sasl EXCEPT !.step = "await final"]
     \/ /\ sasl.mech = "scram" /\ sasl.step = "await final" /\ good
        /\ SaslWait /\ sasl' = [sasl EXCEPT !.step = "done"]
     \/ /\ sasl.mech = "scram"
        /\ ~good \/ sasl.step \notin {"await first", "await final"}
        /\ Abort("sasl failed") /\ UNCHANGED sasl
  /\ UNCHANGED <<caps, capEndSent, echo>>

\* 900 or 903
SaslSucceeded ==
  /\ sasl' = [sasl EXCEPT !.done = TRUE, !.active = FALSE]
  /\ MaybeSendCapEnd(FALSE)
  /\ Emit(<<>>) /\ Stay
  /\ UNCHANGED <<caps, echo>>

\* Mutant: a refused login goes on without one.
SaslFailedGoesOn ==
  /\ sasl' = [sasl EXCEPT !.active = FALSE]
  /\ MaybeSendCapEnd(FALSE)
  /\ Emit(<<"Error">>) /\ Stay
  /\ UNCHANGED <<caps, echo>>

\* 904..907
SaslFailed == Abort("sasl failed") /\ UNCHANGED nego

-----------------------------------------------------------------------------
(* Registration numerics, nicknames and ERROR *)

\* 001
Welcome(n) ==
  /\ registered' = TRUE
  /\ nick' = n
  /\ Emit(<<"NickChanged", "Registered">>) /\ Send(<<>>) /\ Stay
  /\ UNCHANGED nickAttempts

\* Mutant: one attempt too many.
RetryNickLate(taken) ==
  LET attempts == nickAttempts + 1 IN
  /\ nickAttempts' = attempts
  /\ UNCHANGED registered
  /\ IF attempts > MaxNickAttempts
     THEN Abort("nick in use") /\ UNCHANGED nick
     ELSE /\ nick' = AlternateNick[taken][attempts]
          /\ Emit(<<"Info", "NickChanged">>)
          /\ TrySend(NickLine(nick'))
          /\ Stay

\* handle_nick_unavailable before 001: the numeric names the nick that is taken.
RetryNick(taken) ==
  LET attempts == nickAttempts + 1 IN
  /\ nickAttempts' = attempts
  /\ UNCHANGED registered
  /\ IF attempts >= MaxNickAttempts
     THEN Abort("nick in use") /\ UNCHANGED nick
     ELSE /\ nick' = AlternateNick[taken][attempts]
          /\ Emit(<<"Info", "NickChanged">>)
          /\ TrySend(NickLine(nick'))
          /\ Stay

\* Mutants: the fallback runs whenever a nickname is refused; it starts the
\* registration over.
NickUnavailableAlways(taken) == RetryNick(taken)
NickUnavailableRestarts(taken) ==
  IF registered
  THEN Emit(<<"Error">>) /\ Send(<<>>) /\ Stay
       /\ registered' = FALSE /\ UNCHANGED <<nick, nickAttempts>>
  ELSE RetryNick(taken)

\* 432, 433, 436 and 437; once registered it is news (Error, or JoinFailed).
NickUnavailable(taken) ==
  IF registered
  THEN emitted' \in {<<"Error">>, <<"Other">>} /\ UNCHANGED <<disconnects, ident>>
       /\ Send(<<>>) /\ Stay
  ELSE RetryNick(taken)

\* 463..466: fatal before 001, an ordinary error after it.
Rejected ==
  /\ IF registered THEN Emit(<<"Error">>) /\ Send(<<>>) /\ Stay ELSE Abort("rejected")
  /\ UNCHANGED ident

\* Mutant: everybody's NICK is taken for ours.
NickChangeAnyone(old, new) ==
  /\ nick' = new
  /\ Emit(<<"NickChanged", "Other">>)
  /\ Send(<<>>) /\ Stay
  /\ UNCHANGED <<nickAttempts, registered>>

\* Someone's NICK; ours when the old nickname is the one we go by.
NickChange(old, new) ==
  /\ nick' = IF old = nick THEN new ELSE nick
  /\ Emit(IF old = nick THEN <<"NickChanged", "Other">> ELSE <<"Other">>)
  /\ Send(<<>>) /\ Stay
  /\ UNCHANGED <<nickAttempts, registered>>

\* Mutants: the announcement is not remembered; the loop is not stopped.
ServerErrorForgotten ==
  /\ EmitDisconnected(<<"Error">>) /\ Send(<<>>)
  /\ pc' = "closing" /\ reason' = "server error"
  /\ UNCHANGED <<result, errorSaid>>
ServerErrorGoesOn ==
  /\ EmitDisconnected(<<"Error">>) /\ Send(<<>>)
  /\ errorSaid' = TRUE
  /\ UNCHANGED <<pc, reason, result>>

\* ERROR announces the end itself.
ServerError ==
  /\ EmitDisconnected(<<"Error">>) /\ Send(<<>>)
  /\ pc' = "closing" /\ reason' = "server error" /\ errorSaid' = TRUE
  /\ UNCHANGED result

-----------------------------------------------------------------------------
(* The branches of the select loop *)

\* Mutant: the misses are not forgiven.
HandlePongForgetful == outstanding' = FALSE /\ UNCHANGED missed /\ silence' = 0

\* Any PONG answers the outstanding PING.
HandlePong == outstanding' = FALSE /\ missed' = 0 /\ silence' = 0

Ping == SendOrBreak(Line("PONG")) /\ Emit(<<>>)

\* A CTCP request is shown, then answered; an ACTION and the rest are OTHER.
CtcpRequest == Emit(<<"Msg">>) /\ SendOrBreak(Line("REPLY"))

\* An invitation of ours is accepted.
Invite == Emit(<<"Info">>) /\ TrySend(Line("JOIN")) /\ Stay

\* Numerics and commands that are only passed on, or dropped.
PassOn ==
  /\ emitted' \in {<<>>, <<"Other">>} /\ UNCHANGED disconnects
  /\ Send(<<>>) /\ Stay

\* handle_line
HandleLine(m) ==
  \/ /\ m.cmd = "PONG" /\ HandlePong
     /\ Send(<<>>) /\ Emit(<<>>) /\ Stay
     /\ UNCHANGED <<ident, nego>>
  \/ m.cmd = "PING" /\ Ping /\ UNCHANGED <<ident, nego, alive>>
  \/ m.cmd = "CTCP" /\ CtcpRequest /\ UNCHANGED <<ident, nego, alive>>
  \/ m.cmd = "INVITE" /\ Invite /\ UNCHANGED <<ident, nego, alive>>
  \/ m.cmd = "OTHER" /\ PassOn /\ UNCHANGED <<ident, nego, alive>>
  \/ m.cmd = "ERROR" /\ ServerError /\ UNCHANGED <<ident, nego, alive>>
  \/ m.cmd = "REJECTED" /\ Rejected /\ UNCHANGED <<nego, alive>>
  \/ m.cmd = "001" /\ Welcome(m.nick) /\ UNCHANGED <<nego, alive>>
  \/ m.cmd = "433" /\ NickUnavailable(m.nick) /\ UNCHANGED <<nego, alive>>
  \/ m.cmd = "NICK" /\ NickChange(m.old, m.new) /\ UNCHANGED <<nego, alive>>
  \/ /\ \/ m.cmd = "CAP LS *" /\ CapLsMore(m.caps, m.scram)
        \/ m.cmd = "CAP LS" /\ CapLs(m.caps, m.scram)
        \/ m.cmd = "CAP ACK" /\ CapAck(m.caps)
        \/ m.cmd = "CAP NAK" /\ CapNak(m.caps)
        \/ m.cmd = "CAP NEW" /\ CapNew(m.caps, m.scram)
        \/ m.cmd = "CAP DEL" /\ CapDel(m.caps)
        \/ m.cmd = "AUTH +" /\ AuthenticateEmpty
        \/ m.cmd = "AUTH good" /\ Authenticate(TRUE)
        \/ m.cmd = "AUTH bad" /\ Authenticate(FALSE)
        \/ m.cmd = "SASL OK" /\ SaslSucceeded
        \/ m.cmd = "SASL FAILED" /\ SaslFailed
     /\ UNCHANGED <<ident, alive>>

ReadLine(m) ==
  /\ pc = "loop"
  /\ HandleLine(m)
  /\ UNCHANGED <<cfg, ui>>

\* End of file, or a failed read.
ReadEnds(why) ==
  /\ pc = "loop" /\ Stop(why)
  /\ Send(<<>>) /\ Emit(<<>>)
  /\ UNCHANGED <<cfg, ident, nego, alive, ui>>

\* Mutant: the QUIT goes out and the loop waits for the server to close.
QuitCommandWaits == TrySend(Line("QUIT")) /\ Emit(<<>>) /\ Stay

QuitCommand == TrySend(Line("QUIT")) /\ Emit(<<>>) /\ Stop("quit")

\* handle_command.  Without echo-message a PRIVMSG is mirrored to the UI once all
\* of it is out.  A line the engine refuses to write costs an Error, the lines of a
\* RAW before it are out by then; a failed write may follow lines that went out.
HandleCommand ==
  /\ pc = "loop" /\ inbox # <<>>
  /\ inbox' = Tail(inbox)
  /\ \/ Head(inbox) = "QUIT" /\ QuitCommand
     \/ /\ Head(inbox) # "QUIT"
        /\ \/ /\ Send(<<Line("COMMAND")>>) /\ Stay
              /\ Emit(IF Head(inbox) = "PRIVMSG" /\ ~echo THEN <<"Msg">> ELSE <<>>)
           \/ /\ IF Head(inbox) = "RAW" THEN TrySend(Line("COMMAND")) ELSE Send(<<>>)
              /\ Emit(<<"Error">>) /\ Stay
           \/ /\ WritesMayFail
              /\ TrySend(Line("COMMAND")) /\ Emit(<<>>) /\ Stop("write error")
  /\ UNCHANGED <<cfg, ident, nego, alive, uiGone>>

\* Mutant: the branch only takes Some(command).
CommandsClosedIgnored ==
  /\ pc = "loop" /\ uiGone /\ inbox = <<>>
  /\ Send(<<>>) /\ Emit(<<>>) /\ Stay
  /\ UNCHANGED <<cfg, ident, nego, alive, ui>>

\* Every command sender is gone and the channel is drained.
CommandsClosed ==
  /\ pc = "loop" /\ uiGone /\ inbox = <<>>
  /\ TrySend(Line("QUIT")) /\ Emit(<<>>) /\ Stop("client shut down")
  /\ UNCHANGED <<cfg, ident, nego, alive, ui>>

\* Mutant: the tick is not counted.
TickWithPingOutUncounted == UNCHANGED <<outstanding, missed>> /\ Send(<<>>) /\ Stay

\* handle_ping_tick when a PING is out.
TickWithPingOut ==
  /\ missed' = missed + 1
  /\ outstanding' = (missed' < MaxMissedPongs)
  /\ IF missed' < MaxMissedPongs
     THEN Send(<<>>) /\ Stay
     ELSE TrySend(Line("QUIT")) /\ Stop("ping timeout")

\* handle_ping_tick
PingTick ==
  /\ pc = "loop"
  /\ \/ /\ ~outstanding
        /\ SendOrBreak(Line("PING"))
        /\ outstanding' = (sent' # <<>>)
        /\ UNCHANGED missed
     \/ outstanding /\ TickWithPingOut
  /\ silence' = IF silence > MaxMissedPongs THEN silence ELSE silence + 1
  /\ Emit(<<>>)
  /\ UNCHANGED <<cfg, ident, nego, ui>>

\* Mutant: the deadline is dropped with CAP END.
RegistrationDeadlineCapEnd ==
  /\ pc = "loop" /\ ~registered /\ ~capEndSent
  /\ Abort("registration timeout")
  /\ UNCHANGED <<cfg, ident, nego, alive, ui>>

\* The one-shot registration deadline.
RegistrationDeadline ==
  /\ pc = "loop" /\ ~registered
  /\ Abort("registration timeout")
  /\ UNCHANGED <<cfg, ident, nego, alive, ui>>

-----------------------------------------------------------------------------
(* run_session before and after the loop *)

Init ==
  /\ pc = "start" /\ result = "running" /\ reason = "connection closed" /\ errorSaid = FALSE
  /\ cfg \in Configs
  /\ nick = cfg.nick /\ nickAttempts = 0 /\ registered = FALSE
  /\ caps = [avail |-> {}, acked |-> {}, scramOffered |-> FALSE]
  /\ sasl = [mech |-> "none", step |-> "initial", active |-> FALSE, done |-> FALSE]
  /\ capEndSent = FALSE /\ echo = FALSE
  /\ outstanding = FALSE /\ missed = 0 /\ silence = 0
  /\ inbox = <<>> /\ uiGone = FALSE
  /\ sent = <<>> /\ emitted = <<>> /\ disconnects = 0

\* StateConnecting goes out first; with nobody to hear it there is nothing to do.
Start ==
  /\ pc = "start"
  /\ \/ pc' = "connecting" /\ Emit(<<"StateConnecting">>) /\ UNCHANGED result
     \/ pc' = "ended" /\ result' = "unheard" /\ Emit(<<>>)
  /\ Send(<<>>)
  /\ UNCHANGED <<reason, errorSaid, cfg, ident, nego, alive, ui>>

\* A configuration that does not validate, a refused, failed or timed out TCP
\* connect or TLS handshake.
ConnectFails ==
  /\ pc = "connecting" /\ pc' = "ended" /\ result' = "err"
  /\ EmitDisconnected(<<"Error">>) /\ Send(<<>>)
  /\ UNCHANGED <<reason, errorSaid, cfg, ident, nego, alive, ui>>

Connected ==
  /\ pc = "connecting" /\ pc' = "handshake"
  /\ Emit(<<>>) /\ Send(<<>>)
  /\ UNCHANGED <<result, reason, errorSaid, cfg, ident, nego, alive, ui>>

RegistrationLines ==
  <<Line("CAP LS 302")>> \o (IF cfg.pass THEN <<Line("PASS")>> ELSE <<>>)
    \o <<NickLine(nick), Line("USER")>>

\* The registration lines, each with `?`: a failed write returns Err and says nothing.
Handshake ==
  /\ pc = "handshake"
  /\ \E k \in 0..Len(RegistrationLines) :
       /\ k = Len(RegistrationLines) \/ WritesMayFail
       /\ Send(SubSeq(RegistrationLines, 1, k))
       /\ IF k = Len(RegistrationLines)
          THEN pc' = "loop" /\ UNCHANGED result
          ELSE pc' = "ended" /\ result' = "err"
  /\ Emit(<<>>)
  /\ UNCHANGED <<reason, errorSaid, cfg, ident, nego, alive, ui>>

\* After the loop: Disconnected, unless ERROR said so already.
Close ==
  /\ pc = "closing" /\ pc' = "ended" /\ result' = "ok"
  /\ IF errorSaid THEN Emit(<<>>) ELSE EmitDisconnected(<<>>)
  /\ Send(<<>>)
  /\ UNCHANGED <<reason, errorSaid, cfg, ident, nego, alive, ui>>

-----------------------------------------------------------------------------
(* The UI side of the command channel *)

Enqueue(c) ==
  /\ ~uiGone /\ Len(inbox) < MaxInbox
  /\ inbox' = Append(inbox, c)
  /\ Send(<<>>) /\ Emit(<<>>)
  /\ UNCHANGED <<life, cfg, ident, nego, alive, uiGone>>

DropSender ==
  /\ ~uiGone /\ uiGone' = TRUE
  /\ Send(<<>>) /\ Emit(<<>>)
  /\ UNCHANGED <<life, cfg, ident, nego, alive, inbox>>

UserStep == DropSender \/ \E c \in Commands : Enqueue(c)

\* Everything run_session does of its own, whatever the server does.
OwnStep ==
  \/ Start \/ ConnectFails \/ Connected \/ Handshake \/ Close
  \/ HandleCommand \/ CommandsClosed \/ PingTick \/ RegistrationDeadline

ServerStep ==
  \/ \E m \in ServerLines : ReadLine(m)
  \/ \E why \in {"eof", "read error"} : ReadEnds(why)

Next == OwnStep \/ UserStep \/ ServerStep

Spec == Init /\ [][Next]_vars

\* Connecting ends within its timeouts; a ready branch of select! is polled sooner
\* or later, since the macro starts at a random branch each time; every await in a
\* handler is bounded by WRITE_TIMEOUT.  Neither the server nor the user is fair.
Fairness ==
  /\ WF_vars(Start) /\ WF_vars(ConnectFails \/ Connected) /\ WF_vars(Handshake)
  /\ WF_vars(Close) /\ WF_vars(HandleCommand) /\ WF_vars(CommandsClosed)
  /\ WF_vars(PingTick) /\ WF_vars(RegistrationDeadline)

FairSpec == Spec /\ Fairness

-----------------------------------------------------------------------------
(* Properties *)

TypeOK ==
  /\ pc \in {"start", "connecting", "handshake", "loop", "closing", "ended"}
  /\ result \in {"running", "ok", "err", "unheard"}
  /\ reason \in Reasons /\ errorSaid \in BOOLEAN
  /\ cfg \in Configs
  /\ nick \in Nicks /\ nickAttempts \in 0..MaxNickAttempts /\ registered \in BOOLEAN
  /\ caps \in [avail : SUBSET Caps, acked : SUBSET Caps, scramOffered : BOOLEAN]
  /\ sasl \in [mech : {"none", "plain", "scram"},
               step : {"initial", "await first", "await final", "done"},
               active : BOOLEAN, done : BOOLEAN]
  /\ capEndSent \in BOOLEAN /\ echo \in BOOLEAN
  /\ outstanding \in BOOLEAN /\ missed \in 0..MaxMissedPongs /\ silence \in Nat
  /\ inbox \in Seq(Commands) /\ uiGone \in BOOLEAN
  /\ sent \in Seq(ClientLines) /\ emitted \in Seq(Events) /\ disconnects \in Nat

\* A session that reached its loop tells the UI that it is over exactly once: the
\* ERROR handler and the end of run_session, which both send Disconnected, never
\* both do, and no way out of the loop skips it.
DisconnectedOnce ==
  /\ disconnects <= 1
  /\ result = "ok" => disconnects = 1

\* Nothing reaches the UI after Disconnected: no message, no second Registered, no
\* Error that would start the reconnect policy over.
SilentAfterDisconnected == [][disconnects = 1 => emitted' = <<>>]_vars

\* A session the server welcomed is never torn down for a reason of the
\* registration: a late 433 or 437, a 463..466, the deadline.
WelcomeIsFinal == reason \in RegistrationReasons => ~registered

\* A peer is given up only after more than MaxMissedPongs ticks without a PONG:
\* misses of different PINGs never add up, and a PONG that crosses a tick counts.
NoFalseTimeout == reason = "ping timeout" => silence > MaxMissedPongs

\* A dead link is noticed: the loop never sees more than MaxMissedPongs ticks go by
\* without a PONG, whatever else it serves in between.
SilenceIsBounded == pc = "loop" => silence <= MaxMissedPongs

\* The engine is a KircConnection as the UI follows it.
Phase == IF disconnects > 0 \/ result # "running" THEN "offline"
         ELSE IF registered THEN "online" ELSE "connecting"
Connection == INSTANCE KircConnection WITH phase <- Phase
ImplementsConnection == Connection!Spec

\* Whatever the server withholds (the ACK, the 903, the 001) and whichever write
\* is lost (a CAP END the code does not retry), connecting ends.
RegistrationResolves == Connection!Resolves

\* A QUIT the user queued ends the session, behind whatever else is queued.
QuitIsHonoured == (\E i \in DOMAIN inbox : inbox[i] = "QUIT") ~> pc = "ended"

\* Once the UI dropped the command channel the session ends.
DroppedUiEnds == uiGone ~> pc = "ended"

\* A session that does not end has its PINGs answered again and again.
DeafPeerDetected == []<>(~outstanding) \/ <>(pc = "ended")
=============================================================================
