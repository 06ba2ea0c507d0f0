------------------------- MODULE KircSessionProofs -------------------------
(***************************************************************************)
(* Proofs about KircSession, for every set of capabilities, nicknames and  *)
(* configurations and every value of the limits.                           *)
(***************************************************************************)
EXTENDS KircSession, SequenceTheorems, TLAPS

\* What TypeOK and the life-cycle properties rest on: the counters are below their
\* limits while the loop runs, a tick without a PONG is either the PING that is out
\* or a counted miss, and how often Disconnected went out is a function of
\* pc, errorSaid and result.
Counted == /\ missed < MaxMissedPongs
           /\ silence = missed + (IF outstanding THEN 1 ELSE 0)

CountersBelow ==
  pc \notin {"closing", "ended"} => nickAttempts < MaxNickAttempts /\ Counted

LifeCycle ==
  /\ pc \notin {"closing", "ended"} =>
       disconnects = 0 /\ ~errorSaid /\ result = "running"
         /\ reason = "connection closed"
  /\ pc = "closing" => result = "running" /\ disconnects = IF errorSaid THEN 1 ELSE 0
  /\ pc = "ended" => result # "running"

IInv == /\ TypeOK /\ CountersBelow /\ LifeCycle
        /\ DisconnectedOnce /\ WelcomeIsFinal /\ NoFalseTimeout

-----------------------------------------------------------------------------
(* Lines *)

LEMMA LineFields ==
  ASSUME NEW m \in ServerLines
  PROVE  /\ m.cmd \in CapLines => m.caps \subseteq Caps /\ m.scram \in BOOLEAN
         /\ m.cmd \in NickLines => m.nick \in Nicks
         /\ m.cmd = "NICK" => m.old \in Nicks /\ m.new \in Nicks
<1>1. CASE m \in [cmd : PlainLines]
  BY <1>1 DEF PlainLines, CapLines, NickLines
<1>2. CASE m \in [cmd : CapLines, caps : CapLists, scram : BOOLEAN]
  BY <1>2, CapsAssumption DEF CapLines, NickLines
<1>3. CASE m \in [cmd : NickLines, nick : Nicks]
  BY <1>3 DEF CapLines, NickLines
<1>4. CASE m \in [cmd : {"NICK"}, old : Nicks, new : Nicks]
  BY <1>4 DEF CapLines, NickLines
<1> QED BY <1>1, <1>2, <1>3, <1>4 DEF ServerLines

PlainClientLines ==
  {"CAP LS 302", "PASS", "USER", "CAP END", "PAYLOAD", "PONG", "PING", "REPLY",
   "JOIN", "COMMAND", "QUIT"}

LEMMA LineIsLine ==
  ASSUME NEW c \in PlainClientLines
  PROVE  Line(c) \in ClientLines
BY DEF Line, ClientLines, PlainClientLines

LEMMA OtherLinesAreLines ==
  /\ \A req \in SUBSET Caps : CapReq(req) \in ClientLines
  /\ \A n \in Nicks : NickLine(n) \in ClientLines
  /\ \A mech \in {"plain", "scram"} : SaslLine(mech) \in ClientLines
BY DEF CapReq, NickLine, SaslLine, ClientLines

-----------------------------------------------------------------------------
(* What one turn of the loop may do.  Outcome: it stays, it stops the loop, or *)
(* it is the ERROR handler, which announces the end itself.  The other parts   *)
(* are TypeOK by groups of variables.                                          *)

StopsFor(why) == /\ Stop(why)
                 /\ why \in RegistrationReasons => ~registered'
                 /\ why = "ping timeout" => silence' > MaxMissedPongs

Outcome ==
  \/ Stay /\ UNCHANGED disconnects
  \/ (\E why \in Reasons : StopsFor(why)) /\ UNCHANGED disconnects
  \/ /\ pc' = "closing" /\ reason' = "server error" /\ errorSaid' = TRUE
     /\ disconnects' = disconnects + 1 /\ UNCHANGED result

IdentOK == /\ nick \in Nicks /\ nickAttempts \in 0..MaxNickAttempts
           /\ registered \in BOOLEAN
NegoOK  == /\ caps \in [avail : SUBSET Caps, acked : SUBSET Caps, scramOffered : BOOLEAN]
           /\ sasl \in [mech : {"none", "plain", "scram"},
                        step : {"initial", "await first", "await final", "done"},
                        active : BOOLEAN, done : BOOLEAN]
           /\ capEndSent \in BOOLEAN /\ echo \in BOOLEAN
AliveOK == outstanding \in BOOLEAN /\ missed \in 0..MaxMissedPongs /\ silence \in Nat
SentOK    == sent \in Seq(ClientLines)
EmittedOK == emitted \in Seq(Events)

LEMMA ShortSequences ==
  ASSUME NEW S, NEW a \in S, NEW b \in S
  PROVE  <<a>> \in Seq(S) /\ <<a, b>> \in Seq(S)
OBVIOUS

LEMMA SendNothing == Send(<<>>) => SentOK'
BY DEF Send, SentOK

LEMMA SendTypes ==
  ASSUME NEW line \in ClientLines
  PROVE  /\ Send(<<line>>) => SentOK'
         /\ TrySend(line) => SentOK'
         /\ SendOrBreak(line) => SentOK' /\ (Stay \/ Stop("write error"))
<1>1. Send(<<line>>) => SentOK'
  BY ShortSequences DEF Send, SentOK
<1> QED BY <1>1, SendNothing DEF TrySend, SendOrBreak

LEMMA EmitNothing == Emit(<<>>) => EmittedOK' /\ UNCHANGED disconnects
BY DEF Emit, EmittedOK

LEMMA EmitTypes ==
  ASSUME NEW e \in Events, NEW f \in Events
  PROVE  /\ Emit(<<e>>) => EmittedOK' /\ UNCHANGED disconnects
         /\ Emit(<<e, f>>) => EmittedOK' /\ UNCHANGED disconnects
<1>1. <<e>> \in Seq(Events) /\ <<e, f>> \in Seq(Events)
  BY ShortSequences
<1> QED BY <1>1 DEF Emit, EmittedOK

\* Reasons that ask for nothing else.
OtherReasons == Reasons \ (RegistrationReasons \cup {"ping timeout"})

\* Session::abort stops the loop for the reason given.
LEMMA AbortOutcome ==
  ASSUME NEW why \in Reasons \ {"ping timeout"}, Abort(why),
         why \in RegistrationReasons => ~registered'
  PROVE  Outcome /\ SentOK' /\ EmittedOK' /\ pc' = "closing"
<1>1. Line("QUIT") \in ClientLines
  BY LineIsLine DEF PlainClientLines
<1>2. SentOK'
  BY <1>1, SendTypes DEF Abort
<1>3. EmittedOK' /\ UNCHANGED disconnects
  BY EmitTypes DEF Abort, Events
<1> QED BY <1>2, <1>3 DEF Abort, Outcome, StopsFor, Stop

LEMMA StopOutcome ==
  ASSUME NEW why \in OtherReasons, Stop(why), UNCHANGED disconnects
  PROVE  Outcome
BY DEF Outcome, StopsFor, OtherReasons

\* A handler that ends with one last send.
LEMMA LastSend ==
  ASSUME NEW line \in ClientLines, SendOrBreak(line), UNCHANGED disconnects
  PROVE  Outcome /\ SentOK'
BY SendTypes DEF Outcome, StopsFor, Reasons, RegistrationReasons, Stop

LEMMA CapEndTypes ==
  ASSUME NEW active, capEndSent \in BOOLEAN, MaybeSendCapEnd(active)
  PROVE  SentOK' /\ capEndSent' \in BOOLEAN
<1>1. Line("CAP END") \in ClientLines
  BY LineIsLine DEF PlainClientLines
<1> QED BY <1>1, SendTypes, SendNothing DEF MaybeSendCapEnd

-----------------------------------------------------------------------------
(* Capability negotiation and SASL *)

\* What these handlers share: they keep the types of what they change.
NegoStep == Outcome /\ SentOK' /\ EmittedOK' /\ NegoOK'

LEMMA StayOutcome == Stay /\ UNCHANGED disconnects => Outcome
BY DEF Outcome

LEMMA AbortNego ==
  ASSUME NEW why \in {"no sasl", "sasl failed"}, Abort(why), NegoOK'
  PROVE  NegoStep
BY AbortOutcome DEF NegoStep, Reasons, RegistrationReasons

LEMMA AdvertiseTypes ==
  ASSUME NegoOK, NEW new \in SUBSET Caps, NEW scram \in BOOLEAN, Advertise(new, scram)
  PROVE  caps' \in [avail : SUBSET Caps, acked : SUBSET Caps, scramOffered : BOOLEAN]
BY DEF NegoOK, Advertise

LEMMA CapLsMoreStep ==
  ASSUME NegoOK, NEW new \in SUBSET Caps, NEW scram \in BOOLEAN, CapLsMore(new, scram)
  PROVE  NegoStep
<1>1. NegoOK'
  BY AdvertiseTypes DEF CapLsMore, NegoOK
<1> QED BY <1>1, SendNothing, EmitNothing, StayOutcome DEF CapLsMore, NegoStep

LEMMA CapLsStep ==
  ASSUME NegoOK, NEW new \in SUBSET Caps, NEW scram \in BOOLEAN, CapLs(new, scram)
  PROVE  NegoStep
<1> DEFINE avail == caps.avail \cup new
           requested == Wanted \cap avail
<1>1. caps' \in [avail : SUBSET Caps, acked : SUBSET Caps, scramOffered : BOOLEAN]
  BY AdvertiseTypes DEF CapLs
<1>2. BeginCapRequest(avail) /\ UNCHANGED <<sasl, echo>>
  BY DEF CapLs
<1>3. requested \subseteq Caps
  BY DEF NegoOK
<1>4. CASE Abort("no sasl") /\ UNCHANGED capEndSent
  BY <1>1, <1>2, <1>4, AbortNego DEF NegoOK
<1>5. CASE Emit(<<>>) /\ MaybeSendCapEnd(sasl.active) /\ Stay
  <2>1. SentOK' /\ capEndSent' \in BOOLEAN
    BY <1>5, CapEndTypes DEF NegoOK
  <2> QED BY <1>1, <1>2, <1>5, <2>1, EmitNothing, StayOutcome DEF NegoStep, NegoOK
<1>6. CASE Emit(<<>>) /\ SendOrBreak(CapReq(requested)) /\ UNCHANGED capEndSent
  <2>1. CapReq(requested) \in ClientLines
    BY <1>3, OtherLinesAreLines
  <2> QED BY <1>1, <1>2, <1>6, <2>1, EmitNothing, LastSend DEF NegoStep, NegoOK
<1> QED BY <1>2, <1>4, <1>5, <1>6 DEF BeginCapRequest

LEMMA StartSaslStep ==
  ASSUME NegoOK, StartSasl
  PROVE  /\ SentOK' /\ (Stay \/ Stop("write error")) /\ UNCHANGED capEndSent
         /\ sasl' \in [mech : {"none", "plain", "scram"},
                       step : {"initial", "await first", "await final", "done"},
                       active : BOOLEAN, done : BOOLEAN]
<1>1. Mechanism \in {"plain", "scram"}
  BY DEF Mechanism
<1>2. SaslLine(Mechanism) \in ClientLines
  BY <1>1, OtherLinesAreLines
<1>3. SentOK' /\ (Stay \/ Stop("write error"))
  BY <1>2, SendTypes DEF StartSasl
<1> QED BY <1>1, <1>3 DEF StartSasl, NegoOK

LEMMA CapAckStep ==
  ASSUME NegoOK, NEW new \in SUBSET Caps, CapAck(new)
  PROVE  NegoStep
<1>1. /\ caps' \in [avail : SUBSET Caps, acked : SUBSET Caps, scramOffered : BOOLEAN]
      /\ echo' \in BOOLEAN
  BY DEF CapAck, NegoOK
<1>2. EmittedOK' /\ UNCHANGED disconnects
  BY EmitNothing DEF CapAck
<1>3. CASE StartSasl
  <2>1. "write error" \in OtherReasons
    BY DEF OtherReasons, Reasons, RegistrationReasons
  <2>2. Outcome
    BY <1>2, <1>3, <2>1, StartSaslStep, StayOutcome, StopOutcome
  <2> QED BY <1>1, <1>2, <1>3, <2>2, StartSaslStep DEF NegoStep, NegoOK
<1>4. CASE MaybeSendCapEnd(sasl.active) /\ Stay /\ UNCHANGED sasl
  <2>1. SentOK' /\ capEndSent' \in BOOLEAN
    BY <1>4, CapEndTypes DEF NegoOK
  <2> QED BY <1>1, <1>2, <1>4, <2>1, StayOutcome DEF NegoStep, NegoOK
<1> QED BY <1>3, <1>4 DEF CapAck

LEMMA CapNakStep ==
  ASSUME NegoOK, NEW denied, CapNak(denied)
  PROVE  NegoStep
<1>1. UNCHANGED <<caps, sasl, echo>>
  BY DEF CapNak
<1>2. CASE Abort("no sasl") /\ UNCHANGED capEndSent
  BY <1>1, <1>2, AbortNego DEF NegoOK
<1>3. CASE MaybeSendCapEnd(sasl.active) /\ Emit(<<>>) /\ Stay
  <2>1. SentOK' /\ capEndSent' \in BOOLEAN
    BY <1>3, CapEndTypes DEF NegoOK
  <2> QED BY <1>1, <1>3, <2>1, EmitNothing, StayOutcome DEF NegoStep, NegoOK
<1> QED BY <1>2, <1>3 DEF CapNak

LEMMA CapDelStep ==
  ASSUME NegoOK, NEW gone, CapDel(gone)
  PROVE  NegoStep
<1>1. NegoOK'
  BY DEF CapDel, NegoOK
<1> QED BY <1>1, SendNothing, EmitNothing, StayOutcome DEF CapDel, NegoStep

LEMMA SaslSends ==
  /\ SaslPayload => Outcome /\ SentOK' /\ EmittedOK'
  /\ SaslWait => Outcome /\ SentOK' /\ EmittedOK'
<1>1. Line("PAYLOAD") \in ClientLines
  BY LineIsLine DEF PlainClientLines
<1>2. SaslPayload => Outcome /\ SentOK' /\ EmittedOK'
  BY <1>1, LastSend, EmitNothing DEF SaslPayload
<1>3. SaslWait => Outcome /\ SentOK' /\ EmittedOK'
  BY SendNothing, EmitNothing, StayOutcome DEF SaslWait
<1> QED BY <1>2, <1>3

LEMMA AuthenticateStep ==
  ASSUME NegoOK, AuthenticateEmpty \/ \E good \in BOOLEAN : Authenticate(good)
  PROVE  NegoStep
<1>1. NegoOK'
  BY DEF AuthenticateEmpty, Authenticate, NegoOK
<1>2. CASE AuthenticateEmpty
  BY <1>1, <1>2, SaslSends DEF AuthenticateEmpty, NegoStep
<1>3. ASSUME NEW good \in BOOLEAN, Authenticate(good)
      PROVE  NegoStep
  <2>1. SaslPayload \/ SaslWait \/ Abort("sasl failed")
    BY <1>3 DEF Authenticate
  <2> QED BY <1>1, <2>1, SaslSends, AbortNego DEF NegoStep
<1> QED BY <1>2, <1>3

LEMMA SaslNumericsStep ==
  ASSUME NegoOK, SaslSucceeded \/ SaslFailed
  PROVE  NegoStep
<1>1. CASE SaslSucceeded
  <2>1. SentOK' /\ capEndSent' \in BOOLEAN
    BY <1>1, CapEndTypes DEF SaslSucceeded, NegoOK
  <2>2. NegoOK'
    BY <1>1, <2>1 DEF SaslSucceeded, NegoOK
  <2> QED BY <1>1, <2>1, <2>2, EmitNothing, StayOutcome DEF SaslSucceeded, NegoStep
<1>2. CASE SaslFailed
  BY <1>2, AbortNego DEF SaslFailed, NegoOK, nego
<1> QED BY <1>1, <1>2

-----------------------------------------------------------------------------
(* Registration, nicknames and ERROR                                         *)

IdentStep == Outcome /\ SentOK' /\ EmittedOK' /\ IdentOK'
               /\ (pc' = "closing" \/ nickAttempts' < MaxNickAttempts)

LEMMA WelcomeStep ==
  ASSUME IdentOK, nickAttempts < MaxNickAttempts, NEW n \in Nicks, Welcome(n)
  PROVE  IdentStep
<1>1. IdentOK'
  BY DEF Welcome, IdentOK
<1>2. EmittedOK' /\ UNCHANGED disconnects
  BY EmitTypes DEF Welcome, Events
<1> QED BY <1>1, <1>2, SendNothing, StayOutcome DEF Welcome, IdentStep

\* The nickname fallback: each attempt stays below MaxNickAttempts, or is the last.
LEMMA RetryNickStep ==
  ASSUME IdentOK, nickAttempts < MaxNickAttempts, ~registered,
         NEW taken \in Nicks, RetryNick(taken)
  PROVE  IdentStep
<1> DEFINE attempts == nickAttempts + 1
<1>1. attempts \in 1..MaxNickAttempts
  BY LimitAssumption DEF IdentOK
<1>2. nickAttempts' = attempts /\ UNCHANGED registered
  BY DEF RetryNick
<1>3. CASE attempts >= MaxNickAttempts
  <2>1. Abort("nick in use") /\ UNCHANGED nick
    BY <1>3 DEF RetryNick
  <2>2. "nick in use" \in Reasons \ {"ping timeout"}
    BY DEF OtherReasons, Reasons, RegistrationReasons
  <2>3. Outcome /\ SentOK' /\ EmittedOK' /\ pc' = "closing"
    BY <1>2, <2>1, <2>2, AbortOutcome
  <2>4. nickAttempts' \in 0..MaxNickAttempts
    BY <1>1, <1>2, LimitAssumption
  <2> QED BY <1>2, <2>1, <2>3, <2>4 DEF IdentStep, IdentOK
<1>4. CASE ~(attempts >= MaxNickAttempts)
  <2>1. /\ nick' = AlternateNick[taken][attempts]
        /\ Emit(<<"Info", "NickChanged">>) /\ TrySend(NickLine(nick')) /\ Stay
    BY <1>4 DEF RetryNick
  <2>2. nick' \in Nicks
    BY <1>1, <2>1, NickAssumption
  <2>3. NickLine(nick') \in ClientLines
    BY <2>2, OtherLinesAreLines
  <2>4. SentOK'
    BY <2>1, <2>3, SendTypes
  <2>5. EmittedOK' /\ UNCHANGED disconnects
    BY <2>1, EmitTypes DEF Events
  <2>6. attempts < MaxNickAttempts
    BY <1>1, <1>4, LimitAssumption
  <2> QED BY <1>1, <1>2, <2>1, <2>2, <2>4, <2>5, <2>6, StayOutcome DEF IdentStep, IdentOK
<1> QED BY <1>3, <1>4

LEMMA NickUnavailableStep ==
  ASSUME IdentOK, nickAttempts < MaxNickAttempts, NEW taken \in Nicks,
         NickUnavailable(taken)
  PROVE  IdentStep
<1>1. CASE registered
  <2>1. EmittedOK' /\ UNCHANGED <<disconnects, ident>> /\ Send(<<>>) /\ Stay
    BY <1>1, ShortSequences DEF NickUnavailable, EmittedOK, Events
  <2> QED BY <2>1, SendNothing, StayOutcome DEF IdentStep, IdentOK, ident
<1>2. CASE ~registered
  BY <1>2, RetryNickStep DEF NickUnavailable
<1> QED BY <1>1, <1>2

LEMMA RejectedStep ==
  ASSUME IdentOK, nickAttempts < MaxNickAttempts, Rejected
  PROVE  IdentStep
<1>1. UNCHANGED ident
  BY DEF Rejected
<1>2. CASE registered
  <2>1. Emit(<<"Error">>) /\ Send(<<>>) /\ Stay
    BY <1>2 DEF Rejected
  <2>2. EmittedOK' /\ UNCHANGED disconnects
    BY <2>1, EmitTypes DEF Events
  <2> QED BY <1>1, <2>1, <2>2, SendNothing, StayOutcome DEF IdentStep, IdentOK, ident
<1>3. CASE ~registered
  <2>1. "rejected" \in Reasons \ {"ping timeout"}
    BY DEF OtherReasons, Reasons, RegistrationReasons
  <2>2. Abort("rejected") /\ ~registered'
    BY <1>1, <1>3 DEF Rejected, ident
  <2>3. Outcome /\ SentOK' /\ EmittedOK'
    BY <2>1, <2>2, AbortOutcome
  <2> QED BY <1>1, <2>3 DEF IdentStep, IdentOK, ident
<1> QED BY <1>2, <1>3

LEMMA NickChangeStep ==
  ASSUME IdentOK, nickAttempts < MaxNickAttempts, NEW old, NEW new \in Nicks,
         NickChange(old, new)
  PROVE  IdentStep
<1>1. IdentOK' /\ nickAttempts' < MaxNickAttempts
  BY DEF NickChange, IdentOK
<1>2. EmittedOK' /\ UNCHANGED disconnects
  BY EmitTypes DEF NickChange, Events
<1> QED BY <1>1, <1>2, SendNothing, StayOutcome DEF NickChange, IdentStep

LEMMA ServerErrorStep ==
  ASSUME disconnects \in Nat, ServerError
  PROVE  Outcome /\ SentOK' /\ EmittedOK'
<1>1. <<"Error">> \in Seq(Events) /\ "Disconnected" \in Events
  BY ShortSequences DEF Events
<1>2. EmittedOK'
  BY <1>1, AppendProperties DEF EmittedOK, ServerError, EmitDisconnected
<1> QED BY <1>2, SendNothing DEF ServerError, EmitDisconnected, Outcome

-----------------------------------------------------------------------------
(* One turn of the loop *)

TurnStep ==
  /\ Outcome /\ SentOK' /\ EmittedOK' /\ IdentOK' /\ NegoOK' /\ AliveOK'
  /\ pc' = "closing" \/ (nickAttempts' < MaxNickAttempts /\ Counted')

Typed == IdentOK /\ NegoOK /\ AliveOK /\ disconnects \in Nat
           /\ nickAttempts < MaxNickAttempts /\ Counted

LEMMA IdentKept == IdentOK /\ UNCHANGED ident => IdentOK' /\ nickAttempts' = nickAttempts
BY DEF IdentOK, ident
LEMMA NegoKept == NegoOK /\ UNCHANGED nego => NegoOK'
BY DEF NegoOK, nego
LEMMA AliveKept == AliveOK /\ UNCHANGED alive => AliveOK' /\ Counted' = Counted
BY DEF AliveOK, Counted, alive

\* A turn that changes none of these groups, one of them, or two.
LEMMA OutTurn ==
  ASSUME Typed, Outcome, SentOK', EmittedOK', UNCHANGED <<ident, nego, alive>>
  PROVE  TurnStep
BY IdentKept, NegoKept, AliveKept DEF Typed, TurnStep
LEMMA IdentTurn ==
  ASSUME Typed, IdentStep, UNCHANGED <<nego, alive>>
  PROVE  TurnStep
BY NegoKept, AliveKept DEF Typed, TurnStep, IdentStep
LEMMA NegoTurn ==
  ASSUME Typed, NegoStep, UNCHANGED <<ident, alive>>
  PROVE  TurnStep
BY IdentKept, AliveKept DEF Typed, TurnStep, NegoStep

LEMMA HandleLineStep ==
  ASSUME Typed, NEW m \in ServerLines, HandleLine(m)
  PROVE  TurnStep
<1> USE DEF Typed
<1>1. CASE m.cmd = "PING" /\ SendOrBreak(Line("PONG")) /\ Emit(<<>>)
             /\ UNCHANGED <<ident, nego, alive>>
  <2>1. Line("PONG") \in ClientLines
    BY LineIsLine DEF PlainClientLines
  <2> QED BY <1>1, <2>1, EmitNothing, LastSend, OutTurn
<1>2. CASE outstanding' = FALSE /\ missed' = 0 /\ silence' = 0 /\ Send(<<>>) /\ Emit(<<>>) /\ Stay
             /\ UNCHANGED <<ident, nego>>
  <2>1. outstanding' = FALSE /\ missed' = 0 /\ silence' = 0
    BY <1>2
  <2>2. outstanding' \in BOOLEAN
    BY <2>1
  <2>3. missed' \in 0..MaxMissedPongs /\ missed' < MaxMissedPongs /\ silence' \in Nat
    BY <2>1, LimitAssumption
  <2>4. AliveOK' /\ Counted'
    BY <2>1, <2>2, <2>3 DEF AliveOK, Counted
  <2> QED BY <1>2, <2>4, IdentKept, NegoKept, SendNothing, EmitNothing, StayOutcome
          DEF TurnStep
<1>3. CASE Emit(<<"Msg">>) /\ SendOrBreak(Line("REPLY")) /\ UNCHANGED <<ident, nego, alive>>
  <2>1. Line("REPLY") \in ClientLines
    BY LineIsLine DEF PlainClientLines
  <2>2. EmittedOK' /\ UNCHANGED disconnects
    BY <1>3, EmitTypes DEF Events
  <2> QED BY <1>3, <2>1, <2>2, LastSend, OutTurn
<1>4. CASE Emit(<<"Info">>) /\ TrySend(Line("JOIN")) /\ Stay
             /\ UNCHANGED <<ident, nego, alive>>
  <2>1. Line("JOIN") \in ClientLines
    BY LineIsLine DEF PlainClientLines
  <2>2. EmittedOK' /\ UNCHANGED disconnects
    BY <1>4, EmitTypes DEF Events
  <2> QED BY <1>4, <2>1, <2>2, SendTypes, StayOutcome, OutTurn
<1>5. CASE emitted' \in {<<>>, <<"Other">>} /\ UNCHANGED disconnects /\ Send(<<>>) /\ Stay
             /\ UNCHANGED <<ident, nego, alive>>
  <2>1. <<>> \in Seq(Events) /\ <<"Other">> \in Seq(Events)
    BY ShortSequences DEF Events
  <2>2. EmittedOK'
    BY <1>5, <2>1 DEF EmittedOK
  <2> QED BY <1>5, <2>2, SendNothing, StayOutcome, OutTurn
<1>6. CASE ServerError /\ UNCHANGED <<ident, nego, alive>>
  BY <1>6, ServerErrorStep, OutTurn
<1>7. CASE Rejected /\ UNCHANGED <<nego, alive>>
  BY <1>7, RejectedStep, IdentTurn
<1>8. CASE m.cmd = "001" /\ Welcome(m.nick) /\ UNCHANGED <<nego, alive>>
  BY <1>8, LineFields, WelcomeStep, IdentTurn DEF NickLines
<1>9. CASE m.cmd = "433" /\ NickUnavailable(m.nick) /\ UNCHANGED <<nego, alive>>
  BY <1>9, LineFields, NickUnavailableStep, IdentTurn DEF NickLines
<1>10. CASE m.cmd = "NICK" /\ NickChange(m.old, m.new) /\ UNCHANGED <<nego, alive>>
  BY <1>10, LineFields, NickChangeStep, IdentTurn
<1>11. CASE /\ \/ m.cmd = "CAP LS *" /\ CapLsMore(m.caps, m.scram)
               \/ m.cmd = "CAP LS" /\ CapLs(m.caps, m.scram)
               \/ m.cmd = "CAP ACK" /\ CapAck(m.caps)
               \/ m.cmd = "CAP NAK" /\ CapNak(m.caps)
               \/ m.cmd = "CAP NEW" /\ CapNew(m.caps, m.scram)
               \/ m.cmd = "CAP DEL" /\ CapDel(m.caps)
               \/ m.cmd = "AUTH +" /\ AuthenticateEmpty
               \/ m.cmd = "AUTH good" /\ Authenticate(TRUE)
               \/ m.cmd = "AUTH bad" /\ Authenticate(FALSE)
               \/ m.cmd = "SASL OK" /\ SaslSucceeded
               \/ m.cmd = "SASL FAILED" /\ SaslFailed
            /\ UNCHANGED <<ident, alive>>
  <2>1. m.cmd \in CapLines => m.caps \subseteq Caps /\ m.scram \in BOOLEAN
    BY LineFields
  <2>2. CASE m.cmd \in CapLines
    <3>1. NegoStep
      BY <1>11, <2>1, <2>2, CapLsMoreStep, CapLsStep, CapAckStep, CapNakStep, CapDelStep
         DEF CapNew, CapLines
    <3> QED BY <1>11, <3>1, NegoTurn
  <2>3. CASE m.cmd \notin CapLines
    <3>1. NegoStep
      BY <1>11, <2>3, AuthenticateStep, SaslNumericsStep DEF CapLines
    <3> QED BY <1>11, <3>1, NegoTurn
  <2> QED BY <2>2, <2>3
<1> QED BY <1>1, <1>2, <1>3, <1>4, <1>5, <1>6, <1>7, <1>8, <1>9, <1>10, <1>11
        DEF HandleLine, HandlePong, Ping, CtcpRequest, Invite, PassOn

LEMMA ReadEndsStep ==
  ASSUME Typed, NEW why \in {"eof", "read error"}, ReadEnds(why)
  PROVE  TurnStep
<1>1. why \in OtherReasons
  BY DEF OtherReasons, Reasons, RegistrationReasons
<1>2. SentOK' /\ EmittedOK' /\ UNCHANGED disconnects
  BY SendNothing, EmitNothing DEF ReadEnds
<1>3. Outcome
  BY <1>1, <1>2, StopOutcome DEF ReadEnds
<1> QED BY <1>2, <1>3, OutTurn DEF ReadEnds

\* The last words of a session that stops on its own account.
LEMMA PartingStep ==
  ASSUME Typed, NEW why \in OtherReasons, Stop(why),
         NEW line \in ClientLines, TrySend(line), Emit(<<>>),
         UNCHANGED <<ident, nego, alive>>
  PROVE  TurnStep
BY SendTypes, EmitNothing, StopOutcome, OutTurn

LEMMA HandleCommandStep ==
  ASSUME Typed, HandleCommand
  PROVE  TurnStep
<1> USE DEF HandleCommand, QuitCommand
<1>1. UNCHANGED <<ident, nego, alive>>
  OBVIOUS
<1>2. Line("QUIT") \in ClientLines /\ Line("COMMAND") \in ClientLines
  BY LineIsLine DEF PlainClientLines
<1>3. {"quit", "write error"} \subseteq OtherReasons
  BY DEF OtherReasons, Reasons, RegistrationReasons
<1>4. CASE TrySend(Line("QUIT")) /\ Emit(<<>>) /\ Stop("quit")
  BY <1>1, <1>2, <1>3, <1>4, PartingStep
<1>5. CASE /\ Send(<<Line("COMMAND")>>) /\ Stay
           /\ Emit(IF Head(inbox) = "PRIVMSG" /\ ~echo THEN <<"Msg">> ELSE <<>>)
  <2>1. EmittedOK' /\ UNCHANGED disconnects
    BY <1>5, EmitTypes, EmitNothing DEF Events
  <2> QED BY <1>1, <1>2, <1>5, <2>1, SendTypes, StayOutcome, OutTurn
<1>6. CASE /\ IF Head(inbox) = "RAW" THEN TrySend(Line("COMMAND")) ELSE Send(<<>>)
           /\ Emit(<<"Error">>) /\ Stay
  <2>1. EmittedOK' /\ UNCHANGED disconnects
    BY <1>6, EmitTypes DEF Events
  <2> QED BY <1>1, <1>2, <1>6, <2>1, SendTypes, SendNothing, StayOutcome, OutTurn
<1>7. CASE TrySend(Line("COMMAND")) /\ Emit(<<>>) /\ Stop("write error")
  BY <1>1, <1>2, <1>3, <1>7, PartingStep
<1> QED BY <1>4, <1>5, <1>6, <1>7

LEMMA CommandsClosedStep ==
  ASSUME Typed, CommandsClosed
  PROVE  TurnStep
<1>1. Line("QUIT") \in ClientLines
  BY LineIsLine DEF PlainClientLines
<1>2. "client shut down" \in OtherReasons
  BY DEF OtherReasons, Reasons, RegistrationReasons
<1> QED BY <1>1, <1>2, PartingStep DEF CommandsClosed

LEMMA PastLimit ==
  ASSUME NEW m \in Nat, NEW limit \in Nat, NEW s, s = m + 1, ~(m < limit)
  PROVE  s > limit
OBVIOUS

\* A PING out, or the tick that counts the one outstanding; the last one stops.
LEMMA PingTickStep ==
  ASSUME Typed, PingTick
  PROVE  TurnStep
<1> USE DEF Typed
<1>1. UNCHANGED <<ident, nego>> /\ EmittedOK' /\ UNCHANGED disconnects
  BY EmitNothing DEF PingTick
<1>2. silence' = silence + 1 /\ silence' \in Nat
  <2>1. missed \in Nat /\ MaxMissedPongs \in Nat /\ silence \in Nat
    BY LimitAssumption DEF AliveOK
  <2>2. silence <= MaxMissedPongs
    <3>1. CASE outstanding
      BY <2>1, <3>1 DEF Counted
    <3>2. CASE ~outstanding
      BY <2>1, <3>2 DEF Counted
    <3> QED BY <3>1, <3>2
  <2> QED BY <2>1, <2>2 DEF PingTick
<1>3. CASE ~outstanding /\ SendOrBreak(Line("PING")) /\ outstanding' = (sent' # <<>>)
             /\ UNCHANGED missed
  <2>1. Line("PING") \in ClientLines
    BY LineIsLine DEF PlainClientLines
  <2>2. Outcome /\ SentOK'
    BY <1>1, <1>3, <2>1, LastSend
  <2>3. outstanding' \in BOOLEAN
    BY <1>3
  <2>4. AliveOK'
    BY <1>2, <1>3, <2>3 DEF AliveOK
  <2>5. CASE sent' # <<>>
    <3>1. outstanding' = TRUE
      BY <1>3, <2>5
    <3>2. missed \in Nat /\ silence = missed
      BY <1>3 DEF Counted, AliveOK
    <3>3. Counted'
      BY <1>2, <1>3, <3>1, <3>2 DEF Counted
    <3> QED BY <1>1, <2>2, <2>4, <3>3, IdentKept, NegoKept DEF TurnStep
  <2>6. CASE sent' = <<>>
    <3>1. pc' = "closing"
      BY <1>3, <2>6 DEF SendOrBreak, Send, Stop
    <3> QED BY <1>1, <2>2, <2>4, <3>1, IdentKept, NegoKept DEF TurnStep
  <2> QED BY <2>5, <2>6
<1>4. CASE outstanding /\ TickWithPingOut
  <2>1. Line("QUIT") \in ClientLines
    BY LineIsLine DEF PlainClientLines
  <2>2. missed' = missed + 1 /\ outstanding' = (missed' < MaxMissedPongs)
    BY <1>4 DEF TickWithPingOut
  <2>3. missed' \in 0..MaxMissedPongs /\ outstanding' \in BOOLEAN
    BY <2>2, LimitAssumption DEF AliveOK, Counted
  <2>4. AliveOK'
    BY <1>2, <2>3 DEF AliveOK
  <2>5. missed \in Nat /\ silence = missed + 1
    BY <1>4 DEF Counted, AliveOK
  <2>6. silence' = missed' + 1
    BY <1>2, <2>2, <2>5
  <2>7. CASE missed' < MaxMissedPongs
    <3>1. Send(<<>>) /\ Stay
      BY <1>4, <2>7 DEF TickWithPingOut
    <3>2. outstanding' = TRUE
      BY <2>2, <2>7
    <3>3. Counted'
      BY <2>6, <2>7, <3>2 DEF Counted
    <3>4. Outcome /\ SentOK'
      BY <1>1, <3>1, SendNothing, StayOutcome
    <3> QED BY <1>1, <2>4, <3>3, <3>4, IdentKept, NegoKept DEF TurnStep
  <2>8. CASE ~(missed' < MaxMissedPongs)
    <3>1. TrySend(Line("QUIT")) /\ Stop("ping timeout")
      BY <1>4, <2>8 DEF TickWithPingOut
    <3>2. silence' > MaxMissedPongs
      <4>1. missed' \in Nat /\ MaxMissedPongs \in Nat
        BY <2>3, LimitAssumption
      <4> QED BY <2>6, <2>8, <4>1, PastLimit
    <3>3. "ping timeout" \in Reasons /\ "ping timeout" \notin RegistrationReasons
      BY DEF Reasons, RegistrationReasons
    <3>4. Outcome /\ SentOK' /\ pc' = "closing"
      BY <1>1, <2>1, <3>1, <3>2, <3>3, SendTypes DEF Stop, StopsFor, Outcome
    <3> QED BY <1>1, <2>4, <3>4, IdentKept, NegoKept DEF TurnStep
  <2> QED BY <2>7, <2>8
<1> QED BY <1>3, <1>4 DEF PingTick

LEMMA RegistrationDeadlineStep ==
  ASSUME Typed, RegistrationDeadline
  PROVE  TurnStep
<1>1. "registration timeout" \in Reasons \ {"ping timeout"}
  BY DEF OtherReasons, Reasons, RegistrationReasons
<1>2. ~registered' /\ UNCHANGED <<ident, nego, alive>> /\ Abort("registration timeout")
  BY DEF RegistrationDeadline, ident
<1> QED BY <1>1, <1>2, AbortOutcome, OutTurn

-----------------------------------------------------------------------------
(* The invariant *)

LifeOK == /\ pc \in {"start", "connecting", "handshake", "loop", "closing", "ended"}
          /\ result \in {"running", "ok", "err", "unheard"}
          /\ reason \in Reasons /\ errorSaid \in BOOLEAN
UiOK   == inbox \in Seq(Commands) /\ uiGone \in BOOLEAN
OutOK  == SentOK /\ EmittedOK /\ disconnects \in Nat

LEMMA TypedGroups ==
  TypeOK <=> LifeOK /\ cfg \in Configs /\ IdentOK /\ NegoOK /\ AliveOK /\ UiOK /\ OutOK
BY DEF TypeOK, LifeOK, IdentOK, NegoOK, AliveOK, UiOK, OutOK, SentOK, EmittedOK

LEMMA TypedGroupsNext ==
  ASSUME LifeOK', (cfg \in Configs)', IdentOK', NegoOK', AliveOK', UiOK', OutOK'
  PROVE  TypeOK'
BY DEF TypeOK, LifeOK, IdentOK, NegoOK, AliveOK, UiOK, OutOK, SentOK, EmittedOK

LEMMA ReasonsPartition ==
  /\ "connection closed" \in OtherReasons
  /\ "server error" \in OtherReasons
BY DEF OtherReasons, Reasons, RegistrationReasons

LEMMA TurnKeepsInv ==
  ASSUME IInv, pc = "loop", TurnStep, UNCHANGED cfg, UiOK'
  PROVE  IInv'
<1>1. /\ disconnects = 0 /\ ~errorSaid /\ result = "running"
      /\ reason = "connection closed"
  BY DEF IInv, LifeCycle
<1>2. LifeOK /\ cfg \in Configs
  BY TypedGroups DEF IInv
<1>3. /\ SentOK' /\ EmittedOK' /\ IdentOK' /\ NegoOK' /\ AliveOK'
      /\ pc' = "closing" \/ (nickAttempts' < MaxNickAttempts /\ Counted')
  BY DEF TurnStep
<1>4. LifeOK' /\ disconnects' \in Nat => TypeOK'
  BY <1>2, <1>3, TypedGroupsNext DEF OutOK
<1>5. CountersBelow'
  BY <1>3 DEF CountersBelow
<1>6. CASE Stay /\ UNCHANGED disconnects
  <2>1. UNCHANGED <<pc, result, reason, errorSaid, disconnects>>
    BY <1>6 DEF Stay, life
  <2>2. LifeOK'
    BY <1>2, <2>1 DEF LifeOK
  <2>3. LifeCycle' /\ WelcomeIsFinal' /\ NoFalseTimeout'
    BY <1>1, <2>1, ReasonsPartition
       DEF LifeCycle, WelcomeIsFinal, NoFalseTimeout, OtherReasons
  <2>4. DisconnectedOnce'
    BY <2>1 DEF IInv, DisconnectedOnce
  <2> QED BY <1>1, <1>4, <1>5, <2>1, <2>2, <2>3, <2>4 DEF IInv
<1>7. ASSUME NEW why \in Reasons, StopsFor(why), UNCHANGED disconnects
      PROVE  IInv'
  <2>1. /\ pc' = "closing" /\ reason' = why
        /\ UNCHANGED <<result, errorSaid, disconnects>>
        /\ why \in RegistrationReasons => ~registered'
        /\ why = "ping timeout" => silence' > MaxMissedPongs
    BY <1>7 DEF StopsFor, Stop
  <2>2. LifeOK'
    BY <1>2, <2>1 DEF LifeOK
  <2>3. LifeCycle' /\ WelcomeIsFinal' /\ NoFalseTimeout'
    BY <1>1, <1>7, <2>1 DEF LifeCycle, WelcomeIsFinal, NoFalseTimeout
  <2>4. DisconnectedOnce'
    BY <2>1 DEF IInv, DisconnectedOnce
  <2> QED BY <1>1, <1>4, <1>5, <2>1, <2>2, <2>3, <2>4 DEF IInv
<1>8. CASE /\ pc' = "closing" /\ reason' = "server error" /\ errorSaid' = TRUE
           /\ disconnects' = disconnects + 1 /\ UNCHANGED result
  <2>1. disconnects' = 1 /\ result' = "running"
    <3>1. disconnects = 0 /\ disconnects' = disconnects + 1 /\ result' = "running"
      BY <1>1, <1>8
    <3> QED BY <3>1
  <2>2. LifeOK'
    <3>1. errorSaid' \in BOOLEAN
      BY <1>8
    <3> QED BY <1>2, <1>8, <3>1, ReasonsPartition DEF LifeOK, OtherReasons
  <2>3. LifeCycle' /\ WelcomeIsFinal' /\ NoFalseTimeout'
    BY <1>8, <2>1, ReasonsPartition
       DEF LifeCycle, WelcomeIsFinal, NoFalseTimeout, OtherReasons
  <2>4. DisconnectedOnce'
    BY <2>1 DEF DisconnectedOnce
  <2> QED BY <1>4, <1>5, <2>1, <2>2, <2>3, <2>4 DEF IInv
<1>9. Outcome
  BY DEF TurnStep
<1> QED BY <1>6, <1>7, <1>8, <1>9 DEF Outcome

LEMMA InitInv == Init => IInv
<1> SUFFICES ASSUME Init PROVE IInv
  OBVIOUS
<1>1. cfg \in Configs /\ cfg.nick \in Nicks
  BY ConfigAssumption DEF Init
<1>2. LifeOK
  <2>1. errorSaid \in BOOLEAN
    BY DEF Init
  <2> QED BY <2>1, ReasonsPartition DEF Init, LifeOK, OtherReasons
<1>3. nickAttempts = 0 /\ missed = 0 /\ silence = 0 /\ outstanding = FALSE
  BY DEF Init
<1>4. /\ nickAttempts \in 0..MaxNickAttempts /\ nickAttempts < MaxNickAttempts
      /\ missed \in 0..MaxMissedPongs /\ missed < MaxMissedPongs /\ silence \in Nat
  BY <1>3, LimitAssumption
<1>5. /\ registered \in BOOLEAN /\ capEndSent \in BOOLEAN /\ echo \in BOOLEAN
      /\ outstanding \in BOOLEAN /\ uiGone \in BOOLEAN
  BY DEF Init
<1>6. IdentOK /\ AliveOK
  BY <1>1, <1>4, <1>5 DEF Init, IdentOK, AliveOK
<1>7. NegoOK
  <2>1. caps \in [avail : SUBSET Caps, acked : SUBSET Caps, scramOffered : BOOLEAN]
    BY DEF Init
  <2>2. sasl \in [mech : {"none", "plain", "scram"},
                  step : {"initial", "await first", "await final", "done"},
                  active : BOOLEAN, done : BOOLEAN]
    BY DEF Init
  <2> QED BY <1>5, <2>1, <2>2 DEF NegoOK
<1>8. UiOK /\ OutOK
  <2>1. inbox = <<>> /\ sent = <<>> /\ emitted = <<>> /\ disconnects = 0
    BY DEF Init
  <2> QED BY <1>5, <2>1 DEF UiOK, OutOK, SentOK, EmittedOK
<1>9. TypeOK
  BY <1>1, <1>2, <1>6, <1>7, <1>8, TypedGroups
<1>10. CountersBelow
  BY <1>3, <1>4 DEF CountersBelow, Counted
<1>11. LifeCycle /\ WelcomeIsFinal /\ NoFalseTimeout
  BY ReasonsPartition DEF Init, LifeCycle, WelcomeIsFinal, NoFalseTimeout, OtherReasons
<1>12. DisconnectedOnce
  <2>1. disconnects = 0 /\ result = "running"
    BY DEF Init
  <2> QED BY <2>1 DEF DisconnectedOnce
<1> QED BY <1>9, <1>10, <1>11, <1>12 DEF IInv

LEMMA InLoop ==
  ASSUME IInv, pc = "loop"
  PROVE  Typed
BY TypedGroups DEF IInv, CountersBelow, Typed, OutOK

\* The steps before and after the loop, and those of the UI, leave alone what a turn
\* works on.
LEMMA QuietStep ==
  ASSUME IInv, UNCHANGED <<reason, errorSaid, cfg, ident, nego, alive>>, UiOK',
         SentOK', EmittedOK',
         pc' \in {"connecting", "handshake", "loop", "ended"}, disconnects' \in Nat,
         result' \in {"running", "ok", "err", "unheard"},
         pc' # "ended" => pc \notin {"closing", "ended"} /\ UNCHANGED <<result, disconnects>>,
         pc' = "ended" => /\ result' # "running" /\ disconnects' <= 1
                          /\ result' = "ok" => disconnects' = 1
  PROVE  IInv'
<1>1. TypeOK'
  <2>1. LifeOK /\ cfg \in Configs /\ IdentOK /\ NegoOK /\ AliveOK
    BY TypedGroups DEF IInv
  <2>2. IdentOK' /\ NegoOK' /\ AliveOK'
    BY <2>1, IdentKept, NegoKept, AliveKept
  <2>3. LifeOK'
    BY <2>1 DEF LifeOK
  <2> QED BY <2>1, <2>2, <2>3, TypedGroupsNext DEF OutOK
<1>2. CountersBelow' /\ LifeCycle' /\ DisconnectedOnce'
  BY DEF IInv, CountersBelow, Counted, LifeCycle, DisconnectedOnce, ident, alive
<1>3. WelcomeIsFinal' /\ NoFalseTimeout'
  BY DEF IInv, WelcomeIsFinal, NoFalseTimeout, ident, alive
<1> QED BY <1>1, <1>2, <1>3 DEF IInv

LEMMA StartStep == ASSUME IInv, Start PROVE IInv'
<1> USE DEF Start
<1>1. UiOK' /\ SentOK'
  BY TypedGroups, SendNothing DEF IInv, UiOK, ui
<1>2. EmittedOK' /\ UNCHANGED disconnects
  BY EmitNothing, EmitTypes DEF Events
<1>3. disconnects = 0 /\ result = "running"
  BY DEF IInv, LifeCycle
<1> QED BY <1>1, <1>2, <1>3, QuietStep

LEMMA ConnectFailsStep == ASSUME IInv, ConnectFails PROVE IInv'
<1> USE DEF ConnectFails
<1>1. UiOK' /\ SentOK'
  BY TypedGroups, SendNothing DEF IInv, UiOK, ui
<1>2. <<"Error">> \in Seq(Events) /\ "Disconnected" \in Events
  BY ShortSequences DEF Events
<1>3. EmittedOK'
  BY <1>2, AppendProperties DEF EmittedOK, EmitDisconnected
<1>4. disconnects = 0
  BY DEF IInv, LifeCycle
<1>5. disconnects' = 1
  BY <1>4 DEF EmitDisconnected
<1> QED BY <1>1, <1>3, <1>5, QuietStep

LEMMA ConnectedStep == ASSUME IInv, Connected PROVE IInv'
<1> USE DEF Connected
<1>1. UiOK' /\ SentOK'
  BY TypedGroups, SendNothing DEF IInv, UiOK, ui
<1>2. EmittedOK' /\ UNCHANGED disconnects
  BY EmitNothing
<1>3. disconnects = 0 /\ result = "running"
  BY DEF IInv, LifeCycle
<1> QED BY <1>1, <1>2, <1>3, QuietStep

LEMMA RegistrationLinesType ==
  ASSUME TypeOK PROVE RegistrationLines \in Seq(ClientLines)
<1>1. /\ Line("CAP LS 302") \in ClientLines /\ Line("PASS") \in ClientLines
      /\ Line("USER") \in ClientLines /\ NickLine(nick) \in ClientLines
  BY LineIsLine, OtherLinesAreLines DEF PlainClientLines, TypeOK
<1> DEFINE pass == IF cfg.pass THEN <<Line("PASS")>> ELSE <<>>
<1>2. <<>> \in Seq(ClientLines)
  OBVIOUS
<1>3. <<Line("CAP LS 302")>> \in Seq(ClientLines) /\ <<Line("PASS")>> \in Seq(ClientLines)
  BY <1>1, ShortSequences
<1>4. <<NickLine(nick), Line("USER")>> \in Seq(ClientLines)
  BY <1>1, ShortSequences
<1>5. pass \in Seq(ClientLines)
  BY <1>2, <1>3
<1>6. RegistrationLines = <<Line("CAP LS 302")>> \o pass \o <<NickLine(nick), Line("USER")>>
  BY DEF RegistrationLines
<1> HIDE DEF pass
<1>7. <<Line("CAP LS 302")>> \o pass \in Seq(ClientLines)
  BY <1>3, <1>5, ConcatProperties
<1> QED BY <1>4, <1>6, <1>7, ConcatProperties

LEMMA HandshakeStep == ASSUME IInv, Handshake PROVE IInv'
<1>1. PICK k \in 0..Len(RegistrationLines) :
        /\ Send(SubSeq(RegistrationLines, 1, k))
        /\ IF k = Len(RegistrationLines)
           THEN pc' = "loop" /\ UNCHANGED result
           ELSE pc' = "ended" /\ result' = "err"
  BY DEF Handshake
<1>2. RegistrationLines \in Seq(ClientLines)
  BY RegistrationLinesType DEF IInv
<1>3. \A i \in 1..k : RegistrationLines[i] \in ClientLines
  <2>1. Len(RegistrationLines) \in Nat
    BY <1>2, LenProperties
  <2>2. \A i \in 1..k : i \in 1..Len(RegistrationLines)
    BY <2>1
  <2> QED BY <1>2, <2>2, ElementOfSeq
<1>4. k \in Int
  BY <1>2, LenProperties
<1>5. SubSeq(RegistrationLines, 1, k) \in Seq(ClientLines)
  BY <1>3, <1>4, SubSeqProperties
<1>6. SentOK'
  BY <1>1, <1>5 DEF Send, SentOK
<1>7. UiOK' /\ EmittedOK' /\ UNCHANGED disconnects
  BY TypedGroups, EmitNothing DEF Handshake, IInv, UiOK, ui
<1>8. disconnects = 0 /\ result = "running"
  BY DEF Handshake, IInv, LifeCycle
<1> QED BY <1>1, <1>6, <1>7, <1>8, QuietStep DEF Handshake

LEMMA CloseStep == ASSUME IInv, Close PROVE IInv'
<1> USE DEF Close
<1>1. UiOK' /\ SentOK'
  BY TypedGroups, SendNothing DEF IInv, UiOK, ui
<1>2. disconnects = IF errorSaid THEN 1 ELSE 0
  BY DEF IInv, LifeCycle
<1>3. EmittedOK' /\ disconnects' = 1
  <2>1. CASE errorSaid
    BY <1>2, <2>1, EmitNothing
  <2>2. CASE ~errorSaid
    <3>1. <<>> \in Seq(Events) /\ "Disconnected" \in Events
      BY DEF Events
    <3>2. EmitDisconnected(<<>>)
      BY <2>2
    <3> QED BY <1>2, <2>2, <3>1, <3>2, AppendProperties DEF EmitDisconnected, EmittedOK
  <2> QED BY <2>1, <2>2
<1> QED BY <1>1, <1>3, QuietStep

LEMMA UserStepInv == ASSUME IInv, UserStep PROVE IInv'
<1>1. UNCHANGED <<life, cfg, ident, nego, alive>>
  BY DEF UserStep, Enqueue, DropSender
<1>2. SentOK' /\ EmittedOK' /\ UNCHANGED disconnects
  BY SendNothing, EmitNothing DEF UserStep, Enqueue, DropSender
<1>3. UiOK'
  <2>1. CASE DropSender
    BY <2>1, TypedGroups DEF DropSender, UiOK, IInv
  <2>2. ASSUME NEW c \in Commands, Enqueue(c)
        PROVE  UiOK'
    BY <2>2, TypedGroups, AppendProperties DEF Enqueue, UiOK, IInv
  <2> QED BY <2>1, <2>2 DEF UserStep
<1>4. TypeOK'
  <2>1. LifeOK /\ cfg \in Configs /\ IdentOK /\ NegoOK /\ AliveOK /\ disconnects \in Nat
    BY TypedGroups DEF IInv, OutOK
  <2>2. IdentOK' /\ NegoOK' /\ AliveOK'
    BY <1>1, <2>1, IdentKept, NegoKept, AliveKept
  <2>3. LifeOK'
    BY <1>1, <2>1 DEF LifeOK, life
  <2> QED BY <1>1, <1>2, <1>3, <2>1, <2>2, <2>3, TypedGroupsNext DEF OutOK
<1> QED BY <1>1, <1>2, <1>4
        DEF IInv, CountersBelow, LifeCycle, DisconnectedOnce, WelcomeIsFinal,
            NoFalseTimeout, Counted, life, ident, alive

LEMMA OwnStepInv == ASSUME IInv, OwnStep PROVE IInv'
<1>1. CASE Start
  BY <1>1, StartStep
<1>2. CASE ConnectFails
  BY <1>2, ConnectFailsStep
<1>3. CASE Connected
  BY <1>3, ConnectedStep
<1>4. CASE Handshake
  BY <1>4, HandshakeStep
<1>5. CASE Close
  BY <1>5, CloseStep
<1>6. CASE HandleCommand
  <2>1. pc = "loop" /\ UNCHANGED cfg
    BY <1>6 DEF HandleCommand
  <2>2. UiOK'
    BY <1>6, TypedGroups, HeadTailProperties DEF HandleCommand, IInv, UiOK
  <2>3. TurnStep
    BY <1>6, <2>1, InLoop, HandleCommandStep
  <2> QED BY <2>1, <2>2, <2>3, TurnKeepsInv
<1>7. CASE CommandsClosed \/ PingTick \/ RegistrationDeadline
  <2>1. pc = "loop" /\ UNCHANGED <<cfg, ui>>
    BY <1>7 DEF CommandsClosed, PingTick, RegistrationDeadline
  <2>2. UiOK'
    BY <2>1, TypedGroups DEF IInv, UiOK, ui
  <2>3. TurnStep
    BY <1>7, <2>1, InLoop, CommandsClosedStep, PingTickStep, RegistrationDeadlineStep
  <2> QED BY <2>1, <2>2, <2>3, TurnKeepsInv
<1> QED BY <1>1, <1>2, <1>3, <1>4, <1>5, <1>6, <1>7 DEF OwnStep

LEMMA ServerStepInv == ASSUME IInv, ServerStep PROVE IInv'
<1>1. pc = "loop" /\ UNCHANGED <<cfg, ui>>
  BY DEF ServerStep, ReadLine, ReadEnds
<1>2. UiOK'
  BY <1>1, TypedGroups DEF IInv, UiOK, ui
<1>3. TurnStep
  BY <1>1, InLoop, HandleLineStep, ReadEndsStep DEF ServerStep, ReadLine
<1> QED BY <1>1, <1>2, <1>3, TurnKeepsInv

LEMMA StepInv == IInv /\ [Next]_vars => IInv'
<1> SUFFICES ASSUME IInv, [Next]_vars PROVE IInv'
  OBVIOUS
<1>1. CASE OwnStep
  BY <1>1, OwnStepInv
<1>2. CASE UserStep
  BY <1>2, UserStepInv
<1>3. CASE ServerStep
  BY <1>3, ServerStepInv
<1>4. CASE UNCHANGED vars
  <2>1. UNCHANGED <<life, cfg, ident, nego, alive, ui, out>>
    BY <1>4 DEF vars
  <2>2. UNCHANGED <<pc, result, reason, errorSaid, inbox, uiGone, sent, emitted, disconnects>>
    BY <2>1 DEF life, ui, out
  <2>3. LifeOK /\ cfg \in Configs /\ IdentOK /\ NegoOK /\ AliveOK /\ UiOK /\ OutOK
    BY TypedGroups DEF IInv
  <2>4. IdentOK' /\ NegoOK' /\ AliveOK' /\ UNCHANGED <<nickAttempts, registered>>
         /\ UNCHANGED <<outstanding, missed, silence>>
    BY <2>1, <2>3, IdentKept, NegoKept, AliveKept DEF ident, alive
  <2>5. LifeOK' /\ UiOK' /\ OutOK'
    BY <2>2, <2>3 DEF LifeOK, UiOK, OutOK, SentOK, EmittedOK
  <2>6. TypeOK'
    BY <2>1, <2>3, <2>4, <2>5, TypedGroupsNext
  <2> QED BY <2>2, <2>4, <2>6
          DEF IInv, CountersBelow, LifeCycle, DisconnectedOnce, WelcomeIsFinal,
              NoFalseTimeout, Counted
<1> QED BY <1>1, <1>2, <1>3, <1>4 DEF Next

\* IInv is an invariant of run_session, for every configuration, every set of
\* capabilities and nicknames and every value of the retry and keepalive limits.
THEOREM Invariance == Spec => []IInv
BY InitInv, StepInv, PTL DEF Spec

\* Type correctness: in particular nick_attempts stays within MAX_ATTEMPTS (so
\* alternate_nick is only asked for attempts it knows) and missed_pongs within
\* MAX_MISSED_PONGS.
THEOREM TypeCorrect == Spec => []TypeOK
<1>1. IInv => TypeOK
  BY DEF IInv
<1> QED BY <1>1, Invariance, PTL

\* Disconnected reaches the UI at most once, and exactly once when run_session
\* returns Ok: Session::error_disconnect_emitted keeps ERROR and the end of the loop
\* from both announcing it.
THEOREM DisconnectedOnceHolds == Spec => []DisconnectedOnce
<1>1. IInv => DisconnectedOnce
  BY DEF IInv
<1> QED BY <1>1, Invariance, PTL

\* No session the server welcomed stops for a reason of the registration.
THEOREM WelcomeIsFinalHolds == Spec => []WelcomeIsFinal
<1>1. IInv => WelcomeIsFinal
  BY DEF IInv
<1> QED BY <1>1, Invariance, PTL

\* The keepalive only gives up a peer that left more than MAX_MISSED_PONGS ticks
\* without a PONG.
THEOREM NoFalseTimeoutHolds == Spec => []NoFalseTimeout
<1>1. IInv => NoFalseTimeout
  BY DEF IInv
<1> QED BY <1>1, Invariance, PTL

\* And it gives up every such peer: no tick more goes by in the loop.
THEOREM SilenceIsBoundedHolds == Spec => []SilenceIsBounded
<1>1. ASSUME IInv, pc = "loop" PROVE silence <= MaxMissedPongs
  <2>1. Counted
    BY <1>1 DEF IInv, CountersBelow
  <2>2. missed \in Nat /\ MaxMissedPongs \in Nat
    <3>1. AliveOK
      BY <1>1, TypedGroups DEF IInv
    <3> QED BY <3>1, LimitAssumption DEF AliveOK
  <2>3. CASE outstanding
    BY <2>1, <2>2, <2>3 DEF Counted
  <2>4. CASE ~outstanding
    BY <2>1, <2>2, <2>4 DEF Counted
  <2> QED BY <2>3, <2>4
<1>2. IInv => SilenceIsBounded
  BY <1>1 DEF SilenceIsBounded
<1> QED BY <1>2, Invariance, PTL

\* After Disconnected the UI hears nothing more of the session.
THEOREM SilentAfterDisconnectedHolds == Spec => SilentAfterDisconnected
<1>1. ASSUME IInv, Next, disconnects = 1
      PROVE  emitted' = <<>>
  <2>1. pc \in {"closing", "ended"}
    BY <1>1 DEF IInv, LifeCycle
  <2>2. CASE UserStep
    BY <2>2 DEF UserStep, Enqueue, DropSender, Emit
  <2>3. CASE ~UserStep
    <3>1. Close
      BY <1>1, <2>1, <2>3 DEF Next, OwnStep, ServerStep, Start, ConnectFails, Connected,
         Handshake, HandleCommand, CommandsClosed, PingTick, RegistrationDeadline,
         ReadLine, ReadEnds
    <3>2. errorSaid
      BY <1>1, <3>1 DEF IInv, LifeCycle, Close
    <3> QED BY <3>1, <3>2 DEF Close, Emit
  <2> QED BY <2>2, <2>3
<1>2. IInv /\ [Next]_vars => [disconnects = 1 => emitted' = <<>>]_vars
  BY <1>1
<1> QED BY <1>2, Invariance, PTL DEF Spec, SilentAfterDisconnected

-----------------------------------------------------------------------------
(* The refinement                                                            *)

\* Nothing takes a welcome back.
LEMMA RegisteredStays == ASSUME Next, registered PROVE registered'
<1>1. CASE UserStep
  BY <1>1 DEF UserStep, Enqueue, DropSender, ident
<1>2. CASE OwnStep
  BY <1>2 DEF OwnStep, Start, ConnectFails, Connected, Handshake, Close, HandleCommand,
              CommandsClosed, PingTick, RegistrationDeadline, ident
<1>3. ASSUME NEW m \in ServerLines, HandleLine(m)
      PROVE  registered'
  <2>1. CASE UNCHANGED ident
    BY <2>1 DEF ident
  <2>2. CASE Rejected \/ Welcome(m.nick) \/ NickChange(m.old, m.new)
    BY <2>2 DEF Rejected, Welcome, NickChange, ident
  <2>3. CASE NickUnavailable(m.nick)
    BY <2>3 DEF NickUnavailable, ident
  <2> QED BY <1>3, <2>1, <2>2, <2>3 DEF HandleLine
<1>4. CASE ServerStep
  BY <1>3, <1>4 DEF ServerStep, ReadLine, ReadEnds, ident
<1> QED BY <1>1, <1>2, <1>4 DEF Next

\* Nor the end of the session.
LEMMA OfflineStays ==
  ASSUME IInv, Next, Phase = "offline"
  PROVE  Phase' = "offline"
<1>1. pc \in {"closing", "ended"}
  <2> SUFFICES ASSUME pc \notin {"closing", "ended"} PROVE FALSE
    OBVIOUS
  <2>1. disconnects = 0 /\ result = "running"
    BY DEF IInv, LifeCycle
  <2> QED BY <2>1 DEF Phase
<1>2. CASE UserStep
  BY <1>2 DEF UserStep, Enqueue, DropSender, Emit, life, Phase
<1>3. CASE ~UserStep
  <2>1. Close
    BY <1>1, <1>3 DEF Next, OwnStep, ServerStep, Start, ConnectFails, Connected,
       Handshake, HandleCommand, CommandsClosed, PingTick, RegistrationDeadline,
       ReadLine, ReadEnds
  <2> QED BY <2>1 DEF Close, Phase
<1> QED BY <1>2, <1>3

\* Every behaviour of the engine is one of KircConnection: connecting, then perhaps
\* online, then offline for good.
THEOREM SessionImplementsConnection == Spec => ImplementsConnection
<1>1. ASSUME Init PROVE Connection!Init
  <2>1. disconnects = 0 /\ result = "running" /\ ~registered
    BY <1>1 DEF Init
  <2> QED BY <2>1 DEF Connection!Init, Phase
<1>2. ASSUME IInv, [Next]_vars
      PROVE  [Connection!Next]_Phase
  <2>1. CASE UNCHANGED vars
    BY <2>1 DEF vars, life, ident, out, Phase
  <2>2. CASE Next
    <3>1. Phase = "offline" => Phase' = "offline"
      BY <2>2, <1>2, OfflineStays
    <3>2. Phase = "online" => Phase' # "connecting"
      BY <2>2, RegisteredStays DEF Phase
    <3>3. Phase \in {"connecting", "online", "offline"}
            /\ Phase' \in {"connecting", "online", "offline"}
      BY DEF Phase
    <3> QED BY <3>1, <3>2, <3>3
            DEF Connection!Next, Connection!GoOnline, Connection!GoOffline
  <2> QED BY <1>2, <2>1, <2>2
<1> QED BY <1>1, <1>2, Invariance, PTL
        DEF Spec, ImplementsConnection, Connection!Spec

=============================================================================
