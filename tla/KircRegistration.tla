------------------------- MODULE KircRegistration -------------------------
(***************************************************************************)
(* The session of KircSession against a server that follows the protocol,  *)
(* with the lines of each direction delivered in order.  The server stands *)
(* outside the repository: it is what the engine's code and its loopback   *)
(* tests expect of one.  It may refuse the nickname, the capabilities, the *)
(* credentials or the connection; it may advertise and withdraw            *)
(* capabilities and rename the user; it may acknowledge one CAP REQ in two *)
(* CAP ACK lines.                                                          *)
(***************************************************************************)
EXTENDS KircSession

CONSTANTS
  NoNick,      \* the server has accepted no nickname yet
  MaxExtras    \* bound: unsolicited CAP NEW, CAP DEL and NICK lines

\* The server may split any list in two, so the lists are all there are.
ASSUME ServerAssumption ==
  NoNick \notin Nicks /\ CapLists = SUBSET Caps /\ MaxExtras \in Nat

VARIABLES
  toServer,  \* client lines under way
  toClient,  \* server lines under way
  srv,       \* what the server knows of this connection
  extras     \* unsolicited lines so far

rvars == <<vars, toServer, toClient, srv, extras>>

\* offers: advertised capabilities; scram: SCRAM-SHA-256 among sasl's values;
\* open: negotiation has begun and not ended; step: the AUTHENTICATE exchange;
\* late (history): sasl was left to the second line of an acknowledgement.
RInit ==
  /\ Init
  /\ toServer = <<>> /\ toClient = <<>> /\ extras = 0
  /\ srv \in [offers : CapLists, scram : BOOLEAN, nick : {NoNick}, user : {FALSE},
              open : {FALSE}, mech : {"none"}, step : {0}, account : {FALSE},
              welcomed : {FALSE}, gone : {FALSE}, late : {FALSE}]

-----------------------------------------------------------------------------
(* The client's side *)

ClientStep ==
  \/ /\ toClient # <<>>
     /\ ReadLine(Head(toClient))
     /\ toClient' = Tail(toClient)
     /\ toServer' = toServer \o sent'
     /\ UNCHANGED <<srv, extras>>
  \/ /\ Start \/ Connected \/ Handshake \/ Close
     /\ toServer' = toServer \o sent'
     /\ UNCHANGED <<toClient, srv, extras>>

-----------------------------------------------------------------------------
(* The server's side *)

CapLine(c, cs) == [cmd |-> c, caps |-> cs, scram |-> srv.scram]

\* The connection registers once it has a nickname, USER, and no open negotiation.
\* The server welcomes it, or turns it away with a 46x.
Settle(new, reply) ==
  IF new.nick # NoNick /\ new.user /\ ~new.open /\ ~new.welcomed /\ ~new.gone
  THEN \/ /\ srv' = [new EXCEPT !.welcomed = TRUE]
          /\ toClient' = toClient \o reply \o <<[cmd |-> "001", nick |-> new.nick]>>
       \/ /\ srv' = [new EXCEPT !.gone = TRUE]
          /\ toClient' = toClient \o reply \o <<Line("REJECTED")>>
  ELSE srv' = new /\ toClient' = toClient \o reply

\* A list in one line, or in two.
Listings(c, more, cs) ==
  {<<CapLine(c, cs)>>} \cup
  {<<CapLine(more, part), CapLine(c, cs \ part)>> : part \in SUBSET cs \ {{}, cs}}

AnswerNick(n) ==
  \/ Settle([srv EXCEPT !.nick = n], <<>>)
  \/ Settle(srv, <<[cmd |-> "433", nick |-> n]>>)

AnswerReq(req) ==
  \/ /\ req \subseteq srv.offers
     /\ \E acks \in Listings("CAP ACK", "CAP ACK", req) :
          Settle([srv EXCEPT !.late = @ \/ ("sasl" \in req \ Head(acks).caps)], acks)
  \/ Settle(srv, <<CapLine("CAP NAK", req)>>)

\* PLAIN takes one payload, SCRAM two; then the numerics, or a 904.
AnswerPayload ==
  \/ /\ srv.mech = "scram" /\ srv.step = 0
     /\ Settle([srv EXCEPT !.step = 1], <<Line("AUTH good")>>)
  \/ /\ srv.mech = "scram" => srv.step = 1
     /\ Settle([srv EXCEPT !.account = TRUE],
               (IF srv.mech = "scram" THEN <<Line("AUTH good")>> ELSE <<>>)
                 \o <<Line("SASL OK"), Line("SASL OK")>>)
  \/ Settle(srv, <<Line("SASL FAILED")>>)

Answer(m) ==
  \/ /\ m.cmd = "CAP LS 302"
     /\ \E ls \in Listings("CAP LS", "CAP LS *", srv.offers) :
          Settle([srv EXCEPT !.open = TRUE], ls)
  \/ m.cmd = "CAP REQ" /\ AnswerReq(m.caps)
  \/ m.cmd = "CAP END" /\ Settle([srv EXCEPT !.open = FALSE], <<>>)
  \/ m.cmd = "NICK" /\ AnswerNick(m.nick)
  \/ m.cmd = "USER" /\ Settle([srv EXCEPT !.user = TRUE], <<>>)
  \/ /\ m.cmd = "AUTHENTICATE"
     /\ Settle([srv EXCEPT !.mech = m.mech, !.step = 0], <<Line("AUTH +")>>)
  \/ m.cmd = "PAYLOAD" /\ AnswerPayload
  \/ m.cmd = "QUIT" /\ Settle([srv EXCEPT !.gone = TRUE], <<Line("ERROR")>>)
  \/ m.cmd \in {"PASS", "PONG"} /\ Settle(srv, <<>>)

ServerReads ==
  /\ toServer # <<>> /\ ~srv.gone
  /\ Answer(Head(toServer))
  /\ toServer' = Tail(toServer)
  /\ UNCHANGED <<vars, extras>>

\* Lines nobody asked for: the offer changes, or the user gets a new nickname.
ServerVolunteers ==
  /\ extras < MaxExtras /\ extras' = extras + 1
  /\ ~srv.gone
  /\ \/ \E c \in Caps \ srv.offers :
          /\ srv.open \/ srv.welcomed
          /\ srv' = [srv EXCEPT !.offers = @ \cup {c}]
          /\ toClient' = Append(toClient, CapLine("CAP NEW", {c}))
     \/ \E c \in srv.offers :
          /\ srv.open \/ srv.welcomed
          /\ srv' = [srv EXCEPT !.offers = @ \ {c}]
          /\ toClient' = Append(toClient, CapLine("CAP DEL", {c}))
     \/ \E n \in Nicks \ {srv.nick} :
          /\ srv.welcomed
          /\ srv' = [srv EXCEPT !.nick = n]
          /\ toClient' = Append(toClient, [cmd |-> "NICK", old |-> srv.nick, new |-> n])
     \/ \E n, o \in Nicks \ {srv.nick} :
          /\ srv.welcomed
          /\ toClient' = Append(toClient, [cmd |-> "NICK", old |-> o, new |-> n])
          /\ UNCHANGED srv
     \/ toClient' = Append(toClient, Line("PING")) /\ UNCHANGED srv
  /\ UNCHANGED <<vars, toServer>>

RNext == ClientStep \/ ServerReads \/ ServerVolunteers

RSpec == RInit /\ [][RNext]_rvars

-----------------------------------------------------------------------------
(* Properties *)

RTypeOK ==
  /\ TypeOK
  /\ toServer \in Seq(ClientLines) /\ toClient \in Seq(ServerLines)
  /\ srv \in [offers : CapLists, scram : BOOLEAN, nick : Nicks \cup {NoNick}, user : BOOLEAN,
              open : BOOLEAN, mech : {"none", "plain", "scram"}, step : 0..1,
              account : BOOLEAN, welcomed : BOOLEAN, gone : BOOLEAN, late : BOOLEAN]
  /\ extras \in 0..MaxExtras

\* With credentials configured, the server never welcomes a session that is not
\* logged in: CAP END waits for 900/903.  The exception is the code's: it sends CAP
\* END at the first ACK that does not start SASL.
LoggedInBeforeWelcome == srv.welcomed /\ cfg.sasl => srv.account \/ srv.late

\* The handshake cannot wedge: as long as the client is up and nobody has a line
\* to read, the client is registered.  There is no order of LS, ACK, NAK, 433 and
\* SASL replies in which both sides wait for the other until the deadline.
HandshakeNeverWedges ==
  pc = "loop" /\ toServer = <<>> /\ toClient = <<>> => registered

\* Once it has read everything, a registered client goes by the nickname the
\* server knows it by, however many 433 fallbacks and renames there were.
NickAgreement ==
  registered /\ pc = "loop" /\ toClient = <<>> => nick = srv.nick

\* CAP and SASL trouble ends a session only before 001: advertising or withdrawing
\* sasl later is harmless.
WelcomedKeepsSession ==
  reason \in {"no sasl", "sasl failed"} => ~registered \/ srv.late
=============================================================================
