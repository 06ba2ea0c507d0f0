----------------------- MODULE KircRegistrationProofs -----------------------
(***************************************************************************)
(* Proofs about KircRegistration: the session against a server that keeps  *)
(* to the protocol, for every set of capabilities and nicknames, any       *)
(* fallback nicknames and any number of unsolicited lines.                 *)
(*                                                                         *)
(* The inductive invariant says of each conversation of the registration   *)
(* where it stands: what is under way in either direction and what both    *)
(* ends know by then.  It is written of the lines to the server, `up`, the *)
(* lines to the client, `down`, and the server's state, `s`, so that a     *)
(* reply can be looked at before and after the server settles.             *)
(***************************************************************************)
EXTENDS KircRegistration, KircSessionProofs

\* The lines of a queue, and how often one of a kind is among them.
Lines(q)    == {q[i] : i \in 1..Len(q)}
Has(q, c)   == \E i \in 1..Len(q) : q[i].cmd = c
Once(q, c)  == \A i, j \in 1..Len(q) : q[i].cmd = c /\ q[j].cmd = c => i = j
One(q, c)   == Has(q, c) /\ Once(q, c)
Only(q, C)  == \A m \in Lines(q) : m.cmd \in C

\* No c is ahead of the first d.
Behind(q, c, d) == \A k \in 1..Len(q) : q[k].cmd = c => \E j \in 1..k : q[j].cmd = d

\* Of the lines c, the first one lists the capability x.
Heads(q, c, x) ==
  \A k \in 1..Len(q) : q[k].cmd = c => \E j \in 1..k : q[j].cmd = c /\ x \in q[j].caps

-----------------------------------------------------------------------------
(* Before the first line of the client *)

Early == pc \in {"start", "connecting", "handshake"}

\* Nothing was asked for, and nothing was granted.
EarlyInv(up, down, s) ==
  Early => /\ up = <<>> /\ s.nick = NoNick /\ ~s.account /\ ~s.gone
           /\ ~Has(down, "433")
           /\ ~Has(down, "CAP LS") /\ ~Has(down, "CAP ACK") /\ ~Has(down, "CAP NAK")
           /\ ~Has(down, "AUTH +") /\ ~Has(down, "AUTH good")
           /\ ~Has(down, "SASL OK") /\ ~Has(down, "SASL FAILED")

-----------------------------------------------------------------------------
(* The SASL exchange *)

NoSaslUp(up) == ~Has(up, "AUTHENTICATE") /\ ~Has(up, "PAYLOAD")
NoSaslDown(down) == /\ ~Has(down, "AUTH +") /\ ~Has(down, "AUTH good")
                    /\ ~Has(down, "SASL OK") /\ ~Has(down, "SASL FAILED")

\* The client waits for a verdict the server has not given.
Pending(s) == sasl.active /\ ~sasl.done /\ sasl.mech # "none" /\ ~s.account

SaslIdle(up, down, s) ==
  /\ NoSaslUp(up) /\ NoSaslDown(down)
  /\ sasl.mech = "none" /\ ~sasl.active /\ ~sasl.done /\ ~s.account

SaslAsked(up, down, s) ==
  /\ One(up, "AUTHENTICATE") /\ ~Has(up, "PAYLOAD") /\ NoSaslDown(down)
  /\ \A m \in Lines(up) : m.cmd = "AUTHENTICATE" => m.mech = sasl.mech
  /\ Pending(s)

SaslInvited(up, down, s) ==
  /\ NoSaslUp(up) /\ One(down, "AUTH +") /\ ~Has(down, "AUTH good")
  /\ ~Has(down, "SASL OK") /\ ~Has(down, "SASL FAILED")
  /\ Pending(s) /\ s.mech = sasl.mech /\ s.step = 0

SaslOffered(up, down, s) ==
  /\ One(up, "PAYLOAD") /\ ~Has(up, "AUTHENTICATE") /\ NoSaslDown(down)
  /\ Pending(s) /\ s.mech = sasl.mech
  /\ sasl.mech = "scram" => sasl.step = IF s.step = 0 THEN "await first" ELSE "await final"

SaslChallenged(up, down, s) ==
  /\ NoSaslUp(up) /\ One(down, "AUTH good") /\ ~Has(down, "AUTH +")
  /\ ~Has(down, "SASL OK") /\ ~Has(down, "SASL FAILED")
  /\ Pending(s) /\ s.mech = "scram" /\ sasl.mech = "scram"
  /\ s.step = 1 /\ sasl.step = "await first"

SaslGranted(up, down, s) ==
  /\ NoSaslUp(up) /\ ~Has(down, "AUTH +") /\ ~Has(down, "SASL FAILED")
  /\ Once(down, "AUTH good")
  /\ Has(down, "AUTH good") => sasl.mech = "scram" /\ sasl.step = "await final"
  /\ sasl.active \/ sasl.done
  /\ sasl.mech # "none" /\ s.account
  /\ Has(down, "SASL OK") \/ capEndSent \/ pc # "loop"

SaslRefused(up, down, s) ==
  /\ NoSaslUp(up) /\ One(down, "SASL FAILED") /\ ~Has(down, "AUTH +")
  /\ ~Has(down, "AUTH good") /\ ~Has(down, "SASL OK")
  /\ Pending(s)

SaslOver(up, down) == NoSaslUp(up) /\ NoSaslDown(down) /\ ~sasl.done /\ pc # "loop"

SaslInv(up, down, s) ==
  /\ ~Has(down, "AUTH bad")
  /\ sasl.active => cfg.sasl
  /\ \/ SaslIdle(up, down, s) \/ SaslAsked(up, down, s) \/ SaslInvited(up, down, s)
     \/ SaslOffered(up, down, s) \/ SaslChallenged(up, down, s)
     \/ SaslGranted(up, down, s) \/ SaslRefused(up, down, s) \/ SaslOver(up, down)

-----------------------------------------------------------------------------
(* Capability negotiation *)

NoCapUp(up) == ~Has(up, "CAP LS 302") /\ ~Has(up, "CAP REQ")
NoCapDown(down) == ~Has(down, "CAP LS") /\ ~Has(down, "CAP ACK") /\ ~Has(down, "CAP NAK")

\* Neither SASL nor the end of the negotiation was asked for.
Fresh == ~capEndSent /\ sasl.mech = "none" /\ ~sasl.active /\ ~sasl.done

CapNotBegun(up, down) == Early /\ NoCapUp(up) /\ NoCapDown(down) /\ Fresh

CapListing(up, down) ==
  One(up, "CAP LS 302") /\ ~Has(up, "CAP REQ") /\ NoCapDown(down) /\ Fresh

CapListed(up, down) ==
  /\ NoCapUp(up) /\ One(down, "CAP LS") /\ ~Has(down, "CAP ACK") /\ ~Has(down, "CAP NAK")
  /\ Fresh

\* With credentials, sasl is always among what is asked for.
CapRequested(up, down) ==
  /\ One(up, "CAP REQ") /\ ~Has(up, "CAP LS 302") /\ NoCapDown(down) /\ Fresh
  /\ \A m \in Lines(up) : m.cmd = "CAP REQ" /\ cfg.sasl => "sasl" \in m.caps

CapDenied(up, down) ==
  /\ NoCapUp(up) /\ One(down, "CAP NAK") /\ ~Has(down, "CAP LS") /\ ~Has(down, "CAP ACK")
  /\ Fresh
  /\ \A m \in Lines(down) : m.cmd = "CAP NAK" /\ cfg.sasl => "sasl" \in m.caps

\* sasl is acknowledged by the first line of the acknowledgement, or late.
SaslAcked(down, s) ==
  cfg.sasl /\ ~s.late => "sasl" \in caps.acked \/ Heads(down, "CAP ACK", "sasl")

CapAnswered(up, down, s) ==
  /\ ~Early /\ NoCapUp(up) /\ ~Has(down, "CAP LS") /\ ~Has(down, "CAP NAK")
  /\ SaslAcked(down, s)
  /\ pc = "loop" => Has(down, "CAP ACK") \/ capEndSent \/ sasl.active \/ sasl.done

CapInv(up, down, s) ==
  /\ capEndSent /\ cfg.sasl => s.account \/ s.late
  /\ \/ CapNotBegun(up, down) \/ CapListing(up, down) \/ CapListed(up, down)
     \/ CapRequested(up, down) \/ CapDenied(up, down) \/ CapAnswered(up, down, s)

-----------------------------------------------------------------------------
(* The end of the registration: 001 waits for CAP END, and CAP END for its turn *)

GateInv(up, down, s) ==
  /\ Has(up, "CAP END") => capEndSent
  /\ s.user => s.open \/ capEndSent
  /\ s.open \/ capEndSent \/ Behind(up, "USER", "CAP LS 302")
  /\ s.welcomed => capEndSent
  /\ Has(down, "001") \/ registered => s.welcomed

\* A session is torn down for the SASL or the capabilities only before 001.
TornInv(s) == reason \in {"no sasl", "sasl failed"} => ~registered \/ s.late

-----------------------------------------------------------------------------
(* Nicknames *)

\* One proposal at a time: a NICK, or the 433 it was refused with, or neither.
NickInv(up, down, s) ==
  /\ Once(up, "NICK") /\ Once(down, "433")
  /\ ~Has(up, "NICK") \/ ~Has(down, "433")
  /\ s.nick # NoNick => ~Has(up, "NICK") /\ ~Has(down, "433")
  /\ s.welcomed => s.nick # NoNick
  /\ ~s.welcomed => ~registered /\ ~Has(down, "001") /\ ~Has(down, "NICK")

\* What the client goes by once it has read m, if it went by n.
Called(m, n) == IF m.cmd = "001" THEN m.nick
                ELSE IF m.cmd = "NICK" /\ m.old = n THEN m.new ELSE n

\* The names on the way from the client's to the server's, line by line.
Leads(f, down, from, to) ==
  /\ f[0] = from /\ f[Len(down)] = to
  /\ \A k \in 1..Len(down) : f[k] = Called(down[k], f[k - 1])

\* Once welcomed, what is under way brings the client to the name the server has.
ChainInv(down, s) ==
  s.welcomed /\ pc = "loop" =>
    \E f \in [0..Len(down) -> Nicks] : Leads(f, down, nick, s.nick)

-----------------------------------------------------------------------------
(* Progress, when every write goes through: each thing the registration still *)
(* needs is under way, or the end of the session is                           *)

Underway(up, down, s) ==
  /\ Has(up, "QUIT") => pc # "loop"
  /\ pc = "loop" =>
       /\ ~registered => Has(up, "NICK") \/ Has(down, "433") \/ s.nick # NoNick
       /\ Has(up, "USER") \/ s.user
       /\ capEndSent /\ s.open => Has(up, "CAP END")
       /\ s.welcomed => registered \/ Has(down, "001")
       /\ s.gone => registered \/ Has(down, "REJECTED")

\* The server has made up its mind as soon as it can.
Settled(s) == s.nick # NoNick /\ s.user /\ ~s.open => s.welcomed \/ s.gone

OwedInv(up, down, s) == Underway(up, down, s) /\ Settled(s)

-----------------------------------------------------------------------------

Parts(up, down, s) ==
  /\ EarlyInv(up, down, s) /\ SaslInv(up, down, s) /\ CapInv(up, down, s)
  /\ GateInv(up, down, s) /\ TornInv(s) /\ NickInv(up, down, s) /\ ChainInv(down, s)
  /\ ~WritesMayFail => OwedInv(up, down, s)

-----------------------------------------------------------------------------
(* What is under way, as queues grow at one end and shrink at the other *)

LEMMA HasNothing == \A c : ~Has(<<>>, c)
BY DEF Has

LEMMA HasLine ==
  ASSUME NEW m, NEW c
  PROVE  (Has(<<m>>, c) <=> m.cmd = c) /\ Once(<<m>>, c)
BY DEF Has, Once

LEMMA HasLines ==
  ASSUME NEW m, NEW n, NEW c
  PROVE  /\ Has(<<m, n>>, c) <=> m.cmd = c \/ n.cmd = c
         /\ m.cmd # c \/ n.cmd # c => Once(<<m, n>>, c)
<1>1. Len(<<m, n>>) = 2 /\ <<m, n>>[1] = m /\ <<m, n>>[2] = n
  OBVIOUS
<1> QED BY <1>1 DEF Has, Once

LEMMA ConcatHas ==
  ASSUME NEW S, NEW q \in Seq(S), NEW r \in Seq(S), NEW c
  PROVE  /\ Has(q \o r, c) <=> Has(q, c) \/ Has(r, c)
         /\ Once(q, c) /\ Once(r, c) /\ (~Has(q, c) \/ ~Has(r, c)) => Once(q \o r, c)
<1>1. /\ Len(q) \in Nat /\ Len(r) \in Nat
      /\ Len(q \o r) = Len(q) + Len(r)
      /\ \A i \in 1..Len(q) : (q \o r)[i] = q[i]
      /\ \A i \in 1..Len(q) + Len(r) : i > Len(q) =>
           i - Len(q) \in 1..Len(r) /\ (q \o r)[i] = r[i - Len(q)]
      /\ \A i \in 1..Len(r) : (q \o r)[Len(q) + i] = r[i]
  BY ConcatProperties
<1>2. ASSUME Has(q \o r, c) PROVE Has(q, c) \/ Has(r, c)
  <2>1. PICK i \in 1..Len(q) + Len(r) : (q \o r)[i].cmd = c
    BY <1>1, <1>2 DEF Has
  <2>2. CASE i \in 1..Len(q)
    BY <1>1, <2>1, <2>2 DEF Has
  <2>3. CASE i > Len(q)
    BY <1>1, <2>1, <2>3 DEF Has
  <2> QED BY <1>1, <2>2, <2>3
<1>3. ASSUME Has(q, c) PROVE Has(q \o r, c)
  <2>1. PICK i \in 1..Len(q) : q[i].cmd = c
    BY <1>3 DEF Has
  <2> QED BY <1>1, <2>1 DEF Has
<1>4. ASSUME Has(r, c) PROVE Has(q \o r, c)
  <2>1. PICK i \in 1..Len(r) : r[i].cmd = c
    BY <1>4 DEF Has
  <2>2. Len(q) + i \in 1..Len(q \o r)
    BY <1>1
  <2> QED BY <1>1, <2>1, <2>2 DEF Has
<1>5. ASSUME Once(q, c), Once(r, c), ~Has(q, c) \/ ~Has(r, c)
      PROVE  Once(q \o r, c)
  <2> SUFFICES ASSUME NEW i \in 1..Len(q) + Len(r), NEW j \in 1..Len(q) + Len(r),
                      (q \o r)[i].cmd = c, (q \o r)[j].cmd = c
               PROVE  i = j
    BY <1>1 DEF Once
  <2>1. i \in 1..Len(q) => Has(q, c)
    BY <1>1 DEF Has
  <2>2. j \in 1..Len(q) => Has(q, c)
    BY <1>1 DEF Has
  <2>3. i > Len(q) => Has(r, c)
    BY <1>1 DEF Has
  <2>4. j > Len(q) => Has(r, c)
    BY <1>1 DEF Has
  <2>5. CASE i \in 1..Len(q) /\ j \in 1..Len(q)
    BY <1>1, <1>5, <2>5 DEF Once
  <2>6. CASE i > Len(q) /\ j > Len(q)
    <3>1. /\ i - Len(q) \in 1..Len(r) /\ r[i - Len(q)].cmd = c
          /\ j - Len(q) \in 1..Len(r) /\ r[j - Len(q)].cmd = c
      BY <1>1, <2>6
    <3>2. i - Len(q) = j - Len(q)
      BY <1>5, <3>1 DEF Once
    <3> QED BY <1>1, <3>2
  <2> QED BY <1>1, <1>5, <2>1, <2>2, <2>3, <2>4, <2>5, <2>6
<1> QED BY <1>2, <1>3, <1>4, <1>5

LEMMA TailHas ==
  ASSUME NEW S, NEW q \in Seq(S), q # <<>>, NEW c
  PROVE  /\ Has(q, c) <=> Head(q).cmd = c \/ Has(Tail(q), c)
         /\ Once(q, c) => Once(Tail(q), c) /\ (Head(q).cmd # c \/ ~Has(Tail(q), c))
<1>1. /\ Len(q) \in Nat \ {0} /\ Head(q) = q[1]
      /\ Len(Tail(q)) = Len(q) - 1
      /\ \A i \in 1..Len(q) - 1 : Tail(q)[i] = q[i + 1]
  BY HeadTailProperties, EmptySeq
<1>2. Has(q, c) => Head(q).cmd = c \/ Has(Tail(q), c)
  <2> SUFFICES ASSUME NEW i \in 1..Len(q), q[i].cmd = c, i # 1
               PROVE  Has(Tail(q), c)
    BY <1>1 DEF Has
  <2>1. i - 1 \in 1..Len(q) - 1 /\ (i - 1) + 1 = i
    BY <1>1
  <2>2. Tail(q)[i - 1] = q[i]
    BY <1>1, <2>1
  <2> QED BY <1>1, <2>1, <2>2 DEF Has
<1>3. Head(q).cmd = c => Has(q, c)
  BY <1>1 DEF Has
<1>4. Has(Tail(q), c) => Has(q, c)
  <2> SUFFICES ASSUME NEW i \in 1..Len(q) - 1, q[i + 1].cmd = c
               PROVE  Has(q, c)
    BY <1>1 DEF Has
  <2>1. i + 1 \in 1..Len(q)
    BY <1>1
  <2> QED BY <2>1 DEF Has
<1>5. ASSUME Once(q, c) PROVE Once(Tail(q), c)
  <2> SUFFICES ASSUME NEW i \in 1..Len(q) - 1, NEW j \in 1..Len(q) - 1,
                      q[i + 1].cmd = c, q[j + 1].cmd = c
               PROVE  i = j
    BY <1>1 DEF Once
  <2>1. i + 1 \in 1..Len(q) /\ j + 1 \in 1..Len(q)
    BY <1>1
  <2>2. i + 1 = j + 1
    BY <1>5, <2>1 DEF Once
  <2> QED BY <2>2
<1>6. ASSUME Once(q, c), Head(q).cmd = c PROVE ~Has(Tail(q), c)
  <2> SUFFICES ASSUME NEW i \in 1..Len(q) - 1, q[i + 1].cmd = c
               PROVE  FALSE
    BY <1>1 DEF Has
  <2>1. i + 1 \in 1..Len(q) /\ 1 \in 1..Len(q)
    BY <1>1
  <2>2. i + 1 = 1
    BY <1>1, <1>6, <2>1 DEF Once
  <2> QED BY <2>2
<1> QED BY <1>2, <1>3, <1>4, <1>5, <1>6

\* None of the lines that the registration consists of.
Mute(q) == /\ ~Has(q, "CAP LS 302") /\ ~Has(q, "CAP REQ") /\ ~Has(q, "NICK") /\ ~Has(q, "USER")
           /\ ~Has(q, "AUTHENTICATE") /\ ~Has(q, "PAYLOAD")

LEMMA OnlyHas ==
  ASSUME NEW q, NEW C, Only(q, C), NEW c, c \notin C
  PROVE  ~Has(q, c)
BY DEF Only, Has, Lines

LEMMA OnlyMute ==
  ASSUME NEW q
  PROVE  /\ Only(q, {"QUIT"}) => Mute(q) /\ ~Has(q, "CAP END")
         /\ Only(q, {"CAP END"}) => Mute(q) /\ ~Has(q, "QUIT")
         /\ Only(q, {"PONG", "REPLY", "JOIN"}) => Mute(q) /\ ~Has(q, "CAP END") /\ ~Has(q, "QUIT")
<1>1. ASSUME Only(q, {"QUIT"}) PROVE Mute(q) /\ ~Has(q, "CAP END")
  BY <1>1 DEF Only, Has, Lines, Mute
<1>2. ASSUME Only(q, {"CAP END"}) PROVE Mute(q) /\ ~Has(q, "QUIT")
  BY <1>2 DEF Only, Has, Lines, Mute
<1>3. ASSUME Only(q, {"PONG", "REPLY", "JOIN"})
      PROVE  Mute(q) /\ ~Has(q, "CAP END") /\ ~Has(q, "QUIT")
  BY <1>3 DEF Only, Has, Lines, Mute
<1> QED BY <1>1, <1>2, <1>3

LEMMA LineCmd == \A c : Line(c).cmd = c
BY DEF Line

LEMMA OnlyLine ==
  ASSUME NEW m, NEW C
  PROVE  Only(<<m>>, C) <=> m.cmd \in C
BY DEF Only, Lines

LEMMA OnlyNothing == \A C : Only(<<>>, C)
BY DEF Only, Lines

LEMMA LineOf == \A m : Lines(<<m>>) = {m}
BY DEF Lines

LEMMA ConcatLines ==
  ASSUME NEW S, NEW q \in Seq(S), NEW r \in Seq(S)
  PROVE  Lines(q \o r) \subseteq Lines(q) \cup Lines(r)
<1> SUFFICES ASSUME NEW i \in 1..Len(q) + Len(r)
             PROVE  (q \o r)[i] \in Lines(q) \cup Lines(r)
  BY ConcatProperties DEF Lines
<1>1. Len(q) \in Nat /\ Len(r) \in Nat
  OBVIOUS
<1>2. CASE i <= Len(q)
  BY <1>1, <1>2, ConcatProperties DEF Lines
<1>3. CASE i > Len(q)
  <2>1. i - Len(q) \in 1..Len(r)
    BY <1>1, <1>3
  <2> QED BY <1>1, <1>3, <2>1, ConcatProperties DEF Lines
<1> QED BY <1>1, <1>2, <1>3

LEMMA TailLines ==
  ASSUME NEW S, NEW q \in Seq(S), q # <<>>
  PROVE  Lines(Tail(q)) \subseteq Lines(q) /\ Head(q) \in Lines(q) /\ Head(q) \in S
<1>1. /\ Len(q) \in Nat \ {0} /\ Head(q) = q[1] /\ Head(q) \in S
      /\ Len(Tail(q)) = Len(q) - 1
      /\ \A i \in 1..Len(q) - 1 : Tail(q)[i] = q[i + 1] /\ i + 1 \in 1..Len(q)
  BY HeadTailProperties, EmptySeq
<1> QED BY <1>1 DEF Lines

LEMMA HasMember ==
  ASSUME NEW q, NEW m \in Lines(q)
  PROVE  Has(q, m.cmd)
BY DEF Lines, Has

LEMMA BehindConcat ==
  ASSUME NEW S, NEW q \in Seq(S), NEW r \in Seq(S), NEW c, NEW d,
         Behind(q, c, d), ~Has(r, c)
  PROVE  Behind(q \o r, c, d)
<1>1. /\ Len(q) \in Nat /\ Len(r) \in Nat
      /\ Len(q \o r) = Len(q) + Len(r)
      /\ \A i \in 1..Len(q) : (q \o r)[i] = q[i]
      /\ \A i \in 1..Len(q) + Len(r) : i > Len(q) =>
           i - Len(q) \in 1..Len(r) /\ (q \o r)[i] = r[i - Len(q)]
  BY ConcatProperties
<1> SUFFICES ASSUME NEW k \in 1..Len(q) + Len(r), (q \o r)[k].cmd = c
             PROVE  \E j \in 1..k : (q \o r)[j].cmd = d
  BY <1>1 DEF Behind
<1>2. k \in 1..Len(q)
  BY <1>1 DEF Has
<1>3. PICK j \in 1..k : q[j].cmd = d
  BY <1>1, <1>2 DEF Behind
<1> QED BY <1>1, <1>2, <1>3

LEMMA BehindTail ==
  ASSUME NEW S, NEW q \in Seq(S), q # <<>>, NEW c, NEW d,
         Behind(q, c, d), Head(q).cmd # d
  PROVE  Behind(Tail(q), c, d) /\ Head(q).cmd # c
<1>1. /\ Len(q) \in Nat \ {0} /\ Head(q) = q[1]
      /\ Len(Tail(q)) = Len(q) - 1
      /\ \A i \in 1..Len(q) - 1 : Tail(q)[i] = q[i + 1]
  BY HeadTailProperties, EmptySeq
<1>2. Head(q).cmd # c
  BY <1>1 DEF Behind
<1>3. ASSUME NEW k \in 1..Len(q) - 1, q[k + 1].cmd = c
      PROVE  \E j \in 1..k : Tail(q)[j].cmd = d
  <2>1. PICK j \in 1..(k + 1) : q[j].cmd = d
    BY <1>1, <1>3 DEF Behind
  <2>2. j # 1
    BY <1>1, <2>1
  <2>3. j - 1 \in 1..k /\ (j - 1) + 1 = j /\ j - 1 \in 1..Len(q) - 1
    BY <1>1, <2>2
  <2>4. Tail(q)[j - 1] = q[j]
    BY <1>1, <2>3
  <2> QED BY <2>1, <2>3, <2>4
<1> QED BY <1>1, <1>2, <1>3 DEF Behind

LEMMA HeadsTail ==
  ASSUME NEW S, NEW q \in Seq(S), q # <<>>, NEW c, NEW x, Heads(q, c, x)
  PROVE  \/ Head(q).cmd = c /\ x \in Head(q).caps
         \/ Head(q).cmd # c /\ Heads(Tail(q), c, x)
<1>1. /\ Len(q) \in Nat \ {0} /\ Head(q) = q[1]
      /\ Len(Tail(q)) = Len(q) - 1
      /\ \A i \in 1..Len(q) - 1 : Tail(q)[i] = q[i + 1]
  BY HeadTailProperties, EmptySeq
<1>2. CASE Head(q).cmd = c
  <2>1. PICK j \in 1..1 : q[j].cmd = c /\ x \in q[j].caps
    BY <1>1, <1>2 DEF Heads
  <2> QED BY <1>1, <1>2, <2>1
<1>3. ASSUME Head(q).cmd # c, NEW k \in 1..Len(q) - 1, q[k + 1].cmd = c
      PROVE  \E j \in 1..k : Tail(q)[j].cmd = c /\ x \in Tail(q)[j].caps
  <2>1. PICK j \in 1..(k + 1) : q[j].cmd = c /\ x \in q[j].caps
    BY <1>1, <1>3 DEF Heads
  <2>2. j # 1
    BY <1>1, <1>3, <2>1
  <2>3. j - 1 \in 1..k /\ (j - 1) + 1 = j /\ j - 1 \in 1..Len(q) - 1
    BY <1>1, <2>2
  <2>4. Tail(q)[j - 1] = q[j]
    BY <1>1, <2>3
  <2> QED BY <2>1, <2>3, <2>4
<1> QED BY <1>1, <1>2, <1>3 DEF Heads

LEMMA HeadsConcat ==
  ASSUME NEW S, NEW q \in Seq(S), NEW r \in Seq(S), NEW c, NEW x, Heads(q, c, x), ~Has(r, c)
  PROVE  Heads(q \o r, c, x)
<1>1. /\ Len(q) \in Nat /\ Len(r) \in Nat
      /\ Len(q \o r) = Len(q) + Len(r)
      /\ \A i \in 1..Len(q) : (q \o r)[i] = q[i]
      /\ \A i \in 1..Len(q) + Len(r) : i > Len(q) =>
           i - Len(q) \in 1..Len(r) /\ (q \o r)[i] = r[i - Len(q)]
  BY ConcatProperties
<1> SUFFICES ASSUME NEW k \in 1..Len(q) + Len(r), (q \o r)[k].cmd = c
             PROVE  \E j \in 1..k : (q \o r)[j].cmd = c /\ x \in (q \o r)[j].caps
  BY <1>1 DEF Heads
<1>2. k \in 1..Len(q)
  BY <1>1 DEF Has
<1>3. PICK j \in 1..k : q[j].cmd = c /\ x \in q[j].caps
  BY <1>1, <1>2 DEF Heads
<1> QED BY <1>1, <1>2, <1>3

-----------------------------------------------------------------------------
(* What one line does to the session, as far as the registration goes *)

\* The turn ends the loop with nothing to say, or with a QUIT.
GivesUp(why) == pc' = "closing" /\ reason' = why /\ Only(sent', {"QUIT"})

LEMMA SentLine ==
  ASSUME NEW m, NEW C, m.cmd \in C
  PROVE  /\ Send(<<m>>) => Only(sent', C)
         /\ TrySend(m) => Only(sent', C)
         /\ SendOrBreak(m) => Only(sent', C)
BY OnlyLine, OnlyNothing DEF Send, TrySend, SendOrBreak

LEMMA AbortGivesUp ==
  ASSUME NEW why, Abort(why)
  PROVE  GivesUp(why) /\ UNCHANGED <<result, errorSaid>>
<1>1. Only(sent', {"QUIT"})
  BY SentLine DEF Abort, Line
<1> QED BY <1>1 DEF Abort, GivesUp, Stop

LEMMA CapEndSaid ==
  ASSUME NEW active, MaybeSendCapEnd(active)
  PROVE  /\ Only(sent', {"CAP END"})
         /\ capEndSent' => capEndSent \/ ~active
         /\ capEndSent => capEndSent'
         /\ ~active => capEndSent'
         /\ Has(sent', "CAP END") => capEndSent'
         /\ capEndSent' /\ ~capEndSent /\ ~WritesMayFail => Has(sent', "CAP END")
<1>1. CASE (capEndSent \/ active) /\ Send(<<>>) /\ UNCHANGED capEndSent
  BY <1>1, OnlyNothing, HasNothing DEF Send
<1>2. CASE ~(capEndSent \/ active) /\ TrySend(Line("CAP END")) /\ capEndSent' = TRUE
  <2>1. Only(sent', {"CAP END"})
    BY <1>2, SentLine DEF Line
  <2>2. ~WritesMayFail => sent' = <<Line("CAP END")>>
    BY <1>2 DEF TrySend, Send
  <2>3. Line("CAP END").cmd = "CAP END"
    BY DEF Line
  <2>4. ~WritesMayFail => Has(sent', "CAP END")
    BY <2>2, <2>3, HasLine
  <2> QED BY <1>2, <2>1, <2>4
<1> QED BY <1>1, <1>2 DEF MaybeSendCapEnd

LEMMA CapEndGate ==
  ASSUME MaybeSendCapEnd(sasl.active)
  PROVE  /\ capEndSent \/ ~sasl.active => capEndSent'
         /\ capEndSent' => capEndSent \/ ~sasl.active
<1>1. CASE capEndSent \/ sasl.active
  <2>1. UNCHANGED capEndSent
    BY <1>1 DEF MaybeSendCapEnd
  <2> QED BY <1>1, <2>1
<1>2. CASE ~(capEndSent \/ sasl.active)
  <2>1. capEndSent' = TRUE
    BY <1>2 DEF MaybeSendCapEnd
  <2> QED BY <1>2, <2>1
<1> QED BY <1>1, <1>2

LEMMA AdvertiseAcks ==
  ASSUME TypeOK, NEW new, NEW scram, Advertise(new, scram)
  PROVE  caps'.acked = caps.acked
BY DEF TypeOK, Advertise

PlainTurns == {"PONG", "PING", "CTCP", "INVITE", "OTHER", "CAP LS *", "CAP NEW", "CAP DEL"}

LEMMA PlainTurn ==
  ASSUME TypeOK, NEW m, m.cmd \in PlainTurns, ReadLine(m)
  PROVE  /\ UNCHANGED <<cfg, ident, sasl, capEndSent>> /\ caps'.acked = caps.acked
         /\ Only(sent', {"PONG", "REPLY", "JOIN"})
         /\ \/ UNCHANGED <<pc, reason>>
            \/ pc' = "closing" /\ reason' = "write error"
<1>1. CASE m.cmd = "PONG"
  BY <1>1, OnlyNothing DEF ReadLine, HandleLine, HandlePong, Send, Stay, life, ident, nego
<1>2. CASE m.cmd = "PING"
  <2>1. Ping /\ UNCHANGED <<cfg, ident, nego>>
    BY <1>2 DEF ReadLine, HandleLine
  <2>2. Only(sent', {"PONG", "REPLY", "JOIN"})
    BY <2>1, SentLine DEF Ping, Line
  <2> QED BY <2>1, <2>2 DEF Ping, SendOrBreak, Stay, Stop, life, nego
<1>3. CASE m.cmd = "CTCP"
  <2>1. CtcpRequest /\ UNCHANGED <<cfg, ident, nego>>
    BY <1>3 DEF ReadLine, HandleLine
  <2>2. Only(sent', {"PONG", "REPLY", "JOIN"})
    BY <2>1, SentLine DEF CtcpRequest, Line
  <2> QED BY <2>1, <2>2 DEF CtcpRequest, SendOrBreak, Stay, Stop, life, nego
<1>4. CASE m.cmd = "INVITE"
  <2>1. Invite /\ UNCHANGED <<cfg, ident, nego>>
    BY <1>4 DEF ReadLine, HandleLine
  <2>2. Only(sent', {"PONG", "REPLY", "JOIN"})
    BY <2>1, SentLine DEF Invite, Line
  <2> QED BY <2>1, <2>2 DEF Invite, Stay, life, nego
<1>5. CASE m.cmd = "OTHER"
  BY <1>5, OnlyNothing DEF ReadLine, HandleLine, PassOn, Send, Stay, life, ident, nego
<1>6. CASE m.cmd \in {"CAP LS *", "CAP NEW"}
  <2>1. CapLsMore(m.caps, m.scram) /\ UNCHANGED <<cfg, ident>>
    BY <1>6 DEF ReadLine, HandleLine, CapNew
  <2>2. caps'.acked = caps.acked
    BY <2>1, AdvertiseAcks DEF CapLsMore
  <2> QED BY <2>1, <2>2, OnlyNothing DEF CapLsMore, Send, Stay, life
<1>7. CASE m.cmd = "CAP DEL"
  <2>1. CapDel(m.caps) /\ UNCHANGED <<cfg, ident>>
    BY <1>7 DEF ReadLine, HandleLine
  <2>2. caps'.acked = caps.acked
    BY <2>1 DEF CapDel, TypeOK
  <2> QED BY <2>1, <2>2, OnlyNothing DEF CapDel, Send, Stay, life
<1> QED BY <1>1, <1>2, <1>3, <1>4, <1>5, <1>6, <1>7 DEF PlainTurns

LEMMA ErrorTurn ==
  ASSUME NEW m, m.cmd = "ERROR", ReadLine(m)
  PROVE  /\ UNCHANGED <<cfg, ident, nego>>
         /\ sent' = <<>> /\ pc' = "closing" /\ reason' = "server error"
BY DEF ReadLine, HandleLine, ServerError, Send

LEMMA RejectedTurn ==
  ASSUME NEW m, m.cmd = "REJECTED", ReadLine(m)
  PROVE  /\ UNCHANGED <<cfg, ident, nego>>
         /\ \/ registered /\ sent' = <<>> /\ UNCHANGED <<pc, reason>>
            \/ ~registered /\ GivesUp("rejected")
<1>1. Rejected /\ UNCHANGED <<cfg, nego>>
  BY DEF ReadLine, HandleLine
<1>2. CASE registered
  BY <1>1, <1>2 DEF Rejected, Send, Stay, life
<1>3. CASE ~registered
  BY <1>1, <1>3, AbortGivesUp DEF Rejected
<1> QED BY <1>1, <1>2, <1>3 DEF Rejected

LEMMA WelcomeTurn ==
  ASSUME NEW m, m.cmd = "001", ReadLine(m)
  PROVE  /\ UNCHANGED <<cfg, nego, pc, reason>>
         /\ registered' = TRUE /\ nick' = m.nick /\ sent' = <<>>
BY DEF ReadLine, HandleLine, Welcome, Send, Stay, life

LEMMA NickTurn ==
  ASSUME NEW m, m.cmd = "NICK", ReadLine(m)
  PROVE  /\ UNCHANGED <<cfg, nego, pc, reason, registered>>
         /\ nick' = (IF m.old = nick THEN m.new ELSE nick) /\ sent' = <<>>
BY DEF ReadLine, HandleLine, NickChange, Send, Stay, life

LEMMA NickTakenTurn ==
  ASSUME NEW m, m.cmd = "433", ReadLine(m)
  PROVE  /\ UNCHANGED <<cfg, nego, registered>>
         /\ \/ registered /\ nick' = nick /\ sent' = <<>> /\ UNCHANGED <<pc, reason>>
            \/ ~registered /\ GivesUp("nick in use")
            \/ /\ ~registered /\ UNCHANGED <<pc, reason>>
               /\ \/ sent' = <<NickLine(nick')>>
                  \/ WritesMayFail /\ sent' = <<>>
<1>1. NickUnavailable(m.nick) /\ UNCHANGED <<cfg, nego>>
  BY DEF ReadLine, HandleLine
<1>2. CASE registered
  BY <1>1, <1>2 DEF NickUnavailable, Send, Stay, life, ident
<1>3. CASE ~registered
  <2>1. RetryNick(m.nick)
    BY <1>1, <1>3 DEF NickUnavailable
  <2>2. CASE Abort("nick in use")
    BY <1>1, <1>3, <2>1, <2>2, AbortGivesUp DEF RetryNick
  <2>3. CASE TrySend(NickLine(nick')) /\ Stay
    BY <1>1, <1>3, <2>1, <2>3 DEF RetryNick, TrySend, Send, Stay, life
  <2> QED BY <2>1, <2>2, <2>3 DEF RetryNick
<1> QED BY <1>2, <1>3

LEMMA CapLsTurn ==
  ASSUME TypeOK, NEW m, m.cmd = "CAP LS", ReadLine(m)
  PROVE  /\ UNCHANGED <<cfg, ident, sasl>> /\ caps'.acked = caps.acked
         /\ \/ GivesUp("no sasl") /\ cfg.sasl /\ UNCHANGED capEndSent
            \/ /\ ~cfg.sasl /\ MaybeSendCapEnd(sasl.active) /\ UNCHANGED <<pc, reason>>
            \/ /\ UNCHANGED capEndSent
               /\ \/ pc' = "closing" /\ reason' = "write error" /\ sent' = <<>>
                  \/ /\ UNCHANGED <<pc, reason>>
                     /\ \E req \in SUBSET Caps : /\ sent' = <<CapReq(req)>>
                                                 /\ cfg.sasl => "sasl" \in req
<1> DEFINE avail == caps.avail \cup m.caps
<1> DEFINE requested == Wanted \cap avail
<1>1. CapLs(m.caps, m.scram) /\ UNCHANGED <<cfg, ident>>
  BY DEF ReadLine, HandleLine
<1>2. UNCHANGED sasl /\ caps'.acked = caps.acked
  <2>1. Advertise(m.caps, m.scram)
    BY <1>1 DEF CapLs
  <2>2. caps'.acked = caps.acked
    BY <2>1, AdvertiseAcks
  <2> QED BY <1>1, <2>2 DEF CapLs
<1>3. BeginCapRequest(avail)
  BY <1>1 DEF CapLs
<1>4. requested \subseteq Caps
  BY ConfigAssumption DEF Wanted
<1>5. cfg.sasl /\ "sasl" \in avail => "sasl" \in requested
  BY CapsAssumption DEF Wanted
<1> HIDE DEF avail
<1>6. CASE cfg.sasl /\ "sasl" \notin avail
  <2>1. Abort("no sasl") /\ UNCHANGED capEndSent
    BY <1>3, <1>6 DEF BeginCapRequest
  <2> QED BY <1>1, <1>2, <1>6, <2>1, AbortGivesUp
<1>7. CASE ~(cfg.sasl /\ "sasl" \notin avail) /\ requested = {}
  <2>1. MaybeSendCapEnd(sasl.active) /\ Stay
    BY <1>3, <1>7 DEF BeginCapRequest
  <2>2. ~cfg.sasl
    BY <1>5, <1>7
  <2> QED BY <1>1, <1>2, <2>1, <2>2 DEF Stay, life
<1>8. CASE ~(cfg.sasl /\ "sasl" \notin avail) /\ requested # {}
  <2>1. SendOrBreak(CapReq(requested)) /\ UNCHANGED capEndSent
    BY <1>3, <1>8 DEF BeginCapRequest
  <2>2. cfg.sasl => "sasl" \in requested
    BY <1>5, <1>8
  <2> HIDE DEF requested
  <2>3. CASE Send(<<CapReq(requested)>>) /\ Stay
    BY <1>1, <1>2, <1>4, <2>1, <2>2, <2>3 DEF Send, Stay, life
  <2>4. CASE Send(<<>>) /\ Stop("write error")
    BY <1>1, <1>2, <2>1, <2>4 DEF Send, Stop
  <2> QED BY <2>1, <2>3, <2>4 DEF SendOrBreak
<1> QED BY <1>6, <1>7, <1>8

LEMMA CapAckTurn ==
  ASSUME TypeOK, NEW m, m.cmd = "CAP ACK", ReadLine(m)
  PROVE  /\ UNCHANGED <<cfg, ident>> /\ caps'.acked = caps.acked \cup m.caps
         /\ \/ /\ cfg.sasl /\ ~sasl.active /\ ~sasl.done
               /\ sasl'.mech # "none" /\ sasl'.step = "initial" /\ sasl'.active /\ ~sasl'.done
               /\ UNCHANGED capEndSent
               /\ \/ UNCHANGED <<pc, reason>> /\ sent' = <<SaslLine(sasl'.mech)>>
                  \/ pc' = "closing" /\ reason' = "write error" /\ sent' = <<>>
            \/ /\ ~cfg.sasl \/ "sasl" \notin caps'.acked \/ sasl.active \/ sasl.done
               /\ MaybeSendCapEnd(sasl.active)
               /\ UNCHANGED <<pc, reason, sasl>>
<1>1. CapAck(m.caps) /\ UNCHANGED <<cfg, ident>>
  BY DEF ReadLine, HandleLine
<1>2. caps'.acked = caps.acked \cup m.caps
  BY <1>1 DEF CapAck, TypeOK
<1>3. CASE cfg.sasl /\ "sasl" \in caps.acked \cup m.caps /\ ~sasl.active /\ ~sasl.done
  <2>1. StartSasl
    BY <1>1, <1>3 DEF CapAck
  <2>2. Mechanism \in {"plain", "scram"}
    BY DEF Mechanism
  <2>3. sasl' = [sasl EXCEPT !.mech = Mechanism, !.step = "initial", !.active = TRUE]
    BY <2>1 DEF StartSasl
  <2> HIDE DEF Mechanism
  <2>4. sasl'.mech = Mechanism /\ sasl'.step = "initial" /\ sasl'.active /\ ~sasl'.done
    BY <1>3, <2>3 DEF TypeOK
  <2>5. UNCHANGED capEndSent /\ SendOrBreak(SaslLine(Mechanism))
    BY <2>1 DEF StartSasl
  <2>6. \/ UNCHANGED <<pc, reason>> /\ sent' = <<SaslLine(sasl'.mech)>>
        \/ pc' = "closing" /\ reason' = "write error" /\ sent' = <<>>
    BY <2>4, <2>5 DEF SendOrBreak, Send, Stay, Stop, life
  <2>7. sasl'.mech # "none"
    BY <2>2, <2>4
  <2> QED BY <1>1, <1>2, <1>3, <2>4, <2>5, <2>6, <2>7
<1>4. CASE ~(cfg.sasl /\ "sasl" \in caps.acked \cup m.caps /\ ~sasl.active /\ ~sasl.done)
  <2>1. MaybeSendCapEnd(sasl.active) /\ Stay /\ UNCHANGED sasl
    BY <1>1, <1>4 DEF CapAck
  <2> QED BY <1>1, <1>2, <1>4, <2>1 DEF Stay, life
<1> QED BY <1>3, <1>4

LEMMA CapNakTurn ==
  ASSUME NEW m, m.cmd = "CAP NAK", ReadLine(m)
  PROVE  /\ UNCHANGED <<cfg, ident, sasl, caps>>
         /\ \/ GivesUp("no sasl") /\ cfg.sasl /\ UNCHANGED capEndSent
            \/ /\ ~cfg.sasl \/ "sasl" \notin m.caps
               /\ MaybeSendCapEnd(sasl.active) /\ UNCHANGED <<pc, reason>>
<1>1. CapNak(m.caps) /\ UNCHANGED <<cfg, ident>>
  BY DEF ReadLine, HandleLine
<1>2. CASE cfg.sasl /\ "sasl" \in m.caps
  <2>1. Abort("no sasl") /\ UNCHANGED <<capEndSent, sasl, caps>>
    BY <1>1, <1>2 DEF CapNak
  <2> QED BY <1>1, <1>2, <2>1, AbortGivesUp
<1>3. CASE ~(cfg.sasl /\ "sasl" \in m.caps)
  BY <1>1, <1>3 DEF CapNak, Stay, life
<1> QED BY <1>2, <1>3

\* What handle_authenticate leaves alone.
AuthLines == {"AUTH +", "AUTH good", "AUTH bad"}
AuthKeeps ==
  /\ UNCHANGED <<cfg, ident, caps, capEndSent>>
  /\ sasl'.mech = sasl.mech /\ (sasl'.active <=> sasl.active) /\ (sasl'.done <=> sasl.done)

LEMMA AuthenticateTurn ==
  ASSUME TypeOK, NEW m, m.cmd \in AuthLines, ReadLine(m)
  PROVE  AuthKeeps
<1>1. CASE m.cmd = "AUTH +"
  BY <1>1 DEF ReadLine, HandleLine, AuthenticateEmpty, TypeOK, AuthKeeps
<1>2. ASSUME NEW good \in BOOLEAN, Authenticate(good), UNCHANGED <<cfg, ident>>
      PROVE  AuthKeeps
  BY <1>2 DEF Authenticate, TypeOK, AuthKeeps
<1>3. CASE m.cmd = "AUTH good"
  BY <1>2, <1>3 DEF ReadLine, HandleLine
<1>4. CASE m.cmd = "AUTH bad"
  BY <1>2, <1>4 DEF ReadLine, HandleLine
<1> QED BY <1>1, <1>3, <1>4 DEF AuthLines

\* A payload goes out, or the write fails.
Pays == \/ UNCHANGED <<pc, reason>> /\ sent' = <<Line("PAYLOAD")>>
        \/ pc' = "closing" /\ reason' = "write error" /\ sent' = <<>>
LEMMA PayloadPays == SaslPayload => Pays
BY DEF SaslPayload, SendOrBreak, Send, Stay, Stop, life, Pays

LEMMA AuthInviteTurn ==
  ASSUME TypeOK, NEW m, m.cmd = "AUTH +", ReadLine(m), sasl.mech # "none"
  PROVE  Pays /\ (sasl.mech = "scram" => sasl'.step = "await first")
<1>1. AuthenticateEmpty
  BY DEF ReadLine, HandleLine
<1>2. SaslPayload
  BY <1>1 DEF AuthenticateEmpty
<1>3. sasl.mech = "scram" => sasl'.step = "await first"
  BY <1>1 DEF AuthenticateEmpty, TypeOK
<1> QED BY <1>2, <1>3, PayloadPays

LEMMA AuthGoodTurn ==
  ASSUME TypeOK, NEW m, m.cmd = "AUTH good", ReadLine(m), sasl.mech = "scram"
  PROVE  /\ sasl.step = "await first" => Pays /\ sasl'.step = "await final"
         /\ sasl.step = "await final" => sent' = <<>> /\ UNCHANGED <<pc, reason>>
<1>1. Authenticate(TRUE)
  BY DEF ReadLine, HandleLine
<1>2. ASSUME sasl.step = "await first" PROVE Pays /\ sasl'.step = "await final"
  <2>1. SaslPayload /\ sasl' = [sasl EXCEPT !.step = "await final"]
    BY <1>1, <1>2 DEF Authenticate
  <2> QED BY <2>1, PayloadPays DEF TypeOK
<1>3. ASSUME sasl.step = "await final" PROVE sent' = <<>> /\ UNCHANGED <<pc, reason>>
  <2>1. SaslWait
    BY <1>1, <1>3 DEF Authenticate
  <2> QED BY <2>1 DEF SaslWait, Send, Stay, life
<1> QED BY <1>2, <1>3

LEMMA SaslOkTurn ==
  ASSUME TypeOK, NEW m, m.cmd = "SASL OK", ReadLine(m)
  PROVE  /\ UNCHANGED <<cfg, ident, caps, pc, reason>>
         /\ sasl'.mech = sasl.mech /\ sasl'.done /\ ~sasl'.active /\ sasl'.step = sasl.step
         /\ MaybeSendCapEnd(FALSE)
<1>1. SaslSucceeded /\ UNCHANGED <<cfg, ident>>
  BY DEF ReadLine, HandleLine
<1>2. sasl'.mech = sasl.mech /\ sasl'.done /\ ~sasl'.active /\ sasl'.step = sasl.step
  BY <1>1 DEF SaslSucceeded, TypeOK
<1> QED BY <1>1, <1>2 DEF SaslSucceeded, Stay, life

LEMMA SaslFailedTurn ==
  ASSUME NEW m, m.cmd = "SASL FAILED", ReadLine(m)
  PROVE  UNCHANGED <<cfg, ident, nego>> /\ GivesUp("sasl failed")
<1>1. SaslFailed /\ UNCHANGED <<cfg, ident>>
  BY DEF ReadLine, HandleLine
<1> QED BY <1>1, AbortGivesUp DEF SaslFailed

-----------------------------------------------------------------------------
(* A turn of the client: it reads the first line under way and may send some *)

SrvType ==
  [offers : CapLists, scram : BOOLEAN, nick : Nicks \cup {NoNick}, user : BOOLEAN,
   open : BOOLEAN, mech : {"none", "plain", "scram"}, step : 0..1,
   account : BOOLEAN, welcomed : BOOLEAN, gone : BOOLEAN, late : BOOLEAN]

Wired == /\ toServer \in Seq(ClientLines) /\ toClient \in Seq(ServerLines)
         /\ srv \in SrvType

ClientTurn ==
  /\ TypeOK /\ Wired /\ sent' \in Seq(ClientLines)
  /\ toClient # <<>> /\ pc = "loop" /\ ReadLine(Head(toClient))
  /\ toClient' = Tail(toClient) /\ toServer' = toServer \o sent' /\ srv' = srv

LEMMA UpGrows ==
  ASSUME ClientTurn, NEW c
  PROVE  /\ Has(toServer', c) <=> Has(toServer, c) \/ Has(sent', c)
         /\ Once(toServer, c) /\ ~Has(sent', c) => Once(toServer', c)
         /\ ~Has(toServer, c) /\ Once(sent', c) => Once(toServer', c)
<1>1. ~Has(sent', c) => Once(sent', c)
  BY DEF Has, Once
<1>2. ~Has(toServer, c) => Once(toServer, c)
  BY DEF Has, Once
<1> QED BY <1>1, <1>2, ConcatHas DEF ClientTurn, Wired

LEMMA DownShrinks ==
  ASSUME ClientTurn, NEW c
  PROVE  /\ Has(toClient, c) <=> Head(toClient).cmd = c \/ Has(toClient', c)
         /\ Once(toClient, c) =>
              Once(toClient', c) /\ (Head(toClient).cmd = c => ~Has(toClient', c))
BY TailHas DEF ClientTurn, Wired

LEMMA UpLines ==
  ASSUME ClientTurn
  PROVE  /\ \A m \in Lines(toServer') :
              m \in Lines(toServer) \/ (m \in Lines(sent') /\ Has(sent', m.cmd))
         /\ \A m \in Lines(toClient') : m \in Lines(toClient)
         /\ Head(toClient) \in Lines(toClient)
<1>1. Lines(toServer') \subseteq Lines(toServer) \cup Lines(sent')
  BY ConcatLines DEF ClientTurn, Wired
<1>2. Lines(toClient') \subseteq Lines(toClient) /\ Head(toClient) \in Lines(toClient)
  BY TailLines DEF ClientTurn, Wired
<1> QED BY <1>1, <1>2, HasMember

SaslDown == {"AUTH +", "AUTH good", "AUTH bad", "SASL OK", "SASL FAILED"}

\* A line that is not about SASL leaves the exchange where it is.
LEMMA SaslUntouched ==
  ASSUME ClientTurn, SaslInv(toServer, toClient, srv), Head(toClient).cmd \notin SaslDown,
         UNCHANGED <<cfg, sasl>>, capEndSent => capEndSent',
         ~Has(sent', "AUTHENTICATE"), ~Has(sent', "PAYLOAD")
  PROVE  SaslInv(toServer, toClient, srv)'
<1> DEFINE h == Head(toClient)
<1>1. /\ h.cmd # "AUTH +" /\ h.cmd # "AUTH good" /\ h.cmd # "AUTH bad"
      /\ h.cmd # "SASL OK" /\ h.cmd # "SASL FAILED"
  BY DEF SaslDown
<1> HIDE DEF h
<1>2. pc = "loop" /\ srv' = srv
  BY DEF ClientTurn
<1>3. /\ Has(toServer', "AUTHENTICATE") <=> Has(toServer, "AUTHENTICATE")
      /\ Once(toServer, "AUTHENTICATE") => Once(toServer', "AUTHENTICATE")
      /\ Has(toServer', "PAYLOAD") <=> Has(toServer, "PAYLOAD")
      /\ Once(toServer, "PAYLOAD") => Once(toServer', "PAYLOAD")
  BY UpGrows
<1>4. /\ \A c \in SaslDown : Has(toClient', c) <=> Has(toClient, c)
      /\ \A c \in SaslDown : Once(toClient, c) => Once(toClient', c)
  BY <1>1, DownShrinks DEF h, SaslDown
<1>5. /\ Has(toClient', "AUTH +") <=> Has(toClient, "AUTH +")
      /\ Has(toClient', "AUTH good") <=> Has(toClient, "AUTH good")
      /\ Has(toClient', "AUTH bad") <=> Has(toClient, "AUTH bad")
      /\ Has(toClient', "SASL OK") <=> Has(toClient, "SASL OK")
      /\ Has(toClient', "SASL FAILED") <=> Has(toClient, "SASL FAILED")
      /\ Once(toClient, "AUTH +") => Once(toClient', "AUTH +")
      /\ Once(toClient, "AUTH good") => Once(toClient', "AUTH good")
      /\ Once(toClient, "SASL FAILED") => Once(toClient', "SASL FAILED")
  BY <1>4 DEF SaslDown
<1>6. \A m \in Lines(toServer') : m.cmd = "AUTHENTICATE" => m \in Lines(toServer)
  BY UpLines
<1>7. ~Has(toClient', "AUTH bad") /\ (sasl'.active => cfg'.sasl)
  BY <1>5 DEF SaslInv
<1>8. CASE SaslIdle(toServer, toClient, srv)
  <2>1. SaslIdle(toServer, toClient, srv)'
    BY <1>2, <1>3, <1>5, <1>8 DEF SaslIdle, NoSaslUp, NoSaslDown
  <2> QED BY <1>7, <2>1 DEF SaslInv
<1>9. CASE SaslAsked(toServer, toClient, srv)
  <2>1. SaslAsked(toServer, toClient, srv)'
    BY <1>2, <1>3, <1>5, <1>6, <1>9 DEF SaslAsked, One, NoSaslDown, Pending
  <2> QED BY <1>7, <2>1 DEF SaslInv
<1>10. CASE SaslInvited(toServer, toClient, srv)
  <2>1. SaslInvited(toServer, toClient, srv)'
    BY <1>2, <1>3, <1>5, <1>10 DEF SaslInvited, One, NoSaslUp, Pending
  <2> QED BY <1>7, <2>1 DEF SaslInv
<1>11. CASE SaslOffered(toServer, toClient, srv)
  <2>1. SaslOffered(toServer, toClient, srv)'
    BY <1>2, <1>3, <1>5, <1>11 DEF SaslOffered, One, NoSaslDown, Pending
  <2> QED BY <1>7, <2>1 DEF SaslInv
<1>12. CASE SaslChallenged(toServer, toClient, srv)
  <2>1. SaslChallenged(toServer, toClient, srv)'
    BY <1>2, <1>3, <1>5, <1>12 DEF SaslChallenged, One, NoSaslUp, Pending
  <2> QED BY <1>7, <2>1 DEF SaslInv
<1>13. CASE SaslGranted(toServer, toClient, srv)
  <2>1. SaslGranted(toServer, toClient, srv)'
    BY <1>2, <1>3, <1>5, <1>13 DEF SaslGranted, NoSaslUp
  <2> QED BY <1>7, <2>1 DEF SaslInv
<1>14. CASE SaslRefused(toServer, toClient, srv)
  <2>1. SaslRefused(toServer, toClient, srv)'
    BY <1>2, <1>3, <1>5, <1>14 DEF SaslRefused, One, NoSaslUp, Pending
  <2> QED BY <1>7, <2>1 DEF SaslInv
<1> QED BY <1>2, <1>8, <1>9, <1>10, <1>11, <1>12, <1>13, <1>14 DEF SaslInv, SaslOver

LEMMA OneNotZero == \A n : n = 1 => n # 0
OBVIOUS

LEMMA NothingSent == ASSUME sent' = <<>>, NEW c PROVE ~Has(sent', c)
BY HasNothing

\* AUTHENTICATE + is answered with the first payload.
LEMMA SaslInviteRead ==
  ASSUME ClientTurn, SaslInv(toServer, toClient, srv), Head(toClient).cmd = "AUTH +"
  PROVE  SaslInv(toServer, toClient, srv)'
<1>1. Has(toClient, "AUTH +") /\ pc = "loop" /\ srv' = srv
  BY DownShrinks DEF ClientTurn
<1>2. SaslInvited(toServer, toClient, srv)
  BY <1>1 DEF SaslInv, SaslIdle, SaslAsked, SaslInvited, SaslOffered, SaslChallenged,
              SaslGranted, SaslRefused, SaslOver, NoSaslDown
<1>3. /\ Pays /\ UNCHANGED <<cfg, capEndSent>>
      /\ sasl.mech = "scram" => sasl'.step = "await first"
      /\ sasl'.mech = sasl.mech /\ (sasl'.active <=> sasl.active) /\ (sasl'.done <=> sasl.done)
  <2>1. TypeOK /\ ReadLine(Head(toClient)) /\ sasl.mech # "none"
    BY <1>2 DEF ClientTurn, SaslInvited, Pending
  <2>2. Pays /\ (sasl.mech = "scram" => sasl'.step = "await first")
    BY <2>1, AuthInviteTurn
  <2>3. Head(toClient).cmd \in AuthLines
    BY DEF AuthLines
  <2>4. AuthKeeps
    BY <2>1, <2>3, AuthenticateTurn
  <2> QED BY <2>2, <2>4 DEF AuthKeeps
<1>4. NoSaslDown(toClient') /\ ~Has(toClient', "AUTH bad")
  BY <1>2, DownShrinks DEF SaslInvited, One, NoSaslDown, SaslInv
<1>5. CASE pc' = "closing" /\ sent' = <<>>
  <2>1. NoSaslUp(toServer')
    BY <1>2, <1>5, UpGrows, NothingSent DEF SaslInvited, NoSaslUp
  <2>2. SaslOver(toServer, toClient)'
    BY <1>2, <1>3, <1>4, <1>5, <2>1 DEF SaslOver, SaslInvited, Pending
  <2> QED BY <1>2, <1>3, <1>4, <2>2 DEF SaslInv
<1>6. CASE sent' = <<Line("PAYLOAD")>>
  <2>1. Has(sent', "PAYLOAD") /\ Once(sent', "PAYLOAD") /\ ~Has(sent', "AUTHENTICATE")
    BY <1>6, HasLine, LineCmd
  <2>2. One(toServer', "PAYLOAD") /\ ~Has(toServer', "AUTHENTICATE")
    BY <1>2, <2>1, UpGrows DEF SaslInvited, NoSaslUp, One
  <2>3. SaslOffered(toServer, toClient, srv)'
    BY <1>1, <1>2, <1>3, <1>4, <2>2 DEF SaslOffered, SaslInvited, Pending
  <2> QED BY <1>2, <1>3, <1>4, <2>3 DEF SaslInv
<1> QED BY <1>3, <1>5, <1>6 DEF Pays

\* The server's first message is answered with the second payload; its last one is
\* taken in.
LEMMA SaslGoodRead ==
  ASSUME ClientTurn, SaslInv(toServer, toClient, srv), Head(toClient).cmd = "AUTH good"
  PROVE  SaslInv(toServer, toClient, srv)'
<1>1. Has(toClient, "AUTH good") /\ pc = "loop" /\ srv' = srv
  BY DownShrinks DEF ClientTurn
<1>2. SaslChallenged(toServer, toClient, srv) \/ SaslGranted(toServer, toClient, srv)
  BY <1>1 DEF SaslInv, SaslIdle, SaslAsked, SaslInvited, SaslOffered, SaslChallenged,
              SaslGranted, SaslRefused, SaslOver, NoSaslDown
<1>3. sasl.mech = "scram" /\ ~Has(toClient', "AUTH good")
  BY <1>1, <1>2, DownShrinks DEF SaslChallenged, SaslGranted, One
<1>4. /\ UNCHANGED <<cfg, capEndSent>>
      /\ sasl'.mech = sasl.mech /\ (sasl'.active <=> sasl.active) /\ (sasl'.done <=> sasl.done)
      /\ sasl.step = "await first" => Pays /\ sasl'.step = "await final"
      /\ sasl.step = "await final" => sent' = <<>> /\ UNCHANGED <<pc, reason>>
  <2>1. TypeOK /\ ReadLine(Head(toClient))
    BY DEF ClientTurn
  <2>2. /\ sasl.step = "await first" => Pays /\ sasl'.step = "await final"
        /\ sasl.step = "await final" => sent' = <<>> /\ UNCHANGED <<pc, reason>>
    BY <1>3, <2>1, AuthGoodTurn
  <2>3. Head(toClient).cmd \in AuthLines
    BY DEF AuthLines
  <2>4. AuthKeeps
    BY <2>1, <2>3, AuthenticateTurn
  <2> QED BY <2>2, <2>4 DEF AuthKeeps
<1>5. ~Has(toClient', "AUTH bad") /\ (sasl'.active => cfg'.sasl)
  BY <1>4, DownShrinks DEF SaslInv
<1>6. CASE SaslChallenged(toServer, toClient, srv)
  <2>1. NoSaslDown(toClient')
    BY <1>3, <1>6, DownShrinks DEF SaslChallenged, NoSaslDown
  <2>2. CASE pc' = "closing" /\ sent' = <<>>
    <3>1. NoSaslUp(toServer')
      BY <1>6, <2>2, UpGrows, NothingSent DEF SaslChallenged, NoSaslUp
    <3>2. SaslOver(toServer, toClient)'
      BY <1>4, <1>6, <2>1, <2>2, <3>1 DEF SaslOver, SaslChallenged, Pending
    <3> QED BY <1>5, <3>2 DEF SaslInv
  <2>3. CASE sent' = <<Line("PAYLOAD")>>
    <3>1. Has(sent', "PAYLOAD") /\ Once(sent', "PAYLOAD") /\ ~Has(sent', "AUTHENTICATE")
      BY <2>3, HasLine, LineCmd
    <3>2. One(toServer', "PAYLOAD") /\ ~Has(toServer', "AUTHENTICATE")
      BY <1>6, <3>1, UpGrows DEF SaslChallenged, NoSaslUp, One
    <3>3. /\ srv'.mech = "scram" /\ sasl'.mech = "scram" /\ srv'.step = 1
          /\ sasl'.step = "await final" /\ Pending(srv)'
      BY <1>1, <1>4, <1>6 DEF SaslChallenged, Pending
    <3>4. SaslOffered(toServer, toClient, srv)'
      <4>1. srv'.step = 1
        BY <3>3
      <4>2. srv'.step # 0
        BY <4>1, OneNotZero
      <4> QED BY <2>1, <3>2, <3>3, <4>2 DEF SaslOffered
    <3> QED BY <1>5, <3>4 DEF SaslInv
  <2> QED BY <1>4, <1>6, <2>2, <2>3 DEF Pays, SaslChallenged
<1>7. CASE SaslGranted(toServer, toClient, srv)
  <2>1. sent' = <<>> /\ pc' = pc
    BY <1>1, <1>4, <1>7 DEF SaslGranted
  <2>2. NoSaslUp(toServer')
    BY <1>7, <2>1, UpGrows, NothingSent DEF SaslGranted, NoSaslUp
  <2>3. Has(toClient, "SASL OK") => Has(toClient', "SASL OK")
    BY DownShrinks
  <2>4. ~Has(toClient', "AUTH +") /\ ~Has(toClient', "SASL FAILED") /\ Once(toClient', "AUTH good")
    BY <1>7, DownShrinks DEF SaslGranted
  <2>5. SaslGranted(toServer, toClient, srv)'
    BY <1>1, <1>3, <1>4, <1>7, <2>1, <2>2, <2>3, <2>4 DEF SaslGranted
  <2> QED BY <1>5, <2>5 DEF SaslInv
<1> QED BY <1>2, <1>6, <1>7

\* 900 and 903 close the exchange, and CAP END goes out if it has not.
LEMMA SaslOkRead ==
  ASSUME ClientTurn, SaslInv(toServer, toClient, srv), Head(toClient).cmd = "SASL OK"
  PROVE  SaslInv(toServer, toClient, srv)' /\ SaslGranted(toServer, toClient, srv)
<1>1. Has(toClient, "SASL OK") /\ pc = "loop" /\ srv' = srv
  BY DownShrinks DEF ClientTurn
<1>2. SaslGranted(toServer, toClient, srv)
  BY <1>1 DEF SaslInv, SaslIdle, SaslAsked, SaslInvited, SaslOffered, SaslChallenged,
              SaslGranted, SaslRefused, SaslOver, NoSaslDown
<1>3. /\ UNCHANGED <<cfg, pc>> /\ MaybeSendCapEnd(FALSE)
      /\ sasl'.mech = sasl.mech /\ sasl'.done /\ ~sasl'.active /\ sasl'.step = sasl.step
  BY SaslOkTurn DEF ClientTurn
<1>4. capEndSent' /\ ~Has(sent', "AUTHENTICATE") /\ ~Has(sent', "PAYLOAD")
  BY <1>3, CapEndSaid, OnlyMute DEF Mute
<1>5. NoSaslUp(toServer')
  BY <1>2, <1>4, UpGrows DEF SaslGranted, NoSaslUp
<1>6. /\ ~Has(toClient', "AUTH +") /\ ~Has(toClient', "SASL FAILED") /\ ~Has(toClient', "AUTH bad")
      /\ Once(toClient', "AUTH good") /\ (Has(toClient', "AUTH good") => Has(toClient, "AUTH good"))
  BY <1>2, DownShrinks DEF SaslGranted, SaslInv
<1>7. SaslGranted(toServer, toClient, srv)'
  BY <1>1, <1>2, <1>3, <1>4, <1>5, <1>6 DEF SaslGranted
<1> QED BY <1>2, <1>3, <1>6, <1>7 DEF SaslInv

\* 904..907 end the session.
LEMMA SaslFailedRead ==
  ASSUME ClientTurn, SaslInv(toServer, toClient, srv), Head(toClient).cmd = "SASL FAILED"
  PROVE  SaslInv(toServer, toClient, srv)' /\ SaslRefused(toServer, toClient, srv)
<1>1. Has(toClient, "SASL FAILED") /\ pc = "loop" /\ srv' = srv
  BY DownShrinks DEF ClientTurn
<1>2. SaslRefused(toServer, toClient, srv)
  BY <1>1 DEF SaslInv, SaslIdle, SaslAsked, SaslInvited, SaslOffered, SaslChallenged,
              SaslGranted, SaslRefused, SaslOver, NoSaslDown
<1>3. UNCHANGED <<cfg, sasl>> /\ pc' = "closing" /\ Only(sent', {"QUIT"})
  BY SaslFailedTurn DEF ClientTurn, GivesUp, nego
<1>4. ~Has(sent', "AUTHENTICATE") /\ ~Has(sent', "PAYLOAD")
  BY <1>3, OnlyMute DEF Mute
<1>5. NoSaslUp(toServer')
  BY <1>2, <1>4, UpGrows DEF SaslRefused, NoSaslUp
<1>6. NoSaslDown(toClient') /\ ~Has(toClient', "AUTH bad")
  BY <1>2, DownShrinks DEF SaslRefused, One, NoSaslDown, SaslInv
<1>7. SaslOver(toServer, toClient)'
  BY <1>2, <1>3, <1>5, <1>6 DEF SaslOver, SaslRefused, Pending
<1> QED BY <1>2, <1>3, <1>6, <1>7 DEF SaslInv

\* An acknowledgement may open the exchange.
LEMMA SaslAckRead ==
  ASSUME ClientTurn, SaslInv(toServer, toClient, srv), Head(toClient).cmd = "CAP ACK"
  PROVE  SaslInv(toServer, toClient, srv)'
<1> DEFINE h == Head(toClient)
<1>1. pc = "loop" /\ srv' = srv /\ UNCHANGED cfg
  BY CapAckTurn DEF ClientTurn
<1>2. CASE MaybeSendCapEnd(sasl.active) /\ UNCHANGED sasl
  <2>1. /\ capEndSent => capEndSent'
        /\ ~Has(sent', "AUTHENTICATE") /\ ~Has(sent', "PAYLOAD")
    BY <1>2, CapEndSaid, OnlyMute DEF Mute
  <2> QED BY <1>1, <1>2, <2>1, SaslUntouched DEF SaslDown
<1>3. CASE /\ cfg.sasl /\ ~sasl.active /\ ~sasl.done
           /\ sasl'.mech # "none" /\ sasl'.step = "initial" /\ sasl'.active /\ ~sasl'.done
           /\ \/ UNCHANGED <<pc, reason>> /\ sent' = <<SaslLine(sasl'.mech)>>
              \/ pc' = "closing" /\ reason' = "write error" /\ sent' = <<>>
  <2>1. SaslIdle(toServer, toClient, srv)
    BY <1>1, <1>3 DEF SaslInv, SaslAsked, SaslInvited, SaslOffered, SaslChallenged,
                      SaslGranted, SaslRefused, SaslOver, Pending
  <2>2. NoSaslDown(toClient') /\ ~Has(toClient', "AUTH bad")
    BY <2>1, DownShrinks DEF SaslIdle, NoSaslDown, SaslInv
  <2>3. CASE pc' = "closing" /\ sent' = <<>>
    <3>1. NoSaslUp(toServer')
      BY <2>1, <2>3, UpGrows, NothingSent DEF SaslIdle, NoSaslUp
    <3>2. SaslOver(toServer, toClient)'
      BY <1>3, <2>2, <2>3, <3>1 DEF SaslOver
    <3> QED BY <1>1, <1>3, <2>2, <3>2 DEF SaslInv
  <2>4. CASE sent' = <<SaslLine(sasl'.mech)>>
    <3>1. SaslLine(sasl'.mech).cmd = "AUTHENTICATE" /\ SaslLine(sasl'.mech).mech = sasl'.mech
      BY DEF SaslLine
    <3>2. Has(sent', "AUTHENTICATE") /\ Once(sent', "AUTHENTICATE") /\ ~Has(sent', "PAYLOAD")
      BY <2>4, <3>1, HasLine
    <3>3. One(toServer', "AUTHENTICATE") /\ ~Has(toServer', "PAYLOAD")
      BY <2>1, <3>2, UpGrows DEF SaslIdle, NoSaslUp, One
    <3>4. \A m \in Lines(toServer') : m.cmd = "AUTHENTICATE" => m.mech = sasl'.mech
      <4> SUFFICES ASSUME NEW m \in Lines(toServer'), m.cmd = "AUTHENTICATE"
                   PROVE  m.mech = sasl'.mech
        OBVIOUS
      <4>1. m \notin Lines(toServer)
        BY <2>1, HasMember DEF SaslIdle, NoSaslUp
      <4>2. m \in Lines(sent')
        BY <4>1, UpLines
      <4> QED BY <2>4, <3>1, <4>2, LineOf
    <3>5. SaslAsked(toServer, toClient, srv)'
      BY <1>1, <1>3, <2>1, <2>2, <3>3, <3>4 DEF SaslAsked, SaslIdle, Pending
    <3> QED BY <1>1, <1>3, <2>2, <3>5 DEF SaslInv
  <2> QED BY <1>3, <2>3, <2>4
<1> QED BY <1>2, <1>3, CapAckTurn DEF ClientTurn

-----------------------------------------------------------------------------
(* What every turn has in common *)

\* Nothing goes out that opens the registration; QUIT ends the loop, CAP END is
\* remembered, and a NICK answers a 433.
Says(m) ==
  /\ UNCHANGED cfg /\ pc' \in {"loop", "closing"}
  /\ ~Has(sent', "USER") /\ ~Has(sent', "CAP LS 302")
  /\ Has(sent', "QUIT") => pc' = "closing"
  /\ Has(sent', "NICK") => m.cmd = "433" /\ Once(sent', "NICK")
  /\ capEndSent => capEndSent'
  /\ Has(sent', "CAP END") => capEndSent'
  /\ capEndSent' /\ ~capEndSent /\ ~WritesMayFail => Has(sent', "CAP END")
  /\ m.cmd = "433" /\ ~registered /\ pc' = "loop" /\ ~WritesMayFail => Has(sent', "NICK")
  /\ m.cmd = "REJECTED" /\ ~registered => pc' # "loop"

\* 001 registers; the nickname changes with 001, NICK and, before 001, with 433.
Names(m) ==
  /\ registered' <=> registered \/ m.cmd = "001"
  /\ nick' = Called(m, nick) \/ (m.cmd = "433" /\ ~registered)

\* None of the lines that Says is about.
Quiet(q) == ~Has(q, "USER") /\ ~Has(q, "CAP LS 302") /\ ~Has(q, "QUIT") /\ ~Has(q, "NICK")
              /\ ~Has(q, "CAP END")

QuietCmds == {"CAP REQ", "AUTHENTICATE", "PAYLOAD"}

LEMMA QuietLine ==
  ASSUME NEW m, m.cmd \in QuietCmds
  PROVE  Quiet(<<m>>)
BY HasLine DEF Quiet, QuietCmds

LEMMA QuietLines ==
  /\ Quiet(<<>>) /\ Quiet(<<Line("PAYLOAD")>>)
  /\ \A req : Quiet(<<CapReq(req)>>)
  /\ \A mech : Quiet(<<SaslLine(mech)>>)
<1>1. Line("PAYLOAD").cmd \in QuietCmds
  BY DEF Line, QuietCmds
<1>2. \A req : CapReq(req).cmd \in QuietCmds
  BY DEF CapReq, QuietCmds
<1>3. \A mech : SaslLine(mech).cmd \in QuietCmds
  BY DEF SaslLine, QuietCmds
<1>4. ASSUME NEW req PROVE Quiet(<<CapReq(req)>>)
  BY <1>2, QuietLine
<1>5. ASSUME NEW mech PROVE Quiet(<<SaslLine(mech)>>)
  BY <1>3, QuietLine
<1>6. Quiet(<<Line("PAYLOAD")>>)
  BY <1>1, QuietLine
<1> QED BY <1>4, <1>5, <1>6, HasNothing DEF Quiet

LEMMA QuietSays ==
  ASSUME NEW m, Quiet(sent'), UNCHANGED <<cfg, capEndSent>>, pc' \in {"loop", "closing"},
         m.cmd # "433", m.cmd # "REJECTED"
  PROVE  Says(m)
BY DEF Says, Quiet

LEMMA GivingUpSays ==
  ASSUME NEW m, NEW why, GivesUp(why), UNCHANGED <<cfg, capEndSent>>
  PROVE  Says(m)
<1>1. Mute(sent') /\ ~Has(sent', "CAP END")
  BY OnlyMute DEF GivesUp
<1> QED BY <1>1 DEF Says, GivesUp, Mute

LEMMA CapEndSays ==
  ASSUME NEW m, NEW active, MaybeSendCapEnd(active), UNCHANGED <<cfg, pc>>, pc = "loop",
         m.cmd # "433", m.cmd # "REJECTED"
  PROVE  Says(m)
<1>1. Mute(sent') /\ ~Has(sent', "QUIT")
  BY CapEndSaid, OnlyMute
<1>2. /\ capEndSent => capEndSent'
      /\ Has(sent', "CAP END") => capEndSent'
      /\ capEndSent' /\ ~capEndSent /\ ~WritesMayFail => Has(sent', "CAP END")
  BY CapEndSaid
<1> QED BY <1>1, <1>2 DEF Says, Mute

LEMMA NamesKept ==
  ASSUME NEW m, UNCHANGED ident, m.cmd # "001", m.cmd # "NICK"
  PROVE  Names(m)
BY DEF Names, Called, ident

\* What handle_authenticate does to the session.
LEMMA AuthenticateSays ==
  ASSUME NEW m, m.cmd \in AuthLines, ReadLine(m)
  PROVE  Pays \/ (sent' = <<>> /\ UNCHANGED pc) \/ GivesUp("sasl failed")
<1>1. ASSUME SaslWait PROVE sent' = <<>> /\ UNCHANGED pc
  BY <1>1 DEF SaslWait, Send, Stay, life
<1>2. CASE AuthenticateEmpty
  BY <1>1, <1>2, PayloadPays DEF AuthenticateEmpty
<1>3. ASSUME NEW good, Authenticate(good)
      PROVE  Pays \/ (sent' = <<>> /\ UNCHANGED pc) \/ GivesUp("sasl failed")
  <2>1. SaslWait \/ SaslPayload \/ Abort("sasl failed")
    BY <1>3 DEF Authenticate
  <2> QED BY <1>1, <2>1, PayloadPays, AbortGivesUp
<1>4. AuthenticateEmpty \/ Authenticate(TRUE) \/ Authenticate(FALSE)
  BY DEF ReadLine, HandleLine, AuthLines
<1> QED BY <1>2, <1>3, <1>4

Kinds == PlainTurns \cup AuthLines \cup
  {"ERROR", "REJECTED", "001", "433", "NICK", "CAP LS", "CAP ACK", "CAP NAK", "SASL OK",
   "SASL FAILED"}

LEMMA LineKinds == ASSUME NEW m, ReadLine(m) PROVE m.cmd \in Kinds /\ pc = "loop"
BY DEF ReadLine, HandleLine, Kinds, PlainTurns, AuthLines

LEMMA TurnSays ==
  ASSUME TypeOK, NEW m, ReadLine(m)
  PROVE  Says(m) /\ Names(m)
<1>0. m.cmd \in Kinds /\ pc = "loop"
  BY LineKinds
<1>1. CASE m.cmd \in PlainTurns
  <2>1. m.cmd # "433" /\ m.cmd # "REJECTED" /\ m.cmd # "001" /\ m.cmd # "NICK"
    BY <1>1 DEF PlainTurns
  <2>2. /\ UNCHANGED <<cfg, ident, sasl, capEndSent>>
        /\ Only(sent', {"PONG", "REPLY", "JOIN"})
        /\ pc' \in {"loop", "closing"}
    BY <1>0, <1>1, PlainTurn
  <2>3. Quiet(sent')
    BY <2>2, OnlyMute DEF Quiet, Mute
  <2> QED BY <2>1, <2>2, <2>3, QuietSays, NamesKept
<1>2. CASE m.cmd \in AuthLines
  <2>1. m.cmd # "433" /\ m.cmd # "REJECTED" /\ m.cmd # "001" /\ m.cmd # "NICK"
    BY <1>2 DEF AuthLines
  <2>2. UNCHANGED <<cfg, ident, capEndSent>>
    BY <1>2, AuthenticateTurn DEF AuthKeeps
  <2>4. CASE Pays
    <3>1. Quiet(sent')
      BY <2>4, QuietLines DEF Pays
    <3>2. pc' \in {"loop", "closing"}
      BY <1>0, <2>4 DEF Pays
    <3> QED BY <2>1, <2>2, <3>1, <3>2, QuietSays, NamesKept
  <2>5. CASE sent' = <<>> /\ UNCHANGED pc
    <3>1. Quiet(sent') /\ pc' \in {"loop", "closing"}
      BY <1>0, <2>5, QuietLines
    <3> QED BY <2>1, <2>2, <3>1, QuietSays, NamesKept
  <2>6. CASE GivesUp("sasl failed")
    BY <2>1, <2>2, <2>6, GivingUpSays, NamesKept
  <2> QED BY <1>2, <2>4, <2>5, <2>6, AuthenticateSays
<1>3. CASE m.cmd = "ERROR"
  <2>1. UNCHANGED <<cfg, ident, nego>> /\ sent' = <<>> /\ pc' = "closing"
    BY <1>3, ErrorTurn
  <2>2. Quiet(sent') /\ UNCHANGED capEndSent
    BY <2>1, QuietLines DEF nego
  <2> QED BY <1>3, <2>1, <2>2, QuietSays, NamesKept
<1>4. CASE m.cmd = "REJECTED"
  <2>1. /\ UNCHANGED <<cfg, ident, nego>>
        /\ \/ registered /\ sent' = <<>> /\ UNCHANGED pc
           \/ ~registered /\ GivesUp("rejected")
    BY <1>4, RejectedTurn
  <2>2. UNCHANGED capEndSent /\ Names(m)
    BY <1>4, <2>1, NamesKept DEF nego
  <2>3. CASE registered /\ sent' = <<>> /\ UNCHANGED pc
    <3>1. Quiet(sent')
      BY <2>3, QuietLines
    <3> QED BY <1>0, <1>4, <2>1, <2>2, <2>3, <3>1 DEF Says, Quiet
  <2>4. CASE ~registered /\ GivesUp("rejected")
    BY <2>1, <2>2, <2>4, GivingUpSays
  <2> QED BY <2>1, <2>3, <2>4
<1>5. CASE m.cmd = "001"
  <2>1. /\ UNCHANGED <<cfg, nego, pc>>
        /\ registered' = TRUE /\ nick' = m.nick /\ sent' = <<>>
    BY <1>5, WelcomeTurn
  <2>2. Quiet(sent') /\ UNCHANGED capEndSent
    BY <2>1, QuietLines DEF nego
  <2>3. Says(m)
    BY <1>0, <1>5, <2>1, <2>2, QuietSays
  <2> QED BY <1>5, <2>1, <2>3 DEF Names, Called
<1>6. CASE m.cmd = "433"
  <2>1. /\ UNCHANGED <<cfg, nego, registered>>
        /\ \/ registered /\ nick' = nick /\ sent' = <<>> /\ UNCHANGED <<pc, reason>>
           \/ ~registered /\ GivesUp("nick in use")
           \/ /\ ~registered /\ UNCHANGED <<pc, reason>>
              /\ \/ sent' = <<NickLine(nick')>>
                 \/ WritesMayFail /\ sent' = <<>>
    BY <1>6, NickTakenTurn
  <2>2. UNCHANGED capEndSent
    BY <2>1 DEF nego
  <2>3. Names(m)
    BY <1>6, <2>1 DEF Names, Called
  <2>4. NickLine(nick').cmd = "NICK"
    BY DEF NickLine
  <2>5. CASE ~registered /\ GivesUp("nick in use")
    BY <2>1, <2>2, <2>3, <2>5, GivingUpSays
  <2>6. CASE sent' = <<>> /\ UNCHANGED pc /\ (registered \/ WritesMayFail)
    <3>1. Quiet(sent')
      BY <2>6, QuietLines
    <3> QED BY <1>0, <1>6, <2>1, <2>2, <2>3, <2>6, <3>1 DEF Says, Quiet
  <2>7. CASE sent' = <<NickLine(nick')>> /\ UNCHANGED pc /\ ~registered
    <3>1. /\ Has(sent', "NICK") /\ Once(sent', "NICK") /\ ~Has(sent', "USER") /\ ~Has(sent', "QUIT")
          /\ ~Has(sent', "CAP LS 302") /\ ~Has(sent', "CAP END")
      BY <2>4, <2>7, HasLine
    <3> QED BY <1>0, <1>6, <2>1, <2>2, <2>3, <2>7, <3>1 DEF Says
  <2> QED BY <2>1, <2>5, <2>6, <2>7
<1>7. CASE m.cmd = "NICK"
  <2>1. /\ UNCHANGED <<cfg, nego, pc, registered>>
        /\ nick' = (IF m.old = nick THEN m.new ELSE nick) /\ sent' = <<>>
    BY <1>7, NickTurn
  <2>2. Quiet(sent') /\ UNCHANGED capEndSent
    BY <2>1, QuietLines DEF nego
  <2>3. Says(m)
    BY <1>0, <1>7, <2>1, <2>2, QuietSays
  <2> QED BY <1>7, <2>1, <2>3 DEF Names, Called
<1>8. CASE m.cmd = "CAP LS"
  <2>0. UNCHANGED <<cfg, ident>> /\ Names(m)
    BY <1>8, CapLsTurn, NamesKept
  <2>1. CASE GivesUp("no sasl") /\ UNCHANGED capEndSent
    BY <2>0, <2>1, GivingUpSays
  <2>2. CASE MaybeSendCapEnd(sasl.active) /\ UNCHANGED <<pc, reason>>
    BY <1>0, <1>8, <2>0, <2>2, CapEndSays
  <2>3. CASE UNCHANGED capEndSent /\ pc' = "closing" /\ sent' = <<>>
    BY <1>8, <2>0, <2>3, QuietSays, QuietLines
  <2>4. ASSUME UNCHANGED <<capEndSent, pc, reason>>, NEW req, sent' = <<CapReq(req)>>
        PROVE  Says(m)
    <3>2. Quiet(sent')
      BY <2>4, QuietLines
    <3> QED BY <1>0, <1>8, <2>0, <2>4, <3>2, QuietSays
  <2> QED BY <1>8, <2>0, <2>1, <2>2, <2>3, <2>4, CapLsTurn
<1>9. CASE m.cmd = "CAP ACK"
  <2>0. UNCHANGED <<cfg, ident>> /\ Names(m)
    BY <1>9, CapAckTurn, NamesKept
  <2>1. CASE UNCHANGED <<capEndSent, pc, reason>> /\ sent' = <<SaslLine(sasl'.mech)>>
    <3>2. Quiet(sent')
      BY <2>1, QuietLines
    <3> QED BY <1>0, <1>9, <2>0, <2>1, <3>2, QuietSays
  <2>2. CASE UNCHANGED capEndSent /\ pc' = "closing" /\ sent' = <<>>
    BY <1>9, <2>0, <2>2, QuietSays, QuietLines
  <2>3. CASE MaybeSendCapEnd(sasl.active) /\ UNCHANGED <<pc, reason, sasl>>
    BY <1>0, <1>9, <2>0, <2>3, CapEndSays
  <2> QED BY <1>9, <2>0, <2>1, <2>2, <2>3, CapAckTurn
<1>10. CASE m.cmd = "CAP NAK"
  <2>0. UNCHANGED <<cfg, ident>> /\ Names(m)
    BY <1>10, CapNakTurn, NamesKept
  <2>1. CASE GivesUp("no sasl") /\ UNCHANGED capEndSent
    BY <2>0, <2>1, GivingUpSays
  <2>2. CASE MaybeSendCapEnd(sasl.active) /\ UNCHANGED <<pc, reason>>
    BY <1>0, <1>10, <2>0, <2>2, CapEndSays
  <2> QED BY <1>10, <2>0, <2>1, <2>2, CapNakTurn
<1>11. CASE m.cmd = "SASL OK"
  <2>1. UNCHANGED <<cfg, ident, pc>> /\ MaybeSendCapEnd(FALSE) /\ Names(m)
    BY <1>11, SaslOkTurn, NamesKept
  <2> QED BY <1>0, <1>11, <2>1, CapEndSays
<1>12. CASE m.cmd = "SASL FAILED"
  <2>1. UNCHANGED <<cfg, ident, nego>> /\ GivesUp("sasl failed") /\ Names(m)
    BY <1>12, SaslFailedTurn, NamesKept
  <2> QED BY <2>1, GivingUpSays DEF nego
<1> QED BY <1>0, <1>1, <1>2, <1>3, <1>4, <1>5, <1>6, <1>7, <1>8, <1>9, <1>10, <1>11, <1>12 DEF Kinds

-----------------------------------------------------------------------------
(* The parts of the invariant over a turn of the client *)

\* The lines that neither SASL nor the capabilities are settled by.
SideTurns == PlainTurns \cup {"ERROR", "REJECTED", "001", "433", "NICK"}

LEMMA SideTurn ==
  ASSUME TypeOK, NEW m, m.cmd \in SideTurns, ReadLine(m)
  PROVE  /\ UNCHANGED <<cfg, sasl, capEndSent>> /\ caps'.acked = caps.acked
         /\ ~Has(sent', "AUTHENTICATE") /\ ~Has(sent', "PAYLOAD") /\ ~Has(sent', "CAP REQ")
         /\ reason' \notin {"no sasl", "sasl failed"} \/ UNCHANGED reason
<1>1. CASE m.cmd \in PlainTurns
  <2>1. /\ UNCHANGED <<cfg, ident, sasl, capEndSent>> /\ caps'.acked = caps.acked
        /\ Only(sent', {"PONG", "REPLY", "JOIN"})
        /\ UNCHANGED reason \/ reason' = "write error"
    BY <1>1, PlainTurn
  <2> QED BY <2>1, OnlyMute DEF Mute
<1>2. ASSUME sent' = <<>>
      PROVE  ~Has(sent', "AUTHENTICATE") /\ ~Has(sent', "PAYLOAD") /\ ~Has(sent', "CAP REQ")
  BY <1>2, HasNothing
<1>3. ASSUME NEW why, GivesUp(why)
      PROVE  /\ ~Has(sent', "AUTHENTICATE") /\ ~Has(sent', "PAYLOAD") /\ ~Has(sent', "CAP REQ")
             /\ reason' = why
  BY <1>3, OnlyMute DEF Mute, GivesUp
<1>4. CASE m.cmd = "ERROR"
  BY <1>2, <1>4, ErrorTurn DEF nego
<1>5. CASE m.cmd = "REJECTED"
  <2>1. /\ UNCHANGED <<cfg, sasl, caps, capEndSent>>
        /\ (sent' = <<>> /\ UNCHANGED reason) \/ GivesUp("rejected")
    BY <1>5, RejectedTurn DEF nego
  <2>2. CASE GivesUp("rejected")
    <3>1. reason' = "rejected"
      BY <2>2 DEF GivesUp
    <3> QED BY <1>3, <2>1, <2>2, <3>1
  <2> QED BY <1>2, <2>1, <2>2
<1>6. CASE m.cmd = "001"
  BY <1>2, <1>6, WelcomeTurn DEF nego
<1>7. CASE m.cmd = "NICK"
  BY <1>2, <1>7, NickTurn DEF nego
<1>8. CASE m.cmd = "433"
  <2>1. /\ UNCHANGED <<cfg, sasl, caps, capEndSent>>
        /\ \/ sent' = <<>> /\ UNCHANGED reason
           \/ GivesUp("nick in use")
           \/ sent' = <<NickLine(nick')>> /\ UNCHANGED reason
    BY <1>8, NickTakenTurn DEF nego
  <2>2. NickLine(nick').cmd = "NICK"
    BY DEF NickLine
  <2>3. CASE sent' = <<NickLine(nick')>> /\ UNCHANGED reason
    <3>1. ~Has(sent', "AUTHENTICATE") /\ ~Has(sent', "PAYLOAD") /\ ~Has(sent', "CAP REQ")
      BY <2>2, <2>3, HasLine
    <3> QED BY <2>1, <2>3, <3>1
  <2>4. CASE GivesUp("nick in use")
    <3>1. reason' = "nick in use"
      BY <2>4 DEF GivesUp
    <3> QED BY <1>3, <2>1, <2>4, <3>1
  <2> QED BY <1>2, <2>1, <2>3, <2>4
<1> QED BY <1>1, <1>4, <1>5, <1>6, <1>7, <1>8 DEF SideTurns

LEMMA TurnOfKind ==
  ASSUME ClientTurn
  PROVE  /\ Head(toClient).cmd \in SideTurns \cup AuthLines \cup
              {"CAP LS", "CAP ACK", "CAP NAK", "SASL OK", "SASL FAILED"}
         /\ TypeOK /\ ReadLine(Head(toClient)) /\ pc = "loop"
         /\ Says(Head(toClient)) /\ Names(Head(toClient))
BY LineKinds, TurnSays DEF ClientTurn, Kinds, SideTurns

LEMMA SaslRead ==
  ASSUME ClientTurn, SaslInv(toServer, toClient, srv)
  PROVE  SaslInv(toServer, toClient, srv)'
<1> DEFINE m == Head(toClient)
<1>1. /\ m.cmd \in SideTurns \cup AuthLines \cup
           {"CAP LS", "CAP ACK", "CAP NAK", "SASL OK", "SASL FAILED"}
      /\ TypeOK /\ ReadLine(m)
  BY TurnOfKind
<1>2. CASE m.cmd \in SideTurns
  <2>1. m.cmd \notin SaslDown
    BY <1>2 DEF SideTurns, PlainTurns, SaslDown
  <2>2. UNCHANGED <<cfg, sasl, capEndSent>> /\ ~Has(sent', "AUTHENTICATE") /\ ~Has(sent', "PAYLOAD")
    BY <1>1, <1>2, SideTurn
  <2>3. capEndSent => capEndSent'
    BY <2>2
  <2> QED BY <2>1, <2>2, <2>3, SaslUntouched
<1>3. CASE m.cmd = "CAP LS"
  <2>1. m.cmd \notin SaslDown
    BY <1>3 DEF SaslDown
  <2>2. UNCHANGED <<cfg, sasl>>
    BY <1>1, <1>3, CapLsTurn
  <2>3. (capEndSent => capEndSent') /\ ~Has(sent', "AUTHENTICATE") /\ ~Has(sent', "PAYLOAD")
    <3>1. CASE GivesUp("no sasl") /\ UNCHANGED capEndSent
      BY <3>1, OnlyMute DEF GivesUp, Mute
    <3>2. CASE MaybeSendCapEnd(sasl.active)
      BY <3>2, CapEndSaid, OnlyMute DEF Mute
    <3>3. CASE UNCHANGED capEndSent /\ sent' = <<>>
      BY <3>3, HasNothing
    <3>4. ASSUME UNCHANGED capEndSent, NEW req, sent' = <<CapReq(req)>>
          PROVE  (capEndSent => capEndSent') /\ ~Has(sent', "AUTHENTICATE") /\ ~Has(sent', "PAYLOAD")
      <4>1. CapReq(req).cmd = "CAP REQ"
        BY DEF CapReq
      <4> QED BY <3>4, <4>1, HasLine
    <3> QED BY <1>1, <1>3, <3>1, <3>2, <3>3, <3>4, CapLsTurn
  <2> QED BY <2>1, <2>2, <2>3, SaslUntouched
<1>4. CASE m.cmd = "CAP NAK"
  <2>1. m.cmd \notin SaslDown
    BY <1>4 DEF SaslDown
  <2>2. UNCHANGED <<cfg, sasl>>
    BY <1>1, <1>4, CapNakTurn
  <2>3. (capEndSent => capEndSent') /\ ~Has(sent', "AUTHENTICATE") /\ ~Has(sent', "PAYLOAD")
    <3>1. CASE GivesUp("no sasl") /\ UNCHANGED capEndSent
      BY <3>1, OnlyMute DEF GivesUp, Mute
    <3>2. CASE MaybeSendCapEnd(sasl.active)
      BY <3>2, CapEndSaid, OnlyMute DEF Mute
    <3> QED BY <1>1, <1>4, <3>1, <3>2, CapNakTurn
  <2> QED BY <2>1, <2>2, <2>3, SaslUntouched
<1>5. m.cmd # "AUTH bad"
  BY DownShrinks DEF SaslInv
<1> QED BY <1>1, <1>2, <1>3, <1>4, <1>5, SaslInviteRead, SaslGoodRead, SaslOkRead,
           SaslFailedRead, SaslAckRead DEF AuthLines

\* Once the server has answered the request, only a CAP ACK matters.
LEMMA AnsweredStays ==
  ASSUME ClientTurn, CapAnswered(toServer, toClient, srv), Head(toClient).cmd # "CAP ACK",
         UNCHANGED cfg, caps'.acked = caps.acked, pc' \in {"loop", "closing"},
         ~Has(sent', "CAP LS 302"), ~Has(sent', "CAP REQ"), capEndSent => capEndSent',
         sasl.active \/ sasl.done => sasl'.active \/ sasl'.done \/ pc' # "loop"
  PROVE  CapAnswered(toServer, toClient, srv)'
<1>1. srv' = srv /\ toClient' = Tail(toClient) /\ toClient \in Seq(ServerLines) /\ toClient # <<>>
      /\ pc = "loop"
  BY DEF ClientTurn, Wired
<1>2. NoCapUp(toServer')
  BY UpGrows DEF CapAnswered, NoCapUp
<1>3. /\ ~Has(toClient', "CAP LS") /\ ~Has(toClient', "CAP NAK")
      /\ Has(toClient, "CAP ACK") => Has(toClient', "CAP ACK")
  BY DownShrinks DEF CapAnswered
<1>4. Heads(toClient, "CAP ACK", "sasl") => Heads(toClient', "CAP ACK", "sasl")
  BY <1>1, HeadsTail
<1>5. SaslAcked(toClient, srv)'
  BY <1>1, <1>4 DEF CapAnswered, SaslAcked
<1>6. ~Early'
  BY DEF Early
<1> QED BY <1>1, <1>2, <1>3, <1>5, <1>6 DEF CapAnswered

\* A line of another conversation.
LEMMA CapUntouched ==
  ASSUME ClientTurn, CapInv(toServer, toClient, srv),
         Head(toClient).cmd \notin {"CAP LS", "CAP ACK", "CAP NAK"},
         UNCHANGED <<cfg, sasl, capEndSent>>, caps'.acked = caps.acked,
         pc' \in {"loop", "closing"}, ~Has(sent', "CAP LS 302"), ~Has(sent', "CAP REQ")
  PROVE  CapInv(toServer, toClient, srv)'
<1>1. srv' = srv /\ pc = "loop"
  BY DEF ClientTurn
<1>2. /\ Has(toServer', "CAP LS 302") <=> Has(toServer, "CAP LS 302")
      /\ Once(toServer, "CAP LS 302") => Once(toServer', "CAP LS 302")
      /\ Has(toServer', "CAP REQ") <=> Has(toServer, "CAP REQ")
      /\ Once(toServer, "CAP REQ") => Once(toServer', "CAP REQ")
  BY UpGrows
<1>3. /\ Has(toClient', "CAP LS") <=> Has(toClient, "CAP LS")
      /\ Has(toClient', "CAP ACK") <=> Has(toClient, "CAP ACK")
      /\ Has(toClient', "CAP NAK") <=> Has(toClient, "CAP NAK")
      /\ Once(toClient, "CAP LS") => Once(toClient', "CAP LS")
      /\ Once(toClient, "CAP NAK") => Once(toClient', "CAP NAK")
  BY DownShrinks
<1>4. /\ \A m \in Lines(toServer') : m.cmd = "CAP REQ" => m \in Lines(toServer)
      /\ \A m \in Lines(toClient') : m \in Lines(toClient)
  BY UpLines
<1>5. (capEndSent /\ cfg.sasl => srv.account \/ srv.late)'
  BY <1>1 DEF CapInv
<1>6. Fresh => Fresh'
  BY DEF Fresh
<1>7. CASE CapListing(toServer, toClient)
  <2>1. CapListing(toServer, toClient)'
    BY <1>2, <1>3, <1>6, <1>7 DEF CapListing, NoCapDown, One
  <2> QED BY <1>5, <2>1 DEF CapInv
<1>8. CASE CapListed(toServer, toClient)
  <2>1. CapListed(toServer, toClient)'
    BY <1>2, <1>3, <1>6, <1>8 DEF CapListed, NoCapUp, One
  <2> QED BY <1>5, <2>1 DEF CapInv
<1>9. CASE CapRequested(toServer, toClient)
  <2>1. CapRequested(toServer, toClient)'
    BY <1>2, <1>3, <1>4, <1>6, <1>9 DEF CapRequested, NoCapDown, One
  <2> QED BY <1>5, <2>1 DEF CapInv
<1>10. CASE CapDenied(toServer, toClient)
  <2>1. CapDenied(toServer, toClient)'
    BY <1>2, <1>3, <1>4, <1>6, <1>10 DEF CapDenied, NoCapUp, One
  <2> QED BY <1>5, <2>1 DEF CapInv
<1>11. CASE CapAnswered(toServer, toClient, srv)
  <2>1. CapAnswered(toServer, toClient, srv)'
    BY <1>1, <1>11, AnsweredStays
  <2> QED BY <1>5, <2>1 DEF CapInv
<1> QED BY <1>1, <1>7, <1>8, <1>9, <1>10, <1>11 DEF CapInv, CapNotBegun, Early

\* An exchange that has begun follows the acknowledgement.
LEMMA SaslIsLate ==
  ASSUME CapInv(toServer, toClient, srv), sasl.mech # "none", pc = "loop"
  PROVE  CapAnswered(toServer, toClient, srv)
BY DEF CapInv, CapNotBegun, CapListing, CapListed, CapRequested, CapDenied, Fresh

\* The list is answered with the request, or with the end of the negotiation.
LEMMA CapLsRead ==
  ASSUME ClientTurn, CapInv(toServer, toClient, srv), Head(toClient).cmd = "CAP LS"
  PROVE  CapInv(toServer, toClient, srv)' /\ CapListed(toServer, toClient)
<1> DEFINE m == Head(toClient)
<1>1. TypeOK /\ ReadLine(m) /\ pc = "loop" /\ srv' = srv /\ pc' \in {"loop", "closing"}
  BY TurnOfKind DEF ClientTurn, Says
<1>2. Has(toClient, "CAP LS")
  BY DownShrinks
<1>3. CapListed(toServer, toClient)
  BY <1>2 DEF CapInv, CapNotBegun, CapListing, CapListed, CapRequested, CapDenied,
              CapAnswered, NoCapDown
<1>4. NoCapDown(toClient')
  BY <1>3, DownShrinks DEF CapListed, One, NoCapDown
<1>5. UNCHANGED <<cfg, sasl>> /\ caps'.acked = caps.acked
  BY <1>1, CapLsTurn
<1>6. ASSUME NoCapUp(toServer'), pc' # "loop" \/ capEndSent'
      PROVE  CapAnswered(toServer, toClient, srv)'
  <2>1. Heads(toClient', "CAP ACK", "sasl")
    BY <1>4 DEF Heads, NoCapDown, Has
  <2> QED BY <1>1, <1>4, <1>6, <2>1 DEF CapAnswered, SaslAcked, Early, NoCapDown
<1>7. ASSUME Mute(sent') PROVE NoCapUp(toServer')
  BY <1>3, <1>7, UpGrows DEF CapListed, NoCapUp, Mute
<1>8. CASE GivesUp("no sasl") /\ UNCHANGED capEndSent
  <2>1. Mute(sent') /\ pc' # "loop"
    BY <1>8, OnlyMute DEF GivesUp
  <2> QED BY <1>1, <1>3, <1>5, <1>6, <1>7, <1>8, <2>1 DEF CapInv
<1>9. CASE ~cfg.sasl /\ MaybeSendCapEnd(sasl.active)
  <2>1. Mute(sent') /\ capEndSent'
    <3>1. Only(sent', {"CAP END"}) /\ (~sasl.active => capEndSent')
      BY <1>9, CapEndSaid, CapEndGate
    <3>2. ~sasl.active
      BY <1>3 DEF CapListed, Fresh
    <3> QED BY <3>1, <3>2, OnlyMute
  <2> QED BY <1>1, <1>3, <1>5, <1>6, <1>7, <1>9, <2>1 DEF CapInv
<1>10. CASE UNCHANGED capEndSent /\ pc' = "closing" /\ sent' = <<>>
  <2>1. Mute(sent') /\ pc' # "loop"
    BY <1>10, HasNothing DEF Mute
  <2> QED BY <1>1, <1>3, <1>5, <1>6, <1>7, <1>10, <2>1 DEF CapInv
<1>11. ASSUME UNCHANGED capEndSent, NEW req \in SUBSET Caps, sent' = <<CapReq(req)>>,
              cfg.sasl => "sasl" \in req
       PROVE  CapInv(toServer, toClient, srv)'
  <2>1. CapReq(req).cmd = "CAP REQ" /\ CapReq(req).caps = req
    BY DEF CapReq
  <2>2. Has(sent', "CAP REQ") /\ Once(sent', "CAP REQ") /\ ~Has(sent', "CAP LS 302")
    BY <1>11, <2>1, HasLine
  <2>3. One(toServer', "CAP REQ") /\ ~Has(toServer', "CAP LS 302")
    BY <1>3, <2>2, UpGrows DEF CapListed, NoCapUp, One
  <2>4. ASSUME NEW l \in Lines(toServer'), l.cmd = "CAP REQ" PROVE l = CapReq(req)
    <3>1. l \notin Lines(toServer)
      BY <1>3, <2>4, HasMember DEF CapListed, NoCapUp
    <3>2. l \in Lines(sent')
      BY <3>1, UpLines
    <3> QED BY <1>11, <3>2, LineOf
  <2>5. Fresh'
    BY <1>3, <1>5, <1>11 DEF CapListed, Fresh
  <2>6. CapRequested(toServer, toClient)'
    BY <1>4, <1>5, <1>11, <2>1, <2>3, <2>4, <2>5 DEF CapRequested
  <2>7. ~capEndSent'
    BY <2>5 DEF Fresh
  <2> QED BY <2>6, <2>7 DEF CapInv
<1>12. CapInv(toServer, toClient, srv)'
  <2>1. \/ GivesUp("no sasl") /\ UNCHANGED capEndSent
        \/ ~cfg.sasl /\ MaybeSendCapEnd(sasl.active)
        \/ UNCHANGED capEndSent /\ pc' = "closing" /\ sent' = <<>>
        \/ /\ UNCHANGED capEndSent
           /\ \E req \in SUBSET Caps : sent' = <<CapReq(req)>> /\ (cfg.sasl => "sasl" \in req)
    BY <1>1, CapLsTurn
  <2> QED BY <2>1, <1>8, <1>9, <1>10, <1>11
<1> QED BY <1>3, <1>12

\* A refusal ends the session, or the negotiation.
LEMMA CapNakRead ==
  ASSUME ClientTurn, CapInv(toServer, toClient, srv), Head(toClient).cmd = "CAP NAK"
  PROVE  CapInv(toServer, toClient, srv)' /\ CapDenied(toServer, toClient)
<1> DEFINE m == Head(toClient)
<1>1. TypeOK /\ ReadLine(m) /\ pc = "loop" /\ srv' = srv /\ pc' \in {"loop", "closing"}
  BY TurnOfKind DEF ClientTurn, Says
<1>2. Has(toClient, "CAP NAK")
  BY DownShrinks
<1>3. CapDenied(toServer, toClient)
  BY <1>2 DEF CapInv, CapNotBegun, CapListing, CapListed, CapRequested, CapDenied,
              CapAnswered, NoCapDown
<1>4. NoCapDown(toClient')
  BY <1>3, DownShrinks DEF CapDenied, One, NoCapDown
<1>5. UNCHANGED <<cfg, sasl>> /\ caps'.acked = caps.acked
  BY <1>1, CapNakTurn
<1>6. ASSUME Mute(sent'), pc' # "loop" \/ capEndSent'
      PROVE  CapAnswered(toServer, toClient, srv)'
  <2>1. Heads(toClient', "CAP ACK", "sasl")
    BY <1>4 DEF Heads, NoCapDown, Has
  <2>2. NoCapUp(toServer')
    BY <1>3, <1>6, UpGrows DEF CapDenied, NoCapUp, Mute
  <2> QED BY <1>1, <1>4, <1>6, <2>1, <2>2 DEF CapAnswered, SaslAcked, Early, NoCapDown
<1>7. CASE GivesUp("no sasl") /\ UNCHANGED capEndSent
  <2>1. Mute(sent') /\ pc' # "loop"
    BY <1>7, OnlyMute DEF GivesUp
  <2> QED BY <1>1, <1>3, <1>5, <1>6, <1>7, <2>1 DEF CapInv
<1>8. CASE (~cfg.sasl \/ "sasl" \notin m.caps) /\ MaybeSendCapEnd(sasl.active)
  <2>1. Mute(sent') /\ capEndSent'
    <3>1. Only(sent', {"CAP END"}) /\ (~sasl.active => capEndSent')
      BY <1>8, CapEndSaid, CapEndGate
    <3>2. ~sasl.active
      BY <1>3 DEF CapDenied, Fresh
    <3> QED BY <3>1, <3>2, OnlyMute
  <2>2. m \in Lines(toClient)
    BY UpLines
  <2>3. ~cfg.sasl
    BY <1>3, <1>8, <2>2 DEF CapDenied
  <2> QED BY <1>1, <1>3, <1>5, <1>6, <1>8, <2>1, <2>3 DEF CapInv
<1>9. \/ GivesUp("no sasl") /\ UNCHANGED capEndSent
      \/ (~cfg.sasl \/ "sasl" \notin m.caps) /\ MaybeSendCapEnd(sasl.active)
  BY <1>1, CapNakTurn
<1> QED BY <1>3, <1>7, <1>8, <1>9

\* The acknowledgement opens the exchange, or ends the negotiation.
LEMMA CapAckRead ==
  ASSUME ClientTurn, CapInv(toServer, toClient, srv), SaslInv(toServer, toClient, srv),
         Head(toClient).cmd = "CAP ACK"
  PROVE  CapInv(toServer, toClient, srv)'
<1> DEFINE m == Head(toClient)
<1>1. /\ TypeOK /\ ReadLine(m) /\ pc = "loop" /\ srv' = srv /\ pc' \in {"loop", "closing"}
      /\ toClient' = Tail(toClient) /\ toClient \in Seq(ServerLines) /\ toClient # <<>>
  BY TurnOfKind DEF ClientTurn, Says, Wired
<1>2. Has(toClient, "CAP ACK")
  BY DownShrinks
<1>3. CapAnswered(toServer, toClient, srv)
  BY <1>2 DEF CapInv, CapNotBegun, CapListing, CapListed, CapRequested, CapDenied,
              CapAnswered, NoCapDown
<1>4. UNCHANGED cfg /\ caps'.acked = caps.acked \cup m.caps
  BY <1>1, CapAckTurn
<1>5. cfg.sasl /\ ~srv.late => "sasl" \in caps'.acked
  <2>1. Heads(toClient, "CAP ACK", "sasl") => "sasl" \in m.caps
    BY <1>1, HeadsTail
  <2> QED BY <1>3, <1>4, <2>1 DEF CapAnswered, SaslAcked
<1>6. SaslAcked(toClient, srv)'
  BY <1>1, <1>4, <1>5 DEF SaslAcked
<1>7. ~Has(toClient', "CAP LS") /\ ~Has(toClient', "CAP NAK") /\ ~Early'
  BY <1>1, <1>3, DownShrinks DEF CapAnswered, Early
<1>8. CASE /\ cfg.sasl /\ ~sasl.active /\ ~sasl.done
           /\ sasl'.active /\ UNCHANGED capEndSent
           /\ sent' = <<SaslLine(sasl'.mech)>> \/ sent' = <<>>
  <2>1. SaslLine(sasl'.mech).cmd = "AUTHENTICATE"
    BY DEF SaslLine
  <2>2. ~Has(sent', "CAP LS 302") /\ ~Has(sent', "CAP REQ")
    BY <1>8, <2>1, HasLine, HasNothing
  <2>3. NoCapUp(toServer')
    BY <1>3, <2>2, UpGrows DEF CapAnswered, NoCapUp
  <2>4. CapAnswered(toServer, toClient, srv)'
    BY <1>6, <1>7, <1>8, <2>3 DEF CapAnswered
  <2> QED BY <1>1, <1>4, <1>8, <2>4 DEF CapInv
<1>9. CASE /\ ~cfg.sasl \/ "sasl" \notin caps'.acked \/ sasl.active \/ sasl.done
           /\ MaybeSendCapEnd(sasl.active)
           /\ UNCHANGED <<pc, reason, sasl>>
  <2>1. /\ Only(sent', {"CAP END"}) /\ (~sasl.active => capEndSent')
        /\ (capEndSent => capEndSent') /\ (capEndSent' => capEndSent \/ ~sasl.active)
    BY <1>9, CapEndSaid, CapEndGate
  <2>2. NoCapUp(toServer')
    BY <1>3, <2>1, UpGrows, OnlyMute DEF CapAnswered, NoCapUp, Mute
  <2>3. CapAnswered(toServer, toClient, srv)'
    BY <1>6, <1>7, <1>9, <2>1, <2>2 DEF CapAnswered
  <2>4. ASSUME sasl.done PROVE srv.account
    BY <1>1, <2>4 DEF SaslInv, SaslIdle, SaslAsked, SaslInvited, SaslOffered,
       SaslChallenged, SaslGranted, SaslRefused, SaslOver, Pending
  <2>5. capEndSent' /\ cfg.sasl => srv.account \/ srv.late
    BY <1>3, <1>5, <1>9, <2>1, <2>4 DEF CapInv
  <2> QED BY <1>1, <1>4, <2>3, <2>5 DEF CapInv
<1>10. \/ /\ cfg.sasl /\ ~sasl.active /\ ~sasl.done
          /\ sasl'.active /\ UNCHANGED capEndSent
          /\ sent' = <<SaslLine(sasl'.mech)>> \/ sent' = <<>>
       \/ /\ ~cfg.sasl \/ "sasl" \notin caps'.acked \/ sasl.active \/ sasl.done
          /\ MaybeSendCapEnd(sasl.active)
          /\ UNCHANGED <<pc, reason, sasl>>
  BY <1>1, CapAckTurn
<1> QED BY <1>8, <1>9, <1>10

\* A line of the SASL exchange.
LEMMA CapSaslRead ==
  ASSUME ClientTurn, CapInv(toServer, toClient, srv), SaslInv(toServer, toClient, srv),
         Head(toClient).cmd \in SaslDown
  PROVE  CapInv(toServer, toClient, srv)'
<1> DEFINE m == Head(toClient)
<1>1. TypeOK /\ ReadLine(m) /\ pc = "loop" /\ srv' = srv /\ pc' \in {"loop", "closing"}
  BY TurnOfKind DEF ClientTurn, Says
<1>2. Has(toClient, m.cmd)
  BY DownShrinks
<1>3. sasl.mech # "none"
  BY <1>1, <1>2 DEF SaslInv, SaslIdle, SaslAsked, SaslInvited, SaslOffered, SaslChallenged,
     SaslGranted, SaslRefused, SaslOver, NoSaslDown, Pending, SaslDown
<1>4. CapAnswered(toServer, toClient, srv)
  BY <1>1, <1>3, SaslIsLate
<1>5. m.cmd # "CAP ACK" /\ m.cmd \notin SideTurns
  BY DEF SaslDown, SideTurns, PlainTurns
<1>6. CASE m.cmd \in AuthLines
  <2>1. /\ UNCHANGED <<cfg, caps, capEndSent>>
        /\ (sasl'.active <=> sasl.active) /\ (sasl'.done <=> sasl.done)
    BY <1>1, <1>6, AuthenticateTurn DEF AuthKeeps
  <2>2. ~Has(sent', "CAP LS 302") /\ ~Has(sent', "CAP REQ")
    <3>1. CASE Pays
      <4>1. Line("PAYLOAD").cmd = "PAYLOAD"
        BY LineCmd
      <4>2. sent' = <<Line("PAYLOAD")>> \/ sent' = <<>>
        BY <3>1 DEF Pays
      <4> QED BY <4>1, <4>2, HasLine, HasNothing
    <3>2. CASE sent' = <<>>
      BY <3>2, HasNothing
    <3>3. CASE GivesUp("sasl failed")
      BY <3>3, OnlyMute DEF GivesUp, Mute
    <3> QED BY <1>1, <1>6, <3>1, <3>2, <3>3, AuthenticateSays
  <2>3. CapAnswered(toServer, toClient, srv)'
    BY <1>1, <1>4, <1>5, <2>1, <2>2, AnsweredStays
  <2> QED BY <1>1, <2>1, <2>3 DEF CapInv
<1>7. CASE m.cmd = "SASL OK"
  <2>1. UNCHANGED <<cfg, caps>> /\ sasl'.done /\ MaybeSendCapEnd(FALSE)
    BY <1>1, <1>7, SaslOkTurn
  <2>2. Mute(sent') /\ capEndSent'
    BY <2>1, CapEndSaid, OnlyMute
  <2>3. CapAnswered(toServer, toClient, srv)'
    BY <1>1, <1>4, <1>5, <2>1, <2>2, AnsweredStays DEF Mute
  <2>4. srv.account
    BY <1>7, SaslOkRead DEF SaslGranted
  <2> QED BY <1>1, <2>3, <2>4 DEF CapInv
<1>8. CASE m.cmd = "SASL FAILED"
  <2>1. UNCHANGED <<cfg, nego>> /\ GivesUp("sasl failed")
    BY <1>1, <1>8, SaslFailedTurn
  <2>2. UNCHANGED <<sasl, caps, capEndSent>> /\ Mute(sent')
    BY <2>1, OnlyMute DEF nego, GivesUp
  <2>3. CapAnswered(toServer, toClient, srv)'
    BY <1>1, <1>4, <1>5, <2>1, <2>2, AnsweredStays DEF Mute
  <2> QED BY <1>1, <2>1, <2>2, <2>3 DEF CapInv
<1> QED BY <1>6, <1>7, <1>8 DEF SaslDown, AuthLines

LEMMA CapRead ==
  ASSUME ClientTurn, CapInv(toServer, toClient, srv), SaslInv(toServer, toClient, srv)
  PROVE  CapInv(toServer, toClient, srv)'
<1> DEFINE m == Head(toClient)
<1>1. /\ m.cmd \in SideTurns \cup AuthLines \cup
           {"CAP LS", "CAP ACK", "CAP NAK", "SASL OK", "SASL FAILED"}
      /\ TypeOK /\ ReadLine(m) /\ pc' \in {"loop", "closing"} /\ ~Has(sent', "CAP LS 302")
  BY TurnOfKind DEF Says
<1>2. CASE m.cmd \in SideTurns
  <2>1. m.cmd \notin {"CAP LS", "CAP ACK", "CAP NAK"}
    BY <1>2 DEF SideTurns, PlainTurns
  <2>2. /\ UNCHANGED <<cfg, sasl, capEndSent>> /\ caps'.acked = caps.acked
        /\ ~Has(sent', "CAP REQ")
    BY <1>1, <1>2, SideTurn
  <2> QED BY <1>1, <2>1, <2>2, CapUntouched
<1> QED BY <1>1, <1>2, CapLsRead, CapNakRead, CapAckRead, CapSaslRead DEF AuthLines, SaslDown

LEMMA GateRead ==
  ASSUME ClientTurn, GateInv(toServer, toClient, srv)
  PROVE  GateInv(toServer, toClient, srv)'
<1> DEFINE m == Head(toClient)
<1>1. /\ toServer' = toServer \o sent' /\ toServer \in Seq(ClientLines)
      /\ sent' \in Seq(ClientLines) /\ srv' = srv
  BY DEF ClientTurn, Wired
<1>2. /\ capEndSent => capEndSent'
      /\ Has(sent', "CAP END") => capEndSent'
      /\ ~Has(sent', "USER")
      /\ registered' <=> registered \/ m.cmd = "001"
  BY TurnOfKind DEF Says, Names
<1>3. Has(toServer', "CAP END") => capEndSent'
  BY <1>2, UpGrows DEF GateInv
<1>4. Behind(toServer, "USER", "CAP LS 302") => Behind(toServer', "USER", "CAP LS 302")
  BY <1>1, <1>2, BehindConcat
<1>5. Has(toClient', "001") \/ registered' => srv'.welcomed
  BY <1>1, <1>2, DownShrinks DEF GateInv
<1> QED BY <1>1, <1>2, <1>3, <1>4, <1>5 DEF GateInv

LEMMA NickRead ==
  ASSUME ClientTurn, NickInv(toServer, toClient, srv)
  PROVE  NickInv(toServer, toClient, srv)'
<1> DEFINE m == Head(toClient)
<1>1. srv' = srv /\ pc = "loop" /\ pc' \in {"loop", "closing"}
  BY TurnOfKind DEF ClientTurn, Says
<1>2. /\ Has(sent', "NICK") => m.cmd = "433" /\ Once(sent', "NICK")
      /\ registered' <=> registered \/ m.cmd = "001"
  BY TurnOfKind DEF Says, Names
<1>3. ~Early'
  BY <1>1 DEF Early
<1>4. /\ Has(toClient, "433") <=> m.cmd = "433" \/ Has(toClient', "433")
      /\ Once(toClient', "433") /\ (m.cmd = "433" => ~Has(toClient', "433"))
      /\ Has(toClient, "001") <=> m.cmd = "001" \/ Has(toClient', "001")
      /\ Has(toClient', "NICK") => Has(toClient, "NICK")
  BY DownShrinks DEF NickInv
<1>5. CASE Has(sent', "NICK")
  <2>1. m.cmd = "433" /\ ~Has(toServer, "NICK")
    BY <1>2, <1>4, <1>5 DEF NickInv
  <2>2. Once(toServer', "NICK")
    BY <1>2, <1>5, <2>1, UpGrows
  <2> QED BY <1>1, <1>2, <1>3, <1>4, <2>1, <2>2 DEF NickInv
<1>6. CASE ~Has(sent', "NICK")
  <2>1. Once(toServer', "NICK") /\ (Has(toServer', "NICK") <=> Has(toServer, "NICK"))
    BY <1>6, UpGrows DEF NickInv
  <2> QED BY <1>1, <1>2, <1>3, <1>4, <2>1 DEF NickInv
<1> QED BY <1>5, <1>6

LEMMA ChainRead ==
  ASSUME ClientTurn, NickInv(toServer, toClient, srv), ChainInv(toClient, srv)
  PROVE  ChainInv(toClient, srv)'
<1> DEFINE m == Head(toClient)
<1>1. /\ srv' = srv /\ pc = "loop" /\ toClient' = Tail(toClient)
      /\ toClient \in Seq(ServerLines) /\ toClient # <<>>
  BY DEF ClientTurn, Wired
<1> SUFFICES ASSUME srv.welcomed
             PROVE  \E f \in [0..Len(toClient') -> Nicks] : Leads(f, toClient', nick', srv.nick)
  BY <1>1 DEF ChainInv
<1>2. nick' = Called(m, nick)
  <2>1. m.cmd # "433"
    BY DownShrinks DEF NickInv
  <2> QED BY <2>1, TurnOfKind DEF Names
<1>3. PICK f \in [0..Len(toClient) -> Nicks] : Leads(f, toClient, nick, srv.nick)
  BY <1>1 DEF ChainInv
<1>4. /\ Len(toClient) \in Nat \ {0} /\ m = toClient[1]
      /\ Len(toClient') = Len(toClient) - 1
      /\ \A i \in 1..Len(toClient) - 1 : toClient'[i] = toClient[i + 1]
  BY <1>1, HeadTailProperties, EmptySeq
<1> DEFINE g == [i \in 0..Len(toClient') |-> f[i + 1]]
<1>5. /\ f[0] = nick /\ f[Len(toClient)] = srv.nick
      /\ \A k \in 1..Len(toClient) : f[k] = Called(toClient[k], f[k - 1])
  BY <1>3 DEF Leads
<1>6. f[1] = Called(m, f[0])
  <2>1. 1 \in 1..Len(toClient) /\ 1 - 1 = 0
    BY <1>4
  <2> QED BY <1>4, <1>5, <2>1
<1>7. g \in [0..Len(toClient') -> Nicks] /\ g[0] = nick' /\ g[Len(toClient')] = srv.nick
  BY <1>2, <1>4, <1>5, <1>6
<1>8. ASSUME NEW k \in 1..Len(toClient') PROVE g[k] = Called(toClient'[k], g[k - 1])
  <2>1. /\ k + 1 \in 1..Len(toClient) /\ (k + 1) - 1 = k /\ k - 1 \in 0..Len(toClient')
        /\ (k - 1) + 1 = k /\ toClient'[k] = toClient[k + 1] /\ k \in 0..Len(toClient')
    BY <1>4
  <2>2. f[k + 1] = Called(toClient[k + 1], f[k])
    BY <1>5, <2>1
  <2>3. g[k] = f[k + 1] /\ g[k - 1] = f[k]
    BY <2>1
  <2> QED BY <2>1, <2>2, <2>3
<1> HIDE DEF g
<1> QED BY <1>7, <1>8 DEF Leads

LEMMA OwedRead ==
  ASSUME ClientTurn, OwedInv(toServer, toClient, srv), ~WritesMayFail
  PROVE  OwedInv(toServer, toClient, srv)'
<1> DEFINE m == Head(toClient)
<1>1. srv' = srv /\ pc = "loop" /\ pc' \in {"loop", "closing"}
  BY TurnOfKind DEF ClientTurn, Says
<1>2. Says(m) /\ (registered' <=> registered \/ m.cmd = "001")
  BY TurnOfKind DEF Names
<1>3. ~Early'
  BY <1>1 DEF Early
<1>4. Has(toServer', "QUIT") => pc' # "loop"
  BY <1>1, <1>2, UpGrows DEF OwedInv, Underway, Settled, Says
<1>5. /\ Has(toServer', "NICK") <=> Has(toServer, "NICK") \/ Has(sent', "NICK")
      /\ Has(toServer', "USER") <=> Has(toServer, "USER") \/ Has(sent', "USER")
      /\ Has(toServer', "CAP END") <=> Has(toServer, "CAP END") \/ Has(sent', "CAP END")
  BY UpGrows
<1>6. /\ Has(toClient, "433") <=> m.cmd = "433" \/ Has(toClient', "433")
      /\ Has(toClient, "001") <=> m.cmd = "001" \/ Has(toClient', "001")
      /\ Has(toClient, "REJECTED") <=> m.cmd = "REJECTED" \/ Has(toClient', "REJECTED")
  BY DownShrinks
<1>7. ASSUME pc' = "loop", ~registered'
      PROVE  Has(toServer', "NICK") \/ Has(toClient', "433") \/ srv'.nick # NoNick
  BY <1>1, <1>2, <1>5, <1>6, <1>7 DEF OwedInv, Underway, Settled, Says
<1>8. ASSUME pc' = "loop"
      PROVE  /\ Has(toServer', "USER") \/ srv'.user
             /\ capEndSent' /\ srv'.open => Has(toServer', "CAP END")
             /\ srv'.welcomed => registered' \/ Has(toClient', "001")
             /\ srv'.gone => registered' \/ Has(toClient', "REJECTED")
  BY <1>1, <1>2, <1>5, <1>6, <1>8 DEF OwedInv, Underway, Settled, Says
<1> QED BY <1>1, <1>3, <1>4, <1>7, <1>8 DEF OwedInv, Underway, Settled

\* The reason is set for SASL or the capabilities only where 001 is out of reach.
LEMMA TornRead ==
  ASSUME ClientTurn, reason = "connection closed", TornInv(srv), GateInv(toServer, toClient, srv),
         CapInv(toServer, toClient, srv), SaslInv(toServer, toClient, srv)
  PROVE  TornInv(srv)'
<1> DEFINE m == Head(toClient)
<1>1. /\ m.cmd \in SideTurns \cup AuthLines \cup
           {"CAP LS", "CAP ACK", "CAP NAK", "SASL OK", "SASL FAILED"}
      /\ TypeOK /\ ReadLine(m) /\ pc = "loop" /\ srv' = srv
  BY TurnOfKind DEF ClientTurn
<1>2. registered' <=> registered \/ m.cmd = "001"
  BY TurnOfKind DEF Names
<1>3. ASSUME ~capEndSent PROVE ~registered
  BY <1>3 DEF GateInv
<1>4. CASE m.cmd \in SideTurns
  <2>1. reason' \notin {"no sasl", "sasl failed"}
    BY <1>1, <1>4, SideTurn
  <2> QED BY <2>1 DEF TornInv
<1>5. CASE m.cmd = "CAP LS" \/ m.cmd = "CAP NAK"
  <2>1. Fresh
    BY <1>5, CapLsRead, CapNakRead DEF CapListed, CapDenied
  <2>2. ~registered'
    BY <1>2, <1>3, <1>5, <2>1 DEF Fresh
  <2> QED BY <2>2 DEF TornInv
<1>6. CASE m.cmd = "CAP ACK"
  <2>1. UNCHANGED reason \/ reason' = "write error"
    BY <1>1, <1>6, CapAckTurn
  <2> QED BY <2>1 DEF TornInv
<1>7. CASE m.cmd = "SASL OK"
  <2>1. UNCHANGED reason
    BY <1>1, <1>7, SaslOkTurn
  <2> QED BY <2>1 DEF TornInv
<1>8. CASE m.cmd = "SASL FAILED"
  <2>1. SaslRefused(toServer, toClient, srv)
    BY <1>8, SaslFailedRead
  <2>2. ~srv.account /\ cfg.sasl
    BY <2>1 DEF SaslRefused, Pending, SaslInv
  <2>3. registered => srv.late
    BY <1>3, <2>2 DEF CapInv
  <2>4. registered' <=> registered
    BY <1>2, <1>8
  <2> QED BY <1>1, <2>3, <2>4 DEF TornInv
<1>9. CASE m.cmd = "AUTH +"
  <2>1. SaslInvited(toServer, toClient, srv)
    BY <1>1, <1>9, DownShrinks DEF SaslInv, SaslIdle, SaslAsked, SaslInvited, SaslOffered,
       SaslChallenged, SaslGranted, SaslRefused, SaslOver, NoSaslDown
  <2>2. sasl.mech # "none"
    BY <2>1 DEF SaslInvited, Pending
  <2>3. UNCHANGED reason \/ reason' = "write error"
    BY <1>1, <1>9, <2>2, AuthInviteTurn DEF Pays
  <2> QED BY <2>3 DEF TornInv
<1>10. CASE m.cmd = "AUTH good"
  <2>1. SaslChallenged(toServer, toClient, srv) \/ SaslGranted(toServer, toClient, srv)
    BY <1>1, <1>10, DownShrinks DEF SaslInv, SaslIdle, SaslAsked, SaslInvited, SaslOffered,
       SaslChallenged, SaslGranted, SaslRefused, SaslOver, NoSaslDown
  <2>2. Has(toClient, "AUTH good")
    BY <1>10, DownShrinks
  <2>3. sasl.mech = "scram" /\ sasl.step \in {"await first", "await final"}
    BY <2>1, <2>2 DEF SaslChallenged, SaslGranted
  <2>4. UNCHANGED reason \/ reason' = "write error"
    BY <1>1, <1>10, <2>3, AuthGoodTurn DEF Pays
  <2> QED BY <2>4 DEF TornInv
<1>11. m.cmd # "AUTH bad"
  BY DownShrinks DEF SaslInv
<1> QED BY <1>1, <1>4, <1>5, <1>6, <1>7, <1>8, <1>9, <1>10, <1>11 DEF AuthLines

LEMMA ClientReads ==
  ASSUME ClientTurn, reason = "connection closed", Parts(toServer, toClient, srv)
  PROVE  Parts(toServer, toClient, srv)'
<1>1. EarlyInv(toServer, toClient, srv)'
  BY TurnOfKind DEF EarlyInv, Early, Says
<1>2. SaslInv(toServer, toClient, srv)' /\ CapInv(toServer, toClient, srv)'
  BY SaslRead, CapRead DEF Parts
<1>3. GateInv(toServer, toClient, srv)' /\ TornInv(srv)'
  BY GateRead, TornRead DEF Parts
<1>4. NickInv(toServer, toClient, srv)' /\ ChainInv(toClient, srv)'
  BY NickRead, ChainRead DEF Parts
<1>5. ~WritesMayFail => OwedInv(toServer, toClient, srv)'
  BY OwedRead DEF Parts
<1>6. WritesMayFail' = WritesMayFail
  OBVIOUS
<1> QED BY <1>1, <1>2, <1>3, <1>4, <1>5, <1>6 DEF Parts

\* A step of the session that writes nothing and does not enter the loop.
LEMMA LifeParts ==
  ASSUME Parts(toServer, toClient, srv),
         UNCHANGED <<toServer, toClient, srv, cfg, ident, nego, reason>>,
         pc' = "loop" => pc = "loop", Early' => Early
  PROVE  Parts(toServer, toClient, srv)'
<1>0. UNCHANGED <<nick, registered, caps, sasl, capEndSent>>
  BY DEF ident, nego
<1>1. EarlyInv(toServer, toClient, srv)'
  BY DEF Parts, EarlyInv
<1>2. SaslInv(toServer, toClient, srv)'
  <2>1. CASE SaslOver(toServer, toClient)
    BY <1>0, <2>1 DEF Parts, SaslInv, SaslOver
  <2>2. CASE SaslGranted(toServer, toClient, srv)
    BY <1>0, <2>2 DEF Parts, SaslInv, SaslGranted
  <2>3. \/ SaslIdle(toServer, toClient, srv) => SaslIdle(toServer, toClient, srv)'
    BY <1>0 DEF SaslIdle
  <2>4. SaslAsked(toServer, toClient, srv) => SaslAsked(toServer, toClient, srv)'
    BY <1>0 DEF SaslAsked, Pending
  <2>5. SaslInvited(toServer, toClient, srv) => SaslInvited(toServer, toClient, srv)'
    BY <1>0 DEF SaslInvited, Pending
  <2>6. SaslOffered(toServer, toClient, srv) => SaslOffered(toServer, toClient, srv)'
    BY <1>0 DEF SaslOffered, Pending
  <2>7. SaslChallenged(toServer, toClient, srv) => SaslChallenged(toServer, toClient, srv)'
    BY <1>0 DEF SaslChallenged, Pending
  <2>8. SaslRefused(toServer, toClient, srv) => SaslRefused(toServer, toClient, srv)'
    BY <1>0 DEF SaslRefused, Pending
  <2> QED BY <1>0, <2>1, <2>2, <2>3, <2>4, <2>5, <2>6, <2>7, <2>8 DEF Parts, SaslInv
<1>3. CapInv(toServer, toClient, srv)'
  <2>0. Fresh' <=> Fresh
    BY <1>0 DEF Fresh
  <2>1. CASE CapNotBegun(toServer, toClient) /\ Early'
    BY <1>0, <2>0, <2>1 DEF Parts, CapInv, CapNotBegun
  <2>2. CASE CapNotBegun(toServer, toClient) /\ ~Early'
    <3>1. Heads(toClient, "CAP ACK", "sasl")
      BY <2>2 DEF CapNotBegun, NoCapDown, Heads, Has
    <3>2. pc' # "loop"
      BY <2>2 DEF CapNotBegun, Early
    <3>3. CapAnswered(toServer, toClient, srv)'
      BY <2>2, <3>1, <3>2 DEF CapAnswered, SaslAcked, CapNotBegun, NoCapDown
    <3> QED BY <1>0, <3>3 DEF Parts, CapInv
  <2>3. CapListing(toServer, toClient) => CapListing(toServer, toClient)'
    BY <2>0 DEF CapListing
  <2>4. CapListed(toServer, toClient) => CapListed(toServer, toClient)'
    BY <2>0 DEF CapListed
  <2>5. CapRequested(toServer, toClient) => CapRequested(toServer, toClient)'
    BY <2>0 DEF CapRequested
  <2>6. CapDenied(toServer, toClient) => CapDenied(toServer, toClient)'
    BY <2>0 DEF CapDenied
  <2>7. CapAnswered(toServer, toClient, srv) => CapAnswered(toServer, toClient, srv)'
    BY <1>0 DEF CapAnswered, SaslAcked
  <2> QED BY <1>0, <2>1, <2>2, <2>3, <2>4, <2>5, <2>6, <2>7 DEF Parts, CapInv
<1>4. GateInv(toServer, toClient, srv)' /\ TornInv(srv)' /\ NickInv(toServer, toClient, srv)'
  BY <1>0 DEF Parts, GateInv, TornInv, NickInv
<1>5. ChainInv(toClient, srv)'
  BY <1>0 DEF Parts, ChainInv
<1>6. ~WritesMayFail => OwedInv(toServer, toClient, srv)'
  BY <1>0 DEF Parts, OwedInv, Underway, Settled
<1> QED BY <1>1, <1>2, <1>3, <1>4, <1>5, <1>6 DEF Parts

-----------------------------------------------------------------------------
(* The lines of the handshake *)

LEMMA SubSeqLines ==
  ASSUME NEW r, NEW k \in Nat
  PROVE  Len(SubSeq(r, 1, k)) = k /\ \A i \in 1..k : SubSeq(r, 1, k)[i] = r[i]
<1> DEFINE S == {r[i] : i \in 1..k}
<1>1. \A i \in 1..k : r[i] \in S
  OBVIOUS
<1> HIDE DEF S
<1>2. /\ Len(SubSeq(r, 1, k)) = IF 1 <= k THEN k - 1 + 1 ELSE 0
      /\ \A i \in 1..(k - 1 + 1) : SubSeq(r, 1, k)[i] = r[1 + i - 1]
  BY <1>1, SubSeqProperties
<1> QED BY <1>2

LEMMA ShortConcat ==
  ASSUME NEW a, NEW b, NEW c, NEW d
  PROVE  /\ LET r == <<a>> \o <<b>> \o <<c, d>>
            IN  Len(r) = 4 /\ r[1] = a /\ r[2] = b /\ r[3] = c /\ r[4] = d
         /\ LET r == <<a>> \o <<>> \o <<c, d>>
            IN  Len(r) = 3 /\ r[1] = a /\ r[2] = c /\ r[3] = d
OBVIOUS

\* A queue of up to four lines, given the kinds they are of.
Differ(c1, c2, c3, c4) ==
  c1 # c2 /\ c1 # c3 /\ c1 # c4 /\ c2 # c3 /\ c2 # c4 /\ c3 # c4

Begins(q, k, c1, c2, c3, c4) ==
  /\ \A c : c # c1 /\ c # c2 /\ c # c3 /\ c # c4 => ~Has(q, c)
  /\ k = 0 => ~Has(q, c1)
  /\ k # 0 => Has(q, c1)
  /\ k >= 2 => Has(q, c2)
  /\ k >= 3 => Has(q, c3)
  /\ k = 4 => Has(q, c4)
  /\ Once(q, c1) /\ Once(q, c2) /\ Once(q, c3)
  /\ \A c : Behind(q, c, c1)

LEMMA FirstLines ==
  ASSUME NEW k \in 0..4, NEW q, Len(q) = k,
         NEW c1, NEW c2, NEW c3, NEW c4, c1 # c2, c1 # c3, c1 # c4, c2 # c3, c2 # c4, c3 # c4,
         \A i \in 1..k : /\ i = 1 => q[i].cmd = c1
                         /\ i = 2 => q[i].cmd = c2
                         /\ i = 3 => q[i].cmd = c3
                         /\ i = 4 => q[i].cmd = c4
  PROVE  Begins(q, k, c1, c2, c3, c4)
<1>1. \A i \in 1..k : i \in 1..4
  OBVIOUS
<1>2. ASSUME NEW c, c # c1, c # c2, c # c3, c # c4 PROVE ~Has(q, c)
  BY <1>1, <1>2 DEF Has
<1>3. k = 0 => ~Has(q, c1)
  BY DEF Has
<1>4. k # 0 => Has(q, c1)
  <2>1. k # 0 => 1 \in 1..k /\ q[1].cmd = c1
    OBVIOUS
  <2> QED BY <2>1 DEF Has
<1>5. k >= 2 => Has(q, c2)
  <2>1. k >= 2 => 2 \in 1..k /\ q[2].cmd = c2
    OBVIOUS
  <2> QED BY <2>1 DEF Has
<1>6. k >= 3 => Has(q, c3)
  <2>1. k >= 3 => 3 \in 1..k /\ q[3].cmd = c3
    OBVIOUS
  <2> QED BY <2>1 DEF Has
<1>7. k = 4 => Has(q, c4)
  <2>1. k = 4 => 4 \in 1..k /\ q[4].cmd = c4
    OBVIOUS
  <2> QED BY <2>1 DEF Has
<1>8. Once(q, c1) /\ Once(q, c2) /\ Once(q, c3)
  BY <1>1 DEF Once
<1>9. ASSUME NEW c PROVE Behind(q, c, c1)
  <2>1. \A j \in 1..k : 1 \in 1..j /\ q[1].cmd = c1
    OBVIOUS
  <2> QED BY <2>1 DEF Behind
<1> QED BY <1>2, <1>3, <1>4, <1>5, <1>6, <1>7, <1>8, <1>9 DEF Begins

LEMMA SortedLines ==
  ASSUME NEW k \in 0..4, NEW q, Len(q) = k, NEW c1, NEW c2, NEW c3, NEW c4,
         Differ(c1, c2, c3, c4),
         \A i \in 1..k : /\ i = 1 => q[i].cmd = c1
                         /\ i = 2 => q[i].cmd = c2
                         /\ i = 3 => q[i].cmd = c3
                         /\ i = 4 => q[i].cmd = c4
  PROVE  Begins(q, k, c1, c2, c3, c4)
<1>1. c1 # c2 /\ c1 # c3 /\ c1 # c4 /\ c2 # c3 /\ c2 # c4 /\ c3 # c4
  BY DEF Differ
<1> QED BY <1>1, FirstLines

\* CAP LS, perhaps PASS, NICK, USER: all of them or some of the first.
LEMMA HandshakeLines ==
  ASSUME NEW k \in 0..Len(RegistrationLines), NEW q, q = SubSeq(RegistrationLines, 1, k)
  PROVE  /\ ~Has(q, "CAP REQ") /\ ~Has(q, "AUTHENTICATE") /\ ~Has(q, "PAYLOAD")
         /\ ~Has(q, "CAP END") /\ ~Has(q, "QUIT") /\ Once(q, "NICK") /\ Once(q, "CAP LS 302")
         /\ k = 0 => ~Has(q, "CAP LS 302")
         /\ k # 0 => Has(q, "CAP LS 302")
         /\ Behind(q, "USER", "CAP LS 302")
         /\ k = Len(RegistrationLines) => k # 0 /\ Has(q, "NICK") /\ Has(q, "USER")
<1> DEFINE ls == Line("CAP LS 302")
           pass == Line("PASS")
           name == NickLine(nick)
           user == Line("USER")
           LS == "CAP LS 302"
           PA == "PASS"
           NI == "NICK"
           US == "USER"
<1>1. ls.cmd = LS /\ pass.cmd = PA /\ name.cmd = NI /\ user.cmd = US
  BY DEF Line, NickLine
<1>2. RegistrationLines = <<ls>> \o (IF cfg.pass THEN <<pass>> ELSE <<>>) \o <<name, user>>
  BY DEF RegistrationLines
<1>3. Differ(LS, PA, NI, US) /\ Differ(LS, NI, US, PA)
  BY DEF Differ
<1> HIDE DEF ls, pass, name, user, LS, PA, NI, US
<1>4. \A i \in 1..k : k \in Nat => SubSeq(RegistrationLines, 1, k)[i] = RegistrationLines[i]
  BY SubSeqLines
<1>5. /\ \A c : c # LS /\ c # PA /\ c # NI /\ c # US => ~Has(q, c)
      /\ k = 0 => ~Has(q, LS)
      /\ k # 0 => Has(q, LS)
      /\ k = Len(RegistrationLines) => k # 0 /\ Has(q, NI) /\ Has(q, US)
      /\ Once(q, NI) /\ Once(q, LS) /\ Behind(q, US, LS)
  <2>1. CASE cfg.pass
    <3>1. /\ Len(RegistrationLines) = 4
          /\ RegistrationLines[1] = ls /\ RegistrationLines[2] = pass
          /\ RegistrationLines[3] = name /\ RegistrationLines[4] = user
      BY <1>2, <2>1, ShortConcat
    <3>2. k \in 0..4 /\ Len(RegistrationLines) = 4
      BY <3>1
    <3>3. Len(q) = k /\ \A i \in 1..k : q[i] = RegistrationLines[i]
      BY <3>2, SubSeqLines
    <3>4. \A i \in 1..k : /\ i = 1 => q[i].cmd = LS
                          /\ i = 2 => q[i].cmd = PA
                          /\ i = 3 => q[i].cmd = NI
                          /\ i = 4 => q[i].cmd = US
      BY <1>1, <3>1, <3>2, <3>3
    <3>5. Begins(q, k, LS, PA, NI, US)
      BY <1>3, <3>2, <3>3, <3>4, SortedLines
    <3>6. /\ \A c : c # LS /\ c # PA /\ c # NI /\ c # US => ~Has(q, c)
          /\ k = 0 => ~Has(q, LS)
          /\ k # 0 => Has(q, LS)
          /\ k >= 3 => Has(q, NI)
          /\ k = 4 => Has(q, US)
          /\ Once(q, LS) /\ Once(q, NI)
          /\ \A c : Behind(q, c, LS)
      BY <3>5 DEF Begins
    <3> QED BY <3>2, <3>6
  <2>2. CASE ~cfg.pass
    <3>1. /\ Len(RegistrationLines) = 3
          /\ RegistrationLines[1] = ls
          /\ RegistrationLines[2] = name /\ RegistrationLines[3] = user
      BY <1>2, <2>2, ShortConcat
    <3>2. k \in 0..4 /\ k # 4 /\ Len(RegistrationLines) = 3
      BY <3>1
    <3>3. Len(q) = k /\ \A i \in 1..k : q[i] = RegistrationLines[i]
      BY <3>2, SubSeqLines
    <3>4. \A i \in 1..k : /\ i = 1 => q[i].cmd = LS
                          /\ i = 2 => q[i].cmd = NI
                          /\ i = 3 => q[i].cmd = US
                          /\ i = 4 => q[i].cmd = PA
      BY <1>1, <3>1, <3>2, <3>3
    <3>5. Begins(q, k, LS, NI, US, PA)
      BY <1>3, <3>2, <3>3, <3>4, SortedLines
    <3>6. /\ \A c : c # LS /\ c # NI /\ c # US /\ c # PA => ~Has(q, c)
          /\ k = 0 => ~Has(q, LS)
          /\ k # 0 => Has(q, LS)
          /\ k >= 2 => Has(q, NI)
          /\ k >= 3 => Has(q, US)
          /\ Once(q, LS) /\ Once(q, NI)
          /\ \A c : Behind(q, c, LS)
      BY <3>5 DEF Begins
    <3> QED BY <3>2, <3>6
  <2> QED BY <2>1, <2>2
<1>6. /\ ~Has(q, "CAP REQ") /\ ~Has(q, "AUTHENTICATE") /\ ~Has(q, "PAYLOAD")
      /\ ~Has(q, "CAP END") /\ ~Has(q, "QUIT")
  BY <1>5 DEF LS, PA, NI, US
<1> QED BY <1>5, <1>6 DEF LS, NI, US

LEMMA HandshakeParts ==
  ASSUME Parts(toServer, toClient, srv), Handshake, toServer \in Seq(ClientLines),
         sent' \in Seq(ClientLines),
         toServer' = toServer \o sent', UNCHANGED <<toClient, srv>>
  PROVE  Parts(toServer, toClient, srv)'
<1>1. pc = "handshake" /\ UNCHANGED <<cfg, nick, registered, caps, sasl, capEndSent, reason>>
  BY DEF Handshake, ident, nego
<1>2. PICK k \in 0..Len(RegistrationLines) :
        /\ sent' = SubSeq(RegistrationLines, 1, k)
        /\ k = Len(RegistrationLines) \/ WritesMayFail
        /\ pc' = IF k = Len(RegistrationLines) THEN "loop" ELSE "ended"
  BY DEF Handshake, Send
<1> DEFINE q == sent'
<1>3. /\ ~Has(q, "CAP REQ") /\ ~Has(q, "AUTHENTICATE") /\ ~Has(q, "PAYLOAD")
      /\ ~Has(q, "CAP END") /\ ~Has(q, "QUIT") /\ Once(q, "NICK") /\ Once(q, "CAP LS 302")
      /\ k = 0 => ~Has(q, "CAP LS 302")
      /\ k # 0 => Has(q, "CAP LS 302")
      /\ Behind(q, "USER", "CAP LS 302")
      /\ k = Len(RegistrationLines) => k # 0 /\ Has(q, "NICK") /\ Has(q, "USER")
  BY <1>2, HandshakeLines
<1>4. Early /\ ~Early'
  BY <1>1, <1>2 DEF Early
<1>5. toServer' = q /\ srv' = srv /\ toClient' = toClient
  <2>1. toServer = <<>>
    BY <1>4 DEF Parts, EarlyInv
  <2> QED BY <2>1
<1> HIDE DEF q
<1>6. /\ srv.nick = NoNick /\ ~srv.account /\ ~srv.gone /\ ~Has(toClient, "433")
      /\ NoCapDown(toClient) /\ NoSaslDown(toClient)
  BY <1>4 DEF Parts, EarlyInv, NoCapDown, NoSaslDown
<1>7. ~Has(toServer, "CAP LS 302") /\ ~Has(toServer, "CAP REQ")
  BY <1>4, HasNothing DEF Parts, EarlyInv
<1>8. Fresh /\ Fresh'
  <2>1. Fresh
    BY <1>4, <1>6, <1>7 DEF Parts, CapInv, CapNotBegun, CapListing, CapListed, CapRequested,
                            CapDenied, CapAnswered, NoCapDown, One
  <2> QED BY <1>1, <2>1 DEF Fresh
<1>9. SaslInv(toServer, toClient, srv)'
  <2>1. SaslIdle(toServer, toClient, srv)'
    BY <1>3, <1>5, <1>6, <1>8 DEF SaslIdle, NoSaslUp, NoSaslDown, Fresh
  <2> QED BY <1>1, <1>5, <2>1 DEF Parts, SaslInv
<1>10. CapInv(toServer, toClient, srv)'
  <2>1. CASE k # 0
    <3>1. CapListing(toServer, toClient)'
      BY <1>3, <1>5, <1>6, <1>8, <2>1 DEF CapListing, One, NoCapDown
    <3> QED BY <1>8, <3>1 DEF CapInv, Fresh
  <2>2. CASE k = 0
    <3>1. pc' # "loop"
      BY <1>2, <1>3, <2>2
    <3>2. Heads(toClient, "CAP ACK", "sasl")
      BY <1>6 DEF NoCapDown, Heads, Has
    <3>3. CapAnswered(toServer, toClient, srv)'
      BY <1>3, <1>4, <1>5, <1>6, <2>2, <3>1, <3>2 DEF CapAnswered, SaslAcked, NoCapUp, NoCapDown
    <3> QED BY <1>8, <3>3 DEF CapInv, Fresh
  <2> QED BY <2>1, <2>2
<1>11. ~registered /\ ~srv.welcomed /\ ~capEndSent
  BY <1>6, <1>8 DEF Parts, NickInv, Fresh
<1>12. GateInv(toServer, toClient, srv)'
  BY <1>1, <1>3, <1>5, <1>11 DEF Parts, GateInv
<1>13. NickInv(toServer, toClient, srv)' /\ TornInv(srv)'
  BY <1>1, <1>3, <1>5, <1>6, <1>11 DEF Parts, NickInv, TornInv
<1>14. ChainInv(toClient, srv)'
  BY <1>5, <1>11 DEF ChainInv
<1>15. OwedInv(toServer, toClient, srv)' \/ WritesMayFail
  BY <1>1, <1>2, <1>3, <1>5, <1>6, <1>11 DEF OwedInv, Underway, Settled
<1>16. EarlyInv(toServer, toClient, srv)'
  BY <1>4 DEF EarlyInv
<1> QED BY <1>9, <1>10, <1>12, <1>13, <1>14, <1>15, <1>16 DEF Parts

-----------------------------------------------------------------------------
(* A turn of the server: the line m leaves `up`, which leaves `rest`, and the *)
(* reply is appended to `down`, which gives `more`                            *)

Took(up, m, rest) ==
  /\ \A c : Has(up, c) <=> m.cmd = c \/ Has(rest, c)
  /\ \A c : Once(up, c) => Once(rest, c) /\ (m.cmd = c => ~Has(rest, c))
  /\ Lines(rest) \subseteq Lines(up) /\ m \in Lines(up)

Adds(down, reply, more) ==
  /\ \A c : Has(more, c) <=> Has(down, c) \/ Has(reply, c)
  /\ \A c : Once(down, c) /\ Once(reply, c) /\ (~Has(down, c) \/ ~Has(reply, c)) => Once(more, c)
  /\ Lines(more) \subseteq Lines(down) \cup Lines(reply)

LEMMA TookHead ==
  ASSUME NEW S, NEW up \in Seq(S), up # <<>>
  PROVE  Took(up, Head(up), Tail(up))
BY TailHas, TailLines DEF Took

LEMMA AddsReply ==
  ASSUME NEW S, NEW down \in Seq(S), NEW reply \in Seq(S)
  PROVE  Adds(down, reply, down \o reply)
BY ConcatHas, ConcatLines DEF Adds

LEMMA OnceNothing == \A q, c : ~Has(q, c) => Once(q, c)
BY DEF Has, Once

\* What is not among the kinds taken or added stays as it was.
LEMMA Keeps ==
  ASSUME NEW up, NEW m, NEW rest, Took(up, m, rest), NEW c, m.cmd # c
  PROVE  (Has(rest, c) <=> Has(up, c)) /\ (Once(up, c) => Once(rest, c))
BY DEF Took

LEMMA KeepsDown ==
  ASSUME NEW down, NEW reply, NEW more, Adds(down, reply, more), NEW c, ~Has(reply, c)
  PROVE  (Has(more, c) <=> Has(down, c)) /\ (Once(down, c) => Once(more, c))
BY OnceNothing DEF Adds

\* The exchange stays where it is, whoever else speaks.
LEMMA SaslFrame ==
  ASSUME NEW up, NEW down, NEW s, NEW rest, NEW more, NEW new,
         SaslInv(up, down, s),
         /\ Has(rest, "AUTHENTICATE") <=> Has(up, "AUTHENTICATE")
         /\ Once(up, "AUTHENTICATE") => Once(rest, "AUTHENTICATE")
         /\ Has(rest, "PAYLOAD") <=> Has(up, "PAYLOAD")
         /\ Once(up, "PAYLOAD") => Once(rest, "PAYLOAD"),
         /\ Has(more, "AUTH +") <=> Has(down, "AUTH +")
         /\ Has(more, "AUTH good") <=> Has(down, "AUTH good")
         /\ Has(more, "AUTH bad") <=> Has(down, "AUTH bad")
         /\ Has(more, "SASL OK") <=> Has(down, "SASL OK")
         /\ Has(more, "SASL FAILED") <=> Has(down, "SASL FAILED")
         /\ Once(down, "AUTH +") => Once(more, "AUTH +")
         /\ Once(down, "AUTH good") => Once(more, "AUTH good")
         /\ Once(down, "SASL FAILED") => Once(more, "SASL FAILED"),
         Lines(rest) \subseteq Lines(up),
         new.account = s.account, new.mech = s.mech, new.step = s.step
  PROVE  SaslInv(rest, more, new)
<1>1. NoSaslUp(up) <=> NoSaslUp(rest)
  BY DEF NoSaslUp
<1>2. NoSaslDown(down) <=> NoSaslDown(more)
  BY DEF NoSaslDown
<1>3. Pending(s) <=> Pending(new)
  BY DEF Pending
<1>4. SaslIdle(up, down, s) => SaslIdle(rest, more, new)
  BY <1>1, <1>2 DEF SaslIdle
<1>5. SaslAsked(up, down, s) => SaslAsked(rest, more, new)
  BY <1>2, <1>3 DEF SaslAsked, One
<1>6. SaslInvited(up, down, s) => SaslInvited(rest, more, new)
  BY <1>1, <1>3 DEF SaslInvited, One
<1>7. SaslOffered(up, down, s) => SaslOffered(rest, more, new)
  BY <1>2, <1>3 DEF SaslOffered, One
<1>8. SaslChallenged(up, down, s) => SaslChallenged(rest, more, new)
  BY <1>1, <1>3 DEF SaslChallenged, One
<1>9. SaslGranted(up, down, s) => SaslGranted(rest, more, new)
  BY <1>1 DEF SaslGranted
<1>10. SaslRefused(up, down, s) => SaslRefused(rest, more, new)
  BY <1>1, <1>3 DEF SaslRefused, One
<1>11. SaslOver(up, down) => SaslOver(rest, more)
  BY <1>1, <1>2 DEF SaslOver
<1>12. /\ ~Has(more, "AUTH bad")
       /\ sasl.active => cfg.sasl
       /\ \/ SaslIdle(up, down, s) \/ SaslAsked(up, down, s) \/ SaslInvited(up, down, s)
          \/ SaslOffered(up, down, s) \/ SaslChallenged(up, down, s)
          \/ SaslGranted(up, down, s) \/ SaslRefused(up, down, s) \/ SaslOver(up, down)
  BY DEF SaslInv
<1> QED BY <1>4, <1>5, <1>6, <1>7, <1>8, <1>9, <1>10, <1>11, <1>12 DEF SaslInv

LEMMA SaslStays ==
  ASSUME NEW up, NEW down, NEW s, NEW m, NEW rest, NEW reply, NEW more, NEW new,
         Took(up, m, rest), Adds(down, reply, more), SaslInv(up, down, s),
         m.cmd # "AUTHENTICATE", m.cmd # "PAYLOAD", \A c \in SaslDown : ~Has(reply, c),
         new.account = s.account, new.mech = s.mech, new.step = s.step
  PROVE  SaslInv(rest, more, new)
<1>1. /\ Has(rest, "AUTHENTICATE") <=> Has(up, "AUTHENTICATE")
      /\ Once(up, "AUTHENTICATE") => Once(rest, "AUTHENTICATE")
      /\ Has(rest, "PAYLOAD") <=> Has(up, "PAYLOAD")
      /\ Once(up, "PAYLOAD") => Once(rest, "PAYLOAD")
  BY Keeps
<1>2. \A c \in SaslDown : (Has(more, c) <=> Has(down, c)) /\ (Once(down, c) => Once(more, c))
  BY KeepsDown
<1>3. /\ Has(more, "AUTH +") <=> Has(down, "AUTH +")
      /\ Has(more, "AUTH good") <=> Has(down, "AUTH good")
      /\ Has(more, "AUTH bad") <=> Has(down, "AUTH bad")
      /\ Has(more, "SASL OK") <=> Has(down, "SASL OK")
      /\ Has(more, "SASL FAILED") <=> Has(down, "SASL FAILED")
      /\ Once(down, "AUTH +") => Once(more, "AUTH +")
      /\ Once(down, "AUTH good") => Once(more, "AUTH good")
      /\ Once(down, "SASL FAILED") => Once(more, "SASL FAILED")
  BY <1>2 DEF SaslDown
<1>4. Lines(rest) \subseteq Lines(up)
  BY DEF Took
<1> QED BY <1>1, <1>3, <1>4, SaslFrame

\* What a server may answer an AUTHENTICATE with.
LEMMA SaslInvites ==
  ASSUME NEW up, NEW down, NEW s, NEW m, NEW rest, NEW reply, NEW more, NEW new,
         Took(up, m, rest), Adds(down, reply, more), SaslInv(up, down, s),
         m.cmd = "AUTHENTICATE", reply = <<Line("AUTH +")>>,
         new.account = s.account, new.mech = m.mech, new.step = 0
  PROVE  SaslInv(rest, more, new)
<1>1. Has(up, "AUTHENTICATE") /\ m \in Lines(up)
  BY DEF Took
<1>2. SaslAsked(up, down, s)
  BY <1>1 DEF SaslInv, SaslIdle, SaslInvited, SaslOffered, SaslChallenged, SaslGranted,
              SaslRefused, SaslOver, NoSaslUp
<1>3. Once(up, "AUTHENTICATE") /\ ~Has(up, "PAYLOAD") /\ NoSaslDown(down)
      /\ m.mech = sasl.mech /\ Pending(s)
  BY <1>1, <1>2 DEF SaslAsked, One
<1>4. ~Has(rest, "AUTHENTICATE") /\ ~Has(rest, "PAYLOAD")
  BY <1>3 DEF Took
<1>5. Line("AUTH +").cmd = "AUTH +"
  BY LineCmd
<1>6. \A c : (Has(reply, c) <=> c = "AUTH +") /\ Once(reply, c)
  BY <1>5, HasLine
<1>7. Has(reply, "AUTH +") /\ Once(reply, "AUTH +") /\ ~Has(reply, "AUTH good")
      /\ ~Has(reply, "AUTH bad") /\ ~Has(reply, "SASL OK") /\ ~Has(reply, "SASL FAILED")
  BY <1>6
<1>8. ~Has(down, "AUTH +") /\ ~Has(down, "AUTH good") /\ ~Has(down, "AUTH bad")
      /\ ~Has(down, "SASL OK") /\ ~Has(down, "SASL FAILED")
  BY <1>3 DEF NoSaslDown, SaslInv
<1>9. One(more, "AUTH +") /\ ~Has(more, "AUTH good") /\ ~Has(more, "AUTH bad")
      /\ ~Has(more, "SASL OK") /\ ~Has(more, "SASL FAILED")
  BY <1>7, <1>8, OnceNothing DEF Adds, One
<1>10. Pending(new)
  BY <1>3 DEF Pending
<1>11. SaslInvited(rest, more, new)
  BY <1>3, <1>4, <1>9, <1>10 DEF SaslInvited, NoSaslUp
<1> QED BY <1>9, <1>11 DEF SaslInv

\* What the exchange knows when a payload arrives.
LEMMA PayloadArrives ==
  ASSUME NEW up, NEW down, NEW s, NEW m, NEW rest,
         Took(up, m, rest), SaslInv(up, down, s), m.cmd = "PAYLOAD"
  PROVE  /\ ~Has(rest, "AUTHENTICATE") /\ ~Has(rest, "PAYLOAD")
         /\ ~Has(down, "AUTH +") /\ ~Has(down, "AUTH good") /\ ~Has(down, "AUTH bad")
         /\ ~Has(down, "SASL OK") /\ ~Has(down, "SASL FAILED")
         /\ Pending(s) /\ s.mech = sasl.mech
         /\ sasl.mech = "scram" => sasl.step = IF s.step = 0 THEN "await first" ELSE "await final"
         /\ sasl.active /\ cfg.sasl
<1>1. Has(up, "PAYLOAD")
  BY DEF Took
<1>2. SaslOffered(up, down, s) /\ ~Has(down, "AUTH bad") /\ (sasl.active => cfg.sasl)
  BY <1>1 DEF SaslInv, SaslIdle, SaslInvited, SaslAsked, SaslChallenged, SaslGranted,
              SaslRefused, SaslOver, NoSaslUp
<1>3. Once(up, "PAYLOAD") /\ ~Has(up, "AUTHENTICATE") /\ NoSaslDown(down) /\ Pending(s)
  BY <1>2 DEF SaslOffered, One
<1>4. ~Has(rest, "AUTHENTICATE") /\ ~Has(rest, "PAYLOAD")
  BY <1>3 DEF Took
<1> QED BY <1>2, <1>3, <1>4 DEF SaslOffered, NoSaslDown, Pending

LEMMA SaslChallenges ==
  ASSUME NEW up, NEW down, NEW s, NEW m, NEW rest, NEW reply, NEW more, NEW new,
         Took(up, m, rest), Adds(down, reply, more), SaslInv(up, down, s),
         m.cmd = "PAYLOAD", s.mech = "scram", s.step = 0, reply = <<Line("AUTH good")>>,
         new.account = s.account, new.mech = s.mech, new.step = 1
  PROVE  SaslInv(rest, more, new)
<1>1. /\ ~Has(rest, "AUTHENTICATE") /\ ~Has(rest, "PAYLOAD")
      /\ ~Has(down, "AUTH +") /\ ~Has(down, "AUTH good") /\ ~Has(down, "AUTH bad")
      /\ ~Has(down, "SASL OK") /\ ~Has(down, "SASL FAILED")
      /\ Pending(s) /\ s.mech = sasl.mech
      /\ sasl.mech = "scram" => sasl.step = IF s.step = 0 THEN "await first" ELSE "await final"
      /\ sasl.active /\ cfg.sasl
  BY PayloadArrives
<1>2. Line("AUTH good").cmd = "AUTH good"
  BY LineCmd
<1>3. \A c : (Has(reply, c) <=> c = "AUTH good") /\ Once(reply, c)
  BY <1>2, HasLine
<1>4. Has(reply, "AUTH good") /\ Once(reply, "AUTH good") /\ ~Has(reply, "AUTH +")
      /\ ~Has(reply, "AUTH bad") /\ ~Has(reply, "SASL OK") /\ ~Has(reply, "SASL FAILED")
  BY <1>3
<1>5. One(more, "AUTH good") /\ ~Has(more, "AUTH +") /\ ~Has(more, "AUTH bad")
      /\ ~Has(more, "SASL OK") /\ ~Has(more, "SASL FAILED")
  BY <1>1, <1>4, OnceNothing DEF Adds, One
<1>6. Pending(new)
  BY <1>1 DEF Pending
<1>7. SaslChallenged(rest, more, new)
  BY <1>1, <1>5, <1>6 DEF SaslChallenged, NoSaslUp
<1> QED BY <1>1, <1>5, <1>7 DEF SaslInv

LEMMA StepsDiffer == 1 # 0
OBVIOUS

LEMMA SaslGrants ==
  ASSUME NEW up, NEW down, NEW s, NEW m, NEW rest, NEW reply, NEW more, NEW new,
         Took(up, m, rest), Adds(down, reply, more), SaslInv(up, down, s),
         m.cmd = "PAYLOAD", s.mech = "scram" => s.step = 1,
         ~Has(reply, "AUTH +"), ~Has(reply, "AUTH bad"), ~Has(reply, "SASL FAILED"),
         Has(reply, "SASL OK"), Once(reply, "AUTH good"),
         Has(reply, "AUTH good") => s.mech = "scram", new.account
  PROVE  SaslInv(rest, more, new)
<1>1. /\ ~Has(rest, "AUTHENTICATE") /\ ~Has(rest, "PAYLOAD")
      /\ ~Has(down, "AUTH +") /\ ~Has(down, "AUTH good") /\ ~Has(down, "AUTH bad")
      /\ ~Has(down, "SASL OK") /\ ~Has(down, "SASL FAILED")
      /\ Pending(s) /\ s.mech = sasl.mech
      /\ sasl.mech = "scram" => sasl.step = IF s.step = 0 THEN "await first" ELSE "await final"
      /\ sasl.active /\ cfg.sasl
  BY PayloadArrives
<1>2. /\ ~Has(more, "AUTH +") /\ ~Has(more, "AUTH bad") /\ ~Has(more, "SASL FAILED")
      /\ Has(more, "SASL OK") /\ Once(more, "AUTH good")
      /\ Has(more, "AUTH good") => Has(reply, "AUTH good")
  BY <1>1, OnceNothing DEF Adds
<1>3. sasl.mech # "none"
  BY <1>1 DEF Pending
<1>4. Has(more, "AUTH good") => sasl.mech = "scram" /\ sasl.step = "await final"
  BY <1>1, <1>2, StepsDiffer
<1>5. SaslGranted(rest, more, new)
  BY <1>1, <1>2, <1>3, <1>4 DEF SaslGranted, NoSaslUp
<1> QED BY <1>1, <1>2, <1>5 DEF SaslInv

LEMMA SaslRefuses ==
  ASSUME NEW up, NEW down, NEW s, NEW m, NEW rest, NEW reply, NEW more, NEW new,
         Took(up, m, rest), Adds(down, reply, more), SaslInv(up, down, s),
         m.cmd = "PAYLOAD", reply = <<Line("SASL FAILED")>>, new.account = s.account
  PROVE  SaslInv(rest, more, new)
<1>1. /\ ~Has(rest, "AUTHENTICATE") /\ ~Has(rest, "PAYLOAD")
      /\ ~Has(down, "AUTH +") /\ ~Has(down, "AUTH good") /\ ~Has(down, "AUTH bad")
      /\ ~Has(down, "SASL OK") /\ ~Has(down, "SASL FAILED")
      /\ Pending(s) /\ sasl.active /\ cfg.sasl
  BY PayloadArrives
<1>2. Line("SASL FAILED").cmd = "SASL FAILED"
  BY LineCmd
<1>3. \A c : (Has(reply, c) <=> c = "SASL FAILED") /\ Once(reply, c)
  BY <1>2, HasLine
<1>4. Has(reply, "SASL FAILED") /\ Once(reply, "SASL FAILED") /\ ~Has(reply, "AUTH +")
      /\ ~Has(reply, "AUTH good") /\ ~Has(reply, "AUTH bad") /\ ~Has(reply, "SASL OK")
  BY <1>3
<1>5. One(more, "SASL FAILED") /\ ~Has(more, "AUTH +") /\ ~Has(more, "AUTH good")
      /\ ~Has(more, "AUTH bad") /\ ~Has(more, "SASL OK")
  BY <1>1, <1>4, OnceNothing DEF Adds, One
<1>6. Pending(new)
  BY <1>1 DEF Pending
<1>7. SaslRefused(rest, more, new)
  BY <1>1, <1>5, <1>6 DEF SaslRefused, NoSaslUp
<1> QED BY <1>1, <1>5, <1>7 DEF SaslInv

\* The capabilities, when m is not about them.
LEMMA CapFrame ==
  ASSUME NEW up, NEW down, NEW s, NEW rest, NEW more, NEW new,
         CapInv(up, down, s),
         /\ Has(rest, "CAP LS 302") <=> Has(up, "CAP LS 302")
         /\ Once(up, "CAP LS 302") => Once(rest, "CAP LS 302")
         /\ Has(rest, "CAP REQ") <=> Has(up, "CAP REQ")
         /\ Once(up, "CAP REQ") => Once(rest, "CAP REQ"),
         /\ Has(more, "CAP LS") <=> Has(down, "CAP LS")
         /\ Once(down, "CAP LS") => Once(more, "CAP LS")
         /\ Has(more, "CAP NAK") <=> Has(down, "CAP NAK")
         /\ Once(down, "CAP NAK") => Once(more, "CAP NAK")
         /\ Has(more, "CAP ACK") <=> Has(down, "CAP ACK")
         /\ Heads(down, "CAP ACK", "sasl") => Heads(more, "CAP ACK", "sasl"),
         \A n \in Lines(rest) : n.cmd = "CAP REQ" => n \in Lines(up),
         \A n \in Lines(more) : n.cmd = "CAP NAK" => n \in Lines(down),
         s.account => new.account, s.late => new.late
  PROVE  CapInv(rest, more, new)
<1>1. NoCapUp(up) <=> NoCapUp(rest)
  BY DEF NoCapUp
<1>2. NoCapDown(down) <=> NoCapDown(more)
  BY DEF NoCapDown
<1>3. CapNotBegun(up, down) => CapNotBegun(rest, more)
  BY <1>1, <1>2 DEF CapNotBegun
<1>4. CapListing(up, down) => CapListing(rest, more)
  BY <1>2 DEF CapListing, One
<1>5. CapListed(up, down) => CapListed(rest, more)
  BY <1>1 DEF CapListed, One
<1>6. CapRequested(up, down) => CapRequested(rest, more)
  BY <1>2 DEF CapRequested, One
<1>7. CapDenied(up, down) => CapDenied(rest, more)
  BY <1>1 DEF CapDenied, One
<1>8. SaslAcked(down, s) => SaslAcked(more, new)
  BY DEF SaslAcked
<1>9. CapAnswered(up, down, s) => CapAnswered(rest, more, new)
  BY <1>1, <1>8 DEF CapAnswered
<1>10. /\ capEndSent /\ cfg.sasl => s.account \/ s.late
       /\ \/ CapNotBegun(up, down) \/ CapListing(up, down) \/ CapListed(up, down)
          \/ CapRequested(up, down) \/ CapDenied(up, down) \/ CapAnswered(up, down, s)
  BY DEF CapInv
<1> QED BY <1>3, <1>4, <1>5, <1>6, <1>7, <1>9, <1>10 DEF CapInv

LEMMA CapStays ==
  ASSUME NEW up, NEW down, NEW s, NEW m, NEW rest, NEW S, NEW reply \in Seq(S), NEW new,
         Took(up, m, rest), down \in Seq(S), CapInv(up, down, s),
         m.cmd # "CAP LS 302", m.cmd # "CAP REQ",
         ~Has(reply, "CAP LS"), ~Has(reply, "CAP ACK"), ~Has(reply, "CAP NAK"),
         s.account => new.account, s.late => new.late
  PROVE  CapInv(rest, down \o reply, new)
<1> DEFINE more == down \o reply
<1>0. Adds(down, reply, more) /\ (Heads(down, "CAP ACK", "sasl") => Heads(more, "CAP ACK", "sasl"))
  BY AddsReply, HeadsConcat
<1> HIDE DEF more
<1>1. /\ Has(rest, "CAP LS 302") <=> Has(up, "CAP LS 302")
      /\ Once(up, "CAP LS 302") => Once(rest, "CAP LS 302")
      /\ Has(rest, "CAP REQ") <=> Has(up, "CAP REQ")
      /\ Once(up, "CAP REQ") => Once(rest, "CAP REQ")
  BY Keeps
<1>2. /\ Has(more, "CAP LS") <=> Has(down, "CAP LS")
      /\ Once(down, "CAP LS") => Once(more, "CAP LS")
      /\ Has(more, "CAP NAK") <=> Has(down, "CAP NAK")
      /\ Once(down, "CAP NAK") => Once(more, "CAP NAK")
      /\ Has(more, "CAP ACK") <=> Has(down, "CAP ACK")
  BY <1>0, KeepsDown
<1>3. \A n \in Lines(rest) : n.cmd = "CAP REQ" => n \in Lines(up)
  BY DEF Took
<1>4. \A n \in Lines(more) : n.cmd = "CAP NAK" => n \in Lines(down)
  BY <1>0, HasMember DEF Adds
<1> QED BY <1>0, <1>1, <1>2, <1>3, <1>4, CapFrame DEF more

\* CAP LS, in one line or in two.
LEMMA CapLists302 ==
  ASSUME NEW up, NEW down, NEW s, NEW m, NEW rest, NEW reply, NEW more, NEW new,
         Took(up, m, rest), Adds(down, reply, more), CapInv(up, down, s),
         m.cmd = "CAP LS 302", up # <<>>,
         One(reply, "CAP LS"), ~Has(reply, "CAP ACK"), ~Has(reply, "CAP NAK")
  PROVE  CapInv(rest, more, new) /\ ~capEndSent
<1>1. Has(up, "CAP LS 302")
  BY DEF Took
<1>2. CapListing(up, down)
  BY <1>1 DEF CapInv, CapNotBegun, CapListed, CapRequested, CapDenied, CapAnswered, NoCapUp
<1>3. Once(up, "CAP LS 302") /\ ~Has(up, "CAP REQ") /\ NoCapDown(down) /\ Fresh
  BY <1>2 DEF CapListing, One
<1>4. ~Has(rest, "CAP LS 302") /\ ~Has(rest, "CAP REQ")
  BY <1>3 DEF Took
<1>5. ~Has(down, "CAP LS") /\ ~Has(down, "CAP ACK") /\ ~Has(down, "CAP NAK")
  BY <1>3 DEF NoCapDown
<1>6. One(more, "CAP LS") /\ ~Has(more, "CAP ACK") /\ ~Has(more, "CAP NAK")
  BY <1>5, OnceNothing DEF Adds, One
<1>7. CapListed(rest, more) /\ ~capEndSent
  BY <1>3, <1>4, <1>6 DEF CapListed, NoCapUp, Fresh
<1> QED BY <1>7 DEF CapInv

\* What the negotiation knows when a request arrives.
LEMMA CapRequest ==
  ASSUME NEW up, NEW down, NEW s, NEW m, NEW rest,
         Took(up, m, rest), CapInv(up, down, s), m.cmd = "CAP REQ"
  PROVE  /\ ~Has(rest, "CAP LS 302") /\ ~Has(rest, "CAP REQ")
         /\ ~Has(down, "CAP LS") /\ ~Has(down, "CAP ACK") /\ ~Has(down, "CAP NAK")
         /\ cfg.sasl => "sasl" \in m.caps
         /\ Fresh /\ ~capEndSent
<1>1. Has(up, "CAP REQ") /\ m \in Lines(up)
  BY DEF Took
<1>2. CapRequested(up, down)
  BY <1>1 DEF CapInv, CapNotBegun, CapListing, CapListed, CapDenied, CapAnswered, NoCapUp
<1>3. Once(up, "CAP REQ") /\ ~Has(up, "CAP LS 302") /\ NoCapDown(down) /\ Fresh
  BY <1>2 DEF CapRequested, One
<1>4. ~Has(rest, "CAP LS 302") /\ ~Has(rest, "CAP REQ")
  BY <1>3 DEF Took
<1>5. cfg.sasl => "sasl" \in m.caps
  BY <1>1, <1>2 DEF CapRequested
<1> QED BY <1>3, <1>4, <1>5 DEF NoCapDown, Fresh

LEMMA CapDenies ==
  ASSUME NEW up, NEW down, NEW s, NEW m, NEW rest, NEW l, NEW more, NEW new,
         Took(up, m, rest), Adds(down, <<l>>, more), CapInv(up, down, s),
         m.cmd = "CAP REQ", l.cmd = "CAP NAK", l.caps = m.caps
  PROVE  CapInv(rest, more, new)
<1>1. /\ ~Has(rest, "CAP LS 302") /\ ~Has(rest, "CAP REQ")
      /\ ~Has(down, "CAP LS") /\ ~Has(down, "CAP ACK") /\ ~Has(down, "CAP NAK")
      /\ cfg.sasl => "sasl" \in m.caps
      /\ Fresh /\ ~capEndSent
  BY CapRequest
<1>2. \A c : (Has(<<l>>, c) <=> c = "CAP NAK") /\ Once(<<l>>, c)
  BY HasLine
<1>3. Has(<<l>>, "CAP NAK") /\ Once(<<l>>, "CAP NAK")
      /\ ~Has(<<l>>, "CAP LS") /\ ~Has(<<l>>, "CAP ACK")
  BY <1>2
<1>4. One(more, "CAP NAK") /\ ~Has(more, "CAP LS") /\ ~Has(more, "CAP ACK")
  BY <1>1, <1>3, OnceNothing DEF Adds, One
<1>5. ASSUME NEW n \in Lines(more), n.cmd = "CAP NAK" PROVE n = l
  <2>1. n \notin Lines(down)
    BY <1>1, <1>5, HasMember
  <2> QED BY <2>1, LineOf DEF Adds
<1>6. CapDenied(rest, more)
  BY <1>1, <1>4, <1>5 DEF CapDenied, NoCapUp
<1> QED BY <1>1, <1>6 DEF CapInv

\* What comes first of its kind heads the queue.
LEMMA HeadsFirst ==
  ASSUME NEW S, NEW q \in Seq(S), NEW r \in Seq(S), r # <<>>, NEW c, NEW x,
         ~Has(q, c), Head(r).cmd = c
  PROVE  /\ Has(q \o r, c) /\ Has(r, c)
         /\ x \in Head(r).caps => Heads(q \o r, c, x)
<1>1. /\ Len(q) \in Nat /\ Len(r) \in Nat \ {0} /\ r[1] = Head(r)
  BY HeadTailProperties, EmptySeq
<1>2. /\ Len(q \o r) = Len(q) + Len(r)
      /\ \A i \in 1..Len(q) : (q \o r)[i] = q[i]
      /\ \A i \in 1..Len(r) : (q \o r)[Len(q) + i] = r[i]
  BY ConcatProperties
<1>3. Len(q) + 1 \in 1..Len(q \o r) /\ (q \o r)[Len(q) + 1] = Head(r)
  BY <1>1, <1>2
<1>4. ASSUME x \in Head(r).caps, NEW k \in 1..Len(q \o r), (q \o r)[k].cmd = c
      PROVE  \E j \in 1..k : (q \o r)[j].cmd = c /\ x \in (q \o r)[j].caps
  <2>1. k \notin 1..Len(q)
    BY <1>2, <1>4 DEF Has
  <2>2. Len(q) + 1 \in 1..k
    BY <1>1, <1>2, <1>4, <2>1
  <2> QED BY <1>3, <1>4, <2>2
<1> QED BY <1>1, <1>3, <1>4, SMTT(30) DEF Has, Heads

\* The acknowledgements a request may be answered with, the first one foremost.
LEMMA CapAcks ==
  ASSUME NEW up, NEW down, NEW s, NEW m, NEW rest, NEW reply, NEW S, NEW new,
         Took(up, m, rest), down \in Seq(S), reply \in Seq(S), CapInv(up, down, s),
         m.cmd = "CAP REQ", ~Early, reply # <<>>,
         Head(reply).cmd = "CAP ACK", ~Has(reply, "CAP LS"), ~Has(reply, "CAP NAK"),
         new.late <=> s.late \/ ("sasl" \in m.caps \ Head(reply).caps)
  PROVE  CapInv(rest, down \o reply, new)
<1> DEFINE more == down \o reply
<1>0. Adds(down, reply, more)
  BY AddsReply
<1>1. /\ ~Has(rest, "CAP LS 302") /\ ~Has(rest, "CAP REQ")
      /\ ~Has(down, "CAP LS") /\ ~Has(down, "CAP ACK") /\ ~Has(down, "CAP NAK")
      /\ cfg.sasl => "sasl" \in m.caps
      /\ Fresh /\ ~capEndSent
  BY CapRequest
<1>3. Has(more, "CAP ACK") /\ ("sasl" \in Head(reply).caps => Heads(more, "CAP ACK", "sasl"))
  BY <1>1, HeadsFirst
<1> HIDE DEF more
<1>7. SaslAcked(more, new)
  BY <1>1, <1>3 DEF SaslAcked
<1>8. ~Has(more, "CAP LS") /\ ~Has(more, "CAP NAK")
  BY <1>0, <1>1 DEF Adds
<1>9. CapAnswered(rest, more, new)
  BY <1>1, <1>3, <1>7, <1>8 DEF CapAnswered, NoCapUp
<1> QED BY <1>1, <1>9 DEF CapInv, more

\* Where the negotiation stands, when a line changes USER or closes or opens it.
LEMMA GateStays ==
  ASSUME NEW up, NEW down, NEW s, NEW S, up \in Seq(S), up # <<>>, NEW reply, NEW more, NEW new,
         Adds(down, reply, more), GateInv(up, down, s), ~Has(reply, "001"),
         Head(up).cmd = "CAP LS 302" => new.open,
         s.open => new.open \/ Head(up).cmd = "CAP END",
         new.user => s.user \/ Head(up).cmd = "USER",
         new.welcomed <=> s.welcomed
  PROVE  GateInv(Tail(up), more, new)
<1>1. Took(up, Head(up), Tail(up))
  BY TookHead
<1>2. Has(Tail(up), "CAP END") => capEndSent
  BY <1>1 DEF Took, GateInv
<1>3. Head(up).cmd = "CAP END" => capEndSent
  BY <1>1 DEF Took, GateInv
<1>4. new.open \/ capEndSent \/ (~s.open /\ Head(up).cmd # "CAP LS 302")
  BY <1>3
<1>5. ~s.open /\ ~capEndSent => Behind(up, "USER", "CAP LS 302")
  BY DEF GateInv
<1>6. ~s.open /\ ~capEndSent /\ Head(up).cmd # "CAP LS 302" =>
        Behind(Tail(up), "USER", "CAP LS 302") /\ Head(up).cmd # "USER"
  BY <1>5, BehindTail
<1>7. new.open \/ capEndSent \/ Behind(Tail(up), "USER", "CAP LS 302")
  BY <1>4, <1>6
<1>8. new.user => new.open \/ capEndSent
  BY <1>4, <1>6 DEF GateInv
<1>9. Has(more, "001") <=> Has(down, "001")
  BY KeepsDown
<1>10. new.welcomed => capEndSent
  BY DEF GateInv
<1>11. Has(more, "001") \/ registered => new.welcomed
  BY <1>9 DEF GateInv
<1> QED BY <1>2, <1>7, <1>8, <1>10, <1>11 DEF GateInv

\* A line that is no NICK.
LEMMA NickStays ==
  ASSUME NEW up, NEW down, NEW s, NEW m, NEW rest, NEW reply, NEW more, NEW new,
         Took(up, m, rest), Adds(down, reply, more), NickInv(up, down, s), m.cmd # "NICK",
         ~Has(reply, "433"), ~Has(reply, "001"), ~Has(reply, "NICK"),
         new.nick = s.nick, new.welcomed <=> s.welcomed
  PROVE  NickInv(rest, more, new)
<1>1. /\ Has(rest, "NICK") <=> Has(up, "NICK")
      /\ Once(up, "NICK") => Once(rest, "NICK")
  BY Keeps
<1>2. /\ Has(more, "433") <=> Has(down, "433")
      /\ Once(down, "433") => Once(more, "433")
      /\ Has(more, "001") <=> Has(down, "001")
      /\ Has(more, "NICK") <=> Has(down, "NICK")
  BY KeepsDown
<1> QED BY <1>1, <1>2 DEF NickInv

\* A proposal is taken, or it is refused; there is no other.
LEMMA NickAnswers ==
  ASSUME NEW up, NEW down, NEW s, NEW m, NEW rest, NEW reply, NEW more, NEW new,
         Took(up, m, rest), Adds(down, reply, more), NickInv(up, down, s), m.cmd = "NICK",
         ~Has(reply, "001"), ~Has(reply, "NICK"), Once(reply, "433"),
         new.nick # NoNick => ~Has(reply, "433"),
         new.welcomed <=> s.welcomed
  PROVE  NickInv(rest, more, new) /\ ~s.welcomed /\ ~registered
<1>1. Has(up, "NICK") /\ s.nick = NoNick /\ ~s.welcomed /\ ~Has(down, "433")
      /\ ~registered /\ ~Has(down, "001") /\ ~Has(down, "NICK")
  BY DEF Took, NickInv
<1>2. ~Has(rest, "NICK") /\ Once(rest, "NICK")
  BY <1>1 DEF Took, NickInv
<1>3. /\ Has(more, "433") <=> Has(reply, "433")
      /\ ~Has(more, "001") /\ ~Has(more, "NICK") /\ Once(more, "433")
  BY <1>1, OnceNothing DEF Adds
<1> QED BY <1>1, <1>2, <1>3 DEF NickInv

\* What carries no name leaves the chain where it ends.
LEMMA ChainStays ==
  ASSUME NEW down, NEW s, NEW S, down \in Seq(S), NEW reply \in Seq(S), NEW new,
         ChainInv(down, s), ~Has(reply, "001"), ~Has(reply, "NICK"),
         s.nick \in Nicks \cup {NoNick}, s.welcomed => s.nick # NoNick,
         s.welcomed => new.nick = s.nick, new.welcomed <=> s.welcomed
  PROVE  ChainInv(down \o reply, new)
<1> SUFFICES ASSUME new.welcomed, pc = "loop"
             PROVE  \E f \in [0..Len(down \o reply) -> Nicks] :
                      Leads(f, down \o reply, nick, new.nick)
  BY DEF ChainInv
<1>1. PICK f \in [0..Len(down) -> Nicks] : Leads(f, down, nick, s.nick)
  BY DEF ChainInv
<1>2. /\ Len(down) \in Nat /\ Len(reply) \in Nat
      /\ Len(down \o reply) = Len(down) + Len(reply)
      /\ \A i \in 1..Len(down) : (down \o reply)[i] = down[i]
      /\ \A i \in 1..Len(down) + Len(reply) : i > Len(down) =>
           i - Len(down) \in 1..Len(reply) /\ (down \o reply)[i] = reply[i - Len(down)]
  BY ConcatProperties
<1> DEFINE more == down \o reply
           g == [k \in 0..Len(down) + Len(reply) |-> IF k <= Len(down) THEN f[k] ELSE s.nick]
<1>3. /\ f[0] = nick /\ f[Len(down)] = s.nick
      /\ \A k \in 1..Len(down) : f[k] = Called(down[k], f[k - 1])
  BY <1>1 DEF Leads
<1>4. s.nick \in Nicks /\ new.nick = s.nick
  OBVIOUS
<1>5. g \in [0..Len(down) + Len(reply) -> Nicks]
  BY <1>2, <1>4
<1>6. /\ \A k \in 0..Len(down) : g[k] = f[k]
      /\ \A k \in Len(down)..Len(down) + Len(reply) : g[k] = s.nick
  BY <1>2, <1>3
<1> HIDE DEF g
<1>7. ASSUME NEW k \in 1..Len(down) PROVE g[k] = Called(more[k], g[k - 1])
  <2>1. k \in 0..Len(down) /\ k - 1 \in 0..Len(down)
    BY <1>2
  <2> QED BY <1>2, <1>3, <1>6, <2>1
<1>8. ASSUME NEW k \in 1..Len(down) + Len(reply), k > Len(down)
      PROVE  g[k] = Called(more[k], g[k - 1])
  <2>1. k \in Len(down)..Len(down) + Len(reply) /\ k - 1 \in Len(down)..Len(down) + Len(reply)
    BY <1>2, <1>8
  <2>2. g[k] = s.nick /\ g[k - 1] = s.nick
    BY <1>6, <2>1
  <2>3. more[k].cmd # "001" /\ more[k].cmd # "NICK"
    BY <1>2, <1>8 DEF Has
  <2> QED BY <2>2, <2>3 DEF Called
<1>9. \A k \in 1..Len(down) + Len(reply) : k \in 1..Len(down) \/ k > Len(down)
  BY <1>2
<1>10. g[0] = nick /\ g[Len(down) + Len(reply)] = s.nick
  <2>1. 0 \in 0..Len(down)
        /\ Len(down) + Len(reply) \in Len(down)..Len(down) + Len(reply)
    BY <1>2
  <2> QED BY <1>3, <1>6, <2>1
<1>11. Leads(g, more, nick, new.nick)
  BY <1>2, <1>4, <1>7, <1>8, <1>9, <1>10 DEF Leads
<1> QED BY <1>2, <1>5, <1>11

\* One more name under way.
LEMMA ChainGrows ==
  ASSUME NEW down, NEW s, NEW S, down \in Seq(S), NEW m \in S, NEW new,
         ChainInv(down, s), s.welcomed, new.nick = Called(m, s.nick), new.nick \in Nicks
  PROVE  ChainInv(down \o <<m>>, new)
<1> SUFFICES ASSUME pc = "loop"
             PROVE  \E f \in [0..Len(down \o <<m>>) -> Nicks] :
                      Leads(f, down \o <<m>>, nick, new.nick)
  BY DEF ChainInv
<1>1. PICK f \in [0..Len(down) -> Nicks] : Leads(f, down, nick, s.nick)
  BY DEF ChainInv
<1> DEFINE more == down \o <<m>>
           g == [k \in 0..Len(down) + 1 |-> IF k <= Len(down) THEN f[k] ELSE new.nick]
<1>2. /\ Len(down) \in Nat /\ Len(more) = Len(down) + 1
      /\ \A i \in 1..Len(down) : more[i] = down[i]
      /\ more[Len(down) + 1] = m
  BY ConcatProperties
<1>3. /\ f[0] = nick /\ f[Len(down)] = s.nick
      /\ \A k \in 1..Len(down) : f[k] = Called(down[k], f[k - 1])
  BY <1>1 DEF Leads
<1>5. g \in [0..Len(down) + 1 -> Nicks]
  BY <1>2
<1>6. /\ \A k \in 0..Len(down) : g[k] = f[k]
      /\ g[Len(down) + 1] = new.nick
  BY <1>2
<1> HIDE DEF g, more
<1>7. ASSUME NEW k \in 1..Len(down) PROVE g[k] = Called(more[k], g[k - 1])
  <2>1. k \in 0..Len(down) /\ k - 1 \in 0..Len(down)
    BY <1>2
  <2> QED BY <1>2, <1>3, <1>6, <2>1
<1>8. g[Len(down) + 1] = Called(more[Len(down) + 1], g[Len(down) + 1 - 1])
  <2>1. Len(down) + 1 - 1 = Len(down) /\ Len(down) \in 0..Len(down)
    BY <1>2
  <2> QED BY <1>2, <1>3, <1>6, <2>1
<1>9. \A k \in 1..Len(down) + 1 : k \in 1..Len(down) \/ k = Len(down) + 1
  BY <1>2
<1>10. g[0] = nick
  BY <1>2, <1>3, <1>6
<1>11. Leads(g, more, nick, new.nick)
  BY <1>2, <1>6, <1>7, <1>8, <1>9, <1>10 DEF Leads
<1> QED BY <1>2, <1>5, <1>11 DEF more

\* The welcome: no name was under way before it.
LEMMA ChainBegins ==
  ASSUME NEW down, NEW S, down \in Seq(S), NEW m \in S, NEW new,
         ~Has(down, "001"), ~Has(down, "NICK"), nick \in Nicks, m.cmd = "001",
         m.nick \in Nicks, new.nick = m.nick
  PROVE  ChainInv(down \o <<m>>, new)
<1> DEFINE more == down \o <<m>>
           g == [k \in 0..Len(down) + 1 |-> IF k <= Len(down) THEN nick ELSE new.nick]
<1>2. /\ Len(down) \in Nat /\ Len(more) = Len(down) + 1
      /\ \A i \in 1..Len(down) : more[i] = down[i]
      /\ more[Len(down) + 1] = m
  BY ConcatProperties
<1>5. g \in [0..Len(down) + 1 -> Nicks]
  BY <1>2
<1>6. /\ \A k \in 0..Len(down) : g[k] = nick
      /\ g[Len(down) + 1] = new.nick
  BY <1>2
<1> HIDE DEF g, more
<1>7. ASSUME NEW k \in 1..Len(down) PROVE g[k] = Called(more[k], g[k - 1])
  <2>1. k \in 0..Len(down) /\ k - 1 \in 0..Len(down)
    BY <1>2
  <2>2. more[k].cmd # "001" /\ more[k].cmd # "NICK"
    BY <1>2 DEF Has
  <2> QED BY <1>6, <2>1, <2>2 DEF Called
<1>8. g[Len(down) + 1] = Called(more[Len(down) + 1], g[Len(down) + 1 - 1])
  BY <1>2, <1>6 DEF Called
<1>9. \A k \in 1..Len(down) + 1 : k \in 1..Len(down) \/ k = Len(down) + 1
  BY <1>2
<1>10. g[0] = nick
  BY <1>2, <1>6
<1>11. Leads(g, more, nick, new.nick)
  BY <1>2, <1>6, <1>7, <1>8, <1>9, <1>10 DEF Leads
<1> QED BY <1>2, <1>5, <1>11 DEF more, ChainInv

\* What the registration needs is under way, has arrived, or was answered.
LEMMA UnderwayStays ==
  ASSUME NEW up, NEW down, NEW s, NEW m, NEW rest, NEW reply, NEW more, NEW new,
         Took(up, m, rest), Adds(down, reply, more), Underway(up, down, s),
         m.cmd = "NICK" => new.nick # NoNick \/ Has(reply, "433"),
         s.nick # NoNick => new.nick # NoNick,
         m.cmd = "USER" \/ s.user => new.user,
         m.cmd = "CAP END" => ~new.open,
         new.open => s.open \/ ~capEndSent,
         new.welcomed <=> s.welcomed,
         new.gone => s.gone \/ m.cmd = "QUIT"
  PROVE  Underway(rest, more, new)
<1>1. /\ Has(up, "QUIT") <=> m.cmd = "QUIT" \/ Has(rest, "QUIT")
      /\ Has(up, "NICK") <=> m.cmd = "NICK" \/ Has(rest, "NICK")
      /\ Has(up, "USER") <=> m.cmd = "USER" \/ Has(rest, "USER")
      /\ Has(up, "CAP END") <=> m.cmd = "CAP END" \/ Has(rest, "CAP END")
  BY DEF Took
<1>2. /\ Has(more, "433") <=> Has(down, "433") \/ Has(reply, "433")
      /\ Has(more, "001") <=> Has(down, "001") \/ Has(reply, "001")
      /\ Has(more, "REJECTED") <=> Has(down, "REJECTED") \/ Has(reply, "REJECTED")
  BY DEF Adds
<1>3. Has(rest, "QUIT") => pc # "loop"
  BY <1>1 DEF Underway
<1>4. pc = "loop" /\ ~registered => Has(rest, "NICK") \/ Has(more, "433") \/ new.nick # NoNick
  BY <1>1, <1>2 DEF Underway
<1>5. pc = "loop" => Has(rest, "USER") \/ new.user
  BY <1>1 DEF Underway
<1>6. pc = "loop" /\ capEndSent /\ new.open => Has(rest, "CAP END")
  BY <1>1 DEF Underway
<1>7. pc = "loop" /\ new.welcomed => registered \/ Has(more, "001")
  BY <1>2 DEF Underway
<1>8. pc = "loop" /\ new.gone => registered \/ Has(more, "REJECTED")
  BY <1>1, <1>2 DEF Underway
<1> QED BY <1>3, <1>4, <1>5, <1>6, <1>7, <1>8 DEF Underway

-----------------------------------------------------------------------------
(* The server settles *)

\* All of the invariant but the server's decision, past the first line.
Ready(up, down, s) ==
  /\ SaslInv(up, down, s) /\ CapInv(up, down, s) /\ GateInv(up, down, s)
  /\ TornInv(s) /\ NickInv(up, down, s) /\ ChainInv(down, s)
  /\ ~WritesMayFail => Underway(up, down, s)

\* A line more that is about neither SASL nor what the negotiation waits for.
LEMMA SaslNews ==
  ASSUME NEW up, NEW down, NEW s, NEW l, NEW more, NEW new,
         Adds(down, <<l>>, more), SaslInv(up, down, s), l.cmd \notin SaslDown,
         new.account = s.account, new.mech = s.mech, new.step = s.step
  PROVE  SaslInv(up, more, new)
<1>1. \A c \in SaslDown : ~Has(<<l>>, c)
  BY HasLine
<1>2. \A c \in SaslDown : (Has(more, c) <=> Has(down, c)) /\ (Once(down, c) => Once(more, c))
  BY <1>1, KeepsDown
<1>3. /\ Has(more, "AUTH +") <=> Has(down, "AUTH +")
      /\ Has(more, "AUTH good") <=> Has(down, "AUTH good")
      /\ Has(more, "AUTH bad") <=> Has(down, "AUTH bad")
      /\ Has(more, "SASL OK") <=> Has(down, "SASL OK")
      /\ Has(more, "SASL FAILED") <=> Has(down, "SASL FAILED")
      /\ Once(down, "AUTH +") => Once(more, "AUTH +")
      /\ Once(down, "AUTH good") => Once(more, "AUTH good")
      /\ Once(down, "SASL FAILED") => Once(more, "SASL FAILED")
  BY <1>2 DEF SaslDown
<1> QED BY <1>3, SaslFrame

LEMMA CapNews ==
  ASSUME NEW up, NEW down, NEW s, NEW S, down \in Seq(S), NEW l \in S, NEW new,
         CapInv(up, down, s), l.cmd # "CAP LS", l.cmd # "CAP ACK", l.cmd # "CAP NAK",
         s.account => new.account, s.late => new.late
  PROVE  CapInv(up, down \o <<l>>, new)
<1> DEFINE more == down \o <<l>>
<1>1. <<l>> \in Seq(S)
  BY ShortSequences
<1>2. ~Has(<<l>>, "CAP LS") /\ ~Has(<<l>>, "CAP ACK") /\ ~Has(<<l>>, "CAP NAK")
  BY HasLine
<1>3. Adds(down, <<l>>, more) /\ (Heads(down, "CAP ACK", "sasl") => Heads(more, "CAP ACK", "sasl"))
  BY <1>1, <1>2, AddsReply, HeadsConcat
<1> HIDE DEF more
<1>4. /\ Has(more, "CAP LS") <=> Has(down, "CAP LS")
      /\ Once(down, "CAP LS") => Once(more, "CAP LS")
      /\ Has(more, "CAP NAK") <=> Has(down, "CAP NAK")
      /\ Once(down, "CAP NAK") => Once(more, "CAP NAK")
      /\ Has(more, "CAP ACK") <=> Has(down, "CAP ACK")
  BY <1>2, <1>3, KeepsDown
<1>5. \A n \in Lines(more) : n.cmd = "CAP NAK" => n \in Lines(down)
  BY <1>2, <1>3, HasMember DEF Adds
<1> QED BY <1>3, <1>4, <1>5, CapFrame DEF more

\* The welcome.
LEMMA WelcomeReady ==
  ASSUME NEW up, NEW down, NEW s, NEW l, NEW new,
         down \in Seq(ServerLines), l \in ServerLines, nick \in Nicks, s.nick \in Nicks,
         Ready(up, down, s), l.cmd = "001", l.nick = s.nick, s.nick # NoNick,
         s.user, ~s.open, ~s.welcomed,
         new.account = s.account, new.mech = s.mech, new.step = s.step,
         new.late = s.late, new.nick = s.nick, new.user = s.user, new.open = s.open,
         new.gone = s.gone, new.welcomed
  PROVE  Ready(up, down \o <<l>>, new)
<1> DEFINE more == down \o <<l>>
<1>1. <<l>> \in Seq(ServerLines)
  OBVIOUS
<1>2. Adds(down, <<l>>, more)
  BY <1>1, AddsReply
<1>3. l.cmd \notin SaslDown
  BY DEF SaslDown
<1>4. SaslInv(up, more, new)
  BY <1>2, <1>3, SaslNews DEF Ready
<1>5. CapInv(up, more, new)
  BY CapNews DEF Ready
<1>6. NickInv(up, down, s) /\ GateInv(up, down, s)
  BY DEF Ready
<1>7. capEndSent
  BY <1>6 DEF GateInv
<1>8. GateInv(up, more, new)
  BY <1>6, <1>7 DEF GateInv
<1>9. ~Has(down, "001") /\ ~Has(down, "NICK") /\ ~Has(up, "NICK") /\ ~Has(down, "433")
      /\ Once(up, "NICK") /\ Once(down, "433") /\ ~registered
  BY <1>6 DEF NickInv
<1>10. ChainInv(more, new)
  BY <1>9, ChainBegins
<1>11. ~Has(<<l>>, "433") /\ Has(<<l>>, "001")
  BY HasLine
<1>12. ~Has(more, "433") /\ Once(more, "433") /\ Has(more, "001")
  BY <1>2, <1>9, <1>11, OnceNothing DEF Adds
<1>13. NickInv(up, more, new)
  BY <1>9, <1>12 DEF NickInv
<1>14. TornInv(new)
  BY DEF Ready, TornInv
<1>15. Has(down, "REJECTED") => Has(more, "REJECTED")
  BY <1>2 DEF Adds
<1>16. ~WritesMayFail => Underway(up, more, new)
  BY <1>9, <1>12, <1>15 DEF Ready, Underway
<1> QED BY <1>4, <1>5, <1>8, <1>10, <1>13, <1>14, <1>16 DEF Ready

\* The refusal of the connection.
LEMMA RejectReady ==
  ASSUME NEW up, NEW down, NEW s, NEW l, NEW new,
         down \in Seq(ServerLines), l \in ServerLines,
         Ready(up, down, s), l.cmd = "REJECTED", ~s.welcomed,
         new.account = s.account, new.mech = s.mech, new.step = s.step,
         new.late = s.late, new.nick = s.nick, new.user = s.user, new.open = s.open,
         new.gone, new.welcomed = s.welcomed
  PROVE  Ready(up, down \o <<l>>, new)
<1> DEFINE more == down \o <<l>>
<1>1. <<l>> \in Seq(ServerLines)
  OBVIOUS
<1>2. Adds(down, <<l>>, more)
  BY <1>1, AddsReply
<1>3. l.cmd \notin SaslDown
  BY DEF SaslDown
<1>4. SaslInv(up, more, new)
  BY <1>2, <1>3, SaslNews DEF Ready
<1>5. CapInv(up, more, new)
  BY CapNews DEF Ready
<1>6. NickInv(up, down, s) /\ GateInv(up, down, s)
  BY DEF Ready
<1>7. ~Has(<<l>>, "433") /\ ~Has(<<l>>, "001") /\ ~Has(<<l>>, "NICK") /\ Has(<<l>>, "REJECTED")
  BY HasLine
<1>8. /\ Has(more, "433") <=> Has(down, "433")
      /\ Once(down, "433") => Once(more, "433")
      /\ Has(more, "001") <=> Has(down, "001")
      /\ Has(more, "NICK") <=> Has(down, "NICK")
      /\ Has(more, "REJECTED")
  BY <1>2, <1>7, KeepsDown DEF Adds
<1>9. GateInv(up, more, new)
  BY <1>6, <1>8 DEF GateInv
<1>10. NickInv(up, more, new)
  BY <1>6, <1>8 DEF NickInv
<1>11. ChainInv(more, new)
  BY DEF ChainInv
<1>12. TornInv(new)
  BY DEF Ready, TornInv
<1>13. ~WritesMayFail => Underway(up, more, new)
  BY <1>8 DEF Ready, Underway
<1> QED BY <1>4, <1>5, <1>9, <1>10, <1>11, <1>12, <1>13 DEF Ready

\* What holds of the next queues and the next state of the server holds next.
LEMMA Carried ==
  ASSUME UNCHANGED vars, NEW up, NEW down, NEW s,
         Ready(up, down, s), WritesMayFail \/ Settled(s), ~Early \/ EarlyInv(up, down, s),
         toServer' = up, toClient' = down, srv' = s
  PROVE  Parts(toServer, toClient, srv)'
<1>1. UNCHANGED <<cfg, pc, sasl, caps, capEndSent, registered, nick, reason>>
  BY DEF vars, life, ident, nego
<1>2. SaslInv(toServer, toClient, srv)'
  BY <1>1 DEF Ready, SaslInv, SaslIdle, SaslAsked, SaslInvited, SaslOffered, SaslChallenged,
              SaslGranted, SaslRefused, SaslOver, Pending
<1>3. CapInv(toServer, toClient, srv)'
  BY <1>1 DEF Ready, CapInv, CapNotBegun, CapListing, CapListed, CapRequested, CapDenied,
              CapAnswered, SaslAcked, Fresh, Early
<1>4. GateInv(toServer, toClient, srv)' /\ TornInv(srv)' /\ NickInv(toServer, toClient, srv)'
  BY <1>1 DEF Ready, GateInv, TornInv, NickInv
<1>5. ChainInv(toClient, srv)'
  BY <1>1 DEF Ready, ChainInv
<1>6. ~WritesMayFail => OwedInv(toServer, toClient, srv)'
  BY <1>1 DEF Ready, OwedInv, Underway, Settled
<1>7. EarlyInv(toServer, toClient, srv)'
  BY <1>1 DEF EarlyInv, Early
<1> QED BY <1>2, <1>3, <1>4, <1>5, <1>6, <1>7 DEF Parts

LEMMA Welcoming ==
  ASSUME NEW new \in SrvType
  PROVE  LET w == [new EXCEPT !.welcomed = TRUE] IN
         /\ w \in SrvType /\ w.welcomed
         /\ w.account = new.account /\ w.mech = new.mech /\ w.step = new.step
         /\ w.late = new.late /\ w.nick = new.nick /\ w.user = new.user
         /\ w.open = new.open /\ w.gone = new.gone
BY DEF SrvType

LEMMA Rejecting ==
  ASSUME NEW new \in SrvType
  PROVE  LET w == [new EXCEPT !.gone = TRUE] IN
         /\ w \in SrvType /\ w.gone
         /\ w.account = new.account /\ w.mech = new.mech /\ w.step = new.step
         /\ w.late = new.late /\ w.nick = new.nick /\ w.user = new.user
         /\ w.open = new.open /\ w.welcomed = new.welcomed
BY DEF SrvType

LEMMA WelcomeLine ==
  ASSUME NEW n \in Nicks
  PROVE  LET l == [cmd |-> "001", nick |-> n] IN l \in ServerLines /\ l.cmd = "001" /\ l.nick = n
BY DEF ServerLines, NickLines

LEMMA RejectLine == Line("REJECTED") \in ServerLines /\ Line("REJECTED").cmd = "REJECTED"
BY DEF Line, ServerLines, PlainLines

LEMMA NickOrNone ==
  ASSUME NEW new \in SrvType
  PROVE  new.nick = NoNick \/ new.nick \in Nicks
BY DEF SrvType

LEMMA SettleParts ==
  ASSUME UNCHANGED vars, NEW up, NEW reply \in Seq(ServerLines), NEW new \in SrvType,
         toClient \in Seq(ServerLines), nick \in Nicks, ~Early,
         Settle(new, reply), toServer' = up, Ready(up, toClient \o reply, new)
  PROVE  Parts(toServer, toClient, srv)'
<1> DEFINE w == [new EXCEPT !.welcomed = TRUE]
           g == [new EXCEPT !.gone = TRUE]
           welcome == [cmd |-> "001", nick |-> new.nick]
           reject == Line("REJECTED")
           down == toClient \o reply
<1>1. \/ /\ new.nick # NoNick /\ new.user /\ ~new.open /\ ~new.welcomed /\ ~new.gone
         /\ \/ srv' = w /\ toClient' = down \o <<welcome>>
            \/ srv' = g /\ toClient' = down \o <<reject>>
      \/ Settled(new) /\ srv' = new /\ toClient' = down
  BY DEF Settle, Settled
<1>2. down \in Seq(ServerLines)
  OBVIOUS
<1> HIDE DEF w, g, welcome, reject, down
<1>3. CASE /\ new.nick # NoNick /\ new.user /\ ~new.open /\ ~new.welcomed /\ ~new.gone
           /\ srv' = w /\ toClient' = down \o <<welcome>>
  <2>1. new.nick \in Nicks
    BY <1>3, NickOrNone
  <2>2. welcome \in ServerLines /\ welcome.cmd = "001" /\ welcome.nick = new.nick
    BY <2>1, WelcomeLine DEF welcome
  <2>3. /\ w.welcomed /\ w.account = new.account /\ w.mech = new.mech /\ w.step = new.step
        /\ w.late = new.late /\ w.nick = new.nick /\ w.user = new.user
        /\ w.open = new.open /\ w.gone = new.gone
    BY Welcoming DEF w
  <2>4. Ready(up, down, new)
    BY DEF down
  <2>5. Ready(up, down \o <<welcome>>, w)
    BY <1>2, <1>3, <2>1, <2>2, <2>3, <2>4, WelcomeReady
  <2>6. Settled(w)
    BY <2>3 DEF Settled
  <2> QED BY <1>3, <2>5, <2>6, Carried
<1>4. CASE /\ new.nick # NoNick /\ new.user /\ ~new.open /\ ~new.welcomed /\ ~new.gone
           /\ srv' = g /\ toClient' = down \o <<reject>>
  <2>1. reject \in ServerLines /\ reject.cmd = "REJECTED"
    BY RejectLine DEF reject
  <2>2. /\ g.gone /\ g.account = new.account /\ g.mech = new.mech /\ g.step = new.step
        /\ g.late = new.late /\ g.nick = new.nick /\ g.user = new.user
        /\ g.open = new.open /\ g.welcomed = new.welcomed
    BY Rejecting DEF g
  <2>3. Ready(up, down, new)
    BY DEF down
  <2>4. Ready(up, down \o <<reject>>, g)
    BY <1>2, <1>4, <2>1, <2>2, <2>3, RejectReady
  <2>5. Settled(g)
    BY <2>2 DEF Settled
  <2> QED BY <1>4, <2>4, <2>5, Carried
<1>5. CASE Settled(new) /\ srv' = new /\ toClient' = down
  <2>1. Ready(up, down, new)
    BY DEF down
  <2> QED BY <1>5, <2>1, Carried
<1> QED BY <1>1, <1>3, <1>4, <1>5

-----------------------------------------------------------------------------
(* The server answers *)

OnTurn == Wired /\ toServer # <<>> /\ Parts(toServer, toClient, srv)

LEMMA OnTurnFacts ==
  ASSUME OnTurn
  PROVE  /\ Took(toServer, Head(toServer), Tail(toServer)) /\ ~Early
         /\ SaslInv(toServer, toClient, srv) /\ CapInv(toServer, toClient, srv)
         /\ GateInv(toServer, toClient, srv) /\ TornInv(srv)
         /\ NickInv(toServer, toClient, srv) /\ ChainInv(toClient, srv)
         /\ ~WritesMayFail => Underway(toServer, toClient, srv)
<1>1. Took(toServer, Head(toServer), Tail(toServer))
  BY TookHead DEF OnTurn, Wired
<1>2. ~Early
  BY DEF OnTurn, Parts, EarlyInv
<1> QED BY <1>1, <1>2 DEF OnTurn, Parts, OwedInv

LEMMA ReplyAdds ==
  ASSUME OnTurn, NEW reply \in Seq(ServerLines)
  PROVE  Adds(toClient, reply, toClient \o reply)
BY AddsReply DEF OnTurn, Wired

\* Everything but SASL and the capabilities, when m proposes no nickname.
Others(up, down, s) ==
  /\ GateInv(up, down, s) /\ TornInv(s) /\ NickInv(up, down, s) /\ ChainInv(down, s)
  /\ ~WritesMayFail => Underway(up, down, s)

LEMMA OthersStay ==
  ASSUME OnTurn, NEW reply \in Seq(ServerLines), NEW new,
         Head(toServer).cmd # "NICK",
         ~Has(reply, "001"), ~Has(reply, "433"), ~Has(reply, "NICK"),
         new.nick = srv.nick, new.welcomed <=> srv.welcomed, srv.late => new.late,
         Head(toServer).cmd = "CAP LS 302" => new.open,
         srv.open => new.open \/ Head(toServer).cmd = "CAP END",
         Head(toServer).cmd = "CAP END" => ~new.open,
         new.open => srv.open \/ ~capEndSent,
         new.user => srv.user \/ Head(toServer).cmd = "USER",
         Head(toServer).cmd = "USER" \/ srv.user => new.user,
         new.gone => srv.gone \/ Head(toServer).cmd = "QUIT"
  PROVE  Others(Tail(toServer), toClient \o reply, new)
<1> DEFINE m == Head(toServer)
           rest == Tail(toServer)
           more == toClient \o reply
<1>1. /\ Took(toServer, m, rest) /\ ~Early
      /\ GateInv(toServer, toClient, srv) /\ TornInv(srv)
      /\ NickInv(toServer, toClient, srv) /\ ChainInv(toClient, srv)
      /\ ~WritesMayFail => Underway(toServer, toClient, srv)
  BY OnTurnFacts
<1>2. Adds(toClient, reply, more)
  BY ReplyAdds
<1>3. toServer \in Seq(ClientLines) /\ toServer # <<>> /\ toClient \in Seq(ServerLines)
      /\ srv \in SrvType
  BY DEF OnTurn, Wired
<1>4. GateInv(rest, more, new)
  BY <1>1, <1>2, <1>3, GateStays
<1>5. srv.welcomed => srv.nick # NoNick
  BY <1>1 DEF NickInv
<1>6. srv.nick \in Nicks \cup {NoNick}
  BY <1>3, NickOrNone
<1>7. ChainInv(more, new)
  BY <1>1, <1>3, <1>5, <1>6, ChainStays
<1> HIDE DEF m, rest, more
<1>8. m.cmd # "NICK" /\ (m.cmd = "USER" \/ srv.user => new.user)
      /\ (m.cmd = "CAP END" => ~new.open) /\ (new.gone => srv.gone \/ m.cmd = "QUIT")
  BY DEF m
<1>9. NickInv(rest, more, new)
  BY <1>1, <1>2, <1>8, NickStays
<1>10. ~WritesMayFail => Underway(rest, more, new)
  BY <1>1, <1>2, <1>8, UnderwayStays
<1>11. TornInv(new)
  BY <1>1 DEF TornInv
<1> QED BY <1>4, <1>7, <1>9, <1>10, <1>11 DEF Others, rest, more

LEMMA ReadyFrom ==
  ASSUME NEW up, NEW down, NEW s, SaslInv(up, down, s), CapInv(up, down, s), Others(up, down, s)
  PROVE  Ready(up, down, s)
BY DEF Ready, Others

\* Lines that are not about SASL, either way.
LEMMA SaslAside ==
  ASSUME OnTurn, NEW reply \in Seq(ServerLines), NEW new,
         Head(toServer).cmd # "AUTHENTICATE", Head(toServer).cmd # "PAYLOAD",
         \A c \in SaslDown : ~Has(reply, c),
         new.account = srv.account, new.mech = srv.mech, new.step = srv.step
  PROVE  SaslInv(Tail(toServer), toClient \o reply, new)
<1>1. Took(toServer, Head(toServer), Tail(toServer)) /\ SaslInv(toServer, toClient, srv)
  BY OnTurnFacts
<1>2. Adds(toClient, reply, toClient \o reply)
  BY ReplyAdds
<1> QED BY <1>1, <1>2, SaslStays

\* The exchange where it was.
SaslSame(new) == new.account = srv.account /\ new.mech = srv.mech /\ new.step = srv.step

\* What USER, CAP END and QUIT tell the server; other lines tell it nothing here.
Told(new) ==
  /\ new.nick = srv.nick /\ (new.welcomed <=> srv.welcomed) /\ new.late = srv.late
  /\ srv.open => new.open \/ Head(toServer).cmd = "CAP END"
  /\ Head(toServer).cmd = "CAP END" => ~new.open
  /\ new.open => srv.open
  /\ new.user => srv.user \/ Head(toServer).cmd = "USER"
  /\ Head(toServer).cmd = "USER" \/ srv.user => new.user
  /\ new.gone => srv.gone \/ Head(toServer).cmd = "QUIT"
  /\ SaslSame(new)

\* Lines that neither SASL nor the capabilities wait for, with at most an ERROR back.
LEMMA QuietAnswer ==
  ASSUME OnTurn, NEW reply \in Seq(ServerLines), NEW new,
         Head(toServer).cmd # "NICK", Head(toServer).cmd # "CAP LS 302",
         Head(toServer).cmd # "CAP REQ",
         Head(toServer).cmd # "AUTHENTICATE", Head(toServer).cmd # "PAYLOAD",
         \A c : c # "ERROR" => ~Has(reply, c),
         Told(new)
  PROVE  Ready(Tail(toServer), toClient \o reply, new)
<1> DEFINE m == Head(toServer)
           rest == Tail(toServer)
           more == toClient \o reply
<1>1. /\ m.cmd # "NICK" /\ m.cmd # "CAP LS 302" /\ m.cmd # "CAP REQ"
      /\ m.cmd # "AUTHENTICATE" /\ m.cmd # "PAYLOAD"
  OBVIOUS
<1>2. /\ ~Has(reply, "001") /\ ~Has(reply, "433") /\ ~Has(reply, "NICK")
      /\ ~Has(reply, "CAP LS") /\ ~Has(reply, "CAP ACK") /\ ~Has(reply, "CAP NAK")
  OBVIOUS
<1>quiet. \A c \in SaslDown : ~Has(reply, c)
  BY DEF SaslDown
<1>same. /\ new.nick = srv.nick /\ (new.welcomed <=> srv.welcomed) /\ new.late = srv.late
         /\ srv.open => new.open \/ m.cmd = "CAP END"
         /\ m.cmd = "CAP END" => ~new.open
         /\ new.open => srv.open
         /\ new.user => srv.user \/ m.cmd = "USER"
         /\ m.cmd = "USER" \/ srv.user => new.user
         /\ new.gone => srv.gone \/ m.cmd = "QUIT"
         /\ new.account = srv.account /\ new.mech = srv.mech /\ new.step = srv.step
  BY DEF Told, SaslSame
<1>3. Others(rest, more, new)
  BY <1>1, <1>2, <1>same, OthersStay
<1>4. /\ Took(toServer, m, rest)
      /\ SaslInv(toServer, toClient, srv) /\ CapInv(toServer, toClient, srv)
  BY OnTurnFacts
<1>5. SaslInv(rest, more, new)
  BY <1>1, <1>quiet, <1>same, SaslAside
<1>6. CapInv(rest, more, new)
  BY <1>1, <1>2, <1>4, <1>same, CapStays DEF OnTurn, Wired
<1> QED BY <1>3, <1>5, <1>6, ReadyFrom

\* A nickname is taken, or refused.
LEMMA NickAnswer ==
  ASSUME OnTurn, NEW reply \in Seq(ServerLines), NEW new,
         Head(toServer).cmd = "NICK",
         \A c : c # "433" => ~Has(reply, c), Once(reply, "433"),
         \/ new.nick # NoNick /\ ~Has(reply, "433")
         \/ new.nick = srv.nick /\ Has(reply, "433"),
         new.welcomed <=> srv.welcomed, new.late = srv.late,
         new.account = srv.account, new.mech = srv.mech, new.step = srv.step,
         new.open <=> srv.open, new.user <=> srv.user, new.gone <=> srv.gone
  PROVE  Ready(Tail(toServer), toClient \o reply, new)
<1> DEFINE m == Head(toServer)
           rest == Tail(toServer)
           more == toClient \o reply
<1>1. /\ m.cmd # "USER" /\ m.cmd # "CAP LS 302" /\ m.cmd # "CAP REQ" /\ m.cmd # "CAP END"
      /\ m.cmd # "AUTHENTICATE" /\ m.cmd # "PAYLOAD" /\ m.cmd # "QUIT"
  OBVIOUS
<1>2. /\ ~Has(reply, "001") /\ ~Has(reply, "NICK")
      /\ ~Has(reply, "CAP LS") /\ ~Has(reply, "CAP ACK") /\ ~Has(reply, "CAP NAK")
  OBVIOUS
<1>quiet. \A c \in SaslDown : ~Has(reply, c)
  BY DEF SaslDown
<1>3. /\ Took(toServer, m, rest)
      /\ SaslInv(toServer, toClient, srv) /\ CapInv(toServer, toClient, srv)
      /\ GateInv(toServer, toClient, srv) /\ TornInv(srv)
      /\ NickInv(toServer, toClient, srv) /\ ChainInv(toClient, srv)
      /\ ~WritesMayFail => Underway(toServer, toClient, srv)
  BY OnTurnFacts
<1>4. SaslInv(rest, more, new)
  BY <1>quiet, SaslAside
<1>5. CapInv(rest, more, new)
  BY <1>1, <1>2, <1>3, CapStays DEF OnTurn, Wired
<1>6. Adds(toClient, reply, more)
  BY ReplyAdds
<1>7. GateInv(rest, more, new)
  BY <1>1, <1>2, <1>3, <1>6, GateStays DEF OnTurn, Wired
<1>8. srv.nick = NoNick
  BY <1>3 DEF Took, NickInv
<1>9. new.nick # NoNick => ~Has(reply, "433")
  BY <1>8
<1>10. NickInv(rest, more, new) /\ ~srv.welcomed
  BY <1>2, <1>3, <1>6, <1>9, NickAnswers
<1>11. ChainInv(more, new)
  BY <1>10 DEF ChainInv
<1>12. new.nick # NoNick \/ Has(reply, "433")
  OBVIOUS
<1>13. ~WritesMayFail => Underway(rest, more, new)
  BY <1>1, <1>3, <1>6, <1>8, <1>12, UnderwayStays
<1>14. TornInv(new)
  BY <1>3 DEF TornInv
<1> QED BY <1>4, <1>5, <1>7, <1>10, <1>11, <1>13, <1>14 DEF Ready

\* Steps of the negotiation and of the exchange leave the rest of the server alone.
Aside(new) ==
  /\ new.nick = srv.nick /\ (new.welcomed <=> srv.welcomed) /\ (new.user <=> srv.user)
  /\ new.gone <=> srv.gone

\* The listing of what the server offers opens the negotiation.
LEMMA ListingAnswer ==
  ASSUME OnTurn, NEW reply \in Seq(ServerLines), NEW new,
         Head(toServer).cmd = "CAP LS 302", One(reply, "CAP LS"),
         \A c : c # "CAP LS" /\ c # "CAP LS *" => ~Has(reply, c),
         Aside(new), new.late = srv.late, new.open,
         new.account = srv.account, new.mech = srv.mech, new.step = srv.step
  PROVE  Ready(Tail(toServer), toClient \o reply, new)
<1> DEFINE m == Head(toServer)
           rest == Tail(toServer)
           more == toClient \o reply
<1>1. /\ Took(toServer, m, rest)
      /\ SaslInv(toServer, toClient, srv) /\ CapInv(toServer, toClient, srv)
  BY OnTurnFacts
<1>2. Adds(toClient, reply, more) /\ toServer # <<>>
  BY ReplyAdds DEF OnTurn
<1>3. /\ ~Has(reply, "001") /\ ~Has(reply, "NICK") /\ ~Has(reply, "433")
      /\ ~Has(reply, "CAP ACK") /\ ~Has(reply, "CAP NAK")
  OBVIOUS
<1>quiet. \A c \in SaslDown : ~Has(reply, c)
  BY DEF SaslDown
<1>4. CapInv(rest, more, new) /\ ~capEndSent
  BY <1>1, <1>2, <1>3, CapLists302
<1>5. m.cmd # "AUTHENTICATE" /\ m.cmd # "PAYLOAD" /\ m.cmd # "NICK" /\ m.cmd # "USER"
      /\ m.cmd # "CAP END" /\ m.cmd # "QUIT"
  OBVIOUS
<1>6. SaslInv(rest, more, new)
  BY <1>quiet, SaslAside
<1>7. Others(rest, more, new)
  BY <1>3, <1>4, <1>5, OthersStay DEF Aside
<1> QED BY <1>4, <1>6, <1>7, ReadyFrom

\* The capabilities are acknowledged, in one line or two.
LEMMA AckAnswer ==
  ASSUME OnTurn, NEW reply \in Seq(ServerLines), NEW new,
         Head(toServer).cmd = "CAP REQ", reply # <<>>, Head(reply).cmd = "CAP ACK",
         \A c : c # "CAP ACK" => ~Has(reply, c),
         Aside(new), new.open <=> srv.open,
         new.late <=> srv.late \/ ("sasl" \in Head(toServer).caps \ Head(reply).caps),
         new.account = srv.account, new.mech = srv.mech, new.step = srv.step
  PROVE  Ready(Tail(toServer), toClient \o reply, new)
<1> DEFINE m == Head(toServer)
           rest == Tail(toServer)
           more == toClient \o reply
<1>1. /\ Took(toServer, m, rest) /\ ~Early
      /\ SaslInv(toServer, toClient, srv) /\ CapInv(toServer, toClient, srv)
  BY OnTurnFacts
<1>2. Adds(toClient, reply, more)
  BY ReplyAdds
<1>3. /\ ~Has(reply, "001") /\ ~Has(reply, "NICK") /\ ~Has(reply, "433")
      /\ ~Has(reply, "CAP LS") /\ ~Has(reply, "CAP NAK")
  OBVIOUS
<1>quiet. \A c \in SaslDown : ~Has(reply, c)
  BY DEF SaslDown
<1>4. CapInv(rest, more, new)
  BY <1>1, <1>3, CapAcks DEF OnTurn, Wired
<1>5. m.cmd # "AUTHENTICATE" /\ m.cmd # "PAYLOAD" /\ m.cmd # "NICK" /\ m.cmd # "USER"
      /\ m.cmd # "CAP END" /\ m.cmd # "QUIT" /\ m.cmd # "CAP LS 302"
  OBVIOUS
<1>6. SaslInv(rest, more, new)
  BY <1>quiet, SaslAside
<1>7. Others(rest, more, new)
  BY <1>3, <1>5, OthersStay DEF Aside
<1> QED BY <1>4, <1>6, <1>7, ReadyFrom

LEMMA NakAnswer ==
  ASSUME OnTurn, NEW l \in ServerLines, NEW new,
         Head(toServer).cmd = "CAP REQ", l.cmd = "CAP NAK", l.caps = Head(toServer).caps,
         Aside(new), new.open <=> srv.open, new.late = srv.late,
         new.account = srv.account, new.mech = srv.mech, new.step = srv.step
  PROVE  Ready(Tail(toServer), toClient \o <<l>>, new)
<1> DEFINE m == Head(toServer)
           rest == Tail(toServer)
           more == toClient \o <<l>>
<1>0. <<l>> \in Seq(ServerLines)
  BY ShortSequences
<1>1. /\ Took(toServer, m, rest)
      /\ SaslInv(toServer, toClient, srv) /\ CapInv(toServer, toClient, srv)
  BY OnTurnFacts
<1>2. Adds(toClient, <<l>>, more)
  BY <1>0, ReplyAdds
<1>3. /\ ~Has(<<l>>, "001") /\ ~Has(<<l>>, "NICK") /\ ~Has(<<l>>, "433")
  BY HasLine
<1>quiet. \A c \in SaslDown : ~Has(<<l>>, c)
  BY HasLine DEF SaslDown
<1>4. CapInv(rest, more, new)
  BY <1>1, <1>2, CapDenies
<1>5. m.cmd # "AUTHENTICATE" /\ m.cmd # "PAYLOAD" /\ m.cmd # "NICK" /\ m.cmd # "USER"
      /\ m.cmd # "CAP END" /\ m.cmd # "QUIT" /\ m.cmd # "CAP LS 302"
  OBVIOUS
<1>6. SaslInv(rest, more, new)
  BY <1>0, <1>quiet, SaslAside
<1>7. Others(rest, more, new)
  BY <1>0, <1>3, <1>5, OthersStay DEF Aside
<1> QED BY <1>4, <1>6, <1>7, ReadyFrom

\* The exchange goes on in `reply`, which SaslInv already accounts for.
LEMMA SaslAnswer ==
  ASSUME OnTurn, NEW reply \in Seq(ServerLines), NEW new,
         Head(toServer).cmd = "AUTHENTICATE" \/ Head(toServer).cmd = "PAYLOAD",
         SaslInv(Tail(toServer), toClient \o reply, new),
         \A c : Has(reply, c) => c \in SaslDown,
         Aside(new), new.open <=> srv.open, new.late = srv.late, srv.account => new.account
  PROVE  Ready(Tail(toServer), toClient \o reply, new)
<1> DEFINE m == Head(toServer)
           rest == Tail(toServer)
           more == toClient \o reply
<1>1. Took(toServer, m, rest) /\ CapInv(toServer, toClient, srv)
  BY OnTurnFacts
<1>0. \A c \in {"001", "433", "NICK", "CAP LS", "CAP ACK", "CAP NAK"} : c \notin SaslDown
  BY DEF SaslDown
<1>2. /\ ~Has(reply, "001") /\ ~Has(reply, "433") /\ ~Has(reply, "NICK")
      /\ ~Has(reply, "CAP LS") /\ ~Has(reply, "CAP ACK") /\ ~Has(reply, "CAP NAK")
  BY <1>0
<1>3. m.cmd # "CAP REQ" /\ m.cmd # "NICK" /\ m.cmd # "USER"
      /\ m.cmd # "CAP END" /\ m.cmd # "QUIT" /\ m.cmd # "CAP LS 302"
  OBVIOUS
<1>4. CapInv(rest, more, new)
  BY <1>1, <1>2, <1>3, CapStays DEF OnTurn, Wired
<1>5. Others(rest, more, new)
  BY <1>2, <1>3, OthersStay DEF Aside
<1> QED BY <1>4, <1>5, ReadyFrom

-----------------------------------------------------------------------------
(* What the server knows after each of its answers *)

LEMMA Unmoved ==
  /\ Aside(srv) /\ SaslSame(srv) /\ srv.late = srv.late
  /\ (srv.open <=> srv.open) /\ (srv.user <=> srv.user)
BY DEF Aside, SaslSame

LEMMA Opened ==
  ASSUME srv \in SrvType, NEW b \in BOOLEAN
  PROVE  LET new == [srv EXCEPT !.open = b] IN
         /\ new \in SrvType /\ (new.open <=> b) /\ new.late = srv.late
         /\ Aside(new) /\ SaslSame(new)
BY DEF SrvType, Aside, SaslSame

LEMMA Introduced ==
  ASSUME srv \in SrvType
  PROVE  LET new == [srv EXCEPT !.user = TRUE] IN
         /\ new \in SrvType /\ new.user /\ (new.open <=> srv.open) /\ new.late = srv.late
         /\ new.nick = srv.nick /\ (new.welcomed <=> srv.welcomed) /\ (new.gone <=> srv.gone)
         /\ SaslSame(new)
BY DEF SrvType, SaslSame

LEMMA Left ==
  ASSUME srv \in SrvType
  PROVE  LET new == [srv EXCEPT !.gone = TRUE] IN
         /\ new \in SrvType /\ (new.user <=> srv.user) /\ (new.open <=> srv.open)
         /\ new.late = srv.late
         /\ new.nick = srv.nick /\ (new.welcomed <=> srv.welcomed)
         /\ SaslSame(new)
BY DEF SrvType, SaslSame

LEMMA Named ==
  ASSUME srv \in SrvType, NEW n \in Nicks
  PROVE  LET new == [srv EXCEPT !.nick = n] IN
         /\ new \in SrvType /\ (new.user <=> srv.user) /\ (new.open <=> srv.open)
         /\ new.late = srv.late /\ new.nick = n
         /\ (new.welcomed <=> srv.welcomed) /\ (new.gone <=> srv.gone)
         /\ SaslSame(new)
BY DEF SrvType, SaslSame

LEMMA Delayed ==
  ASSUME srv \in SrvType, NEW b \in BOOLEAN
  PROVE  LET new == [srv EXCEPT !.late = b] IN
         /\ new \in SrvType /\ (new.late <=> b) /\ (new.open <=> srv.open)
         /\ Aside(new) /\ SaslSame(new)
BY DEF SrvType, Aside, SaslSame

LEMMA Chosen ==
  ASSUME srv \in SrvType, NEW how \in {"plain", "scram"}
  PROVE  LET new == [srv EXCEPT !.mech = how, !.step = 0] IN
         /\ new \in SrvType /\ new.mech = how /\ new.step = 0 /\ new.account = srv.account
         /\ new.late = srv.late /\ (new.open <=> srv.open) /\ Aside(new)
<1> DEFINE new == [srv EXCEPT !.mech = how, !.step = 0]
<1>1. new \in SrvType
  <2> DEFINE mid == [srv EXCEPT !.mech = how]
  <2>1. mid \in SrvType
    BY DEF SrvType
  <2>2. [mid EXCEPT !.step = 0] \in SrvType
    <3> HIDE DEF mid
    <3> QED BY <2>1 DEF SrvType
  <2>3. new = [mid EXCEPT !.step = 0]
    BY DEF SrvType
  <2> QED BY <2>2, <2>3
<1>2. new.mech = how /\ new.step = 0 /\ new.account = srv.account
  BY DEF SrvType
<1>3. new.late = srv.late /\ (new.open <=> srv.open) /\ Aside(new)
  BY DEF SrvType, Aside
<1> QED BY <1>1, <1>2, <1>3

LEMMA Stepped ==
  ASSUME srv \in SrvType
  PROVE  LET new == [srv EXCEPT !.step = 1] IN
         /\ new \in SrvType /\ new.mech = srv.mech /\ new.step = 1 /\ new.account = srv.account
         /\ new.late = srv.late /\ (new.open <=> srv.open) /\ Aside(new)
BY DEF SrvType, Aside

LEMMA Accounted ==
  ASSUME srv \in SrvType
  PROVE  LET new == [srv EXCEPT !.account = TRUE] IN
         /\ new \in SrvType /\ new.account /\ new.late = srv.late
         /\ (new.open <=> srv.open) /\ Aside(new)
BY DEF SrvType, Aside

LEMMA Offering ==
  ASSUME srv \in SrvType, NEW cs \in SUBSET Caps
  PROVE  LET new == [srv EXCEPT !.offers = cs] IN
         /\ new \in SrvType /\ new.late = srv.late /\ (new.open <=> srv.open)
         /\ Aside(new) /\ SaslSame(new)
BY ServerAssumption DEF SrvType, Aside, SaslSame

-----------------------------------------------------------------------------
(* The lines it answers with *)

LEMMA PlainServerLine ==
  ASSUME NEW c \in PlainLines
  PROVE  Line(c) \in ServerLines /\ <<Line(c)>> \in Seq(ServerLines)
<1>1. Line(c) \in ServerLines
  BY DEF Line, ServerLines
<1> QED BY <1>1, ShortSequences

LEMMA CapLineTypes ==
  ASSUME srv \in SrvType, NEW c \in CapLines, NEW cs \in SUBSET Caps
  PROVE  /\ CapLine(c, cs) \in ServerLines
         /\ CapLine(c, cs).cmd = c /\ CapLine(c, cs).caps = cs
BY ServerAssumption DEF CapLine, ServerLines, SrvType

LEMMA ListingLines ==
  ASSUME srv \in SrvType, NEW c \in CapLines, NEW more \in CapLines, NEW cs \in SUBSET Caps,
         NEW reply \in Listings(c, more, cs)
  PROVE  /\ reply \in Seq(ServerLines) /\ Has(reply, c)
         /\ \A d : d # c /\ d # more => ~Has(reply, d)
         /\ c # more => One(reply, c)
         /\ Head(reply).cmd = c \/ Head(reply).cmd = more
<1>1. CASE reply = <<CapLine(c, cs)>>
  <2> DEFINE l == CapLine(c, cs)
  <2>1. l \in ServerLines /\ l.cmd = c
    BY CapLineTypes
  <2> HIDE DEF l
  <2>2. <<l>> \in Seq(ServerLines) /\ Head(<<l>>) = l
    BY <2>1, ShortSequences
  <2>3. \A d : (Has(<<l>>, d) <=> d = c) /\ Once(<<l>>, d)
    BY <2>1, HasLine
  <2> QED BY <1>1, <2>1, <2>2, <2>3 DEF One, l
<1>2. ASSUME NEW part \in SUBSET cs, reply = <<CapLine(more, part), CapLine(c, cs \ part)>>
      PROVE  /\ reply \in Seq(ServerLines) /\ Has(reply, c)
             /\ \A d : d # c /\ d # more => ~Has(reply, d)
             /\ c # more => One(reply, c)
             /\ Head(reply).cmd = c \/ Head(reply).cmd = more
  <2> DEFINE l == CapLine(more, part)
             k == CapLine(c, cs \ part)
  <2>1. part \in SUBSET Caps /\ cs \ part \in SUBSET Caps
    OBVIOUS
  <2>2. l \in ServerLines /\ l.cmd = more /\ k \in ServerLines /\ k.cmd = c
    BY <2>1, CapLineTypes
  <2> HIDE DEF l, k
  <2>3. <<l, k>> \in Seq(ServerLines) /\ Head(<<l, k>>) = l
    BY <2>2, ShortSequences
  <2>4. \A d : /\ Has(<<l, k>>, d) <=> d = more \/ d = c
               /\ c # more => Once(<<l, k>>, d)
    BY <2>2, HasLines
  <2> QED BY <1>2, <2>2, <2>3, <2>4 DEF One, l, k
<1> QED BY <1>1, <1>2 DEF Listings

LEMMA ClientLineFields ==
  ASSUME NEW m \in ClientLines
  PROVE  /\ m.cmd = "CAP REQ" => m.caps \subseteq Caps
         /\ m.cmd = "NICK" => m.nick \in Nicks
         /\ m.cmd = "AUTHENTICATE" => m.mech \in {"plain", "scram"}
<1>1. CASE m \in [cmd : {"CAP LS 302", "PASS", "USER", "CAP END", "PAYLOAD", "PONG",
                         "PING", "REPLY", "JOIN", "COMMAND", "QUIT"}]
  BY <1>1
<1>2. CASE m \in [cmd : {"CAP REQ"}, caps : SUBSET Caps]
  BY <1>2
<1>3. CASE m \in [cmd : {"NICK"}, nick : Nicks]
  BY <1>3
<1>4. CASE m \in [cmd : {"AUTHENTICATE"}, mech : {"plain", "scram"}]
  BY <1>4
<1> QED BY <1>1, <1>2, <1>3, <1>4 DEF ClientLines

\* What the exchange ends well with.
Verdict == (IF srv.mech = "scram" THEN <<Line("AUTH good")>> ELSE <<>>)
             \o <<Line("SASL OK"), Line("SASL OK")>>

LEMMA VerdictLines ==
  /\ Verdict \in Seq(ServerLines) /\ Has(Verdict, "SASL OK") /\ Once(Verdict, "AUTH good")
  /\ Has(Verdict, "AUTH good") => srv.mech = "scram"
  /\ \A c : Has(Verdict, c) => c = "AUTH good" \/ c = "SASL OK"
<1> DEFINE g == Line("AUTH good")
           k == Line("SASL OK")
           good == IF srv.mech = "scram" THEN <<g>> ELSE <<>>
           S == ServerLines
<1>1. g.cmd = "AUTH good" /\ k.cmd = "SASL OK" /\ g \in S /\ k \in S
  BY PlainServerLine DEF Line, PlainLines
<1> HIDE DEF g, k, S
<1>0. <<>> \in Seq(S)
  OBVIOUS
<1>2. <<g>> \in Seq(S) /\ <<k, k>> \in Seq(S) /\ <<>> \in Seq(S)
  BY <1>0, <1>1, ShortSequences
<1>3. good \in Seq(S)
  BY <1>2
<1>4. \A c : /\ Has(good, c) => c = "AUTH good" /\ srv.mech = "scram"
             /\ Once(good, c)
  BY <1>1, HasLine, HasNothing, OnceNothing
<1>5. \A c : Has(<<k, k>>, c) <=> c = "SASL OK"
  BY <1>1, HasLines
<1> HIDE DEF good
<1>6. good \o <<k, k>> \in Seq(S)
  BY <1>2, <1>3
<1>7. \A c : Has(good \o <<k, k>>, c) <=> Has(good, c) \/ Has(<<k, k>>, c)
  BY <1>2, <1>3, ConcatHas
<1>8. Once(good \o <<k, k>>, "AUTH good")
  BY <1>2, <1>3, <1>4, <1>5, ConcatHas, OnceNothing
<1>9. Verdict = good \o <<k, k>>
  BY DEF Verdict, good, g, k
<1>10. \A c : Has(good \o <<k, k>>, c) => c = "AUTH good" \/ c = "SASL OK"
  BY <1>4, <1>5, <1>7
<1>11. Has(good \o <<k, k>>, "SASL OK")
  BY <1>5, <1>7
<1>12. Has(good \o <<k, k>>, "AUTH good") => srv.mech = "scram"
  BY <1>4, <1>5, <1>7
<1> QED BY <1>6, <1>8, <1>9, <1>10, <1>11, <1>12 DEF S

-----------------------------------------------------------------------------
(* One lemma per line the server reads *)

\* The server reads a line, whatever it makes of it.
Reading == OnTurn /\ UNCHANGED vars /\ toServer' = Tail(toServer) /\ nick \in Nicks

\* What is to be kept: the types of the queues and of the server, and the parts.
Kept == Wired /\ Parts(toServer, toClient, srv)

LEMMA SettleTypes ==
  ASSUME NEW reply \in Seq(ServerLines), NEW new \in SrvType, toClient \in Seq(ServerLines),
         Settle(new, reply)
  PROVE  srv' \in SrvType /\ toClient' \in Seq(ServerLines)
<1> DEFINE w == [new EXCEPT !.welcomed = TRUE]
           g == [new EXCEPT !.gone = TRUE]
           welcome == [cmd |-> "001", nick |-> new.nick]
           reject == Line("REJECTED")
           down == toClient \o reply
<1>1. \/ new.nick # NoNick /\ srv' = w /\ toClient' = down \o <<welcome>>
      \/ srv' = g /\ toClient' = down \o <<reject>>
      \/ srv' = new /\ toClient' = down
  BY DEF Settle
<1>2. down \in Seq(ServerLines)
  OBVIOUS
<1>3. w \in SrvType /\ g \in SrvType
  BY Welcoming, Rejecting
<1>4. new.nick # NoNick => welcome \in ServerLines
  BY NickOrNone, WelcomeLine
<1>5. reject \in ServerLines
  BY RejectLine
<1> HIDE DEF w, g, welcome, reject, down
<1>6. new.nick # NoNick => <<welcome>> \in Seq(ServerLines)
  BY <1>4, ShortSequences
<1>7. <<reject>> \in Seq(ServerLines)
  BY <1>5, ShortSequences
<1>8. /\ new.nick # NoNick => down \o <<welcome>> \in Seq(ServerLines)
      /\ down \o <<reject>> \in Seq(ServerLines)
  BY <1>2, <1>6, <1>7
<1> QED BY <1>1, <1>2, <1>3, <1>8

LEMMA ReadingSettles ==
  ASSUME Reading, NEW reply \in Seq(ServerLines), NEW new \in SrvType,
         Settle(new, reply), Ready(Tail(toServer), toClient \o reply, new)
  PROVE  Kept'
<1>1. ~Early
  BY OnTurnFacts DEF Reading
<1>2. /\ UNCHANGED vars /\ toServer' = Tail(toServer) /\ nick \in Nicks
      /\ toClient \in Seq(ServerLines)
      /\ toServer \in Seq(ClientLines) /\ toServer # <<>>
  BY DEF Reading, OnTurn, Wired
<1>3. Parts(toServer, toClient, srv)'
  BY <1>1, <1>2, SettleParts
<1>4. srv' \in SrvType /\ toClient' \in Seq(ServerLines)
  BY <1>2, SettleTypes
<1>5. toServer' \in Seq(ClientLines)
  <2>1. Tail(toServer) \in Seq(ClientLines)
    BY <1>2
  <2> QED BY <1>2, <2>1
<1> QED BY <1>3, <1>4, <1>5 DEF Kept, Wired

LEMMA ReadingFacts ==
  ASSUME Reading
  PROVE  OnTurn /\ srv \in SrvType /\ Head(toServer) \in ClientLines
<1>1. OnTurn /\ srv \in SrvType /\ toServer \in Seq(ClientLines) /\ toServer # <<>>
  BY DEF Reading, OnTurn, Wired
<1> QED BY <1>1, TailLines

LEMMA NoReply ==
  <<>> \in Seq(ServerLines) /\ (\A c : ~Has(<<>>, c)) /\ (\A c : Once(<<>>, c))
<1>1. <<>> \in Seq(ServerLines)
  OBVIOUS
<1> QED BY <1>1, HasNothing, OnceNothing

LEMMA ReadsCapEnd ==
  ASSUME Reading, Head(toServer).cmd = "CAP END", Settle([srv EXCEPT !.open = FALSE], <<>>)
  PROVE  Kept'
<1> DEFINE new == [srv EXCEPT !.open = FALSE]
<1>1. OnTurn /\ srv \in SrvType
  BY ReadingFacts
<1>2. /\ new \in SrvType /\ (new.open <=> FALSE) /\ new.late = srv.late
      /\ Aside(new) /\ SaslSame(new)
  BY <1>1, Opened
<1> HIDE DEF new
<1>3. /\ new.nick = srv.nick /\ (new.welcomed <=> srv.welcomed) /\ (new.user <=> srv.user)
      /\ (new.gone <=> srv.gone)
      /\ new.account = srv.account /\ new.mech = srv.mech /\ new.step = srv.step
  BY <1>2 DEF Aside, SaslSame
<1>4. /\ Head(toServer).cmd # "NICK" /\ Head(toServer).cmd # "CAP LS 302"
      /\ Head(toServer).cmd # "CAP REQ"
      /\ Head(toServer).cmd # "AUTHENTICATE" /\ Head(toServer).cmd # "PAYLOAD"
  OBVIOUS
<1>told. Told(new)
  BY <1>2, <1>3 DEF Told, SaslSame
<1>5. Ready(Tail(toServer), toClient \o <<>>, new)
  BY <1>1, <1>2, <1>3, <1>4, <1>told, NoReply, QuietAnswer
<1> QED BY <1>2, <1>5, NoReply, ReadingSettles DEF new

LEMMA ReadsUser ==
  ASSUME Reading, Head(toServer).cmd = "USER", Settle([srv EXCEPT !.user = TRUE], <<>>)
  PROVE  Kept'
<1> DEFINE new == [srv EXCEPT !.user = TRUE]
<1>1. OnTurn /\ srv \in SrvType
  BY ReadingFacts
<1>2. /\ new \in SrvType /\ new.user /\ (new.open <=> srv.open) /\ new.late = srv.late
      /\ new.nick = srv.nick /\ (new.welcomed <=> srv.welcomed) /\ (new.gone <=> srv.gone)
      /\ SaslSame(new)
  BY <1>1, Introduced
<1> HIDE DEF new
<1>3. new.account = srv.account /\ new.mech = srv.mech /\ new.step = srv.step
  BY <1>2 DEF SaslSame
<1>4. /\ Head(toServer).cmd # "NICK" /\ Head(toServer).cmd # "CAP LS 302"
      /\ Head(toServer).cmd # "CAP REQ"
      /\ Head(toServer).cmd # "AUTHENTICATE" /\ Head(toServer).cmd # "PAYLOAD"
  OBVIOUS
<1>told. Told(new)
  BY <1>2, <1>3 DEF Told, SaslSame
<1>5. Ready(Tail(toServer), toClient \o <<>>, new)
  BY <1>1, <1>2, <1>3, <1>4, <1>told, NoReply, QuietAnswer
<1> QED BY <1>2, <1>5, NoReply, ReadingSettles DEF new

LEMMA ReadsQuit ==
  ASSUME Reading, Head(toServer).cmd = "QUIT",
         Settle([srv EXCEPT !.gone = TRUE], <<Line("ERROR")>>)
  PROVE  Kept'
<1> DEFINE new == [srv EXCEPT !.gone = TRUE]
           l == Line("ERROR")
<1>1. OnTurn /\ srv \in SrvType
  BY ReadingFacts
<1>2. /\ new \in SrvType /\ (new.user <=> srv.user) /\ (new.open <=> srv.open)
      /\ new.late = srv.late
      /\ new.nick = srv.nick /\ (new.welcomed <=> srv.welcomed)
      /\ SaslSame(new)
  BY <1>1, Left
<1>3. <<l>> \in Seq(ServerLines) /\ l.cmd = "ERROR"
  BY PlainServerLine DEF PlainLines, Line
<1> HIDE DEF new, l
<1>4. \A c : c # "ERROR" => ~Has(<<l>>, c)
  BY <1>3, HasLine
<1>5. new.account = srv.account /\ new.mech = srv.mech /\ new.step = srv.step
  BY <1>2 DEF SaslSame
<1>6. /\ Head(toServer).cmd # "NICK" /\ Head(toServer).cmd # "CAP LS 302"
      /\ Head(toServer).cmd # "CAP REQ"
      /\ Head(toServer).cmd # "AUTHENTICATE" /\ Head(toServer).cmd # "PAYLOAD"
  OBVIOUS
<1>told. Told(new)
  BY <1>2 DEF Told, SaslSame
<1>7. Ready(Tail(toServer), toClient \o <<l>>, new)
  BY <1>1, <1>2, <1>3, <1>4, <1>5, <1>6, <1>told, QuietAnswer
<1> QED BY <1>2, <1>3, <1>7, ReadingSettles DEF new, l

LEMMA ReadsIdle ==
  ASSUME Reading, Head(toServer).cmd \in {"PASS", "PONG"}, Settle(srv, <<>>)
  PROVE  Kept'
<1>1. OnTurn /\ srv \in SrvType
  BY ReadingFacts
<1>2. /\ Head(toServer).cmd # "NICK" /\ Head(toServer).cmd # "CAP LS 302"
      /\ Head(toServer).cmd # "CAP REQ"
      /\ Head(toServer).cmd # "AUTHENTICATE" /\ Head(toServer).cmd # "PAYLOAD"
  OBVIOUS
<1>told. Told(srv)
  BY DEF Told, SaslSame
<1>3. Ready(Tail(toServer), toClient \o <<>>, srv)
  BY <1>1, <1>2, <1>told, NoReply, QuietAnswer
<1> QED BY <1>1, <1>3, NoReply, ReadingSettles

LEMMA ReadsNick ==
  ASSUME Reading, Head(toServer).cmd = "NICK", AnswerNick(Head(toServer).nick)
  PROVE  Kept'
<1> DEFINE n == Head(toServer).nick
           new == [srv EXCEPT !.nick = n]
           l == [cmd |-> "433", nick |-> n]
<1>1. OnTurn /\ srv \in SrvType /\ n \in Nicks
  BY ReadingFacts, ClientLineFields
<1>2. Settle(new, <<>>) \/ Settle(srv, <<l>>)
  BY DEF AnswerNick
<1>3. n # NoNick
  BY <1>1, ServerAssumption
<1>4. l \in ServerLines /\ l.cmd = "433"
  BY <1>1 DEF ServerLines, NickLines
<1>5. /\ new \in SrvType /\ (new.user <=> srv.user) /\ (new.open <=> srv.open)
      /\ new.late = srv.late /\ new.nick = n
      /\ (new.welcomed <=> srv.welcomed) /\ (new.gone <=> srv.gone)
      /\ SaslSame(new)
  BY <1>1, Named
<1> HIDE DEF n, new, l
<1>6. <<l>> \in Seq(ServerLines)
  BY <1>4, ShortSequences
<1>7. (\A c : Has(<<l>>, c) <=> c = "433") /\ Once(<<l>>, "433")
  BY <1>4, HasLine
<1>8. new.account = srv.account /\ new.mech = srv.mech /\ new.step = srv.step
  BY <1>5 DEF SaslSame
<1>9. Ready(Tail(toServer), toClient \o <<>>, new)
  BY <1>1, <1>3, <1>5, <1>8, NoReply, NickAnswer
<1>10. Ready(Tail(toServer), toClient \o <<l>>, srv)
  BY <1>1, <1>6, <1>7, NickAnswer
<1>11. CASE Settle(new, <<>>)
  BY <1>5, <1>9, <1>11, NoReply, ReadingSettles
<1>12. CASE Settle(srv, <<l>>)
  BY <1>1, <1>6, <1>10, <1>12, ReadingSettles
<1> QED BY <1>2, <1>11, <1>12

LEMMA ReadsCapLs ==
  ASSUME Reading, Head(toServer).cmd = "CAP LS 302",
         NEW reply \in Listings("CAP LS", "CAP LS *", srv.offers),
         Settle([srv EXCEPT !.open = TRUE], reply)
  PROVE  Kept'
<1> DEFINE new == [srv EXCEPT !.open = TRUE]
           LS == "CAP LS"
           More == "CAP LS *"
<1>1. OnTurn /\ srv \in SrvType
  BY ReadingFacts
<1>2. LS \in CapLines /\ More \in CapLines /\ LS # More
  BY DEF CapLines
<1>3. srv.offers \in SUBSET Caps
  BY <1>1, ServerAssumption DEF SrvType
<1>4. /\ reply \in Seq(ServerLines)
      /\ \A d : d # LS /\ d # More => ~Has(reply, d)
      /\ One(reply, LS)
  BY <1>1, <1>2, <1>3, ListingLines
<1>5. /\ new \in SrvType /\ (new.open <=> TRUE) /\ new.late = srv.late
      /\ Aside(new) /\ SaslSame(new)
  BY <1>1, Opened
<1> HIDE DEF new
<1>6. new.account = srv.account /\ new.mech = srv.mech /\ new.step = srv.step
  BY <1>5 DEF SaslSame
<1>7. Ready(Tail(toServer), toClient \o reply, new)
  BY <1>1, <1>4, <1>5, <1>6, ListingAnswer
<1> QED BY <1>4, <1>5, <1>7, ReadingSettles DEF new

\* The acknowledgements of a request.
LEMMA AckLines ==
  ASSUME srv \in SrvType, NEW cs \in SUBSET Caps,
         NEW acks \in Listings("CAP ACK", "CAP ACK", cs)
  PROVE  /\ acks \in Seq(ServerLines) /\ acks # <<>> /\ Head(acks).cmd = "CAP ACK"
         /\ \A d : d # "CAP ACK" => ~Has(acks, d)
<1> DEFINE ACK == "CAP ACK"
<1>1. ACK \in CapLines /\ acks \in Listings(ACK, ACK, cs)
  BY DEF CapLines
<1> HIDE DEF ACK
<1>2. acks \in Seq(ServerLines)
  BY <1>1, ListingLines
<1>3. acks # <<>>
  <2>1. Has(acks, ACK)
    BY <1>1, ListingLines
  <2> QED BY <2>1, HasNothing
<1>4. Head(acks).cmd = ACK
  BY <1>1, ListingLines
<1>5. ASSUME NEW d, d # ACK PROVE ~Has(acks, d)
  BY <1>1, <1>5, ListingLines
<1> QED BY <1>2, <1>3, <1>4, <1>5 DEF ACK

LEMMA ReadsAck ==
  ASSUME Reading, Head(toServer).cmd = "CAP REQ",
         NEW acks \in Listings("CAP ACK", "CAP ACK", Head(toServer).caps),
         Settle([srv EXCEPT !.late = @ \/ ("sasl" \in Head(toServer).caps \ Head(acks).caps)], acks)
  PROVE  Kept'
<1> DEFINE held == "sasl" \in Head(toServer).caps \ Head(acks).caps
           late == srv.late \/ held
           new == [srv EXCEPT !.late = late]
<1>1. OnTurn /\ srv \in SrvType /\ Head(toServer).caps \in SUBSET Caps
  BY ReadingFacts, ClientLineFields
<1>3. /\ acks \in Seq(ServerLines) /\ acks # <<>> /\ Head(acks).cmd = "CAP ACK"
      /\ \A d : d # "CAP ACK" => ~Has(acks, d)
  BY <1>1, AckLines
<1>4. late \in BOOLEAN
  OBVIOUS
<1>5. Settle(new, acks)
  OBVIOUS
<1> HIDE DEF held, late
<1>6. /\ new \in SrvType /\ (new.late <=> late) /\ (new.open <=> srv.open)
      /\ Aside(new) /\ SaslSame(new)
  BY <1>1, <1>4, Delayed
<1> HIDE DEF new
<1>7. new.account = srv.account /\ new.mech = srv.mech /\ new.step = srv.step
  BY <1>6 DEF SaslSame
<1>8. new.late <=> srv.late \/ ("sasl" \in Head(toServer).caps \ Head(acks).caps)
  BY <1>6 DEF held, late
<1>9. Ready(Tail(toServer), toClient \o acks, new)
  BY <1>1, <1>3, <1>6, <1>7, <1>8, AckAnswer
<1> QED BY <1>3, <1>5, <1>6, <1>9, ReadingSettles

LEMMA ReadsNak ==
  ASSUME Reading, Head(toServer).cmd = "CAP REQ",
         Settle(srv, <<CapLine("CAP NAK", Head(toServer).caps)>>)
  PROVE  Kept'
<1> DEFINE l == CapLine("CAP NAK", Head(toServer).caps)
<1>1. OnTurn /\ srv \in SrvType /\ Head(toServer).caps \in SUBSET Caps
  BY ReadingFacts, ClientLineFields
<1>2. l \in ServerLines /\ l.cmd = "CAP NAK" /\ l.caps = Head(toServer).caps
  BY <1>1, CapLineTypes DEF CapLines
<1> HIDE DEF l
<1>3. <<l>> \in Seq(ServerLines)
  BY <1>2, ShortSequences
<1>4. Aside(srv)
  BY Unmoved
<1>5. Ready(Tail(toServer), toClient \o <<l>>, srv)
  BY <1>1, <1>2, <1>4, NakAnswer
<1> QED BY <1>1, <1>3, <1>5, ReadingSettles DEF l

LEMMA ReadsAuthenticate ==
  ASSUME Reading, Head(toServer).cmd = "AUTHENTICATE",
         Settle([srv EXCEPT !.mech = Head(toServer).mech, !.step = 0], <<Line("AUTH +")>>)
  PROVE  Kept'
<1> DEFINE new == [srv EXCEPT !.mech = Head(toServer).mech, !.step = 0]
           reply == <<Line("AUTH +")>>
<1>1. OnTurn /\ srv \in SrvType /\ Head(toServer).mech \in {"plain", "scram"}
  BY ReadingFacts, ClientLineFields
<1>2. /\ new \in SrvType /\ new.mech = Head(toServer).mech /\ new.step = 0
      /\ new.account = srv.account
      /\ new.late = srv.late /\ (new.open <=> srv.open) /\ Aside(new)
  BY <1>1, Chosen
<1> HIDE DEF new
<1>3. reply \in Seq(ServerLines)
  BY PlainServerLine DEF PlainLines
<1>4. \A c : Has(reply, c) => c \in SaslDown
  BY HasLine, LineCmd DEF SaslDown
<1>reply. reply = <<Line("AUTH +")>>
  OBVIOUS
<1> HIDE DEF reply
<1>5. Took(toServer, Head(toServer), Tail(toServer)) /\ SaslInv(toServer, toClient, srv)
  BY <1>1, OnTurnFacts
<1>6. Adds(toClient, reply, toClient \o reply)
  BY <1>1, <1>3, ReplyAdds
<1>7. SaslInv(Tail(toServer), toClient \o reply, new)
  BY <1>2, <1>5, <1>6, <1>reply, SaslInvites
<1>8. Head(toServer).cmd = "AUTHENTICATE" \/ Head(toServer).cmd = "PAYLOAD"
  OBVIOUS
<1>9. srv.account => new.account
  BY <1>2
<1>10. Ready(Tail(toServer), toClient \o reply, new)
  BY <1>1, <1>2, <1>3, <1>4, <1>7, <1>8, <1>9, SaslAnswer
<1> QED BY <1>2, <1>3, <1>10, ReadingSettles DEF new, reply

\* What all three answers to a payload share.
LEMMA PayloadSettles ==
  ASSUME Reading, Head(toServer).cmd = "PAYLOAD",
         NEW reply \in Seq(ServerLines), NEW new \in SrvType, Settle(new, reply),
         SaslInv(Tail(toServer), toClient \o reply, new),
         \A c : Has(reply, c) => c \in SaslDown,
         Aside(new), new.open <=> srv.open, new.late = srv.late, srv.account => new.account
  PROVE  Kept'
<1>0. Head(toServer).cmd = "AUTHENTICATE" \/ Head(toServer).cmd = "PAYLOAD"
  OBVIOUS
<1>1. OnTurn
  BY ReadingFacts
<1>2. Ready(Tail(toServer), toClient \o reply, new)
  BY <1>0, <1>1, SaslAnswer
<1> QED BY <1>2, ReadingSettles

LEMMA ReadsFirst ==
  ASSUME Reading, Head(toServer).cmd = "PAYLOAD", srv.mech = "scram", srv.step = 0,
         Settle([srv EXCEPT !.step = 1], <<Line("AUTH good")>>)
  PROVE  Kept'
<1> DEFINE new == [srv EXCEPT !.step = 1]
           reply == <<Line("AUTH good")>>
<1>1. OnTurn /\ srv \in SrvType
  BY ReadingFacts
<1>2. /\ new \in SrvType /\ new.mech = srv.mech /\ new.step = 1 /\ new.account = srv.account
      /\ new.late = srv.late /\ (new.open <=> srv.open) /\ Aside(new)
  BY <1>1, Stepped
<1> HIDE DEF new
<1>3. reply \in Seq(ServerLines)
  BY PlainServerLine DEF PlainLines
<1>4. \A c : Has(reply, c) => c \in SaslDown
  BY HasLine, LineCmd DEF SaslDown
<1>reply. reply = <<Line("AUTH good")>>
  OBVIOUS
<1> HIDE DEF reply
<1>5. Took(toServer, Head(toServer), Tail(toServer)) /\ SaslInv(toServer, toClient, srv)
  BY <1>1, OnTurnFacts
<1>6. Adds(toClient, reply, toClient \o reply)
  BY <1>1, <1>3, ReplyAdds
<1>7. SaslInv(Tail(toServer), toClient \o reply, new)
  BY <1>2, <1>5, <1>6, <1>reply, SaslChallenges
<1>8. srv.account => new.account
  BY <1>2
<1>9. Settle(new, reply)
  BY DEF new, reply
<1> QED BY <1>2, <1>3, <1>4, <1>7, <1>8, <1>9, PayloadSettles

LEMMA ReadsLast ==
  ASSUME Reading, Head(toServer).cmd = "PAYLOAD", srv.mech = "scram" => srv.step = 1,
         Settle([srv EXCEPT !.account = TRUE], Verdict)
  PROVE  Kept'
<1> DEFINE new == [srv EXCEPT !.account = TRUE]
<1>1. OnTurn /\ srv \in SrvType
  BY ReadingFacts
<1>2. /\ new \in SrvType /\ new.account /\ new.late = srv.late
      /\ (new.open <=> srv.open) /\ Aside(new)
  BY <1>1, Accounted
<1> HIDE DEF new
<1>3. /\ Verdict \in Seq(ServerLines) /\ Has(Verdict, "SASL OK") /\ Once(Verdict, "AUTH good")
      /\ Has(Verdict, "AUTH good") => srv.mech = "scram"
      /\ \A c : Has(Verdict, c) => c = "AUTH good" \/ c = "SASL OK"
  BY VerdictLines
<1>4. \A c : Has(Verdict, c) => c \in SaslDown
  BY <1>3 DEF SaslDown
<1>5. Took(toServer, Head(toServer), Tail(toServer)) /\ SaslInv(toServer, toClient, srv)
  BY <1>1, OnTurnFacts
<1>6. Adds(toClient, Verdict, toClient \o Verdict)
  BY <1>1, <1>3, ReplyAdds
<1>7. ~Has(Verdict, "AUTH +") /\ ~Has(Verdict, "AUTH bad") /\ ~Has(Verdict, "SASL FAILED")
  BY <1>3
<1>8. SaslInv(Tail(toServer), toClient \o Verdict, new)
  BY <1>2, <1>3, <1>5, <1>6, <1>7, SaslGrants
<1>9. Settle(new, Verdict)
  BY DEF new
<1> QED BY <1>2, <1>3, <1>4, <1>8, <1>9, PayloadSettles

LEMMA ReadsRefused ==
  ASSUME Reading, Head(toServer).cmd = "PAYLOAD", Settle(srv, <<Line("SASL FAILED")>>)
  PROVE  Kept'
<1> DEFINE reply == <<Line("SASL FAILED")>>
<1>1. OnTurn /\ srv \in SrvType
  BY ReadingFacts
<1>2. reply \in Seq(ServerLines)
  BY PlainServerLine DEF PlainLines
<1>3. \A c : Has(reply, c) => c \in SaslDown
  BY HasLine, LineCmd DEF SaslDown
<1>reply. reply = <<Line("SASL FAILED")>>
  OBVIOUS
<1> HIDE DEF reply
<1>4. Took(toServer, Head(toServer), Tail(toServer)) /\ SaslInv(toServer, toClient, srv)
  BY <1>1, OnTurnFacts
<1>5. Adds(toClient, reply, toClient \o reply)
  BY <1>1, <1>2, ReplyAdds
<1>6. SaslInv(Tail(toServer), toClient \o reply, srv)
  BY <1>4, <1>5, <1>reply, SaslRefuses
<1>7. Aside(srv) /\ (srv.open <=> srv.open) /\ srv.late = srv.late
  BY Unmoved
<1>8. Settle(srv, reply)
  BY DEF reply
<1> QED BY <1>1, <1>2, <1>3, <1>6, <1>7, <1>8, PayloadSettles

LEMMA ServerReadsParts ==
  ASSUME Wired, Parts(toServer, toClient, srv), nick \in Nicks, ServerReads
  PROVE  Kept'
<1> DEFINE m == Head(toServer)
<1>1. Reading
  BY DEF Reading, OnTurn, ServerReads
<1>2. Answer(m)
  BY DEF ServerReads
<1>3. CASE m.cmd = "CAP LS 302" /\ \E ls \in Listings("CAP LS", "CAP LS *", srv.offers) :
             Settle([srv EXCEPT !.open = TRUE], ls)
  BY <1>1, <1>3, ReadsCapLs
<1>4. CASE m.cmd = "CAP REQ" /\ AnswerReq(m.caps)
  <2>1. \/ \E acks \in Listings("CAP ACK", "CAP ACK", m.caps) :
             Settle([srv EXCEPT !.late = @ \/ ("sasl" \in m.caps \ Head(acks).caps)], acks)
        \/ Settle(srv, <<CapLine("CAP NAK", m.caps)>>)
    BY <1>4 DEF AnswerReq
  <2> QED BY <1>1, <1>4, <2>1, ReadsAck, ReadsNak
<1>5. CASE m.cmd = "CAP END" /\ Settle([srv EXCEPT !.open = FALSE], <<>>)
  BY <1>1, <1>5, ReadsCapEnd
<1>6. CASE m.cmd = "NICK" /\ AnswerNick(m.nick)
  BY <1>1, <1>6, ReadsNick
<1>7. CASE m.cmd = "USER" /\ Settle([srv EXCEPT !.user = TRUE], <<>>)
  BY <1>1, <1>7, ReadsUser
<1>8. CASE /\ m.cmd = "AUTHENTICATE"
           /\ Settle([srv EXCEPT !.mech = m.mech, !.step = 0], <<Line("AUTH +")>>)
  BY <1>1, <1>8, ReadsAuthenticate
<1>9. CASE m.cmd = "PAYLOAD" /\ AnswerPayload
  <2>1. \/ /\ srv.mech = "scram" /\ srv.step = 0
           /\ Settle([srv EXCEPT !.step = 1], <<Line("AUTH good")>>)
        \/ /\ srv.mech = "scram" => srv.step = 1
           /\ Settle([srv EXCEPT !.account = TRUE], Verdict)
        \/ Settle(srv, <<Line("SASL FAILED")>>)
    BY <1>9 DEF AnswerPayload, Verdict
  <2> QED BY <1>1, <1>9, <2>1, ReadsFirst, ReadsLast, ReadsRefused
<1>10. CASE m.cmd = "QUIT" /\ Settle([srv EXCEPT !.gone = TRUE], <<Line("ERROR")>>)
  BY <1>1, <1>10, ReadsQuit
<1>11. CASE m.cmd \in {"PASS", "PONG"} /\ Settle(srv, <<>>)
  BY <1>1, <1>11, ReadsIdle
<1> QED BY <1>2, <1>3, <1>4, <1>5, <1>6, <1>7, <1>8, <1>9, <1>10, <1>11 DEF Answer

-----------------------------------------------------------------------------
(* Lines nobody asked for *)

LEMMA AppendConcat ==
  ASSUME NEW S, NEW q \in Seq(S), NEW l \in S
  PROVE  Append(q, l) = q \o <<l>> /\ Append(q, l) \in Seq(S)
OBVIOUS

\* A line m more for the client, while the server is past the registration or not.
Volunteered(l, new) ==
  /\ UNCHANGED vars /\ toServer' = toServer /\ srv' = new /\ toClient' = Append(toClient, l)

LEMMA VolunteeredKept ==
  ASSUME Kept, NEW l \in ServerLines, NEW new \in SrvType, Volunteered(l, new),
         l.cmd \notin SaslDown, l.cmd # "CAP LS", l.cmd # "CAP ACK", l.cmd # "CAP NAK",
         l.cmd # "433", l.cmd # "001",
         l.cmd = "NICK" => srv.welcomed,
         ChainInv(toClient \o <<l>>, new),
         new.nick = srv.nick \/ (srv.welcomed /\ new.nick # NoNick),
         new.welcomed <=> srv.welcomed, new.user <=> srv.user, new.gone <=> srv.gone,
         new.open <=> srv.open, new.late = srv.late, SaslSame(new)
  PROVE  Kept'
<1> DEFINE more == toClient \o <<l>>
<1>1. /\ toClient \in Seq(ServerLines) /\ toServer \in Seq(ClientLines) /\ srv \in SrvType
      /\ Parts(toServer, toClient, srv)
  BY DEF Kept, Wired
<1>2. /\ UNCHANGED vars /\ toServer' = toServer /\ srv' = new /\ toClient' = more
      /\ more \in Seq(ServerLines)
  BY <1>1, AppendConcat DEF Volunteered
<1>3. Adds(toClient, <<l>>, more)
  BY <1>1, ShortSequences, AddsReply
<1>4. \A c : (Has(<<l>>, c) <=> l.cmd = c) /\ Once(<<l>>, c)
  BY HasLine
<1>5. new.account = srv.account /\ new.mech = srv.mech /\ new.step = srv.step
  BY DEF SaslSame
<1>6. /\ SaslInv(toServer, toClient, srv) /\ CapInv(toServer, toClient, srv)
      /\ GateInv(toServer, toClient, srv) /\ TornInv(srv) /\ NickInv(toServer, toClient, srv)
      /\ EarlyInv(toServer, toClient, srv)
      /\ ~WritesMayFail => Underway(toServer, toClient, srv) /\ Settled(srv)
  BY <1>1 DEF Parts, OwedInv
<1>7. SaslInv(toServer, more, new)
  BY <1>3, <1>5, <1>6, SaslNews
<1>8. CapInv(toServer, more, new)
  BY <1>1, <1>5, <1>6, CapNews
<1> HIDE DEF more
<1>9. /\ ~Has(<<l>>, "433") /\ ~Has(<<l>>, "001")
      /\ Has(<<l>>, "NICK") => srv.welcomed
  BY <1>4
<1>10. /\ Has(more, "433") <=> Has(toClient, "433")
       /\ Once(toClient, "433") => Once(more, "433")
       /\ Has(more, "001") <=> Has(toClient, "001")
  BY <1>3, <1>9, KeepsDown
<1>11. Has(more, "NICK") <=> Has(toClient, "NICK") \/ Has(<<l>>, "NICK")
  BY <1>3 DEF Adds
<1>12. Has(toClient, "REJECTED") => Has(more, "REJECTED")
  BY <1>3 DEF Adds
<1>13. GateInv(toServer, more, new)
  BY <1>6, <1>10 DEF GateInv
<1>14. NickInv(toServer, more, new)
  BY <1>6, <1>9, <1>10, <1>11 DEF NickInv
<1>15. TornInv(new)
  BY <1>6 DEF TornInv
<1>16. ~WritesMayFail => Underway(toServer, more, new)
  BY <1>6, <1>10, <1>12 DEF Underway, NickInv
<1>17. Ready(toServer, more, new)
  BY <1>7, <1>8, <1>13, <1>14, <1>15, <1>16 DEF Ready, more
<1>18. ~Early \/ EarlyInv(toServer, more, new)
  <2> SUFFICES ASSUME Early PROVE EarlyInv(toServer, more, new)
    OBVIOUS
  <2>1. /\ toServer = <<>> /\ srv.nick = NoNick /\ ~srv.account /\ ~srv.gone
        /\ ~srv.welcomed
        /\ ~Has(toClient, "433")
        /\ ~Has(toClient, "CAP LS") /\ ~Has(toClient, "CAP ACK") /\ ~Has(toClient, "CAP NAK")
        /\ ~Has(toClient, "AUTH +") /\ ~Has(toClient, "AUTH good")
        /\ ~Has(toClient, "SASL OK") /\ ~Has(toClient, "SASL FAILED")
    BY <1>6 DEF EarlyInv, NickInv
  <2>2. \A c \in SaslDown : Has(more, c) => Has(toClient, c)
    BY <1>3, <1>4 DEF Adds
  <2>3. /\ ~Has(more, "AUTH +") /\ ~Has(more, "AUTH good")
        /\ ~Has(more, "SASL OK") /\ ~Has(more, "SASL FAILED")
    BY <2>1, <2>2 DEF SaslDown
  <2>4. ~Has(more, "CAP LS") /\ ~Has(more, "CAP ACK") /\ ~Has(more, "CAP NAK")
    BY <1>3, <1>4, <2>1 DEF Adds
  <2>5. new.nick = NoNick /\ ~new.account /\ ~new.gone
    BY <1>5, <2>1
  <2> QED BY <1>10, <2>1, <2>3, <2>4, <2>5 DEF EarlyInv
<1>19. WritesMayFail \/ Settled(new)
  BY <1>6 DEF Settled, NickInv
<1>20. Parts(toServer, toClient, srv)'
  BY <1>2, <1>17, <1>18, <1>19, Carried
<1> QED BY <1>1, <1>2, <1>20 DEF Kept, Wired

\* News of the offer, and PING.
LEMMA NewsKept ==
  ASSUME Kept, NEW l \in ServerLines, NEW new \in SrvType, Volunteered(l, new),
         l.cmd \in {"CAP NEW", "CAP DEL", "PING"},
         Aside(new), new.open <=> srv.open, new.late = srv.late, SaslSame(new)
  PROVE  Kept'
<1>1. /\ l.cmd \notin SaslDown /\ l.cmd # "CAP LS" /\ l.cmd # "CAP ACK" /\ l.cmd # "CAP NAK"
      /\ l.cmd # "433" /\ l.cmd # "001" /\ l.cmd # "NICK"
  BY DEF SaslDown
<1>2. /\ new.nick = srv.nick /\ (new.welcomed <=> srv.welcomed) /\ (new.user <=> srv.user)
      /\ (new.gone <=> srv.gone)
  BY DEF Aside
<1>3. /\ toClient \in Seq(ServerLines) /\ srv \in SrvType
      /\ ChainInv(toClient, srv) /\ NickInv(toServer, toClient, srv)
  BY DEF Kept, Wired, Parts
<1>4. ~Has(<<l>>, "001") /\ ~Has(<<l>>, "NICK")
  BY <1>1, HasLine
<1>5. <<l>> \in Seq(ServerLines)
  BY ShortSequences
<1>6. srv.nick \in Nicks \cup {NoNick} /\ (srv.welcomed => srv.nick # NoNick)
  BY <1>3, NickOrNone DEF NickInv
<1>7. ChainInv(toClient \o <<l>>, new)
  BY <1>2, <1>3, <1>4, <1>5, <1>6, ChainStays
<1> QED BY <1>1, <1>2, <1>7, VolunteeredKept

\* A new nickname, the user's or another's.
LEMMA RenameKept ==
  ASSUME Kept, NEW l \in ServerLines, NEW new \in SrvType, Volunteered(l, new),
         l.cmd = "NICK", srv.welcomed, new.nick = Called(l, srv.nick), new.nick \in Nicks,
         new.welcomed <=> srv.welcomed, new.user <=> srv.user, new.gone <=> srv.gone,
         new.open <=> srv.open, new.late = srv.late, SaslSame(new)
  PROVE  Kept'
<1>1. l.cmd \notin SaslDown /\ l.cmd # "CAP LS" /\ l.cmd # "CAP ACK" /\ l.cmd # "CAP NAK"
      /\ l.cmd # "433" /\ l.cmd # "001"
  BY DEF SaslDown
<1>2. toClient \in Seq(ServerLines) /\ ChainInv(toClient, srv)
  BY DEF Kept, Wired, Parts
<1>3. ChainInv(toClient \o <<l>>, new)
  BY <1>2, ChainGrows
<1>4. new.nick # NoNick
  BY ServerAssumption
<1> QED BY <1>1, <1>3, <1>4, VolunteeredKept

LEMMA NickLineTypes ==
  ASSUME NEW o \in Nicks, NEW n \in Nicks
  PROVE  LET l == [cmd |-> "NICK", old |-> o, new |-> n]
         IN  l \in ServerLines /\ l.cmd = "NICK" /\ l.old = o /\ l.new = n
BY DEF ServerLines

LEMMA ServerVolunteersKept ==
  ASSUME Kept, ServerVolunteers
  PROVE  Kept'
<1>0. srv \in SrvType /\ NickInv(toServer, toClient, srv)
  BY DEF Kept, Wired, Parts
<1>1. UNCHANGED vars /\ toServer' = toServer
  BY DEF ServerVolunteers
<1>2. srv.offers \in SUBSET Caps
  BY <1>0, ServerAssumption DEF SrvType
<1>3. ASSUME NEW c \in Caps, NEW cs \in SUBSET Caps, NEW k \in {"CAP NEW", "CAP DEL"},
             srv' = [srv EXCEPT !.offers = cs], toClient' = Append(toClient, CapLine(k, {c}))
      PROVE  Kept'
  <2> DEFINE l == CapLine(k, {c})
             new == [srv EXCEPT !.offers = cs]
  <2>0. k \in CapLines /\ {c} \in SUBSET Caps
    BY DEF CapLines
  <2>1. l \in ServerLines /\ l.cmd = k
    BY <1>0, <2>0, CapLineTypes
  <2>2. /\ new \in SrvType /\ new.late = srv.late /\ (new.open <=> srv.open)
        /\ Aside(new) /\ SaslSame(new)
    BY <1>0, Offering
  <2>3. Volunteered(l, new)
    BY <1>1, <1>3 DEF Volunteered
  <2> HIDE DEF l, new
  <2>4. l.cmd \in {"CAP NEW", "CAP DEL", "PING"}
    BY <2>1
  <2> QED BY <2>1, <2>2, <2>3, <2>4, NewsKept
<1>4. CASE \E c \in Caps \ srv.offers :
             /\ srv' = [srv EXCEPT !.offers = @ \cup {c}]
             /\ toClient' = Append(toClient, CapLine("CAP NEW", {c}))
  <2>1. PICK c \in Caps \ srv.offers :
             /\ srv' = [srv EXCEPT !.offers = srv.offers \cup {c}]
             /\ toClient' = Append(toClient, CapLine("CAP NEW", {c}))
    BY <1>4
  <2>2. srv.offers \cup {c} \in SUBSET Caps
    BY <1>2
  <2> QED BY <1>3, <2>1, <2>2
<1>5. CASE \E c \in srv.offers :
             /\ srv' = [srv EXCEPT !.offers = @ \ {c}]
             /\ toClient' = Append(toClient, CapLine("CAP DEL", {c}))
  <2>1. PICK c \in srv.offers :
             /\ srv' = [srv EXCEPT !.offers = srv.offers \ {c}]
             /\ toClient' = Append(toClient, CapLine("CAP DEL", {c}))
    BY <1>5
  <2>2. srv.offers \ {c} \in SUBSET Caps /\ c \in Caps
    BY <1>2
  <2> QED BY <1>3, <2>1, <2>2
<1>6. CASE \E n \in Nicks \ {srv.nick} :
             /\ srv.welcomed
             /\ srv' = [srv EXCEPT !.nick = n]
             /\ toClient' = Append(toClient, [cmd |-> "NICK", old |-> srv.nick, new |-> n])
  <2>1. PICK n \in Nicks \ {srv.nick} :
             /\ srv.welcomed
             /\ srv' = [srv EXCEPT !.nick = n]
             /\ toClient' = Append(toClient, [cmd |-> "NICK", old |-> srv.nick, new |-> n])
    BY <1>6
  <2>2. srv.nick \in Nicks /\ n \in Nicks
    BY <1>0, <2>1, NickOrNone DEF NickInv
  <2> DEFINE l == [cmd |-> "NICK", old |-> srv.nick, new |-> n]
             new == [srv EXCEPT !.nick = n]
  <2>3. l \in ServerLines /\ l.cmd = "NICK" /\ l.old = srv.nick /\ l.new = n
    BY <2>2, NickLineTypes
  <2>4. /\ new \in SrvType /\ (new.user <=> srv.user) /\ (new.open <=> srv.open)
        /\ new.late = srv.late /\ new.nick = n
        /\ (new.welcomed <=> srv.welcomed) /\ (new.gone <=> srv.gone)
        /\ SaslSame(new)
    BY <1>0, <2>2, Named
  <2>5. Volunteered(l, new) /\ srv.welcomed
    BY <1>1, <2>1 DEF Volunteered
  <2> HIDE DEF l, new
  <2>6. new.nick = Called(l, srv.nick) /\ new.nick \in Nicks
    BY <2>2, <2>3, <2>4 DEF Called
  <2> QED BY <2>3, <2>4, <2>5, <2>6, RenameKept
<1>7. CASE \E n, o \in Nicks \ {srv.nick} :
             /\ srv.welcomed
             /\ toClient' = Append(toClient, [cmd |-> "NICK", old |-> o, new |-> n])
             /\ UNCHANGED srv
  <2>1. PICK n, o \in Nicks \ {srv.nick} :
             /\ srv.welcomed
             /\ toClient' = Append(toClient, [cmd |-> "NICK", old |-> o, new |-> n])
             /\ UNCHANGED srv
    BY <1>7
  <2>2. srv.nick \in Nicks /\ n \in Nicks /\ o \in Nicks /\ o # srv.nick
    BY <1>0, <2>1, NickOrNone DEF NickInv
  <2> DEFINE l == [cmd |-> "NICK", old |-> o, new |-> n]
  <2>3. l \in ServerLines /\ l.cmd = "NICK" /\ l.old = o /\ l.new = n
    BY <2>2, NickLineTypes
  <2>4. Volunteered(l, srv) /\ srv.welcomed
    BY <1>1, <2>1 DEF Volunteered
  <2> HIDE DEF l
  <2>5. srv.nick = Called(l, srv.nick)
    BY <2>2, <2>3 DEF Called
  <2>6. SaslSame(srv)
    BY Unmoved
  <2> QED BY <1>0, <2>2, <2>3, <2>4, <2>5, <2>6, RenameKept
<1>8. CASE toClient' = Append(toClient, Line("PING")) /\ UNCHANGED srv
  <2> DEFINE l == Line("PING")
  <2>1. l \in ServerLines /\ l.cmd = "PING"
    BY PlainServerLine DEF PlainLines, Line
  <2>2. Volunteered(l, srv)
    BY <1>1, <1>8 DEF Volunteered
  <2> HIDE DEF l
  <2>3. l.cmd \in {"CAP NEW", "CAP DEL", "PING"}
    BY <2>1
  <2> QED BY <1>0, <2>1, <2>2, <2>3, Unmoved, NewsKept
<1> QED BY <1>4, <1>5, <1>6, <1>7, <1>8 DEF ServerVolunteers

-----------------------------------------------------------------------------
(* The invariant *)

\* The lists of capabilities are no more than the session expects of them.
RInv == IInv /\ Kept /\ extras \in 0..MaxExtras

LEMMA FirstServer ==
  ASSUME NEW r \in [offers : CapLists, scram : BOOLEAN, nick : {NoNick}, user : {FALSE},
                    open : {FALSE}, mech : {"none"}, step : {0}, account : {FALSE},
                    welcomed : {FALSE}, gone : {FALSE}, late : {FALSE}]
  PROVE  /\ r \in SrvType
         /\ r.nick = NoNick /\ ~r.user /\ ~r.open /\ ~r.account
         /\ ~r.welcomed /\ ~r.gone /\ ~r.late
<1>1. 0 \in 0..1 /\ FALSE \in BOOLEAN
  OBVIOUS
<1> QED BY <1>1 DEF SrvType

LEMMA CountsUp ==
  ASSUME NEW m \in Nat, NEW n \in 0..m, n < m
  PROVE  n + 1 \in 0..m
OBVIOUS

LEMMA RInitInv == RInit => RInv
<1> SUFFICES ASSUME RInit PROVE RInv
  OBVIOUS
<1>1. IInv
  BY InitInv DEF RInit
<1>2. toServer = <<>> /\ toClient = <<>> /\ extras \in 0..MaxExtras
  BY ServerAssumption DEF RInit
<1>3. srv \in SrvType
  BY FirstServer DEF RInit
<1>4. /\ srv.nick = NoNick /\ ~srv.user /\ ~srv.open /\ ~srv.account
      /\ ~srv.welcomed /\ ~srv.gone /\ ~srv.late
  BY FirstServer DEF RInit
<1>5. /\ pc = "start" /\ ~registered /\ ~capEndSent /\ reason = "connection closed"
      /\ sasl.mech = "none" /\ ~sasl.active /\ ~sasl.done
  BY DEF RInit, Init
<1>6. \A c : ~Has(toServer, c) /\ ~Has(toClient, c) /\ Once(toServer, c) /\ Once(toClient, c)
  BY <1>2, HasNothing, OnceNothing
<1>7. Early /\ Fresh
  BY <1>5 DEF Early, Fresh
<1>8. EarlyInv(toServer, toClient, srv)
  BY <1>2, <1>4, <1>6 DEF EarlyInv
<1>9. SaslInv(toServer, toClient, srv)
  <2>1. SaslIdle(toServer, toClient, srv)
    BY <1>4, <1>5, <1>6 DEF SaslIdle, NoSaslUp, NoSaslDown
  <2> QED BY <1>5, <1>6, <2>1 DEF SaslInv
<1>10. CapInv(toServer, toClient, srv)
  <2>1. CapNotBegun(toServer, toClient)
    BY <1>6, <1>7 DEF CapNotBegun, NoCapUp, NoCapDown
  <2> QED BY <1>5, <2>1 DEF CapInv
<1>11. Behind(toServer, "USER", "CAP LS 302")
  BY <1>6 DEF Behind, Has
<1>12. GateInv(toServer, toClient, srv)
  BY <1>4, <1>5, <1>6, <1>11 DEF GateInv
<1>13. TornInv(srv) /\ NickInv(toServer, toClient, srv) /\ ChainInv(toClient, srv)
  BY <1>4, <1>5, <1>6 DEF TornInv, NickInv, ChainInv
<1>14. OwedInv(toServer, toClient, srv)
  BY <1>4, <1>5, <1>6 DEF OwedInv, Underway, Settled
<1>15. Wired
  <2>1. <<>> \in Seq(ClientLines) /\ <<>> \in Seq(ServerLines)
    OBVIOUS
  <2> QED BY <1>2, <1>3, <2>1 DEF Wired
<1> QED BY <1>1, <1>2, <1>8, <1>9, <1>10, <1>12, <1>13, <1>14, <1>15 DEF RInv, Kept, Parts

\* Every step is one of the session, or leaves it alone.
LEMMA SessionSteps ==
  ASSUME Wired, [RNext]_rvars
  PROVE  [Next]_vars
<1>1. CASE toClient # <<>> /\ ReadLine(Head(toClient))
  <2>1. Head(toClient) \in ServerLines
    BY <1>1, TailLines DEF Wired
  <2>2. ServerStep
    BY <1>1, <2>1 DEF ServerStep
  <2> QED BY <2>2 DEF Next
<1>2. CASE Start \/ Connected \/ Handshake \/ Close
  BY <1>2 DEF Next, OwnStep
<1>3. CASE ServerReads \/ ServerVolunteers
  BY <1>3 DEF ServerReads, ServerVolunteers
<1>4. CASE UNCHANGED rvars
  BY <1>4 DEF rvars
<1> QED BY <1>1, <1>2, <1>3, <1>4 DEF RNext, ClientStep

LEMMA ClientStepKept ==
  ASSUME RInv, IInv', ClientStep
  PROVE  Kept'
<1>1. /\ Wired /\ Parts(toServer, toClient, srv) /\ TypeOK /\ toServer \in Seq(ClientLines)
      /\ toClient \in Seq(ServerLines) /\ srv \in SrvType
  BY DEF RInv, Kept, Wired, IInv
<1>2. sent' \in Seq(ClientLines)
  BY DEF IInv, TypeOK
<1>3. toServer' = toServer \o sent' /\ srv' = srv
  BY DEF ClientStep
<1>4. toServer' \in Seq(ClientLines)
  BY <1>1, <1>2, <1>3
<1>5. CASE toClient # <<>> /\ ReadLine(Head(toClient)) /\ toClient' = Tail(toClient)
  <2>1. pc = "loop"
    BY <1>5 DEF ReadLine
  <2>2. ClientTurn
    BY <1>1, <1>2, <1>3, <1>5, <2>1 DEF ClientTurn
  <2>3. reason = "connection closed"
    BY <2>1 DEF RInv, IInv, LifeCycle
  <2>4. Parts(toServer, toClient, srv)'
    BY <1>1, <2>2, <2>3, ClientReads
  <2>5. toClient' \in Seq(ServerLines)
    BY <1>1, <1>5
  <2> QED BY <1>1, <1>3, <1>4, <2>4, <2>5 DEF Kept, Wired
<1>6. CASE Handshake /\ toClient' = toClient
  <2>1. Parts(toServer, toClient, srv)'
    BY <1>1, <1>2, <1>3, <1>6, HandshakeParts
  <2> QED BY <1>1, <1>3, <1>4, <1>6, <2>1 DEF Kept, Wired
<1>7. CASE (Start \/ Connected \/ Close) /\ toClient' = toClient
  <2>1. UNCHANGED <<cfg, ident, nego, reason>> /\ sent' = <<>>
    BY <1>7 DEF Start, Connected, Close, Send
  <2>2. toServer' = toServer
    BY <1>1, <1>3, <2>1
  <2>3. (pc' = "loop" => pc = "loop") /\ (Early' => Early)
    BY <1>7 DEF Start, Connected, Close, Early
  <2>4. Parts(toServer, toClient, srv)'
    BY <1>1, <1>3, <1>7, <2>1, <2>2, <2>3, LifeParts
  <2> QED BY <1>1, <1>3, <1>4, <1>7, <2>4 DEF Kept, Wired
<1> QED BY <1>5, <1>6, <1>7 DEF ClientStep

LEMMA RStepInv == RInv /\ [RNext]_rvars => RInv'
<1> SUFFICES ASSUME RInv, [RNext]_rvars PROVE RInv'
  OBVIOUS
<1>0. IInv /\ Kept /\ Wired /\ Parts(toServer, toClient, srv) /\ nick \in Nicks
  BY DEF RInv, Kept, IInv, TypeOK
<1>1. IInv'
  <2>1. [Next]_vars
    BY <1>0, SessionSteps
  <2> QED BY <1>0, <2>1, StepInv
<1>2. extras' \in 0..MaxExtras
  <2>1. extras \in 0..MaxExtras /\ MaxExtras \in Nat
    BY ServerAssumption DEF RInv
  <2>2. extras' = extras \/ (extras < MaxExtras /\ extras' = extras + 1)
    BY DEF RNext, ClientStep, ServerReads, ServerVolunteers, rvars
  <2> QED BY <2>1, <2>2, CountsUp
<1>3. CASE ClientStep
  <2>1. Kept'
    BY <1>1, <1>3, ClientStepKept
  <2> QED BY <1>1, <1>2, <2>1 DEF RInv
<1>4. CASE ServerReads
  <2>1. Kept'
    BY <1>0, <1>4, ServerReadsParts
  <2> QED BY <1>1, <1>2, <2>1 DEF RInv
<1>5. CASE ServerVolunteers
  <2>1. Kept'
    BY <1>0, <1>5, ServerVolunteersKept
  <2> QED BY <1>1, <1>2, <2>1 DEF RInv
<1>6. CASE UNCHANGED rvars
  <2>1. UNCHANGED <<vars, toServer, toClient, srv>>
    BY <1>6 DEF rvars
  <2>2. Wired'
    BY <1>0, <2>1 DEF Wired
  <2>3. Ready(toServer, toClient, srv) /\ (WritesMayFail \/ Settled(srv))
        /\ EarlyInv(toServer, toClient, srv)
    BY <1>0 DEF Parts, OwedInv, Ready
  <2>4. Parts(toServer, toClient, srv)'
    BY <2>1, <2>3, Carried
  <2>5. Kept'
    BY <2>2, <2>4 DEF Kept
  <2> QED BY <1>1, <1>2, <2>5 DEF RInv
<1> QED BY <1>3, <1>4, <1>5, <1>6 DEF RNext

\* RInv is an invariant of the session against a server that keeps to the protocol.
THEOREM RInvariance == RSpec => []RInv
BY RInitInv, RStepInv, PTL DEF RSpec

-----------------------------------------------------------------------------
(* What it is for *)

\* The session against this server is the session of KircSession: every step of the two
\* together is a step of the session alone, or leaves it as it was.
THEOREM RegistrationIsSession == RSpec => Spec
<1>1. RInit => Init
  BY DEF RInit
<1>2. RInv /\ [RNext]_rvars => [Next]_vars
  BY SessionSteps DEF RInv, Kept
<1> QED BY <1>1, <1>2, RInvariance, PTL DEF RSpec, Spec

\* The types of the session, of the lines in each direction, and of the server.
THEOREM RTypeCorrect == RSpec => []RTypeOK
<1>1. RInv => RTypeOK
  BY DEF RInv, IInv, Kept, Wired, SrvType, RTypeOK
<1> QED BY <1>1, RInvariance, PTL

\* With credentials configured, 001 comes only once the account is the session's, or
\* the server acknowledged sasl in a second line.
THEOREM LoggedInBeforeWelcomeHolds == RSpec => []LoggedInBeforeWelcome
<1>1. ASSUME RInv PROVE LoggedInBeforeWelcome
  <2>1. GateInv(toServer, toClient, srv) /\ CapInv(toServer, toClient, srv)
    BY <1>1 DEF RInv, Kept, Parts
  <2> QED BY <2>1 DEF GateInv, CapInv, LoggedInBeforeWelcome
<1> QED BY <1>1, RInvariance, PTL

\* A session is torn down over SASL or the capabilities only before its 001.
THEOREM WelcomedKeepsSessionHolds == RSpec => []WelcomedKeepsSession
<1>1. ASSUME RInv PROVE WelcomedKeepsSession
  <2>1. TornInv(srv)
    BY <1>1 DEF RInv, Kept, Parts
  <2> QED BY <2>1 DEF TornInv, WelcomedKeepsSession
<1> QED BY <1>1, RInvariance, PTL

\* With nothing left to read, a registered client goes by the server's name for it.
THEOREM NickAgreementHolds == RSpec => []NickAgreement
<1>1. ASSUME RInv PROVE NickAgreement
  <2>1. /\ GateInv(toServer, toClient, srv) /\ ChainInv(toClient, srv)
    BY <1>1 DEF RInv, Kept, Parts
  <2> SUFFICES ASSUME registered, pc = "loop", toClient = <<>> PROVE nick = srv.nick
    BY DEF NickAgreement
  <2>2. srv.welcomed
    BY <2>1 DEF GateInv
  <2>3. PICK f \in [0..Len(toClient) -> Nicks] : Leads(f, toClient, nick, srv.nick)
    BY <2>1, <2>2 DEF ChainInv
  <2>4. Len(toClient) = 0
    OBVIOUS
  <2> QED BY <2>3, <2>4 DEF Leads
<1> QED BY <1>1, RInvariance, PTL

\* Nothing is under way in any conversation when nothing is under way at all.
LEMMA NothingUnderway ==
  ASSUME RInv, ~WritesMayFail, pc = "loop", toServer = <<>>, toClient = <<>>
  PROVE  registered
<1>1. \A c : ~Has(toServer, c) /\ ~Has(toClient, c)
  BY HasNothing
<1>2. /\ SaslInv(toServer, toClient, srv) /\ CapInv(toServer, toClient, srv)
      /\ Underway(toServer, toClient, srv) /\ Settled(srv)
  BY DEF RInv, Kept, Parts, OwedInv
<1>3. /\ registered \/ srv.nick # NoNick
      /\ srv.user /\ (capEndSent => ~srv.open)
      /\ (srv.welcomed => registered) /\ (srv.gone => registered)
  BY <1>1, <1>2 DEF Underway
<1>4. capEndSent
  <2>1. ~Early
    BY DEF Early
  <2>2. CapAnswered(toServer, toClient, srv)
    BY <1>1, <1>2, <2>1 DEF CapInv, CapNotBegun, CapListing, CapListed, CapRequested, CapDenied,
                            One
  <2>3. capEndSent \/ sasl.active \/ sasl.done
    BY <1>1, <2>2 DEF CapAnswered
  <2>4. SaslIdle(toServer, toClient, srv) \/ SaslGranted(toServer, toClient, srv)
    BY <1>1, <1>2 DEF SaslInv, SaslAsked, SaslInvited, SaslOffered, SaslChallenged,
                      SaslRefused, SaslOver, One
  <2> QED BY <1>1, <2>3, <2>4 DEF SaslIdle, SaslGranted
<1> QED BY <1>2, <1>3, <1>4 DEF Settled

\* The handshake never wedges, while every write goes through: with the client up and
\* nothing under way in either direction, it is registered.
THEOREM HandshakeNeverWedgesHolds ==
  ASSUME ~WritesMayFail
  PROVE  RSpec => []HandshakeNeverWedges
<1>1. RInv => HandshakeNeverWedges
  BY NothingUnderway DEF HandshakeNeverWedges
<1> QED BY <1>1, RInvariance, PTL
=============================================================================
