---------------------------- MODULE KircChatProofs ----------------------------
(***************************************************************************)
(* Proofs about KircChat, for any clients, capabilities and bounds.        *)
(*                                                                         *)
(* Of each message the invariant says where it is on its way to each       *)
(* client: with who said it, on the wire, or taken in; what the client     *)
(* shows and answers is what it has taken in.  Of each history it says     *)
(* how much the server has sent and how much the client has taken in, and  *)
(* that the wire carries what is in between.                               *)
(***************************************************************************)
EXTENDS KircChat, SequenceTheorems, FiniteSetTheorems, FunctionTheorems, TLAPS

-----------------------------------------------------------------------------
(* Types *)

Messages ==
  [from : Clients, target : Targets, kind : {"chat", "request", "reply"}, re : Nat]
Said == {"PRIVMSG", "NOTICE"}
Commands == [cmd : Said, id : Nat, batch : {0}] \cup [cmd : {"CHATHISTORY"}, target : Targets, limit : Limits]
Lines ==
  [cmd : Said, id : Nat, batch : Nat]
    \cup [cmd : {"OPEN"}, batch : Nat, target : Targets] \cup [cmd : {"CLOSE"}, batch : Nat]
Histories == [to : Clients, target : Targets, list : Seq(Nat)]
Batches == [batch : Nat, target : Targets, messages : Seq(Nat)]
Entries == [id : Nat, batch : Nat]

TypeOK ==
  /\ said \in Seq(Messages) /\ log \in [Conversations -> Seq(Nat)]
  /\ served \in Seq(Histories) /\ left \in Seq(Seq(Nat)) /\ Len(left) = Len(served)
  /\ up \in [Clients -> Seq(Commands)] /\ down \in [Clients -> Seq(Lines)]
  /\ echo \in [Clients -> BOOLEAN] /\ batches \in [Clients -> SUBSET Batches]
  /\ rows = [c \in Clients |-> rows[c]] /\ \A c \in Clients : rows[c] \in [Buffers(c) -> Seq(Entries)]

-----------------------------------------------------------------------------
(* What the invariant is made of *)

\* Chat of the conversation v, each message of it once.
ChatOf(v, list) ==
  /\ \A k \in DOMAIN list :
       list[k] \in Ids /\ said[list[k]].kind = "chat"
         /\ Between(said[list[k]].from, said[list[k]].target) = v
  /\ \A j, k \in DOMAIN list : list[j] = list[k] => j = k

\* Nobody writes to themselves, and only a reply is to something.
SaidOK ==
  /\ \A i \in Ids : said[i].target # said[i].from /\ said[i].re <= Len(said)
  /\ \A i \in Ids : said[i].kind # "reply" => said[i].re = 0

LogOK ==
  /\ \A v \in Conversations : ChatOf(v, log[v])
  /\ \A r \in DOMAIN served :
       /\ served[r].target # served[r].to /\ Len(served[r].list) <= MaxHistory
       /\ ChatOf(Between(served[r].to, served[r].target), served[r].list)

\* What the numbers in a line, a batch and a row are those of.
OfBatch(c, t, r) == r \in DOMAIN served /\ served[r].to = c /\ served[r].target = t

CommandOK(c, l) ==
  /\ l.cmd \in Said => /\ l.id \in Ids /\ said[l.id].from = c
                       /\ l.cmd = "NOTICE" <=> said[l.id].kind = "reply"
  /\ l.cmd = "CHATHISTORY" => l.target # c

LineOK(c, l) ==
  /\ l.cmd \in Said => /\ l.id \in Ids /\ Member(c, l.id)
                       /\ l.cmd = "NOTICE" <=> said[l.id].kind = "reply"
                       /\ l.batch # 0 => /\ l.batch \in DOMAIN served
                                         /\ served[l.batch].to = c
                                         /\ said[l.id].kind = "chat"
                                         /\ Conversation(c, l.id) = served[l.batch].target
  /\ l.cmd = "OPEN" => OfBatch(c, l.target, l.batch)
  /\ l.cmd = "CLOSE" => l.batch \in DOMAIN served /\ served[l.batch].to = c

WiresOK ==
  \A c \in Clients :
    /\ \A l \in Range(up[c]) : CommandOK(c, l)
    /\ \A l \in Range(down[c]) : LineOK(c, l)

HeldOK ==
  \A c \in Clients :
    /\ \A b \in batches[c] : OfBatch(c, b.target, b.batch)
    /\ \A t \in Buffers(c) : \A e \in Range(rows[c][t]) :
         e.id \in Ids /\ (e.batch # 0 => OfBatch(c, t, e.batch))

-----------------------------------------------------------------------------
(* A message *)

Single(S) == \A x, y \in S : x = y

\* Where a message is on a wire or in a buffer, told live, and what answers it.
LiveAt(wire, i) == {k \in DOMAIN wire : wire[k].cmd \in Said /\ wire[k].id = i /\ wire[k].batch = 0}
ShownAt(shown, i) == {k \in DOMAIN shown : shown[k] = Row(i, 0)}
Answers(c, i) == {m \in Ids : said[m].from = c /\ said[m].re = i}

\* It comes to c by the wire; or it is shown to c when c says it.
Comes(c, i) == Member(c, i) /\ (c = said[i].from => echo[c])
AtOnce(c, i) == c = said[i].from /\ ~echo[c] /\ said[i].kind = "chat"
Due(c, i) == said[i].kind = "request" /\ said[i].from # c /\ Member(c, i)

\* The server has it, and c has what there was for c of it.
Relayed(i) == LiveAt(up[said[i].from], i) = {}
Taken(c, i) == Relayed(i) /\ LiveAt(down[c], i) = {}

MessageOK(c, i) ==
  /\ Single(LiveAt(up[said[i].from], i)) /\ Single(LiveAt(down[c], i)) /\ Single(Answers(c, i))
  /\ LiveAt(down[c], i) # {} => Relayed(i) /\ Comes(c, i)
  /\ \A t \in Buffers(c) :
       /\ Single(ShownAt(rows[c][t], i))
       /\ ShownAt(rows[c][t], i) # {} <=>
            /\ t = Conversation(c, i) /\ (said[i].from = c => said[i].kind = "chat")
            /\ AtOnce(c, i) \/ (Comes(c, i) /\ Taken(c, i))
  /\ Answers(c, i) # {} <=> Due(c, i) /\ Taken(c, i)

MessagesOK ==
  /\ \A c \in Clients, i \in Ids : MessageOK(c, i)
  /\ \A v \in Conversations : \A i \in Range(log[v]) : Relayed(i)

-----------------------------------------------------------------------------
(* A history *)

Rank(at, k) == Cardinality({j \in at : j <= k})

\* What l has at these places is list from one place to another, in order.
Runs(at, l, list, from, to) ==
  /\ from + Cardinality(at) = to
  /\ \A k \in at : l[k].id = list[from + Rank(at, k)]

Opens(wire, r) == {k \in DOMAIN wire : wire[k].cmd = "OPEN" /\ wire[k].batch = r}
Tagged(wire, r) == {k \in DOMAIN wire : wire[k].cmd \in Said /\ wire[k].batch = r}
Closes(wire, r) == {k \in DOMAIN wire : wire[k].cmd = "CLOSE" /\ wire[k].batch = r}

\* The lines of a batch come between its ends.
Ordered(wire, r) ==
  /\ Single(Opens(wire, r)) /\ Single(Closes(wire, r))
  /\ \A k \in Opens(wire, r), j \in Tagged(wire, r) \cup Closes(wire, r) : k < j
  /\ \A j \in Tagged(wire, r), k \in Closes(wire, r) : j < k

Carries(wire, r, list, from, to) == Runs(Tagged(wire, r), wire, list, from, to)

At(shown, r) == {k \in DOMAIN shown : shown[k].batch = r}
Displays(shown, r, list, n) == Runs(At(shown, r), shown, list, 0, n)

\* What is left to send of list when so much of it, its end included, was sent.
Remains(rest, list, sent) ==
  /\ Len(rest) = Len(list) + 1 - sent
  /\ \A k \in DOMAIN rest : rest[k] = IF sent + k <= Len(list) THEN list[sent + k] ELSE End

\* n lines of the batch have been taken in: into the batch, or into the buffer.
Taking(rest, wire, open, shown, r, list, n, sent) ==
  /\ Remains(rest, list, sent)
  /\ Carries(wire, r, list, n, IF sent <= Len(list) THEN sent ELSE Len(list))
  /\ Ordered(wire, r)
  /\ Closes(wire, r) # {} => sent = Len(list) + 1
  /\ Opens(wire, r) # {} => n = 0 /\ open = {}
  /\ open # {} \/ Opens(wire, r) # {} => sent <= Len(list) \/ Closes(wire, r) # {}
  /\ Single(open)
  /\ \A b \in open : Len(b.messages) = n /\ \A k \in 1..n : b.messages[k] = list[k]
  /\ Displays(shown, r, list, IF open = {} THEN n ELSE 0)

HistoryTaken(r, n, sent) ==
  LET c == served[r].to
  IN Taking(left[r], down[c], OpenBatches(c, r), rows[c][served[r].target], r, served[r].list, n, sent)

HistoryOK(r) ==
  \E n \in 0..Len(served[r].list), sent \in 0..(Len(served[r].list) + 1) : HistoryTaken(r, n, sent)

HistoriesOK == \A r \in DOMAIN served : HistoryOK(r)

IInv == TypeOK /\ SaidOK /\ LogOK /\ WiresOK /\ HeldOK /\ MessagesOK /\ HistoriesOK

-----------------------------------------------------------------------------
(* Places of a sequence *)

LEMMA Places ==
  ASSUME NEW S, NEW s \in Seq(S)
  PROVE  /\ Len(s) \in Nat /\ DOMAIN s = 1..Len(s)
         /\ \A k \in DOMAIN s : k \in Nat /\ k >= 1 /\ k <= Len(s) /\ s[k] \in S
<1>1. Len(s) \in Nat /\ DOMAIN s = 1..Len(s)
  BY LenProperties
<1>2. \A k \in 1..Len(s) : s[k] \in S
  BY ElementOfSeq
<1> QED BY <1>1, <1>2

LEMMA AppendPlaces ==
  ASSUME NEW S, NEW s \in Seq(S), NEW x \in S
  PROVE  /\ Append(s, x) \in Seq(S) /\ Len(Append(s, x)) = Len(s) + 1
         /\ DOMAIN Append(s, x) = DOMAIN s \cup {Len(s) + 1} /\ Len(s) + 1 \notin DOMAIN s
         /\ \A k \in DOMAIN s : Append(s, x)[k] = s[k] /\ k < Len(s) + 1
         /\ Append(s, x)[Len(s) + 1] = x
<1>1. Len(s) \in Nat /\ DOMAIN s = 1..Len(s)
  BY LenProperties
<1>2. /\ Append(s, x) \in Seq(S) /\ Len(Append(s, x)) = Len(s) + 1
      /\ \A k \in 1..Len(s) : Append(s, x)[k] = s[k]
      /\ Append(s, x)[Len(s) + 1] = x
  BY AppendProperties
<1>3. DOMAIN Append(s, x) = 1..(Len(s) + 1)
  BY <1>2, LenProperties
<1>4. 1..(Len(s) + 1) = (1..Len(s)) \cup {Len(s) + 1}
  BY <1>1
<1> QED BY <1>1, <1>2, <1>3, <1>4

LEMMA TailPlaces ==
  ASSUME NEW S, NEW s \in Seq(S), s # <<>>
  PROVE  /\ Head(s) \in S /\ Head(s) = s[1] /\ 1 \in DOMAIN s
         /\ Tail(s) \in Seq(S) /\ Len(Tail(s)) = Len(s) - 1
         /\ \A k \in DOMAIN Tail(s) : k + 1 \in DOMAIN s /\ Tail(s)[k] = s[k + 1] /\ k \in Nat /\ k >= 1
         /\ \A k \in DOMAIN s : k # 1 => /\ k - 1 \in DOMAIN Tail(s) /\ Tail(s)[k - 1] = s[k]
<1>1. Len(s) \in Nat \ {0} /\ DOMAIN s = 1..Len(s)
  BY EmptySeq, LenProperties
<1>2. /\ Head(s) \in S /\ Tail(s) \in Seq(S) /\ Len(Tail(s)) = Len(s) - 1
      /\ \A k \in 1..Len(Tail(s)) : Tail(s)[k] = s[k + 1]
  BY HeadTailProperties
<1>3. DOMAIN Tail(s) = 1..(Len(s) - 1)
  BY <1>2, LenProperties
<1>4. Head(s) = s[1]
  OBVIOUS
<1>5. \A k \in 1..(Len(s) - 1) : k + 1 \in 1..Len(s) /\ k \in Nat /\ k >= 1
  BY <1>1
<1>6. \A k \in 1..Len(s) : k # 1 => k - 1 \in 1..(Len(s) - 1) /\ (k - 1) + 1 = k
  BY <1>1
<1>7. 1 \in 1..Len(s)
  BY <1>1
<1> QED BY <1>1, <1>2, <1>3, <1>4, <1>5, <1>6, <1>7

LEMMA ConcatPlaces ==
  ASSUME NEW S, NEW s \in Seq(S), NEW t \in Seq(S)
  PROVE  /\ s \o t \in Seq(S) /\ Len(s \o t) = Len(s) + Len(t) /\ Len(s) \in Nat /\ Len(t) \in Nat
         /\ \A k \in DOMAIN s : k \in DOMAIN (s \o t) /\ (s \o t)[k] = s[k] /\ k <= Len(s)
         /\ \A k \in DOMAIN t : /\ Len(s) + k \in DOMAIN (s \o t) /\ (s \o t)[Len(s) + k] = t[k]
                                /\ k \in Nat /\ k >= 1
         /\ \A k \in DOMAIN (s \o t) :
              /\ k \in Nat
              /\ k \in DOMAIN s \/ (k \notin DOMAIN s /\ k - Len(s) \in DOMAIN t /\ Len(s) + (k - Len(s)) = k)
<1>1. Len(s) \in Nat /\ DOMAIN s = 1..Len(s) /\ Len(t) \in Nat /\ DOMAIN t = 1..Len(t)
  BY LenProperties
<1>2. /\ s \o t \in Seq(S) /\ Len(s \o t) = Len(s) + Len(t)
      /\ \A i \in 1..(Len(s) + Len(t)) : (s \o t)[i] = IF i <= Len(s) THEN s[i] ELSE t[i - Len(s)]
  BY ConcatProperties
<1>3. DOMAIN (s \o t) = 1..(Len(s) + Len(t))
  BY <1>2, LenProperties
<1> DEFINE m == Len(s)
           n == Len(t)
           u == s \o t
<1> HIDE DEF m, n, u
<1>4. /\ m \in Nat /\ n \in Nat /\ DOMAIN s = 1..m /\ DOMAIN t = 1..n /\ DOMAIN u = 1..(m + n)
      /\ \A i \in 1..(m + n) : u[i] = IF i <= m THEN s[i] ELSE t[i - m]
  BY <1>1, <1>2, <1>3 DEF m, n, u
<1>5. \A k \in 1..m : k \in 1..(m + n) /\ k <= m
  BY <1>4
<1>6. \A k \in 1..n : m + k \in 1..(m + n) /\ ~(m + k <= m) /\ (m + k) - m = k /\ k \in Nat /\ k >= 1
  BY <1>4
<1>7. \A k \in 1..(m + n) : /\ k \in Nat
                            /\ k \in 1..m \/ (k \notin 1..m /\ k - m \in 1..n /\ m + (k - m) = k)
  BY <1>4
<1>8. \A k \in DOMAIN s : k \in DOMAIN u /\ u[k] = s[k] /\ k <= m
  BY <1>4, <1>5
<1>9. \A k \in DOMAIN t : m + k \in DOMAIN u /\ u[m + k] = t[k] /\ k \in Nat /\ k >= 1
  BY <1>4, <1>6
<1>10. \A k \in DOMAIN u : /\ k \in Nat
                           /\ k \in DOMAIN s \/ (k \notin DOMAIN s /\ k - m \in DOMAIN t /\ m + (k - m) = k)
  BY <1>4, <1>7
<1> QED BY <1>1, <1>2, <1>8, <1>9, <1>10 DEF m, n, u

-----------------------------------------------------------------------------
(* Wires and buffers, as far as one message goes *)

\* As empty as it was, and as single.
Same(S, T) == (S = {} <=> T = {}) /\ (Single(S) => Single(T))

Live(l, i) == l.cmd \in Said /\ l.id = i /\ l.batch = 0

LEMMA LiveAppended ==
  ASSUME NEW S, NEW wire \in Seq(S), NEW l \in S, NEW i
  PROVE  /\ ~Live(l, i) => LiveAt(Append(wire, l), i) = LiveAt(wire, i)
         /\ Live(l, i) => LiveAt(Append(wire, l), i) = LiveAt(wire, i) \cup {Len(wire) + 1}
<1>1. /\ DOMAIN Append(wire, l) = DOMAIN wire \cup {Len(wire) + 1} /\ Len(wire) + 1 \notin DOMAIN wire
      /\ \A k \in DOMAIN wire : Append(wire, l)[k] = wire[k]
      /\ Append(wire, l)[Len(wire) + 1] = l
  BY AppendPlaces
<1> QED BY <1>1 DEF LiveAt, Live

LEMMA LiveTaken ==
  ASSUME NEW S, NEW wire \in Seq(S), wire # <<>>, NEW i
  PROVE  /\ ~Live(Head(wire), i) => Same(LiveAt(wire, i), LiveAt(Tail(wire), i))
         /\ Single(LiveAt(wire, i)) /\ Live(Head(wire), i) => LiveAt(Tail(wire), i) = {}
         /\ Live(Head(wire), i) => LiveAt(wire, i) # {}
<1>1. /\ Head(wire) = wire[1] /\ 1 \in DOMAIN wire
      /\ \A k \in DOMAIN Tail(wire) :
           k + 1 \in DOMAIN wire /\ Tail(wire)[k] = wire[k + 1] /\ k \in Nat /\ k >= 1
      /\ \A k \in DOMAIN wire : k # 1 => k - 1 \in DOMAIN Tail(wire) /\ Tail(wire)[k - 1] = wire[k]
  BY TailPlaces
<1>2. \A k \in LiveAt(Tail(wire), i) : k + 1 \in LiveAt(wire, i) /\ k \in Nat /\ k >= 1
  BY <1>1 DEF LiveAt
<1>3. \A k \in LiveAt(wire, i) : k # 1 => k - 1 \in LiveAt(Tail(wire), i)
  BY <1>1 DEF LiveAt
<1>4. 1 \in LiveAt(wire, i) <=> Live(Head(wire), i)
  BY <1>1 DEF LiveAt, Live
<1>5. Single(LiveAt(wire, i)) => Single(LiveAt(Tail(wire), i))
  BY <1>2 DEF Single
<1>6. ~Live(Head(wire), i) => (LiveAt(wire, i) = {} <=> LiveAt(Tail(wire), i) = {})
  BY <1>2, <1>3, <1>4
<1>7. Single(LiveAt(wire, i)) /\ Live(Head(wire), i) => LiveAt(Tail(wire), i) = {}
  BY <1>2, <1>4 DEF Single
<1> QED BY <1>4, <1>5, <1>6, <1>7 DEF Same

\* Several lines written at once.
LEMMA LiveWritten ==
  ASSUME NEW S, NEW wire \in Seq(S), NEW more \in Seq(S), NEW i
  PROVE  /\ LiveAt(more, i) = {} => LiveAt(wire \o more, i) = LiveAt(wire, i)
         /\ LiveAt(wire, i) = {} => Same(LiveAt(more, i), LiveAt(wire \o more, i))
<1>1. /\ Len(wire) \in Nat
      /\ \A k \in DOMAIN wire : k \in DOMAIN (wire \o more) /\ (wire \o more)[k] = wire[k]
      /\ \A k \in DOMAIN more : /\ Len(wire) + k \in DOMAIN (wire \o more)
                                /\ (wire \o more)[Len(wire) + k] = more[k] /\ k \in Nat
      /\ \A k \in DOMAIN (wire \o more) :
           /\ k \in Nat
           /\ k \in DOMAIN wire \/ (k - Len(wire) \in DOMAIN more /\ Len(wire) + (k - Len(wire)) = k)
  BY ConcatPlaces
<1> DEFINE both == wire \o more
           m == Len(wire)
<1> HIDE DEF both, m
<1>2. /\ m \in Nat /\ \A k \in DOMAIN wire : k \in DOMAIN both /\ both[k] = wire[k]
      /\ \A k \in DOMAIN more : m + k \in DOMAIN both /\ both[m + k] = more[k] /\ k \in Nat
      /\ \A k \in DOMAIN both : k \in Nat /\ (k \in DOMAIN wire \/ (k - m \in DOMAIN more /\ m + (k - m) = k))
  BY <1>1 DEF both, m
<1>3. \A k \in LiveAt(wire, i) : k \in LiveAt(both, i)
  BY <1>2 DEF LiveAt
<1>4. \A k \in LiveAt(more, i) : m + k \in LiveAt(both, i) /\ k \in Nat
  BY <1>2 DEF LiveAt
<1>5. \A k \in LiveAt(both, i) : k \in Nat /\ (k \in LiveAt(wire, i) \/ k - m \in LiveAt(more, i))
  <2>1. ASSUME NEW k \in LiveAt(both, i) PROVE k \in Nat /\ (k \in LiveAt(wire, i) \/ k - m \in LiveAt(more, i))
    <3>1. k \in DOMAIN both /\ both[k].cmd \in Said /\ both[k].id = i /\ both[k].batch = 0
      BY <2>1 DEF LiveAt
    <3>2. k \in Nat
      BY <1>2, <3>1
    <3>3. CASE k \in DOMAIN wire
      BY <1>2, <3>1, <3>2, <3>3 DEF LiveAt
    <3>4. CASE k - m \in DOMAIN more /\ m + (k - m) = k
      <4>1. both[k] = more[k - m]
        BY <1>2, <3>4
      <4> QED BY <3>1, <3>2, <3>4, <4>1 DEF LiveAt
    <3> QED BY <1>2, <3>1, <3>3, <3>4
  <2> QED BY <2>1
<1>6. LiveAt(more, i) = {} => LiveAt(both, i) = LiveAt(wire, i)
  BY <1>3, <1>5
<1>7. ASSUME LiveAt(wire, i) = {} PROVE Same(LiveAt(more, i), LiveAt(both, i))
  <2>1. \A k \in LiveAt(both, i) : k \in Nat /\ k - m \in LiveAt(more, i)
    BY <1>5, <1>7
  <2>2. LiveAt(both, i) = {} <=> LiveAt(more, i) = {}
    BY <1>4, <2>1
  <2>3. Single(LiveAt(more, i)) => Single(LiveAt(both, i))
    <3>1. ASSUME Single(LiveAt(more, i)), NEW x \in LiveAt(both, i), NEW y \in LiveAt(both, i)
          PROVE  x = y
      <4>1. x - m = y - m /\ x \in Nat /\ y \in Nat
        BY <2>1, <3>1 DEF Single
      <4> QED BY <1>2, <4>1
    <3> QED BY <3>1 DEF Single
  <2> QED BY <2>2, <2>3 DEF Same
<1> QED BY <1>6, <1>7 DEF both

LEMMA ShownJoined ==
  ASSUME NEW S, NEW shown \in Seq(S), NEW more \in Seq(S), NEW i
  PROVE  /\ ShownAt(more, i) = {} => Same(ShownAt(shown, i), ShownAt(shown \o more, i))
         /\ ShownAt(shown, i) = {} => Same(ShownAt(more, i), ShownAt(shown \o more, i))
<1>1. /\ Len(shown) \in Nat
      /\ \A k \in DOMAIN shown : k \in DOMAIN (shown \o more) /\ (shown \o more)[k] = shown[k]
      /\ \A k \in DOMAIN more : /\ Len(shown) + k \in DOMAIN (shown \o more)
                                /\ (shown \o more)[Len(shown) + k] = more[k] /\ k \in Nat
      /\ \A k \in DOMAIN (shown \o more) :
           /\ k \in Nat
           /\ k \in DOMAIN shown \/ (k - Len(shown) \in DOMAIN more /\ Len(shown) + (k - Len(shown)) = k)
  BY ConcatPlaces
<1> DEFINE both == shown \o more
           m == Len(shown)
<1> HIDE DEF both, m
<1>2. /\ m \in Nat /\ \A k \in DOMAIN shown : k \in DOMAIN both /\ both[k] = shown[k]
      /\ \A k \in DOMAIN more : m + k \in DOMAIN both /\ both[m + k] = more[k] /\ k \in Nat
      /\ \A k \in DOMAIN both : k \in Nat /\ (k \in DOMAIN shown \/ (k - m \in DOMAIN more /\ m + (k - m) = k))
  BY <1>1 DEF both, m
<1>3. \A k \in ShownAt(shown, i) : k \in ShownAt(both, i)
  BY <1>2 DEF ShownAt
<1>4. \A k \in ShownAt(more, i) : m + k \in ShownAt(both, i) /\ k \in Nat
  BY <1>2 DEF ShownAt
<1>5. \A k \in ShownAt(both, i) : k \in Nat /\ (k \in ShownAt(shown, i) \/ k - m \in ShownAt(more, i))
  <2>1. ASSUME NEW k \in ShownAt(both, i) PROVE k \in Nat /\ (k \in ShownAt(shown, i) \/ k - m \in ShownAt(more, i))
    <3>1. k \in DOMAIN both /\ both[k] = Row(i, 0)
      BY <2>1 DEF ShownAt
    <3>2. k \in Nat
      BY <1>2, <3>1
    <3>3. CASE k \in DOMAIN shown
      BY <1>2, <3>1, <3>2, <3>3 DEF ShownAt
    <3>4. CASE k - m \in DOMAIN more /\ m + (k - m) = k
      <4>1. both[k] = more[k - m]
        BY <1>2, <3>4
      <4> QED BY <3>1, <3>2, <3>4, <4>1 DEF ShownAt
    <3> QED BY <1>2, <3>1, <3>3, <3>4
  <2> QED BY <2>1
<1>6. ShownAt(more, i) = {} => ShownAt(both, i) = ShownAt(shown, i)
  BY <1>3, <1>5
<1>7. ASSUME ShownAt(shown, i) = {} PROVE Same(ShownAt(more, i), ShownAt(both, i))
  <2>1. \A k \in ShownAt(both, i) : k \in Nat /\ k - m \in ShownAt(more, i)
    BY <1>5, <1>7
  <2>2. ShownAt(both, i) = {} <=> ShownAt(more, i) = {}
    BY <1>4, <2>1
  <2>3. Single(ShownAt(more, i)) => Single(ShownAt(both, i))
    <3>1. ASSUME Single(ShownAt(more, i)), NEW x \in ShownAt(both, i), NEW y \in ShownAt(both, i)
          PROVE  x = y
      <4>1. x - m = y - m /\ x \in Nat /\ y \in Nat
        BY <2>1, <3>1 DEF Single
      <4> QED BY <1>2, <4>1
    <3> QED BY <3>1 DEF Single
  <2> QED BY <2>2, <2>3 DEF Same
<1>8. ShownAt(more, i) = {} => Same(ShownAt(shown, i), ShownAt(both, i))
  BY <1>6 DEF Same
<1> QED BY <1>7, <1>8 DEF both

LEMMA ShownRow ==
  ASSUME NEW j, NEW b, NEW i
  PROVE  /\ Single(ShownAt(<<Row(j, b)>>, i))
         /\ ShownAt(<<Row(j, b)>>, i) # {} <=> j = i /\ b = 0
<1>1. DOMAIN <<Row(j, b)>> = {1} /\ <<Row(j, b)>>[1] = Row(j, b)
  OBVIOUS
<1>2. Row(j, b) = Row(i, 0) <=> j = i /\ b = 0
  BY DEF Row
<1>3. Single(ShownAt(<<Row(j, b)>>, i))
  BY <1>1 DEF Single, ShownAt
<1>4. ShownAt(<<Row(j, b)>>, i) # {} <=> Row(j, b) = Row(i, 0)
  BY <1>1 DEF ShownAt
<1> QED BY <1>2, <1>3, <1>4

LEMMA ShownOfBatch ==
  ASSUME NEW list, NEW b, b # 0, NEW i
  PROVE  ShownAt(Rows(list, b), i) = {}
BY DEF ShownAt, Rows, Row

LEMMA ShownFresh ==
  ASSUME Len(said) \in Nat, NEW list, DOMAIN list \subseteq Nat,
         \A k \in DOMAIN list : list[k] = Row(Len(said) + k, 0), NEW i
  PROVE  /\ Single(ShownAt(list, i))
         /\ ShownAt(list, i) # {} <=> \E k \in DOMAIN list : Len(said) + k = i
<1>1. \A k \in DOMAIN list : Row(Len(said) + k, 0) = Row(i, 0) <=> Len(said) + k = i
  BY DEF Row
<1>2. \A k \in ShownAt(list, i) : k \in DOMAIN list /\ Len(said) + k = i
  BY <1>1 DEF ShownAt
<1>3. \A k \in DOMAIN list : Len(said) + k = i => k \in ShownAt(list, i)
  BY <1>1 DEF ShownAt
<1>4. \A j, k \in DOMAIN list : Len(said) + j = Len(said) + k => j = k
  OBVIOUS
<1>5. Single(ShownAt(list, i))
  BY <1>2, <1>4 DEF Single
<1> QED BY <1>2, <1>3, <1>5

LEMMA LiveFresh ==
  ASSUME Len(said) \in Nat, NEW cmd \in Said, NEW list, DOMAIN list \subseteq Nat,
         \A k \in DOMAIN list : list[k] = Line(cmd, Len(said) + k, 0), NEW i
  PROVE  /\ Single(LiveAt(list, i))
         /\ LiveAt(list, i) # {} <=> \E k \in DOMAIN list : Len(said) + k = i
<1>1. \A k \in DOMAIN list : list[k].cmd \in Said /\ list[k].id = Len(said) + k /\ list[k].batch = 0
  BY DEF Line
<1>2. \A k \in LiveAt(list, i) : k \in DOMAIN list /\ Len(said) + k = i
  BY <1>1 DEF LiveAt
<1>3. \A k \in DOMAIN list : Len(said) + k = i => k \in LiveAt(list, i)
  BY <1>1 DEF LiveAt
<1>4. \A j, k \in DOMAIN list : Len(said) + j = Len(said) + k => j = k
  OBVIOUS
<1>5. Single(LiveAt(list, i))
  BY <1>2, <1>4 DEF Single
<1> QED BY <1>2, <1>3, <1>5

-----------------------------------------------------------------------------
(* Places in order *)

LEMMA RankNone == Cardinality({}) = 0 /\ IsFiniteSet({})
BY FS_EmptySet

\* Every rank is a number, and not more than there are places.
LEMMA RankBound ==
  ASSUME NEW at \in SUBSET Nat, IsFiniteSet(at), NEW k \in at
  PROVE  /\ Rank(at, k) \in Nat \ {0} /\ Rank(at, k) <= Cardinality(at) /\ Cardinality(at) \in Nat
<1>1. {j \in at : j <= k} \in SUBSET at
  OBVIOUS
<1>2. IsFiniteSet({j \in at : j <= k}) /\ Cardinality({j \in at : j <= k}) <= Cardinality(at)
  BY <1>1, FS_Subset
<1>3. k \in {j \in at : j <= k}
  OBVIOUS
<1>4. Cardinality({j \in at : j <= k}) # 0
  BY <1>2, <1>3, FS_EmptySet
<1> QED BY <1>2, <1>4, FS_CardinalityType DEF Rank

LEMMA RankAdded ==
  ASSUME NEW at \in SUBSET Nat, IsFiniteSet(at), NEW m \in Nat, \A k \in at : k < m
  PROVE  /\ IsFiniteSet(at \cup {m}) /\ Cardinality(at \cup {m}) = Cardinality(at) + 1
         /\ \A k \in at : Rank(at \cup {m}, k) = Rank(at, k)
         /\ Rank(at \cup {m}, m) = Cardinality(at) + 1
<1>1. m \notin at
  OBVIOUS
<1>2. IsFiniteSet(at \cup {m}) /\ Cardinality(at \cup {m}) = Cardinality(at) + 1
  BY <1>1, FS_AddElement
<1>3. ASSUME NEW k \in at PROVE Rank(at \cup {m}, k) = Rank(at, k)
  <2>1. {j \in at \cup {m} : j <= k} = {j \in at : j <= k}
    BY <1>3
  <2> QED BY <2>1 DEF Rank
<1>4. {j \in at \cup {m} : j <= m} = at \cup {m}
  <2>1. \A j \in at \cup {m} : j <= m
    OBVIOUS
  <2> QED BY <2>1
<1> QED BY <1>2, <1>3, <1>4 DEF Rank

LEMMA RankDropped ==
  ASSUME NEW at \in SUBSET Nat, IsFiniteSet(at), NEW m \in at, \A k \in at : m <= k
  PROVE  /\ IsFiniteSet(at \ {m}) /\ Cardinality(at) = Cardinality(at \ {m}) + 1
         /\ Cardinality(at \ {m}) \in Nat
         /\ \A k \in at \ {m} : Rank(at, k) = Rank(at \ {m}, k) + 1
         /\ Rank(at, m) = 1
<1>1. /\ IsFiniteSet(at \ {m}) /\ Cardinality(at \ {m}) = Cardinality(at) - 1
  BY FS_RemoveElement
<1>2. Cardinality(at) \in Nat /\ Cardinality(at \ {m}) \in Nat
  BY <1>1, FS_CardinalityType
<1>3. ASSUME NEW k \in at \ {m} PROVE Rank(at, k) = Rank(at \ {m}, k) + 1
  <2> DEFINE S == {j \in at : j <= k}
  <2>1. S \in SUBSET at /\ m \in S
    BY <1>3
  <2>2. IsFiniteSet(S)
    BY <2>1, FS_Subset
  <2>3. IsFiniteSet(S \ {m}) /\ Cardinality(S \ {m}) = Cardinality(S) - 1
    BY <2>1, <2>2, FS_RemoveElement
  <2>4. S \ {m} = {j \in at \ {m} : j <= k}
    OBVIOUS
  <2>5. Cardinality(S) \in Nat
    BY <2>2, FS_CardinalityType
  <2>6. Cardinality(S) = Cardinality({j \in at \ {m} : j <= k}) + 1
    <3> HIDE DEF S
    <3> QED BY <2>3, <2>4, <2>5
  <2> QED BY <2>6 DEF Rank
<1>4. {j \in at : j <= m} = {m}
  <2>1. \A j \in at : j <= m <=> j = m
    OBVIOUS
  <2> QED BY <2>1
<1>5. Rank(at, m) = 1
  BY <1>4, FS_Singleton DEF Rank
<1> QED BY <1>1, <1>2, <1>3, <1>5

LEMMA RankShifted ==
  ASSUME NEW at \in SUBSET Nat, IsFiniteSet(at), NEW to \in SUBSET Nat, NEW d \in Int,
         \A k \in at : k + d \in to, \A k \in to : k - d \in at
  PROVE  /\ IsFiniteSet(to) /\ Cardinality(to) = Cardinality(at)
         /\ \A k \in to : Rank(to, k) = Rank(at, k - d)
<1>1. ASSUME NEW S \in SUBSET Nat, IsFiniteSet(S), NEW T \in SUBSET Nat,
             \A k \in S : k + d \in T, \A k \in T : k - d \in S
      PROVE  IsFiniteSet(T) /\ Cardinality(T) = Cardinality(S)
  <2> DEFINE f == [k \in S |-> k + d]
  <2>1. f \in [S -> T]
    BY <1>1
  <2>2. \A a, b \in S : f[a] = f[b] => a = b
    BY <1>1
  <2>3. \A t \in T : \E s \in S : f[s] = t
    <3>1. ASSUME NEW t \in T PROVE \E s \in S : f[s] = t
      <4>1. t - d \in S /\ (t - d) + d = t
        BY <1>1
      <4> QED BY <4>1
    <3> QED BY <3>1
  <2>4. f \in Bijection(S, T)
    <3> HIDE DEF f
    <3> QED BY <2>1, <2>2, <2>3, Fun_IsBij
  <2>5. ExistsBijection(S, T)
    BY <2>4 DEF ExistsBijection
  <2> QED BY <1>1, <2>5, FS_Bijection
<1>2. IsFiniteSet(to) /\ Cardinality(to) = Cardinality(at)
  BY <1>1
<1>3. ASSUME NEW k \in to PROVE Rank(to, k) = Rank(at, k - d)
  <2> DEFINE T == {j \in to : j <= k}
             S == {j \in at : j <= k - d}
  <2>1. S \in SUBSET at /\ S \in SUBSET Nat /\ T \in SUBSET Nat
    OBVIOUS
  <2>2. IsFiniteSet(S)
    BY <2>1, FS_Subset
  <2>3. \A j \in S : j + d \in T
    BY <1>3
  <2>4. \A j \in T : j - d \in S
    BY <1>3
  <2>5. Cardinality(T) = Cardinality(S)
    <3> HIDE DEF S, T
    <3> QED BY <1>1, <2>1, <2>2, <2>3, <2>4
  <2> QED BY <2>5 DEF Rank
<1> QED BY <1>2, <1>3

LEMMA RankBlock ==
  ASSUME NEW n \in Nat
  PROVE  /\ IsFiniteSet(1..n) /\ Cardinality(1..n) = n
         /\ \A k \in 1..n : Rank(1..n, k) = k
<1>1. \A k \in Nat : IsFiniteSet(1..k) /\ Cardinality(1..k) = k
  <2>1. ASSUME NEW k \in Nat PROVE IsFiniteSet(1..k) /\ Cardinality(1..k) = k
    <3>1. IsFiniteSet(1..k) /\ Cardinality(1..k) = IF 1 > k THEN 0 ELSE k - 1 + 1
      BY FS_Interval
    <3> QED BY <3>1
  <2> QED BY <2>1
<1>2. ASSUME NEW k \in 1..n PROVE Rank(1..n, k) = k
  <2>1. {j \in 1..n : j <= k} = 1..k /\ k \in Nat
    BY <1>2
  <2> QED BY <1>1, <2>1 DEF Rank
<1> QED BY <1>1, <1>2

\* A stretch of a list grows at its end, and shrinks at its beginning.
LEMMA RunsNone ==
  ASSUME NEW l, NEW list, NEW n \in Nat
  PROVE  Runs({}, l, list, n, n)
BY RankNone DEF Runs

LEMMA RunsType ==
  ASSUME NEW at \in SUBSET Nat, IsFiniteSet(at), NEW l, NEW list, NEW from \in Nat, NEW to,
         Runs(at, l, list, from, to)
  PROVE  to \in Nat /\ from <= to /\ (at = {} <=> from = to)
<1>1. Cardinality(at) \in Nat /\ (Cardinality(at) = 0 <=> at = {}) /\ from + Cardinality(at) = to
  BY FS_CardinalityType, FS_EmptySet DEF Runs
<1> QED BY <1>1

LEMMA RunsGrows ==
  ASSUME NEW at \in SUBSET Nat, IsFiniteSet(at), NEW l, NEW list, NEW from \in Nat, NEW to,
         Runs(at, l, list, from, to),
         NEW m \in Nat, \A k \in at : k < m,
         NEW l2, \A k \in at : l2[k].id = l[k].id, l2[m].id = list[to + 1]
  PROVE  Runs(at \cup {m}, l2, list, from, to + 1)
<1>1. from + Cardinality(at) = to /\ \A k \in at : l[k].id = list[from + Rank(at, k)]
  BY DEF Runs
<1>2. /\ Cardinality(at \cup {m}) = Cardinality(at) + 1
      /\ \A k \in at : Rank(at \cup {m}, k) = Rank(at, k)
      /\ Rank(at \cup {m}, m) = Cardinality(at) + 1
  BY RankAdded
<1>3. Cardinality(at) \in Nat
  BY FS_CardinalityType
<1>4. from + (Cardinality(at) + 1) = to + 1
  BY <1>1, <1>3
<1>5. \A k \in at \cup {m} : l2[k].id = list[from + Rank(at \cup {m}, k)]
  BY <1>1, <1>2, <1>4
<1> QED BY <1>2, <1>4, <1>5 DEF Runs

LEMMA RunsShrinks ==
  ASSUME NEW at \in SUBSET Nat, IsFiniteSet(at), NEW l, NEW list, NEW from \in Nat, NEW to,
         Runs(at, l, list, from, to),
         NEW m \in at, \A k \in at : m <= k
  PROVE  /\ Runs(at \ {m}, l, list, from + 1, to)
         /\ l[m].id = list[from + 1] /\ from + 1 <= to
<1>1. from + Cardinality(at) = to /\ \A k \in at : l[k].id = list[from + Rank(at, k)]
  BY DEF Runs
<1>2. /\ Cardinality(at) = Cardinality(at \ {m}) + 1 /\ IsFiniteSet(at \ {m})
      /\ Cardinality(at \ {m}) \in Nat
      /\ \A k \in at \ {m} : Rank(at, k) = Rank(at \ {m}, k) + 1
      /\ Rank(at, m) = 1
  BY RankDropped
<1>3. (from + 1) + Cardinality(at \ {m}) = to /\ from + 1 <= to
  BY <1>1, <1>2
<1>4. \A k \in at \ {m} : l[k].id = list[(from + 1) + Rank(at \ {m}, k)]
  <2>1. ASSUME NEW k \in at \ {m} PROVE l[k].id = list[(from + 1) + Rank(at \ {m}, k)]
    <3>1. Rank(at \ {m}, k) \in Nat
      BY <1>2, RankBound
    <3>2. from + Rank(at, k) = (from + 1) + Rank(at \ {m}, k)
      BY <1>2, <3>1
    <3> QED BY <1>1, <3>2
  <2> QED BY <2>1
<1>5. l[m].id = list[from + 1]
  BY <1>1, <1>2
<1> QED BY <1>3, <1>4, <1>5 DEF Runs

LEMMA RunsShifts ==
  ASSUME NEW at \in SUBSET Nat, IsFiniteSet(at), NEW l, NEW list, NEW from \in Nat, NEW n,
         Runs(at, l, list, from, n),
         NEW to \in SUBSET Nat, NEW d \in Int,
         \A k \in at : k + d \in to, \A k \in to : k - d \in at,
         NEW l2, \A k \in to : l2[k].id = l[k - d].id
  PROVE  Runs(to, l2, list, from, n)
<1>1. from + Cardinality(at) = n /\ \A k \in at : l[k].id = list[from + Rank(at, k)]
  BY DEF Runs
<1>2. Cardinality(to) = Cardinality(at) /\ \A k \in to : Rank(to, k) = Rank(at, k - d)
  BY RankShifted
<1>3. \A k \in to : l2[k].id = list[from + Rank(to, k)]
  BY <1>1, <1>2
<1> QED BY <1>1, <1>2, <1>3 DEF Runs

LEMMA RunsBlock ==
  ASSUME NEW n \in Nat, NEW l, NEW list, \A k \in 1..n : l[k].id = list[k]
  PROVE  Runs(1..n, l, list, 0, n)
<1>1. Cardinality(1..n) = n /\ \A k \in 1..n : Rank(1..n, k) = k
  BY RankBlock
<1>2. 0 + n = n /\ \A k \in 1..n : 0 + k = k
  OBVIOUS
<1>3. \A k \in 1..n : l[k].id = list[0 + Rank(1..n, k)]
  BY <1>1, <1>2
<1> QED BY <1>1, <1>2, <1>3 DEF Runs

LEMMA RunsAgree ==
  ASSUME NEW at, NEW l, NEW list, NEW from, NEW n, Runs(at, l, list, from, n),
         NEW l2, \A k \in at : l2[k].id = l[k].id
  PROVE  Runs(at, l2, list, from, n)
BY DEF Runs

-----------------------------------------------------------------------------
(* What a wire carries of a history, and what a buffer shows of it *)

\* Places of a sequence are numbers, and not without end.
LEMMA PlacesFinite ==
  ASSUME NEW S, NEW l \in Seq(S), NEW at, at \subseteq DOMAIN l
  PROVE  at \in SUBSET Nat /\ IsFiniteSet(at) /\ Cardinality(at) \in Nat
<1>1. Len(l) \in Nat /\ DOMAIN l = 1..Len(l)
  BY LenProperties
<1>2. IsFiniteSet(1..Len(l))
  BY <1>1, RankBlock
<1>3. at \in SUBSET (1..Len(l))
  BY <1>1
<1>4. IsFiniteSet(at)
  BY <1>2, <1>3, FS_Subset
<1>5. 1..Len(l) \subseteq Nat
  BY <1>1
<1> QED BY <1>3, <1>4, <1>5, FS_CardinalityType

LEMMA DisplaysShows ==
  ASSUME NEW S, NEW shown \in Seq(S), NEW r, NEW list, NEW n, Displays(shown, r, list, n)
  PROVE  Shows(shown, r, list, n)
<1> DEFINE at == At(shown, r)
<1>1. at \in SUBSET Nat /\ IsFiniteSet(at) /\ Cardinality(at) \in Nat
  BY PlacesFinite DEF At
<1>2. 0 + Cardinality(at) = n /\ \A k \in at : shown[k].id = list[0 + Rank(at, k)]
  BY DEF Displays, Runs
<1>3. \A k \in at : Rank(at, k) \in Nat
  BY <1>1, RankBound
<1>4. Cardinality(at) = n /\ \A k \in at : shown[k].id = list[Rank(at, k)]
  BY <1>1, <1>2, <1>3
<1> QED BY <1>4 DEF Shows, At, Rank

IsOpen(l, r) == l.cmd = "OPEN" /\ l.batch = r
IsTagged(l, r) == l.cmd \in Said /\ l.batch = r
IsClose(l, r) == l.cmd = "CLOSE" /\ l.batch = r
Foreign(l, r) == ~IsOpen(l, r) /\ ~IsTagged(l, r) /\ ~IsClose(l, r)

\* No line is two of these.
LEMMA OneKind ==
  ASSUME NEW l, NEW r
  PROVE  /\ IsOpen(l, r) => ~IsTagged(l, r) /\ ~IsClose(l, r)
         /\ IsTagged(l, r) => ~IsClose(l, r)
BY DEF IsOpen, IsTagged, IsClose, Said

LEMMA WireAppended ==
  ASSUME NEW S, NEW wire \in Seq(S), NEW l \in S, NEW r, NEW m, m = Len(wire) + 1
  PROVE  /\ m \in Nat /\ \A k \in DOMAIN wire : k < m /\ Append(wire, l)[k] = wire[k]
         /\ Append(wire, l)[m] = l
         /\ IsOpen(l, r) => Opens(Append(wire, l), r) = Opens(wire, r) \cup {m}
         /\ ~IsOpen(l, r) => Opens(Append(wire, l), r) = Opens(wire, r)
         /\ IsTagged(l, r) => Tagged(Append(wire, l), r) = Tagged(wire, r) \cup {m}
         /\ ~IsTagged(l, r) => Tagged(Append(wire, l), r) = Tagged(wire, r)
         /\ IsClose(l, r) => Closes(Append(wire, l), r) = Closes(wire, r) \cup {m}
         /\ ~IsClose(l, r) => Closes(Append(wire, l), r) = Closes(wire, r)
<1> DEFINE w == Append(wire, l)
<1>1. /\ DOMAIN w = DOMAIN wire \cup {m} /\ m \notin DOMAIN wire
      /\ \A k \in DOMAIN wire : w[k] = wire[k] /\ k < m
      /\ w[m] = l
  BY AppendPlaces
<1>2. m \in Nat
  BY LenProperties
<1> HIDE DEF w
<1>3. /\ IsOpen(l, r) => Opens(w, r) = Opens(wire, r) \cup {m}
      /\ ~IsOpen(l, r) => Opens(w, r) = Opens(wire, r)
  BY <1>1 DEF Opens, IsOpen
<1>4. /\ IsTagged(l, r) => Tagged(w, r) = Tagged(wire, r) \cup {m}
      /\ ~IsTagged(l, r) => Tagged(w, r) = Tagged(wire, r)
  BY <1>1 DEF Tagged, IsTagged
<1>5. /\ IsClose(l, r) => Closes(w, r) = Closes(wire, r) \cup {m}
      /\ ~IsClose(l, r) => Closes(w, r) = Closes(wire, r)
  BY <1>1 DEF Closes, IsClose
<1> QED BY <1>1, <1>2, <1>3, <1>4, <1>5 DEF w

\* The places of S that are left when the first line is taken.
Behind(S, T) ==
  /\ \A k \in T : k + 1 \in S /\ k \in Nat /\ k >= 1
  /\ \A k \in S : k \in Nat /\ k >= 1 /\ (k # 1 => k - 1 \in T)

LEMMA WireTaken ==
  ASSUME NEW S, NEW wire \in Seq(S), wire # <<>>, NEW r
  PROVE  /\ Behind(Opens(wire, r), Opens(Tail(wire), r))
         /\ Behind(Tagged(wire, r), Tagged(Tail(wire), r))
         /\ Behind(Closes(wire, r), Closes(Tail(wire), r))
         /\ 1 \in Opens(wire, r) <=> IsOpen(Head(wire), r)
         /\ 1 \in Tagged(wire, r) <=> IsTagged(Head(wire), r)
         /\ 1 \in Closes(wire, r) <=> IsClose(Head(wire), r)
         /\ \A k \in Tagged(Tail(wire), r) : Tail(wire)[k] = wire[k + 1]
<1> DEFINE w == Tail(wire)
<1>1. /\ Head(wire) = wire[1] /\ 1 \in DOMAIN wire
      /\ \A k \in DOMAIN w : k + 1 \in DOMAIN wire /\ w[k] = wire[k + 1] /\ k \in Nat /\ k >= 1
      /\ \A k \in DOMAIN wire : k # 1 => k - 1 \in DOMAIN w /\ w[k - 1] = wire[k]
  BY TailPlaces
<1>2. \A k \in DOMAIN wire : k \in Nat /\ k >= 1
  BY Places
<1> HIDE DEF w
<1>3. Behind(Opens(wire, r), Opens(w, r)) /\ (1 \in Opens(wire, r) <=> IsOpen(Head(wire), r))
  BY <1>1, <1>2 DEF Opens, IsOpen, Behind
<1>4. Behind(Tagged(wire, r), Tagged(w, r)) /\ (1 \in Tagged(wire, r) <=> IsTagged(Head(wire), r))
  BY <1>1, <1>2 DEF Tagged, IsTagged, Behind
<1>5. Behind(Closes(wire, r), Closes(w, r)) /\ (1 \in Closes(wire, r) <=> IsClose(Head(wire), r))
  BY <1>1, <1>2 DEF Closes, IsClose, Behind
<1>6. \A k \in Tagged(w, r) : w[k] = wire[k + 1]
  BY <1>1 DEF Tagged
<1> QED BY <1>3, <1>4, <1>5, <1>6 DEF w

LEMMA WirePlaces ==
  ASSUME NEW S, NEW wire \in Seq(S), NEW r
  PROVE  /\ Tagged(wire, r) \in SUBSET Nat /\ IsFiniteSet(Tagged(wire, r))
         /\ Tagged(wire, r) \subseteq DOMAIN wire
         /\ Opens(wire, r) \subseteq DOMAIN wire /\ Closes(wire, r) \subseteq DOMAIN wire
<1>1. /\ Tagged(wire, r) \subseteq DOMAIN wire
      /\ Opens(wire, r) \subseteq DOMAIN wire /\ Closes(wire, r) \subseteq DOMAIN wire
  BY DEF Tagged, Opens, Closes
<1> QED BY <1>1, PlacesFinite

\* What came before goes on to hold of another wire.
KeepsWire(w, w2, r) ==
  /\ \A list : \A from \in Nat : \A to : Carries(w, r, list, from, to) => Carries(w2, r, list, from, to)
  /\ Ordered(w, r) => Ordered(w2, r)
  /\ Opens(w, r) = {} <=> Opens(w2, r) = {}
  /\ Closes(w, r) = {} <=> Closes(w2, r) = {}

LEMMA ForeignAppended ==
  ASSUME NEW S, NEW wire \in Seq(S), NEW l \in S, NEW r, Foreign(l, r)
  PROVE  KeepsWire(wire, Append(wire, l), r)
<1> DEFINE w == Append(wire, l)
<1>1. /\ \A k \in DOMAIN wire : w[k] = wire[k]
      /\ Opens(w, r) = Opens(wire, r) /\ Tagged(w, r) = Tagged(wire, r) /\ Closes(w, r) = Closes(wire, r)
  BY WireAppended DEF Foreign
<1>2. Tagged(wire, r) \subseteq DOMAIN wire
  BY WirePlaces
<1> HIDE DEF w
<1>3. \A k \in Tagged(wire, r) : w[k].id = wire[k].id
  BY <1>1, <1>2
<1>4. ASSUME NEW list, NEW from \in Nat, NEW to, Carries(wire, r, list, from, to)
      PROVE  Carries(w, r, list, from, to)
  BY <1>1, <1>3, <1>4, RunsAgree DEF Carries
<1>5. Ordered(wire, r) => Ordered(w, r)
  BY <1>1 DEF Ordered
<1> QED BY <1>1, <1>4, <1>5 DEF KeepsWire, w

LEMMA BehindSingle ==
  ASSUME NEW S, NEW T, Behind(S, T), Single(S)
  PROVE  Single(T) /\ (1 \in S => T = {})
<1>1. \A k \in T : k + 1 \in S /\ k \in Nat /\ k >= 1
  BY DEF Behind
<1>2. \A x, y \in T : x = y
  BY <1>1 DEF Single
<1>3. 1 \in S => T = {}
  BY <1>1 DEF Single
<1> QED BY <1>2, <1>3 DEF Single

LEMMA BehindEmpty ==
  ASSUME NEW S, NEW T, Behind(S, T), 1 \notin S
  PROVE  S = {} <=> T = {}
BY DEF Behind

LEMMA BehindBefore ==
  ASSUME NEW S, NEW T, Behind(S, T), NEW S2, NEW T2, Behind(S2, T2), \A k \in S, j \in S2 : k < j
  PROVE  /\ \A k \in T, j \in T2 : k < j
         /\ 1 \in S2 => S = {}
<1>1. ASSUME NEW k \in T, NEW j \in T2 PROVE k < j
  <2>1. k + 1 \in S /\ k \in Nat /\ j + 1 \in S2 /\ j \in Nat
    BY <1>1 DEF Behind
  <2>2. k + 1 < j + 1
    BY <2>1
  <2> QED BY <2>1, <2>2
<1>2. ASSUME 1 \in S2, NEW k \in S PROVE FALSE
  <2>1. k < 1 /\ k \in Nat /\ k >= 1
    BY <1>2 DEF Behind
  <2> QED BY <2>1
<1> QED BY <1>1, <1>2

\* Taking a line keeps the order.
LEMMA OrderedTaken ==
  ASSUME NEW S, NEW wire \in Seq(S), wire # <<>>, NEW r, Ordered(wire, r)
  PROVE  Ordered(Tail(wire), r)
<1>1. /\ Behind(Opens(wire, r), Opens(Tail(wire), r))
      /\ Behind(Tagged(wire, r), Tagged(Tail(wire), r))
      /\ Behind(Closes(wire, r), Closes(Tail(wire), r))
  BY WireTaken
<1>2. /\ Single(Opens(wire, r)) /\ Single(Closes(wire, r))
      /\ \A k \in Opens(wire, r), j \in Tagged(wire, r) : k < j
      /\ \A k \in Opens(wire, r), j \in Closes(wire, r) : k < j
      /\ \A j \in Tagged(wire, r), k \in Closes(wire, r) : j < k
  BY DEF Ordered
<1>3. Single(Opens(Tail(wire), r)) /\ Single(Closes(Tail(wire), r))
  BY <1>1, <1>2, BehindSingle
<1>4. \A k \in Opens(Tail(wire), r), j \in Tagged(Tail(wire), r) : k < j
  BY <1>1, <1>2, BehindBefore
<1>5. \A k \in Opens(Tail(wire), r), j \in Closes(Tail(wire), r) : k < j
  BY <1>1, <1>2, BehindBefore
<1>6. \A k \in Tagged(Tail(wire), r), j \in Closes(Tail(wire), r) : k < j
  BY <1>1, <1>2, BehindBefore
<1> QED BY <1>3, <1>4, <1>5, <1>6 DEF Ordered

LEMMA CarriesTaken ==
  ASSUME NEW S, NEW wire \in Seq(S), wire # <<>>, NEW r, ~IsTagged(Head(wire), r),
         NEW list, NEW from \in Nat, NEW to, Carries(wire, r, list, from, to)
  PROVE  Carries(Tail(wire), r, list, from, to)
<1> DEFINE S1 == Tagged(wire, r)
           T1 == Tagged(Tail(wire), r)
           w == Tail(wire)
<1>1. /\ Behind(S1, T1) /\ 1 \notin S1 /\ \A k \in T1 : w[k] = wire[k + 1]
  BY WireTaken
<1>2. S1 \in SUBSET Nat /\ IsFiniteSet(S1)
  BY WirePlaces
<1>3. Runs(S1, wire, list, from, to)
  BY DEF Carries
<1> HIDE DEF S1, T1, w
<1>4. /\ T1 \in SUBSET Nat /\ -1 \in Int
      /\ \A k \in S1 : k + (-1) \in T1
      /\ \A k \in T1 : k - (-1) \in S1 /\ w[k].id = wire[k - (-1)].id
  <2>1. T1 \in SUBSET Nat
    BY <1>1 DEF Behind
  <2>2. ASSUME NEW k \in S1 PROVE k + (-1) \in T1
    <3>1. k - 1 \in T1 /\ k \in Nat
      BY <1>1 DEF Behind
    <3>2. k + (-1) = k - 1
      BY <3>1
    <3> QED BY <3>1, <3>2
  <2>3. ASSUME NEW k \in T1 PROVE k - (-1) \in S1 /\ w[k].id = wire[k - (-1)].id
    <3>1. k + 1 \in S1 /\ k \in Nat /\ w[k] = wire[k + 1]
      BY <1>1 DEF Behind
    <3>2. k - (-1) = k + 1
      BY <3>1
    <3> QED BY <3>1, <3>2
  <2> QED BY <2>1, <2>2, <2>3
<1>5. Runs(T1, w, list, from, to)
  BY <1>2, <1>3, <1>4, RunsShifts, ZenonT(60)
<1> QED BY <1>5 DEF Carries, T1, w

LEMMA ForeignTaken ==
  ASSUME NEW S, NEW wire \in Seq(S), wire # <<>>, NEW r, Foreign(Head(wire), r)
  PROVE  KeepsWire(wire, Tail(wire), r)
<1>1. /\ Behind(Opens(wire, r), Opens(Tail(wire), r))
      /\ Behind(Closes(wire, r), Closes(Tail(wire), r))
      /\ 1 \notin Opens(wire, r) /\ 1 \notin Closes(wire, r)
  BY WireTaken DEF Foreign
<1>2. /\ Opens(wire, r) = {} <=> Opens(Tail(wire), r) = {}
      /\ Closes(wire, r) = {} <=> Closes(Tail(wire), r) = {}
  BY <1>1, BehindEmpty
<1>3. Ordered(wire, r) => Ordered(Tail(wire), r)
  BY OrderedTaken
<1>4. ~IsTagged(Head(wire), r)
  BY DEF Foreign
<1>5. ASSUME NEW list, NEW from \in Nat, NEW to, Carries(wire, r, list, from, to)
      PROVE  Carries(Tail(wire), r, list, from, to)
  BY <1>4, <1>5, CarriesTaken
<1> QED BY <1>2, <1>3, <1>5 DEF KeepsWire

\* The first line is the next one of the list.
LEMMA TaggedTaken ==
  ASSUME NEW S, NEW wire \in Seq(S), wire # <<>>, NEW r, IsTagged(Head(wire), r), Ordered(wire, r),
         NEW list, NEW from \in Nat, NEW to, Carries(wire, r, list, from, to)
  PROVE  /\ Carries(Tail(wire), r, list, from + 1, to)
         /\ Head(wire).id = list[from + 1] /\ from + 1 <= to
         /\ Opens(wire, r) = {} /\ Opens(Tail(wire), r) = {}
         /\ Closes(wire, r) = {} <=> Closes(Tail(wire), r) = {}
<1> DEFINE S1 == Tagged(wire, r)
           T1 == Tagged(Tail(wire), r)
           w == Tail(wire)
<1>1. /\ Behind(S1, T1) /\ 1 \in S1 /\ \A k \in T1 : w[k] = wire[k + 1]
      /\ Behind(Opens(wire, r), Opens(w, r)) /\ Behind(Closes(wire, r), Closes(w, r))
      /\ 1 \notin Closes(wire, r)
  BY WireTaken, OneKind
<1>2. S1 \in SUBSET Nat /\ IsFiniteSet(S1)
  BY WirePlaces
<1>3. Runs(S1, wire, list, from, to)
  BY DEF Carries
<1>4. Opens(wire, r) = {}
  <2>1. \A k \in Opens(wire, r), j \in S1 : k < j
    BY DEF Ordered
  <2> QED BY <1>1, <2>1, BehindBefore
<1>5. Opens(w, r) = {}
  BY <1>1, <1>4 DEF Behind
<1>6. Closes(wire, r) = {} <=> Closes(w, r) = {}
  BY <1>1, BehindEmpty
<1> HIDE DEF S1, T1
<1>7. \A k \in S1 : 1 <= k
  BY <1>1, <1>2 DEF Behind
<1>8. Runs(S1 \ {1}, wire, list, from + 1, to) /\ wire[1].id = list[from + 1] /\ from + 1 <= to
  <2>1. 1 \in S1
    BY <1>1
  <2>2. PICK one \in S1 : one = 1
    BY <2>1
  <2>3. \A k \in S1 : one <= k
    BY <1>7, <2>2
  <2>4. Runs(S1 \ {one}, wire, list, from + 1, to) /\ wire[one].id = list[from + 1] /\ from + 1 <= to
    <3>1. IsFiniteSet(S1) /\ S1 \in SUBSET Nat
      BY <1>2
    <3> QED BY ONLY <1>3, <2>2, <2>3, <3>1, RunsShrinks
  <2> QED BY <2>2, <2>4
<1>9. S1 \ {1} \in SUBSET Nat /\ IsFiniteSet(S1 \ {1})
  BY <1>2, FS_RemoveElement
<1> HIDE DEF w
<1>10. /\ T1 \in SUBSET Nat /\ -1 \in Int
       /\ \A k \in S1 \ {1} : k + (-1) \in T1
       /\ \A k \in T1 : k - (-1) \in S1 \ {1} /\ w[k].id = wire[k - (-1)].id
  <2>1. T1 \in SUBSET Nat
    BY <1>1 DEF Behind
  <2>2. ASSUME NEW k \in S1 \ {1} PROVE k + (-1) \in T1
    <3>1. k - 1 \in T1 /\ k \in Nat
      BY <1>1 DEF Behind
    <3>2. k + (-1) = k - 1
      BY <3>1
    <3> QED BY <3>1, <3>2
  <2>3. ASSUME NEW k \in T1 PROVE k - (-1) \in S1 \ {1} /\ w[k].id = wire[k - (-1)].id
    <3>1. k + 1 \in S1 /\ k \in Nat /\ k >= 1 /\ w[k] = wire[k + 1]
      BY <1>1 DEF Behind
    <3>2. k - (-1) = k + 1 /\ k + 1 # 1
      BY <3>1
    <3> QED BY <3>1, <3>2
  <2> QED BY <2>1, <2>2, <2>3
<1>11. from + 1 \in Nat
  OBVIOUS
<1>12. Runs(T1, w, list, from + 1, to)
  <2>1. PICK f \in Nat : f = from + 1
    BY <1>11
  <2>2. PICK R \in SUBSET Nat : R = S1 \ {1}
    BY <1>9
  <2>3. IsFiniteSet(R) /\ Runs(R, wire, list, f, to)
    BY <1>8, <1>9, <2>1, <2>2
  <2>4. /\ T1 \in SUBSET Nat /\ -1 \in Int
        /\ \A k \in R : k + (-1) \in T1
        /\ \A k \in T1 : k - (-1) \in R /\ w[k].id = wire[k - (-1)].id
    BY <1>10, <2>2
  <2>5. Runs(T1, w, list, f, to)
    BY <2>3, <2>4, RunsShifts
  <2> QED BY <2>1, <2>5
<1>13. Head(wire) = wire[1]
  OBVIOUS
<1> QED BY <1>4, <1>5, <1>6, <1>8, <1>12, <1>13 DEF Carries, T1, w

\* Rows of other batches change nothing of what is shown of this one.
KeepsShown(s, s2, r) == \A list : \A n : Displays(s, r, list, n) => Displays(s2, r, list, n)

LEMMA ForeignBehind ==
  ASSUME NEW S, NEW shown \in Seq(S), NEW more \in Seq(S), NEW r, \A k \in DOMAIN more : more[k].batch # r
  PROVE  KeepsShown(shown, shown \o more, r)
<1> DEFINE both == shown \o more
           m == Len(shown)
<1>1. /\ \A k \in DOMAIN shown : k \in DOMAIN both /\ both[k] = shown[k]
      /\ \A k \in DOMAIN more : both[m + k] = more[k]
      /\ \A k \in DOMAIN both : k \in DOMAIN shown \/ (k - m \in DOMAIN more /\ m + (k - m) = k)
  BY ConcatPlaces
<1> HIDE DEF both, m
<1>2. ASSUME NEW k \in At(both, r) PROVE k \in At(shown, r)
  <2>1. k \in DOMAIN both /\ both[k].batch = r
    BY <1>2 DEF At
  <2>2. CASE k \in DOMAIN shown
    BY <1>1, <2>1, <2>2 DEF At
  <2>3. CASE k - m \in DOMAIN more /\ m + (k - m) = k
    <3>1. both[k] = more[k - m]
      BY <1>1, <2>3
    <3> QED BY <2>1, <2>3, <3>1
  <2> QED BY <1>1, <2>1, <2>2, <2>3
<1>3. At(both, r) = At(shown, r)
  BY <1>1, <1>2 DEF At
<1>4. \A k \in At(shown, r) : both[k].id = shown[k].id
  BY <1>1 DEF At
<1>5. ASSUME NEW list, NEW n, Displays(shown, r, list, n) PROVE Displays(both, r, list, n)
  BY <1>3, <1>4, <1>5, RunsAgree DEF Displays
<1> QED BY <1>5 DEF KeepsShown, both

LEMMA ForeignAhead ==
  ASSUME NEW S, NEW shown \in Seq(S), NEW more \in Seq(S), NEW r, \A k \in DOMAIN more : more[k].batch # r
  PROVE  KeepsShown(shown, more \o shown, r)
<1> DEFINE both == more \o shown
           m == Len(more)
<1>1. /\ m \in Nat
      /\ \A k \in DOMAIN more : both[k] = more[k]
      /\ \A k \in DOMAIN shown : m + k \in DOMAIN both /\ both[m + k] = shown[k] /\ k \in Nat
      /\ \A k \in DOMAIN both :
           k \in Nat /\ (k \in DOMAIN more \/ (k - m \in DOMAIN shown /\ m + (k - m) = k))
  BY ConcatPlaces
<1> HIDE DEF both, m
<1>2. ASSUME NEW k \in At(shown, r) PROVE k + m \in At(both, r)
  <2>1. k \in DOMAIN shown /\ shown[k].batch = r
    BY <1>2 DEF At
  <2>2. m + k \in DOMAIN both /\ both[m + k] = shown[k] /\ k + m = m + k
    BY <1>1, <2>1
  <2> QED BY <2>1, <2>2 DEF At
<1>3. ASSUME NEW k \in At(both, r) PROVE k - m \in At(shown, r) /\ both[k].id = shown[k - m].id
  <2>1. k \in DOMAIN both /\ both[k].batch = r
    BY <1>3 DEF At
  <2>2. k \notin DOMAIN more
    BY <1>1, <2>1
  <2>3. k - m \in DOMAIN shown /\ m + (k - m) = k
    BY <1>1, <2>1, <2>2
  <2>4. both[k] = shown[k - m]
    BY <1>1, <2>3
  <2> QED BY <2>1, <2>3, <2>4 DEF At
<1>4. At(shown, r) \in SUBSET Nat /\ IsFiniteSet(At(shown, r))
  BY PlacesFinite DEF At
<1>5. At(both, r) \in SUBSET Nat /\ m \in Int /\ 0 \in Nat
  BY <1>1 DEF At
<1>6. ASSUME NEW list, NEW n, Displays(shown, r, list, n) PROVE Displays(both, r, list, n)
  <2>1. Runs(At(shown, r), shown, list, 0, n)
    BY <1>6 DEF Displays
  <2>2. Runs(At(both, r), both, list, 0, n)
    BY <1>2, <1>3, <1>4, <1>5, <2>1, RunsShifts, ZenonT(60)
  <2> QED BY <2>2 DEF Displays
<1> QED BY <1>6 DEF KeepsShown, both

LEMMA DisplaysNone ==
  ASSUME NEW S, NEW shown \in Seq(S), NEW r, NEW list
  PROVE  Displays(shown, r, list, 0) <=> At(shown, r) = {}
<1>1. At(shown, r) \in SUBSET Nat /\ IsFiniteSet(At(shown, r)) /\ 0 \in Nat
  BY PlacesFinite DEF At
<1>2. Runs(At(shown, r), shown, list, 0, 0) => At(shown, r) = {}
  BY <1>1, RunsType
<1>3. At(shown, r) = {} => Runs(At(shown, r), shown, list, 0, 0)
  BY <1>1, RunsNone
<1> QED BY <1>2, <1>3 DEF Displays

LEMMA DisplaysOneMore ==
  ASSUME NEW S, NEW shown \in Seq(S), NEW r, NEW list, NEW n, Displays(shown, r, list, n),
         NEW row \in S, row.id = list[n + 1], row.batch = r
  PROVE  Displays(shown \o <<row>>, r, list, n + 1)
<1> DEFINE both == shown \o <<row>>
<1>1. PICK m \in Nat : m = Len(shown) + 1
  BY LenProperties
<1>2. /\ \A k \in DOMAIN shown : k \in DOMAIN both /\ both[k] = shown[k] /\ k < m
      /\ m \in DOMAIN both /\ both[m] = row
      /\ \A k \in DOMAIN both : k \in DOMAIN shown \/ k = m
  <2>1. <<row>> \in Seq(S) /\ DOMAIN <<row>> = {1} /\ <<row>>[1] = row
    OBVIOUS
  <2>2. /\ Len(shown) \in Nat
        /\ \A k \in DOMAIN shown : k \in DOMAIN both /\ both[k] = shown[k] /\ k <= Len(shown)
        /\ \A k \in DOMAIN <<row>> : Len(shown) + k \in DOMAIN both /\ both[Len(shown) + k] = <<row>>[k]
        /\ \A k \in DOMAIN both :
             /\ k \in Nat
             /\ k \in DOMAIN shown \/ (k - Len(shown) \in DOMAIN <<row>> /\ Len(shown) + (k - Len(shown)) = k)
    BY <2>1, ConcatPlaces
  <2>3. \A k \in DOMAIN shown : k \in Nat
    BY Places
  <2> HIDE DEF both
  <2>4. \A k \in DOMAIN shown : k < m
    BY <1>1, <2>2, <2>3
  <2>5. m \in DOMAIN both /\ both[m] = row
    BY <1>1, <2>1, <2>2
  <2>6. ASSUME NEW k \in DOMAIN both, k \notin DOMAIN shown PROVE k = m
    <3>1. k - Len(shown) = 1 /\ Len(shown) + (k - Len(shown)) = k
      BY <2>1, <2>2, <2>6
    <3> QED BY <1>1, <3>1
  <2> QED BY <2>2, <2>4, <2>5, <2>6
<1> HIDE DEF both
<1>3. At(both, r) = At(shown, r) \cup {m}
  BY <1>2 DEF At
<1>4. At(shown, r) \in SUBSET Nat /\ IsFiniteSet(At(shown, r)) /\ 0 \in Nat
  BY PlacesFinite DEF At
<1>5. /\ \A k \in At(shown, r) : k < m /\ both[k].id = shown[k].id
      /\ both[m].id = list[n + 1]
  BY <1>2 DEF At
<1>6. Runs(At(shown, r), shown, list, 0, n)
  BY DEF Displays
<1>7. Runs(At(shown, r) \cup {m}, both, list, 0, n + 1)
  BY <1>4, <1>5, <1>6, RunsGrows
<1> QED BY <1>3, <1>7 DEF Displays, both

LEMMA DisplaysBlock ==
  ASSUME NEW S, NEW shown \in Seq(S), NEW r, NEW list, At(shown, r) = {},
         NEW messages \in Seq(Nat), NEW n \in Nat, Len(messages) = n, \A k \in 1..n : messages[k] = list[k],
         Rows(messages, r) \in Seq(S)
  PROVE  Displays(Rows(messages, r) \o shown, r, list, n)
<1> DEFINE more == Rows(messages, r)
           both == more \o shown
<1>1. DOMAIN messages = 1..n
  BY LenProperties
<1>2. DOMAIN more = 1..n /\ \A k \in 1..n : more[k].id = messages[k] /\ more[k].batch = r
  BY <1>1 DEF Rows, Row
<1>3. Len(more) \in Nat /\ DOMAIN more = 1..Len(more)
  BY LenProperties
<1> HIDE DEF more
<1>4. /\ \A k \in DOMAIN more : k \in DOMAIN both /\ both[k] = more[k]
      /\ \A k \in DOMAIN shown : both[Len(more) + k] = shown[k]
      /\ \A k \in DOMAIN both :
           k \in DOMAIN more \/ (k - Len(more) \in DOMAIN shown /\ Len(more) + (k - Len(more)) = k)
  BY ConcatPlaces DEF more
<1> HIDE DEF both
<1>5. ASSUME NEW k \in At(both, r) PROVE k \in 1..n
  <2>1. k \in DOMAIN both /\ both[k].batch = r
    BY <1>5 DEF At
  <2>2. CASE k - Len(more) \in DOMAIN shown /\ Len(more) + (k - Len(more)) = k
    <3>1. both[k] = shown[k - Len(more)]
      BY <1>4, <2>2
    <3> QED BY <2>1, <2>2, <3>1 DEF At
  <2> QED BY <1>2, <1>4, <2>1, <2>2
<1>6. At(both, r) = 1..n
  BY <1>2, <1>4, <1>5 DEF At
<1>7. \A k \in 1..n : both[k].id = list[k]
  BY <1>2, <1>4
<1>8. Runs(1..n, both, list, 0, n)
  BY <1>7, RunsBlock
<1> QED BY <1>6, <1>8 DEF Displays, both, more

-----------------------------------------------------------------------------
(* What each step does to the history it is about, and to the others *)

LEMMA TakingKept ==
  ASSUME NEW rest, NEW wire, NEW wire2, NEW open, NEW shown, NEW shown2, NEW r, NEW list,
         NEW n \in Nat, NEW sent, Taking(rest, wire, open, shown, r, list, n, sent),
         KeepsWire(wire, wire2, r), KeepsShown(shown, shown2, r)
  PROVE  Taking(rest, wire2, open, shown2, r, list, n, sent)
<1>1. PICK to : to = IF sent <= Len(list) THEN sent ELSE Len(list)
  OBVIOUS
<1>2. PICK m : m = IF open = {} THEN n ELSE 0
  OBVIOUS
<1>3. Carries(wire, r, list, n, to) /\ Displays(shown, r, list, m) /\ Ordered(wire, r)
  BY <1>1, <1>2 DEF Taking
<1>4. Carries(wire2, r, list, n, to) /\ Displays(shown2, r, list, m) /\ Ordered(wire2, r)
  BY <1>3 DEF KeepsWire, KeepsShown
<1>5. /\ Opens(wire, r) = {} <=> Opens(wire2, r) = {}
      /\ Closes(wire, r) = {} <=> Closes(wire2, r) = {}
  BY DEF KeepsWire
<1> QED BY <1>1, <1>2, <1>4, <1>5 DEF Taking

LEMMA TakingBegins ==
  ASSUME NEW S, NEW wire \in Seq(S), NEW l \in S, NEW r, IsOpen(l, r),
         Opens(wire, r) = {}, Tagged(wire, r) = {}, Closes(wire, r) = {},
         NEW T, NEW shown \in Seq(T), At(shown, r) = {}, NEW list \in Seq(Nat)
  PROVE  Taking(Append(list, End), Append(wire, l), {}, shown, r, list, 0, 0)
<1> DEFINE w == Append(wire, l)
<1>1. PICK m : m = Len(wire) + 1
  OBVIOUS
<1>2. Opens(w, r) = {m} /\ Tagged(w, r) = {} /\ Closes(w, r) = {}
  BY <1>1, WireAppended, OneKind
<1>3. Len(list) \in Nat /\ 0 <= Len(list)
  BY LenProperties
<1>4. Carries(w, r, list, 0, 0)
  BY <1>2, RunsNone DEF Carries
<1>5. Ordered(w, r)
  BY <1>2 DEF Ordered, Single
<1>6. Displays(shown, r, list, 0)
  BY DisplaysNone
<1>7. Remains(Append(list, End), list, 0)
  <2>1. End \in Nat
    BY DEF End
  <2>2. /\ Len(Append(list, End)) = Len(list) + 1
        /\ DOMAIN Append(list, End) = DOMAIN list \cup {Len(list) + 1}
        /\ \A k \in DOMAIN list : Append(list, End)[k] = list[k] /\ k < Len(list) + 1
        /\ Append(list, End)[Len(list) + 1] = End
    BY <2>1, AppendPlaces
  <2>3. \A k \in DOMAIN list : k \in Nat /\ k <= Len(list)
    BY Places
  <2>4. Len(list) + 1 = Len(list) + 1 - 0 /\ ~(0 + (Len(list) + 1) <= Len(list))
    BY <1>3
  <2>5. \A k \in DOMAIN list : 0 + k = k
    BY <2>3
  <2> QED BY <2>2, <2>3, <2>4, <2>5 DEF Remains
<1> HIDE DEF w
<1>8. Single({})
  BY DEF Single
<1> QED BY <1>2, <1>3, <1>4, <1>5, <1>6, <1>7, <1>8 DEF Taking, w

LEMMA RemainsSends ==
  ASSUME NEW list \in Seq(Nat), NEW rest \in Seq(Nat), rest # <<>>,
         NEW sent \in 0..(Len(list) + 1), Remains(rest, list, sent)
  PROVE  /\ sent <= Len(list) /\ Remains(Tail(rest), list, sent + 1)
         /\ Head(rest) # End => sent + 1 <= Len(list) /\ Head(rest) = list[sent + 1]
         /\ (\A k \in DOMAIN list : list[k] # End) /\ Head(rest) = End => sent = Len(list)
<1>1. Len(list) \in Nat /\ DOMAIN list = 1..Len(list) /\ Len(rest) \in Nat
  BY LenProperties
<1>2. /\ Len(rest) = Len(list) + 1 - sent
      /\ \A k \in DOMAIN rest : rest[k] = IF sent + k <= Len(list) THEN list[sent + k] ELSE End
  BY DEF Remains
<1>3. /\ Head(rest) = rest[1] /\ 1 \in DOMAIN rest /\ Len(Tail(rest)) = Len(rest) - 1
      /\ \A k \in DOMAIN Tail(rest) :
           k + 1 \in DOMAIN rest /\ Tail(rest)[k] = rest[k + 1] /\ k \in Nat /\ k >= 1
  BY TailPlaces
<1>4. Len(rest) # 0
  BY EmptySeq
<1>5. sent <= Len(list) /\ sent \in Nat
  BY <1>1, <1>2, <1>4
<1>6. Len(Tail(rest)) = Len(list) + 1 - (sent + 1)
  BY <1>1, <1>2, <1>3, <1>5
<1>7. ASSUME NEW k \in DOMAIN Tail(rest)
      PROVE  Tail(rest)[k] = IF (sent + 1) + k <= Len(list) THEN list[(sent + 1) + k] ELSE End
  <2>1. k + 1 \in DOMAIN rest /\ Tail(rest)[k] = rest[k + 1] /\ k \in Nat
    BY <1>3, <1>7
  <2>2. sent + (k + 1) = (sent + 1) + k
    BY <1>5, <2>1
  <2> QED BY <1>2, <2>1, <2>2
<1>8. Remains(Tail(rest), list, sent + 1)
  BY <1>6, <1>7 DEF Remains
<1>9. Head(rest) = IF sent + 1 <= Len(list) THEN list[sent + 1] ELSE End
  BY <1>2, <1>3
<1>10. Head(rest) # End => sent + 1 <= Len(list) /\ Head(rest) = list[sent + 1]
  BY <1>9
<1>11. ASSUME \A k \in DOMAIN list : list[k] # End, Head(rest) = End PROVE sent = Len(list)
  <2>1. CASE sent + 1 <= Len(list)
    <3>1. sent + 1 \in DOMAIN list
      BY <1>1, <1>5, <2>1
    <3> QED BY <1>9, <1>11, <2>1, <3>1
  <2>2. CASE ~(sent + 1 <= Len(list))
    <3>1. PICK m \in Nat : m = Len(list)
      BY <1>1
    <3>2. sent \in Nat /\ sent <= m /\ ~(sent + 1 <= m)
      BY <1>5, <2>2, <3>1
    <3>3. sent = m
      BY <3>2
    <3> QED BY <3>1, <3>3
  <2> QED BY <2>1, <2>2
<1> QED BY <1>5, <1>8, <1>10, <1>11

LEMMA TakingSends ==
  ASSUME NEW S, NEW wire \in Seq(S), NEW l \in S, NEW r, IsTagged(l, r),
         NEW list \in Seq(Nat), NEW rest \in Seq(Nat), rest # <<>>, Head(rest) # End, l.id = Head(rest),
         NEW open, NEW shown, NEW n \in 0..Len(list), NEW sent \in 0..(Len(list) + 1),
         Taking(rest, wire, open, shown, r, list, n, sent)
  PROVE  /\ sent + 1 <= Len(list)
         /\ Taking(Tail(rest), Append(wire, l), open, shown, r, list, n, sent + 1)
<1> DEFINE w == Append(wire, l)
<1>1. Len(list) \in Nat /\ sent \in Nat /\ n \in Nat
  BY LenProperties
<1>2. Remains(rest, list, sent)
  BY DEF Taking
<1>3. /\ sent <= Len(list) /\ Remains(Tail(rest), list, sent + 1)
      /\ sent + 1 <= Len(list) /\ Head(rest) = list[sent + 1]
  BY <1>2, RemainsSends
<1>4. Carries(wire, r, list, n, sent) /\ Ordered(wire, r)
  BY <1>3 DEF Taking
<1>5. Closes(wire, r) = {}
  <2>1. sent # Len(list) + 1
    BY <1>1, <1>3
  <2> QED BY <2>1 DEF Taking
<1>6. PICK m \in Nat : m = Len(wire) + 1
  BY LenProperties
<1>7. /\ \A k \in DOMAIN wire : k < m /\ w[k] = wire[k]
      /\ w[m] = l /\ Opens(w, r) = Opens(wire, r) /\ Tagged(w, r) = Tagged(wire, r) \cup {m}
      /\ Closes(w, r) = {}
  BY <1>5, <1>6, WireAppended, OneKind
<1>8. /\ Tagged(wire, r) \in SUBSET Nat /\ IsFiniteSet(Tagged(wire, r))
      /\ Tagged(wire, r) \subseteq DOMAIN wire /\ Opens(wire, r) \subseteq DOMAIN wire
  BY WirePlaces
<1> HIDE DEF w
<1>9. Carries(w, r, list, n, sent + 1)
  <2>1. \A k \in Tagged(wire, r) : k < m /\ w[k].id = wire[k].id
    BY <1>7, <1>8
  <2>2. w[m].id = list[sent + 1]
    BY <1>3, <1>7
  <2>3. Runs(Tagged(wire, r), wire, list, n, sent)
    BY <1>4 DEF Carries
  <2>4. Runs(Tagged(wire, r) \cup {m}, w, list, n, sent + 1)
    BY <1>1, <1>8, <2>1, <2>2, <2>3, RunsGrows
  <2> QED BY <1>7, <2>4 DEF Carries
<1>10. Ordered(w, r)
  BY <1>4, <1>5, <1>7, <1>8 DEF Ordered
<1>11. Taking(Tail(rest), w, open, shown, r, list, n, sent + 1)
  <2>1. PICK x : x = sent + 1
    OBVIOUS
  <2>2. /\ Carries(w, r, list, n, x) /\ x <= Len(list) /\ Remains(Tail(rest), list, x)
    BY <1>3, <1>9, <2>1
  <2>3. Taking(Tail(rest), w, open, shown, r, list, n, x)
    BY <1>7, <1>10, <2>2 DEF Taking
  <2> QED BY <2>1, <2>3
<1> QED BY <1>3, <1>11 DEF w

LEMMA TakingEnds ==
  ASSUME NEW S, NEW wire \in Seq(S), NEW l \in S, NEW r, IsClose(l, r),
         NEW list \in Seq(Nat), \A k \in DOMAIN list : list[k] # End,
         NEW rest \in Seq(Nat), rest # <<>>, Head(rest) = End,
         NEW open, NEW shown, NEW n \in 0..Len(list), NEW sent \in 0..(Len(list) + 1),
         Taking(rest, wire, open, shown, r, list, n, sent)
  PROVE  Taking(Tail(rest), Append(wire, l), open, shown, r, list, n, Len(list) + 1)
<1> DEFINE w == Append(wire, l)
<1>1. Len(list) \in Nat /\ sent \in Nat
  BY LenProperties
<1>2. Remains(rest, list, sent)
  BY DEF Taking
<1>3. Remains(Tail(rest), list, sent + 1) /\ sent = Len(list)
  BY <1>2, RemainsSends
<1>4. Carries(wire, r, list, n, Len(list)) /\ Ordered(wire, r)
  BY <1>1, <1>3 DEF Taking
<1>5. Closes(wire, r) = {}
  <2>1. sent # Len(list) + 1
    BY <1>1, <1>3
  <2> QED BY <2>1 DEF Taking
<1>6. PICK m \in Nat : m = Len(wire) + 1
  BY LenProperties
<1>7. /\ \A k \in DOMAIN wire : k < m /\ w[k] = wire[k]
      /\ Opens(w, r) = Opens(wire, r) /\ Tagged(w, r) = Tagged(wire, r) /\ Closes(w, r) = {m}
  BY <1>5, <1>6, WireAppended, OneKind
<1>8. Tagged(wire, r) \subseteq DOMAIN wire /\ Opens(wire, r) \subseteq DOMAIN wire
  BY WirePlaces
<1> HIDE DEF w
<1>9. Carries(w, r, list, n, Len(list))
  <2>1. \A k \in Tagged(wire, r) : w[k].id = wire[k].id
    BY <1>7, <1>8
  <2> QED BY <1>4, <1>7, <2>1, RunsAgree DEF Carries
<1>10. Ordered(w, r)
  BY <1>4, <1>5, <1>7, <1>8 DEF Ordered, Single
<1>11. PICK x : x = Len(list) + 1
  OBVIOUS
<1>12. ~(x <= Len(list)) /\ Remains(Tail(rest), list, x)
  BY <1>1, <1>3, <1>11
<1>13. Taking(Tail(rest), w, open, shown, r, list, n, x)
  BY <1>7, <1>9, <1>10, <1>11, <1>12 DEF Taking
<1> QED BY <1>11, <1>13 DEF w

LEMMA TakesOpen ==
  ASSUME NEW S, NEW wire \in Seq(S), wire # <<>>, NEW r, IsOpen(Head(wire), r),
         NEW list \in Seq(Nat), NEW rest, NEW open, NEW shown,
         NEW n \in 0..Len(list), NEW sent \in 0..(Len(list) + 1),
         Taking(rest, wire, open, shown, r, list, n, sent),
         NEW open2, Single(open2), \A b \in open2 : b.messages = <<>>
  PROVE  open = {} /\ Taking(rest, Tail(wire), open2, shown, r, list, n, sent)
<1> DEFINE w == Tail(wire)
<1>1. PICK to : to = IF sent <= Len(list) THEN sent ELSE Len(list)
  OBVIOUS
<1>2. Carries(wire, r, list, n, to) /\ Ordered(wire, r)
  BY <1>1 DEF Taking
<1>3. /\ Behind(Opens(wire, r), Opens(w, r)) /\ 1 \in Opens(wire, r)
      /\ Behind(Closes(wire, r), Closes(w, r)) /\ 1 \notin Closes(wire, r)
  BY WireTaken, OneKind
<1>4. n = 0 /\ open = {} /\ (sent <= Len(list) \/ Closes(wire, r) # {})
  BY <1>3 DEF Taking
<1>5. Opens(w, r) = {}
  BY <1>2, <1>3, BehindSingle DEF Ordered
<1>6. Closes(wire, r) = {} <=> Closes(w, r) = {}
  BY <1>3, BehindEmpty
<1>7. Ordered(w, r)
  BY <1>2, OrderedTaken
<1>8. n \in Nat /\ ~IsTagged(Head(wire), r)
  BY <1>4, OneKind
<1>9. Carries(w, r, list, n, to)
  BY <1>2, <1>8, CarriesTaken
<1>10. Displays(shown, r, list, 0)
  BY <1>4 DEF Taking
<1>11. \A b \in open2 : Len(b.messages) = n /\ \A k \in 1..n : b.messages[k] = list[k]
  BY <1>4
<1> HIDE DEF w
<1>12. Taking(rest, w, open2, shown, r, list, n, sent)
  BY <1>1, <1>4, <1>5, <1>6, <1>7, <1>9, <1>10, <1>11 DEF Taking
<1> QED BY <1>4, <1>12 DEF w

LEMMA TakesTagged ==
  ASSUME NEW S, NEW wire \in Seq(S), wire # <<>>, NEW r, IsTagged(Head(wire), r),
         NEW list \in Seq(Nat), NEW rest, NEW open, NEW shown,
         NEW n \in 0..Len(list), NEW sent \in 0..(Len(list) + 1),
         Taking(rest, wire, open, shown, r, list, n, sent),
         NEW open2, NEW shown2,
         open2 = {} <=> open = {}, Single(open2),
         \A b \in open2 : Len(b.messages) = n + 1 /\ \A k \in 1..(n + 1) : b.messages[k] = list[k],
         Displays(shown2, r, list, IF open = {} THEN n + 1 ELSE 0)
  PROVE  Taking(rest, Tail(wire), open2, shown2, r, list, n + 1, sent)
<1> DEFINE w == Tail(wire)
<1>1. PICK to : to = IF sent <= Len(list) THEN sent ELSE Len(list)
  OBVIOUS
<1>2. Carries(wire, r, list, n, to) /\ Ordered(wire, r)
  BY <1>1 DEF Taking
<1>3. n \in Nat
  OBVIOUS
<1>4. /\ Carries(w, r, list, n + 1, to)
      /\ Opens(wire, r) = {} /\ Opens(w, r) = {}
      /\ Closes(wire, r) = {} <=> Closes(w, r) = {}
  BY <1>2, <1>3, TaggedTaken
<1>5. Ordered(w, r)
  BY <1>2, OrderedTaken
<1> HIDE DEF w
<1>6. PICK x : x = n + 1
  OBVIOUS
<1>7. Taking(rest, w, open2, shown2, r, list, x, sent)
  <2>1. Displays(shown2, r, list, IF open2 = {} THEN x ELSE 0)
    BY <1>6
  <2>2. \A b \in open2 : Len(b.messages) = x /\ \A k \in 1..x : b.messages[k] = list[k]
    BY <1>6
  <2> QED BY <1>1, <1>4, <1>5, <1>6, <2>1, <2>2 DEF Taking
<1> QED BY <1>6, <1>7 DEF w

\* What the head is, and that there is room for it.
LEMMA TakingNext ==
  ASSUME NEW S, NEW wire \in Seq(S), wire # <<>>, NEW r, IsTagged(Head(wire), r),
         NEW list \in Seq(Nat), NEW rest, NEW open, NEW shown,
         NEW n \in 0..Len(list), NEW sent \in 0..(Len(list) + 1),
         Taking(rest, wire, open, shown, r, list, n, sent)
  PROVE  n + 1 \in 0..Len(list) /\ Head(wire).id = list[n + 1]
<1>1. PICK to : to = IF sent <= Len(list) THEN sent ELSE Len(list)
  OBVIOUS
<1>2. Carries(wire, r, list, n, to) /\ Ordered(wire, r)
  BY <1>1 DEF Taking
<1>3. n \in Nat /\ Len(list) \in Nat
  BY LenProperties
<1>4. Head(wire).id = list[n + 1] /\ n + 1 <= to
  BY <1>2, <1>3, TaggedTaken
<1>5. to \in Nat /\ to <= Len(list)
  BY <1>1, <1>3
<1>6. n + 1 \in 0..Len(list)
  BY <1>3, <1>4, <1>5
<1> QED BY <1>4, <1>6

\* A row of the batch that was one too many.
LEMMA TakesLoose ==
  ASSUME NEW S, NEW wire \in Seq(S), wire # <<>>, NEW r, IsTagged(Head(wire), r),
         NEW list \in Seq(Nat), NEW rest, NEW T, NEW shown \in Seq(T),
         NEW n \in 0..Len(list), NEW sent \in 0..(Len(list) + 1),
         Taking(rest, wire, {}, shown, r, list, n, sent),
         NEW row \in T, row.id = Head(wire).id, row.batch = r
  PROVE  n + 1 \in 0..Len(list) /\ Taking(rest, Tail(wire), {}, shown \o <<row>>, r, list, n + 1, sent)
<1>1. n + 1 \in 0..Len(list) /\ Head(wire).id = list[n + 1]
  BY TakingNext
<1>2. Displays(shown, r, list, n)
  BY DEF Taking
<1>3. Displays(shown \o <<row>>, r, list, n + 1)
  BY <1>1, <1>2, DisplaysOneMore
<1>4. PICK shown2 : shown2 = shown \o <<row>>
  OBVIOUS
<1>5. PICK open : open = {}
  OBVIOUS
<1>6. /\ Single(open) /\ Displays(shown2, r, list, IF open = {} THEN n + 1 ELSE 0)
      /\ \A b \in open : Len(b.messages) = n + 1 /\ \A k \in 1..(n + 1) : b.messages[k] = list[k]
      /\ Taking(rest, wire, open, shown, r, list, n, sent)
  BY <1>3, <1>4, <1>5 DEF Single
<1>7. Taking(rest, Tail(wire), open, shown2, r, list, n + 1, sent)
  BY <1>6, TakesTagged
<1> QED BY <1>1, <1>4, <1>5, <1>7

\* A line of the batch that is open.
LEMMA TakesBatched ==
  ASSUME NEW S, NEW wire \in Seq(S), wire # <<>>, NEW r, IsTagged(Head(wire), r),
         NEW list \in Seq(Nat), NEW rest, NEW open, open # {}, NEW shown,
         NEW n \in 0..Len(list), NEW sent \in 0..(Len(list) + 1),
         Taking(rest, wire, open, shown, r, list, n, sent),
         NEW open2, Head(wire).id \in Nat, open2 # {}, Single(open2),
         \A b2 \in open2 : \E b \in open : /\ b.messages \in Seq(Nat)
                                           /\ b2.messages = Append(b.messages, Head(wire).id)
  PROVE  n + 1 \in 0..Len(list) /\ Taking(rest, Tail(wire), open2, shown, r, list, n + 1, sent)
<1>1. n + 1 \in 0..Len(list) /\ Head(wire).id = list[n + 1] /\ n \in Nat
  BY TakingNext
<1>2. /\ Displays(shown, r, list, 0)
      /\ \A b \in open : Len(b.messages) = n /\ \A k \in 1..n : b.messages[k] = list[k]
  BY DEF Taking
<1>3. ASSUME NEW b2 \in open2
      PROVE  Len(b2.messages) = n + 1 /\ \A k \in 1..(n + 1) : b2.messages[k] = list[k]
  <2>1. PICK b \in open : b.messages \in Seq(Nat) /\ b2.messages = Append(b.messages, Head(wire).id)
    OBVIOUS
  <2>2. PICK m \in Seq(Nat) : m = b.messages
    BY <2>1
  <2>3. PICK x \in Nat : x = Head(wire).id
    OBVIOUS
  <2>4. Len(m) = n /\ \A k \in 1..n : m[k] = list[k]
    BY <1>2, <2>2
  <2>5. DOMAIN m = 1..n
    BY <2>4, LenProperties
  <2>6. /\ Len(Append(m, x)) = Len(m) + 1
        /\ \A k \in DOMAIN m : Append(m, x)[k] = m[k]
        /\ Append(m, x)[Len(m) + 1] = x
    BY AppendPlaces
  <2>7. \A k \in 1..(n + 1) : k \in 1..n \/ k = n + 1
    BY <1>1
  <2>8. Append(m, x)[n + 1] = list[n + 1]
    BY <1>1, <2>3, <2>4, <2>6
  <2>9. \A k \in 1..(n + 1) : Append(m, x)[k] = list[k]
    BY <2>4, <2>5, <2>6, <2>7, <2>8
  <2> QED BY <2>1, <2>2, <2>3, <2>4, <2>6, <2>9
<1>4. Displays(shown, r, list, IF open = {} THEN n + 1 ELSE 0)
  BY <1>2
<1>5. Taking(rest, Tail(wire), open2, shown, r, list, n + 1, sent)
  BY <1>3, <1>4, TakesTagged
<1> QED BY <1>1, <1>5

LEMMA TakesClose ==
  ASSUME NEW S, NEW wire \in Seq(S), wire # <<>>, NEW r, IsClose(Head(wire), r),
         NEW list \in Seq(Nat), NEW rest, NEW open, NEW shown, NEW shown2,
         NEW n \in 0..Len(list), NEW sent \in 0..(Len(list) + 1),
         Taking(rest, wire, open, shown, r, list, n, sent),
         n = Len(list) => Displays(shown2, r, list, n)
  PROVE  n = Len(list) /\ Taking(rest, Tail(wire), {}, shown2, r, list, n, sent)
<1> DEFINE w == Tail(wire)
<1>1. Len(list) \in Nat /\ n \in Nat /\ sent \in Nat
  BY LenProperties
<1>2. Ordered(wire, r)
  BY DEF Taking
<1>3. /\ Behind(Opens(wire, r), Opens(w, r)) /\ Behind(Tagged(wire, r), Tagged(w, r))
      /\ Behind(Closes(wire, r), Closes(w, r)) /\ 1 \in Closes(wire, r)
  BY WireTaken
<1>4. /\ \A k \in Opens(wire, r), j \in Closes(wire, r) : k < j
      /\ \A k \in Tagged(wire, r), j \in Closes(wire, r) : k < j
      /\ Single(Closes(wire, r))
  BY <1>2 DEF Ordered
<1>5. Opens(wire, r) = {} /\ Tagged(wire, r) = {}
  BY <1>3, <1>4, BehindBefore
<1>6. Opens(w, r) = {} /\ Tagged(w, r) = {} /\ Closes(w, r) = {}
  BY <1>3, <1>4, <1>5, BehindSingle DEF Behind
<1>7. sent = Len(list) + 1 /\ ~(sent <= Len(list))
  BY <1>1, <1>3 DEF Taking
<1>8. Carries(wire, r, list, n, Len(list)) /\ Remains(rest, list, sent)
  BY <1>7 DEF Taking
<1>9. n = Len(list)
  <2>1. {} \in SUBSET Nat /\ IsFiniteSet({}) /\ Runs({}, wire, list, n, Len(list))
    BY <1>5, <1>8, RankNone DEF Carries
  <2> QED BY <1>1, <2>1, RunsType
<1>10. Carries(w, r, list, n, Len(list))
  BY <1>1, <1>6, <1>9, RunsNone DEF Carries
<1>11. Ordered(w, r) /\ Single({})
  BY <1>6 DEF Ordered, Single
<1>12. Displays(shown2, r, list, n)
  BY <1>9
<1> HIDE DEF w
<1>13. Taking(rest, w, {}, shown2, r, list, n, sent)
  BY <1>6, <1>7, <1>8, <1>10, <1>11, <1>12 DEF Taking
<1> QED BY <1>9, <1>13 DEF w

-----------------------------------------------------------------------------
(* What each step does to the message it is about, and to the others *)

LEMMA MessageKept ==
  ASSUME NEW c \in Clients, NEW i \in Ids, MessageOK(c, i), said'[i] = said[i], echo' = echo,
         Same(LiveAt(up[said[i].from], i), LiveAt(up'[said[i].from], i)),
         Same(LiveAt(down[c], i), LiveAt(down'[c], i)),
         \A t \in Buffers(c) : Same(ShownAt(rows[c][t], i), ShownAt(rows'[c][t], i)),
         Same(Answers(c, i), Answers(c, i)')
  PROVE  MessageOK(c, i)'
<1>1. /\ (Member(c, i) <=> Member(c, i)') /\ Conversation(c, i)' = Conversation(c, i)
      /\ (Comes(c, i) <=> Comes(c, i)') /\ (AtOnce(c, i) <=> AtOnce(c, i)') /\ (Due(c, i) <=> Due(c, i)')
  BY DEF Member, Conversation, Comes, AtOnce, Due
<1>2. (Relayed(i) <=> Relayed(i)') /\ (Taken(c, i) <=> Taken(c, i)')
  BY DEF Relayed, Taken, Same
<1>3. /\ Single(LiveAt(up'[said[i].from], i)) /\ Single(LiveAt(down'[c], i)) /\ Single(Answers(c, i)')
      /\ \A t \in Buffers(c) : /\ Single(ShownAt(rows'[c][t], i))
                               /\ ShownAt(rows'[c][t], i) = {} <=> ShownAt(rows[c][t], i) = {}
      /\ LiveAt(down'[c], i) = {} <=> LiveAt(down[c], i) = {}
      /\ Answers(c, i)' = {} <=> Answers(c, i) = {}
  BY DEF MessageOK, Same
<1>4. /\ LiveAt(down[c], i) # {} => Relayed(i) /\ Comes(c, i)
      /\ Answers(c, i) # {} <=> Due(c, i) /\ Taken(c, i)
  BY DEF MessageOK
<1>5. \A t \in Buffers(c) :
        ShownAt(rows[c][t], i) # {} <=>
            /\ t = Conversation(c, i) /\ (said[i].from = c => said[i].kind = "chat")
            /\ AtOnce(c, i) \/ (Comes(c, i) /\ Taken(c, i))
  BY DEF MessageOK
<1>6. \A t \in Buffers(c) :
        ShownAt(rows'[c][t], i) # {} <=>
            /\ t = Conversation(c, i)' /\ (said'[i].from = c => said'[i].kind = "chat")
            /\ AtOnce(c, i)' \/ (Comes(c, i)' /\ Taken(c, i)')
  BY <1>1, <1>2, <1>3, <1>5
<1>7. /\ LiveAt(down'[c], i) # {} => Relayed(i)' /\ Comes(c, i)'
      /\ Answers(c, i)' # {} <=> Due(c, i)' /\ Taken(c, i)'
  BY <1>1, <1>2, <1>3, <1>4
<1>8. Single(LiveAt(up'[said'[i].from], i))
  BY <1>3
<1> QED BY <1>3, <1>6, <1>7, <1>8 DEF MessageOK

\* The server passes it on.
LEMMA MessageRelayed ==
  ASSUME NEW c \in Clients, NEW i \in Ids, MessageOK(c, i), said' = said, echo' = echo, rows' = rows,
         LiveAt(up[said[i].from], i) # {}, LiveAt(up'[said[i].from], i) = {},
         Single(LiveAt(down'[c], i)), LiveAt(down'[c], i) # {} <=> Comes(c, i)
  PROVE  MessageOK(c, i)'
<1>1. /\ (Member(c, i) <=> Member(c, i)') /\ Conversation(c, i)' = Conversation(c, i)
      /\ (Comes(c, i) <=> Comes(c, i)') /\ (AtOnce(c, i) <=> AtOnce(c, i)') /\ (Due(c, i) <=> Due(c, i)')
      /\ Answers(c, i)' = Answers(c, i)
  BY DEF Member, Conversation, Comes, AtOnce, Due, Answers, Ids
<1>2. Relayed(i)' /\ ~Relayed(i) /\ ~Taken(c, i) /\ (Comes(c, i) => ~Taken(c, i)')
  BY DEF Relayed, Taken
<1>3. Due(c, i) => Comes(c, i)
  BY DEF Due, Comes
<1>4. /\ Single(Answers(c, i)) /\ Single({})
      /\ Answers(c, i) # {} <=> Due(c, i) /\ Taken(c, i)
  BY DEF MessageOK, Single
<1>5. \A t \in Buffers(c) :
        /\ Single(ShownAt(rows[c][t], i))
        /\ ShownAt(rows[c][t], i) # {} <=>
             /\ t = Conversation(c, i) /\ (said[i].from = c => said[i].kind = "chat")
             /\ AtOnce(c, i) \/ (Comes(c, i) /\ Taken(c, i))
  BY DEF MessageOK
<1>6. \A t \in Buffers(c) :
        /\ Single(ShownAt(rows'[c][t], i))
        /\ ShownAt(rows'[c][t], i) # {} <=>
             /\ t = Conversation(c, i)' /\ (said'[i].from = c => said'[i].kind = "chat")
             /\ AtOnce(c, i)' \/ (Comes(c, i)' /\ Taken(c, i)')
  BY <1>1, <1>2, <1>5
<1>7. /\ LiveAt(down'[c], i) # {} => Relayed(i)' /\ Comes(c, i)'
      /\ Answers(c, i)' # {} <=> Due(c, i)' /\ Taken(c, i)'
  BY <1>1, <1>2, <1>3, <1>4
<1>8. Single(LiveAt(up'[said'[i].from], i))
  BY <1>4
<1> QED BY <1>1, <1>4, <1>6, <1>7, <1>8 DEF MessageOK

\* A client takes it in.
LEMMA MessageTaken ==
  ASSUME NEW c \in Clients, NEW i \in Ids, MessageOK(c, i), said'[i] = said[i], echo' = echo,
         Same(LiveAt(up[said[i].from], i), LiveAt(up'[said[i].from], i)),
         LiveAt(down[c], i) # {}, LiveAt(down'[c], i) = {},
         \A t \in Buffers(c) :
           /\ Single(ShownAt(rows[c][t], i)) /\ ShownAt(rows[c][t], i) = {} => Single(ShownAt(rows'[c][t], i))
           /\ ShownAt(rows[c][t], i) = {} =>
                (ShownAt(rows'[c][t], i) # {} <=>
                   t = Conversation(c, i) /\ (said[i].from = c => said[i].kind = "chat")),
         Answers(c, i) = {} => Single(Answers(c, i)') /\ (Answers(c, i)' # {} <=> Due(c, i))
  PROVE  MessageOK(c, i)'
<1>1. /\ (Member(c, i) <=> Member(c, i)') /\ Conversation(c, i)' = Conversation(c, i)
      /\ (Comes(c, i) <=> Comes(c, i)') /\ (AtOnce(c, i) <=> AtOnce(c, i)') /\ (Due(c, i) <=> Due(c, i)')
  BY DEF Member, Conversation, Comes, AtOnce, Due
<1>2. Relayed(i) /\ Comes(c, i)
  BY DEF MessageOK
<1>3. Relayed(i)' /\ Taken(c, i)' /\ ~Taken(c, i)
  BY <1>2 DEF Relayed, Taken, Same
<1>4. ~AtOnce(c, i)
  BY <1>2 DEF AtOnce, Comes
<1>5. Answers(c, i) = {} /\ Single({})
  BY <1>3 DEF MessageOK, Single
<1>6. \A t \in Buffers(c) : Single(ShownAt(rows[c][t], i)) /\ ShownAt(rows[c][t], i) = {}
  BY <1>3, <1>4 DEF MessageOK
<1>7. \A t \in Buffers(c) :
        /\ Single(ShownAt(rows'[c][t], i))
        /\ ShownAt(rows'[c][t], i) # {} <=>
             /\ t = Conversation(c, i)' /\ (said'[i].from = c => said'[i].kind = "chat")
             /\ AtOnce(c, i)' \/ (Comes(c, i)' /\ Taken(c, i)')
  BY <1>1, <1>2, <1>3, <1>6
<1>8. /\ Answers(c, i)' # {} <=> Due(c, i)' /\ Taken(c, i)'
      /\ Single(Answers(c, i)')
  BY <1>1, <1>3, <1>5
<1>9. Single(LiveAt(up'[said'[i].from], i))
  BY DEF MessageOK, Same
<1> QED BY <1>5, <1>7, <1>8, <1>9 DEF MessageOK

\* It is new.
LEMMA MessageSaid ==
  ASSUME NEW c \in Clients, NEW i \in Ids',
         Single(LiveAt(up'[said'[i].from], i)), LiveAt(up'[said'[i].from], i) # {},
         LiveAt(down'[c], i) = {}, Answers(c, i)' = {},
         \A t \in Buffers(c) :
           /\ Single(ShownAt(rows'[c][t], i))
           /\ ShownAt(rows'[c][t], i) # {} <=> t = Conversation(c, i)' /\ AtOnce(c, i)'
  PROVE  MessageOK(c, i)'
<1>1. ~Relayed(i)' /\ ~Taken(c, i)' /\ Single({})
  BY DEF Relayed, Taken, Single
<1>2. AtOnce(c, i)' => said'[i].kind = "chat"
  BY DEF AtOnce
<1>3. \A t \in Buffers(c) :
        /\ Single(ShownAt(rows'[c][t], i))
        /\ ShownAt(rows'[c][t], i) # {} <=>
             /\ t = Conversation(c, i)' /\ (said'[i].from = c => said'[i].kind = "chat")
             /\ AtOnce(c, i)' \/ (Comes(c, i)' /\ Taken(c, i)')
  BY <1>1, <1>2
<1> QED BY <1>1, <1>3 DEF MessageOK

-----------------------------------------------------------------------------
(* What was said stays said, and what was asked stays asked *)

Grows ==
  /\ Ids \subseteq Ids' /\ \A i \in Ids : said'[i] = said[i]
  /\ DOMAIN served \subseteq DOMAIN served' /\ \A r \in DOMAIN served : served'[r] = served[r]

LEMMA SameGrows == ASSUME said' = said, served' = served PROVE Grows
BY DEF Grows, Ids

LEMMA ChatOfGrows ==
  ASSUME Grows, NEW v, NEW list, ChatOf(v, list)
  PROVE  ChatOf(v, list)'
<1>1. \A k \in DOMAIN list :
        /\ list[k] \in Ids /\ said[list[k]].kind = "chat"
        /\ Between(said[list[k]].from, said[list[k]].target) = v
  BY DEF ChatOf
<1>2. \A i \in Ids : i \in Ids' /\ said'[i] = said[i]
  BY DEF Grows
<1>3. \A k \in DOMAIN list :
        /\ list[k] \in Ids' /\ said'[list[k]].kind = "chat"
        /\ Between(said'[list[k]].from, said'[list[k]].target) = v
  BY <1>1, <1>2
<1>4. \A j, k \in DOMAIN list : list[j] = list[k] => j = k
  BY DEF ChatOf
<1> QED BY <1>3, <1>4 DEF ChatOf

LEMMA CommandGrows ==
  ASSUME Grows, NEW c, NEW l, CommandOK(c, l)
  PROVE  CommandOK(c, l)'
BY DEF Grows, CommandOK

LEMMA LineGrows ==
  ASSUME Grows, NEW c, NEW l, LineOK(c, l)
  PROVE  LineOK(c, l)'
<1>1. ASSUME l.cmd \in Said
      PROVE  /\ l.id \in Ids' /\ Member(c, l.id)'
             /\ l.cmd = "NOTICE" <=> said'[l.id].kind = "reply"
             /\ l.batch # 0 => /\ l.batch \in DOMAIN served' /\ served'[l.batch].to = c
                               /\ said'[l.id].kind = "chat"
                               /\ Conversation(c, l.id)' = served'[l.batch].target
  <2>1. /\ l.id \in Ids /\ Member(c, l.id)
        /\ l.cmd = "NOTICE" <=> said[l.id].kind = "reply"
        /\ l.batch # 0 => /\ l.batch \in DOMAIN served /\ served[l.batch].to = c
                          /\ said[l.id].kind = "chat"
                          /\ Conversation(c, l.id) = served[l.batch].target
    BY <1>1 DEF LineOK
  <2>2. l.id \in Ids' /\ said'[l.id] = said[l.id]
    BY <2>1 DEF Grows
  <2>3. (Member(c, l.id) <=> Member(c, l.id)') /\ Conversation(c, l.id)' = Conversation(c, l.id)
    BY <2>2 DEF Member, Conversation
  <2>4. l.batch # 0 => l.batch \in DOMAIN served' /\ served'[l.batch] = served[l.batch]
    BY <2>1 DEF Grows
  <2> QED BY <2>1, <2>2, <2>3, <2>4
<1>2. l.cmd = "OPEN" => OfBatch(c, l.target, l.batch)'
  BY DEF LineOK, OfBatch, Grows
<1>3. l.cmd = "CLOSE" => l.batch \in DOMAIN served' /\ served'[l.batch].to = c
  BY DEF LineOK, Grows
<1> QED BY <1>1, <1>2, <1>3 DEF LineOK

LEMMA LogKept ==
  ASSUME Grows, LogOK, log' = log, served' = served
  PROVE  LogOK'
<1>1. \A v \in Conversations : ChatOf(v, log[v])'
  <2>1. ASSUME NEW v \in Conversations PROVE ChatOf(v, log[v])'
    <3>1. PICK list : list = log[v]
      OBVIOUS
    <3>2. ChatOf(v, list)'
      BY <3>1, ChatOfGrows DEF LogOK
    <3> QED BY <3>1, <3>2
  <2> QED BY <2>1
<1>2. ASSUME NEW r \in DOMAIN served'
      PROVE  /\ served'[r].target # served'[r].to /\ Len(served'[r].list) <= MaxHistory
             /\ ChatOf(Between(served[r].to, served[r].target), served[r].list)'
  <2>1. PICK list, v : list = served[r].list /\ v = Between(served[r].to, served[r].target)
    OBVIOUS
  <2>2. ChatOf(v, list) /\ served[r].target # served[r].to /\ Len(served[r].list) <= MaxHistory
    BY <1>2, <2>1 DEF LogOK
  <2>3. ChatOf(v, list)'
    BY <2>2, ChatOfGrows
  <2>4. list = served'[r].list /\ v = Between(served'[r].to, served'[r].target)
    BY <2>1 DEF Between
  <2> QED BY <2>2, <2>3, <2>4
<1> QED BY <1>1, <1>2 DEF LogOK

\* What is new on the wires is enough to look at.
LEMMA WiresKept ==
  ASSUME Grows, WiresOK,
         \A c \in Clients : \A l \in Range(up'[c]) : l \in Range(up[c]) \/ CommandOK(c, l)',
         \A c \in Clients : \A l \in Range(down'[c]) : l \in Range(down[c]) \/ LineOK(c, l)'
  PROVE  WiresOK'
<1>1. ASSUME NEW c \in Clients, NEW l \in Range(up'[c]) PROVE CommandOK(c, l)'
  BY <1>1, CommandGrows DEF WiresOK
<1>2. ASSUME NEW c \in Clients, NEW l \in Range(down'[c]) PROVE LineOK(c, l)'
  BY <1>2, LineGrows DEF WiresOK
<1> QED BY <1>1, <1>2 DEF WiresOK

LEMMA OfBatchGrows ==
  ASSUME Grows, NEW c, NEW t, NEW r, OfBatch(c, t, r)
  PROVE  OfBatch(c, t, r)'
BY DEF Grows, OfBatch

\* So is what is new in the batches and in the buffers.
LEMMA HeldKept ==
  ASSUME Grows, HeldOK,
         \A c \in Clients : \A b \in batches'[c] :
           OfBatch(c, b.target, b.batch)' \/ \E b0 \in batches[c] : b0.batch = b.batch /\ b0.target = b.target,
         \A c \in Clients : \A t \in Buffers(c) : \A e \in Range(rows'[c][t]) :
           e \in Range(rows[c][t]) \/ (e.id \in Ids' /\ (e.batch # 0 => OfBatch(c, t, e.batch)'))
  PROVE  HeldOK'
<1>1. ASSUME NEW c \in Clients, NEW b \in batches'[c] PROVE OfBatch(c, b.target, b.batch)'
  <2>1. CASE \E b0 \in batches[c] : b0.batch = b.batch /\ b0.target = b.target
    <3>1. OfBatch(c, b.target, b.batch)
      BY <2>1 DEF HeldOK
    <3> QED BY <3>1, OfBatchGrows
  <2> QED BY <1>1, <2>1
<1>2. ASSUME NEW c \in Clients, NEW t \in Buffers(c), NEW e \in Range(rows'[c][t])
      PROVE  e.id \in Ids' /\ (e.batch # 0 => OfBatch(c, t, e.batch)')
  <2>1. CASE e \in Range(rows[c][t])
    <3>1. e.id \in Ids /\ (e.batch # 0 => OfBatch(c, t, e.batch))
      BY <1>2, <2>1 DEF HeldOK
    <3>2. e.id \in Ids'
      BY <3>1 DEF Grows
    <3> QED BY <3>1, <3>2, OfBatchGrows
  <2> QED BY <1>2, <2>1
<1> QED BY <1>1, <1>2 DEF HeldOK

LEMMA RangeAppended ==
  ASSUME NEW S, NEW s \in Seq(S), NEW x \in S
  PROVE  Range(Append(s, x)) = Range(s) \cup {x}
<1>1. /\ DOMAIN Append(s, x) = DOMAIN s \cup {Len(s) + 1} /\ Append(s, x)[Len(s) + 1] = x
      /\ \A k \in DOMAIN s : Append(s, x)[k] = s[k]
  BY AppendPlaces
<1> QED BY <1>1 DEF Range

LEMMA RangeTaken ==
  ASSUME NEW S, NEW s \in Seq(S), s # <<>>
  PROVE  Range(Tail(s)) \subseteq Range(s) /\ Head(s) \in Range(s)
<1>1. /\ \A k \in DOMAIN Tail(s) : k + 1 \in DOMAIN s /\ Tail(s)[k] = s[k + 1]
      /\ Head(s) = s[1] /\ 1 \in DOMAIN s
  BY TailPlaces
<1> QED BY <1>1 DEF Range

LEMMA RangeJoined ==
  ASSUME NEW S, NEW s \in Seq(S), NEW t \in Seq(S)
  PROVE  Range(s \o t) = Range(s) \cup Range(t)
<1> DEFINE u == s \o t
           m == Len(s)
<1>1. /\ \A k \in DOMAIN s : k \in DOMAIN u /\ u[k] = s[k]
      /\ \A k \in DOMAIN t : m + k \in DOMAIN u /\ u[m + k] = t[k]
      /\ \A k \in DOMAIN u : k \in DOMAIN s \/ (k - m \in DOMAIN t /\ m + (k - m) = k)
  BY ConcatPlaces
<1> HIDE DEF u, m
<1>2. \A k \in DOMAIN u : u[k] \in Range(s) \cup Range(t)
  <2>1. ASSUME NEW k \in DOMAIN u PROVE u[k] \in Range(s) \cup Range(t)
    <3>1. CASE k \in DOMAIN s
      BY <1>1, <3>1 DEF Range
    <3>2. CASE k - m \in DOMAIN t /\ m + (k - m) = k
      <4>1. u[k] = t[k - m]
        BY <1>1, <3>2
      <4> QED BY <3>2, <4>1 DEF Range
    <3> QED BY <1>1, <2>1, <3>1, <3>2
  <2> QED BY <2>1
<1>3. Range(s) \subseteq Range(u) /\ Range(t) \subseteq Range(u)
  BY <1>1 DEF Range
<1>4. Range(u) \subseteq Range(s) \cup Range(t)
  BY <1>2 DEF Range
<1> QED BY <1>3, <1>4 DEF u

\* Nothing said is lost or changed by a step that says nothing.
LEMMA MessagesKept ==
  ASSUME TypeOK, LogOK, MessagesOK, said' = said, echo' = echo, log' = log,
         \A c \in Clients : \A i \in Ids :
           /\ Same(LiveAt(up[c], i), LiveAt(up'[c], i))
           /\ Same(LiveAt(down[c], i), LiveAt(down'[c], i))
           /\ \A t \in Buffers(c) : Same(ShownAt(rows[c][t], i), ShownAt(rows'[c][t], i))
  PROVE  MessagesOK'
<1>1. \A i \in Ids : said[i].from \in Clients
  <2>1. \A i \in DOMAIN said : said[i] \in Messages
    BY Places DEF TypeOK
  <2> QED BY <2>1 DEF Ids, Messages
<1>2. Ids' = Ids
  BY DEF Ids
<1>3. ASSUME NEW c \in Clients, NEW i \in Ids PROVE MessageOK(c, i)'
  <2>1. Answers(c, i)' = Answers(c, i)
    BY <1>2 DEF Answers
  <2>2. Same(Answers(c, i), Answers(c, i)')
    BY <2>1 DEF Same
  <2>3. MessageOK(c, i)
    BY DEF MessagesOK
  <2>4. /\ Same(LiveAt(up[said[i].from], i), LiveAt(up'[said[i].from], i))
        /\ Same(LiveAt(down[c], i), LiveAt(down'[c], i))
        /\ \A t \in Buffers(c) : Same(ShownAt(rows[c][t], i), ShownAt(rows'[c][t], i))
    BY <1>1
  <2> QED BY <2>2, <2>3, <2>4, MessageKept
<1>4. ASSUME NEW v \in Conversations, NEW i \in Range(log'[v]) PROVE Relayed(i)'
  <2>1. i \in Ids /\ Relayed(i)
    BY <1>4 DEF LogOK, ChatOf, MessagesOK, Range
  <2>2. Same(LiveAt(up[said[i].from], i), LiveAt(up'[said[i].from], i))
    BY <1>1, <2>1
  <2> QED BY <2>1, <2>2 DEF Relayed, Same
<1> QED BY <1>2, <1>3, <1>4 DEF MessagesOK

LEMMA HistoryTypes ==
  ASSUME TypeOK, NEW r \in DOMAIN served
  PROVE  /\ served[r].to \in Clients /\ served[r].target \in Targets /\ served[r].list \in Seq(Nat)
         /\ Len(served[r].list) \in Nat /\ r \in Nat \ {0} /\ r \in DOMAIN left /\ left[r] \in Seq(Nat)
<1>1. /\ served \in Seq(Histories) /\ left \in Seq(Seq(Nat)) /\ Len(left) = Len(served)
      /\ DOMAIN served = 1..Len(served) /\ DOMAIN left = 1..Len(left) /\ Len(served) \in Nat
  BY LenProperties DEF TypeOK
<1>2. served[r] \in Histories /\ r \in Nat /\ r >= 1
  BY <1>1, Places
<1>3. r \in DOMAIN left
  BY <1>1
<1>4. left[r] \in Seq(Nat)
  BY <1>1, <1>3, Places
<1>5. r \in Nat \ {0}
  BY <1>2
<1> QED BY <1>2, <1>3, <1>4, <1>5, LenProperties DEF Histories

\* A history that a step does not touch.
LEMMA HistoryKept ==
  ASSUME TypeOK, NEW r \in DOMAIN served, HistoryOK(r), served'[r] = served[r], left'[r] = left[r],
         NEW c, c = served[r].to, NEW t, t = served[r].target,
         KeepsWire(down[c], down'[c], r), OpenBatches(c, r)' = OpenBatches(c, r),
         KeepsShown(rows[c][t], rows'[c][t], r)
  PROVE  HistoryOK(r)'
<1>1. PICK n \in 0..Len(served[r].list), sent \in 0..(Len(served[r].list) + 1) : HistoryTaken(r, n, sent)
  BY DEF HistoryOK
<1>2. Taking(left[r], down[c], OpenBatches(c, r), rows[c][t], r, served[r].list, n, sent)
  BY <1>1 DEF HistoryTaken
<1>3. n \in Nat
  BY HistoryTypes
<1>4. Taking(left[r], down'[c], OpenBatches(c, r), rows'[c][t], r, served[r].list, n, sent)
  BY <1>2, <1>3, TakingKept
<1>5. HistoryTaken(r, n, sent)'
  BY <1>4 DEF HistoryTaken
<1> QED BY <1>5 DEF HistoryOK

LEMMA KeepsSame ==
  ASSUME NEW l, NEW r
  PROVE  KeepsWire(l, l, r) /\ KeepsShown(l, l, r)
BY DEF KeepsWire, KeepsShown

LEMMA SameSame == ASSUME NEW S PROVE Same(S, S)
BY DEF Same

LEMMA HistoriesKept ==
  ASSUME TypeOK, HistoriesOK, served' = served, left' = left, batches' = batches, down' = down,
         \A c \in Clients, t \in Targets, r \in Nat \ {0} :
            t # c => KeepsShown(rows[c][t], rows'[c][t], r),
         LogOK
  PROVE  HistoriesOK'
<1>1. ASSUME NEW r \in DOMAIN served PROVE HistoryOK(r)'
  <2>1. PICK c \in Clients, t \in Targets : c = served[r].to /\ t = served[r].target /\ r \in Nat \ {0}
    BY HistoryTypes
  <2>2. t # c
    BY <2>1 DEF LogOK
  <2>3. KeepsShown(rows[c][t], rows'[c][t], r) /\ KeepsWire(down[c], down'[c], r)
    BY <2>1, <2>2, KeepsSame
  <2>4. OpenBatches(c, r)' = OpenBatches(c, r) /\ HistoryOK(r)
    BY DEF OpenBatches, HistoriesOK
  <2>5. served'[r] = served[r] /\ left'[r] = left[r]
    OBVIOUS
  <2> QED BY <2>1, <2>3, <2>4, <2>5, HistoryKept
<1> QED BY <1>1 DEF HistoriesOK

\* What nobody said is nowhere.
LEMMA Unheard ==
  ASSUME WiresOK, HeldOK, NEW i, i \notin Ids, NEW c \in Clients
  PROVE  /\ LiveAt(up[c], i) = {} /\ LiveAt(down[c], i) = {}
         /\ \A t \in Buffers(c) : ShownAt(rows[c][t], i) = {}
<1>1. \A l \in Range(up[c]) : l.cmd \in Said => l.id \in Ids
  BY DEF WiresOK, CommandOK
<1>2. \A l \in Range(down[c]) : l.cmd \in Said => l.id \in Ids
  BY DEF WiresOK, LineOK
<1>3. \A t \in Buffers(c) : \A e \in Range(rows[c][t]) : e.id \in Ids
  BY DEF HeldOK
<1>4. LiveAt(up[c], i) = {}
  BY <1>1 DEF LiveAt, Range
<1>5. LiveAt(down[c], i) = {}
  BY <1>2 DEF LiveAt, Range
<1>6. ASSUME NEW t \in Buffers(c), NEW k \in ShownAt(rows[c][t], i) PROVE FALSE
  <2>1. rows[c][t][k] \in Range(rows[c][t]) /\ rows[c][t][k] = Row(i, 0)
    BY <1>6 DEF ShownAt, Range
  <2>2. rows[c][t][k].id = i
    BY <2>1 DEF Row
  <2> QED BY <1>3, <2>1, <2>2
<1> QED BY <1>4, <1>5, <1>6

-----------------------------------------------------------------------------
(* What is said *)

LEMMA SaidTypes ==
  ASSUME TypeOK
  PROVE  /\ Len(said) \in Nat /\ Ids = 1..Len(said)
         /\ \A i \in Ids : /\ i \in Nat \ {0} /\ said[i].from \in Clients /\ said[i].target \in Targets
                           /\ said[i].kind \in {"chat", "request", "reply"} /\ said[i].re \in Nat
<1>1. said \in Seq(Messages)
  BY DEF TypeOK
<1>2. Len(said) \in Nat /\ Ids = 1..Len(said)
  BY <1>1, LenProperties DEF Ids
<1>3. \A i \in Ids : said[i] \in Messages /\ i \in Nat /\ i >= 1
  BY <1>1, Places DEF Ids
<1>4. \A i \in Ids : i \in Nat \ {0}
  BY <1>3
<1> QED BY <1>2, <1>3, <1>4 DEF Messages

LEMMA Recorded ==
  ASSUME TypeOK, NEW m \in Messages, NEW more \in Seq(Messages), \A k \in DOMAIN more : more[k] = m,
         said' = said \o more
  PROVE  /\ said' \in Seq(Messages) /\ Len(said') = Len(said) + Len(more)
         /\ Ids \subseteq Ids' /\ \A i \in Ids : said'[i] = said[i]
         /\ \A k \in DOMAIN more : /\ Len(said) + k \in Ids' /\ Len(said) + k \notin Ids
                            /\ said'[Len(said) + k] = m
         /\ \A i \in Ids' : i \notin Ids => \E k \in DOMAIN more : i = Len(said) + k
<1>1. said \in Seq(Messages)
  BY DEF TypeOK
<1>2. more \in Seq(Messages) /\ DOMAIN more = 1..Len(more) /\ Len(more) \in Nat
  BY LenProperties
<1>5. /\ said \o more \in Seq(Messages) /\ Len(said \o more) = Len(said) + Len(more)
      /\ \A k \in DOMAIN said : k \in DOMAIN (said \o more) /\ (said \o more)[k] = said[k] /\ k <= Len(said)
      /\ \A k \in DOMAIN more : /\ Len(said) + k \in DOMAIN (said \o more)
                                /\ (said \o more)[Len(said) + k] = more[k]
                                /\ k \in Nat /\ k >= 1
      /\ \A k \in DOMAIN (said \o more) :
              k \in DOMAIN said \/ (k - Len(said) \in DOMAIN more /\ Len(said) + (k - Len(said)) = k)
  BY <1>1, <1>2, ConcatPlaces
<1>6. /\ said' \in Seq(Messages) /\ Len(said') = Len(said) + Len(more)
      /\ Ids \subseteq Ids' /\ \A i \in Ids : said'[i] = said[i] /\ i <= Len(said)
      /\ \A k \in DOMAIN more : Len(said) + k \in Ids' /\ said'[Len(said) + k] = m /\ k \in Nat /\ k >= 1
      /\ \A i \in Ids' : i \in Ids \/ (i - Len(said) \in DOMAIN more /\ Len(said) + (i - Len(said)) = i)
  BY <1>2, <1>5 DEF Ids
<1>7. Len(said) \in Nat
  BY <1>1, LenProperties
<1>8. \A k \in DOMAIN more : ~(Len(said) + k <= Len(said))
  BY <1>6, <1>7
<1>9. \A k \in DOMAIN more : Len(said) + k \notin Ids
  BY <1>6, <1>8
<1>10. \A i \in Ids' : i \notin Ids => \E k \in DOMAIN more : i = Len(said) + k
  BY <1>6
<1> QED BY <1>6, <1>9, <1>10

LEMMA RecordedSaidOK ==
  ASSUME TypeOK, SaidOK, NEW m \in Messages, NEW more \in Seq(Messages), \A k \in DOMAIN more : more[k] = m,
         said' = said \o more, m.target # m.from, m.re <= Len(said), m.kind # "reply" => m.re = 0
  PROVE  SaidOK'
<1>0. DOMAIN more = 1..Len(more) /\ Len(more) \in Nat
  BY LenProperties
<1>1. Len(said) \in Nat /\ Ids = 1..Len(said) /\ m.re \in Nat
  BY SaidTypes DEF Messages
<1>2. /\ said' \in Seq(Messages) /\ Len(said') = Len(said) + Len(more)
      /\ Ids \subseteq Ids' /\ \A i \in Ids : said'[i] = said[i]
      /\ \A k \in DOMAIN more : /\ Len(said) + k \in Ids' /\ Len(said) + k \notin Ids
                         /\ said'[Len(said) + k] = m
      /\ \A i \in Ids' : i \notin Ids => \E k \in DOMAIN more : i = Len(said) + k
  BY Recorded
<1> DEFINE new == {Len(said) + k : k \in DOMAIN more}
<1>3. \A i \in new : i \in Ids' /\ i \notin Ids
                     /\ said'[i] = m
  BY <1>2
<1>4. \A i \in Ids' : i \in Ids \/ i \in new
  BY <1>2
<1>5. Len(said) <= Len(said') /\ Len(said') \in Nat /\ m.re <= Len(said)
  BY <1>0, <1>1, <1>2
<1>6. \A i \in Ids' : said'[i].target # said'[i].from /\ said'[i].re <= Len(said')
  <2>1. ASSUME NEW i \in Ids PROVE said[i].target # said[i].from /\ said[i].re <= Len(said')
    <3>1. said[i].target # said[i].from /\ said[i].re <= Len(said) /\ said[i].re \in Nat
      BY SaidTypes DEF SaidOK
    <3> QED BY <1>1, <1>5, <3>1
  <2>2. m.re <= Len(said')
    BY <1>1, <1>5
  <2> QED BY <1>2, <1>3, <1>4, <2>1, <2>2
<1>7. \A i \in Ids' : said'[i].kind # "reply" => said'[i].re = 0
  BY <1>2, <1>3, <1>4 DEF SaidOK
<1> QED BY <1>6, <1>7 DEF SaidOK

\* Where the new messages are, and that the others are where they were.
LEMMA Spreads ==
  ASSUME TypeOK, SaidOK, WiresOK, HeldOK,
         NEW m \in Messages, NEW more \in Seq(Messages), \A k \in DOMAIN more : more[k] = m,
         said' = said \o more,
         m.re <= Len(said),
         NEW cmd \in Said, NEW list \in Seq(Commands), DOMAIN list = DOMAIN more,
         \A k \in DOMAIN list : list[k] = Line(cmd, Len(said) + k, 0),
         up' = [up EXCEPT ![m.from] = @ \o list]
  PROVE  /\ \A d \in Clients, i \in Ids : Same(LiveAt(up[d], i), LiveAt(up'[d], i))
         /\ \A i \in Ids' : i \notin Ids => Single(LiveAt(up'[m.from], i)) /\ LiveAt(up'[m.from], i) # {}
         /\ \A d \in Clients, i \in Ids' : i \notin Ids => Answers(d, i)' = {}
         /\ \A d \in Clients, i \in Ids : i # m.re \/ d # m.from => Answers(d, i)' = Answers(d, i)
<1>0. DOMAIN more = 1..Len(more) /\ Len(more) \in Nat
  BY LenProperties
<1>1. Len(said) \in Nat /\ Ids = 1..Len(said) /\ m.from \in Clients
  BY SaidTypes DEF Messages
<1>2. /\ Len(said') = Len(said) + Len(more)
      /\ Ids \subseteq Ids' /\ \A i \in Ids : said'[i] = said[i]
      /\ \A k \in DOMAIN more : /\ Len(said) + k \in Ids' /\ Len(said) + k \notin Ids
                         /\ said'[Len(said) + k] = m
      /\ \A i \in Ids' : i \notin Ids => \E k \in DOMAIN more : i = Len(said) + k
  BY Recorded
<1>3. \A i \in Ids' : i \notin Ids => said'[i] = m
  BY <1>2
<1>4. \A d \in Clients : up[d] \in Seq(Commands) /\ up'[d] = IF d = m.from THEN up[d] \o list ELSE up[d]
  BY <1>1 DEF TypeOK
<1>5. ASSUME NEW i
      PROVE  Single(LiveAt(list, i)) /\ (LiveAt(list, i) # {} <=> \E k \in DOMAIN more : Len(said) + k = i)
  <2>1. Len(said) \in Nat /\ DOMAIN list \subseteq Nat
    BY <1>0, <1>1
  <2>2. /\ Single(LiveAt(list, i))
        /\ LiveAt(list, i) # {} <=> \E k \in DOMAIN list : Len(said) + k = i
    BY <2>1, LiveFresh
  <2> QED BY <1>0, <2>2
<1>6. ASSUME NEW d \in Clients, NEW i \in Ids PROVE Same(LiveAt(up[d], i), LiveAt(up'[d], i))
  <2>1. LiveAt(list, i) = {}
    <3>1. \A k \in DOMAIN more : Len(said) + k # i
      BY <1>2, <1>6
    <3> QED BY <1>5, <3>1
  <2>2. LiveAt(up[d] \o list, i) = LiveAt(up[d], i)
    BY <1>4, <2>1, LiveWritten
  <2>3. LiveAt(up'[d], i) = LiveAt(up[d], i)
    BY <1>4, <2>2
  <2> QED BY <2>3 DEF Same
<1>7. ASSUME NEW i \in Ids', i \notin Ids
      PROVE  Single(LiveAt(up'[m.from], i)) /\ LiveAt(up'[m.from], i) # {}
  <2>1. LiveAt(up[m.from], i) = {}
    BY <1>1, <1>7, Unheard
  <2>2. Single(LiveAt(list, i)) /\ LiveAt(list, i) # {}
    <3>1. PICK k \in DOMAIN more : i = Len(said) + k
      BY <1>2, <1>7
    <3>2. i \in Nat
      BY <1>1, <3>1
    <3> QED BY <1>5, <3>1, <3>2
  <2>3. Same(LiveAt(list, i), LiveAt(up[m.from] \o list, i))
    BY <1>1, <1>4, <2>1, LiveWritten
  <2>4. up'[m.from] = up[m.from] \o list
    BY <1>1, <1>4
  <2> QED BY <2>2, <2>3, <2>4 DEF Same
<1>8. ASSUME NEW d \in Clients, NEW i \in Ids', i \notin Ids, NEW a \in Answers(d, i)' PROVE FALSE
  <2>1. a \in Ids' /\ said'[a].re = i
    BY <1>8 DEF Answers
  <2>2. \A j \in Ids : said'[j].re <= Len(said)
    BY <1>2 DEF SaidOK
  <2>3. said'[a].re <= Len(said)
    BY <1>3, <2>1, <2>2
  <2>4. PICK k \in DOMAIN more : i = Len(said) + k
    BY <1>2, <1>8
  <2>5. ~(Len(said) + k <= Len(said))
    BY <1>0, <1>1
  <2> QED BY <2>1, <2>3, <2>4, <2>5
<1>9. ASSUME NEW d \in Clients, NEW i \in Ids, i # m.re \/ d # m.from PROVE Answers(d, i)' = Answers(d, i)
  <2>1. \A a \in Ids : a \in Ids' /\ said'[a] = said[a]
    BY <1>2
  <2>2. \A a \in Ids' : a \notin Ids => ~(said'[a].from = d /\ said'[a].re = i)
    BY <1>3, <1>9
  <2> QED BY <2>1, <2>2 DEF Answers
<1> QED BY <1>6, <1>7, <1>8, <1>9

LEMMA SaysGrows ==
  ASSUME TypeOK, NEW m \in Messages, NEW more \in Seq(Messages), \A k \in DOMAIN more : more[k] = m,
         said' = said \o more,
         served' = served
  PROVE  Grows
<1>1. Ids \subseteq Ids' /\ \A i \in Ids : said'[i] = said[i]
  BY Recorded
<1> QED BY <1>1 DEF Grows

LEMMA WritesWires ==
  ASSUME TypeOK, WiresOK, Grows,
         NEW m \in Messages, NEW more \in Seq(Messages), \A k \in DOMAIN more : more[k] = m,
         said' = said \o more,
         NEW cmd \in Said, cmd = "NOTICE" <=> m.kind = "reply", NEW list \in Seq(Commands), DOMAIN list = DOMAIN more,
         \A k \in DOMAIN list : list[k] = Line(cmd, Len(said) + k, 0),
         up' = [up EXCEPT ![m.from] = @ \o list],
         \A d \in Clients : Range(down'[d]) \subseteq Range(down[d])
  PROVE  WiresOK' /\ up' \in [Clients -> Seq(Commands)]
<1>0. DOMAIN more = 1..Len(more) /\ Len(more) \in Nat
  BY LenProperties
<1>1. \A k \in DOMAIN more : /\ Len(said) + k \in Ids' /\ Len(said) + k \notin Ids
                            /\ said'[Len(said) + k] = m
  BY Recorded
<1>2. \A l \in Range(list) : CommandOK(m.from, l)'
  <2>1. ASSUME NEW k \in DOMAIN more PROVE CommandOK(m.from, list[k])'
    <3>1. PICK l : l = Line(cmd, Len(said) + k, 0)
      OBVIOUS
    <3>2. l.cmd = cmd /\ l.id \in Ids' /\ said'[l.id] = m
      BY <1>1, <3>1 DEF Line
    <3>3. CommandOK(m.from, l)'
      BY <3>2 DEF CommandOK, Said
    <3>4. l = list[k]
      BY <1>0, <3>1
    <3> QED BY <3>3, <3>4
  <2>2. \A l \in Range(list) : \E k \in DOMAIN more : l = list[k]
    BY <1>0 DEF Range
  <2> QED BY <2>1, <2>2
<1>3. m.from \in Clients
  BY DEF Messages
<1>4. \A d \in Clients : up[d] \in Seq(Commands) /\ up'[d] = IF d = m.from THEN up[d] \o list ELSE up[d]
  BY <1>3 DEF TypeOK
<1>5. ASSUME NEW d \in Clients, NEW l \in Range(up'[d]) PROVE l \in Range(up[d]) \/ CommandOK(d, l)'
  <2>1. CASE d = m.from
    <3>1. Range(up[d] \o list) = Range(up[d]) \cup Range(list)
      BY <1>4, RangeJoined
    <3>2. l \in Range(up[d]) \/ l \in Range(list)
      BY <1>4, <1>5, <2>1, <3>1
    <3> QED BY <1>2, <2>1, <3>2
  <2>2. CASE d # m.from
    BY <1>4, <1>5, <2>2
  <2> QED BY <2>1, <2>2
<1>6. WiresOK'
  BY <1>5, WiresKept
<1>7. up[m.from] \o list \in Seq(Commands)
  BY <1>3, <1>4, ConcatPlaces
<1>8. up' \in [Clients -> Seq(Commands)]
  BY <1>3, <1>7 DEF TypeOK
<1> QED BY <1>6, <1>8

-----------------------------------------------------------------------------
(* The steps, one by one *)

LEMMA BuffersTargets ==
  ASSUME NEW c
  PROVE  \A t : t \in Buffers(c) <=> t \in Targets /\ t # c
BY DEF Buffers

LEMMA RowTypes ==
  ASSUME TypeOK, NEW c \in Clients, NEW t \in Buffers(c)
  PROVE  rows[c][t] \in Seq(Entries)
BY DEF TypeOK

LEMMA FiledAt ==
  ASSUME TypeOK, NEW c \in Clients, NEW t \in Buffers(c), NEW list \in Seq(Entries),
         rows' = [rows EXCEPT ![c][t] = list]
  PROVE  /\ rows' = [d \in Clients |-> rows'[d]]
         /\ \A d \in Clients : rows'[d] \in [Buffers(d) -> Seq(Entries)]
         /\ rows'[c][t] = list
         /\ \A d \in Clients : \A u \in Buffers(d) : d # c \/ u # t => rows'[d][u] = rows[d][u]
<1>1. /\ rows = [d \in Clients |-> rows[d]]
      /\ \A d \in Clients : rows[d] \in [Buffers(d) -> Seq(Entries)]
  BY DEF TypeOK
<1>2. DOMAIN rows = Clients
  BY <1>1
<1>3. rows' = [d \in Clients |-> IF d = c THEN [rows[c] EXCEPT ![t] = list] ELSE rows[d]]
  BY <1>2
<1>4. rows'[c] = [rows[c] EXCEPT ![t] = list] /\ \A d \in Clients : d # c => rows'[d] = rows[d]
  BY <1>3
<1>5. rows'[c] \in [Buffers(c) -> Seq(Entries)] /\ rows'[c][t] = list
      /\ \A u \in Buffers(c) : u # t => rows'[c][u] = rows[c][u]
  BY <1>1, <1>4
<1>6. rows' = [d \in Clients |-> rows'[d]]
  BY <1>3
<1> QED BY <1>1, <1>4, <1>5, <1>6

LEMMA RequestHistoryKeeps ==
  ASSUME IInv, NEW c \in Clients, NEW t \in Buffers(c), NEW limit \in Limits, RequestHistory(c, t, limit)
  PROVE  IInv'
<1> DEFINE l == [cmd |-> "CHATHISTORY", target |-> t, limit |-> limit]
<1>1. TypeOK /\ SaidOK /\ LogOK /\ WiresOK /\ HeldOK /\ MessagesOK /\ HistoriesOK
  BY DEF IInv
<1>2. /\ up' = [up EXCEPT ![c] = Append(@, l)]
      /\ said' = said /\ log' = log /\ served' = served /\ left' = left /\ down' = down
      /\ echo' = echo /\ batches' = batches /\ rows' = rows
  BY DEF RequestHistory, server, client
<1>3. l \in Commands /\ l.cmd \notin Said /\ l.target # c /\ l.cmd = "CHATHISTORY"
  BY DEF Commands, Said, Buffers
<1>4. /\ \A d \in Clients : up[d] \in Seq(Commands)
      /\ \A d \in Clients : up'[d] = IF d = c THEN Append(up[c], l) ELSE up[d]
  BY <1>1, <1>2 DEF TypeOK
<1> HIDE DEF l
<1>5. Append(up[c], l) \in Seq(Commands)
  BY <1>3, <1>4, AppendPlaces
<1>6. TypeOK'
  <2>1. up' \in [Clients -> Seq(Commands)]
    BY <1>1, <1>2, <1>5 DEF TypeOK
  <2> QED BY <1>1, <1>2, <2>1 DEF TypeOK
<1>7. Grows
  BY <1>2, SameGrows
<1>8. SaidOK'
  BY <1>1, <1>2 DEF SaidOK, Ids
<1>9. LogOK'
  BY <1>1, <1>2, <1>7, LogKept
<1>10. WiresOK'
  <2>1. CommandOK(c, l)'
    BY <1>3 DEF CommandOK
  <2>2. Range(Append(up[c], l)) = Range(up[c]) \cup {l}
    BY <1>3, <1>4, RangeAppended
  <2>3. \A d \in Clients : \A x \in Range(up'[d]) : x \in Range(up[d]) \/ CommandOK(d, x)'
    BY <1>4, <2>1, <2>2
  <2>4. \A d \in Clients : \A x \in Range(down'[d]) : x \in Range(down[d]) \/ LineOK(d, x)'
    BY <1>2
  <2> QED BY <1>1, <1>7, <2>3, <2>4, WiresKept
<1>11. HeldOK'
  <2>1. \A d \in Clients : \A b \in batches'[d] :
          OfBatch(d, b.target, b.batch)' \/ \E b0 \in batches[d] : b0.batch = b.batch /\ b0.target = b.target
    BY <1>2
  <2>2. \A d \in Clients : \A u \in Buffers(d) : \A e \in Range(rows'[d][u]) :
          e \in Range(rows[d][u]) \/ (e.id \in Ids' /\ (e.batch # 0 => OfBatch(d, u, e.batch)'))
    BY <1>2
  <2> QED BY <1>1, <1>7, <2>1, <2>2, HeldKept
<1>12. MessagesOK'
  <2>1. ASSUME NEW d \in Clients, NEW i \in Ids PROVE Same(LiveAt(up[d], i), LiveAt(up'[d], i))
    <3>1. ~Live(l, i)
      BY <1>3 DEF Live
    <3>2. LiveAt(Append(up[c], l), i) = LiveAt(up[c], i)
      BY <1>3, <1>4, <3>1, LiveAppended
    <3> QED BY <1>4, <3>2, SameSame
  <2>2. \A d \in Clients : \A i \in Ids :
          /\ Same(LiveAt(up[d], i), LiveAt(up'[d], i))
          /\ Same(LiveAt(down[d], i), LiveAt(down'[d], i))
          /\ \A u \in Buffers(d) : Same(ShownAt(rows[d][u], i), ShownAt(rows'[d][u], i))
    BY <1>2, <2>1, SameSame
  <2> QED BY <1>1, <1>2, <2>2, MessagesKept
<1>13. HistoriesOK'
  <2>1. \A d \in Clients, u \in Targets, r \in Nat \ {0} : u # d => KeepsShown(rows[d][u], rows'[d][u], r)
    BY <1>2, KeepsSame
  <2> QED BY <1>1, <1>2, <2>1, HistoriesKept
<1> QED BY <1>6, <1>8, <1>9, <1>10, <1>11, <1>12, <1>13 DEF IInv

LEMMA FreshLines ==
  ASSUME TypeOK, NEW n \in Nat, NEW cmd \in Said
  PROVE  \E list \in Seq(Commands) :
           /\ list = [i \in DOMAIN Fresh(n) |-> Line(cmd, Fresh(n)[i], 0)]
           /\ DOMAIN list = 1..n /\ \A k \in 1..n : list[k] = Line(cmd, Len(said) + k, 0)
<1>1. PICK list : list = [i \in DOMAIN Fresh(n) |-> Line(cmd, Fresh(n)[i], 0)]
  OBVIOUS
<1>2. DOMAIN Fresh(n) = 1..n /\ \A k \in 1..n : Fresh(n)[k] = Len(said) + k
  BY DEF Fresh
<1>3. DOMAIN list = 1..n /\ \A k \in 1..n : list[k] = Line(cmd, Len(said) + k, 0)
  BY <1>1, <1>2
<1>4. \A k \in 1..n : Line(cmd, Len(said) + k, 0) \in Commands
  <2>1. \A k \in 1..n : Len(said) + k \in Nat
    BY SaidTypes
  <2> QED BY <2>1 DEF Line, Commands
<1>5. list = [k \in 1..n |-> list[k]]
  BY <1>1, <1>3
<1>6. list \in [1..n -> Commands]
  BY <1>3, <1>4, <1>5
<1>7. list \in Seq(Commands)
  BY <1>6
<1> QED BY <1>1, <1>3, <1>7

LEMMA FreshRows ==
  ASSUME TypeOK, NEW n \in Nat
  PROVE  \E list \in Seq(Entries) :
           /\ list = Rows(Fresh(n), 0)
           /\ DOMAIN list = 1..n
           /\ \A k \in 1..n : list[k] = Row(Len(said) + k, 0) /\ list[k].id = Len(said) + k /\ list[k].batch = 0
<1>1. PICK list : list = Rows(Fresh(n), 0)
  OBVIOUS
<1>2. DOMAIN Fresh(n) = 1..n /\ \A k \in 1..n : Fresh(n)[k] = Len(said) + k
  BY DEF Fresh
<1>3. /\ list = [k \in 1..n |-> list[k]] /\ DOMAIN list = 1..n
      /\ \A k \in 1..n : list[k] = Row(Len(said) + k, 0)
  BY <1>1, <1>2 DEF Rows
<1>4. \A k \in 1..n : Row(Len(said) + k, 0) \in Entries
  <2>1. \A k \in 1..n : Len(said) + k \in Nat
    BY SaidTypes
  <2> QED BY <2>1 DEF Row, Entries
<1>5. list \in [1..n -> Entries]
  BY <1>3, <1>4
<1>6. list \in Seq(Entries)
  BY <1>5
<1>7. \A k \in 1..n : list[k].id = Len(said) + k /\ list[k].batch = 0
  BY <1>3 DEF Row
<1> QED BY <1>1, <1>3, <1>6, <1>7

LEMMA SaysKeeps ==
  ASSUME IInv, NEW c \in Clients, NEW t \in Buffers(c), NEW kind \in {"chat", "request"},
         NEW n \in 1..MaxChunks, Says(c, t, kind, n)
  PROVE  IInv'
<1>1. TypeOK /\ SaidOK /\ LogOK /\ WiresOK /\ HeldOK /\ MessagesOK /\ HistoriesOK
  BY DEF IInv
<1>2. n \in Nat /\ t \in Targets /\ t # c /\ kind # "reply"
  BY ChatAssumption DEF Buffers
<1>3. PICK m \in Messages : m = [from |-> c, target |-> t, kind |-> kind, re |-> 0]
  BY <1>2 DEF Messages
<1>4. PICK more \in Seq(Messages) : more = [i \in 1..n |-> m]
  <2>1. [i \in 1..n |-> m] \in [1..n -> Messages]
    OBVIOUS
  <2>2. [i \in 1..n |-> m] \in Seq(Messages)
    BY <1>2, <2>1
  <2> QED BY <2>2
<1>5. PICK cmd \in Said : cmd = "PRIVMSG"
  BY DEF Said
<1>6. PICK list \in Seq(Commands) :
        /\ list = [i \in DOMAIN Fresh(n) |-> Line(cmd, Fresh(n)[i], 0)]
        /\ DOMAIN list = 1..n /\ \A k \in 1..n : list[k] = Line(cmd, Len(said) + k, 0)
  BY <1>1, <1>2, FreshLines
<1>7. PICK shown \in Seq(Entries) :
        /\ shown = Rows(Fresh(n), 0) /\ DOMAIN shown = 1..n
        /\ \A k \in 1..n : /\ shown[k] = Row(Len(said) + k, 0)
                           /\ shown[k].id = Len(said) + k /\ shown[k].batch = 0
  BY <1>1, <1>2, FreshRows
<1>8. /\ DOMAIN list = 1..n /\ DOMAIN list = DOMAIN more
      /\ \A k \in DOMAIN list : list[k] = Line(cmd, Len(said) + k, 0)
      /\ DOMAIN more = 1..n /\ (\A k \in DOMAIN more : more[k] = m) /\ Len(more) = n
  <2>1. DOMAIN more = 1..n /\ (\A k \in DOMAIN more : more[k] = m)
    BY <1>2, <1>4
  <2>2. Len(more) = n
    BY <1>2, <2>1, LenProperties
  <2> QED BY <1>6, <2>1, <2>2
<1>9. /\ DOMAIN shown = 1..n /\ \A k \in 1..n : shown[k] = Row(Len(said) + k, 0)
      /\ \A k \in 1..n : shown[k].id = Len(said) + k /\ shown[k].batch = 0
  BY <1>7
<1>10. said' = said \o more
  BY <1>3, <1>4 DEF Says, Record
<1>11. /\ up' = [up EXCEPT ![m.from] = @ \o list]
      /\ log' = log /\ served' = served /\ left' = left /\ down' = down
      /\ echo' = echo /\ batches' = batches
  BY <1>3, <1>8, <1>5, <1>6 DEF Says, Writes, server
<1>12. IF ~echo[c] /\ kind = "chat" THEN rows' = [rows EXCEPT ![c][t] = @ \o shown] ELSE rows' = rows
  BY <1>7 DEF Says, File
<1>13. m.from = c /\ m.target = t /\ m.kind = kind /\ m.re = 0 /\ m.re <= Len(said) /\ Len(said) \in Nat
  BY <1>1, <1>3, SaidTypes
<1>14. /\ said' \in Seq(Messages) /\ Len(said') = Len(said) + Len(more)
       /\ Ids \subseteq Ids' /\ \A i \in Ids : said'[i] = said[i]
       /\ \A k \in DOMAIN more : /\ Len(said) + k \in Ids' /\ Len(said) + k \notin Ids
                          /\ said'[Len(said) + k] = m
       /\ \A i \in Ids' : i \notin Ids => \E k \in DOMAIN more : i = Len(said) + k
  BY <1>1, <1>8, <1>10, Recorded
<1>15. Grows
  BY <1>1, <1>8, <1>10, <1>11, SaysGrows
<1>16. SaidOK'
  BY <1>1, <1>2, <1>8, <1>10, <1>11, <1>13, RecordedSaidOK
<1>17. LogOK'
  BY <1>1, <1>11, <1>15, LogKept
<1>18. WiresOK' /\ up' \in [Clients -> Seq(Commands)]
  <2>1. cmd = "NOTICE" <=> m.kind = "reply"
    BY <1>2, <1>13, <1>5
  <2>2. \A d \in Clients : Range(down'[d]) \subseteq Range(down[d])
    BY <1>11
  <2> QED BY <1>1, <1>8, <1>10, <1>11, <1>15, <2>1, <2>2, WritesWires
\* The rows.
<1>19. rows[c][t] \in Seq(Entries)
  BY <1>1, RowTypes
<1>20. rows[c][t] \o shown \in Seq(Entries)
  BY <1>19, ConcatPlaces
<1>21. /\ rows' = [d \in Clients |-> rows'[d]]
       /\ \A d \in Clients : rows'[d] \in [Buffers(d) -> Seq(Entries)]
       /\ rows'[c][t] = IF ~echo[c] /\ kind = "chat" THEN rows[c][t] \o shown ELSE rows[c][t]
       /\ \A d \in Clients : \A u \in Buffers(d) : d # c \/ u # t => rows'[d][u] = rows[d][u]
  <2>1. CASE ~echo[c] /\ kind = "chat"
    <3>1. PICK new \in Seq(Entries) : new = rows[c][t] \o shown
      BY <1>20
    <3>2. rows' = [rows EXCEPT ![c][t] = new]
      BY <1>12, <2>1, <3>1
    <3>3. /\ rows' = [d \in Clients |-> rows'[d]]
          /\ \A d \in Clients : rows'[d] \in [Buffers(d) -> Seq(Entries)]
          /\ rows'[c][t] = new
          /\ \A d \in Clients : \A u \in Buffers(d) : d # c \/ u # t => rows'[d][u] = rows[d][u]
      BY <1>1, <3>2, FiledAt, ZenonT(60)
    <3> QED BY <2>1, <3>1, <3>3
  <2>2. CASE ~(~echo[c] /\ kind = "chat")
    BY <1>1, <1>12, <2>2 DEF TypeOK
  <2> QED BY <2>1, <2>2
<1>22. TypeOK'
  BY <1>1, <1>11, <1>14, <1>18, <1>21 DEF TypeOK
<1>23. HeldOK'
  <2>1. \A d \in Clients : \A b \in batches'[d] :
          OfBatch(d, b.target, b.batch)' \/ \E b0 \in batches[d] : b0.batch = b.batch /\ b0.target = b.target
    BY <1>11
  <2>2. \A e \in Range(shown) : e.id \in Ids' /\ e.batch = 0
    <3>1. \A k \in 1..n : shown[k].id \in Ids' /\ shown[k].batch = 0
      BY <1>8, <1>9, <1>14
    <3> QED BY <1>9, <3>1 DEF Range
  <2>3. Range(rows[c][t] \o shown) = Range(rows[c][t]) \cup Range(shown)
    BY <1>19, RangeJoined
  <2>4. \A d \in Clients : \A u \in Buffers(d) : \A e \in Range(rows'[d][u]) :
          e \in Range(rows[d][u]) \/ (e.id \in Ids' /\ (e.batch # 0 => OfBatch(d, u, e.batch)'))
    <3>1. ASSUME NEW d \in Clients, NEW u \in Buffers(d), NEW e \in Range(rows'[d][u])
          PROVE  e \in Range(rows[d][u]) \/ (e.id \in Ids' /\ e.batch = 0)
      <4>1. CASE d = c /\ u = t
        BY <1>21, <2>2, <2>3, <3>1, <4>1
      <4>2. CASE d # c \/ u # t
        BY <1>21, <3>1, <4>2
      <4> QED BY <4>1, <4>2
    <3> QED BY <3>1
  <2> QED BY <1>1, <1>15, <2>1, <2>4, HeldKept
<1>24. HistoriesOK'
  <2>1. ASSUME NEW d \in Clients, NEW u \in Targets, NEW r \in Nat \ {0}, u # d
        PROVE  KeepsShown(rows[d][u], rows'[d][u], r)
    <3>1. \A k \in DOMAIN shown : shown[k].batch # r
      BY <1>9
    <3>2. KeepsShown(rows[c][t], rows[c][t] \o shown, r)
      BY <1>19, <3>1, ForeignBehind
    <3>3. u \in Buffers(d)
      BY <2>1 DEF Buffers
    <3>4. CASE d = c /\ u = t /\ ~echo[c] /\ kind = "chat"
      BY <1>21, <3>2, <3>4
    <3>5. CASE ~(d = c /\ u = t /\ ~echo[c] /\ kind = "chat")
      <4>1. rows'[d][u] = rows[d][u]
        BY <1>21, <3>3, <3>5
      <4> QED BY <4>1, KeepsSame
    <3> QED BY <3>4, <3>5
  <2>2. \A d \in Clients, u \in Targets, r \in Nat \ {0} : u # d => KeepsShown(rows[d][u], rows'[d][u], r)
    BY <2>1
  <2> QED BY <1>1, <1>11, <2>2, HistoriesKept
\* The messages.
<1>25. /\ \A d \in Clients, i \in Ids : Same(LiveAt(up[d], i), LiveAt(up'[d], i))
       /\ \A i \in Ids' : i \notin Ids => Single(LiveAt(up'[m.from], i)) /\ LiveAt(up'[m.from], i) # {}
       /\ \A d \in Clients, i \in Ids' : i \notin Ids => Answers(d, i)' = {}
       /\ \A d \in Clients, i \in Ids : i # m.re \/ d # m.from => Answers(d, i)' = Answers(d, i)
  BY <1>1, <1>8, <1>10, <1>11, <1>13, Spreads, ZenonT(60)
<1>26. \A i : Single(ShownAt(shown, i)) /\ (ShownAt(shown, i) # {} <=> \E k \in 1..n : Len(said) + k = i)
  <2>1. ASSUME NEW i
        PROVE  /\ Single(ShownAt(shown, i))
               /\ ShownAt(shown, i) # {} <=> \E k \in 1..n : Len(said) + k = i
    <3>1. /\ Single(ShownAt(shown, i))
          /\ ShownAt(shown, i) # {} <=> \E k \in DOMAIN shown : Len(said) + k = i
      <4>1. DOMAIN shown \subseteq Nat /\ \A k \in DOMAIN shown : shown[k] = Row(Len(said) + k, 0)
        BY <1>9
      <4> QED BY <1>13, <4>1, ShownFresh
    <3> QED BY <1>9, <3>1
  <2> QED BY <2>1
<1>27. ASSUME NEW d \in Clients, NEW i \in Ids PROVE MessageOK(d, i)'
  <2>1. said'[i] = said[i] /\ said[i].from \in Clients /\ i # 0
    BY <1>1, <1>14, SaidTypes
  <2>2. Same(Answers(d, i), Answers(d, i)')
    <3>1. Answers(d, i)' = Answers(d, i)
      BY <1>13, <1>25, <2>1
    <3> QED BY <3>1, SameSame
  <2>3. Same(LiveAt(down[d], i), LiveAt(down'[d], i))
    BY <1>11, SameSame
  <2>4. ASSUME NEW u \in Buffers(d) PROVE Same(ShownAt(rows[d][u], i), ShownAt(rows'[d][u], i))
    <3>1. CASE rows'[d][u] = rows[d][u]
      BY <3>1, SameSame
    <3>2. CASE d = c /\ u = t /\ rows'[c][t] = rows[c][t] \o shown
      <4>1. \A k \in 1..n : Len(said) + k # i
        BY <1>8, <1>14
      <4>2. ShownAt(shown, i) = {}
        BY <1>26, <4>1
      <4> QED BY <1>19, <3>2, <4>2, ShownJoined
    <3> QED BY <1>21, <3>1, <3>2
  <2>5. MessageOK(d, i)
    BY <1>1 DEF MessagesOK
  <2> QED BY <1>11, <1>25, <2>1, <2>2, <2>3, <2>4, <2>5, MessageKept
<1>28. ASSUME NEW d \in Clients, NEW i \in Ids', i \notin Ids PROVE MessageOK(d, i)'
  <2>1. said'[i] = m
    BY <1>14, <1>28
  <2>2. Single(LiveAt(up'[said'[i].from], i)) /\ LiveAt(up'[said'[i].from], i) # {}
    BY <1>25, <1>28, <2>1
  <2>3. /\ LiveAt(down[d], i) = {}
        /\ \A u \in Buffers(d) : ShownAt(rows[d][u], i) = {}
    BY <1>1, <1>28, Unheard
  <2>4. LiveAt(down'[d], i) = {} /\ Answers(d, i)' = {}
    BY <1>11, <1>25, <1>28, <2>3
  <2>5. Conversation(c, i)' = t /\ (AtOnce(d, i)' <=> d = c /\ ~echo[c] /\ kind = "chat")
    BY <1>2, <1>11, <1>13, <2>1 DEF Conversation, AtOnce
  <2>6. Single({})
    BY DEF Single
  <2>7. ASSUME NEW u \in Buffers(d)
        PROVE  /\ Single(ShownAt(rows'[d][u], i))
               /\ ShownAt(rows'[d][u], i) # {} <=> u = Conversation(d, i)' /\ AtOnce(d, i)'
    <3>1. CASE d = c /\ u = t /\ ~echo[c] /\ kind = "chat"
      <4>1. \E k \in 1..n : Len(said) + k = i
        BY <1>8, <1>14, <1>28
      <4>2. Single(ShownAt(shown, i)) /\ ShownAt(shown, i) # {}
        BY <1>26, <4>1
      <4>3. ShownAt(rows[c][t], i) = {}
        BY <2>3, <3>1
      <4>4. Same(ShownAt(shown, i), ShownAt(rows[c][t] \o shown, i))
        BY <1>19, <4>3, ShownJoined
      <4>5. rows'[d][u] = rows[c][t] \o shown
        BY <1>21, <3>1
      <4> QED BY <2>5, <3>1, <4>2, <4>4, <4>5 DEF Same
    <3>2. CASE ~(d = c /\ u = t /\ ~echo[c] /\ kind = "chat")
      <4>1. rows'[d][u] = rows[d][u]
        BY <1>21, <3>2
      <4> QED BY <2>3, <2>5, <2>6, <3>2, <4>1
    <3> QED BY <3>1, <3>2
  <2> QED BY <2>2, <2>4, <2>7, MessageSaid
<1>29. ASSUME NEW v \in Conversations, NEW i \in Range(log'[v]) PROVE Relayed(i)'
  <2>1. i \in Ids /\ Relayed(i)
    BY <1>1, <1>11, <1>29 DEF LogOK, ChatOf, MessagesOK, Range
  <2>2. said'[i] = said[i] /\ said[i].from \in Clients
    BY <1>1, <1>14, <2>1, SaidTypes
  <2>3. Same(LiveAt(up[said[i].from], i), LiveAt(up'[said[i].from], i))
    BY <1>25, <2>1, <2>2
  <2> QED BY <2>1, <2>2, <2>3 DEF Relayed, Same
<1>30. MessagesOK'
  BY <1>27, <1>28, <1>29 DEF MessagesOK
<1> QED BY <1>16, <1>17, <1>18, <1>22, <1>23, <1>24, <1>30 DEF IInv

\* A step touches at most the history q, and none when q is 0.
LEMMA OtherHistories ==
  ASSUME TypeOK, LogOK, HistoriesOK, NEW q,
         \A r \in DOMAIN served : r # q => served'[r] = served[r] /\ left'[r] = left[r],
         \A c \in Clients, r \in DOMAIN served :
           r # q => KeepsWire(down[c], down'[c], r) /\ OpenBatches(c, r)' = OpenBatches(c, r),
         \A c \in Clients : \A t \in Buffers(c) : \A r \in DOMAIN served :
           r # q => KeepsShown(rows[c][t], rows'[c][t], r)
  PROVE  \A r \in DOMAIN served : r # q => HistoryOK(r)'
<1>1. ASSUME NEW r \in DOMAIN served, r # q PROVE HistoryOK(r)'
  <2>1. PICK c \in Clients, t \in Targets : c = served[r].to /\ t = served[r].target
    BY HistoryTypes
  <2>2. t \in Buffers(c)
    BY <2>1 DEF LogOK, Buffers
  <2>3. KeepsShown(rows[c][t], rows'[c][t], r) /\ KeepsWire(down[c], down'[c], r)
    BY <1>1, <2>2
  <2>4. OpenBatches(c, r)' = OpenBatches(c, r) /\ HistoryOK(r)
    BY <1>1 DEF HistoriesOK
  <2>5. served'[r] = served[r] /\ left'[r] = left[r]
    BY <1>1
  <2> QED BY <2>1, <2>3, <2>4, <2>5, HistoryKept
<1> QED BY <1>1

LEMMA BatchNumbers ==
  ASSUME TypeOK
  PROVE  DOMAIN served = 1..Len(served) /\ Len(served) \in Nat /\ \A r \in DOMAIN served : r \in Nat /\ r # 0
<1>1. served \in Seq(Histories)
  BY DEF TypeOK
<1>2. DOMAIN served = 1..Len(served) /\ Len(served) \in Nat
  BY <1>1, LenProperties
<1> QED BY <1>2

LEMMA ChatAppended ==
  ASSUME NEW v, NEW list \in Seq(Nat), ChatOf(v, list), NEW i \in Ids, i \in Nat, said[i].kind = "chat",
         Between(said[i].from, said[i].target) = v, i \notin Range(list)
  PROVE  ChatOf(v, Append(list, i))
<1> DEFINE w == Append(list, i)
<1>1. PICK n : n = Len(list) + 1
  OBVIOUS
<1>2. /\ DOMAIN w = DOMAIN list \cup {n} /\ w[n] = i
      /\ \A k \in DOMAIN list : w[k] = list[k]
  BY <1>1, AppendPlaces
<1>3. \A k \in DOMAIN list : list[k] # i
  BY DEF Range
<1> HIDE DEF w
<1>4. \A j, k \in DOMAIN w : w[j] = w[k] => j = k
  BY <1>2, <1>3 DEF ChatOf
<1>5. \A k \in DOMAIN w : /\ w[k] \in Ids /\ said[w[k]].kind = "chat"
                          /\ Between(said[w[k]].from, said[w[k]].target) = v
  BY <1>2 DEF ChatOf
<1> QED BY <1>4, <1>5 DEF ChatOf, w

LEMMA RelaysKeeps ==
  ASSUME IInv, NEW c \in Clients, Relays(c)
  PROVE  IInv'
<1>1. TypeOK /\ SaidOK /\ LogOK /\ WiresOK /\ HeldOK /\ MessagesOK /\ HistoriesOK
  BY DEF IInv
<1>2. up[c] \in Seq(Commands) /\ up[c] # <<>>
  BY <1>1 DEF TypeOK, Relays
<1>3. PICK l \in Commands : l = Head(up[c])
  BY <1>2, TailPlaces
<1>4. l.cmd # "CHATHISTORY" /\ l \in Range(up[c])
  BY <1>2, <1>3, RangeTaken DEF Relays
<1>5. l.cmd \in Said /\ l.batch = 0 /\ l \in Lines
  BY <1>4 DEF Commands, Said, Lines
<1>6. CommandOK(c, l)
  BY <1>1, <1>4 DEF WiresOK
<1>7. PICK x \in Ids : x = l.id
  BY <1>5, <1>6 DEF CommandOK
<1>8. said[x].from = c /\ (l.cmd = "NOTICE" <=> said[x].kind = "reply")
  BY <1>5, <1>6, <1>7 DEF CommandOK
<1>9. x \in Nat \ {0} /\ said[x].target \in Targets
  BY <1>1, SaidTypes
<1>10. /\ up' = [up EXCEPT ![c] = Tail(up[c])]
       /\ said' = said /\ served' = served /\ left' = left /\ echo' = echo /\ batches' = batches /\ rows' = rows
  BY DEF Relays, client
<1>11. \A d \in Clients : down'[d] = IF Comes(d, x) THEN Append(down[d], l) ELSE down[d]
  <2>1. down' = [d \in Clients |-> IF Member(d, x) /\ (d = c => echo[c]) THEN Append(down[d], l) ELSE down[d]]
    BY <1>3, <1>7 DEF Relays
  <2> QED BY <1>8, <2>1 DEF Comes
<1>12. DOMAIN down' = Clients
  BY DEF Relays
<1>13. PICK v \in Conversations : v = Between(c, said[x].target)
  BY <1>9 DEF Conversations
<1>14. IF said[x].kind = "chat" THEN log' = [log EXCEPT ![v] = Append(log[v], x)] ELSE log' = log
  BY <1>3, <1>7, <1>13 DEF Relays
<1>15. Grows
  BY <1>10, SameGrows
<1>16. \A d \in Clients : up[d] \in Seq(Commands) /\ down[d] \in Seq(Lines)
  BY <1>1 DEF TypeOK
<1>17. \A d \in Clients : up'[d] = IF d = c THEN Tail(up[d]) ELSE up[d]
  BY <1>1, <1>10 DEF TypeOK
<1>18. log \in [Conversations -> Seq(Nat)] /\ log[v] \in Seq(Nat)
  BY <1>1 DEF TypeOK
<1>19. \A u \in Conversations : log'[u] = IF said[x].kind = "chat" /\ u = v THEN Append(log[u], x) ELSE log[u]
  BY <1>14, <1>18
<1>20. TypeOK'
  <2>1. Tail(up[c]) \in Seq(Commands)
    BY <1>2, TailPlaces
  <2>2. up' \in [Clients -> Seq(Commands)]
    BY <1>1, <1>10, <2>1 DEF TypeOK
  <2>3. \A d \in Clients : Append(down[d], l) \in Seq(Lines)
    BY <1>5, <1>16, AppendPlaces
  <2>4. \A d \in Clients : down'[d] \in Seq(Lines)
    BY <1>11, <1>16, <2>3
  <2>5. down' \in [Clients -> Seq(Lines)]
    <3>1. down' = [d \in Clients |-> down'[d]]
      BY DEF Relays
    <3> QED BY <2>4, <3>1
  <2>6. Append(log[v], x) \in Seq(Nat)
    BY <1>9, <1>18, AppendPlaces
  <2>7. log' \in [Conversations -> Seq(Nat)]
    BY <1>14, <1>18, <2>6
  <2> QED BY <1>1, <1>10, <2>2, <2>5, <2>7 DEF TypeOK
<1>21. SaidOK'
  BY <1>1, <1>10 DEF SaidOK, Ids
\* The message was not relayed before.
<1>22. Live(l, x)
  BY <1>5, <1>7 DEF Live
<1>23. LiveAt(up[c], x) # {}
  BY <1>2, <1>3, <1>22, LiveTaken
<1>24. ~Relayed(x)
  BY <1>8, <1>23 DEF Relayed
<1>25. LogOK'
  <2>1. ASSUME NEW u \in Conversations PROVE ChatOf(u, log[u])'
    <3>1. PICK list \in Seq(Nat) : list = log[u]
      BY <1>18
    <3>2. ChatOf(u, list)
      BY <1>1, <3>1 DEF LogOK
    <3>3. CASE ~(said[x].kind = "chat" /\ u = v)
      <4>1. ChatOf(u, list)'
        BY <1>15, <3>2, ChatOfGrows
      <4>2. log'[u] = list
        BY <1>19, <3>1, <3>3
      <4> QED BY <4>1, <4>2
    <3>4. CASE said[x].kind = "chat" /\ u = v
      <4>1. x \notin Range(list)
        BY <1>1, <1>24, <3>1 DEF MessagesOK
      <4>2. Between(said[x].from, said[x].target) = u
        BY <1>8, <1>13, <3>4
      <4>3. ChatOf(u, Append(list, x))
        BY <1>9, <3>2, <3>4, <4>1, <4>2, ChatAppended
      <4>4. PICK new : new = Append(list, x)
        OBVIOUS
      <4>5. ChatOf(u, new)'
        BY <1>15, <4>3, <4>4, ChatOfGrows
      <4>6. log'[u] = new
        BY <1>19, <3>1, <3>4, <4>4
      <4> QED BY <4>5, <4>6
    <3> QED BY <3>3, <3>4
  <2>2. ASSUME NEW r \in DOMAIN served
        PROVE  /\ served[r].target # served[r].to /\ Len(served[r].list) <= MaxHistory
               /\ ChatOf(Between(served[r].to, served[r].target), served[r].list)'
    <3>1. PICK list, u : list = served[r].list /\ u = Between(served[r].to, served[r].target)
      OBVIOUS
    <3>2. ChatOf(u, list) /\ served[r].target # served[r].to /\ Len(list) <= MaxHistory
      BY <1>1, <2>2, <3>1 DEF LogOK
    <3>3. ChatOf(u, list)'
      BY <1>15, <3>2, ChatOfGrows
    <3>4. served'[r] = served[r]
      BY <1>10
    <3> QED BY <3>1, <3>2, <3>3, <3>4 DEF Between
  <2> QED BY <1>10, <2>1, <2>2 DEF LogOK
<1>26. WiresOK'
  <2>1. ASSUME NEW d \in Clients, Comes(d, x) PROVE LineOK(d, l)'
    <3>1. Member(d, x)
      BY <2>1 DEF Comes
    <3>2. x \in Ids' /\ Member(d, x)' /\ (l.cmd = "NOTICE" <=> said'[x].kind = "reply")
      BY <1>8, <1>10, <3>1 DEF Ids, Member
    <3> QED BY <1>5, <1>7, <3>2 DEF LineOK, Said
  <2>2. Range(Tail(up[c])) \subseteq Range(up[c])
    BY <1>2, RangeTaken
  <2>3. \A d \in Clients : \A y \in Range(up'[d]) : y \in Range(up[d]) \/ CommandOK(d, y)'
    BY <1>17, <2>2
  <2>4. \A d \in Clients : Range(Append(down[d], l)) = Range(down[d]) \cup {l}
    BY <1>5, <1>16, RangeAppended
  <2>5. \A d \in Clients : \A y \in Range(down'[d]) : y \in Range(down[d]) \/ LineOK(d, y)'
    BY <1>11, <2>1, <2>4
  <2> QED BY <1>1, <1>15, <2>3, <2>5, WiresKept
<1>27. HeldOK'
  <2>1. \A d \in Clients : \A b \in batches'[d] :
          OfBatch(d, b.target, b.batch)' \/ \E b0 \in batches[d] : b0.batch = b.batch /\ b0.target = b.target
    BY <1>10
  <2>2. \A d \in Clients : \A u \in Buffers(d) : \A e \in Range(rows'[d][u]) :
          e \in Range(rows[d][u]) \/ (e.id \in Ids' /\ (e.batch # 0 => OfBatch(d, u, e.batch)'))
    BY <1>10
  <2> QED BY <1>1, <1>15, <2>1, <2>2, HeldKept
<1>28. \A d \in Clients, i \in Ids : i # x => Same(LiveAt(up[d], i), LiveAt(up'[d], i))
  <2>1. ASSUME NEW d \in Clients, NEW i \in Ids, i # x PROVE Same(LiveAt(up[d], i), LiveAt(up'[d], i))
    <3>1. ~Live(Head(up[c]), i)
      BY <1>3, <1>7, <2>1 DEF Live
    <3>2. Same(LiveAt(up[c], i), LiveAt(Tail(up[c]), i))
      BY <1>2, <3>1, LiveTaken
    <3> QED BY <1>17, <3>2, SameSame
  <2> QED BY <2>1
<1>29. LiveAt(up'[c], x) = {}
  <2>1. Single(LiveAt(up[c], x))
    BY <1>1, <1>8 DEF MessagesOK, MessageOK
  <2>2. LiveAt(Tail(up[c]), x) = {}
    BY <1>2, <1>3, <1>22, <2>1, LiveTaken
  <2> QED BY <1>17, <2>2
<1>30. ASSUME NEW d \in Clients, NEW i \in Ids PROVE MessageOK(d, i)'
  <2>1. MessageOK(d, i) /\ said[i].from \in Clients
    BY <1>1, SaidTypes DEF MessagesOK
  <2>2. CASE i # x
    <3>1. Same(LiveAt(down[d], i), LiveAt(down'[d], i))
      <4>1. ~Live(l, i)
        BY <1>7, <2>2 DEF Live
      <4>2. LiveAt(Append(down[d], l), i) = LiveAt(down[d], i)
        BY <1>5, <1>16, <4>1, LiveAppended
      <4> QED BY <1>11, <4>2, SameSame
    <3>2. Same(Answers(d, i), Answers(d, i)')
      <4>1. Answers(d, i)' = Answers(d, i)
        BY <1>10 DEF Answers, Ids
      <4> QED BY <4>1, SameSame
    <3>3. \A u \in Buffers(d) : Same(ShownAt(rows[d][u], i), ShownAt(rows'[d][u], i))
      BY <1>10, SameSame
    <3>4. Same(LiveAt(up[said[i].from], i), LiveAt(up'[said[i].from], i)) /\ said'[i] = said[i]
      BY <1>10, <1>28, <2>1, <2>2
    <3> QED BY <1>10, <2>1, <3>1, <3>2, <3>3, <3>4, MessageKept
  <2>3. CASE i = x
    <3>1. LiveAt(down[d], x) = {}
      BY <1>24, <2>1, <2>3 DEF MessageOK
    <3>2. PICK n : n = Len(down[d]) + 1
      OBVIOUS
    <3>3. LiveAt(Append(down[d], l), x) = LiveAt(down[d], x) \cup {n}
      BY <1>5, <1>16, <1>22, <3>2, LiveAppended
    <3>4. LiveAt(down'[d], x) = IF Comes(d, x) THEN {n} ELSE {}
      BY <1>11, <3>1, <3>3
    <3>5. Single(LiveAt(down'[d], x)) /\ (LiveAt(down'[d], x) # {} <=> Comes(d, x))
      BY <3>4 DEF Single
    <3>6. LiveAt(up[said[i].from], i) # {} /\ LiveAt(up'[said[i].from], i) = {}
      BY <1>8, <1>23, <1>29, <2>3
    <3> QED BY <1>10, <2>1, <2>3, <3>5, <3>6, MessageRelayed
  <2> QED BY <2>2, <2>3
<1>31. ASSUME NEW u \in Conversations, NEW i \in Range(log'[u]) PROVE Relayed(i)'
  <2>1. CASE i = x
    BY <1>8, <1>10, <1>29, <2>1 DEF Relayed
  <2>2. CASE i # x
    <3>1. Range(Append(log[v], x)) = Range(log[v]) \cup {x}
      BY <1>9, <1>18, RangeAppended
    <3>2. i \in Range(log[u])
      BY <1>19, <1>31, <2>2, <3>1
    <3>3. i \in Ids /\ Relayed(i)
      BY <1>1, <3>2 DEF LogOK, ChatOf, MessagesOK, Range
    <3>4. Same(LiveAt(up[said[i].from], i), LiveAt(up'[said[i].from], i))
      BY <1>1, <1>28, <2>2, <3>3, SaidTypes
    <3> QED BY <1>10, <3>3, <3>4 DEF Relayed, Same
  <2> QED BY <2>1, <2>2
<1>32. MessagesOK'
  <2>1. Ids' = Ids
    BY <1>10 DEF Ids
  <2> QED BY <1>30, <1>31, <2>1 DEF MessagesOK
<1>33. HistoriesOK'
  <2>1. PICK q : q = 0
    OBVIOUS
  <2>2. \A r \in DOMAIN served : r # q
    BY <1>1, <2>1, BatchNumbers
  <2>3. ASSUME NEW d \in Clients, NEW r \in DOMAIN served PROVE KeepsWire(down[d], down'[d], r)
    <3>1. Foreign(l, r)
      BY <1>5, <2>1, <2>2 DEF Foreign, IsOpen, IsTagged, IsClose, Said
    <3>2. KeepsWire(down[d], Append(down[d], l), r)
      BY <1>5, <1>16, <3>1, ForeignAppended
    <3> QED BY <1>11, <3>2, KeepsSame
  <2>4. \A d \in Clients, r \in DOMAIN served : OpenBatches(d, r)' = OpenBatches(d, r)
    BY <1>10 DEF OpenBatches
  <2>5. \A d \in Clients : \A u \in Buffers(d) : \A r \in DOMAIN served : KeepsShown(rows[d][u], rows'[d][u], r)
    BY <1>10, KeepsSame
  <2>6. \A r \in DOMAIN served : served'[r] = served[r] /\ left'[r] = left[r]
    BY <1>10
  <2>7. \A r \in DOMAIN served : r # q => HistoryOK(r)'
    BY <1>1, <2>3, <2>4, <2>5, <2>6, OtherHistories
  <2> QED BY <1>10, <2>2, <2>7 DEF HistoriesOK
<1> QED BY <1>20, <1>21, <1>25, <1>26, <1>27, <1>32, <1>33 DEF IInv

\* Of a history that was not asked for there is nothing anywhere.
LEMMA NotYet ==
  ASSUME TypeOK, WiresOK, HeldOK, NEW c \in Clients, NEW q, q \notin DOMAIN served, q # 0
  PROVE  /\ Opens(down[c], q) = {} /\ Tagged(down[c], q) = {} /\ Closes(down[c], q) = {}
         /\ OpenBatches(c, q) = {} /\ \A t \in Buffers(c) : At(rows[c][t], q) = {}
<1>1. ASSUME NEW k \in DOMAIN down[c] PROVE ~IsOpen(down[c][k], q) /\ ~IsTagged(down[c][k], q) /\ ~IsClose(down[c][k], q)
  <2>1. LineOK(c, down[c][k])
    BY DEF WiresOK, Range
  <2> QED BY <2>1 DEF LineOK, IsOpen, IsTagged, IsClose, OfBatch
<1>2. Opens(down[c], q) = {} /\ Tagged(down[c], q) = {} /\ Closes(down[c], q) = {}
  BY <1>1 DEF Opens, Tagged, Closes, IsOpen, IsTagged, IsClose
<1>3. OpenBatches(c, q) = {}
  BY DEF OpenBatches, HeldOK, OfBatch
<1>4. ASSUME NEW t \in Buffers(c) PROVE At(rows[c][t], q) = {}
  BY DEF At, HeldOK, OfBatch, Range
<1> QED BY <1>2, <1>3, <1>4

\* A message of a conversation is between its sides.
LEMMA BetweenSides ==
  ASSUME TypeOK, SaidOK, NEW i \in Ids, NEW c \in Clients, NEW t \in Targets, t # c,
         Between(said[i].from, said[i].target) = Between(c, t)
  PROVE  Member(c, i) /\ Conversation(c, i) = t
<1>1. Channel \notin Clients
  BY ChatAssumption
<1>2. PICK f \in Clients, g \in Targets : f = said[i].from /\ g = said[i].target
  BY SaidTypes
<1>3. f # g
  BY <1>2 DEF SaidOK
<1>4. Between(f, g) = Between(c, t)
  BY <1>2
<1>5. (g = Channel /\ t = Channel) \/ (g # Channel /\ t # Channel /\ {f, g} = {c, t})
  BY <1>1, <1>4 DEF Between
<1> QED BY <1>1, <1>2, <1>3, <1>5 DEF Member, Conversation

\* The latest of a conversation are of it too, and no more than asked for.
LEMMA LatestChat ==
  ASSUME NEW v, NEW list \in Seq(Nat), ChatOf(v, list), NEW n \in Nat
  PROVE  Latest(list, n) \in Seq(Nat) /\ ChatOf(v, Latest(list, n)) /\ Len(Latest(list, n)) <= n
<1>1. PICK size \in Nat : size = Len(list) /\ DOMAIN list = 1..size
  BY LenProperties
<1>2. CASE size <= n
  BY <1>1, <1>2 DEF Latest
<1>3. CASE ~(size <= n)
  <2>1. PICK from \in Nat \ {0} : from = size - n + 1 /\ from <= size + 1 /\ size - from + 1 = n
    <3>1. size - n + 1 \in Nat \ {0} /\ size - n + 1 <= size + 1 /\ size - (size - n + 1) + 1 = n
      BY <1>1, <1>3
    <3> QED BY <3>1
  <2>2. PICK last \in Seq(Nat) : /\ last = SubSeq(list, from, size) /\ Len(last) = n
                                 /\ \A k \in 1..n : last[k] = list[from + k - 1]
    <3>1. \A k \in from..size : list[k] \in Nat
      BY <1>1, <2>1
    <3>2. /\ SubSeq(list, from, size) \in Seq(Nat)
          /\ Len(SubSeq(list, from, size)) = IF from <= size THEN size - from + 1 ELSE 0
          /\ \A k \in 1..size - from + 1 : SubSeq(list, from, size)[k] = list[from + k - 1]
      BY <1>1, <2>1, <3>1, SubSeqProperties
    <3>3. PICK last : last = SubSeq(list, from, size)
      OBVIOUS
    <3>4. last \in Seq(Nat) /\ \A k \in 1..n : last[k] = list[from + k - 1]
      BY <2>1, <3>2, <3>3
    <3>5. Len(last) = n
      BY <1>1, <2>1, <3>2, <3>3
    <3> QED BY <3>3, <3>4, <3>5
  <2>3. Latest(list, n) = last
    BY <1>1, <1>3, <2>1, <2>2 DEF Latest
  <2>4. DOMAIN last = 1..n
    BY <2>2, LenProperties
  <2>5. \A k \in 1..n : from + k - 1 \in DOMAIN list
    BY <1>1, <2>1
  <2>6. ChatOf(v, last)
    <3>1. \A k \in 1..n : /\ last[k] \in Ids /\ said[last[k]].kind = "chat"
                          /\ Between(said[last[k]].from, said[last[k]].target) = v
      BY <2>2, <2>5 DEF ChatOf
    <3>2. ASSUME NEW j \in 1..n, NEW k \in 1..n, last[j] = last[k] PROVE j = k
      <4>1. list[from + j - 1] = list[from + k - 1]
        BY <2>2, <3>2
      <4>2. from + j - 1 = from + k - 1
        BY <2>5, <4>1 DEF ChatOf
      <4> QED BY <2>1, <4>2
    <3> QED BY <2>4, <3>1, <3>2 DEF ChatOf
  <2> QED BY <2>2, <2>3, <2>6
<1> QED BY <1>2, <1>3

LEMMA ServesHistoryKeeps ==
  ASSUME IInv, NEW c \in Clients, ServesHistory(c)
  PROVE  IInv'
<1>1. TypeOK /\ SaidOK /\ LogOK /\ WiresOK /\ HeldOK /\ MessagesOK /\ HistoriesOK
  BY DEF IInv
<1>2. up[c] \in Seq(Commands) /\ up[c] # <<>>
  BY <1>1 DEF TypeOK, ServesHistory
<1>3. PICK l \in Commands : l = Head(up[c])
  BY <1>2, TailPlaces
<1>4. l.cmd = "CHATHISTORY" /\ l \in Range(up[c])
  BY <1>2, <1>3, RangeTaken DEF ServesHistory
<1>5. PICK t \in Targets : t = l.target
  BY <1>4 DEF Commands, Said
<1>6. t # c
  BY <1>1, <1>4, <1>5 DEF WiresOK, CommandOK
<1>7. PICK v \in Conversations : v = Between(c, t)
  BY DEF Conversations
<1>8. PICK list \in Seq(Nat) : list = Latest(log[v], l.limit) /\ ChatOf(v, list) /\ Len(list) <= MaxHistory
  <2>1. PICK chat \in Seq(Nat) : chat = log[v] /\ ChatOf(v, chat)
    BY <1>1 DEF TypeOK, LogOK
  <2>2. PICK n \in 1..MaxHistory : n = l.limit
    BY <1>4, ChatAssumption DEF Commands, Said
  <2>3. Latest(chat, n) \in Seq(Nat) /\ ChatOf(v, Latest(chat, n)) /\ Len(Latest(chat, n)) <= n
    BY <2>1, LatestChat
  <2>4. Len(Latest(chat, n)) <= MaxHistory
    BY <2>3, LenProperties, ChatAssumption
  <2> QED BY <2>1, <2>2, <2>3, <2>4
<1>9. ChatOf(v, list) /\ Len(list) <= MaxHistory
  BY <1>8
<1>10. PICK h \in Histories : h = [to |-> c, target |-> t, list |-> list]
  BY DEF Histories
<1>11. h.to = c /\ h.target = t /\ h.list = list
  BY <1>10
<1>12. served \in Seq(Histories) /\ Len(served) \in Nat /\ left \in Seq(Seq(Nat)) /\ Len(left) = Len(served)
       /\ DOMAIN served = 1..Len(served)
  BY <1>1, LenProperties DEF TypeOK
<1>13. PICK q \in Nat \ {0} : q = Len(served) + 1
  BY <1>12
<1>14. PICK rest \in Seq(Nat) : rest = Append(list, End)
  <2>1. End \in Nat
    BY DEF End
  <2> QED BY <2>1, AppendPlaces
<1>15. served' = Append(served, h) /\ left' = Append(left, rest)
  BY <1>3, <1>5, <1>7, <1>8, <1>10, <1>14 DEF ServesHistory
<1>16. /\ served' \in Seq(Histories) /\ Len(served') = q /\ DOMAIN served' = DOMAIN served \cup {q}
       /\ q \notin DOMAIN served /\ served'[q] = h /\ \A r \in DOMAIN served : served'[r] = served[r]
  BY <1>12, <1>13, <1>15, AppendPlaces
<1>17. /\ left' \in Seq(Seq(Nat)) /\ Len(left') = q /\ left'[q] = rest
       /\ \A r \in DOMAIN served : left'[r] = left[r]
  <2>1. DOMAIN left = DOMAIN served
    BY <1>12, LenProperties
  <2> QED BY <1>12, <1>13, <1>15, <2>1, AppendPlaces
<1>18. PICK o \in Lines : o = [cmd |-> "OPEN", batch |-> q, target |-> t]
  BY DEF Lines
<1>19. o.cmd = "OPEN" /\ o.batch = q /\ o.target = t
  BY <1>18
<1>20. /\ up' = [up EXCEPT ![c] = Tail(up[c])] /\ down' = [down EXCEPT ![c] = Append(down[c], o)]
       /\ said' = said /\ log' = log /\ echo' = echo /\ batches' = batches /\ rows' = rows
  BY <1>3, <1>5, <1>16, <1>18 DEF ServesHistory, Sends, client
<1>21. \A d \in Clients : up[d] \in Seq(Commands) /\ down[d] \in Seq(Lines)
  BY <1>1 DEF TypeOK
<1>22. \A d \in Clients : /\ up'[d] = IF d = c THEN Tail(up[d]) ELSE up[d]
                          /\ down'[d] = IF d = c THEN Append(down[d], o) ELSE down[d]
  BY <1>1, <1>20 DEF TypeOK
<1>23. Grows
  <2>1. Ids' = Ids
    BY <1>20 DEF Ids
  <2> QED BY <1>16, <1>20, <2>1 DEF Grows
<1>24. TypeOK'
  <2>1. Tail(up[c]) \in Seq(Commands) /\ Append(down[c], o) \in Seq(Lines)
    BY <1>2, <1>21, TailPlaces, AppendPlaces
  <2>2. up' \in [Clients -> Seq(Commands)] /\ down' \in [Clients -> Seq(Lines)]
    BY <1>1, <1>20, <2>1 DEF TypeOK
  <2> QED BY <1>1, <1>16, <1>17, <1>20, <2>2 DEF TypeOK
<1>25. SaidOK'
  BY <1>1, <1>20 DEF SaidOK, Ids
<1>26. LogOK'
  <2>1. ASSUME NEW u \in Conversations PROVE ChatOf(u, log[u])'
    <3>1. PICK chat : chat = log[u]
      OBVIOUS
    <3>2. ChatOf(u, chat)
      BY <1>1, <3>1 DEF LogOK
    <3>3. ChatOf(u, chat)' /\ log'[u] = chat
      BY <1>20, <1>23, <3>1, <3>2, ChatOfGrows
    <3> QED BY <3>3
  <2>2. ASSUME NEW r \in DOMAIN served'
        PROVE  /\ served'[r].target # served'[r].to /\ Len(served'[r].list) <= MaxHistory
               /\ ChatOf(Between(served[r].to, served[r].target), served[r].list)'
    <3>1. \E chat, u : /\ ChatOf(u, chat) /\ chat = served'[r].list /\ u = Between(served'[r].to, served'[r].target)
                       /\ served'[r].target # served'[r].to /\ Len(chat) <= MaxHistory
      <4>1. CASE r = q
        BY <1>6, <1>7, <1>9, <1>11, <1>16, <4>1
      <4>2. CASE r # q
        BY <1>1, <1>16, <4>2 DEF LogOK
      <4> QED BY <4>1, <4>2
    <3>2. PICK chat, u : /\ ChatOf(u, chat) /\ chat = served'[r].list /\ u = Between(served'[r].to, served'[r].target)
                         /\ served'[r].target # served'[r].to /\ Len(chat) <= MaxHistory
      BY <3>1
    <3>3. ChatOf(u, chat)'
      BY <1>23, <3>2, ChatOfGrows
    <3> QED BY <3>2, <3>3 DEF Between
  <2> QED BY <2>1, <2>2 DEF LogOK
<1>27. WiresOK'
  <2>1. LineOK(c, o)'
    BY <1>11, <1>16, <1>19 DEF LineOK, Said, OfBatch
  <2>2. Range(Tail(up[c])) \subseteq Range(up[c])
    BY <1>2, RangeTaken
  <2>3. \A d \in Clients : \A y \in Range(up'[d]) : y \in Range(up[d]) \/ CommandOK(d, y)'
    BY <1>22, <2>2
  <2>4. Range(Append(down[c], o)) = Range(down[c]) \cup {o}
    BY <1>21, RangeAppended
  <2>5. \A d \in Clients : \A y \in Range(down'[d]) : y \in Range(down[d]) \/ LineOK(d, y)'
    BY <1>22, <2>1, <2>4
  <2> QED BY <1>1, <1>23, <2>3, <2>5, WiresKept
<1>28. HeldOK'
  <2>1. \A d \in Clients : \A b \in batches'[d] :
          OfBatch(d, b.target, b.batch)' \/ \E b0 \in batches[d] : b0.batch = b.batch /\ b0.target = b.target
    BY <1>20
  <2>2. \A d \in Clients : \A u \in Buffers(d) : \A e \in Range(rows'[d][u]) :
          e \in Range(rows[d][u]) \/ (e.id \in Ids' /\ (e.batch # 0 => OfBatch(d, u, e.batch)'))
    BY <1>20
  <2> QED BY <1>1, <1>23, <2>1, <2>2, HeldKept
<1>29. MessagesOK'
  <2>1. ASSUME NEW i \in Ids
        PROVE  Same(LiveAt(up[c], i), LiveAt(Tail(up[c]), i)) /\ Same(LiveAt(down[c], i), LiveAt(Append(down[c], o), i))
    <3>1. ~Live(Head(up[c]), i) /\ ~Live(o, i)
      BY <1>3, <1>4, <1>19 DEF Live, Said
    <3>2. Same(LiveAt(up[c], i), LiveAt(Tail(up[c]), i))
      BY <1>2, <3>1, LiveTaken
    <3>3. LiveAt(Append(down[c], o), i) = LiveAt(down[c], i)
      BY <1>21, <3>1, LiveAppended
    <3> QED BY <3>2, <3>3, SameSame
  <2>2. \A d \in Clients : \A i \in Ids :
          /\ Same(LiveAt(up[d], i), LiveAt(up'[d], i))
          /\ Same(LiveAt(down[d], i), LiveAt(down'[d], i))
          /\ \A u \in Buffers(d) : Same(ShownAt(rows[d][u], i), ShownAt(rows'[d][u], i))
    BY <1>20, <1>22, <2>1, SameSame
  <2> QED BY <1>1, <1>20, <2>2, MessagesKept
<1>30. HistoryOK(q)'
  <2>1. /\ Opens(down[c], q) = {} /\ Tagged(down[c], q) = {} /\ Closes(down[c], q) = {}
        /\ OpenBatches(c, q) = {} /\ At(rows[c][t], q) = {} /\ rows[c][t] \in Seq(Entries)
    BY <1>1, <1>6, <1>13, <1>16, NotYet, RowTypes, BuffersTargets
  <2>2. IsOpen(o, q)
    BY <1>19 DEF IsOpen
  <2>3. Taking(rest, Append(down[c], o), {}, rows[c][t], q, list, 0, 0)
    BY <1>14, <1>21, <2>1, <2>2, TakingBegins
  <2>4. down'[c] = Append(down[c], o) /\ rows'[c][t] = rows[c][t] /\ OpenBatches(c, q)' = {}
    BY <1>20, <1>22, <2>1 DEF OpenBatches
  <2>5. HistoryTaken(q, 0, 0)'
    BY <1>11, <1>16, <1>17, <2>3, <2>4 DEF HistoryTaken
  <2>6. Len(list) \in Nat
    BY LenProperties
  <2>7. 0 \in 0..Len(served'[q].list) /\ 0 \in 0..(Len(served'[q].list) + 1)
    BY <1>11, <1>16, <2>6
  <2> QED BY <2>5, <2>7 DEF HistoryOK
<1>31. HistoriesOK'
  <2>1. ASSUME NEW d \in Clients, NEW r \in DOMAIN served PROVE KeepsWire(down[d], down'[d], r)
    <3>1. Foreign(o, r)
      BY <1>16, <1>19 DEF Foreign, IsOpen, IsTagged, IsClose, Said
    <3>2. KeepsWire(down[c], Append(down[c], o), r)
      BY <1>21, <3>1, ForeignAppended
    <3> QED BY <1>22, <3>2, KeepsSame
  <2>2. \A d \in Clients, r \in DOMAIN served : OpenBatches(d, r)' = OpenBatches(d, r)
    BY <1>20 DEF OpenBatches
  <2>3. \A d \in Clients : \A u \in Buffers(d) : \A r \in DOMAIN served : KeepsShown(rows[d][u], rows'[d][u], r)
    BY <1>20, KeepsSame
  <2>4. \A r \in DOMAIN served : served'[r] = served[r] /\ left'[r] = left[r]
    BY <1>16, <1>17
  <2>5. \A r \in DOMAIN served : r # q => HistoryOK(r)'
    BY <1>1, <2>1, <2>2, <2>3, <2>4, OtherHistories
  <2> QED BY <1>16, <1>30, <2>5 DEF HistoriesOK
<1> QED BY <1>24, <1>25, <1>26, <1>27, <1>28, <1>29, <1>31 DEF IInv

\* A line that a history has left to send is sent: what is known of all but that history.
LEMMA SendsKeeps ==
  ASSUME IInv, NEW q \in DOMAIN served, NEW c \in Clients, c = served[q].to, left[q] # <<>>,
         NEW l \in Lines, LineOK(c, l), \A i \in Ids : ~Live(l, i),
         \A r \in DOMAIN served : r # q => Foreign(l, r),
         left' = [left EXCEPT ![q] = Tail(@)], Sends(c, l),
         UNCHANGED <<said, log, served, up, client>>,
         HistoryOK(q)'
  PROVE  IInv'
<1>1. TypeOK /\ SaidOK /\ LogOK /\ WiresOK /\ HeldOK /\ MessagesOK /\ HistoriesOK
  BY DEF IInv
<1>2. /\ said' = said /\ log' = log /\ served' = served /\ up' = up
      /\ echo' = echo /\ batches' = batches /\ rows' = rows
      /\ down' = [down EXCEPT ![c] = Append(down[c], l)]
  BY DEF client, Sends
<1>3. \A d \in Clients : up[d] \in Seq(Commands) /\ down[d] \in Seq(Lines)
  BY <1>1 DEF TypeOK
<1>4. \A d \in Clients : down'[d] = IF d = c THEN Append(down[d], l) ELSE down[d]
  BY <1>1, <1>2 DEF TypeOK
<1>5. Grows
  BY <1>2, SameGrows
<1>6. /\ left' \in Seq(Seq(Nat)) /\ Len(left') = Len(left)
      /\ \A r \in DOMAIN served : r # q => left'[r] = left[r]
  <2>1. left \in Seq(Seq(Nat)) /\ DOMAIN left = 1..Len(left) /\ q \in DOMAIN left /\ left[q] \in Seq(Nat)
    BY <1>1, HistoryTypes, LenProperties DEF TypeOK
  <2>2. Tail(left[q]) \in Seq(Nat)
    BY <2>1, TailPlaces
  <2>3. left' = [left EXCEPT ![q] = Tail(left[q])]
    OBVIOUS
  <2>4. left' \in Seq(Seq(Nat)) /\ Len(left') = Len(left)
    BY <2>1, <2>2, <2>3, ExceptSeq
  <2>5. \A r \in DOMAIN served : r \in DOMAIN left
    BY <1>1, HistoryTypes
  <2>6. \A r \in DOMAIN served : r # q => left'[r] = left[r]
    BY <2>3, <2>5
  <2> QED BY <2>4, <2>6
<1>7. TypeOK'
  <2>1. Append(down[c], l) \in Seq(Lines)
    BY <1>3, AppendPlaces
  <2>2. down' \in [Clients -> Seq(Lines)]
    BY <1>1, <1>2, <2>1 DEF TypeOK
  <2> QED BY <1>1, <1>2, <1>6, <2>2 DEF TypeOK
<1>8. SaidOK'
  BY <1>1, <1>2 DEF SaidOK, Ids
<1>9. LogOK'
  BY <1>1, <1>2, <1>5, LogKept
<1>10. WiresOK'
  <2>1. LineOK(c, l)'
    BY <1>5, LineGrows
  <2>2. Range(Append(down[c], l)) = Range(down[c]) \cup {l}
    BY <1>3, RangeAppended
  <2>3. \A d \in Clients : \A y \in Range(up'[d]) : y \in Range(up[d]) \/ CommandOK(d, y)'
    BY <1>2
  <2>4. \A d \in Clients : \A y \in Range(down'[d]) : y \in Range(down[d]) \/ LineOK(d, y)'
    BY <1>4, <2>1, <2>2
  <2> QED BY <1>1, <1>5, <2>3, <2>4, WiresKept
<1>11. HeldOK'
  <2>1. \A d \in Clients : \A b \in batches'[d] :
          OfBatch(d, b.target, b.batch)' \/ \E b0 \in batches[d] : b0.batch = b.batch /\ b0.target = b.target
    BY <1>2
  <2>2. \A d \in Clients : \A u \in Buffers(d) : \A e \in Range(rows'[d][u]) :
          e \in Range(rows[d][u]) \/ (e.id \in Ids' /\ (e.batch # 0 => OfBatch(d, u, e.batch)'))
    BY <1>2
  <2> QED BY <1>1, <1>5, <2>1, <2>2, HeldKept
<1>12. MessagesOK'
  <2>1. ASSUME NEW i \in Ids PROVE Same(LiveAt(down[c], i), LiveAt(Append(down[c], l), i))
    <3>1. LiveAt(Append(down[c], l), i) = LiveAt(down[c], i)
      BY <1>3, LiveAppended
    <3> QED BY <3>1, SameSame
  <2>2. \A d \in Clients : \A i \in Ids :
          /\ Same(LiveAt(up[d], i), LiveAt(up'[d], i))
          /\ Same(LiveAt(down[d], i), LiveAt(down'[d], i))
          /\ \A u \in Buffers(d) : Same(ShownAt(rows[d][u], i), ShownAt(rows'[d][u], i))
    BY <1>2, <1>4, <2>1, SameSame
  <2> QED BY <1>1, <1>2, <2>2, MessagesKept
<1>13. HistoriesOK'
  <2>1. ASSUME NEW d \in Clients, NEW r \in DOMAIN served, r # q PROVE KeepsWire(down[d], down'[d], r)
    <3>1. KeepsWire(down[c], Append(down[c], l), r)
      BY <1>3, <2>1, ForeignAppended
    <3> QED BY <1>4, <3>1, KeepsSame
  <2>2. \A d \in Clients, r \in DOMAIN served :
          r # q => KeepsWire(down[d], down'[d], r) /\ OpenBatches(d, r)' = OpenBatches(d, r)
    BY <1>2, <2>1 DEF OpenBatches
  <2>3. \A d \in Clients : \A u \in Buffers(d) : \A r \in DOMAIN served :
          r # q => KeepsShown(rows[d][u], rows'[d][u], r)
    BY <1>2, KeepsSame
  <2>4. \A r \in DOMAIN served : r # q => served'[r] = served[r] /\ left'[r] = left[r]
    BY <1>2, <1>6
  <2>5. \A r \in DOMAIN served : r # q => HistoryOK(r)'
    BY <1>1, <2>2, <2>3, <2>4, OtherHistories
  <2> QED BY <1>2, <2>5 DEF HistoriesOK
<1> QED BY <1>7, <1>8, <1>9, <1>10, <1>11, <1>12, <1>13 DEF IInv

\* What the step did to the history itself.
LEMMA SentTaken ==
  ASSUME TypeOK, NEW q \in DOMAIN served, NEW c \in Clients, c = served[q].to, NEW t \in Buffers(c), t = served[q].target,
         NEW l \in Lines,
         left' = [left EXCEPT ![q] = Tail(@)], Sends(c, l),
         UNCHANGED <<said, log, served, up, client>>,
         NEW n \in 0..Len(served[q].list), NEW sent \in 0..(Len(served[q].list) + 1),
         Taking(Tail(left[q]), Append(down[c], l), OpenBatches(c, q), rows[c][t], q, served[q].list, n, sent)
  PROVE  HistoryOK(q)'
<1>1. served' = served /\ rows' = rows /\ batches' = batches
  BY DEF client
<1>2. down'[c] = Append(down[c], l)
  BY DEF TypeOK, Sends
<1>3. left'[q] = Tail(left[q])
  BY HistoryTypes DEF TypeOK
<1>4. OpenBatches(c, q)' = OpenBatches(c, q)
  BY <1>1 DEF OpenBatches
<1>5. HistoryTaken(q, n, sent)'
  BY <1>1, <1>2, <1>3, <1>4 DEF HistoryTaken
<1> QED BY <1>1, <1>5 DEF HistoryOK

LEMMA SendsBatchedKeeps ==
  ASSUME IInv, NEW q \in DOMAIN served, SendsBatched(q)
  PROVE  IInv'
<1>1. TypeOK /\ SaidOK /\ LogOK /\ HistoriesOK
  BY DEF IInv
<1>2. PICK c \in Clients, t \in Targets, list \in Seq(Nat) : c = served[q].to /\ t = served[q].target /\ list = served[q].list
  BY <1>1, HistoryTypes
<1>3. t # c /\ ChatOf(Between(c, t), list)
  BY <1>1, <1>2 DEF LogOK
<1>4. PICK rest \in Seq(Nat) : rest = left[q]
  BY <1>1, HistoryTypes
<1>5. rest # <<>> /\ Head(rest) # End /\ Head(rest) \in Nat
  BY <1>4, TailPlaces DEF SendsBatched
<1>6. q \in Nat \ {0} /\ Len(list) \in Nat
  BY <1>1, <1>2, HistoryTypes
<1>7. PICK l \in Lines : l = Line("PRIVMSG", Head(rest), q)
  BY <1>5, <1>6 DEF Line, Lines, Said
<1>8. l.cmd = "PRIVMSG" /\ l.id = Head(rest) /\ l.batch = q
  BY <1>7 DEF Line
<1>9. IsTagged(l, q)
  BY <1>8 DEF IsTagged, Said
<1>10. PICK n \in 0..Len(list), sent \in 0..(Len(list) + 1) :
         Taking(rest, down[c], OpenBatches(c, q), rows[c][t], q, list, n, sent)
  BY <1>1, <1>2, <1>4 DEF HistoriesOK, HistoryOK, HistoryTaken
<1>11. Remains(rest, list, sent)
  BY <1>10 DEF Taking
<1>12. PICK k \in Nat : k = sent + 1
  BY <1>6
<1>13. k <= Len(list) /\ l.id = list[k]
  BY <1>5, <1>8, <1>11, <1>12, RemainsSends
<1>14. k \in DOMAIN list
  <2>1. k >= 1
    BY <1>6, <1>12
  <2> QED BY <1>6, <1>13, <2>1, LenProperties
<1>15. PICK x \in Ids : x = l.id /\ said[x].kind = "chat" /\ Between(said[x].from, said[x].target) = Between(c, t)
  BY <1>3, <1>13, <1>14 DEF ChatOf
<1>16. Member(c, x) /\ Conversation(c, x) = t
  BY <1>1, <1>3, <1>15, BetweenSides
<1>17. LineOK(c, l)
  BY <1>2, <1>8, <1>15, <1>16 DEF LineOK
<1>18. down[c] \in Seq(Lines)
  BY <1>1 DEF TypeOK
<1>19. /\ sent + 1 <= Len(list)
       /\ Taking(Tail(rest), Append(down[c], l), OpenBatches(c, q), rows[c][t], q, list, n, sent + 1)
  BY <1>5, <1>8, <1>9, <1>10, <1>18, TakingSends
<1>20. k \in 0..(Len(list) + 1)
  BY <1>6, <1>12, <1>13
<1>21. /\ left' = [left EXCEPT ![q] = Tail(@)] /\ Sends(c, l) /\ UNCHANGED <<said, log, served, up, client>>
  BY <1>2, <1>4, <1>7 DEF SendsBatched
<1>22. HistoryOK(q)'
  <2>1. t \in Buffers(c)
    BY <1>3, BuffersTargets
  <2>2. Taking(Tail(left[q]), Append(down[c], l), OpenBatches(c, q), rows[c][t], q, served[q].list, n, k)
    BY <1>2, <1>4, <1>12, <1>19
  <2>3. n \in 0..Len(served[q].list) /\ k \in 0..(Len(served[q].list) + 1)
    BY <1>2, <1>20
  <2> QED BY <1>1, <1>2, <1>21, <2>1, <2>2, <2>3, SentTaken
<1>23. \A i \in Ids : ~Live(l, i)
  BY <1>6, <1>8 DEF Live
<1>24. \A r \in DOMAIN served : r # q => Foreign(l, r)
  BY <1>8 DEF Foreign, IsOpen, IsTagged, IsClose
<1>25. left[q] # <<>>
  BY <1>4, <1>5
<1> QED BY <1>2, <1>17, <1>21, <1>22, <1>23, <1>24, <1>25, SendsKeeps

LEMMA ClosesBatchKeeps ==
  ASSUME IInv, NEW q \in DOMAIN served, ClosesBatch(q)
  PROVE  IInv'
<1>1. TypeOK /\ SaidOK /\ LogOK /\ HistoriesOK
  BY DEF IInv
<1>2. PICK c \in Clients, t \in Targets, list \in Seq(Nat) : c = served[q].to /\ t = served[q].target /\ list = served[q].list
  BY <1>1, HistoryTypes
<1>3. t # c /\ ChatOf(Between(c, t), list)
  BY <1>1, <1>2 DEF LogOK
<1>4. PICK rest \in Seq(Nat) : rest = left[q]
  BY <1>1, HistoryTypes
<1>5. rest # <<>> /\ Head(rest) = End
  BY <1>4 DEF ClosesBatch
<1>6. q \in Nat \ {0} /\ Len(list) \in Nat
  BY <1>1, <1>2, HistoryTypes
<1>7. PICK l \in Lines : l = [cmd |-> "CLOSE", batch |-> q]
  BY <1>6 DEF Lines
<1>8. l.cmd = "CLOSE" /\ l.batch = q
  BY <1>7
<1>9. IsClose(l, q)
  BY <1>8 DEF IsClose
<1>10. PICK n \in 0..Len(list), sent \in 0..(Len(list) + 1) :
         Taking(rest, down[c], OpenBatches(c, q), rows[c][t], q, list, n, sent)
  BY <1>1, <1>2, <1>4 DEF HistoriesOK, HistoryOK, HistoryTaken
<1>11. \A k \in DOMAIN list : list[k] # End
  BY <1>1, <1>3, SaidTypes DEF ChatOf, End
<1>12. LineOK(c, l)
  BY <1>2, <1>8 DEF LineOK, Said
<1>13. down[c] \in Seq(Lines)
  BY <1>1 DEF TypeOK
<1>14. Taking(Tail(rest), Append(down[c], l), OpenBatches(c, q), rows[c][t], q, list, n, Len(list) + 1)
  BY <1>5, <1>9, <1>10, <1>11, <1>13, TakingEnds
<1>15. PICK k \in 0..(Len(list) + 1) : k = Len(list) + 1
  BY <1>6
<1>16. /\ left' = [left EXCEPT ![q] = Tail(@)] /\ Sends(c, l) /\ UNCHANGED <<said, log, served, up, client>>
  BY <1>2, <1>4, <1>7 DEF ClosesBatch
<1>17. HistoryOK(q)'
  <2>1. t \in Buffers(c)
    BY <1>3, BuffersTargets
  <2>2. Taking(Tail(left[q]), Append(down[c], l), OpenBatches(c, q), rows[c][t], q, served[q].list, n, k)
    BY <1>2, <1>4, <1>14, <1>15
  <2>3. n \in 0..Len(served[q].list) /\ k \in 0..(Len(served[q].list) + 1)
    BY <1>2
  <2> QED BY <1>1, <1>2, <1>16, <2>1, <2>2, <2>3, SentTaken
<1>18. \A i \in Ids : ~Live(l, i)
  BY <1>8 DEF Live, Said
<1>19. \A r \in DOMAIN served : r # q => Foreign(l, r)
  BY <1>8 DEF Foreign, IsOpen, IsTagged, IsClose
<1>20. left[q] # <<>>
  BY <1>4, <1>5
<1> QED BY <1>2, <1>12, <1>16, <1>17, <1>18, <1>19, <1>20, SendsKeeps

\* A line that is heard is off the wire.
LEMMA HeardTypes ==
  ASSUME TypeOK, NEW c \in Clients, NEW cmd, Hears(c, cmd)
  PROVE  /\ down[c] \in Seq(Lines) /\ down[c] # <<>>
         /\ Head(down[c]) \in Lines /\ Head(down[c]).cmd = cmd /\ Head(down[c]) \in Range(down[c])
         /\ down' \in [Clients -> Seq(Lines)]
         /\ \A d \in Clients : down'[d] = IF d = c THEN Tail(down[d]) ELSE down[d]
         /\ \A d \in Clients : Range(down'[d]) \subseteq Range(down[d])
         /\ log' = log /\ served' = served /\ left' = left /\ echo' = echo
<1>1. down[c] \in Seq(Lines) /\ down[c] # <<>>
  BY DEF TypeOK, Hears
<1>2. Head(down[c]) \in Lines /\ Tail(down[c]) \in Seq(Lines)
  BY <1>1, TailPlaces
<1>3. Range(Tail(down[c])) \subseteq Range(down[c]) /\ Head(down[c]) \in Range(down[c])
  BY <1>1, RangeTaken
<1>4. Head(down[c]).cmd = cmd
  BY DEF Hears, line
<1>5. down' = [down EXCEPT ![c] = Tail(down[c])]
  BY DEF Hears
<1>6. down' \in [Clients -> Seq(Lines)]
  BY <1>2, <1>5 DEF TypeOK
<1>7. \A d \in Clients : down'[d] = IF d = c THEN Tail(down[d]) ELSE down[d]
  BY <1>5 DEF TypeOK
<1>8. \A d \in Clients : Range(down'[d]) \subseteq Range(down[d])
  BY <1>3, <1>7
<1>9. log' = log /\ served' = served /\ left' = left /\ echo' = echo
  BY DEF Hears, server
<1> QED BY <1>1, <1>2, <1>3, <1>4, <1>6, <1>7, <1>8, <1>9

\* Each history whose line it is not is carried on as it was.
LEMMA HeardWires ==
  ASSUME TypeOK, NEW c \in Clients, NEW cmd, Hears(c, cmd), NEW q,
         \A r \in DOMAIN served : r # q => Foreign(Head(down[c]), r)
  PROVE  \A d \in Clients, r \in DOMAIN served : r # q => KeepsWire(down[d], down'[d], r)
<1>1. ASSUME NEW d \in Clients, NEW r \in DOMAIN served, r # q PROVE KeepsWire(down[d], down'[d], r)
  <2>1. KeepsWire(down[c], Tail(down[c]), r)
    BY <1>1, HeardTypes, ForeignTaken
  <2> QED BY <2>1, HeardTypes, KeepsSame
<1> QED BY <1>1

\* The same for a message it does not tell live.
LEMMA HeardLive ==
  ASSUME TypeOK, NEW c \in Clients, NEW cmd, Hears(c, cmd)
  PROVE  /\ \A d \in Clients : \A i : d # c \/ ~Live(Head(down[c]), i) => Same(LiveAt(down[d], i), LiveAt(down'[d], i))
         /\ \A i : Single(LiveAt(down[c], i)) /\ Live(Head(down[c]), i) => LiveAt(down'[c], i) = {}
         /\ \A i : Live(Head(down[c]), i) => LiveAt(down[c], i) # {}
<1>1. ASSUME NEW d \in Clients, NEW i, d # c \/ ~Live(Head(down[c]), i)
      PROVE  Same(LiveAt(down[d], i), LiveAt(down'[d], i))
  <2>1. CASE d # c
    BY <2>1, HeardTypes, SameSame
  <2>2. CASE d = c
    <3>1. Same(LiveAt(down[c], i), LiveAt(Tail(down[c]), i))
      BY <1>1, <2>2, HeardTypes, LiveTaken
    <3> QED BY <2>2, <3>1, HeardTypes
  <2> QED BY <2>1, <2>2
<1>2. ASSUME NEW i, Live(Head(down[c]), i)
      PROVE  LiveAt(down[c], i) # {} /\ (Single(LiveAt(down[c], i)) => LiveAt(down'[c], i) = {})
  BY <1>2, HeardTypes, LiveTaken
<1> QED BY <1>1, <1>2

\* A line of a history that nobody says anything on.
LEMMA QuietKeeps ==
  ASSUME IInv, NEW c \in Clients, NEW cmd, Hears(c, cmd), said' = said, up' = up,
         batches' \in [Clients -> SUBSET Batches], rows' = [d \in Clients |-> rows'[d]],
         \A d \in Clients : rows'[d] \in [Buffers(d) -> Seq(Entries)],
         \A i \in Ids : ~Live(Head(down[c]), i),
         \A d \in Clients : \A u \in Buffers(d) : \A i \in Ids : Same(ShownAt(rows[d][u], i), ShownAt(rows'[d][u], i)),
         HeldOK', HistoriesOK'
  PROVE  IInv'
<1>1. TypeOK /\ SaidOK /\ LogOK /\ WiresOK /\ MessagesOK
  BY DEF IInv
<1>2. /\ down' \in [Clients -> Seq(Lines)] /\ log' = log /\ served' = served /\ left' = left /\ echo' = echo
      /\ \A d \in Clients : Range(down'[d]) \subseteq Range(down[d])
  BY <1>1, HeardTypes
<1>3. Grows
  BY <1>2, SameGrows
<1>4. TypeOK'
  BY <1>1, <1>2 DEF TypeOK
<1>5. SaidOK'
  BY <1>1 DEF SaidOK, Ids
<1>6. LogOK'
  BY <1>1, <1>2, <1>3, LogKept
<1>7. WiresOK'
  BY <1>1, <1>2, <1>3, WiresKept
<1>8. MessagesOK'
  <2>1. \A d \in Clients, i \in Ids : Same(LiveAt(down[d], i), LiveAt(down'[d], i))
    BY <1>1, HeardLive
  <2>2. \A d \in Clients : \A i \in Ids :
          /\ Same(LiveAt(up[d], i), LiveAt(up'[d], i))
          /\ Same(LiveAt(down[d], i), LiveAt(down'[d], i))
          /\ \A u \in Buffers(d) : Same(ShownAt(rows[d][u], i), ShownAt(rows'[d][u], i))
    BY <2>1, SameSame
  <2> QED BY <1>1, <1>2, <2>2, MessagesKept
<1> QED BY <1>4, <1>5, <1>6, <1>7, <1>8 DEF IInv

\* What hearing a line did to the history it is of.
LEMMA HeardTaken ==
  ASSUME TypeOK, NEW q \in DOMAIN served, NEW c \in Clients, c = served[q].to, NEW t, t = served[q].target,
         NEW cmd, Hears(c, cmd), NEW list, list = served[q].list,
         NEW n \in 0..Len(list), NEW sent \in 0..(Len(list) + 1),
         Taking(left[q], Tail(down[c]), OpenBatches(c, q)', rows'[c][t], q, list, n, sent)
  PROVE  HistoryOK(q)'
<1>1. served' = served /\ left' = left /\ down'[c] = Tail(down[c])
  BY HeardTypes
<1>2. HistoryTaken(q, n, sent)'
  BY <1>1 DEF HistoryTaken
<1> QED BY <1>1, <1>2 DEF HistoryOK

LEMMA HearsOpenKeeps ==
  ASSUME IInv, NEW c \in Clients, HearsOpen(c)
  PROVE  IInv'
<1>1. TypeOK /\ SaidOK /\ LogOK /\ WiresOK /\ HeldOK /\ HistoriesOK
  BY DEF IInv
<1>2. Hears(c, "OPEN") /\ said' = said /\ up' = up /\ rows' = rows
  BY DEF HearsOpen
<1>3. down[c] \in Seq(Lines) /\ down[c] # <<>> /\ served' = served /\ left' = left
  BY <1>1, <1>2, HeardTypes
<1>4. PICK l \in Lines : l = Head(down[c]) /\ l.cmd = "OPEN" /\ l \in Range(down[c])
  BY <1>1, <1>2, HeardTypes
<1>5. OfBatch(c, l.target, l.batch)
  BY <1>1, <1>4 DEF WiresOK, LineOK
<1>6. PICK q \in DOMAIN served, t \in Targets, list \in Seq(Nat) :
        /\ q = l.batch /\ t = l.target /\ list = served[q].list /\ served[q].to = c /\ served[q].target = t
  BY <1>1, <1>5, HistoryTypes DEF OfBatch
<1>7. q \in Nat \ {0}
  BY <1>1, HistoryTypes
<1>8. PICK b \in Batches : b = [batch |-> q, target |-> t, messages |-> <<>>]
  <2>1. <<>> \in Seq(Nat)
    BY EmptySeq
  <2> QED BY <1>7, <2>1 DEF Batches
<1>9. b.batch = q /\ b.target = t /\ b.messages = <<>>
  BY <1>8
<1>10. batches \in [Clients -> SUBSET Batches]
  BY <1>1 DEF TypeOK
<1>11. batches' = batches \/ batches' = [batches EXCEPT ![c] = @ \cup {b}]
  BY <1>4, <1>6, <1>8 DEF HearsOpen, line
<1>12. batches' \in [Clients -> SUBSET Batches]
  BY <1>10, <1>11
<1>13. /\ \A d \in Clients : d # c => batches'[d] = batches[d]
       /\ batches'[c] = batches[c] \/ batches'[c] = batches[c] \cup {b}
  BY <1>10, <1>11
<1>14. IsOpen(l, q)
  BY <1>4, <1>6 DEF IsOpen
<1>15. PICK open : open = OpenBatches(c, q)
  OBVIOUS
<1>16. PICK n \in 0..Len(list), sent \in 0..(Len(list) + 1) :
         Taking(left[q], down[c], open, rows[c][t], q, list, n, sent)
  BY <1>1, <1>6, <1>15 DEF HistoriesOK, HistoryOK, HistoryTaken
<1>17. IsOpen(Head(down[c]), q)
  BY <1>4, <1>14
<1>18. open = {}
  <2>1. PICK none : none = {}
    OBVIOUS
  <2>2. Single(none) /\ \A b1 \in none : b1.messages = <<>>
    BY <2>1 DEF Single
  <2> QED BY <1>3, <1>16, <1>17, <2>2, TakesOpen, ZenonT(60)
<1>19. PICK open2 : open2 = OpenBatches(c, q)'
  OBVIOUS
<1>20. Single(open2) /\ \A x \in open2 : x.messages = <<>>
  <2>1. \A x \in open2 : x = b
    BY <1>13, <1>15, <1>18, <1>19 DEF OpenBatches
  <2> QED BY <1>9, <2>1 DEF Single
<1>21. Taking(left[q], Tail(down[c]), open2, rows[c][t], q, list, n, sent)
  BY <1>3, <1>20, <1>16, <1>17, TakesOpen, ZenonT(60)
<1>22. HistoryOK(q)'
  BY <1>1, <1>2, <1>6, <1>19, <1>21, HeardTaken
<1>23. \A r \in DOMAIN served : r # q => Foreign(l, r)
  BY <1>4, <1>6 DEF Foreign, IsOpen, IsTagged, IsClose, Said
<1>24. HistoriesOK'
  <2>1. \A d \in Clients, r \in DOMAIN served : r # q => KeepsWire(down[d], down'[d], r)
    BY <1>1, <1>2, <1>4, <1>23, HeardWires
  <2>2. ASSUME NEW d \in Clients, NEW r, r # q PROVE OpenBatches(d, r)' = OpenBatches(d, r)
    BY <1>9, <1>13, <2>2 DEF OpenBatches
  <2>3. \A d \in Clients, r \in DOMAIN served :
          r # q => KeepsWire(down[d], down'[d], r) /\ OpenBatches(d, r)' = OpenBatches(d, r)
    BY <2>1, <2>2
  <2>4. \A d \in Clients : \A u \in Buffers(d) : \A r \in DOMAIN served :
          r # q => KeepsShown(rows[d][u], rows'[d][u], r)
    BY <1>2, KeepsSame
  <2>5. \A r \in DOMAIN served : r # q => served'[r] = served[r] /\ left'[r] = left[r]
    BY <1>3
  <2>6. \A r \in DOMAIN served : r # q => HistoryOK(r)'
    BY <1>1, <2>3, <2>4, <2>5, OtherHistories
  <2> QED BY <1>3, <1>22, <2>6 DEF HistoriesOK
<1>25. HeldOK'
  <2>1. OfBatch(c, b.target, b.batch)'
    BY <1>3, <1>6, <1>9 DEF OfBatch
  <2>2. \A d \in Clients : \A x \in batches'[d] :
          OfBatch(d, x.target, x.batch)' \/ \E b0 \in batches[d] : b0.batch = x.batch /\ b0.target = x.target
    BY <1>13, <2>1
  <2>3. \A d \in Clients : \A u \in Buffers(d) : \A e \in Range(rows'[d][u]) :
          e \in Range(rows[d][u]) \/ (e.id \in Ids' /\ (e.batch # 0 => OfBatch(d, u, e.batch)'))
    BY <1>2
  <2>4. Grows
    BY <1>2, <1>3, SameGrows
  <2> QED BY <1>1, <2>2, <2>3, <2>4, HeldKept
<1>26. \A i \in Ids : ~Live(Head(down[c]), i)
  BY <1>4 DEF Live, Said
<1>27. rows' = [d \in Clients |-> rows'[d]] /\ \A d \in Clients : rows'[d] \in [Buffers(d) -> Seq(Entries)]
  BY <1>1, <1>2 DEF TypeOK
<1>28. \A d \in Clients : \A u \in Buffers(d) : \A i \in Ids : Same(ShownAt(rows[d][u], i), ShownAt(rows'[d][u], i))
  BY <1>2, SameSame
<1> QED BY <1>2, <1>12, <1>24, <1>25, <1>26, <1>27, <1>28, QuietKeeps

LEMMA HearsCloseKeeps ==
  ASSUME IInv, NEW c \in Clients, HearsClose(c)
  PROVE  IInv'
<1>1. TypeOK /\ SaidOK /\ LogOK /\ WiresOK /\ HeldOK /\ HistoriesOK
  BY DEF IInv
<1>2. Hears(c, "CLOSE") /\ said' = said /\ up' = up
  BY DEF HearsClose
<1>3. down[c] \in Seq(Lines) /\ down[c] # <<>> /\ served' = served /\ left' = left
  BY <1>1, <1>2, HeardTypes
<1>4. PICK l \in Lines : l = Head(down[c]) /\ l.cmd = "CLOSE" /\ l \in Range(down[c])
  BY <1>1, <1>2, HeardTypes
<1>5. l.batch \in DOMAIN served /\ served[l.batch].to = c
  BY <1>1, <1>4 DEF WiresOK, LineOK
<1>6. PICK q \in DOMAIN served, t \in Targets, list \in Seq(Nat) :
        /\ q = l.batch /\ list = served[q].list /\ served[q].to = c /\ served[q].target = t
  BY <1>1, <1>5, HistoryTypes
<1>7. q \in Nat \ {0} /\ Len(list) \in Nat
  BY <1>1, <1>6, HistoryTypes
<1>8. t \in Buffers(c) /\ ChatOf(Between(c, t), list)
  BY <1>1, <1>6, BuffersTargets DEF LogOK
<1>9. PICK open : open = OpenBatches(c, q)
  OBVIOUS
<1>10. batches \in [Clients -> SUBSET Batches]
  BY <1>1 DEF TypeOK
<1>11. batches' = [batches EXCEPT ![c] = @ \ open]
  BY <1>4, <1>6, <1>9 DEF HearsClose, line
<1>12. batches' \in [Clients -> SUBSET Batches]
  BY <1>10, <1>11
<1>13. \A d \in Clients : batches'[d] = IF d = c THEN batches[d] \ open ELSE batches[d]
  BY <1>10, <1>11
<1>14. IsClose(l, q)
  BY <1>4, <1>6 DEF IsClose
<1>15. PICK n \in 0..Len(list), sent \in 0..(Len(list) + 1) :
         Taking(left[q], down[c], open, rows[c][t], q, list, n, sent)
  BY <1>1, <1>6, <1>9 DEF HistoriesOK, HistoryOK, HistoryTaken
<1>16. /\ \A b \in open : Len(b.messages) = n /\ \A k \in 1..n : b.messages[k] = list[k]
       /\ Displays(rows[c][t], q, list, IF open = {} THEN n ELSE 0)
  BY <1>15 DEF Taking
<1>17. PICK old \in Seq(Entries) : old = rows[c][t]
  BY <1>1, <1>8, RowTypes
\* What goes to the front of the buffer: the rows of the batch, if it was open.
<1>18. \E more \in Seq(Entries) :
         /\ \A e \in Range(more) : e.batch = q /\ e.id \in Ids
         /\ \A i : ShownAt(more, i) = {}
         /\ Displays(more \o old, q, list, n)
         /\ rows' = [d \in Clients |-> rows'[d]] /\ \A d \in Clients : rows'[d] \in [Buffers(d) -> Seq(Entries)]
         /\ rows'[c][t] = more \o old
         /\ \A d \in Clients : \A u \in Buffers(d) : d # c \/ u # t => rows'[d][u] = rows[d][u]
  <2>1. CASE open = {}
    <3>1. rows' = rows
      BY <1>4, <1>6, <1>9, <2>1 DEF HearsClose, line
    <3>2. PICK more \in Seq(Entries) : more = <<>>
      BY EmptySeq
    <3>3. Range(more) = {}
      BY <3>2 DEF Range
    <3>4. \A i : ShownAt(more, i) = {}
      BY <3>2 DEF ShownAt
    <3>5. more \o old = old
      BY <3>2, EmptySeq, ConcatEmptySeq
    <3>6. Displays(more \o old, q, list, n)
      BY <1>16, <1>17, <2>1, <3>5
    <3>7. rows' = [d \in Clients |-> rows'[d]] /\ \A d \in Clients : rows'[d] \in [Buffers(d) -> Seq(Entries)]
      BY <1>1, <3>1 DEF TypeOK
    <3> QED BY <1>17, <3>1, <3>3, <3>4, <3>5, <3>6, <3>7
  <2>2. CASE open # {}
    <3>1. PICK b \in open : rows' = [rows EXCEPT ![c][b.target] = Rows(b.messages, b.batch) \o @]
      BY <1>4, <1>6, <1>9, <2>2 DEF HearsClose, line
    <3>2. b \in batches[c] /\ b.batch = q
      BY <1>9, <3>1 DEF OpenBatches
    <3>3. b.target = t
      BY <1>1, <1>6, <3>2 DEF HeldOK, OfBatch
    <3>4. PICK messages \in Seq(Nat) : messages = b.messages
      BY <1>10, <3>2 DEF Batches
    <3>5. Len(messages) = n /\ \A k \in 1..n : messages[k] = list[k]
      BY <1>16, <3>1, <3>4
    <3>6. DOMAIN messages = 1..n /\ n \in Nat /\ n <= Len(list)
      BY <1>7, <3>5, LenProperties
    <3>7. \A k \in DOMAIN messages : messages[k] \in Ids /\ messages[k] \in Nat
      <4>1. \A k \in DOMAIN messages : k \in DOMAIN list
        BY <1>7, <3>6, LenProperties
      <4> QED BY <1>1, <1>8, <3>5, <3>6, <4>1, SaidTypes DEF ChatOf
    <3>8. PICK more : more = Rows(messages, q)
      OBVIOUS
    <3>9. DOMAIN more = 1..n /\ \A k \in 1..n : more[k] = Row(messages[k], q)
      BY <3>6, <3>8 DEF Rows
    <3>10. \A k \in 1..n : more[k] \in Entries /\ more[k].batch = q /\ more[k].id \in Ids
      <4>1. ASSUME NEW k \in 1..n PROVE more[k] \in Entries /\ more[k].batch = q /\ more[k].id \in Ids
        <5>1. PICK x \in Ids : x = messages[k] /\ x \in Nat
          BY <3>6, <3>7, <4>1
        <5>2. more[k] = [id |-> x, batch |-> q]
          BY <3>9, <4>1, <5>1 DEF Row
        <5> QED BY <1>7, <5>1, <5>2 DEF Entries
      <4> QED BY <4>1
    <3>11. more \in Seq(Entries)
      <4>1. more = [k \in 1..n |-> Row(messages[k], q)]
        BY <3>6, <3>8 DEF Rows
      <4>2. more \in [1..n -> Entries]
        BY <3>9, <3>10, <4>1
      <4> QED BY <3>6, <4>2, SeqDef
    <3>12. \A e \in Range(more) : e.batch = q /\ e.id \in Ids
      BY <3>9, <3>10 DEF Range
    <3>13. \A i : ShownAt(more, i) = {}
      BY <1>7, <3>8, ShownOfBatch
    <3>14. rows' = [rows EXCEPT ![c][t] = more \o old]
      <4>1. rows' = [rows EXCEPT ![c][t] = more \o rows[c][t]]
        BY <3>1, <3>2, <3>3, <3>4, <3>8
      <4> QED BY <1>17, <4>1
    <3>15. Displays(more \o old, q, list, n)
      <4>1. At(old, q) = {}
        BY <1>16, <1>17, <2>2, DisplaysNone
      <4> QED BY <3>5, <3>6, <3>8, <3>11, <4>1, DisplaysBlock
    <3>16. PICK all \in Seq(Entries) : all = more \o old
      BY <3>11, ConcatProperties
    <3>17. /\ rows' = [d \in Clients |-> rows'[d]] /\ \A d \in Clients : rows'[d] \in [Buffers(d) -> Seq(Entries)]
           /\ rows'[c][t] = all
           /\ \A d \in Clients : \A u \in Buffers(d) : d # c \/ u # t => rows'[d][u] = rows[d][u]
      <4>1. rows' = [rows EXCEPT ![c][t] = all]
        BY <3>14, <3>16
      <4> QED BY <1>1, <1>8, <4>1, FiledAt, ZenonT(60)
    <3> QED BY <3>11, <3>12, <3>13, <3>15, <3>16, <3>17
  <2> QED BY <2>1, <2>2
<1>19. PICK more \in Seq(Entries) :
         /\ \A e \in Range(more) : e.batch = q /\ e.id \in Ids
         /\ \A i : ShownAt(more, i) = {}
         /\ Displays(more \o old, q, list, n)
         /\ rows' = [d \in Clients |-> rows'[d]] /\ \A d \in Clients : rows'[d] \in [Buffers(d) -> Seq(Entries)]
         /\ rows'[c][t] = more \o old
         /\ \A d \in Clients : \A u \in Buffers(d) : d # c \/ u # t => rows'[d][u] = rows[d][u]
  BY <1>18
<1>20. HistoryOK(q)'
  <2>1. Taking(left[q], Tail(down[c]), {}, rows'[c][t], q, list, n, sent)
    <3>1. PICK shown2 : shown2 = rows'[c][t]
      OBVIOUS
    <3>2. n = Len(list) => Displays(shown2, q, list, n)
      BY <1>19, <3>1
    <3>3. Taking(left[q], Tail(down[c]), {}, shown2, q, list, n, sent)
      BY <1>3, <1>4, <1>14, <1>15, <3>2, TakesClose
    <3> QED BY <3>1, <3>3
  <2>2. OpenBatches(c, q)' = {}
    BY <1>9, <1>13 DEF OpenBatches
  <2>3. Taking(left[q], Tail(down[c]), OpenBatches(c, q)', rows'[c][t], q, list, n, sent)
    BY <2>1, <2>2
  <2> QED BY <1>1, <1>2, <1>6, <2>3, HeardTaken
<1>21. \A r \in DOMAIN served : r # q => Foreign(l, r)
  BY <1>4, <1>6 DEF Foreign, IsOpen, IsTagged, IsClose, Said
<1>22. HistoriesOK'
  <2>1. \A d \in Clients, r \in DOMAIN served : r # q => KeepsWire(down[d], down'[d], r)
    BY <1>1, <1>2, <1>4, <1>21, HeardWires
  <2>2. ASSUME NEW d \in Clients, NEW r, r # q PROVE OpenBatches(d, r)' = OpenBatches(d, r)
    BY <1>9, <1>13, <2>2 DEF OpenBatches
  <2>3. \A d \in Clients, r \in DOMAIN served :
          r # q => KeepsWire(down[d], down'[d], r) /\ OpenBatches(d, r)' = OpenBatches(d, r)
    BY <2>1, <2>2
  <2>4. ASSUME NEW d \in Clients, NEW u \in Buffers(d), NEW r \in DOMAIN served, r # q
        PROVE  KeepsShown(rows[d][u], rows'[d][u], r)
    <3>1. \A k \in DOMAIN more : more[k].batch # r
      BY <1>19, <2>4 DEF Range
    <3>2. KeepsShown(old, more \o old, r)
      BY <3>1, ForeignAhead
    <3> QED BY <1>17, <1>19, <3>2, KeepsSame
  <2>5. \A r \in DOMAIN served : r # q => served'[r] = served[r] /\ left'[r] = left[r]
    BY <1>3
  <2>6. \A r \in DOMAIN served : r # q => HistoryOK(r)'
    BY <1>1, <2>3, <2>4, <2>5, OtherHistories
  <2> QED BY <1>3, <1>20, <2>6 DEF HistoriesOK
<1>23. HeldOK'
  <2>1. OfBatch(c, t, q)' /\ Ids' = Ids
    BY <1>2, <1>3, <1>6 DEF OfBatch, Ids
  <2>2. \A d \in Clients : \A x \in batches'[d] :
          OfBatch(d, x.target, x.batch)' \/ \E b0 \in batches[d] : b0.batch = x.batch /\ b0.target = x.target
    BY <1>13
  <2>3. Range(more \o old) = Range(more) \cup Range(old)
    BY RangeJoined
  <2>4. \A d \in Clients : \A u \in Buffers(d) : \A e \in Range(rows'[d][u]) :
          e \in Range(rows[d][u]) \/ (e.id \in Ids' /\ (e.batch # 0 => OfBatch(d, u, e.batch)'))
    BY <1>17, <1>19, <2>1, <2>3
  <2>5. Grows
    BY <1>2, <1>3, SameGrows
  <2> QED BY <1>1, <2>2, <2>4, <2>5, HeldKept
<1>24. \A i \in Ids : ~Live(Head(down[c]), i)
  BY <1>4 DEF Live, Said
<1>25. \A d \in Clients : \A u \in Buffers(d) : \A i \in Ids : Same(ShownAt(rows[d][u], i), ShownAt(rows'[d][u], i))
  <2>1. ASSUME NEW i PROVE Same(ShownAt(old, i), ShownAt(more \o old, i))
    BY <1>19, ShownJoined
  <2> QED BY <1>17, <1>19, <2>1, SameSame
<1> QED BY <1>2, <1>12, <1>19, <1>22, <1>23, <1>24, <1>25, QuietKeeps

LEMMA HearsBatchedKeeps ==
  ASSUME IInv, NEW c \in Clients, HearsBatched(c)
  PROVE  IInv'
<1>1. TypeOK /\ SaidOK /\ LogOK /\ WiresOK /\ HeldOK /\ HistoriesOK
  BY DEF IInv
<1>2. Hears(c, "PRIVMSG") /\ said' = said /\ up' = up /\ rows' = rows
  BY DEF HearsBatched
<1>3. down[c] \in Seq(Lines) /\ down[c] # <<>> /\ served' = served /\ left' = left
  BY <1>1, <1>2, HeardTypes
<1>4. PICK l \in Lines : l = Head(down[c]) /\ l.cmd = "PRIVMSG" /\ l \in Range(down[c])
  BY <1>1, <1>2, HeardTypes
<1>5. PICK open : open = OpenBatches(c, l.batch)
  OBVIOUS
<1>6. open # {}
  BY <1>4, <1>5 DEF HearsBatched, line
<1>7. l.batch \in DOMAIN served /\ served[l.batch].to = c
  <2>1. PICK b \in batches[c] : b.batch = l.batch
    BY <1>5, <1>6 DEF OpenBatches
  <2>2. OfBatch(c, b.target, b.batch)
    BY <1>1, <2>1 DEF HeldOK
  <2> QED BY <2>1, <2>2 DEF OfBatch
<1>8. PICK q \in DOMAIN served, t \in Targets, list \in Seq(Nat) :
        /\ q = l.batch /\ list = served[q].list /\ served[q].to = c /\ served[q].target = t
  BY <1>1, <1>7, HistoryTypes
<1>9. q \in Nat \ {0} /\ Len(list) \in Nat
  BY <1>1, <1>8, HistoryTypes
<1>10. PICK x \in Ids : x = l.id /\ x \in Nat
  BY <1>1, <1>4, SaidTypes DEF WiresOK, LineOK, Said
<1>11. IsTagged(l, q)
  BY <1>4, <1>8 DEF IsTagged, Said
<1>12. IsTagged(Head(down[c]), q)
  BY <1>4, <1>11
<1>13. PICK n \in 0..Len(list), sent \in 0..(Len(list) + 1) :
         Taking(left[q], down[c], open, rows[c][t], q, list, n, sent)
  BY <1>1, <1>5, <1>8 DEF HistoriesOK, HistoryOK, HistoryTaken
<1>14. n + 1 \in 0..Len(list)
  BY <1>3, <1>12, <1>13, TakingNext
<1>15. MaxHistory \in Nat /\ Len(list) <= MaxHistory
  BY <1>1, <1>8, ChatAssumption DEF LogOK
<1>16. n < MaxHistory
  BY <1>9, <1>14, <1>15
<1>17. \A b \in open : Len(b.messages) = n
  BY <1>13 DEF Taking
<1>18. batches \in [Clients -> SUBSET Batches]
  BY <1>1 DEF TypeOK
<1>19. \A b \in batches[c] : b \in open <=> b.batch = q
  BY <1>5, <1>8 DEF OpenBatches
<1>20. batches' = [batches EXCEPT ![c] =
         {IF b.batch = l.batch /\ Len(b.messages) < MaxHistory THEN [b EXCEPT !.messages = Append(@, l.id)] ELSE b : b \in @}]
  BY <1>4 DEF HearsBatched, line
<1>21. PICK now : now = {IF b.batch = q THEN [b EXCEPT !.messages = Append(b.messages, x)] ELSE b : b \in batches[c]}
  OBVIOUS
<1>22. batches' = [batches EXCEPT ![c] = now]
  <2>1. {IF b.batch = l.batch /\ Len(b.messages) < MaxHistory THEN [b EXCEPT !.messages = Append(b.messages, l.id)] ELSE b
          : b \in batches[c]} = now
    BY <1>8, <1>10, <1>16, <1>17, <1>19, <1>21
  <2>2. batches' = [batches EXCEPT ![c] =
          {IF b.batch = l.batch /\ Len(b.messages) < MaxHistory THEN [b EXCEPT !.messages = Append(b.messages, l.id)] ELSE b
            : b \in batches[c]}]
    BY <1>20
  <2> QED BY <2>1, <2>2
<1>23. \A b \in now : \/ b \in batches[c] /\ b.batch # q
                      \/ \E b1 \in open : b = [b1 EXCEPT !.messages = Append(b1.messages, x)]
  BY <1>19, <1>21
<1>24. /\ \A b \in batches[c] : b.batch # q => b \in now
       /\ \A b \in open : [b EXCEPT !.messages = Append(b.messages, x)] \in now
  <2>1. open \subseteq batches[c]
    BY <1>5 DEF OpenBatches
  <2> QED BY <1>19, <1>21, <2>1
\* What becomes of an open batch.
<1>25. ASSUME NEW b \in open, NEW b2, b2 = [b EXCEPT !.messages = Append(b.messages, x)]
       PROVE  /\ b2 \in Batches /\ b2.batch = q /\ b2.target = b.target
              /\ b.messages \in Seq(Nat) /\ b2.messages = Append(b.messages, x)
  <2>1. b \in Batches /\ b.batch = q
    BY <1>5, <1>8, <1>18 DEF OpenBatches
  <2>2. b.messages \in Seq(Nat)
    BY <2>1 DEF Batches
  <2>3. Append(b.messages, x) \in Seq(Nat)
    BY <1>10, <2>2, AppendPlaces
  <2> QED BY <1>25, <2>1, <2>2, <2>3 DEF Batches
<1>26. now \in SUBSET Batches
  BY <1>18, <1>23, <1>25
<1>27. batches' \in [Clients -> SUBSET Batches]
  BY <1>18, <1>22, <1>26
<1>28. \A d \in Clients : batches'[d] = IF d = c THEN now ELSE batches[d]
  BY <1>18, <1>22
<1>29. PICK open2 : open2 = OpenBatches(c, q)'
  OBVIOUS
<1>30. \A b2 \in open2 : \E b \in open : b2 = [b EXCEPT !.messages = Append(b.messages, x)]
  BY <1>23, <1>28, <1>29 DEF OpenBatches
<1>31. open2 # {}
  <2>1. PICK b \in open : TRUE
    BY <1>6
  <2>2. PICK b2 : b2 = [b EXCEPT !.messages = Append(b.messages, x)]
    OBVIOUS
  <2>3. b2 \in now /\ b2.batch = q
    BY <1>24, <1>25, <2>2
  <2> QED BY <1>28, <1>29, <2>3 DEF OpenBatches
<1>32. Single(open2)
  <2>1. Single(open)
    BY <1>13 DEF Taking
  <2> QED BY <1>30, <2>1 DEF Single
<1>33. \A b2 \in open2 : \E b \in open : /\ b.messages \in Seq(Nat)
                                         /\ b2.messages = Append(b.messages, Head(down[c]).id)
  BY <1>4, <1>10, <1>25, <1>30
<1>34. PICK m \in 0..Len(list) : m = n + 1
  BY <1>14
<1>35. Taking(left[q], Tail(down[c]), open2, rows[c][t], q, list, m, sent)
  BY <1>3, <1>4, <1>6, <1>10, <1>12, <1>13, <1>31, <1>32, <1>33, <1>34, TakesBatched
<1>36. HistoryOK(q)'
  BY <1>1, <1>2, <1>8, <1>29, <1>35, HeardTaken
<1>37. \A r \in DOMAIN served : r # q => Foreign(l, r)
  BY <1>4, <1>8 DEF Foreign, IsOpen, IsTagged, IsClose, Said
<1>38. HistoriesOK'
  <2>1. \A d \in Clients, r \in DOMAIN served : r # q => KeepsWire(down[d], down'[d], r)
    BY <1>1, <1>2, <1>4, <1>37, HeardWires
  <2>2. ASSUME NEW d \in Clients, NEW r, r # q PROVE OpenBatches(d, r)' = OpenBatches(d, r)
    <3>1. CASE d # c
      BY <1>28, <3>1 DEF OpenBatches
    <3>2. CASE d = c
      <4>1. \A b \in now : b.batch = r => b \in batches[c]
        BY <1>23, <1>25, <2>2
      <4>2. \A b \in batches[c] : b.batch = r => b \in now
        BY <1>24, <2>2
      <4> QED BY <1>28, <3>2, <4>1, <4>2 DEF OpenBatches
    <3> QED BY <3>1, <3>2
  <2>3. \A d \in Clients, r \in DOMAIN served :
          r # q => KeepsWire(down[d], down'[d], r) /\ OpenBatches(d, r)' = OpenBatches(d, r)
    BY <2>1, <2>2
  <2>4. \A d \in Clients : \A u \in Buffers(d) : \A r \in DOMAIN served :
          r # q => KeepsShown(rows[d][u], rows'[d][u], r)
    BY <1>2, KeepsSame
  <2>5. \A r \in DOMAIN served : r # q => served'[r] = served[r] /\ left'[r] = left[r]
    BY <1>3
  <2>6. \A r \in DOMAIN served : r # q => HistoryOK(r)'
    BY <1>1, <2>3, <2>4, <2>5, OtherHistories
  <2> QED BY <1>3, <1>36, <2>6 DEF HistoriesOK
<1>39. HeldOK'
  <2>1. ASSUME NEW d \in Clients, NEW b2 \in batches'[d]
        PROVE  \E b0 \in batches[d] : b0.batch = b2.batch /\ b0.target = b2.target
    <3>1. CASE b2 \in batches[d]
      BY <3>1
    <3>2. CASE b2 \notin batches[d]
      <4>1. d = c /\ b2 \in now
        BY <1>28, <2>1, <3>2
      <4>2. PICK b \in open : b2 = [b EXCEPT !.messages = Append(b.messages, x)]
        BY <1>23, <3>2, <4>1
      <4>3. b \in batches[c] /\ b.batch = q
        BY <1>5, <1>8 DEF OpenBatches
      <4> QED BY <1>25, <4>1, <4>2, <4>3
    <3> QED BY <3>1, <3>2
  <2>2. \A d \in Clients : \A b \in batches'[d] :
          OfBatch(d, b.target, b.batch)' \/ \E b0 \in batches[d] : b0.batch = b.batch /\ b0.target = b.target
    BY <2>1
  <2>3. \A d \in Clients : \A u \in Buffers(d) : \A e \in Range(rows'[d][u]) :
          e \in Range(rows[d][u]) \/ (e.id \in Ids' /\ (e.batch # 0 => OfBatch(d, u, e.batch)'))
    BY <1>2
  <2>4. Grows
    BY <1>2, <1>3, SameGrows
  <2> QED BY <1>1, <2>2, <2>3, <2>4, HeldKept
<1>40. \A i \in Ids : ~Live(Head(down[c]), i)
  BY <1>4, <1>8, <1>9 DEF Live
<1>41. rows' = [d \in Clients |-> rows'[d]] /\ \A d \in Clients : rows'[d] \in [Buffers(d) -> Seq(Entries)]
  BY <1>1, <1>2 DEF TypeOK
<1>42. \A d \in Clients : \A u \in Buffers(d) : \A i \in Ids : Same(ShownAt(rows[d][u], i), ShownAt(rows'[d][u], i))
  BY <1>2, SameSame
<1> QED BY <1>2, <1>27, <1>38, <1>39, <1>40, <1>41, <1>42, QuietKeeps

LEMMA ConversationBuffer ==
  ASSUME TypeOK, SaidOK, NEW c \in Clients, NEW i \in Ids
  PROVE  Conversation(c, i) \in Buffers(c)
BY SaidTypes DEF Conversation, Buffers, Targets, SaidOK

\* One row more at the end of a buffer.
FiledRow(c, u, row) ==
  /\ rows' = [d \in Clients |-> rows'[d]]
  /\ \A d \in Clients : rows'[d] \in [Buffers(d) -> Seq(Entries)]
  /\ rows'[c][u] = rows[c][u] \o <<row>>
  /\ \A d \in Clients : \A w \in Buffers(d) : d # c \/ w # u => rows'[d][w] = rows[d][w]
  /\ \A e \in Range(rows'[c][u]) : e \in Range(rows[c][u]) \/ e = row
  /\ \A d \in Clients : \A w \in Buffers(d) : \A r \in DOMAIN served :
       r # row.batch => KeepsShown(rows[d][w], rows'[d][w], r)

\* What the buffer is afterwards.
Longer(old, one, new) == new = old \o one

LEMMA RowFiled ==
  ASSUME TypeOK, NEW c \in Clients, NEW u \in Buffers(c), NEW row \in Entries,
         NEW one \in Seq(Entries), DOMAIN one = {1}, one[1] = row,
         NEW new \in Seq(Entries), Longer(rows[c][u], one, new), rows' = [rows EXCEPT ![c][u] = new]
  PROVE  FiledRow(c, u, row)
<1>1. one = <<row>>
  <2>1. PICK other \in Seq(Entries) : other = <<row>>
    <3>1. <<row>> \in Seq(Entries)
      OBVIOUS
    <3> QED BY <3>1
  <2>2. DOMAIN other = {1} /\ other[1] = row
    BY <2>1
  <2>3. one = [k \in {1} |-> one[k]] /\ other = [k \in {1} |-> other[k]]
    BY <2>2
  <2>4. one = other
    BY <2>2, <2>3
  <2> QED BY <2>1, <2>4
<1>2. PICK old \in Seq(Entries) : old = rows[c][u]
  BY RowTypes
<1>3. new = old \o one
  BY <1>2 DEF Longer
<1>4. /\ rows' = [d \in Clients |-> rows'[d]]
      /\ \A d \in Clients : rows'[d] \in [Buffers(d) -> Seq(Entries)]
      /\ rows'[c][u] = new
      /\ \A d \in Clients : \A w \in Buffers(d) : d # c \/ w # u => rows'[d][w] = rows[d][w]
  BY FiledAt, ZenonT(60)
<1>5. Range(new) = Range(old) \cup {row}
  <2>1. Range(one) = {row}
    BY DEF Range
  <2> QED BY <1>3, <2>1, RangeJoined
<1>6. ASSUME NEW d \in Clients, NEW w \in Buffers(d), NEW r \in DOMAIN served, r # row.batch
      PROVE  KeepsShown(rows[d][w], rows'[d][w], r)
  <2>1. \A k \in DOMAIN one : one[k].batch # r
    BY <1>6
  <2>2. KeepsShown(old, new, r)
    BY <1>3, <2>1, ForeignBehind
  <2> QED BY <1>2, <1>4, <2>2, KeepsSame
<1>7. rows'[c][u] = rows[c][u] \o <<row>>
  <2>1. new = rows[c][u] \o <<row>>
    BY <1>1, Zenon DEF Longer
  <2> QED BY <1>4, <2>1
<1> QED BY <1>2, <1>4, <1>5, <1>6, <1>7 DEF FiledRow

\* What it does to the messages shown.
LEMMA RowShown ==
  ASSUME NEW old \in Seq(Entries), NEW row \in Entries
  PROVE  /\ \A i : i # row.id \/ row.batch # 0 => Same(ShownAt(old, i), ShownAt(old \o <<row>>, i))
         /\ ShownAt(old, row.id) = {} /\ row.batch = 0 =>
              Single(ShownAt(old \o <<row>>, row.id)) /\ ShownAt(old \o <<row>>, row.id) # {}
<1>1. PICK one \in Seq(Entries) : one = <<row>>
  <2>1. <<row>> \in Seq(Entries)
    OBVIOUS
  <2> QED BY <2>1
<1>2. PICK x, b : row = Row(x, b) /\ x = row.id /\ b = row.batch
  BY DEF Row, Entries
<1>3. \A i : Single(ShownAt(one, i)) /\ (ShownAt(one, i) # {} <=> x = i /\ b = 0)
  BY <1>1, <1>2, ShownRow
<1>4. ASSUME NEW i, i # x \/ b # 0 PROVE Same(ShownAt(old, i), ShownAt(old \o one, i))
  <2>1. ShownAt(one, i) = {}
    BY <1>3, <1>4
  <2> QED BY <2>1, ShownJoined
<1>5. ASSUME ShownAt(old, x) = {}, b = 0
      PROVE  Single(ShownAt(old \o one, x)) /\ ShownAt(old \o one, x) # {}
  <2>1. Same(ShownAt(one, x), ShownAt(old \o one, x))
    BY <1>5, ShownJoined
  <2> QED BY <1>3, <1>5, <2>1 DEF Same
<1> QED BY <1>1, <1>2, <1>4, <1>5

\* A message told live is taken in: shown, if it is to be, and answered, if it is due.
LEMMA ToldKeeps ==
  ASSUME IInv, NEW c \in Clients, NEW cmd, Hears(c, cmd), NEW x \in Ids, Live(Head(down[c]), x),
         batches' = batches,
         NEW u \in Buffers(c), u = Conversation(c, x),
         said[x].from # c \/ said[x].kind = "chat" => FiledRow(c, u, Row(x, 0)),
         said[x].from = c /\ said[x].kind # "chat" => rows' = rows,
         said' \in Seq(Messages), up' \in [Clients -> Seq(Commands)], Grows, SaidOK', WiresOK',
         \A d \in Clients, i \in Ids : Same(LiveAt(up[d], i), LiveAt(up'[d], i)),
         \A d \in Clients, i \in Ids : i # x \/ d # c => Answers(d, i)' = Answers(d, i),
         Answers(c, x) = {} => Single(Answers(c, x)') /\ (Answers(c, x)' # {} <=> Due(c, x)),
         \A d \in Clients, i \in Ids' : i \notin Ids =>
           /\ Single(LiveAt(up'[said'[i].from], i)) /\ LiveAt(up'[said'[i].from], i) # {}
           /\ said'[i].kind # "chat" /\ Answers(d, i)' = {}
  PROVE  IInv'
<1>1. TypeOK /\ SaidOK /\ LogOK /\ WiresOK /\ HeldOK /\ MessagesOK /\ HistoriesOK
  BY DEF IInv
<1>2. /\ down' \in [Clients -> Seq(Lines)] /\ log' = log /\ served' = served /\ left' = left /\ echo' = echo
      /\ \A d \in Clients : Range(down'[d]) \subseteq Range(down[d])
  BY <1>1, HeardTypes
<1>3. PICK row \in Entries : row = Row(x, 0)
  BY <1>1, SaidTypes DEF Row, Entries
<1>4. row.id = x /\ row.batch = 0
  BY <1>3 DEF Row
<1>5. PICK is \in {0, 1} : is = 1 <=> (said[x].from = c => said[x].kind = "chat")
  OBVIOUS
<1>6. /\ rows' = [d \in Clients |-> rows'[d]]
      /\ \A d \in Clients : rows'[d] \in [Buffers(d) -> Seq(Entries)]
      /\ \A d \in Clients : \A w \in Buffers(d) :
           rows'[d][w] = IF d = c /\ w = u /\ is = 1 THEN rows[d][w] \o <<row>> ELSE rows[d][w]
      /\ \A d \in Clients : \A w \in Buffers(d) : \A e \in Range(rows'[d][w]) :
           e \in Range(rows[d][w]) \/ (d = c /\ w = u /\ e = row)
      /\ \A d \in Clients : \A w \in Buffers(d) : \A r \in DOMAIN served :
           r # row.batch => KeepsShown(rows[d][w], rows'[d][w], r)
  <2>1. CASE is = 1
    <3>1. FiledRow(c, u, row)
      BY <1>3, <1>5, <2>1
    <3> QED BY <2>1, <3>1 DEF FiledRow
  <2>2. CASE is = 0
    <3>1. rows' = rows
      BY <1>5, <2>2
    <3>2. rows' = [d \in Clients |-> rows'[d]] /\ \A d \in Clients : rows'[d] \in [Buffers(d) -> Seq(Entries)]
      BY <1>1, <3>1 DEF TypeOK
    <3> QED BY <2>2, <3>1, <3>2, KeepsSame
  <2> QED BY <2>1, <2>2
<1>7. TypeOK'
  BY <1>1, <1>2, <1>6 DEF TypeOK
<1>8. LogOK'
  BY <1>1, <1>2, LogKept
<1>9. HeldOK'
  <2>1. x \in Ids'
    BY DEF Grows
  <2>2. \A d \in Clients : \A b \in batches'[d] :
          OfBatch(d, b.target, b.batch)' \/ \E b0 \in batches[d] : b0.batch = b.batch /\ b0.target = b.target
    OBVIOUS
  <2>3. \A d \in Clients : \A w \in Buffers(d) : \A e \in Range(rows'[d][w]) :
          e \in Range(rows[d][w]) \/ (e.id \in Ids' /\ (e.batch # 0 => OfBatch(d, w, e.batch)'))
    <3>1. \A d \in Clients : \A w \in Buffers(d) : \A e \in Range(rows'[d][w]) :
            e \in Range(rows[d][w]) \/ (e.id \in Ids' /\ e.batch = 0)
      BY <1>4, <1>6, <2>1
    <3> QED BY <3>1
  <2> QED BY <1>1, <2>2, <2>3, HeldKept
<1>10. HistoriesOK'
  <2>1. PICK q : q = 0
    OBVIOUS
  <2>2. \A r \in DOMAIN served : r # q
    BY <1>1, <2>1, BatchNumbers
  <2>3. \A r \in DOMAIN served : r # q => Foreign(Head(down[c]), r)
    BY <2>1 DEF Live, Foreign, IsOpen, IsTagged, IsClose, Said
  <2>4. \A d \in Clients, r \in DOMAIN served : r # q => KeepsWire(down[d], down'[d], r)
    BY <1>1, <2>3, HeardWires
  <2>5. \A d \in Clients, r \in DOMAIN served :
          r # q => KeepsWire(down[d], down'[d], r) /\ OpenBatches(d, r)' = OpenBatches(d, r)
    BY <2>4 DEF OpenBatches
  <2>6. \A d \in Clients : \A w \in Buffers(d) : \A r \in DOMAIN served :
          r # q => KeepsShown(rows[d][w], rows'[d][w], r)
    BY <1>4, <1>6, <2>1
  <2>7. \A r \in DOMAIN served : r # q => served'[r] = served[r] /\ left'[r] = left[r]
    BY <1>2
  <2>8. \A r \in DOMAIN served : r # q => HistoryOK(r)'
    BY <1>1, <2>5, <2>6, <2>7, OtherHistories
  <2> QED BY <1>2, <2>2, <2>8 DEF HistoriesOK
\* The messages.
<1>11. \A i \in Ids : said'[i] = said[i]
  BY DEF Grows
<1>12. /\ \A d \in Clients, i \in Ids : d # c \/ i # x => Same(LiveAt(down[d], i), LiveAt(down'[d], i))
       /\ Single(LiveAt(down[c], x)) => LiveAt(down'[c], x) = {}
       /\ LiveAt(down[c], x) # {}
  <2>1. \A i : i # x => ~Live(Head(down[c]), i)
    BY DEF Live
  <2> QED BY <1>1, <2>1, HeardLive
<1>13. /\ \A i : i # x => Same(ShownAt(rows[c][u], i), ShownAt(rows[c][u] \o <<row>>, i))
       /\ ShownAt(rows[c][u], x) = {} =>
            Single(ShownAt(rows[c][u] \o <<row>>, x)) /\ ShownAt(rows[c][u] \o <<row>>, x) # {}
  <2>1. rows[c][u] \in Seq(Entries)
    BY <1>1, RowTypes
  <2> QED BY <1>4, <2>1, RowShown
<1>14. ASSUME NEW d \in Clients, NEW i \in Ids PROVE MessageOK(d, i)'
  <2>1. MessageOK(d, i) /\ said[i].from \in Clients
    BY <1>1, SaidTypes DEF MessagesOK
  <2>2. Same(LiveAt(up[said[i].from], i), LiveAt(up'[said[i].from], i))
    BY <2>1
  <2>3. CASE d # c \/ i # x
    <3>1. Same(Answers(d, i), Answers(d, i)')
      <4>1. Answers(d, i)' = Answers(d, i)
        BY <2>3
      <4> QED BY <4>1, SameSame
    <3>2. \A w \in Buffers(d) : Same(ShownAt(rows[d][w], i), ShownAt(rows'[d][w], i))
      BY <1>6, <1>13, <2>3, SameSame
    <3> QED BY <1>2, <1>11, <1>12, <2>1, <2>2, <2>3, <3>1, <3>2, MessageKept
  <2>4. CASE d = c /\ i = x
    <3>1. Single(LiveAt(down[c], x))
      BY <2>1, <2>4 DEF MessageOK
    <3>2. LiveAt(down[d], i) # {} /\ LiveAt(down'[d], i) = {}
      BY <1>12, <2>4, <3>1
    <3>3. ASSUME NEW w \in Buffers(d)
          PROVE  /\ Single(ShownAt(rows[d][w], i)) /\ ShownAt(rows[d][w], i) = {} => Single(ShownAt(rows'[d][w], i))
                 /\ ShownAt(rows[d][w], i) = {} =>
                      (ShownAt(rows'[d][w], i) # {} <=>
                         w = Conversation(d, i) /\ (said[i].from = d => said[i].kind = "chat"))
      <4>1. CASE w = u /\ is = 1
        <5>1. rows'[d][w] = rows[c][u] \o <<row>>
          BY <1>6, <2>4, <4>1
        <5> QED BY <1>13, <1>5, <2>4, <4>1, <5>1
      <4>2. CASE ~(w = u /\ is = 1)
        <5>1. rows'[d][w] = rows[d][w]
          BY <1>6, <2>4, <4>2
        <5> QED BY <1>5, <2>4, <4>2, <5>1
      <4> QED BY <4>1, <4>2
    <3>4. Answers(d, i) = {} => Single(Answers(d, i)') /\ (Answers(d, i)' # {} <=> Due(d, i))
      BY <2>4
    <3> QED BY <1>2, <1>11, <2>1, <2>2, <3>2, <3>3, <3>4, MessageTaken
  <2> QED BY <2>3, <2>4
<1>15. ASSUME NEW d \in Clients, NEW i \in Ids', i \notin Ids PROVE MessageOK(d, i)'
  <2>1. LiveAt(down[d], i) = {} /\ \A w \in Buffers(d) : ShownAt(rows[d][w], i) = {}
    BY <1>1, <1>15, Unheard
  <2>2. i # x
    BY <1>15
  <2>3. LiveAt(down'[d], i) = {}
    <3>1. ~Live(Head(down[c]), i)
      BY <2>2 DEF Live
    <3>2. Same(LiveAt(down[d], i), LiveAt(down'[d], i))
      BY <1>1, <3>1, HeardLive
    <3> QED BY <2>1, <3>2 DEF Same
  <2>4. ASSUME NEW w \in Buffers(d) PROVE ShownAt(rows'[d][w], i) = {}
    <3>1. ShownAt(rows[d][w], i) = {}
      BY <2>1
    <3>2. CASE d = c /\ w = u /\ is = 1
      <4>1. Same(ShownAt(rows[d][w], i), ShownAt(rows[d][w] \o <<row>>, i))
        BY <1>13, <2>2, <3>2
      <4>2. rows'[d][w] = rows[d][w] \o <<row>>
        BY <1>6, <3>2
      <4> QED BY <3>1, <4>1, <4>2 DEF Same
    <3>3. CASE ~(d = c /\ w = u /\ is = 1)
      <4>1. rows'[d][w] = rows[d][w]
        BY <1>6, <3>3
      <4> QED BY <3>1, <4>1
    <3> QED BY <3>2, <3>3
  <2>5. ~AtOnce(d, i)'
    BY <1>15 DEF AtOnce
  <2>6. Single({})
    BY DEF Single
  <2>7. \A w \in Buffers(d) :
          /\ Single(ShownAt(rows'[d][w], i))
          /\ ShownAt(rows'[d][w], i) # {} <=> w = Conversation(d, i)' /\ AtOnce(d, i)'
    BY <2>4, <2>5, <2>6
  <2>8. /\ Single(LiveAt(up'[said'[i].from], i)) /\ LiveAt(up'[said'[i].from], i) # {}
        /\ Answers(d, i)' = {}
    BY <1>15
  <2> QED BY <2>3, <2>7, <2>8, MessageSaid
<1>16. ASSUME NEW v \in Conversations, NEW i \in Range(log'[v]) PROVE Relayed(i)'
  <2>1. i \in Ids /\ Relayed(i)
    BY <1>1, <1>2, <1>16 DEF LogOK, ChatOf, MessagesOK, Range
  <2>2. said'[i] = said[i] /\ said[i].from \in Clients
    BY <1>1, <1>11, <2>1, SaidTypes
  <2>3. Same(LiveAt(up[said[i].from], i), LiveAt(up'[said[i].from], i))
    BY <2>1, <2>2
  <2> QED BY <2>1, <2>2, <2>3 DEF Relayed, Same
<1>17. MessagesOK'
  BY <1>14, <1>15, <1>16 DEF MessagesOK
<1> QED BY <1>7, <1>8, <1>9, <1>10, <1>17 DEF IInv

LEMMA FilesRow ==
  ASSUME TypeOK, NEW c \in Clients, NEW u \in Buffers(c), NEW row \in Entries, File(c, u, <<row>>)
  PROVE  FiledRow(c, u, row)
<1>1. PICK one \in Seq(Entries) : one = <<row>>
  <2>1. <<row>> \in Seq(Entries)
    OBVIOUS
  <2> QED BY <2>1
<1>2. DOMAIN one = {1} /\ one[1] = row
  BY <1>1
<1>3. PICK new \in Seq(Entries) : new = rows[c][u] \o one
  <2>1. rows[c][u] \in Seq(Entries)
    BY RowTypes
  <2> QED BY <2>1, ConcatProperties
<1>4. rows' = [rows EXCEPT ![c][u] = new]
  BY <1>1, <1>3 DEF File
<1>5. Longer(rows[c][u], one, new)
  BY <1>3 DEF Longer
<1> QED BY <1>2, <1>4, <1>5, RowFiled

\* A line told live that nothing is said on: what a client says and has said stays.
LEMMA SilentKeeps ==
  ASSUME IInv, NEW c \in Clients, NEW cmd, Hears(c, cmd), NEW x \in Ids, Live(Head(down[c]), x),
         batches' = batches, said' = said, up' = up, ~Due(c, x),
         NEW u \in Buffers(c), u = Conversation(c, x),
         said[x].from # c \/ said[x].kind = "chat" => FiledRow(c, u, Row(x, 0)),
         said[x].from = c /\ said[x].kind # "chat" => rows' = rows
  PROVE  IInv'
<1>1. TypeOK /\ SaidOK /\ WiresOK
  BY DEF IInv
<1>2. Grows /\ \A d \in Clients : Range(down'[d]) \subseteq Range(down[d])
  BY <1>1, HeardTypes, SameGrows
<1>3. said' \in Seq(Messages) /\ up' \in [Clients -> Seq(Commands)] /\ Ids' = Ids
  BY <1>1 DEF TypeOK, Ids
<1>4. SaidOK'
  BY <1>1 DEF SaidOK, Ids
<1>5. WiresOK'
  BY <1>1, <1>2, WiresKept
<1>6. \A d \in Clients, i \in Ids : Same(LiveAt(up[d], i), LiveAt(up'[d], i))
  BY SameSame
<1>7. \A d \in Clients, i \in Ids : Answers(d, i)' = Answers(d, i)
  BY DEF Answers, Ids
<1>8. Answers(c, x) = {} => Single(Answers(c, x)') /\ (Answers(c, x)' # {} <=> Due(c, x))
  <2>1. Single({})
    BY DEF Single
  <2> QED BY <1>7, <2>1
<1>9. \A d \in Clients, i \in Ids' : i \notin Ids =>
        /\ Single(LiveAt(up'[said'[i].from], i)) /\ LiveAt(up'[said'[i].from], i) # {}
        /\ said'[i].kind # "chat" /\ Answers(d, i)' = {}
  BY <1>3
<1>10. \A d \in Clients, i \in Ids : i # x \/ d # c => Answers(d, i)' = Answers(d, i)
  BY <1>7
<1> QED BY <1>2, <1>3, <1>4, <1>5, <1>6, <1>8, <1>9, <1>10, ToldKeeps

\* A line of a batch that was one too many is filed as it comes.
LEMMA LooseKeeps ==
  ASSUME IInv, NEW c \in Clients, NEW cmd \in Said, Hears(c, cmd), NEW q \in DOMAIN served,
         NEW l \in Lines, l = Head(down[c]), IsTagged(l, q), OpenBatches(c, q) = {},
         NEW t \in Buffers(c), served[q].to = c, served[q].target = t, l.id \in Ids,
         NEW row \in Entries, row = Row(l.id, q), FiledRow(c, t, row),
         said' = said, up' = up, batches' = batches
  PROVE  IInv'
<1>1. TypeOK /\ SaidOK /\ LogOK /\ WiresOK /\ HeldOK /\ HistoriesOK
  BY DEF IInv
<1>2. down[c] \in Seq(Lines) /\ down[c] # <<>> /\ served' = served /\ left' = left /\ l.cmd = cmd /\ l.batch = q
  BY <1>1, HeardTypes DEF IsTagged
<1>3. PICK list \in Seq(Nat) : list = served[q].list
  BY <1>1, HistoryTypes
<1>4. q \in Nat \ {0}
  BY <1>1, HistoryTypes
<1>5. row.id = l.id /\ row.batch = q
  BY DEF Row
<1>6. IsTagged(Head(down[c]), q)
  OBVIOUS
<1>7. PICK n \in 0..Len(list), sent \in 0..(Len(list) + 1) :
        Taking(left[q], down[c], OpenBatches(c, q), rows[c][t], q, list, n, sent)
  BY <1>1, <1>3 DEF HistoriesOK, HistoryOK, HistoryTaken
<1>8. PICK old \in Seq(Entries) : old = rows[c][t]
  BY <1>1, RowTypes
<1>9. Taking(left[q], down[c], {}, old, q, list, n, sent)
  BY <1>7, <1>8
<1>10. n + 1 \in 0..Len(list) /\ Taking(left[q], Tail(down[c]), {}, old \o <<row>>, q, list, n + 1, sent)
  <2>1. row.id = Head(down[c]).id /\ row.batch = q /\ down[c] \in Seq(Lines) /\ down[c] # <<>>
    BY <1>2, <1>5
  <2> QED BY <1>6, <1>9, <2>1, TakesLoose, ZenonT(60)
<1>11. PICK m \in 0..Len(list) : m = n + 1
  BY <1>10
<1>12. HistoryOK(q)'
  <2>1. OpenBatches(c, q)' = {} /\ rows'[c][t] = old \o <<row>>
    BY <1>8 DEF OpenBatches, FiledRow
  <2>2. Taking(left[q], Tail(down[c]), OpenBatches(c, q)', rows'[c][t], q, list, m, sent)
    BY <1>10, <1>11, <2>1
  <2> QED BY <1>1, <1>3, <2>2, HeardTaken
<1>13. HistoriesOK'
  <2>1. \A r \in DOMAIN served : r # q => Foreign(Head(down[c]), r)
    BY <1>2 DEF Foreign, IsOpen, IsTagged, IsClose, Said
  <2>2. \A d \in Clients, r \in DOMAIN served : r # q => KeepsWire(down[d], down'[d], r)
    BY <1>1, <2>1, HeardWires
  <2>3. \A d \in Clients, r \in DOMAIN served :
          r # q => KeepsWire(down[d], down'[d], r) /\ OpenBatches(d, r)' = OpenBatches(d, r)
    BY <2>2 DEF OpenBatches
  <2>4. \A d \in Clients : \A u \in Buffers(d) : \A r \in DOMAIN served :
          r # q => KeepsShown(rows[d][u], rows'[d][u], r)
    BY <1>5 DEF FiledRow
  <2>5. \A r \in DOMAIN served : r # q => served'[r] = served[r] /\ left'[r] = left[r]
    BY <1>2
  <2>6. \A r \in DOMAIN served : r # q => HistoryOK(r)'
    BY <1>1, <2>3, <2>4, <2>5, OtherHistories
  <2> QED BY <1>2, <1>12, <2>6 DEF HistoriesOK
<1>14. HeldOK'
  <2>1. \A d \in Clients : \A b \in batches'[d] :
          OfBatch(d, b.target, b.batch)' \/ \E b0 \in batches[d] : b0.batch = b.batch /\ b0.target = b.target
    OBVIOUS
  <2>2. OfBatch(c, t, q)' /\ Ids' = Ids
    BY <1>2 DEF OfBatch, Ids
  <2>3. ASSUME NEW d \in Clients, NEW u \in Buffers(d), NEW e \in Range(rows'[d][u])
        PROVE  e \in Range(rows[d][u]) \/ (d = c /\ u = t /\ e = row)
    <3>1. CASE d = c /\ u = t
      BY <3>1 DEF FiledRow
    <3>2. CASE ~(d = c /\ u = t)
      <4>1. rows'[d][u] = rows[d][u]
        BY <3>2 DEF FiledRow
      <4> QED BY <4>1
    <3> QED BY <3>1, <3>2
  <2>4. \A d \in Clients : \A u \in Buffers(d) : \A e \in Range(rows'[d][u]) :
          e \in Range(rows[d][u]) \/ (e.id \in Ids' /\ (e.batch # 0 => OfBatch(d, u, e.batch)'))
    BY <1>5, <2>2, <2>3
  <2>5. Grows
    BY <1>2, SameGrows
  <2> QED BY <1>1, <2>1, <2>4, <2>5, HeldKept
<1>15. \A i \in Ids : ~Live(Head(down[c]), i)
  BY <1>2, <1>4 DEF Live
<1>16. \A d \in Clients : \A u \in Buffers(d) : \A i \in Ids : Same(ShownAt(rows[d][u], i), ShownAt(rows'[d][u], i))
  <2>1. ASSUME NEW i PROVE Same(ShownAt(old, i), ShownAt(old \o <<row>>, i))
    BY <1>4, <1>5, RowShown
  <2> QED BY <1>8, <2>1, SameSame DEF FiledRow
<1>17. rows' = [d \in Clients |-> rows'[d]] /\ \A d \in Clients : rows'[d] \in [Buffers(d) -> Seq(Entries)]
  BY DEF FiledRow
<1>18. batches' \in [Clients -> SUBSET Batches]
  BY <1>1 DEF TypeOK
<1> QED BY <1>13, <1>14, <1>15, <1>16, <1>17, <1>18, QuietKeeps

LEMMA HearsChatKeeps ==
  ASSUME IInv, NEW c \in Clients, HearsChat(c)
  PROVE  IInv'
<1>1. TypeOK /\ SaidOK /\ WiresOK
  BY DEF IInv
<1>2. PICK cmd \in Said : cmd = "PRIVMSG"
  BY DEF Said
<1>3. Hears(c, cmd) /\ said' = said /\ up' = up /\ batches' = batches
  BY <1>2 DEF HearsChat
<1>4. PICK l \in Lines : l = Head(down[c]) /\ l.cmd = cmd /\ l \in Range(down[c])
  BY <1>1, <1>3, HeardTypes
<1>5. LineOK(c, l)
  BY <1>1, <1>4 DEF WiresOK
<1>6. PICK x \in Ids : x = l.id
  BY <1>4, <1>5 DEF LineOK
<1>7. x \in Nat /\ l.batch \in Nat
  BY <1>1, <1>4, SaidTypes DEF Lines, Said
<1>8. OpenBatches(c, l.batch) = {} /\ said[x].kind = "chat"
  BY <1>4, <1>6 DEF HearsChat, line
<1>9. PICK u \in Buffers(c) : u = Conversation(c, x)
  BY <1>1, ConversationBuffer
<1>10. PICK row \in Entries : row = Row(x, l.batch)
  BY <1>7 DEF Row, Entries
<1>11. File(c, u, <<row>>)
  BY <1>4, <1>6, <1>9, <1>10 DEF HearsChat, line
<1>12. FiledRow(c, u, row)
  BY <1>1, <1>11, FilesRow
<1>13. CASE l.batch = 0
  <2>1. Live(Head(down[c]), x)
    BY <1>4, <1>6, <1>13 DEF Live
  <2>2. ~Due(c, x)
    BY <1>8 DEF Due
  <2>3. FiledRow(c, u, Row(x, 0))
    BY <1>10, <1>12, <1>13
  <2> QED BY <1>3, <1>8, <1>9, <2>1, <2>2, <2>3, SilentKeeps
<1>14. CASE l.batch # 0
  <2>1. PICK q \in DOMAIN served : q = l.batch /\ served[q].to = c /\ served[q].target = u
    BY <1>4, <1>5, <1>6, <1>9, <1>14 DEF LineOK
  <2>2. IsTagged(l, q)
    BY <1>4, <2>1 DEF IsTagged
  <2> QED BY <1>3, <1>4, <1>6, <1>8, <1>10, <1>12, <2>1, <2>2, LooseKeeps
<1> QED BY <1>13, <1>14

\* A request of another is answered, once.
LEMMA AnswerKeeps ==
  ASSUME IInv, NEW c \in Clients, NEW heard, Hears(c, heard), NEW x \in Ids, Live(Head(down[c]), x),
         batches' = batches, said[x].kind = "request", said[x].from # c, Due(c, x),
         NEW u \in Buffers(c), u = Conversation(c, x), FiledRow(c, u, Row(x, 0)), Reply(c, x)
  PROVE  IInv'
<1>1. TypeOK /\ SaidOK /\ WiresOK /\ HeldOK
  BY DEF IInv
<1>2. PICK n \in Nat : n = 1
  OBVIOUS
<1>3. x \in Nat \ {0} /\ x <= Len(said) /\ Len(said) \in Nat /\ said[x].from \in Clients
  BY <1>1, SaidTypes
<1>4. PICK m \in Messages : m = [from |-> c, target |-> said[x].from, kind |-> "reply", re |-> x]
  BY <1>3 DEF Messages, Targets
<1>5. m.from = c /\ m.target = said[x].from /\ m.kind = "reply" /\ m.re = x
  BY <1>4
<1>6. PICK more \in Seq(Messages) : more = [i \in 1..n |-> m]
  <2>1. [i \in 1..n |-> m] \in [1..n -> Messages]
    OBVIOUS
  <2>2. [i \in 1..n |-> m] \in Seq(Messages)
    BY <2>1
  <2> QED BY <2>2
<1>7. DOMAIN more = 1..n /\ \A k \in DOMAIN more : more[k] = m
  BY <1>6
<1>8. said' = said \o more
  BY <1>2, <1>4, <1>6 DEF Reply, Record
<1>9. PICK cmd \in Said : cmd = "NOTICE"
  BY DEF Said
<1>10. PICK list \in Seq(Commands) :
         /\ list = [i \in DOMAIN Fresh(n) |-> Line(cmd, Fresh(n)[i], 0)]
         /\ DOMAIN list = 1..n /\ \A k \in 1..n : list[k] = Line(cmd, Len(said) + k, 0)
  BY <1>1, FreshLines
<1>11. up' = [up EXCEPT ![m.from] = @ \o list]
  BY <1>2, <1>5, <1>9, <1>10 DEF Reply, Writes
<1>12. DOMAIN list = DOMAIN more /\ \A k \in DOMAIN list : list[k] = Line(cmd, Len(said) + k, 0)
  BY <1>7, <1>10
<1>13. served' = served /\ \A d \in Clients : Range(down'[d]) \subseteq Range(down[d])
  BY <1>1, HeardTypes
<1>14. /\ said' \in Seq(Messages) /\ Len(said') = Len(said) + Len(more)
       /\ Ids \subseteq Ids' /\ \A i \in Ids : said'[i] = said[i]
       /\ \A k \in DOMAIN more : /\ Len(said) + k \in Ids' /\ Len(said) + k \notin Ids
                          /\ said'[Len(said) + k] = m
       /\ \A i \in Ids' : i \notin Ids => \E k \in DOMAIN more : i = Len(said) + k
  BY <1>1, <1>7, <1>8, Recorded
<1>15. Grows
  BY <1>1, <1>7, <1>8, <1>13, SaysGrows
<1>16. SaidOK'
  <2>1. m.target # m.from /\ m.re <= Len(said) /\ m.kind = "reply"
    BY <1>3, <1>5
  <2> QED BY <1>1, <1>7, <1>8, <2>1, RecordedSaidOK
<1>17. WiresOK' /\ up' \in [Clients -> Seq(Commands)]
  <2>1. cmd = "NOTICE" <=> m.kind = "reply"
    BY <1>5, <1>9
  <2> QED BY <1>1, <1>7, <1>8, <1>11, <1>12, <1>13, <1>15, <2>1, WritesWires, ZenonT(60)
<1>18. /\ \A d \in Clients, i \in Ids : Same(LiveAt(up[d], i), LiveAt(up'[d], i))
       /\ \A i \in Ids' : i \notin Ids => Single(LiveAt(up'[m.from], i)) /\ LiveAt(up'[m.from], i) # {}
       /\ \A d \in Clients, i \in Ids' : i \notin Ids => Answers(d, i)' = {}
       /\ \A d \in Clients, i \in Ids : i # m.re \/ d # m.from => Answers(d, i)' = Answers(d, i)
  <2>1. m.re <= Len(said)
    BY <1>3, <1>5
  <2> QED BY <1>1, <1>7, <1>8, <1>11, <1>12, <2>1, Spreads, ZenonT(60)
\* The new number, and the message that has it.
<1>19. PICK new \in Ids' : /\ new \notin Ids /\ said'[new] = m
                           /\ \A i \in Ids' : i \notin Ids => i = new
  <2>1. DOMAIN more = {1}
    BY <1>2, <1>7
  <2> QED BY <1>14, <2>1
<1>20. \A d \in Clients, i \in Ids' : i \notin Ids =>
         /\ Single(LiveAt(up'[said'[i].from], i)) /\ LiveAt(up'[said'[i].from], i) # {}
         /\ said'[i].kind # "chat" /\ Answers(d, i)' = {}
  BY <1>5, <1>18, <1>19
<1>21. \A d \in Clients, i \in Ids : i # x \/ d # c => Answers(d, i)' = Answers(d, i)
  BY <1>5, <1>18
<1>22. Answers(c, x) = {} => Single(Answers(c, x)') /\ (Answers(c, x)' # {} <=> Due(c, x))
  <2>1. ASSUME Answers(c, x) = {} PROVE Answers(c, x)' = {new}
    <3>1. \A k \in Ids : ~(said'[k].from = c /\ said'[k].re = x)
      BY <1>14, <2>1 DEF Answers
    <3>2. said'[new].from = c /\ said'[new].re = x
      BY <1>5, <1>19
    <3> QED BY <1>19, <3>1, <3>2 DEF Answers
  <2>2. Single({new})
    BY DEF Single
  <2> QED BY <2>1, <2>2
<1>23. said[x].from # c \/ said[x].kind = "chat" => FiledRow(c, u, Row(x, 0))
  OBVIOUS
<1>24. said[x].from = c /\ said[x].kind # "chat" => rows' = rows
  OBVIOUS
<1>25. said' \in Seq(Messages)
  BY <1>14
<1> QED BY <1>15, <1>16, <1>17, <1>18, <1>20, <1>21, <1>22, <1>23, <1>24, <1>25, ToldKeeps

LEMMA HearsCtcpKeeps ==
  ASSUME IInv, NEW c \in Clients, NEW cmd \in Said, HearsCtcp(c, cmd)
  PROVE  IInv'
<1>1. TypeOK /\ SaidOK /\ WiresOK
  BY DEF IInv
<1>2. Hears(c, cmd) /\ batches' = batches
  BY DEF HearsCtcp
<1>3. PICK l \in Lines : l = Head(down[c]) /\ l.cmd = cmd /\ l \in Range(down[c])
  BY <1>1, <1>2, HeardTypes
<1>4. LineOK(c, l)
  BY <1>1, <1>3 DEF WiresOK
<1>5. PICK x \in Ids : x = l.id /\ Member(c, x) /\ (cmd = "NOTICE" <=> said[x].kind = "reply")
  BY <1>3, <1>4 DEF LineOK
<1>6. said[x].kind # "chat"
  BY <1>3, <1>5 DEF HearsCtcp, line
<1>7. l.batch = 0
  BY <1>3, <1>4, <1>5, <1>6 DEF LineOK
<1>8. Live(Head(down[c]), x)
  BY <1>3, <1>5, <1>7 DEF Live
<1>9. PICK u \in Buffers(c) : u = Conversation(c, x)
  BY <1>1, ConversationBuffer
<1>10. PICK row \in Entries : row = Row(x, 0)
  BY <1>1, SaidTypes DEF Row, Entries
<1>11. CASE said[x].from = c
  <2>1. said' = said /\ up' = up /\ rows' = rows
    BY <1>3, <1>5, <1>11 DEF HearsCtcp, line
  <2>2. ~Due(c, x)
    BY <1>11 DEF Due
  <2> QED BY <1>2, <1>6, <1>8, <1>9, <1>11, <2>1, <2>2, SilentKeeps
<1>12. CASE said[x].from # c
  <2>1. /\ File(c, u, <<row>>)
        /\ IF cmd = "NOTICE" THEN said' = said /\ up' = up ELSE Reply(c, x)
    BY <1>3, <1>5, <1>9, <1>10, <1>12 DEF HearsCtcp, line
  <2>2. FiledRow(c, u, Row(x, 0))
    BY <1>1, <1>10, <2>1, FilesRow
  <2>3. CASE cmd = "NOTICE"
    <3>1. ~Due(c, x)
      BY <1>5, <2>3 DEF Due
    <3> QED BY <1>2, <1>8, <1>9, <1>12, <2>1, <2>2, <2>3, <3>1, SilentKeeps
  <2>4. CASE cmd # "NOTICE"
    <3>1. said[x].kind = "request"
      BY <1>1, <1>5, <1>6, <2>4, SaidTypes
    <3>2. Due(c, x)
      BY <1>5, <1>12, <3>1 DEF Due
    <3> QED BY <1>2, <1>8, <1>9, <1>12, <2>1, <2>2, <2>4, <3>1, <3>2, AnswerKeeps
  <2> QED BY <2>3, <2>4
<1> QED BY <1>11, <1>12

-----------------------------------------------------------------------------
(* The invariant *)

LEMMA InitInvariant == Init => IInv
<1> SUFFICES ASSUME Init PROVE IInv
  OBVIOUS
<1>1. /\ said = <<>> /\ log = [v \in Conversations |-> <<>>] /\ served = <<>> /\ left = <<>>
      /\ up = [c \in Clients |-> <<>>] /\ down = [c \in Clients |-> <<>>]
      /\ batches = [c \in Clients |-> {}]
      /\ rows = [c \in Clients |-> [t \in Buffers(c) |-> <<>>]]
  BY DEF Init
<1>2. Ids = {} /\ DOMAIN served = {} /\ DOMAIN left = {}
  BY <1>1 DEF Ids
<1>3. TypeOK
  <2>1. echo \in [Clients -> BOOLEAN]
    <3>1. PICK e \in Echoing : echo = [c \in Clients |-> c \in e]
      BY DEF Init
    <3>2. \A c \in Clients : (c \in e) \in BOOLEAN
      OBVIOUS
    <3> QED BY <3>1, <3>2, Zenon
  <2>2. rows = [c \in Clients |-> rows[c]] /\ \A c \in Clients : rows[c] \in [Buffers(c) -> Seq(Entries)]
    BY <1>1
  <2>3. Len(left) = Len(served)
    BY <1>1
  <2>4. /\ said \in Seq(Messages) /\ log \in [Conversations -> Seq(Nat)]
        /\ served \in Seq(Histories) /\ left \in Seq(Seq(Nat))
    BY <1>1
  <2>5. up \in [Clients -> Seq(Commands)] /\ down \in [Clients -> Seq(Lines)]
    BY <1>1
  <2>6. batches \in [Clients -> SUBSET Batches]
    BY <1>1
  <2> QED BY <2>1, <2>2, <2>3, <2>4, <2>5, <2>6 DEF TypeOK
<1>4. SaidOK
  BY <1>2 DEF SaidOK
<1>5. LogOK
  <2>1. \A v \in Conversations : ChatOf(v, log[v])
    BY <1>1 DEF ChatOf
  <2> QED BY <1>2, <2>1 DEF LogOK
<1>6. \A c \in Clients : /\ Range(up[c]) = {} /\ Range(down[c]) = {} /\ batches[c] = {}
                         /\ \A t \in Buffers(c) : Range(rows[c][t]) = {}
  BY <1>1 DEF Range
<1>7. WiresOK /\ HeldOK
  BY <1>6 DEF WiresOK, HeldOK
<1>8. MessagesOK
  <2>1. \A v \in Conversations : Range(log[v]) = {}
    BY <1>1 DEF Range
  <2> QED BY <1>2, <2>1 DEF MessagesOK
<1>9. HistoriesOK
  BY <1>2 DEF HistoriesOK
<1> QED BY <1>3, <1>4, <1>5, <1>7, <1>8, <1>9 DEF IInv

LEMMA StutterKeeps == IInv /\ UNCHANGED vars => IInv'
<1> SUFFICES ASSUME IInv, UNCHANGED vars PROVE IInv'
  OBVIOUS
<1>1. /\ said' = said /\ log' = log /\ served' = served /\ left' = left /\ up' = up /\ down' = down
      /\ echo' = echo /\ batches' = batches /\ rows' = rows
  BY DEF vars, server, client
<1>2. TypeOK /\ SaidOK /\ LogOK /\ WiresOK /\ HeldOK /\ MessagesOK /\ HistoriesOK
  BY DEF IInv
<1>3. Grows
  BY <1>1, SameGrows
<1>4. TypeOK'
  BY <1>1, <1>2 DEF TypeOK
<1>5. SaidOK'
  BY <1>1, <1>2 DEF SaidOK, Ids
<1>6. LogOK'
  BY <1>1, <1>2, <1>3, LogKept
<1>7. WiresOK'
  BY <1>1, <1>2, <1>3, WiresKept
<1>8. HeldOK'
  <2>1. \A c \in Clients : \A b \in batches'[c] :
          OfBatch(c, b.target, b.batch)' \/ \E b0 \in batches[c] : b0.batch = b.batch /\ b0.target = b.target
    BY <1>1
  <2>2. \A c \in Clients : \A t \in Buffers(c) : \A e \in Range(rows'[c][t]) :
          e \in Range(rows[c][t]) \/ (e.id \in Ids' /\ (e.batch # 0 => OfBatch(c, t, e.batch)'))
    BY <1>1
  <2> QED BY <1>2, <1>3, <2>1, <2>2, HeldKept
<1>9. MessagesOK'
  <2>1. \A c \in Clients : \A i \in Ids :
          /\ Same(LiveAt(up[c], i), LiveAt(up'[c], i))
          /\ Same(LiveAt(down[c], i), LiveAt(down'[c], i))
          /\ \A t \in Buffers(c) : Same(ShownAt(rows[c][t], i), ShownAt(rows'[c][t], i))
    BY <1>1, SameSame
  <2> QED BY <1>1, <1>2, <2>1, MessagesKept
<1>10. HistoriesOK'
  <2>1. \A c \in Clients, t \in Targets, r \in Nat \ {0} : t # c => KeepsShown(rows[c][t], rows'[c][t], r)
    BY <1>1, KeepsSame
  <2> QED BY <1>1, <1>2, <2>1, HistoriesKept
<1> QED BY <1>4, <1>5, <1>6, <1>7, <1>8, <1>9, <1>10 DEF IInv

\* Each step of the server and of a client, and none, keeps the invariant.
LEMMA NextInvariant == IInv /\ [Next]_vars => IInv'
<1> SUFFICES ASSUME IInv, [Next]_vars PROVE IInv'
  OBVIOUS
<1>1. ASSUME NEW c \in Clients, Relays(c) PROVE IInv'
  BY <1>1, RelaysKeeps
<1>2. ASSUME NEW c \in Clients, ServesHistory(c) PROVE IInv'
  BY <1>2, ServesHistoryKeeps
<1>3. ASSUME NEW r \in DOMAIN served, SendsBatched(r) PROVE IInv'
  BY <1>3, SendsBatchedKeeps
<1>4. ASSUME NEW r \in DOMAIN served, ClosesBatch(r) PROVE IInv'
  BY <1>4, ClosesBatchKeeps
<1>5. ASSUME NEW c \in Clients, NEW t \in Buffers(c), NEW kind \in {"chat", "request"},
             NEW n \in 1..MaxChunks, Says(c, t, kind, n)
      PROVE  IInv'
  BY <1>5, SaysKeeps
<1>6. ASSUME NEW c \in Clients, NEW t \in Buffers(c), NEW limit \in Limits, RequestHistory(c, t, limit) PROVE IInv'
  BY <1>6, RequestHistoryKeeps
<1>7. ASSUME NEW c \in Clients, HearsOpen(c) PROVE IInv'
  BY <1>7, HearsOpenKeeps
<1>8. ASSUME NEW c \in Clients, HearsClose(c) PROVE IInv'
  BY <1>8, HearsCloseKeeps
<1>9. ASSUME NEW c \in Clients, HearsBatched(c) PROVE IInv'
  BY <1>9, HearsBatchedKeeps
<1>10. ASSUME NEW c \in Clients, HearsChat(c) PROVE IInv'
  BY <1>10, HearsChatKeeps
<1>11. ASSUME NEW c \in Clients, HearsCtcp(c, "PRIVMSG") \/ HearsCtcp(c, "NOTICE") PROVE IInv'
  BY <1>11, HearsCtcpKeeps DEF Said
<1>12. CASE UNCHANGED vars
  BY <1>12, StutterKeeps
<1> QED
  BY <1>1, <1>2, <1>3, <1>4, <1>5, <1>6, <1>7, <1>8, <1>9, <1>10, <1>11, <1>12 DEF Next, Server, Client

-----------------------------------------------------------------------------
(* What it means *)

LEMMA CountsSingle ==
  ASSUME NEW S, Single(S)
  PROVE  Cardinality(S) = IF S = {} THEN 0 ELSE 1
<1>1. CASE S = {}
  BY <1>1, FS_EmptySet
<1>2. CASE S # {}
  <2>1. PICK x : S = {x}
    BY <1>2 DEF Single
  <2> QED BY <1>2, <2>1, FS_Singleton
<1> QED BY <1>1, <1>2

\* With nothing under way, what there was for c it has taken in.
LEMMA SettledTaken ==
  ASSUME TypeOK, Settled, NEW c \in Clients, NEW i \in Ids
  PROVE  Taken(c, i)
<1>1. said[i].from \in Clients
  BY SaidTypes
<1>2. up[said[i].from] = <<>> /\ down[c] = <<>>
  BY <1>1 DEF Settled
<1> QED BY <1>2 DEF Taken, Relayed, LiveAt

LEMMA ShownOnceFollows == IInv => ShownOnce
<1> SUFFICES ASSUME IInv, Settled, NEW c \in Clients, NEW i \in Ids, NEW t \in Buffers(c)
             PROVE  Count(rows[c][t], LAMBDA e : e = Row(i, 0)) =
                      IF /\ Member(c, i) /\ t = Conversation(c, i)
                         /\ said[i].from = c => said[i].kind = "chat"
                      THEN 1 ELSE 0
  BY DEF ShownOnce
<1>1. TypeOK /\ MessageOK(c, i)
  BY DEF IInv, MessagesOK
<1>2. Taken(c, i)
  BY <1>1, SettledTaken
<1>3. echo[c] \in BOOLEAN
  BY <1>1 DEF TypeOK
<1>4. /\ Single(ShownAt(rows[c][t], i))
      /\ ShownAt(rows[c][t], i) # {} <=>
           /\ t = Conversation(c, i) /\ (said[i].from = c => said[i].kind = "chat")
           /\ AtOnce(c, i) \/ (Comes(c, i) /\ Taken(c, i))
  BY <1>1 DEF MessageOK
<1>5. (said[i].from = c => said[i].kind = "chat") => ((AtOnce(c, i) \/ Comes(c, i)) <=> Member(c, i))
  BY <1>3 DEF AtOnce, Comes, Member
<1>6. ShownAt(rows[c][t], i) # {} <=>
        Member(c, i) /\ t = Conversation(c, i) /\ (said[i].from = c => said[i].kind = "chat")
  BY <1>2, <1>4, <1>5
<1>7. Count(rows[c][t], LAMBDA e : e = Row(i, 0)) = Cardinality(ShownAt(rows[c][t], i))
  BY DEF Count, ShownAt
<1>8. Cardinality(ShownAt(rows[c][t], i)) = IF ShownAt(rows[c][t], i) = {} THEN 0 ELSE 1
  BY <1>4, CountsSingle
<1> QED BY <1>6, <1>7, <1>8

LEMMA AnsweredOnceFollows == IInv => AnsweredOnce
<1> SUFFICES ASSUME IInv, NEW c \in Clients, NEW i \in Ids
             PROVE  LET answers == Count(said, LAMBDA m : m.from = c /\ m.re = i)
                        due == said[i].kind = "request" /\ said[i].from # c /\ Member(c, i)
                    IN answers <= 1 /\ (answers = 1 => due) /\ (Settled /\ due => answers = 1)
  BY DEF AnsweredOnce
<1>1. TypeOK /\ MessageOK(c, i)
  BY DEF IInv, MessagesOK
<1>2. Settled => Taken(c, i)
  BY <1>1, SettledTaken
<1>3. Single(Answers(c, i)) /\ (Answers(c, i) # {} <=> Due(c, i) /\ Taken(c, i))
  BY <1>1 DEF MessageOK
<1>4. Count(said, LAMBDA m : m.from = c /\ m.re = i) = Cardinality(Answers(c, i))
  BY DEF Count, Answers, Ids
<1>5. Cardinality(Answers(c, i)) = IF Answers(c, i) = {} THEN 0 ELSE 1
  BY <1>3, CountsSingle
<1>6. PICK n \in {0, 1} : n = Cardinality(Answers(c, i)) /\ (n = 1 <=> Answers(c, i) # {})
  BY <1>5
<1>7. n <= 1 /\ (n = 1 => Due(c, i)) /\ (Settled /\ Due(c, i) => n = 1)
  BY <1>2, <1>3, <1>6
<1> QED BY <1>4, <1>6, <1>7 DEF Due

LEMMA HistoryIsWholeFollows == IInv => HistoryIsWhole
<1> SUFFICES ASSUME IInv, Settled, NEW r \in DOMAIN served, NEW t \in Buffers(served[r].to)
             PROVE  IF t = served[r].target
                    THEN Shows(rows[served[r].to][t], r, served[r].list, Len(served[r].list))
                    ELSE Shows(rows[served[r].to][t], r, <<>>, 0)
  BY DEF HistoryIsWhole
<1>1. TypeOK /\ HeldOK /\ HistoryOK(r)
  BY DEF IInv, HistoriesOK
<1>2. PICK c \in Clients, list \in Seq(Nat) : c = served[r].to /\ list = served[r].list
  BY <1>1, HistoryTypes
<1>3. t \in Buffers(c)
  BY <1>2
<1>4. PICK shown \in Seq(Entries) : shown = rows[c][t]
  BY <1>1, <1>3, RowTypes
<1>5. CASE t = served[r].target
  <2>1. left[r] = <<>> /\ down[c] = <<>>
    BY <1>1, HistoryTypes DEF Settled
  <2>2. PICK open : open = OpenBatches(c, r)
    OBVIOUS
  <2>3. PICK n \in 0..Len(list), sent \in 0..(Len(list) + 1) : Taking(<<>>, <<>>, open, shown, r, list, n, sent)
    BY <1>1, <1>2, <1>4, <1>5, <2>1, <2>2 DEF HistoryOK, HistoryTaken
  <2>4. Len(list) \in Nat
    BY LenProperties
  <2>5. sent = Len(list) + 1
    <3>1. Len(<<>>) = Len(list) + 1 - sent
      BY <2>3 DEF Taking, Remains
    <3>2. Len(<<>>) = 0
      OBVIOUS
    <3> QED BY <2>4, <3>1, <3>2
  <2>6. Opens(<<>>, r) = {} /\ Tagged(<<>>, r) = {} /\ Closes(<<>>, r) = {}
    BY DEF Opens, Tagged, Closes
  <2>7. ~(sent <= Len(list))
    BY <2>4, <2>5
  <2>8. open = {}
    BY <2>3, <2>6, <2>7 DEF Taking
  <2>9. n = Len(list)
    <3>1. Carries(<<>>, r, list, n, Len(list))
      BY <2>3, <2>7 DEF Taking
    <3>2. n + Cardinality({}) = Len(list)
      BY <2>6, <3>1 DEF Carries, Runs
    <3> QED BY <3>2, RankNone
  <2>10. Displays(shown, r, list, n)
    BY <2>3, <2>8 DEF Taking
  <2>11. Shows(shown, r, list, n)
    BY <2>10, DisplaysShows
  <2> QED BY <1>2, <1>4, <1>5, <2>9, <2>11
<1>6. CASE t # served[r].target
  <2>1. r # 0
    BY <1>1, BatchNumbers
  <2>2. At(shown, r) = {}
    BY <1>1, <1>3, <1>4, <1>6, <2>1 DEF At, HeldOK, OfBatch, Range
  <2>3. Displays(shown, r, <<>>, 0)
    BY <2>2, DisplaysNone
  <2>4. Shows(shown, r, <<>>, 0)
    BY <2>3, DisplaysShows
  <2> QED BY <1>2, <1>4, <1>6, <2>4
<1> QED BY <1>5, <1>6

LEMMA ChatInvariance == Spec => []IInv
<1>1. Init => IInv
  BY InitInvariant
<1>2. IInv /\ [Next]_vars => IInv'
  BY NextInvariant
<1> QED BY <1>1, <1>2, PTL DEF Spec

-----------------------------------------------------------------------------
(* The theorems *)

\* Messages, the lines under way, the batches that are open and the buffers keep their
\* types, whoever talks to whom (session.rs:547, 1290, 1422).
THEOREM ChatTypeCorrect == Spec => []TypeOK
<1>1. IInv => TypeOK
  BY DEF IInv
<1> QED BY <1>1, ChatInvariance, PTL

\* However many clients there are, with echo-message or without, in whichever order the
\* lines are relayed and heard: a line is shown live once to everyone it is between, where
\* it belongs, and a CTCP never to who sent it (session.rs:1500).
THEOREM ShownOnceHolds == Spec => []ShownOnce
<1>1. IInv => ShownOnce
  BY ShownOnceFollows
<1> QED BY <1>1, ChatInvariance, PTL

\* However many histories are under way, with their lines among each other's and among
\* what is said meanwhile, and with any number of batches that may be open: each ends up
\* whole and in order in the buffer it is of, and in no other (session.rs:547, 1290).
THEOREM HistoryIsWholeHolds == Spec => []HistoryIsWhole
<1>1. IInv => HistoryIsWhole
  BY HistoryIsWholeFollows
<1> QED BY <1>1, ChatInvariance, PTL

\* A request is answered once by each client it reaches and a reply by nobody, so two
\* clients never keep each other busy (session.rs:1422).
THEOREM AnsweredOnceHolds == Spec => []AnsweredOnce
<1>1. IInv => AnsweredOnce
  BY AnsweredOnceFollows
<1> QED BY <1>1, ChatInvariance, PTL

=============================================================================
