--------------------------- MODULE KircNamesProofs ---------------------------
(***************************************************************************)
(* Proofs about KircNames, for any nicknames, channels, flags and bounds.  *)
(*                                                                         *)
(* What is under way is accounted for by playing it: the bridge is taken   *)
(* through the events that wait for it, and what comes of that is taken,   *)
(* together with the session, through the lines that wait for the session. *)
(* The state this ends in is the one that must agree with the server.      *)
(***************************************************************************)
EXTENDS KircNames, SequenceTheorems, FiniteSetTheorems, WellFoundedInduction, TLAPS

Lines ==
  [cmd : {"JOIN", "PART", "KICK"}, chan : Channels, nick : Nicks]
    \cup [cmd : {"QUIT"}, nick : Nicks]
    \cup [cmd : {"NICK"}, old : Nicks, new : Nicks]
    \cup [cmd : {"MODE"}, chan : Channels, nick : Nicks, add : BOOLEAN, prefix : Status]
    \cup [cmd : {"FLAG"}, chan : Channels, add : BOOLEAN, flag : Flags]
    \cup [cmd : {"324"}, chan : Channels, flags : SUBSET Flags]
    \cup [cmd : {"353"}, chan : Channels, entry : Entries]
    \cup [cmd : {"366"}, chan : Channels]

Events ==
  [kind : {"Join", "Part", "Kick"}, chan : Channels, nick : Nicks, self : BOOLEAN]
    \cup [kind : {"Quit", "NickChanged"}, nick : Nicks]
    \cup [kind : {"NickRename"}, old : Nicks, new : Nicks, self : BOOLEAN]
    \cup [kind : {"MemberMode"}, chan : Channels, nick : Nicks, add : BOOLEAN, prefix : Status]
    \cup [kind : {"ChannelModes"}, chan : Channels, modes : SUBSET Flags]
    \cup [kind : {"Names"}, chan : Channels, nicks : Seq(Entries)]
    \cup [kind : {"Disconnected"}]

-----------------------------------------------------------------------------
(* Playing what is under way *)

ListMaps == [Channels -> Seq(Entries)]
FlagMaps == [Channels -> SUBSET Flags]

\* What the bridge holds, and what session and bridge hold between them.
Panels == [nickname : Nicks, roster : ListMaps, modes : FlagMaps]
Views == [nick : Nicks, acc : ListMaps, confirmed : FlagMaps, roster : ListMaps]

ThePanel == [nickname |-> nickname, roster |-> roster, modes |-> modes]
TheView(shown) == [nick |-> nick, acc |-> acc, confirmed |-> confirmed, roster |-> shown]

RenamedAll(lists, old, new) ==
  [c \in Channels |-> IF Lists(lists[c], old)
                      THEN Sorted(Renamed(lists[c], old, new)) ELSE lists[c]]
WithoutAll(lists, n) == [c \in Channels |-> Without(lists[c], n)]
Put(map, c, x) == [map EXCEPT ![c] = x]

\* What an event leaves of a panel: its nickname, its roster and its modes.
NicknameAfter(p, e) ==
  CASE e.kind = "NickChanged" -> e.nick
    [] e.kind = "NickRename" /\ e.self -> e.new
    [] OTHER -> p.nickname

Gone(p, e) == (e.kind = "Part" /\ e.nick = p.nickname) \/ (e.kind = "Kick" /\ e.self)

RosterAfter(p, e) ==
  CASE e.kind = "Join" /\ ~e.self -> Put(p.roster, e.chan, Add(p.roster[e.chan], e.nick))
    [] e.kind \in {"Part", "Kick"} /\ Gone(p, e) -> Put(p.roster, e.chan, <<>>)
    [] e.kind \in {"Part", "Kick"} /\ ~Gone(p, e) ->
         Put(p.roster, e.chan, Without(p.roster[e.chan], e.nick))
    [] e.kind = "Quit" -> WithoutAll(p.roster, e.nick)
    [] e.kind = "NickRename" -> RenamedAll(p.roster, e.old, e.new)
    [] e.kind = "MemberMode" ->
         Put(p.roster, e.chan, ModeOnFirst(p.roster[e.chan], e.nick, e.add, e.prefix))
    [] e.kind = "Names" -> Put(p.roster, e.chan, e.nicks)
    [] e.kind = "Disconnected" -> [c \in Channels |-> <<>>]
    [] OTHER -> p.roster

ModesAfter(p, e) ==
  CASE e.kind \in {"Part", "Kick"} /\ Gone(p, e) -> Put(p.modes, e.chan, {})
    [] e.kind = "ChannelModes" -> Put(p.modes, e.chan, e.modes)
    [] e.kind = "Disconnected" -> [c \in Channels |-> {}]
    [] OTHER -> p.modes

Shown(p, e) == [nickname |-> NicknameAfter(p, e), roster |-> RosterAfter(p, e),
                modes |-> ModesAfter(p, e)]

\* What a line, and the events it becomes, leave of a view.
Self(v, l) == l.cmd \in {"JOIN", "PART", "KICK"} /\ l.nick = v.nick

NickAfter(v, l) == IF l.cmd = "NICK" /\ l.old = v.nick THEN l.new ELSE v.nick

AccAfter(v, l) ==
  CASE l.cmd = "JOIN" /\ ~Self(v, l) -> Put(v.acc, l.chan, Add(v.acc[l.chan], l.nick))
    [] l.cmd \in {"PART", "KICK"} /\ Self(v, l) -> Put(v.acc, l.chan, <<>>)
    [] l.cmd \in {"PART", "KICK"} /\ ~Self(v, l) ->
         Put(v.acc, l.chan, Without(v.acc[l.chan], l.nick))
    [] l.cmd = "QUIT" -> WithoutAll(v.acc, l.nick)
    [] l.cmd = "NICK" -> [c \in Channels |-> Renamed(v.acc[c], l.old, l.new)]
    [] l.cmd = "MODE" -> Put(v.acc, l.chan, ModeOnAll(v.acc[l.chan], l.nick, l.add, l.prefix))
    [] l.cmd = "353" /\ Len(v.acc[l.chan]) < MaxNames ->
         Put(v.acc, l.chan, Append(v.acc[l.chan], l.entry))
    [] l.cmd = "366" -> Put(v.acc, l.chan, <<>>)
    [] OTHER -> v.acc

ConfirmedAfter(v, l) ==
  CASE l.cmd \in {"PART", "KICK"} /\ Self(v, l) -> Put(v.confirmed, l.chan, {})
    [] l.cmd = "FLAG" ->
         Put(v.confirmed, l.chan, Changed(v.confirmed[l.chan], l.add, l.flag))
    [] l.cmd = "324" -> Put(v.confirmed, l.chan, l.flags)
    [] OTHER -> v.confirmed

PanelAfter(v, l) ==
  CASE l.cmd = "JOIN" /\ ~Self(v, l) -> Put(v.roster, l.chan, Add(v.roster[l.chan], l.nick))
    [] l.cmd \in {"PART", "KICK"} /\ Self(v, l) -> Put(v.roster, l.chan, <<>>)
    [] l.cmd \in {"PART", "KICK"} /\ ~Self(v, l) ->
         Put(v.roster, l.chan, Without(v.roster[l.chan], l.nick))
    [] l.cmd = "QUIT" -> WithoutAll(v.roster, l.nick)
    [] l.cmd = "NICK" -> RenamedAll(v.roster, l.old, l.new)
    [] l.cmd = "MODE" ->
         Put(v.roster, l.chan, ModeOnFirst(v.roster[l.chan], l.nick, l.add, l.prefix))
    [] l.cmd = "366" -> Put(v.roster, l.chan, v.acc[l.chan])
    [] OTHER -> v.roster

Heard(v, l) == [nick |-> NickAfter(v, l), acc |-> AccAfter(v, l),
                confirmed |-> ConfirmedAfter(v, l), roster |-> PanelAfter(v, l)]

\* Events lead from panel p to q, and lines from view v to w, one after the other.
EventsLead(p, es, q) ==
  \E b \in [0..Len(es) -> Panels] :
    b[0] = p /\ b[Len(es)] = q /\ \A i \in 1..Len(es) : b[i] = Shown(b[i - 1], es[i])

LinesLead(v, ls, w) ==
  \E b \in [0..Len(ls) -> Views] :
    b[0] = v /\ b[Len(ls)] = w /\ \A i \in 1..Len(ls) : b[i] = Heard(b[i - 1], ls[i])

-----------------------------------------------------------------------------
(* What the played state has to do with the server *)

Names(list) == {list[i].nick : i \in DOMAIN list}

\* No nickname n twice; none three times.
Once(list, n) == \A i, j \in DOMAIN list : list[i].nick = n /\ list[j].nick = n => i = j
Twice(list) ==
  \A i, j, k \in DOMAIN list :
    list[i].nick = list[j].nick /\ list[j].nick = list[k].nick => i = j \/ j = k \/ i = k

\* What may be shown of who has certain prefixes, some of which were left out: no other
\* prefix, and none missing but of those.
Showable(has, leftOut) == {t \in SUBSET Status : t \subseteq has /\ has \ leftOut \subseteq t}
Truth(c) == [n \in Nicks |-> Showable(status[c][n], untold[c][n])]

\* The prefixes are among those of st: in every entry, and in the first one of each name.
AllTrue(list, st) == \A i \in DOMAIN list : list[i].status \in st[list[i].nick]
First(list, i) == \A j \in DOMAIN list : j < i => list[j].nick # list[i].nick
FirstTrue(list, st) ==
  \A i \in DOMAIN list : First(list, i) => list[i].status \in st[list[i].nick]

\* A list under way, on a channel we are on: nobody who is not there, whoever is still to
\* be listed is in it once at most, and at its end it is whole.
Pending(c, list) ==
  /\ Names(list) \subseteq on[c]
  /\ Twice(list)
  /\ \A n \in Nicks : ~asked[c] \/ n \in todo[c] => Once(list, n)
  /\ asked[c] => on[c] \subseteq Names(list) \cup todo[c]

ListsAgree(c, list, shown) ==
  /\ me \in on[c] => Pending(c, list)
  /\ me \notin on[c] /\ ~asked[c] => list = <<>>
  /\ me \in on[c] /\ ~asked[c] => Names(shown) = on[c]

\* Who is in a list before it is their turn came in by a JOIN: nothing was left out.
Fresh(c, list) == \A n \in Names(list) : ~asked[c] \/ n \in todo[c] => untold[c][n] = {}

StatusAgrees(c, list, shown) ==
  me \in on[c] => /\ AllTrue(list, Truth(c)) /\ Fresh(c, list)
                  /\ ~asked[c] => FirstTrue(shown, Truth(c))

\* How much of a channel is claimed: its flags, who is on it as well, or all.
ChannelAgrees(depth, c, list, shown, kept) ==
  /\ told[c] => me \in on[c] /\ kept = flags[c]
  /\ depth >= 1 => ListsAgree(c, list, shown)
  /\ depth >= 2 => StatusAgrees(c, list, shown)

Agrees(depth, v) ==
  /\ v.nick = me
  /\ \A c \in Channels : ChannelAgrees(depth, c, v.acc[c], v.roster[c], v.confirmed[c])

\* The server lists nobody who is not there, and who is not there has no status.
ServerOK ==
  /\ me \in Nicks /\ on \in [Channels -> SUBSET Nicks]
  /\ status \in [Channels -> [Nicks -> SUBSET Status]]
  /\ untold \in [Channels -> [Nicks -> SUBSET Status]]
  /\ flags \in [Channels -> SUBSET Flags]
  /\ asked \in [Channels -> BOOLEAN] /\ told \in [Channels -> BOOLEAN]
  /\ todo \in [Channels -> SUBSET Nicks]
  /\ \A c \in Channels : todo[c] \subseteq on[c]
  /\ \A c \in Channels : \A n \in Nicks \ on[c] : status[c][n] = {} /\ untold[c][n] = {}

UnderWayOK ==
  /\ changes \in 0..MaxChanges
  /\ wire \in Seq(Lines) /\ Len(wire) <= MaxWire
  /\ events \in Seq(Events) /\ Len(events) <= MaxEvents

HeldOK ==
  /\ nick \in Nicks /\ acc \in ListMaps /\ confirmed \in FlagMaps /\ ThePanel \in Panels

\* The bridge ends up holding what the session holds, and both what the server has.
PlayedOK(depth) ==
  \E p \in Panels, v \in Views :
    /\ EventsLead(ThePanel, events, p) /\ p.nickname = nick /\ p.modes = confirmed
    /\ LinesLead(TheView(p.roster), wire, v) /\ Agrees(depth, v)

IInv(depth) == ServerOK /\ UnderWayOK /\ HeldOK /\ PlayedOK(depth)

\* NAMES lists of at most half the cap.
ListsFit == \A c \in Channels : 2 * Cardinality(on[c]) < MaxNames
Granted(depth) == depth >= 1 => ListsFit

-----------------------------------------------------------------------------
(* Numbers and places *)

LEMMA LeastExists ==
  ASSUME NEW T \in SUBSET Nat, T # {}
  PROVE  \E x \in T : \A y \in T : x <= y
<1>1. PICK x \in T : \A y \in T : ~(<<y, x>> \in OpToRel(<, Nat))
  BY NatLessThanWellFounded, WFMin
<1>2. \A y \in T : ~(y < x)
  BY <1>1 DEF OpToRel
<1> QED BY <1>2

\* The places of a list are numbered from 1 to its length.
LEMMA Places ==
  ASSUME NEW list \in Seq(Entries)
  PROVE  /\ Len(list) \in Nat /\ DOMAIN list = 1..Len(list)
         /\ \A i \in DOMAIN list : /\ i \in Nat /\ list[i] \in Entries
                                   /\ list[i].nick \in Nicks /\ list[i].status \in SUBSET Status
<1>1. Len(list) \in Nat /\ DOMAIN list = 1..Len(list)
  BY LenProperties
<1>2. \A i \in 1..Len(list) : list[i] \in Entries
  BY ElementOfSeq
<1> QED BY <1>1, <1>2 DEF Entries

\* An order of the places of S: each comes with those up to it.
Order(upTo, S) ==
  /\ upTo \in [S -> SUBSET S]
  /\ \A i \in S : i \in upTo[i]
  /\ \A i, j \in S : i \in upTo[j] => upTo[i] \subseteq upTo[j]
  /\ \A i, j \in S : i \in upTo[j] \/ j \in upTo[i]
  /\ \A i, j \in S : i \in upTo[j] /\ j \in upTo[i] => i = j

LEMMA RankGrows ==
  ASSUME NEW S, IsFiniteSet(S), NEW upTo, Order(upTo, S),
         NEW i \in S, NEW j \in S, i \in upTo[j], i # j
  PROVE  /\ Cardinality(upTo[i]) \in Nat /\ Cardinality(upTo[j]) \in Nat
         /\ Cardinality(upTo[i]) < Cardinality(upTo[j])
<1> DEFINE A == upTo[i]
           B == upTo[j]
<1>1. A \subseteq B /\ j \in B /\ j \notin A /\ B \in SUBSET S
  BY DEF Order
<1>2. IsFiniteSet(B)
  BY <1>1, FS_Subset
<1> HIDE DEF A, B
<1>3. IsFiniteSet(A) /\ Cardinality(A) <= Cardinality(B) /\ (Cardinality(A) = Cardinality(B) => A = B)
  BY <1>1, <1>2, FS_Subset
<1>4. Cardinality(A) \in Nat /\ Cardinality(B) \in Nat
  BY <1>2, <1>3, FS_CardinalityType
<1>5. Cardinality(A) < Cardinality(B)
  BY <1>1, <1>3, <1>4
<1> QED BY <1>4, <1>5 DEF A, B

\* Every rank up to the number of places is the rank of one of them.
LEMMA Ranks ==
  ASSUME NEW S, IsFiniteSet(S), NEW upTo, Order(upTo, S)
  PROVE  /\ Cardinality(S) \in Nat
         /\ \A i \in S : Cardinality(upTo[i]) \in 1..Cardinality(S)
         /\ \A k \in 1..Cardinality(S) : \E i \in S : Cardinality(upTo[i]) = k
<1> DEFINE n == Cardinality(S)
           rank == [i \in S |-> Cardinality(upTo[i])]
<1>1. n \in Nat
  BY FS_CardinalityType
<1>2. ASSUME NEW i \in S PROVE Cardinality(upTo[i]) \in 1..n
  <2>1. upTo[i] \in SUBSET S /\ i \in upTo[i]
    BY DEF Order
  <2>2. IsFiniteSet(upTo[i]) /\ Cardinality(upTo[i]) <= n
    BY <2>1, FS_Subset
  <2>3. Cardinality(upTo[i]) \in Nat /\ Cardinality(upTo[i]) # 0
    BY <2>1, <2>2, FS_CardinalityType, FS_EmptySet
  <2> QED BY <1>1, <2>2, <2>3
<1>3. rank \in Injection(S, 1..n)
  <2>1. rank \in [S -> 1..n]
    BY <1>2
  <2>2. ASSUME NEW i \in S, NEW j \in S, i # j PROVE rank[i] # rank[j]
    <3>1. CASE i \in upTo[j]
      BY <3>1, <2>2, RankGrows
    <3>2. CASE j \in upTo[i]
      BY <3>2, <2>2, RankGrows
    <3> QED BY <3>1, <3>2 DEF Order
  <2> QED BY <2>1, <2>2 DEF Injection, IsInjective
<1>4. IsFiniteSet(1..n) /\ Cardinality(1..n) = n
  BY <1>1, FS_Interval
<1>5. rank \in Surjection(S, 1..n)
  BY <1>3, <1>4, FS_Injection
<1>6. \A k \in 1..n : \E i \in S : rank[i] = k
  BY <1>5 DEF Surjection
<1> QED BY <1>1, <1>2, <1>6

-----------------------------------------------------------------------------
(* Lists that take entries over from another *)

\* Each place of result has its entry from one of kept, each of kept goes somewhere, and
\* entries of one name stay in order.
Takes(result, list, kept, from) ==
  /\ from \in [DOMAIN result -> kept]
  /\ \A k \in DOMAIN result : result[k] = list[from[k]]
  /\ \A i \in kept : \E k \in DOMAIN result : from[k] = i
  /\ \A k, m \in DOMAIN result : from[k] = from[m] => k = m
  /\ \A k, m \in DOMAIN result :
       list[from[k]].nick = list[from[m]].nick /\ from[k] < from[m] => k < m

LEMMA ArrangedTakes ==
  ASSUME NEW list \in Seq(Entries), NEW kept \in SUBSET DOMAIN list, NEW upTo, Order(upTo, kept),
         \A i, j \in kept : list[i].nick = list[j].nick /\ i < j => i \in upTo[j]
  PROVE  /\ Arranged(list, upTo) \in Seq(Entries)
         /\ \E from : Takes(Arranged(list, upTo), list, kept, from)
<1> DEFINE n == Cardinality(kept)
           result == Arranged(list, upTo)
           Rank(i) == Cardinality(upTo[i])
           from == [k \in 1..n |-> CHOOSE i \in kept : Rank(i) = k]
<1>1. DOMAIN list = 1..Len(list) /\ Len(list) \in Nat
  BY Places
<1>2. IsFiniteSet(kept)
  <2>1. IsFiniteSet(1..Len(list))
    BY <1>1, FS_Interval
  <2> QED BY <1>1, <2>1, FS_Subset
<1>3. /\ n \in Nat /\ \A i \in kept : Rank(i) \in 1..n
      /\ \A k \in 1..n : \E i \in kept : Rank(i) = k
  BY <1>2, Ranks
<1>4. \A i, j \in kept : i \in upTo[j] /\ i # j => Rank(i) < Rank(j)
  BY <1>2, RankGrows
<1>5. \A k \in 1..n : from[k] \in kept /\ Rank(from[k]) = k
  BY <1>3
<1>6. \A i \in kept : from[Rank(i)] = i
  <2>1. \A i, j \in kept : Rank(i) = Rank(j) => i = j
    BY <1>3, <1>4 DEF Order
  <2> QED BY <1>3, <1>5, <2>1
<1>7. result = [k \in 1..n |-> list[from[k]]]
  <2>1. DOMAIN upTo = kept
    BY DEF Order
  <2> QED BY <2>1 DEF Arranged
<1> HIDE DEF from, n, Rank, result
<1>8. \A k \in 1..n : list[from[k]] \in Entries
  BY <1>5, Places
<1>9. result \in [1..n -> Entries]
  BY <1>7, <1>8
<1>10. result \in Seq(Entries)
  BY <1>3, <1>9, SeqDef
<1>11. Takes(result, list, kept, from)
  <2>1. DOMAIN result = 1..n /\ \A k \in 1..n : result[k] = list[from[k]]
    BY <1>7
  <2>2. from \in [1..n -> kept]
    <3>1. from = [k \in 1..n |-> CHOOSE i \in kept : Rank(i) = k]
      BY DEF from
    <3> QED BY <3>1, <1>5
  <2>3. \A i \in kept : \E k \in 1..n : from[k] = i
    BY <1>3, <1>6
  <2>4. \A k, m \in 1..n : from[k] = from[m] => k = m
    BY <1>5
  <2>5. ASSUME NEW k \in 1..n, NEW m \in 1..n,
               list[from[k]].nick = list[from[m]].nick, from[k] < from[m]
        PROVE  k < m
    <3>1. from[k] \in kept /\ from[m] \in kept /\ Rank(from[k]) = k /\ Rank(from[m]) = m
      BY <1>5
    <3>2. from[k] \in upTo[from[m]] /\ from[k] # from[m]
      BY <2>5, <3>1, <1>1
    <3> QED BY <3>1, <3>2, <1>4
  <2> QED BY <2>1, <2>2, <2>3, <2>4, <2>5 DEF Takes
<1> QED BY <1>10, <1>11 DEF result

\* What is said of a list only depends on the names in it.
LEMMA TrueOf ==
  ASSUME NEW list \in Seq(Entries), NEW st, NEW st2,
         \A n \in Names(list) : st[n] = st2[n]
  PROVE  /\ AllTrue(list, st) => AllTrue(list, st2)
         /\ FirstTrue(list, st) => FirstTrue(list, st2)
<1>1. \A i \in DOMAIN list : st[list[i].nick] = st2[list[i].nick]
  BY DEF Names
<1> QED BY <1>1 DEF AllTrue, FirstTrue

LEMMA NothingListed ==
  /\ <<>> \in Seq(Entries) /\ Names(<<>>) = {} /\ Twice(<<>>)
  /\ \A n : Once(<<>>, n)
  /\ \A st : AllTrue(<<>>, st) /\ FirstTrue(<<>>, st)
<1>1. <<>> \in Seq(Entries) /\ DOMAIN <<>> = {}
  OBVIOUS
<1> QED BY <1>1 DEF Names, Twice, Once, AllTrue, FirstTrue

LEMMA NamesAreNicks == ASSUME NEW list \in Seq(Entries) PROVE Names(list) \subseteq Nicks
  BY Places DEF Names

LEMMA ListsIsNames == ASSUME NEW list \in Seq(Entries), NEW n PROVE Lists(list, n) <=> n \in Names(list)
  BY DEF Lists, Names

LEMMA TakesFacts ==
  ASSUME NEW list \in Seq(Entries), NEW result \in Seq(Entries), NEW kept \in SUBSET DOMAIN list,
         NEW from, Takes(result, list, kept, from)
  PROVE  /\ Names(result) = {list[i].nick : i \in kept}
         /\ \A n : Once(list, n) => Once(result, n)
         /\ Twice(list) => Twice(result)
         /\ \A st : AllTrue(list, st) => AllTrue(result, st)
<1>1. \A k \in DOMAIN result : from[k] \in kept /\ from[k] \in DOMAIN list /\ result[k] = list[from[k]]
  BY DEF Takes
<1>2. Names(result) = {list[i].nick : i \in kept}
  <2>1. \A i \in kept : \E k \in DOMAIN result : result[k] = list[i]
    BY <1>1 DEF Takes
  <2> QED BY <1>1, <2>1 DEF Names
<1>3. \A k, m \in DOMAIN result : from[k] = from[m] => k = m
  BY DEF Takes
<1>4. ASSUME NEW n, Once(list, n) PROVE Once(result, n)
  BY <1>1, <1>3, <1>4 DEF Once
<1>5. ASSUME Twice(list) PROVE Twice(result)
  <2>1. ASSUME NEW i \in DOMAIN result, NEW j \in DOMAIN result, NEW k \in DOMAIN result,
               result[i].nick = result[j].nick, result[j].nick = result[k].nick
        PROVE  i = j \/ j = k \/ i = k
    <3>1. from[i] = from[j] \/ from[j] = from[k] \/ from[i] = from[k]
      BY <1>1, <1>5, <2>1 DEF Twice
    <3> QED BY <1>3, <3>1
  <2> QED BY <2>1 DEF Twice
<1>6. ASSUME NEW st, AllTrue(list, st) PROVE AllTrue(result, st)
  BY <1>1, <1>6 DEF AllTrue
<1> QED BY <1>2, <1>4, <1>5, <1>6

\* The first entry of a name stays the first one.
LEMMA TakesFirst ==
  ASSUME NEW list \in Seq(Entries), NEW result \in Seq(Entries), NEW kept \in SUBSET DOMAIN list,
         NEW from, Takes(result, list, kept, from),
         \A i \in kept, j \in DOMAIN list : list[j].nick = list[i].nick => j \in kept,
         NEW st, FirstTrue(list, st)
  PROVE  FirstTrue(result, st)
<1>1. \A k \in DOMAIN result : from[k] \in kept /\ from[k] \in DOMAIN list /\ result[k] = list[from[k]]
  BY DEF Takes
<1>2. ASSUME NEW k \in DOMAIN result, First(result, k) PROVE result[k].status \in st[result[k].nick]
  <2>1. ASSUME NEW j \in DOMAIN list, j < from[k] PROVE list[j].nick # list[from[k]].nick
    <3>1. SUFFICES ASSUME list[j].nick = list[from[k]].nick PROVE FALSE
      OBVIOUS
    <3>2. j \in kept
      BY <1>1, <3>1
    <3>3. PICK m \in DOMAIN result : from[m] = j
      BY <3>2 DEF Takes
    <3>4. m < k /\ result[m].nick = result[k].nick
      BY <1>1, <2>1, <3>1, <3>3 DEF Takes
    <3> QED BY <1>2, <3>4 DEF First
  <2>2. First(list, from[k])
    BY <2>1 DEF First
  <2> QED BY <1>1, <2>2 DEF FirstTrue
<1> QED BY <1>2 DEF FirstTrue

LEMMA WithoutFacts ==
  ASSUME NEW list \in Seq(Entries), NEW n
  PROVE  /\ Without(list, n) \in Seq(Entries)
         /\ Names(Without(list, n)) = Names(list) \ {n}
         /\ \A m : Once(list, m) => Once(Without(list, n), m)
         /\ Twice(list) => Twice(Without(list, n))
         /\ \A st : AllTrue(list, st) => AllTrue(Without(list, n), st)
         /\ \A st : FirstTrue(list, st) => FirstTrue(Without(list, n), st)
<1> DEFINE kept == {i \in DOMAIN list : list[i].nick # n}
           upTo == [i \in kept |-> {j \in kept : j <= i}]
<1>1. \A i \in DOMAIN list : i \in Nat
  BY Places
<1>2. Order(upTo, kept)
  BY <1>1 DEF Order
<1>3. \A i, j \in kept : list[i].nick = list[j].nick /\ i < j => i \in upTo[j]
  BY <1>1
<1>4. Without(list, n) = Arranged(list, upTo)
  BY DEF Without
<1>5. kept \in SUBSET DOMAIN list /\ {list[i].nick : i \in kept} = Names(list) \ {n}
  BY DEF Names
<1>6. \A i \in kept, j \in DOMAIN list : list[j].nick = list[i].nick => j \in kept
  OBVIOUS
<1> HIDE DEF kept, upTo
<1>7. /\ Arranged(list, upTo) \in Seq(Entries)
      /\ \E from : Takes(Arranged(list, upTo), list, kept, from)
  BY <1>2, <1>3, <1>5, ArrangedTakes
<1>8. PICK from : Takes(Arranged(list, upTo), list, kept, from)
  BY <1>7
<1>9. \A st : FirstTrue(list, st) => FirstTrue(Arranged(list, upTo), st)
  BY <1>5, <1>6, <1>7, <1>8, TakesFirst
<1> QED BY <1>4, <1>5, <1>7, <1>8, <1>9, TakesFacts

LEMMA WithoutNothing == ASSUME NEW n PROVE Without(<<>>, n) = <<>>
<1>1. Without(<<>>, n) \in Seq(Entries) /\ Names(Without(<<>>, n)) = {}
  BY NothingListed, WithoutFacts
<1>2. DOMAIN Without(<<>>, n) = {}
  BY <1>1 DEF Names
<1> QED BY <1>1, <1>2, LenProperties, EmptySeq

LEMMA SortedFacts ==
  ASSUME NEW list \in Seq(Entries)
  PROVE  /\ Sorted(list) \in Seq(Entries)
         /\ Names(Sorted(list)) = Names(list)
         /\ \A st : FirstTrue(list, st) => FirstTrue(Sorted(list), st)
<1> DEFINE kept == DOMAIN list
           upTo == [i \in kept |-> {j \in kept : \/ list[j].nick < list[i].nick
                                                 \/ list[j].nick = list[i].nick /\ j <= i}]
<1>1. \A i \in kept : i \in Nat /\ list[i].nick \in Nat
  <2>1. Nicks \subseteq Nat
    BY DEF Nicks
  <2> QED BY <2>1, Places
<1>2. Order(upTo, kept)
  <2>1. upTo \in [kept -> SUBSET kept] /\ \A i \in kept : i \in upTo[i]
    BY <1>1
  <2>2. ASSUME NEW i \in kept, NEW j \in kept, i \in upTo[j] PROVE upTo[i] \subseteq upTo[j]
    <3>1. ASSUME NEW k \in upTo[i] PROVE k \in upTo[j]
      BY <1>1, <2>2, <3>1
    <3> QED BY <3>1
  <2>3. ASSUME NEW i \in kept, NEW j \in kept
        PROVE  (i \in upTo[j] \/ j \in upTo[i]) /\ (i \in upTo[j] /\ j \in upTo[i] => i = j)
    BY <1>1
  <2> QED BY <2>1, <2>2, <2>3 DEF Order
<1>3. \A i, j \in kept : list[i].nick = list[j].nick /\ i < j => i \in upTo[j]
  BY <1>1
<1>4. Sorted(list) = Arranged(list, upTo)
  BY DEF Sorted
<1>5. {list[i].nick : i \in DOMAIN list} = Names(list)
  BY DEF Names
<1> HIDE DEF upTo
<1>6. /\ Arranged(list, upTo) \in Seq(Entries)
      /\ \E from : Takes(Arranged(list, upTo), list, DOMAIN list, from)
  BY <1>2, <1>3, ArrangedTakes
<1>7. PICK from : Takes(Arranged(list, upTo), list, DOMAIN list, from)
  BY <1>6
<1>8. \A st : FirstTrue(list, st) => FirstTrue(Arranged(list, upTo), st)
  BY <1>6, <1>7, TakesFirst
<1> QED BY <1>4, <1>5, <1>6, <1>7, <1>8, TakesFacts

-----------------------------------------------------------------------------
(* What each operation on a list makes of it *)

\* Who has no prefix may be shown with none.
LEMMA ShowableFacts == \A leftOut : {} \in Showable({}, leftOut)
  BY DEF Showable

\* A prefix given or taken is told of: what was left out of it no longer matters.
LEMMA ShowableChanged ==
  ASSUME NEW has, NEW leftOut, NEW add, NEW s \in Status, NEW t \in Showable(has, leftOut)
  PROVE  Changed(t, add, s) \in Showable(Changed(has, add, s), leftOut \ {s})
  BY DEF Showable, Changed

LEMMA AppendFacts ==
  ASSUME NEW list \in Seq(Entries), NEW x \in Entries
  PROVE  /\ Append(list, x) \in Seq(Entries)
         /\ Names(Append(list, x)) = Names(list) \cup {x.nick}
         /\ \A m : m # x.nick /\ Once(list, m) => Once(Append(list, x), m)
         /\ x.nick \notin Names(list) => Once(Append(list, x), x.nick)
         /\ Once(list, x.nick) /\ Twice(list) => Twice(Append(list, x))
         /\ \A st : AllTrue(list, st) /\ x.status \in st[x.nick] => AllTrue(Append(list, x), st)
         /\ \A st : FirstTrue(list, st) /\ x.status \in st[x.nick] => FirstTrue(Append(list, x), st)
<1> DEFINE result == Append(list, x)
<1>1. Len(list) \in Nat /\ DOMAIN list = 1..Len(list)
  BY Places
<1>2. /\ result \in Seq(Entries) /\ DOMAIN result = 1..(Len(list) + 1)
      /\ \A i \in 1..Len(list) : result[i] = list[i]
      /\ result[Len(list) + 1] = x
  BY AppendProperties, LenProperties
<1> HIDE DEF result
<1>3. \A i \in DOMAIN result : \/ i \in DOMAIN list /\ result[i] = list[i]
                               \/ i = Len(list) + 1 /\ result[i] = x
  BY <1>1, <1>2
<1>4. \A i \in DOMAIN list : i \in DOMAIN result /\ result[i] = list[i] /\ i < Len(list) + 1
  BY <1>1, <1>2
<1>5. Len(list) + 1 \in DOMAIN result
  BY <1>1, <1>2
<1>6. Names(result) = Names(list) \cup {x.nick}
  <2>1. Names(result) \subseteq Names(list) \cup {x.nick}
    BY <1>3 DEF Names
  <2>2. Names(list) \subseteq Names(result)
    BY <1>4 DEF Names
  <2>3. x.nick \in Names(result)
    BY <1>2, <1>5 DEF Names
  <2> QED BY <2>1, <2>2, <2>3
<1>7. ASSUME NEW m, m # x.nick, Once(list, m) PROVE Once(result, m)
  BY <1>3, <1>7 DEF Once
<1>8. ASSUME x.nick \notin Names(list) PROVE Once(result, x.nick)
  BY <1>3, <1>8 DEF Once, Names
<1>9. ASSUME Once(list, x.nick), Twice(list) PROVE Twice(result)
  <2>1. ASSUME NEW i \in DOMAIN result, NEW j \in DOMAIN result, NEW k \in DOMAIN result,
               result[i].nick = result[j].nick, result[j].nick = result[k].nick
        PROVE  i = j \/ j = k \/ i = k
    <3>1. CASE i \in DOMAIN list /\ j \in DOMAIN list /\ k \in DOMAIN list
      BY <1>4, <1>9, <2>1, <3>1 DEF Twice
    <3>2. CASE ~(i \in DOMAIN list /\ j \in DOMAIN list /\ k \in DOMAIN list)
      <4>1. /\ i \in DOMAIN list => result[i] = list[i]
            /\ j \in DOMAIN list => result[j] = list[j]
            /\ k \in DOMAIN list => result[k] = list[k]
        BY <1>4
      <4>2. result[i].nick = x.nick /\ result[j].nick = x.nick /\ result[k].nick = x.nick
        BY <1>3, <2>1, <3>2
      <4> QED BY <1>3, <1>9, <4>1, <4>2 DEF Once
    <3> QED BY <3>1, <3>2
  <2> QED BY <2>1 DEF Twice
<1>10. ASSUME NEW st, AllTrue(list, st), x.status \in st[x.nick] PROVE AllTrue(result, st)
  BY <1>3, <1>10 DEF AllTrue
<1>11. ASSUME NEW st, FirstTrue(list, st), x.status \in st[x.nick] PROVE FirstTrue(result, st)
  <2>1. ASSUME NEW i \in DOMAIN result, First(result, i) PROVE result[i].status \in st[result[i].nick]
    <3>1. ASSUME i \in DOMAIN list PROVE First(list, i)
      BY <1>4, <2>1, <3>1 DEF First
    <3> QED BY <1>3, <1>11, <3>1 DEF FirstTrue
  <2> QED BY <2>1 DEF FirstTrue
<1> QED BY <1>2, <1>6, <1>7, <1>8, <1>9, <1>10, <1>11 DEF result

LEMMA AddFacts ==
  ASSUME NEW list \in Seq(Entries), NEW n \in Nicks
  PROVE  /\ Add(list, n) \in Seq(Entries)
         /\ Names(Add(list, n)) = Names(list) \cup {n}
         /\ n \notin Names(list) =>
              /\ \A m : Once(list, m) => Once(Add(list, n), m)
              /\ Twice(list) => Twice(Add(list, n))
              /\ \A st : AllTrue(list, st) /\ {} \in st[n] => AllTrue(Add(list, n), st)
              /\ \A st : FirstTrue(list, st) /\ {} \in st[n] => FirstTrue(Add(list, n), st)
<1>1. Lists(list, n) <=> n \in Names(list)
  BY ListsIsNames
<1>2. CASE n \in Names(list)
  BY <1>1, <1>2 DEF Add
<1>3. CASE n \notin Names(list)
  <2> DEFINE x == Entry(n, {})
  <2>1. x \in Entries /\ x.nick = n /\ x.status = {}
    BY DEF Entry, Entries
  <2>2. Add(list, n) = Append(list, x)
    BY <1>1, <1>3 DEF Add
  <2>3. Once(list, n)
    BY <1>3 DEF Once, Names
  <2> HIDE DEF x
  <2> QED BY <2>1, <2>2, <2>3, <1>3, AppendFacts, ZenonT(60)
<1> QED BY <1>2, <1>3

\* Entries changed each on its own: nobody comes or goes, whatever becomes of the prefixes.
SamePlaces(result, list) ==
  /\ DOMAIN result = DOMAIN list
  /\ \A i \in DOMAIN list : result[i].nick = list[i].nick

LEMMA SamePlacesFacts ==
  ASSUME NEW list, NEW result, SamePlaces(result, list)
  PROVE  /\ Names(result) = Names(list)
         /\ \A m : Once(list, m) => Once(result, m)
         /\ Twice(list) => Twice(result)
<1>1. Names(result) = Names(list)
  BY DEF SamePlaces, Names
<1>2. \A m : Once(list, m) => Once(result, m)
  BY DEF SamePlaces, Once
<1>3. Twice(list) => Twice(result)
  BY DEF SamePlaces, Twice
<1> QED BY <1>1, <1>2, <1>3

LEMMA ChangedType ==
  ASSUME NEW set, NEW all, set \subseteq all, NEW x \in all, NEW add
  PROVE  Changed(set, add, x) \in SUBSET all
  BY DEF Changed

LEMMA ModeOnAllFacts ==
  ASSUME NEW list \in Seq(Entries), NEW n \in Nicks, NEW add \in BOOLEAN, NEW s \in Status
  PROVE  /\ ModeOnAll(list, n, add, s) \in Seq(Entries)
         /\ SamePlaces(ModeOnAll(list, n, add, s), list)
         /\ \A st, st2 : /\ AllTrue(list, st)
                         /\ \A t \in st[n] : Changed(t, add, s) \in st2[n]
                         /\ \A m \in Nicks \ {n} : st2[m] = st[m]
                         => AllTrue(ModeOnAll(list, n, add, s), st2)
<1> DEFINE result == ModeOnAll(list, n, add, s)
<1>1. /\ Len(list) \in Nat /\ DOMAIN list = 1..Len(list)
      /\ \A i \in DOMAIN list : /\ list[i] \in Entries /\ list[i].nick \in Nicks
                                /\ list[i].status \in SUBSET Status
  BY Places
<1>2. \A i \in DOMAIN list : Changed(list[i].status, add, s) \in SUBSET Status
  BY <1>1, ChangedType
<1>3. /\ DOMAIN result = DOMAIN list
      /\ \A i \in DOMAIN list :
           result[i] = IF list[i].nick = n THEN Entry(n, Changed(list[i].status, add, s)) ELSE list[i]
  BY DEF ModeOnAll
<1>4. \A i \in DOMAIN list : result[i] \in Entries /\ result[i].nick = list[i].nick
  BY <1>1, <1>2, <1>3 DEF Entry, Entries
<1>5. result \in [1..Len(list) -> Entries]
  BY <1>1, <1>4 DEF ModeOnAll
<1>6. result \in Seq(Entries)
  BY <1>1, <1>5, SeqDef
<1>7. \A i \in DOMAIN list :
        result[i].status = IF list[i].nick = n THEN Changed(list[i].status, add, s) ELSE list[i].status
  BY <1>3 DEF Entry
<1> HIDE DEF result
<1>8. ASSUME NEW st, NEW st2, AllTrue(list, st), \A t \in st[n] : Changed(t, add, s) \in st2[n],
             \A m \in Nicks \ {n} : st2[m] = st[m]
      PROVE  AllTrue(result, st2)
  <2>1. ASSUME NEW i \in DOMAIN list PROVE result[i].status \in st2[result[i].nick]
    <3>1. list[i].status \in st[list[i].nick] /\ result[i].nick = list[i].nick /\ list[i].nick \in Nicks
      BY <1>1, <1>4, <1>8 DEF AllTrue
    <3>2. CASE list[i].nick = n
      BY <1>7, <1>8, <3>1, <3>2
    <3>3. CASE list[i].nick # n
      BY <1>7, <1>8, <3>1, <3>3
    <3> QED BY <3>2, <3>3
  <2> QED BY <1>3, <2>1 DEF AllTrue
<1> QED BY <1>3, <1>4, <1>6, <1>8 DEF SamePlaces, result

LEMMA ModeOnFirstFacts ==
  ASSUME NEW list \in Seq(Entries), NEW n \in Nicks, NEW add \in BOOLEAN, NEW s \in Status
  PROVE  /\ ModeOnFirst(list, n, add, s) \in Seq(Entries)
         /\ SamePlaces(ModeOnFirst(list, n, add, s), list)
         /\ \A st, st2 : /\ FirstTrue(list, st)
                         /\ \A t \in st[n] : Changed(t, add, s) \in st2[n]
                         /\ \A m \in Nicks \ {n} : st2[m] = st[m]
                         => FirstTrue(ModeOnFirst(list, n, add, s), st2)
<1> DEFINE result == ModeOnFirst(list, n, add, s)
           I == {i \in 1..Len(list) : list[i].nick = n}
           at == IF I # {} THEN Min(I) ELSE 0
<1>1. /\ Len(list) \in Nat /\ DOMAIN list = 1..Len(list)
      /\ \A i \in DOMAIN list : /\ list[i] \in Entries /\ list[i].nick \in Nicks
                                /\ list[i].status \in SUBSET Status /\ i \in Nat
  BY Places
<1>2. result = IF at = 0 THEN list ELSE [list EXCEPT ![at] = Entry(n, Changed(list[at].status, add, s))]
  BY DEF ModeOnFirst, SelectInSeq, ReplaceAt
<1>3. I # {} => at \in I /\ \A i \in I : at <= i
  <2>1. I \in SUBSET Nat
    BY <1>1
  <2>2. ASSUME I # {} PROVE \E x \in I : \A y \in I : x <= y
    BY <2>1, <2>2, LeastExists
  <2> QED BY <2>2 DEF Min
<1>4. I = {} => at = 0
  OBVIOUS
<1>5. CASE I = {}
  <2>1. result = list
    BY <1>2, <1>4, <1>5
  <2>2. n \notin Names(list)
    BY <1>1, <1>5 DEF Names
  <2>3. Names(list) \subseteq Nicks
    BY NamesAreNicks
  <2>4. ASSUME NEW st, NEW st2, FirstTrue(list, st), \A m \in Nicks \ {n} : st2[m] = st[m]
        PROVE  FirstTrue(list, st2)
    <3>1. \A m \in Names(list) : st[m] = st2[m]
      BY <2>2, <2>3, <2>4
    <3> QED BY <2>4, <3>1, TrueOf
  <2> QED BY <2>1, <2>4 DEF SamePlaces
<1>6. CASE I # {}
  <2> DEFINE x == Entry(n, Changed(list[at].status, add, s))
  <2>1. at \in DOMAIN list /\ list[at].nick = n /\ at # 0 /\ at \in Nat
        /\ \A i \in DOMAIN list : list[i].nick = n => at <= i
    BY <1>1, <1>3, <1>6
  <2> HIDE DEF at, I
  <2>2. x \in Entries /\ x.nick = n /\ x.status = Changed(list[at].status, add, s)
    BY <1>1, <2>1, ChangedType DEF Entry, Entries
  <2>3. result = [list EXCEPT ![at] = x]
    BY <1>2, <2>1
  <2> HIDE DEF x, result
  <2>4. /\ result \in Seq(Entries) /\ DOMAIN result = DOMAIN list
        /\ \A i \in DOMAIN list : result[i] = IF i = at THEN x ELSE list[i]
    BY <1>1, <2>1, <2>2, <2>3, ExceptSeq, LenProperties
  <2>5. \A i \in DOMAIN list : result[i].nick = list[i].nick
    BY <2>1, <2>2, <2>4
  <2>6. ASSUME NEW st, NEW st2, FirstTrue(list, st), \A t \in st[n] : Changed(t, add, s) \in st2[n],
               \A m \in Nicks \ {n} : st2[m] = st[m]
        PROVE  FirstTrue(result, st2)
    <3>1. ASSUME NEW i \in DOMAIN list, First(result, i)
          PROVE  result[i].status \in st2[result[i].nick]
      <4>1. First(list, i)
        BY <2>4, <2>5, <3>1 DEF First
      <4>2. list[i].status \in st[list[i].nick]
        BY <2>6, <4>1 DEF FirstTrue
      <4>3. CASE list[i].nick = n
        <5>1. i = at
          <6>1. at <= i /\ ~(at < i)
            BY <2>1, <4>1, <4>3 DEF First
          <6> QED BY <1>1, <2>1, <6>1
        <5> QED BY <2>2, <2>4, <2>6, <4>2, <4>3, <5>1
      <4>4. CASE list[i].nick # n
        <5>1. result[i] = list[i]
          BY <2>1, <2>4, <4>4
        <5> QED BY <1>1, <2>6, <4>2, <4>4, <5>1
      <4> QED BY <4>3, <4>4
    <3> QED BY <2>4, <3>1 DEF FirstTrue
  <2> QED BY <2>4, <2>5, <2>6 DEF SamePlaces, result
<1> QED BY <1>5, <1>6

LEMMA RenamedPlaces ==
  ASSUME NEW list \in Seq(Entries), NEW old \in Nicks, NEW new \in Nicks
  PROVE  /\ Renamed(list, old, new) \in Seq(Entries)
         /\ DOMAIN Renamed(list, old, new) = DOMAIN list
         /\ \A i \in DOMAIN list :
              /\ Renamed(list, old, new)[i].nick = (IF list[i].nick = old THEN new ELSE list[i].nick)
              /\ Renamed(list, old, new)[i].status = list[i].status
<1> DEFINE result == Renamed(list, old, new)
<1>1. /\ Len(list) \in Nat /\ DOMAIN list = 1..Len(list)
      /\ \A i \in DOMAIN list : /\ list[i] \in Entries /\ list[i].nick \in Nicks
                                /\ list[i].status \in SUBSET Status
  BY Places
<1>2. /\ DOMAIN result = DOMAIN list
      /\ \A i \in DOMAIN list :
           result[i] = IF list[i].nick = old THEN Entry(new, list[i].status) ELSE list[i]
  BY DEF Renamed
<1>3. \A i \in DOMAIN list : result[i] \in Entries
  BY <1>1, <1>2 DEF Entry, Entries
<1>4. result \in [1..Len(list) -> Entries]
  BY <1>1, <1>3 DEF Renamed
<1>5. result \in Seq(Entries)
  BY <1>1, <1>4, SeqDef
<1> QED BY <1>2, <1>5 DEF Entry

LEMMA RenamedFacts ==
  ASSUME NEW list \in Seq(Entries), NEW old \in Nicks, NEW new \in Nicks
  PROVE  /\ Renamed(list, old, new) \in Seq(Entries)
         /\ Names(Renamed(list, old, new))
              = IF old \in Names(list) THEN (Names(list) \ {old}) \cup {new} ELSE Names(list)
         /\ new \notin Names(list) =>
              /\ \A m : m \notin {old, new} /\ Once(list, m) => Once(Renamed(list, old, new), m)
              /\ Once(list, old) => Once(Renamed(list, old, new), new)
              /\ Twice(list) => Twice(Renamed(list, old, new))
<1> DEFINE result == Renamed(list, old, new)
<1>1. /\ result \in Seq(Entries) /\ DOMAIN result = DOMAIN list
      /\ \A i \in DOMAIN list :
           result[i].nick = (IF list[i].nick = old THEN new ELSE list[i].nick)
  BY RenamedPlaces
<1> HIDE DEF result
<1>2. Names(result) = IF old \in Names(list) THEN (Names(list) \ {old}) \cup {new} ELSE Names(list)
  <2>1. CASE old \in Names(list)
    <3>1. Names(result) \subseteq (Names(list) \ {old}) \cup {new}
      BY <1>1 DEF Names
    <3>2. Names(list) \ {old} \subseteq Names(result)
      BY <1>1 DEF Names
    <3>3. new \in Names(result)
      <4>1. PICK i \in DOMAIN list : list[i].nick = old
        BY <2>1 DEF Names
      <4> QED BY <1>1, <4>1 DEF Names
    <3> QED BY <2>1, <3>1, <3>2, <3>3
  <2>2. CASE old \notin Names(list)
    <3>1. \A i \in DOMAIN list : list[i].nick # old
      BY <2>2 DEF Names
    <3> QED BY <1>1, <2>2, <3>1 DEF Names
  <2> QED BY <2>1, <2>2
<1>3. ASSUME new \notin Names(list)
      PROVE  /\ \A m : m \notin {old, new} /\ Once(list, m) => Once(result, m)
             /\ Once(list, old) => Once(result, new)
             /\ Twice(list) => Twice(result)
  <2>1. \A i \in DOMAIN list : list[i].nick # new
    BY <1>3 DEF Names
  <2>2. ASSUME NEW m, m \notin {old, new}, Once(list, m) PROVE Once(result, m)
    BY <1>1, <2>2 DEF Once
  <2>3. ASSUME Once(list, old) PROVE Once(result, new)
    BY <1>1, <2>1, <2>3 DEF Once
  <2>4. \A i, j \in DOMAIN list : result[i].nick = result[j].nick <=> list[i].nick = list[j].nick
    BY <1>1, <2>1
  <2>5. Twice(list) => Twice(result)
    BY <1>1, <2>4 DEF Twice
  <2> QED BY <2>2, <2>3, <2>5
<1> QED BY <1>1, <1>2, <1>3 DEF result

LEMMA RenamedTrue ==
  ASSUME NEW list \in Seq(Entries), NEW old \in Nicks, NEW new \in Nicks, new \notin Names(list),
         NEW st, NEW st2, st2[new] = st[old], \A m \in Nicks \ {old, new} : st2[m] = st[m]
  PROVE  /\ AllTrue(list, st) => AllTrue(Renamed(list, old, new), st2)
         /\ FirstTrue(list, st) => FirstTrue(Renamed(list, old, new), st2)
<1> DEFINE result == Renamed(list, old, new)
<1>1. /\ DOMAIN result = DOMAIN list
      /\ \A i \in DOMAIN list :
           /\ result[i].nick = (IF list[i].nick = old THEN new ELSE list[i].nick)
           /\ result[i].status = list[i].status
  BY RenamedPlaces
<1> HIDE DEF result
<1>2. \A i \in DOMAIN list : list[i].nick # new /\ list[i].nick \in Nicks
  BY Places DEF Names
<1>3. ASSUME NEW i \in DOMAIN list, list[i].status \in st[list[i].nick]
      PROVE  result[i].status \in st2[result[i].nick]
  <2>1. CASE list[i].nick = old
    BY <1>1, <1>3, <2>1
  <2>2. CASE list[i].nick # old
    BY <1>1, <1>2, <1>3, <2>2
  <2> QED BY <2>1, <2>2
<1>4. ASSUME AllTrue(list, st) PROVE AllTrue(result, st2)
  BY <1>1, <1>3, <1>4 DEF AllTrue
<1>5. ASSUME FirstTrue(list, st) PROVE FirstTrue(result, st2)
  <2>1. ASSUME NEW i \in DOMAIN list, First(result, i) PROVE First(list, i)
    BY <1>1, <1>2, <2>1 DEF First
  <2> QED BY <1>1, <1>3, <1>5, <2>1 DEF FirstTrue
<1> QED BY <1>4, <1>5 DEF result

LEMMA RenamedNothing ==
  ASSUME NEW old \in Nicks, NEW new \in Nicks PROVE Renamed(<<>>, old, new) = <<>>
<1>1. /\ Renamed(<<>>, old, new) \in Seq(Entries)
      /\ Names(Renamed(<<>>, old, new))
           = IF old \in Names(<<>>) THEN (Names(<<>>) \ {old}) \cup {new} ELSE Names(<<>>)
  BY NothingListed, RenamedFacts
<1>2. DOMAIN Renamed(<<>>, old, new) = {}
  BY <1>1, NothingListed DEF Names
<1> QED BY <1>1, <1>2, LenProperties, EmptySeq

LEMMA ModesTrue ==
  ASSUME NEW list \in Seq(Entries), NEW n \in Nicks, NEW add \in BOOLEAN, NEW s \in Status,
         NEW st, NEW st2, \A t \in st[n] : Changed(t, add, s) \in st2[n], \A m \in Nicks \ {n} : st2[m] = st[m]
  PROVE  /\ AllTrue(list, st) => AllTrue(ModeOnAll(list, n, add, s), st2)
         /\ FirstTrue(list, st) => FirstTrue(ModeOnFirst(list, n, add, s), st2)
  BY ModeOnAllFacts, ModeOnFirstFacts

\* A list with nobody in it three times is at most twice as long as there are names.
LEMMA LengthFacts ==
  ASSUME NEW list \in Seq(Entries), Twice(list), NEW S \in SUBSET Nicks, Names(list) \subseteq S,
         2 * Cardinality(S) < MaxNames
  PROVE  Len(list) < MaxNames
<1> DEFINE D == DOMAIN list
           A == {i \in D : First(list, i)}
           B == {i \in D : ~First(list, i)}
           nameA == [i \in A |-> list[i].nick]
           nameB == [i \in B |-> list[i].nick]
<1>1. /\ Len(list) \in Nat /\ D = 1..Len(list)
      /\ \A i \in D : i \in Nat /\ list[i].nick \in S
  BY Places DEF Names
<1>2. IsFiniteSet(D) /\ Cardinality(D) = Len(list)
  <2>1. IsFiniteSet(1..Len(list)) /\ Cardinality(1..Len(list)) = Len(list)
    <3>1. Len(list) \in Nat
      BY <1>1
    <3>2. /\ IsFiniteSet(1..Len(list))
          /\ Cardinality(1..Len(list)) = IF 1 > Len(list) THEN 0 ELSE Len(list) - 1 + 1
      BY <3>1, FS_Interval
    <3> QED BY <3>1, <3>2
  <2> QED BY <1>1, <2>1
<1>3. IsFiniteSet(S)
  <2>1. IsFiniteSet(Nicks)
    BY NamesAssumption, FS_Interval DEF Nicks
  <2> QED BY <2>1, FS_Subset
<1>4. nameA \in Injection(A, S)
  <2>1. \A i, j \in A : list[i].nick = list[j].nick => i = j
    BY <1>1 DEF First
  <2>2. nameA \in [A -> S]
    BY <1>1
  <2> QED BY <2>1, <2>2 DEF Injection, IsInjective
<1>5. nameB \in Injection(B, S)
  <2>1. ASSUME NEW i \in B, NEW j \in B, list[i].nick = list[j].nick PROVE i = j
    <3>1. PICK k \in D : k < i /\ list[k].nick = list[i].nick
      BY DEF First
    <3>2. PICK m \in D : m < j /\ list[m].nick = list[j].nick
      BY DEF First
    <3>3. k = i \/ i = j \/ k = j
      BY <2>1, <3>1 DEF Twice
    <3>4. m = i \/ i = j \/ m = j
      BY <2>1, <3>2 DEF Twice
    <3> QED BY <1>1, <3>1, <3>2, <3>3, <3>4
  <2>2. nameB \in [B -> S]
    BY <1>1
  <2> QED BY <2>1, <2>2 DEF Injection, IsInjective
<1>6. IsFiniteSet(A) /\ IsFiniteSet(B) /\ A \cup B = D /\ A \cap B = {}
  BY <1>2, FS_Subset
<1> HIDE DEF A, B, nameA, nameB, D
<1>7. Cardinality(A) <= Cardinality(S) /\ Cardinality(B) <= Cardinality(S)
  BY <1>3, <1>4, <1>5, FS_Injection
<1>8. Cardinality(A \cup B) = Cardinality(A) + Cardinality(B) - Cardinality(A \cap B)
  BY <1>6, FS_Union
<1>9. Cardinality(A) \in Nat /\ Cardinality(B) \in Nat /\ Cardinality(S) \in Nat /\ Cardinality(A \cap B) = 0
  BY <1>3, <1>6, FS_CardinalityType, FS_EmptySet
<1>10. Cardinality(A \cup B) = Len(list)
  BY <1>2, <1>6
<1> QED BY <1>1, <1>7, <1>8, <1>9, <1>10, NamesAssumption

-----------------------------------------------------------------------------
(* Types of what is played *)

\* What a line and an event carry.
LEMMA LineFields ==
  ASSUME NEW l \in Lines
  PROVE  /\ l.cmd \in {"JOIN", "PART", "KICK", "QUIT", "NICK", "MODE", "FLAG", "324", "353", "366"}
         /\ l.cmd \in {"JOIN", "PART", "KICK", "MODE", "FLAG", "324", "353", "366"} => l.chan \in Channels
         /\ l.cmd \in {"JOIN", "PART", "KICK", "QUIT", "MODE"} => l.nick \in Nicks
         /\ l.cmd = "NICK" => l.old \in Nicks /\ l.new \in Nicks
         /\ l.cmd = "MODE" => l.add \in BOOLEAN /\ l.prefix \in Status
         /\ l.cmd = "FLAG" => l.add \in BOOLEAN /\ l.flag \in Flags
         /\ l.cmd = "324" => l.flags \in SUBSET Flags
         /\ l.cmd = "353" => l.entry \in Entries
  BY DEF Lines

LEMMA EventFields ==
  ASSUME NEW e \in Events
  PROVE  /\ e.kind \in {"Join", "Part", "Kick", "Quit", "NickChanged", "NickRename",
                        "MemberMode", "ChannelModes", "Names", "Disconnected"}
         /\ e.kind \in {"Join", "Part", "Kick", "MemberMode", "ChannelModes", "Names"}
              => e.chan \in Channels
         /\ e.kind \in {"Join", "Part", "Kick", "Quit", "NickChanged", "MemberMode"} => e.nick \in Nicks
         /\ e.kind \in {"Join", "Part", "Kick", "NickRename"} => e.self \in BOOLEAN
         /\ e.kind = "NickRename" => e.old \in Nicks /\ e.new \in Nicks
         /\ e.kind = "MemberMode" => e.add \in BOOLEAN /\ e.prefix \in Status
         /\ e.kind = "ChannelModes" => e.modes \in SUBSET Flags
         /\ e.kind = "Names" => e.nicks \in Seq(Entries)
  BY DEF Events

LEMMA PutFacts ==
  ASSUME NEW X, NEW map \in [Channels -> X], NEW c \in Channels, NEW x \in X
  PROVE  /\ Put(map, c, x) \in [Channels -> X]
         /\ \A d \in Channels : Put(map, c, x)[d] = IF d = c THEN x ELSE map[d]
  BY DEF Put

LEMMA RenamedAllType ==
  ASSUME NEW lists \in ListMaps, NEW old \in Nicks, NEW new \in Nicks
  PROVE  /\ RenamedAll(lists, old, new) \in ListMaps
         /\ [c \in Channels |-> Renamed(lists[c], old, new)] \in ListMaps
<1>1. \A c \in Channels : lists[c] \in Seq(Entries)
  BY DEF ListMaps
<1>2. \A c \in Channels : Renamed(lists[c], old, new) \in Seq(Entries)
  BY <1>1, RenamedFacts
<1>3. \A c \in Channels : Sorted(Renamed(lists[c], old, new)) \in Seq(Entries)
  BY <1>2, SortedFacts
<1> QED BY <1>1, <1>2, <1>3 DEF RenamedAll, ListMaps

LEMMA WithoutAllType ==
  ASSUME NEW lists \in ListMaps, NEW n PROVE WithoutAll(lists, n) \in ListMaps
<1>1. \A c \in Channels : lists[c] \in Seq(Entries)
  BY DEF ListMaps
<1>2. \A c \in Channels : Without(lists[c], n) \in Seq(Entries)
  BY <1>1, WithoutFacts
<1> QED BY <1>2 DEF WithoutAll, ListMaps

\* The lists that one line or one event may put in the place of another.
LEMMA ListTypes ==
  ASSUME NEW lists \in ListMaps, NEW c \in Channels
  PROVE  /\ Put(lists, c, <<>>) \in ListMaps
         /\ \A x \in Seq(Entries) : Put(lists, c, x) \in ListMaps
         /\ \A x \in Entries : Put(lists, c, Append(lists[c], x)) \in ListMaps
         /\ \A n \in Nicks : /\ Put(lists, c, Add(lists[c], n)) \in ListMaps
                             /\ Put(lists, c, Without(lists[c], n)) \in ListMaps
         /\ \A n \in Nicks, add \in BOOLEAN, s \in Status :
              /\ Put(lists, c, ModeOnAll(lists[c], n, add, s)) \in ListMaps
              /\ Put(lists, c, ModeOnFirst(lists[c], n, add, s)) \in ListMaps
<1>1. lists[c] \in Seq(Entries) /\ lists \in [Channels -> Seq(Entries)]
  BY DEF ListMaps
<1>2. \A x \in Seq(Entries) : Put(lists, c, x) \in ListMaps
  BY <1>1, PutFacts DEF ListMaps
<1>3. <<>> \in Seq(Entries) /\ \A x \in Entries : Append(lists[c], x) \in Seq(Entries)
  BY <1>1, AppendFacts, NothingListed
<1>4. \A n \in Nicks : Add(lists[c], n) \in Seq(Entries) /\ Without(lists[c], n) \in Seq(Entries)
  BY <1>1, AddFacts, WithoutFacts
<1>5. \A n \in Nicks, add \in BOOLEAN, s \in Status :
        /\ ModeOnAll(lists[c], n, add, s) \in Seq(Entries)
        /\ ModeOnFirst(lists[c], n, add, s) \in Seq(Entries)
  BY <1>1, ModeOnAllFacts, ModeOnFirstFacts
<1> QED BY <1>2, <1>3, <1>4, <1>5

LEMMA ShownType == ASSUME NEW p \in Panels, NEW e \in Events PROVE Shown(p, e) \in Panels
<1>1. p.nickname \in Nicks /\ p.roster \in ListMaps /\ p.modes \in FlagMaps
  BY DEF Panels
<1>2. NicknameAfter(p, e) \in Nicks
  BY <1>1, EventFields DEF NicknameAfter
<1>3. ModesAfter(p, e) \in FlagMaps
  <2>1. \A c \in Channels, x \in SUBSET Flags : Put(p.modes, c, x) \in FlagMaps
    BY <1>1, PutFacts DEF FlagMaps
  <2>2. [c \in Channels |-> {}] \in FlagMaps
    BY DEF FlagMaps
  <2> QED BY <1>1, <2>1, <2>2, EventFields DEF ModesAfter
<1>4. RosterAfter(p, e) \in ListMaps
  <2>1. [c \in Channels |-> <<>>] \in ListMaps
    BY NothingListed DEF ListMaps
  <2>2. CASE e.kind \in {"Join", "Part", "Kick", "MemberMode", "Names"}
    BY <1>1, <2>2, EventFields, ListTypes DEF RosterAfter
  <2>3. CASE e.kind \in {"Quit", "NickRename"}
    BY <1>1, <2>3, EventFields, RenamedAllType, WithoutAllType DEF RosterAfter
  <2>4. CASE e.kind \in {"NickChanged", "ChannelModes", "Disconnected"}
    BY <1>1, <2>1, <2>4 DEF RosterAfter
  <2> QED BY <2>2, <2>3, <2>4, EventFields
<1> QED BY <1>2, <1>3, <1>4 DEF Shown, Panels

LEMMA HeardType == ASSUME NEW v \in Views, NEW l \in Lines PROVE Heard(v, l) \in Views
<1>1. v.nick \in Nicks /\ v.acc \in ListMaps /\ v.confirmed \in FlagMaps /\ v.roster \in ListMaps
  BY DEF Views
<1>2. NickAfter(v, l) \in Nicks
  BY <1>1, LineFields DEF NickAfter
<1>3. ConfirmedAfter(v, l) \in FlagMaps
  <2>1. \A c \in Channels, x \in SUBSET Flags : Put(v.confirmed, c, x) \in FlagMaps
    BY <1>1, PutFacts DEF FlagMaps
  <2>2. \A c \in Channels, f \in Flags, add \in BOOLEAN :
          Changed(v.confirmed[c], add, f) \in SUBSET Flags
    BY <1>1, ChangedType DEF FlagMaps
  <2> QED BY <1>1, <2>1, <2>2, LineFields DEF ConfirmedAfter
<1>4. AccAfter(v, l) \in ListMaps
  <2>1. CASE l.cmd \in {"JOIN", "PART", "KICK", "MODE", "353", "366"}
    BY <1>1, <2>1, LineFields, ListTypes DEF AccAfter
  <2>2. CASE l.cmd \in {"QUIT", "NICK"}
    BY <1>1, <2>2, LineFields, RenamedAllType, WithoutAllType DEF AccAfter
  <2>3. CASE l.cmd \in {"FLAG", "324"}
    BY <1>1, <2>3 DEF AccAfter
  <2> QED BY <2>1, <2>2, <2>3, LineFields
<1>5. PanelAfter(v, l) \in ListMaps
  <2>1. CASE l.cmd \in {"JOIN", "PART", "KICK", "MODE"}
    BY <1>1, <2>1, LineFields, ListTypes DEF PanelAfter
  <2>2. CASE l.cmd \in {"QUIT", "NICK"}
    BY <1>1, <2>2, LineFields, RenamedAllType, WithoutAllType DEF PanelAfter
  <2>3. CASE l.cmd \in {"FLAG", "324", "353"}
    BY <1>1, <2>3 DEF PanelAfter
  <2>4. CASE l.cmd = "366"
    <3>1. v.acc[l.chan] \in Seq(Entries) /\ l.chan \in Channels
      BY <1>1, <2>4, LineFields DEF ListMaps
    <3> QED BY <1>1, <2>4, <3>1, ListTypes DEF PanelAfter
  <2> QED BY <2>1, <2>2, <2>3, <2>4, LineFields
<1> QED BY <1>2, <1>3, <1>4, <1>5 DEF Heard, Views

-----------------------------------------------------------------------------
(* Playing one more, and one less *)

LEMMA NoEvents == ASSUME NEW p \in Panels PROVE EventsLead(p, <<>>, p)
<1> DEFINE b == [i \in 0..0 |-> p]
<1>1. Len(<<>>) = 0 /\ 1..0 = {}
  OBVIOUS
<1>2. b \in [0..Len(<<>>) -> Panels] /\ b[0] = p /\ b[Len(<<>>)] = p
  BY <1>1
<1>3. \A i \in 1..Len(<<>>) : b[i] = Shown(b[i - 1], <<>>[i])
  BY <1>1
<1> QED BY <1>2, <1>3 DEF EventsLead

LEMMA NoEventsLeft == ASSUME NEW p, NEW q, EventsLead(p, <<>>, q) PROVE p = q
<1>1. Len(<<>>) = 0
  OBVIOUS
<1> QED BY <1>1 DEF EventsLead

LEMMA EventTaken ==
  ASSUME NEW es \in Seq(Events), es # <<>>, NEW p, NEW q, EventsLead(p, es, q)
  PROVE  /\ Head(es) \in Events /\ Tail(es) \in Seq(Events) /\ Len(Tail(es)) <= Len(es)
         /\ EventsLead(Shown(p, Head(es)), Tail(es), q)
<1>1. PICK b \in [0..Len(es) -> Panels] :
        b[0] = p /\ b[Len(es)] = q /\ \A i \in 1..Len(es) : b[i] = Shown(b[i - 1], es[i])
  BY DEF EventsLead
<1>2. /\ Len(es) \in Nat \ {0} /\ Tail(es) \in Seq(Events) /\ Len(Tail(es)) = Len(es) - 1
      /\ \A i \in 1..Len(Tail(es)) : Tail(es)[i] = es[i + 1]
      /\ Head(es) = es[1] /\ Head(es) \in Events
  BY HeadTailProperties, EmptySeq, LenProperties
<1> DEFINE n == Len(es) - 1
           c == [i \in 0..n |-> b[i + 1]]
<1>3. n \in Nat /\ n + 1 = Len(es)
  BY <1>2
<1>4. c \in [0..n -> Panels]
  <2>1. \A i \in 0..n : i + 1 \in 0..Len(es)
    BY <1>3
  <2> QED BY <2>1
<1>5. c[0] = Shown(p, Head(es))
  <2>1. c[0] = b[1] /\ 1 \in 1..Len(es) /\ 1 - 1 = 0
    BY <1>3
  <2> QED BY <1>1, <1>2, <2>1
<1>6. c[n] = q
  BY <1>1, <1>3
<1>7. ASSUME NEW i \in 1..n PROVE c[i] = Shown(c[i - 1], Tail(es)[i])
  <2>1. /\ i + 1 \in 1..Len(es) /\ i + 1 - 1 = i /\ i - 1 \in 0..n /\ i - 1 + 1 = i
        /\ i \in 0..n
    BY <1>3
  <2>2. c[i] = b[i + 1] /\ c[i - 1] = b[i]
    BY <2>1
  <2>3. b[i + 1] = Shown(b[i], es[i + 1])
    BY <1>1, <2>1
  <2> QED BY <1>2, <2>2, <2>3
<1> HIDE DEF c, n
<1>8. Len(Tail(es)) = n
  BY <1>2 DEF n
<1>9. EventsLead(Shown(p, Head(es)), Tail(es), q)
  BY <1>4, <1>5, <1>6, <1>7, <1>8 DEF EventsLead
<1> QED BY <1>2, <1>9

LEMMA EventAdded ==
  ASSUME NEW es \in Seq(Events), NEW e \in Events, NEW p, NEW q, EventsLead(p, es, q)
  PROVE  /\ q \in Panels /\ es \o <<e>> = Append(es, e) /\ Append(es, e) \in Seq(Events)
         /\ EventsLead(p, Append(es, e), Shown(q, e))
<1>1. PICK b \in [0..Len(es) -> Panels] :
        b[0] = p /\ b[Len(es)] = q /\ \A i \in 1..Len(es) : b[i] = Shown(b[i - 1], es[i])
  BY DEF EventsLead
<1> DEFINE n == Len(es)
           fs == Append(es, e)
           x == Shown(q, e)
           c == [i \in 0..(n + 1) |-> IF i = n + 1 THEN x ELSE b[i]]
<1>2. /\ n \in Nat /\ fs \in Seq(Events) /\ Len(fs) = n + 1
      /\ \A i \in 1..n : fs[i] = es[i]
      /\ fs[n + 1] = e
  BY AppendProperties, LenProperties
<1>3. q \in Panels
  BY <1>1, <1>2
<1>4. x \in Panels
  BY <1>3, ShownType
<1> HIDE DEF x, n, fs
<1>5. c \in [0..(n + 1) -> Panels]
  <2>1. \A i \in 0..(n + 1) : i # n + 1 => i \in 0..n
    BY <1>2
  <2>2. b \in [0..n -> Panels]
    BY <1>1 DEF n
  <2> QED BY <1>4, <2>1, <2>2
<1>6. c[0] = p /\ c[n + 1] = x
  BY <1>1, <1>2
<1>7. ASSUME NEW i \in 1..(n + 1) PROVE c[i] = Shown(c[i - 1], fs[i])
  <2>1. CASE i = n + 1
    <3>1. c[i] = x /\ i - 1 = n /\ n \in 0..(n + 1) /\ n # n + 1
      BY <1>2, <2>1
    <3>2. c[i - 1] = b[n]
      BY <3>1
    <3>3. b[n] = q
      BY <1>1 DEF n
    <3> QED BY <1>2, <2>1, <3>1, <3>2, <3>3 DEF x
  <2>2. CASE i # n + 1
    <3>1. i \in 1..n /\ i - 1 \in 0..(n + 1) /\ i - 1 # n + 1 /\ i \in 0..(n + 1)
      BY <1>2, <2>2
    <3>2. c[i] = b[i] /\ c[i - 1] = b[i - 1]
      BY <2>2, <3>1
    <3>3. b[i] = Shown(b[i - 1], es[i])
      BY <1>1, <3>1 DEF n
    <3> QED BY <1>2, <3>1, <3>2, <3>3
  <2> QED BY <2>1, <2>2
<1> HIDE DEF c
<1>8. EventsLead(p, fs, x)
  BY <1>2, <1>5, <1>6, <1>7 DEF EventsLead
<1>9. es \o <<e>> = fs
  BY AppendIsConcat DEF fs
<1> QED BY <1>2, <1>3, <1>8, <1>9 DEF x, fs

LEMMA NoLines == ASSUME NEW v \in Views PROVE LinesLead(v, <<>>, v)
<1> DEFINE b == [i \in 0..0 |-> v]
<1>1. Len(<<>>) = 0 /\ 1..0 = {}
  OBVIOUS
<1>2. b \in [0..Len(<<>>) -> Views] /\ b[0] = v /\ b[Len(<<>>)] = v
  BY <1>1
<1>3. \A i \in 1..Len(<<>>) : b[i] = Heard(b[i - 1], <<>>[i])
  BY <1>1
<1> QED BY <1>2, <1>3 DEF LinesLead

LEMMA NoLinesLeft == ASSUME NEW v, NEW w, LinesLead(v, <<>>, w) PROVE v = w
<1>1. Len(<<>>) = 0
  OBVIOUS
<1> QED BY <1>1 DEF LinesLead

LEMMA LineTaken ==
  ASSUME NEW ls \in Seq(Lines), ls # <<>>, NEW v, NEW w, LinesLead(v, ls, w)
  PROVE  /\ Head(ls) \in Lines /\ Tail(ls) \in Seq(Lines) /\ Len(Tail(ls)) <= Len(ls)
         /\ LinesLead(Heard(v, Head(ls)), Tail(ls), w)
<1>1. PICK b \in [0..Len(ls) -> Views] :
        b[0] = v /\ b[Len(ls)] = w /\ \A i \in 1..Len(ls) : b[i] = Heard(b[i - 1], ls[i])
  BY DEF LinesLead
<1>2. /\ Len(ls) \in Nat \ {0} /\ Tail(ls) \in Seq(Lines) /\ Len(Tail(ls)) = Len(ls) - 1
      /\ \A i \in 1..Len(Tail(ls)) : Tail(ls)[i] = ls[i + 1]
      /\ Head(ls) = ls[1] /\ Head(ls) \in Lines
  BY HeadTailProperties, EmptySeq, LenProperties
<1> DEFINE n == Len(ls) - 1
           c == [i \in 0..n |-> b[i + 1]]
<1>3. n \in Nat /\ n + 1 = Len(ls)
  BY <1>2
<1>4. c \in [0..n -> Views]
  <2>1. \A i \in 0..n : i + 1 \in 0..Len(ls)
    BY <1>3
  <2> QED BY <2>1
<1>5. c[0] = Heard(v, Head(ls))
  <2>1. c[0] = b[1] /\ 1 \in 1..Len(ls) /\ 1 - 1 = 0
    BY <1>3
  <2> QED BY <1>1, <1>2, <2>1
<1>6. c[n] = w
  BY <1>1, <1>3
<1>7. ASSUME NEW i \in 1..n PROVE c[i] = Heard(c[i - 1], Tail(ls)[i])
  <2>1. /\ i + 1 \in 1..Len(ls) /\ i + 1 - 1 = i /\ i - 1 \in 0..n /\ i - 1 + 1 = i
        /\ i \in 0..n
    BY <1>3
  <2>2. c[i] = b[i + 1] /\ c[i - 1] = b[i]
    BY <2>1
  <2>3. b[i + 1] = Heard(b[i], ls[i + 1])
    BY <1>1, <2>1
  <2> QED BY <1>2, <2>2, <2>3
<1> HIDE DEF c, n
<1>8. Len(Tail(ls)) = n
  BY <1>2 DEF n
<1>9. LinesLead(Heard(v, Head(ls)), Tail(ls), w)
  BY <1>4, <1>5, <1>6, <1>7, <1>8 DEF LinesLead
<1> QED BY <1>2, <1>9

LEMMA LineAdded ==
  ASSUME NEW ls \in Seq(Lines), NEW l \in Lines, NEW v, NEW w, LinesLead(v, ls, w)
  PROVE  /\ w \in Views /\ Append(ls, l) \in Seq(Lines)
         /\ LinesLead(v, Append(ls, l), Heard(w, l))
<1>1. PICK b \in [0..Len(ls) -> Views] :
        b[0] = v /\ b[Len(ls)] = w /\ \A i \in 1..Len(ls) : b[i] = Heard(b[i - 1], ls[i])
  BY DEF LinesLead
<1> DEFINE n == Len(ls)
           fs == Append(ls, l)
           x == Heard(w, l)
           c == [i \in 0..(n + 1) |-> IF i = n + 1 THEN x ELSE b[i]]
<1>2. /\ n \in Nat /\ fs \in Seq(Lines) /\ Len(fs) = n + 1
      /\ \A i \in 1..n : fs[i] = ls[i]
      /\ fs[n + 1] = l
  BY AppendProperties, LenProperties
<1>3. w \in Views
  BY <1>1, <1>2
<1>4. x \in Views
  BY <1>3, HeardType
<1> HIDE DEF x, n, fs
<1>5. c \in [0..(n + 1) -> Views]
  <2>1. \A i \in 0..(n + 1) : i # n + 1 => i \in 0..n
    BY <1>2
  <2>2. b \in [0..n -> Views]
    BY <1>1 DEF n
  <2> QED BY <1>4, <2>1, <2>2
<1>6. c[0] = v /\ c[n + 1] = x
  BY <1>1, <1>2
<1>7. ASSUME NEW i \in 1..(n + 1) PROVE c[i] = Heard(c[i - 1], fs[i])
  <2>1. CASE i = n + 1
    <3>1. c[i] = x /\ i - 1 = n /\ n \in 0..(n + 1) /\ n # n + 1
      BY <1>2, <2>1
    <3>2. c[i - 1] = b[n]
      BY <3>1
    <3>3. b[n] = w
      BY <1>1 DEF n
    <3> QED BY <1>2, <2>1, <3>1, <3>2, <3>3 DEF x
  <2>2. CASE i # n + 1
    <3>1. i \in 1..n /\ i - 1 \in 0..(n + 1) /\ i - 1 # n + 1 /\ i \in 0..(n + 1)
      BY <1>2, <2>2
    <3>2. c[i] = b[i] /\ c[i - 1] = b[i - 1]
      BY <2>2, <3>1
    <3>3. b[i] = Heard(b[i - 1], ls[i])
      BY <1>1, <3>1 DEF n
    <3> QED BY <1>2, <3>1, <3>2, <3>3
  <2> QED BY <2>1, <2>2
<1> HIDE DEF c
<1>8. LinesLead(v, fs, x)
  BY <1>2, <1>5, <1>6, <1>7 DEF LinesLead
<1> QED BY <1>2, <1>3, <1>8 DEF x, fs

-----------------------------------------------------------------------------
(* Steps of the bridge *)

LEMMA AgreesStill ==
  ASSUME NEW depth, NEW v, UNCHANGED server
  PROVE  (Agrees(depth, v) => Agrees(depth, v)') /\ (ServerOK => ServerOK') /\ changes' = changes
<1>1. /\ me' = me /\ on' = on /\ status' = status /\ flags' = flags
      /\ asked' = asked /\ todo' = todo /\ told' = told /\ untold' = untold /\ changes' = changes
  BY DEF server, channel, reply
<1>2. Agrees(depth, v) => Agrees(depth, v)'
  BY <1>1 DEF Agrees, ChannelAgrees, ListsAgree, StatusAgrees, Pending, Truth, Fresh
<1>3. ServerOK => ServerOK'
  BY <1>1 DEF ServerOK
<1> QED BY <1>1, <1>2, <1>3

LEMMA BridgeStep ==
  ASSUME NEW depth, IInv(depth), events # <<>>, events' = Tail(events),
         UNCHANGED <<server, wire, session>>, ThePanel' = Shown(ThePanel, Head(events))
  PROVE  IInv(depth)'
<1>1. /\ UNCHANGED server /\ wire' = wire /\ nick' = nick /\ acc' = acc /\ confirmed' = confirmed
  BY DEF session
<1>2. PICK p \in Panels, v \in Views :
        /\ EventsLead(ThePanel, events, p) /\ p.nickname = nick /\ p.modes = confirmed
        /\ LinesLead(TheView(p.roster), wire, v) /\ Agrees(depth, v)
  BY DEF IInv, PlayedOK
<1>3. /\ Head(events) \in Events /\ Tail(events) \in Seq(Events)
      /\ Len(Tail(events)) <= Len(events)
      /\ EventsLead(Shown(ThePanel, Head(events)), Tail(events), p)
  BY <1>2, EventTaken DEF IInv, UnderWayOK
<1>4. ThePanel' \in Panels
  BY <1>3, ShownType DEF IInv, HeldOK
<1>5. HeldOK'
  BY <1>1, <1>4 DEF IInv, HeldOK
<1>6. UnderWayOK'
  <2>1. Len(events) \in Nat /\ Len(Tail(events)) \in Nat /\ Len(events) <= MaxEvents
    BY <1>3, LenProperties DEF IInv, UnderWayOK
  <2>2. Len(Tail(events)) <= MaxEvents
    BY <1>3, <2>1, NamesAssumption
  <2> QED BY <1>1, <1>3, <2>2, AgreesStill DEF IInv, UnderWayOK
<1>7. ServerOK' /\ Agrees(depth, v)'
  BY <1>1, <1>2, AgreesStill DEF IInv
<1>8. EventsLead(ThePanel', events', p) /\ p.nickname = nick' /\ p.modes = confirmed'
  BY <1>1, <1>2, <1>3
<1>9. LinesLead(TheView(p.roster)', wire', v)
  <2>1. TheView(p.roster)' = TheView(p.roster)
    BY <1>1 DEF TheView
  <2> QED BY <1>1, <1>2, <2>1
<1>10. PlayedOK(depth)'
  BY <1>7, <1>8, <1>9 DEF PlayedOK
<1> QED BY <1>5, <1>6, <1>7, <1>10 DEF IInv

\* The bridge does with an event what playing it says.
LEMMA BridgePlays ==
  ASSUME HeldOK, Bridge
  PROVE  /\ events # <<>> /\ events' = Tail(events) /\ UNCHANGED <<server, wire, session>>
         /\ ThePanel' = Shown(ThePanel, Head(events))
<1> DEFINE e == Head(events)
<1>1. \/ ShowsJoin \/ ShowsGone("Part") \/ ShowsGone("Kick") \/ ShowsQuit \/ ShowsNickChanged
      \/ ShowsNickRename \/ ShowsMemberMode \/ ShowsModes \/ ShowsNames \/ ShowsDisconnected
  BY DEF Bridge
<1>2. /\ events # <<>> /\ events' = Tail(events) /\ UNCHANGED <<server, wire, session>>
  BY <1>1 DEF ShowsJoin, ShowsGone, ShowsQuit, ShowsNickChanged, ShowsNickRename,
     ShowsMemberMode, ShowsModes, ShowsNames, ShowsDisconnected, Handles
<1>3. ThePanel.nickname = nickname /\ ThePanel.roster = roster /\ ThePanel.modes = modes
  BY DEF ThePanel
<1>4. SUFFICES nickname' = NicknameAfter(ThePanel, e) /\ roster' = RosterAfter(ThePanel, e)
               /\ modes' = ModesAfter(ThePanel, e)
  BY <1>2 DEF ThePanel, Shown
<1>5. ASSUME ShowsJoin
      PROVE  nickname' = NicknameAfter(ThePanel, e) /\ roster' = RosterAfter(ThePanel, e)
             /\ modes' = ModesAfter(ThePanel, e)
  BY <1>3, <1>5 DEF ShowsJoin, Handles, event, NicknameAfter, RosterAfter, ModesAfter, Put
<1>6. ASSUME ShowsGone("Part")
      PROVE  nickname' = NicknameAfter(ThePanel, e) /\ roster' = RosterAfter(ThePanel, e)
             /\ modes' = ModesAfter(ThePanel, e)
  BY <1>3, <1>6 DEF ShowsGone, Handles, event, Forgets, Gone,
     NicknameAfter, RosterAfter, ModesAfter, Put
<1>7. ASSUME ShowsGone("Kick")
      PROVE  nickname' = NicknameAfter(ThePanel, e) /\ roster' = RosterAfter(ThePanel, e)
             /\ modes' = ModesAfter(ThePanel, e)
  BY <1>3, <1>7 DEF ShowsGone, Handles, event, Forgets, Gone,
     NicknameAfter, RosterAfter, ModesAfter, Put
<1>8. ASSUME ShowsQuit \/ ShowsNickChanged
      PROVE  nickname' = NicknameAfter(ThePanel, e) /\ roster' = RosterAfter(ThePanel, e)
             /\ modes' = ModesAfter(ThePanel, e)
  BY <1>3, <1>8 DEF ShowsQuit, ShowsNickChanged, Handles, event, WithoutAll,
     NicknameAfter, RosterAfter, ModesAfter
<1>9. ASSUME ShowsNickRename
      PROVE  nickname' = NicknameAfter(ThePanel, e) /\ roster' = RosterAfter(ThePanel, e)
             /\ modes' = ModesAfter(ThePanel, e)
  BY <1>3, <1>9 DEF ShowsNickRename, Handles, event, RenamedAll,
     NicknameAfter, RosterAfter, ModesAfter
<1>10. ASSUME ShowsMemberMode
      PROVE  nickname' = NicknameAfter(ThePanel, e) /\ roster' = RosterAfter(ThePanel, e)
             /\ modes' = ModesAfter(ThePanel, e)
  BY <1>3, <1>10 DEF ShowsMemberMode, Handles, event, NicknameAfter, RosterAfter, ModesAfter, Put
<1>11. ASSUME ShowsModes \/ ShowsNames \/ ShowsDisconnected
      PROVE  nickname' = NicknameAfter(ThePanel, e) /\ roster' = RosterAfter(ThePanel, e)
             /\ modes' = ModesAfter(ThePanel, e)
  BY <1>3, <1>11 DEF ShowsModes, ShowsNames, ShowsDisconnected, Handles, event,
     NicknameAfter, RosterAfter, ModesAfter, Put
<1> QED BY <1>1, <1>5, <1>6, <1>7, <1>8, <1>9, <1>10, <1>11

-----------------------------------------------------------------------------
(* Steps of the session *)

\* What the session does with its next line, taking the bridge's end from p to q.
Carries(p, q) ==
  /\ q.nickname = nick' /\ q.modes = confirmed'
  /\ TheView(q.roster)' = Heard(TheView(p.roster), line)

\* The events that come of a line: none, one or two.
Carried(p) ==
  \/ events' = events /\ Carries(p, p)
  \/ \E e \in Events : events' = events \o <<e>> /\ Carries(p, Shown(p, e))
  \/ \E e, f \in Events : events' = events \o <<e, f>> /\ Carries(p, Shown(Shown(p, e), f))

LEMMA TwoEvents ==
  ASSUME NEW e \in Events, NEW f \in Events
  PROVE  <<e>> \in Seq(Events) /\ <<f>> \in Seq(Events) /\ <<e>> \o <<f>> = <<e, f>>
<1>1. /\ <<e>> \in Seq(Events) /\ Len(<<e>>) = 1 /\ <<e>>[1] = e
      /\ <<f>> \in Seq(Events) /\ Len(<<f>>) = 1 /\ <<f>>[1] = f
      /\ <<e, f>> \in Seq(Events) /\ Len(<<e, f>>) = 2 /\ <<e, f>>[1] = e /\ <<e, f>>[2] = f
  OBVIOUS
<1> DEFINE a == <<e>>
           b == <<f>>
           d == <<e, f>>
<1> HIDE DEF a, b, d
<1>2. /\ a \o b \in Seq(Events) /\ Len(a \o b) = Len(a) + Len(b)
      /\ \A i \in 1..(Len(a) + Len(b)) : (a \o b)[i] = IF i <= Len(a) THEN a[i] ELSE b[i - Len(a)]
  BY <1>1, ConcatProperties DEF a, b
<1>3. Len(a) = 1 /\ Len(b) = 1 /\ Len(d) = 2 /\ a[1] = e /\ b[1] = f /\ d[1] = e /\ d[2] = f
      /\ d \in Seq(Events)
  BY <1>1 DEF a, b, d
<1>4. Len(a \o b) = Len(d)
  BY <1>2, <1>3
<1>5. (a \o b)[1] = e /\ (a \o b)[2] = f
  BY <1>2, <1>3
<1>6. \A i \in 1..Len(a \o b) : (a \o b)[i] = d[i]
  <2>1. \A i \in 1..Len(a \o b) : i = 1 \/ i = 2
    BY <1>3, <1>4
  <2> QED BY <1>3, <1>5, <2>1
<1>7. a \o b = d
  BY <1>2, <1>3, <1>4, <1>6, SeqEqual
<1> QED BY <1>1, <1>7 DEF a, b, d

LEMMA SessionStep ==
  ASSUME NEW depth, IInv(depth), wire # <<>>, wire' = Tail(wire), UNCHANGED <<server, bridge>>,
         Len(events') <= MaxEvents,
         nick' \in Nicks, acc' \in ListMaps, confirmed' \in FlagMaps,
         \A p \in Panels : p.nickname = nick /\ p.modes = confirmed => Carried(p)
  PROVE  IInv(depth)'
<1>1. UNCHANGED server /\ ThePanel' = ThePanel
  BY DEF bridge, ThePanel
<1>2. PICK p \in Panels, v \in Views :
        /\ EventsLead(ThePanel, events, p) /\ p.nickname = nick /\ p.modes = confirmed
        /\ LinesLead(TheView(p.roster), wire, v) /\ Agrees(depth, v)
  BY DEF IInv, PlayedOK
<1>3. PICK q : /\ events' \in Seq(Events) /\ q \in Panels
               /\ EventsLead(ThePanel, events', q) /\ Carries(p, q)
  <2>1. events \in Seq(Events)
    BY DEF IInv, UnderWayOK
  <2>2. CASE events' = events /\ Carries(p, p)
    BY <1>2, <2>1, <2>2
  <2>3. CASE \E e \in Events : events' = events \o <<e>> /\ Carries(p, Shown(p, e))
    <3>1. PICK e \in Events : events' = events \o <<e>> /\ Carries(p, Shown(p, e))
      BY <2>3
    <3>2. /\ events \o <<e>> = Append(events, e) /\ Append(events, e) \in Seq(Events)
          /\ EventsLead(ThePanel, Append(events, e), Shown(p, e))
      BY <1>2, <2>1, EventAdded
    <3>3. Shown(p, e) \in Panels
      BY ShownType
    <3> QED BY <3>1, <3>2, <3>3
  <2>4. CASE \E e, f \in Events : /\ events' = events \o <<e, f>>
                                  /\ Carries(p, Shown(Shown(p, e), f))
    <3>1. PICK e \in Events, f \in Events :
            events' = events \o <<e, f>> /\ Carries(p, Shown(Shown(p, e), f))
      BY <2>4
    <3>2. /\ events \o <<e>> = Append(events, e) /\ Append(events, e) \in Seq(Events)
          /\ EventsLead(ThePanel, Append(events, e), Shown(p, e))
      BY <1>2, <2>1, EventAdded
    <3>3. /\ Append(events, e) \o <<f>> = Append(Append(events, e), f)
          /\ Append(Append(events, e), f) \in Seq(Events)
          /\ EventsLead(ThePanel, Append(Append(events, e), f), Shown(Shown(p, e), f))
      BY <3>2, EventAdded
    <3>4. events \o <<e, f>> = Append(Append(events, e), f)
      <4>1. <<e>> \in Seq(Events) /\ <<f>> \in Seq(Events) /\ <<e>> \o <<f>> = <<e, f>>
        BY TwoEvents
      <4>2. (events \o <<e>>) \o <<f>> = events \o (<<e>> \o <<f>>)
        BY <2>1, <4>1, ConcatAssociative
      <4> QED BY <3>2, <3>3, <4>1, <4>2
    <3>5. Shown(Shown(p, e), f) \in Panels
      BY ShownType
    <3> QED BY <3>1, <3>3, <3>4, <3>5
  <2> QED BY <1>2, <2>2, <2>3, <2>4 DEF Carried
<1>4. /\ Head(wire) \in Lines /\ Tail(wire) \in Seq(Lines) /\ Len(Tail(wire)) <= Len(wire)
      /\ LinesLead(Heard(TheView(p.roster), Head(wire)), Tail(wire), v)
  BY <1>2, LineTaken DEF IInv, UnderWayOK
<1>5. LinesLead(TheView(q.roster)', wire', v)
  BY <1>3, <1>4 DEF Carries, line
<1>6. ServerOK' /\ Agrees(depth, v)' /\ changes' = changes
  BY <1>1, <1>2, AgreesStill DEF IInv
<1>7. UnderWayOK'
  <2>1. Len(wire) \in Nat /\ Len(Tail(wire)) \in Nat /\ Len(wire) <= MaxWire
    BY <1>4, LenProperties DEF IInv, UnderWayOK
  <2>2. Len(Tail(wire)) <= MaxWire
    BY <1>4, <2>1, NamesAssumption
  <2> QED BY <1>3, <1>4, <1>6, <2>2 DEF IInv, UnderWayOK
<1>8. HeldOK'
  BY <1>1 DEF IInv, HeldOK
<1>9. q.nickname = nick' /\ q.modes = confirmed'
  BY <1>3 DEF Carries
<1>10. PlayedOK(depth)'
  BY <1>1, <1>3, <1>5, <1>6, <1>9 DEF PlayedOK
<1> QED BY <1>6, <1>7, <1>8, <1>10 DEF IInv

\* What is to be shown of a line, field by field.
Follows(p, q) ==
  /\ q.nickname = nick' /\ q.modes = confirmed'
  /\ nick' = NickAfter(TheView(p.roster), line)
  /\ acc' = AccAfter(TheView(p.roster), line)
  /\ confirmed' = ConfirmedAfter(TheView(p.roster), line)
  /\ q.roster = PanelAfter(TheView(p.roster), line)

LEMMA FollowsCarries == ASSUME NEW p, NEW q, Follows(p, q) PROVE Carries(p, q)
  BY DEF Follows, Carries, TheView, Heard

LEMMA ViewFields ==
  ASSUME NEW shown
  PROVE  /\ TheView(shown).nick = nick /\ TheView(shown).acc = acc
         /\ TheView(shown).confirmed = confirmed /\ TheView(shown).roster = shown
  BY DEF TheView

LEMMA JoinCarried ==
  ASSUME HearsJoin, line \in Lines, NEW p \in Panels, p.nickname = nick, p.modes = confirmed
  PROVE  Carried(p)
<1> DEFINE e == [kind |-> "Join", chan |-> line.chan, nick |-> line.nick, self |-> line.nick = nick]
<1>1. line.cmd = "JOIN" /\ events' = events \o <<e>>
  BY DEF HearsJoin, Hears, Emits, Membership, line
<1>2. e \in Events
  BY <1>1, LineFields DEF Events
<1>3. Follows(p, Shown(p, e))
  <2>1. nick' = nick /\ confirmed' = confirmed
        /\ acc' = IF line.nick = nick THEN acc ELSE Put(acc, line.chan, Add(acc[line.chan], line.nick))
    BY DEF HearsJoin, Put
  <2>2. CASE line.nick = nick
    BY <1>1, <2>1, <2>2, ViewFields DEF Follows, Shown, NicknameAfter, RosterAfter, ModesAfter,
       NickAfter, AccAfter, ConfirmedAfter, PanelAfter, Self
  <2>3. CASE line.nick # nick
    BY <1>1, <2>1, <2>3, ViewFields DEF Follows, Shown, NicknameAfter, RosterAfter, ModesAfter,
       NickAfter, AccAfter, ConfirmedAfter, PanelAfter, Self
  <2> QED BY <2>2, <2>3
<1> QED BY <1>1, <1>2, <1>3, FollowsCarries DEF Carried

LEMMA GoneCarried ==
  ASSUME NEW cmd, NEW kind, <<cmd, kind>> \in {<<"PART", "Part">>, <<"KICK", "Kick">>},
         HearsGone(cmd, kind), line \in Lines,
         NEW p \in Panels, p.nickname = nick, p.modes = confirmed
  PROVE  Carried(p)
<1> DEFINE e == [kind |-> kind, chan |-> line.chan, nick |-> line.nick, self |-> line.nick = nick]
<1>1. line.cmd = cmd /\ events' = events \o <<e>>
  BY DEF HearsGone, Hears, Emits, Membership, line
<1>2. e \in Events
  BY <1>1, LineFields DEF Events
<1>3. cmd \in {"PART", "KICK"} /\ kind \in {"Part", "Kick"}
  OBVIOUS
<1>4. Gone(p, e) <=> line.nick = nick
  BY <1>3 DEF Gone
<1>5. /\ nick' = nick
      /\ line.nick = nick => /\ acc' = Put(acc, line.chan, <<>>)
                             /\ confirmed' = Put(confirmed, line.chan, {})
      /\ line.nick # nick => /\ acc' = Put(acc, line.chan, Without(acc[line.chan], line.nick))
                             /\ confirmed' = confirmed
  BY DEF HearsGone, Leaving, Put
<1>6. Follows(p, Shown(p, e))
  <2>1. CASE line.nick = nick
    BY <1>1, <1>3, <1>4, <1>5, <2>1, ViewFields DEF Follows, Shown, NicknameAfter, RosterAfter,
       ModesAfter, NickAfter, AccAfter, ConfirmedAfter, PanelAfter, Self
  <2>2. CASE line.nick # nick
    BY <1>1, <1>3, <1>4, <1>5, <2>2, ViewFields DEF Follows, Shown, NicknameAfter, RosterAfter,
       ModesAfter, NickAfter, AccAfter, ConfirmedAfter, PanelAfter, Self
  <2> QED BY <2>1, <2>2
<1> QED BY <1>1, <1>2, <1>6, FollowsCarries DEF Carried

LEMMA QuitCarried ==
  ASSUME HearsQuit, line \in Lines, NEW p \in Panels, p.nickname = nick, p.modes = confirmed
  PROVE  Carried(p)
<1> DEFINE e == [kind |-> "Quit", nick |-> line.nick]
<1>1. line.cmd = "QUIT" /\ events' = events \o <<e>>
  BY DEF HearsQuit, Hears, Emits, line
<1>2. e \in Events
  BY <1>1, LineFields DEF Events
<1>3. Follows(p, Shown(p, e))
  <2>1. nick' = nick /\ confirmed' = confirmed /\ acc' = WithoutAll(acc, line.nick)
    BY DEF HearsQuit, WithoutAll
  <2> QED BY <1>1, <2>1, ViewFields DEF Follows, Shown, NicknameAfter, RosterAfter, ModesAfter,
       NickAfter, AccAfter, ConfirmedAfter, PanelAfter, Self
<1> QED BY <1>1, <1>2, <1>3, FollowsCarries DEF Carried

LEMMA NickCarried ==
  ASSUME HearsNick, line \in Lines, NEW p \in Panels, p.nickname = nick, p.modes = confirmed
  PROVE  Carried(p)
<1> DEFINE self == line.old = nick
           e == [kind |-> "NickChanged", nick |-> line.new]
           f == [kind |-> "NickRename", old |-> line.old, new |-> line.new, self |-> self]
           g == Shown(p, e)
<1>1. /\ line.cmd = "NICK"
      /\ events' = events \o (IF self THEN <<e, f>> ELSE <<f>>)
      /\ acc' = [c \in Channels |-> Renamed(acc[c], line.old, line.new)]
      /\ nick' = (IF self THEN line.new ELSE nick)
      /\ confirmed' = confirmed
  BY DEF HearsNick, Hears, Emits, line
<1>2. e \in Events /\ f \in Events
  BY <1>1, LineFields DEF Events
<1>3. CASE self
  <2>1. g.nickname = line.new /\ g.roster = p.roster /\ g.modes = confirmed
    BY DEF Shown, NicknameAfter, RosterAfter, ModesAfter
  <2>2. Follows(p, Shown(g, f))
    <3> HIDE DEF g
    <3> QED BY <1>1, <1>3, <2>1, ViewFields DEF Follows, Shown, NicknameAfter, RosterAfter, ModesAfter,
       NickAfter, AccAfter, ConfirmedAfter, PanelAfter, Self
  <2>3. events' = events \o <<e, f>>
    BY <1>1, <1>3
  <2> QED BY <1>2, <2>2, <2>3, FollowsCarries DEF Carried
<1>4. CASE ~self
  <2>1. Follows(p, Shown(p, f))
    BY <1>1, <1>4, ViewFields DEF Follows, Shown, NicknameAfter, RosterAfter, ModesAfter,
       NickAfter, AccAfter, ConfirmedAfter, PanelAfter, Self
  <2>2. events' = events \o <<f>>
    BY <1>1, <1>4
  <2> QED BY <1>2, <2>1, <2>2, FollowsCarries DEF Carried
<1> QED BY <1>3, <1>4

LEMMA StatusCarried ==
  ASSUME HearsStatus, line \in Lines, NEW p \in Panels, p.nickname = nick, p.modes = confirmed
  PROVE  Carried(p)
<1> DEFINE e == [kind |-> "MemberMode", chan |-> line.chan, nick |-> line.nick,
                 add |-> line.add, prefix |-> line.prefix]
<1>1. line.cmd = "MODE" /\ events' = events \o <<e>>
  BY DEF HearsStatus, Hears, Emits, line
<1>2. e \in Events
  BY <1>1, LineFields DEF Events
<1>3. Follows(p, Shown(p, e))
  <2>1. nick' = nick /\ confirmed' = confirmed
        /\ acc' = Put(acc, line.chan, ModeOnAll(acc[line.chan], line.nick, line.add, line.prefix))
    BY DEF HearsStatus, Put
  <2> QED BY <1>1, <2>1, ViewFields DEF Follows, Shown, NicknameAfter, RosterAfter, ModesAfter,
       NickAfter, AccAfter, ConfirmedAfter, PanelAfter, Self
<1> QED BY <1>1, <1>2, <1>3, FollowsCarries DEF Carried

LEMMA FlagCarried ==
  ASSUME HearsFlag, line \in Lines, confirmed \in FlagMaps,
         NEW p \in Panels, p.nickname = nick, p.modes = confirmed
  PROVE  Carried(p)
<1> DEFINE x == Changed(confirmed[line.chan], line.add, line.flag)
           e == [kind |-> "ChannelModes", chan |-> line.chan, modes |-> x]
<1>1. /\ line.cmd = "FLAG" /\ line.chan \in Channels
      /\ nick' = nick /\ acc' = acc /\ confirmed' = Put(confirmed, line.chan, x)
  <2>1. line.cmd = "FLAG"
    BY DEF HearsFlag, Hears, line
  <2>2. line.chan \in Channels
    BY <2>1, LineFields
  <2> QED BY <2>1, <2>2 DEF HearsFlag, Put
<1>2. x \in SUBSET Flags
  <2>1. confirmed[line.chan] \subseteq Flags /\ line.flag \in Flags
    BY <1>1, LineFields DEF FlagMaps
  <2> QED BY <2>1, ChangedType
<1>3. e \in Events
  BY <1>1, <1>2 DEF Events
<1>4. CASE confirmed' = confirmed
  <2>1. events' = events \o <<>>
    BY <1>4 DEF HearsFlag, Emits
  <2>2. Follows(p, p)
    BY <1>1, <1>4, ViewFields DEF Follows, NickAfter, AccAfter, ConfirmedAfter, PanelAfter, Self
  <2> QED BY <2>1, <2>2, FollowsCarries DEF Carried
<1>5. CASE confirmed' # confirmed
  <2>1. confirmed'[line.chan] = x
    BY <1>1 DEF Put, FlagMaps
  <2>2. events' = events \o <<e>>
    BY <1>5, <2>1 DEF HearsFlag, Emits, ModesEvent
  <2>3. Follows(p, Shown(p, e))
    BY <1>1, ViewFields DEF Follows, Shown, NicknameAfter, RosterAfter, ModesAfter,
       NickAfter, AccAfter, ConfirmedAfter, PanelAfter, Self
  <2> QED BY <1>3, <2>2, <2>3, FollowsCarries DEF Carried
<1> QED BY <1>4, <1>5

LEMMA ModesCarried ==
  ASSUME HearsModes, line \in Lines, confirmed \in FlagMaps,
         NEW p \in Panels, p.nickname = nick, p.modes = confirmed
  PROVE  Carried(p)
<1> DEFINE e == [kind |-> "ChannelModes", chan |-> line.chan, modes |-> line.flags]
<1>1. /\ line.cmd = "324" /\ line.chan \in Channels /\ line.flags \in SUBSET Flags
      /\ nick' = nick /\ acc' = acc /\ confirmed' = Put(confirmed, line.chan, line.flags)
  <2>1. line.cmd = "324"
    BY DEF HearsModes, Hears, line
  <2>2. line.chan \in Channels /\ line.flags \in SUBSET Flags
    BY <2>1, LineFields
  <2> QED BY <2>1, <2>2 DEF HearsModes, Put
<1>2. e \in Events
  BY <1>1 DEF Events
<1>3. confirmed'[line.chan] = line.flags
  BY <1>1 DEF Put, FlagMaps
<1>4. events' = events \o <<e>>
  BY <1>3 DEF HearsModes, Emits, ModesEvent
<1>5. Follows(p, Shown(p, e))
  BY <1>1, ViewFields DEF Follows, Shown, NicknameAfter, RosterAfter, ModesAfter,
     NickAfter, AccAfter, ConfirmedAfter, PanelAfter, Self
<1> QED BY <1>2, <1>4, <1>5, FollowsCarries DEF Carried

LEMMA NamesCarried ==
  ASSUME HearsNames, line \in Lines, events \in Seq(Events),
         NEW p \in Panels, p.nickname = nick, p.modes = confirmed
  PROVE  Carried(p)
<1>1. /\ line.cmd = "353" /\ events' = events \o <<>> /\ nick' = nick /\ confirmed' = confirmed
      /\ acc' = IF Len(acc[line.chan]) < MaxNames
                THEN Put(acc, line.chan, Append(acc[line.chan], line.entry)) ELSE acc
  BY DEF HearsNames, Hears, Emits, line, Put
<1>2. events' = events
  BY <1>1, ConcatEmptySeq
<1>3. Follows(p, p)
  <2>1. CASE Len(acc[line.chan]) < MaxNames
    BY <1>1, <2>1, ViewFields DEF Follows, NickAfter, AccAfter, ConfirmedAfter, PanelAfter, Self
  <2>2. CASE ~(Len(acc[line.chan]) < MaxNames)
    BY <1>1, <2>2, ViewFields DEF Follows, NickAfter, AccAfter, ConfirmedAfter, PanelAfter, Self
  <2> QED BY <2>1, <2>2
<1> QED BY <1>2, <1>3, FollowsCarries DEF Carried

LEMMA EndCarried ==
  ASSUME HearsEndOfNames, line \in Lines, acc \in ListMaps,
         NEW p \in Panels, p.nickname = nick, p.modes = confirmed
  PROVE  Carried(p)
<1> DEFINE e == [kind |-> "Names", chan |-> line.chan, nicks |-> acc[line.chan]]
<1>1. /\ line.cmd = "366" /\ line.chan \in Channels /\ events' = events \o <<e>>
      /\ nick' = nick /\ confirmed' = confirmed /\ acc' = Put(acc, line.chan, <<>>)
  <2>1. line.cmd = "366"
    BY DEF HearsEndOfNames, Hears, line
  <2>2. line.chan \in Channels
    BY <2>1, LineFields
  <2> QED BY <2>1, <2>2 DEF HearsEndOfNames, Emits, Put
<1>2. e \in Events
  BY <1>1 DEF Events, ListMaps
<1>3. Follows(p, Shown(p, e))
  BY <1>1, ViewFields DEF Follows, Shown, NicknameAfter, RosterAfter, ModesAfter,
     NickAfter, AccAfter, ConfirmedAfter, PanelAfter, Self
<1> QED BY <1>1, <1>2, <1>3, FollowsCarries DEF Carried

\* A line the session takes in, whatever it is.
HearsALine ==
  \/ HearsJoin \/ HearsGone("PART", "Part") \/ HearsGone("KICK", "Kick") \/ HearsQuit
  \/ HearsNick \/ HearsStatus \/ HearsFlag \/ HearsModes \/ HearsNames \/ HearsEndOfNames

LEMMA SessionPlays ==
  ASSUME UnderWayOK, HeldOK, HearsALine
  PROVE  /\ wire # <<>> /\ wire' = Tail(wire) /\ UNCHANGED <<server, bridge>>
         /\ line \in Lines
         /\ \A p \in Panels : p.nickname = nick /\ p.modes = confirmed => Carried(p)
<1>1. wire # <<>> /\ wire' = Tail(wire) /\ UNCHANGED <<server, bridge>>
  BY DEF HearsALine, HearsJoin, HearsGone, HearsQuit, HearsNick, HearsStatus, HearsFlag,
     HearsModes, HearsNames, HearsEndOfNames, Hears
<1>2. line \in Lines
  BY <1>1, HeadTailProperties DEF UnderWayOK, line
<1>3. confirmed \in FlagMaps /\ acc \in ListMaps /\ events \in Seq(Events)
  BY DEF HeldOK, UnderWayOK
<1>4. ASSUME NEW p \in Panels, p.nickname = nick, p.modes = confirmed PROVE Carried(p)
  <2>1. CASE HearsJoin
    BY <1>2, <1>4, <2>1, JoinCarried
  <2>2. CASE HearsGone("PART", "Part")
    BY <1>2, <1>4, <2>2, GoneCarried
  <2>3. CASE HearsGone("KICK", "Kick")
    BY <1>2, <1>4, <2>3, GoneCarried
  <2>4. CASE HearsQuit
    BY <1>2, <1>4, <2>4, QuitCarried
  <2>5. CASE HearsNick
    BY <1>2, <1>4, <2>5, NickCarried
  <2>6. CASE HearsStatus
    BY <1>2, <1>4, <2>6, StatusCarried
  <2>7. CASE HearsFlag
    BY <1>2, <1>3, <1>4, <2>7, FlagCarried
  <2>8. CASE HearsModes
    BY <1>2, <1>3, <1>4, <2>8, ModesCarried
  <2>9. CASE HearsNames
    BY <1>2, <1>3, <1>4, <2>9, NamesCarried
  <2>10. CASE HearsEndOfNames
    BY <1>2, <1>3, <1>4, <2>10, EndCarried
  <2> QED BY <2>1, <2>2, <2>3, <2>4, <2>5, <2>6, <2>7, <2>8, <2>9, <2>10 DEF HearsALine
<1> QED BY <1>1, <1>2, <1>4

\* However many events a line becomes, they fit.
LEMMA EmitsFits ==
  ASSUME events \in Seq(Events), NEW T, NEW next \in Seq(T), Emits(next)
  PROVE  Len(events') <= MaxEvents
<1> DEFINE S == Events \cup T
<1>1. events \in Seq(S) /\ next \in Seq(S)
  BY SeqMonotonic
<1>2. Len(events \o next) = Len(events) + Len(next)
  BY <1>1, ConcatProperties
<1> QED BY <1>2 DEF Emits

LEMMA NoneFits == ASSUME events \in Seq(Events), Emits(<<>>) PROVE Len(events') <= MaxEvents
<1>1. <<>> \in Seq({})
  OBVIOUS
<1> QED BY <1>1, EmitsFits

LEMMA OneFits == ASSUME events \in Seq(Events), NEW e, Emits(<<e>>) PROVE Len(events') <= MaxEvents
<1>1. <<e>> \in Seq({e})
  OBVIOUS
<1> QED BY <1>1, EmitsFits

LEMMA NoneOrOneFits ==
  ASSUME events \in Seq(Events), NEW e, NEW none, none \in BOOLEAN, Emits(IF none THEN <<>> ELSE <<e>>)
  PROVE  Len(events') <= MaxEvents
<1>1. CASE none
  BY <1>1, NoneFits
<1>2. CASE ~none
  BY <1>2, OneFits
<1> QED BY <1>1, <1>2

LEMMA OneOrTwoFit ==
  ASSUME events \in Seq(Events), NEW e, NEW f, NEW two, two \in BOOLEAN,
         Emits(IF two THEN <<e, f>> ELSE <<f>>)
  PROVE  Len(events') <= MaxEvents
<1>1. <<e, f>> \in Seq({e, f})
  OBVIOUS
<1>2. CASE two
  BY <1>1, <1>2, EmitsFits
<1>3. CASE ~two
  BY <1>3, OneFits
<1> QED BY <1>2, <1>3

\* What the session holds keeps its type, and the bound on events is kept.
LEMMA SessionTyped ==
  ASSUME UnderWayOK, HeldOK, HearsALine
  PROVE  /\ nick' \in Nicks /\ acc' \in ListMaps /\ confirmed' \in FlagMaps
         /\ Len(events') <= MaxEvents
<1>1. line \in Lines /\ \A p \in Panels : p.nickname = nick /\ p.modes = confirmed => Carried(p)
  BY SessionPlays
<1>2. nick \in Nicks /\ acc \in ListMaps /\ confirmed \in FlagMaps /\ ThePanel \in Panels
  BY DEF HeldOK
<1> DEFINE p == [ThePanel EXCEPT !.nickname = nick, !.modes = confirmed]
           v == TheView(p.roster)
<1>3. p \in Panels /\ p.nickname = nick /\ p.modes = confirmed /\ p.roster \in ListMaps
  BY <1>2 DEF Panels, ThePanel
<1>4. v \in Views
  BY <1>2, <1>3 DEF TheView, Views
<1>5. Heard(v, line) \in Views
  BY <1>1, <1>4, HeardType
<1>6. \E q : TheView(q.roster)' = Heard(v, line)
  <2> HIDE DEF p, v
  <2>1. Carried(p)
    BY <1>1, <1>3
  <2>2. \E q : Carries(p, q)
    BY <2>1 DEF Carried
  <2> QED BY <2>2 DEF Carries, v
<1>7. nick' \in Nicks /\ acc' \in ListMaps /\ confirmed' \in FlagMaps
  <2> HIDE DEF v, p
  <2>1. PICK q : TheView(q.roster)' = Heard(v, line)
    BY <1>6
  <2>2. TheView(q.roster)' \in Views
    BY <1>5, <2>1
  <2> QED BY <2>2 DEF Views, TheView
<1>8. Len(events') <= MaxEvents
  <2>1. events \in Seq(Events)
    BY DEF UnderWayOK
  <2>2. CASE HearsFlag
    BY <2>1, <2>2, NoneOrOneFits DEF HearsFlag
  <2>3. CASE HearsNick
    BY <2>1, <2>3, OneOrTwoFit DEF HearsNick
  <2>4. CASE HearsNames
    BY <2>1, <2>4, NoneFits DEF HearsNames
  <2>5. CASE \/ HearsJoin \/ HearsGone("PART", "Part") \/ HearsGone("KICK", "Kick") \/ HearsQuit
             \/ HearsStatus \/ HearsModes \/ HearsEndOfNames
    <3>1. PICK e : Emits(<<e>>)
      BY <2>5 DEF HearsJoin, HearsGone, HearsQuit, HearsStatus, HearsModes, HearsEndOfNames, Membership
    <3> QED BY <2>1, <3>1, OneFits
  <2> QED BY <2>2, <2>3, <2>4, <2>5 DEF HearsALine
<1> QED BY <1>7, <1>8

-----------------------------------------------------------------------------
(* What the server does, one channel at a time *)

\* The server's side of a channel.
Kept(d) ==
  /\ me' = me /\ on'[d] = on[d] /\ status'[d] = status[d] /\ flags'[d] = flags[d]
  /\ asked'[d] = asked[d] /\ todo'[d] = todo[d] /\ told'[d] = told[d] /\ untold'[d] = untold[d]

LEMMA KeptAgrees ==
  ASSUME NEW depth, NEW d, Kept(d), NEW list, NEW shown, NEW kept,
         ChannelAgrees(depth, d, list, shown, kept)
  PROVE  ChannelAgrees(depth, d, list, shown, kept)'
  BY DEF Kept, ChannelAgrees, ListsAgree, StatusAgrees, Pending, Truth, Fresh

LEMMA WeJoinAgrees ==
  ASSUME ServerOK, NEW depth \in 0..2, NEW c \in Channels, WeJoin(c),
         NEW list \in Seq(Entries), NEW shown, NEW kept, ChannelAgrees(depth, c, list, shown, kept)
  PROVE  ChannelAgrees(depth, c, list, shown, kept)'
<1>1. /\ me' = me /\ me \notin on[c] /\ me \in on'[c] /\ ~asked[c] /\ asked'[c]
      /\ todo'[c] = on'[c] /\ status' = status /\ told' = told
  BY DEF WeJoin, ServerOK
<1>2. ~told[c]
  BY <1>1 DEF ChannelAgrees
<1>3. depth >= 1 => list = <<>>
  BY <1>1 DEF ChannelAgrees, ListsAgree
<1>4. ASSUME depth >= 1 PROVE Pending(c, list)'
  BY <1>1, <1>3, <1>4, NothingListed DEF Pending
<1>5. ASSUME depth >= 1 PROVE ListsAgree(c, list, shown)'
  BY <1>1, <1>4, <1>5 DEF ListsAgree
<1>6. ASSUME depth >= 2 PROVE StatusAgrees(c, list, shown)'
  <2>1. depth >= 1
    BY <1>6
  <2> QED BY <1>1, <1>3, <2>1, NothingListed DEF StatusAgrees, Fresh
<1> QED BY <1>1, <1>2, <1>5, <1>6 DEF ChannelAgrees

LEMMA TheyJoinAgrees ==
  ASSUME ServerOK, NEW depth \in 0..2, NEW c \in Channels, NEW n \in Nicks, TheyJoin(c, n),
         me \in on[c],
         NEW list \in Seq(Entries), NEW shown \in Seq(Entries), NEW kept,
         ChannelAgrees(depth, c, list, shown, kept)
  PROVE  ChannelAgrees(depth, c, Add(list, n), Add(shown, n), kept)'
<1>1. /\ me' = me /\ n # me /\ n \notin on[c] /\ on'[c] = on[c] \cup {n}
      /\ status' = status /\ untold' = untold /\ asked' = asked /\ told' = told /\ flags' = flags
      /\ todo'[c] = todo[c] \/ todo'[c] = todo[c] \cup {n}
      /\ status[c][n] = {} /\ untold[c][n] = {} /\ me \in on'[c] /\ todo[c] \subseteq on[c]
  BY DEF TheyJoin, ServerOK
<1>2. told'[c] => me' \in on'[c] /\ kept = flags'[c]
  BY <1>1 DEF ChannelAgrees
<1>3. ASSUME depth >= 1 PROVE ListsAgree(c, Add(list, n), Add(shown, n))'
  <2>1. Pending(c, list) /\ (~asked[c] => Names(shown) = on[c])
    BY <1>3 DEF ChannelAgrees, ListsAgree
  <2>2. n \notin Names(list)
    BY <1>1, <2>1 DEF Pending
  <2>3. /\ Names(Add(list, n)) = Names(list) \cup {n} /\ Names(Add(shown, n)) = Names(shown) \cup {n}
        /\ \A m : Once(list, m) => Once(Add(list, n), m)
        /\ Twice(list) => Twice(Add(list, n))
    BY <2>2, AddFacts
  <2>4. Once(list, n)
    BY <2>2 DEF Once, Names
  <2>5. Pending(c, Add(list, n))'
    <3>1. /\ Names(list) \subseteq on[c] /\ Twice(list)
          /\ \A m \in Nicks : ~asked[c] \/ m \in todo[c] => Once(list, m)
          /\ asked[c] => on[c] \subseteq Names(list) \cup todo[c]
      BY <2>1 DEF Pending
    <3>2. \A m \in Nicks : ~asked'[c] \/ m \in todo'[c] => Once(Add(list, n), m)
      BY <1>1, <2>3, <2>4, <3>1
    <3>3. Names(Add(list, n)) \subseteq on'[c] /\ Twice(Add(list, n))
      BY <1>1, <2>3, <3>1
    <3>4. asked'[c] => on'[c] \subseteq Names(Add(list, n)) \cup todo'[c]
      BY <1>1, <2>3, <3>1
    <3> QED BY <3>2, <3>3, <3>4 DEF Pending
  <2> QED BY <1>1, <2>1, <2>3, <2>5 DEF ListsAgree
<1>4. ASSUME depth >= 2 PROVE StatusAgrees(c, Add(list, n), Add(shown, n))'
  <2>1. depth >= 1
    BY <1>4
  <2>2. Pending(c, list) /\ (~asked[c] => Names(shown) = on[c])
    BY <2>1 DEF ChannelAgrees, ListsAgree
  <2>3. n \notin Names(list) /\ (~asked[c] => n \notin Names(shown))
    BY <1>1, <2>2 DEF Pending
  <2>4. /\ AllTrue(list, Truth(c)) /\ Fresh(c, list)
        /\ ~asked[c] => FirstTrue(shown, Truth(c))
    BY <1>1, <1>4 DEF ChannelAgrees, StatusAgrees
  <2>5. {} \in Truth(c)[n] /\ Truth(c)' = Truth(c)
    BY <1>1, ShowableFacts DEF Truth
  <2>6. AllTrue(Add(list, n), Truth(c))
    BY <2>3, <2>4, <2>5, AddFacts
  <2>7. ~asked[c] => FirstTrue(Add(shown, n), Truth(c))
    BY <2>3, <2>4, <2>5, AddFacts
  <2>8. Fresh(c, Add(list, n))'
    <3>1. Names(Add(list, n)) = Names(list) \cup {n}
      BY AddFacts
    <3> QED BY <1>1, <2>4, <3>1 DEF Fresh
  <2> QED BY <1>1, <2>5, <2>6, <2>7, <2>8 DEF StatusAgrees
<1> QED BY <1>2, <1>3, <1>4 DEF ChannelAgrees

\* n, not us, is on the channel no more.
GoesFrom(d, n) ==
  /\ me' = me /\ n # me /\ on'[d] = on[d] \ {n}
  /\ status'[d] = [status[d] EXCEPT ![n] = {}] /\ untold'[d] = [untold[d] EXCEPT ![n] = {}]
  /\ flags'[d] = flags[d] /\ asked'[d] = asked[d] /\ todo'[d] = todo[d] \ {n} /\ told'[d] = told[d]

LEMMA GoesAgrees ==
  ASSUME ServerOK, NEW depth \in 0..2, NEW d \in Channels, NEW n \in Nicks, GoesFrom(d, n),
         NEW list \in Seq(Entries), NEW shown \in Seq(Entries), NEW kept,
         ChannelAgrees(depth, d, list, shown, kept)
  PROVE  ChannelAgrees(depth, d, Without(list, n), Without(shown, n), kept)'
<1>1. /\ me' = me /\ n # me /\ on'[d] = on[d] \ {n}
      /\ flags'[d] = flags[d] /\ asked'[d] = asked[d] /\ todo'[d] = todo[d] \ {n} /\ told'[d] = told[d]
      /\ me \in on[d] <=> me' \in on'[d]
  BY DEF GoesFrom
<1>2. /\ \A m \in Nicks \ {n} : untold'[d][m] = untold[d][m]
      /\ \A m \in Nicks \ {n} : Truth(d)'[m] = Truth(d)[m]
  <2>1. \A m \in Nicks \ {n} : status'[d][m] = status[d][m] /\ untold'[d][m] = untold[d][m]
    BY DEF GoesFrom, ServerOK
  <2> QED BY <2>1 DEF Truth
<1>3. told'[d] => me' \in on'[d] /\ kept = flags'[d]
  BY <1>1 DEF ChannelAgrees
<1>4. /\ Without(list, n) \in Seq(Entries) /\ Without(shown, n) \in Seq(Entries)
      /\ Names(Without(list, n)) = Names(list) \ {n} /\ Names(Without(shown, n)) = Names(shown) \ {n}
      /\ \A m : Once(list, m) => Once(Without(list, n), m)
      /\ Twice(list) => Twice(Without(list, n))
      /\ \A st : AllTrue(list, st) => AllTrue(Without(list, n), st)
      /\ \A st : FirstTrue(shown, st) => FirstTrue(Without(shown, n), st)
  BY WithoutFacts
<1>5. ASSUME depth >= 1 PROVE ListsAgree(d, Without(list, n), Without(shown, n))'
  <2>1. ListsAgree(d, list, shown)
    BY <1>5 DEF ChannelAgrees
  <2>2. ASSUME me \in on[d] PROVE Pending(d, Without(list, n))'
    BY <1>1, <1>4, <2>1, <2>2 DEF ListsAgree, Pending
  <2>3. me \notin on[d] /\ ~asked[d] => Without(list, n) = <<>>
    BY <2>1, WithoutNothing DEF ListsAgree
  <2>4. me \in on[d] /\ ~asked[d] => Names(Without(shown, n)) = on'[d]
    BY <1>1, <1>4, <2>1 DEF ListsAgree
  <2> QED BY <1>1, <2>2, <2>3, <2>4 DEF ListsAgree
<1>6. ASSUME depth >= 2 PROVE StatusAgrees(d, Without(list, n), Without(shown, n))'
  <2>1. SUFFICES ASSUME me \in on[d]
                 PROVE  /\ AllTrue(Without(list, n), Truth(d)') /\ Fresh(d, Without(list, n))'
                        /\ ~asked[d] => FirstTrue(Without(shown, n), Truth(d)')
    BY <1>1 DEF StatusAgrees
  <2>2. /\ AllTrue(list, Truth(d)) /\ Fresh(d, list)
        /\ ~asked[d] => FirstTrue(shown, Truth(d))
    BY <1>6, <2>1 DEF ChannelAgrees, StatusAgrees
  <2>3. /\ \A m \in Names(Without(list, n)) : m \in Nicks \ {n} /\ Truth(d)[m] = Truth(d)'[m]
        /\ \A m \in Names(Without(shown, n)) : Truth(d)[m] = Truth(d)'[m]
    BY <1>2, <1>4, NamesAreNicks
  <2>4. Fresh(d, Without(list, n))'
    BY <1>1, <1>2, <1>4, <2>2, <2>3 DEF Fresh
  <2> QED BY <1>4, <2>2, <2>3, <2>4, TrueOf
<1> QED BY <1>3, <1>5, <1>6 DEF ChannelAgrees

\* Who goes unheard was not there, or on a channel we are not on.
LEMMA GoesUnheardAgrees ==
  ASSUME ServerOK, NEW depth \in 0..2, NEW d \in Channels, NEW n \in Nicks, GoesFrom(d, n),
         me \notin on[d] \/ n \notin on[d],
         NEW list, NEW shown, NEW kept, ChannelAgrees(depth, d, list, shown, kept)
  PROVE  ChannelAgrees(depth, d, list, shown, kept)'
<1>1. CASE n \notin on[d]
  <2>1. /\ status[d][n] = {} /\ status[d] \in [Nicks -> SUBSET Status]
        /\ untold[d][n] = {} /\ untold[d] \in [Nicks -> SUBSET Status] /\ todo[d] \subseteq on[d]
    BY <1>1 DEF ServerOK
  <2>2. status'[d] = status[d] /\ untold'[d] = untold[d]
    <3>1. status'[d] = status[d]
      <4>1. status'[d] = [status[d] EXCEPT ![n] = {}]
        BY DEF GoesFrom
      <4> QED BY <2>1, <4>1
    <3>2. untold'[d] = untold[d]
      <4>1. untold'[d] = [untold[d] EXCEPT ![n] = {}]
        BY DEF GoesFrom
      <4> QED BY <2>1, <4>1
    <3> QED BY <3>1, <3>2
  <2>3. on'[d] = on[d] /\ todo'[d] = todo[d]
    BY <1>1, <2>1 DEF GoesFrom
  <2>4. Kept(d)
    BY <2>2, <2>3 DEF GoesFrom, Kept
  <2> QED BY <2>4, KeptAgrees
<1>2. CASE me \notin on[d]
  BY <1>2 DEF GoesFrom, ChannelAgrees, ListsAgree, StatusAgrees
<1> QED BY <1>1, <1>2

LEMMA WeGoAgrees ==
  ASSUME NEW depth \in 0..2, NEW d \in Channels, me' \notin on'[d], ~told'[d]
  PROVE  ChannelAgrees(depth, d, <<>>, <<>>, {})'
  BY DEF ChannelAgrees, ListsAgree, StatusAgrees

\* The one name for the other, in a set of them.
Swapped(set, old, new) == IF old \in set THEN (set \ {old}) \cup {new} ELSE set

RenamedOn(d, old, new) ==
  /\ old # new /\ new # me /\ new \notin on[d]
  /\ me' = (IF old = me THEN new ELSE me)
  /\ on'[d] = Swapped(on[d], old, new) /\ todo'[d] = Swapped(todo[d], old, new)
  /\ status'[d] = [status[d] EXCEPT ![new] = status[d][old], ![old] = {}]
  /\ untold'[d] = [untold[d] EXCEPT ![new] = untold[d][old], ![old] = {}]
  /\ flags'[d] = flags[d] /\ asked'[d] = asked[d] /\ told'[d] = told[d]

LEMMA RenamesAgrees ==
  ASSUME ServerOK, NEW depth \in 0..2, NEW d \in Channels,
         NEW old \in Nicks, NEW new \in Nicks, RenamedOn(d, old, new),
         NEW list \in Seq(Entries), NEW shown \in Seq(Entries), NEW kept,
         ChannelAgrees(depth, d, list, shown, kept)
  PROVE  ChannelAgrees(depth, d, Renamed(list, old, new),
                       IF Lists(shown, old) THEN Sorted(Renamed(shown, old, new)) ELSE shown, kept)'
<1> DEFINE list2 == Renamed(list, old, new)
           shown2 == IF Lists(shown, old) THEN Sorted(Renamed(shown, old, new)) ELSE shown
<1>1. /\ old # new /\ new # me /\ new \notin on[d]
      /\ on'[d] = Swapped(on[d], old, new) /\ todo'[d] = Swapped(todo[d], old, new)
      /\ flags'[d] = flags[d] /\ asked'[d] = asked[d] /\ told'[d] = told[d]
      /\ todo[d] \subseteq on[d]
  BY DEF RenamedOn, ServerOK
<1>2. me \in on[d] <=> me' \in on'[d]
  BY DEF RenamedOn, Swapped
<1>3. /\ untold'[d][new] = untold[d][old] /\ Truth(d)'[new] = Truth(d)[old]
      /\ \A m \in Nicks \ {old, new} : untold'[d][m] = untold[d][m] /\ Truth(d)'[m] = Truth(d)[m]
  <2>1. status[d] \in [Nicks -> SUBSET Status] /\ untold[d] \in [Nicks -> SUBSET Status]
    BY DEF ServerOK
  <2>2. /\ status'[d][new] = status[d][old] /\ untold'[d][new] = untold[d][old]
        /\ \A m \in Nicks \ {old, new} : status'[d][m] = status[d][m] /\ untold'[d][m] = untold[d][m]
    BY <1>1, <2>1 DEF RenamedOn
  <2> QED BY <2>2 DEF Truth
<1>4. told'[d] => me' \in on'[d] /\ kept = flags'[d]
  BY <1>1, <1>2 DEF ChannelAgrees
<1>5. /\ list2 \in Seq(Entries) /\ Names(list2) = Swapped(Names(list), old, new)
      /\ Renamed(shown, old, new) \in Seq(Entries)
      /\ Names(Renamed(shown, old, new)) = Swapped(Names(shown), old, new)
  BY RenamedFacts DEF Swapped
<1>6. Names(shown2) = Swapped(Names(shown), old, new)
  BY <1>5, SortedFacts, ListsIsNames DEF Swapped
<1> HIDE DEF list2, shown2
<1>7. ASSUME depth >= 1 PROVE ListsAgree(d, list2, shown2)'
  <2>1. ListsAgree(d, list, shown)
    BY <1>7 DEF ChannelAgrees
  <2>2. ASSUME me \in on[d] PROVE Pending(d, list2)'
    <3>1. /\ Names(list) \subseteq on[d] /\ Twice(list)
          /\ \A m \in Nicks : ~asked[d] \/ m \in todo[d] => Once(list, m)
          /\ asked[d] => on[d] \subseteq Names(list) \cup todo[d]
      BY <2>1, <2>2 DEF ListsAgree, Pending
    <3>2. new \notin Names(list)
      BY <1>1, <3>1
    <3>3. /\ \A m : m \notin {old, new} /\ Once(list, m) => Once(list2, m)
          /\ Once(list, old) => Once(list2, new)
          /\ Twice(list) => Twice(list2)
      BY <3>2, RenamedFacts DEF list2
    <3>4. old \notin Names(list2)
      BY <1>1, <1>5, <3>2 DEF Swapped
    <3>5. Once(list2, old)
      BY <3>4 DEF Once, Names
    <3>6. ASSUME NEW m \in Nicks, ~asked'[d] \/ m \in todo'[d] PROVE Once(list2, m)
      <4>1. CASE m = old
        BY <3>5, <4>1
      <4>2. CASE m = new
        <5>1. ~asked[d] \/ old \in todo[d]
          BY <1>1, <3>6, <4>2 DEF Swapped
        <5> QED BY <3>1, <3>3, <4>2, <5>1
      <4>3. CASE m \notin {old, new}
        <5>1. ~asked[d] \/ m \in todo[d]
          BY <1>1, <3>6, <4>3 DEF Swapped
        <5> QED BY <3>1, <3>3, <4>3, <5>1
      <4> QED BY <4>1, <4>2, <4>3
    <3>7. Names(list2) \subseteq on'[d] /\ Twice(list2)
      BY <1>1, <1>5, <3>1, <3>3 DEF Swapped
    <3>8. asked'[d] => on'[d] \subseteq Names(list2) \cup todo'[d]
      BY <1>1, <1>5, <3>1 DEF Swapped
    <3> QED BY <3>6, <3>7, <3>8 DEF Pending
  <2>3. me \notin on[d] /\ ~asked[d] => list2 = <<>>
    BY <2>1, RenamedNothing DEF ListsAgree, list2
  <2>4. me \in on[d] /\ ~asked[d] => Names(shown2) = on'[d]
    BY <1>1, <1>6, <2>1 DEF ListsAgree
  <2> QED BY <1>1, <1>2, <2>2, <2>3, <2>4 DEF ListsAgree
<1>8. ASSUME depth >= 2 PROVE StatusAgrees(d, list2, shown2)'
  <2>1. SUFFICES ASSUME me \in on[d]
                 PROVE  /\ AllTrue(list2, Truth(d)') /\ Fresh(d, list2)'
                        /\ ~asked[d] => FirstTrue(shown2, Truth(d)')
    BY <1>1, <1>2 DEF StatusAgrees
  <2>2. /\ AllTrue(list, Truth(d)) /\ Fresh(d, list)
        /\ ~asked[d] => FirstTrue(shown, Truth(d))
    BY <1>8, <2>1 DEF ChannelAgrees, StatusAgrees
  <2>3. Names(list) \subseteq on[d] /\ (~asked[d] => Names(shown) = on[d])
    BY <1>8, <2>1 DEF ChannelAgrees, ListsAgree, Pending
  <2>4. AllTrue(list2, Truth(d)')
    <3>1. new \notin Names(list)
      BY <1>1, <2>3
    <3> QED BY <1>3, <2>2, <3>1, RenamedTrue DEF list2
  <2>5. ASSUME ~asked[d] PROVE FirstTrue(shown2, Truth(d)')
    <3>1. new \notin Names(shown)
      BY <1>1, <2>3, <2>5
    <3>2. CASE Lists(shown, old)
      <4>1. FirstTrue(Renamed(shown, old, new), Truth(d)')
        BY <1>3, <2>2, <2>5, <3>1, RenamedTrue
      <4> QED BY <1>5, <3>2, <4>1, SortedFacts DEF shown2
    <3>3. CASE ~Lists(shown, old)
      <4>1. old \notin Names(shown)
        BY <3>3, ListsIsNames
      <4>2. \A m \in Names(shown) : Truth(d)[m] = Truth(d)'[m]
        BY <1>3, <3>1, <4>1, NamesAreNicks
      <4> QED BY <2>2, <2>5, <3>3, <4>2, TrueOf DEF shown2
    <3> QED BY <3>2, <3>3
  <2>6. Fresh(d, list2)'
    <3>1. ASSUME NEW m \in Names(list2), ~asked'[d] \/ m \in todo'[d] PROVE untold'[d][m] = {}
      <4>1. Names(list) \subseteq Nicks /\ new \notin Names(list)
        BY <1>1, <2>3, NamesAreNicks
      <4>2. CASE m = new
        <5>1. old \in Names(list) /\ (~asked[d] \/ old \in todo[d])
          BY <1>1, <1>5, <3>1, <4>1, <4>2 DEF Swapped
        <5> QED BY <1>3, <2>2, <4>2, <5>1 DEF Fresh
      <4>3. CASE m # new
        <5>1. m \in Names(list) /\ m \in Nicks \ {old, new} /\ (~asked[d] \/ m \in todo[d])
          BY <1>1, <1>5, <3>1, <4>1, <4>3 DEF Swapped
        <5> QED BY <1>3, <2>2, <5>1 DEF Fresh
      <4> QED BY <4>2, <4>3
    <3> QED BY <3>1 DEF Fresh
  <2> QED BY <2>4, <2>5, <2>6
<1>9. ChannelAgrees(depth, d, list2, shown2, kept)'
  BY <1>4, <1>7, <1>8 DEF ChannelAgrees
<1> QED BY <1>9 DEF list2, shown2

LEMMA RenamesUnheardAgrees ==
  ASSUME ServerOK, NEW depth \in 0..2, NEW d \in Channels,
         NEW old \in Nicks, NEW new \in Nicks, RenamedOn(d, old, new),
         old # me, me \notin on[d] \/ old \notin on[d],
         NEW list, NEW shown, NEW kept, ChannelAgrees(depth, d, list, shown, kept)
  PROVE  ChannelAgrees(depth, d, list, shown, kept)'
<1>1. CASE old \notin on[d]
  <2>1. /\ status[d][old] = {} /\ status[d][new] = {} /\ status[d] \in [Nicks -> SUBSET Status]
        /\ untold[d][old] = {} /\ untold[d][new] = {} /\ untold[d] \in [Nicks -> SUBSET Status]
        /\ todo[d] \subseteq on[d]
    BY <1>1 DEF ServerOK, RenamedOn
  <2>2. status'[d] = status[d] /\ untold'[d] = untold[d]
    <3>1. status'[d] = status[d]
      <4>1. status'[d] = [status[d] EXCEPT ![new] = status[d][old], ![old] = {}]
        BY DEF RenamedOn
      <4> QED BY <2>1, <4>1
    <3>2. untold'[d] = untold[d]
      <4>1. untold'[d] = [untold[d] EXCEPT ![new] = untold[d][old], ![old] = {}]
        BY DEF RenamedOn
      <4> QED BY <2>1, <4>1
    <3> QED BY <3>1, <3>2
  <2>3. on'[d] = on[d] /\ todo'[d] = todo[d] /\ me' = me
    BY <1>1, <2>1 DEF RenamedOn, Swapped
  <2>4. Kept(d)
    BY <2>2, <2>3 DEF RenamedOn, Kept
  <2> QED BY <2>4, KeptAgrees
<1>2. CASE me \notin on[d]
  <2>1. me' = me /\ me \notin on'[d]
    BY <1>2 DEF RenamedOn, Swapped
  <2> QED BY <1>2, <2>1 DEF RenamedOn, ChannelAgrees, ListsAgree, StatusAgrees
<1> QED BY <1>1, <1>2

LEMMA SetsStatusAgrees ==
  ASSUME ServerOK, NEW depth \in 0..2, NEW c \in Channels, NEW n \in Nicks, NEW s \in Status,
         SetsStatus(c, n, s), NEW add \in BOOLEAN, add <=> s \notin status[c][n],
         NEW list \in Seq(Entries), NEW shown \in Seq(Entries), NEW kept,
         ChannelAgrees(depth, c, list, shown, kept)
  PROVE  /\ ChannelAgrees(depth, c, ModeOnAll(list, n, add, s), ModeOnFirst(shown, n, add, s), kept)'
         /\ me \notin on[c] => ChannelAgrees(depth, c, list, shown, kept)'
<1> DEFINE list2 == ModeOnAll(list, n, add, s)
           shown2 == ModeOnFirst(shown, n, add, s)
<1>1. /\ me' = me /\ on' = on /\ flags' = flags /\ asked' = asked /\ todo' = todo /\ told' = told
  BY DEF SetsStatus, reply
<1>2. /\ \A m \in Nicks : untold'[c][m] \subseteq untold[c][m]
      /\ \A t \in Truth(c)[n] : Changed(t, add, s) \in Truth(c)'[n]
      /\ \A m \in Nicks \ {n} : Truth(c)'[m] = Truth(c)[m]
  <2>1. /\ status \in [Channels -> [Nicks -> SUBSET Status]]
        /\ untold \in [Channels -> [Nicks -> SUBSET Status]]
    BY DEF ServerOK
  <2>2. /\ status' = [status EXCEPT ![c][n] = Changed(status[c][n], s \notin status[c][n], s)]
        /\ untold' = [untold EXCEPT ![c][n] = untold[c][n] \ {s}]
    BY DEF SetsStatus
  <2>3. /\ status'[c][n] = Changed(status[c][n], add, s) /\ untold'[c][n] = untold[c][n] \ {s}
        /\ \A m \in Nicks \ {n} : status'[c][m] = status[c][m] /\ untold'[c][m] = untold[c][m]
    BY <2>1, <2>2 DEF Changed
  <2>4. /\ \A m \in Nicks : untold'[c][m] \subseteq untold[c][m]
        /\ \A m \in Nicks \ {n} : Truth(c)'[m] = Truth(c)[m]
    BY <2>3 DEF Truth
  <2>5. /\ Truth(c)[n] = Showable(status[c][n], untold[c][n])
        /\ Truth(c)'[n] = Showable(Changed(status[c][n], add, s), untold[c][n] \ {s})
    BY <2>3 DEF Truth
  <2> QED BY <2>4, <2>5, ShowableChanged
<1>3. /\ SamePlaces(list2, list) /\ SamePlaces(shown2, shown)
      /\ AllTrue(list, Truth(c)) => AllTrue(list2, Truth(c)')
      /\ FirstTrue(shown, Truth(c)) => FirstTrue(shown2, Truth(c)')
  BY <1>2, ModeOnAllFacts, ModeOnFirstFacts, ModesTrue
<1> HIDE DEF list2, shown2
<1>4. /\ Names(list2) = Names(list) /\ Names(shown2) = Names(shown)
      /\ \A m : Once(list, m) => Once(list2, m)
      /\ Twice(list) => Twice(list2)
  BY <1>3, SamePlacesFacts
<1>5. list = <<>> => list2 = <<>>
  <2>1. list = <<>> => DOMAIN list2 = {}
    BY <1>3 DEF SamePlaces
  <2>2. list2 \in Seq(Entries)
    BY ModeOnAllFacts DEF list2
  <2> QED BY <2>1, <2>2, LenProperties, EmptySeq
<1>6. ASSUME depth >= 1, ListsAgree(c, list, shown) PROVE ListsAgree(c, list2, shown2)'
  BY <1>1, <1>4, <1>5, <1>6 DEF ListsAgree, Pending
<1>7. ASSUME depth >= 2, StatusAgrees(c, list, shown) PROVE StatusAgrees(c, list2, shown2)'
  <2>1. Fresh(c, list) => Fresh(c, list2)'
    <3>1. Names(list) \subseteq Nicks
      BY NamesAreNicks
    <3> QED BY <1>1, <1>2, <1>4, <3>1 DEF Fresh
  <2> QED BY <1>1, <1>3, <1>7, <2>1 DEF StatusAgrees
<1>8. ChannelAgrees(depth, c, list2, shown2, kept)'
  BY <1>1, <1>6, <1>7 DEF ChannelAgrees
<1>9. me \notin on[c] => ChannelAgrees(depth, c, list, shown, kept)'
  BY <1>1 DEF ChannelAgrees, ListsAgree, StatusAgrees
<1> QED BY <1>8, <1>9 DEF list2, shown2

LEMMA SetsFlagAgrees ==
  ASSUME ServerOK, NEW depth \in 0..2, NEW c \in Channels, NEW f \in Flags,
         SetsFlag(c, f), NEW add \in BOOLEAN, add <=> f \notin flags[c],
         NEW list, NEW shown, NEW kept, ChannelAgrees(depth, c, list, shown, kept)
  PROVE  /\ ChannelAgrees(depth, c, list, shown, Changed(kept, add, f))'
         /\ me \notin on[c] => ChannelAgrees(depth, c, list, shown, kept)'
<1>1. /\ me' = me /\ on' = on /\ status' = status /\ untold' = untold
      /\ asked' = asked /\ todo' = todo /\ told' = told
  BY DEF SetsFlag, reply
<1>2. flags'[c] = Changed(flags[c], add, f)
  BY DEF SetsFlag, ServerOK, Changed
<1>3. /\ depth >= 1 => ListsAgree(c, list, shown)'
      /\ depth >= 2 => StatusAgrees(c, list, shown)'
  BY <1>1 DEF ChannelAgrees, ListsAgree, StatusAgrees, Pending, Truth, Fresh
<1>4. told[c] => me \in on[c] /\ kept = flags[c]
  BY DEF ChannelAgrees
<1> QED BY <1>1, <1>2, <1>3, <1>4 DEF ChannelAgrees

LEMMA AsksAgrees ==
  ASSUME ServerOK, NEW depth \in 0..2, NEW c \in Channels,
         NEW list \in Seq(Entries), NEW shown, NEW kept, ChannelAgrees(depth, c, list, shown, kept)
  PROVE  /\ AsksNames(c) => ChannelAgrees(depth, c, list, shown, kept)'
         /\ AsksModes(c) => ChannelAgrees(depth, c, list, shown, flags[c])'
<1>1. ASSUME AsksNames(c) PROVE ChannelAgrees(depth, c, list, shown, kept)'
  <2>1. /\ me' = me /\ on' = on /\ status' = status /\ flags' = flags /\ told' = told
        /\ untold' = untold /\ ~asked[c] /\ asked'[c] /\ todo'[c] = on[c]
    BY <1>1 DEF AsksNames, channel, ServerOK
  <2>2. ASSUME depth >= 1 PROVE ListsAgree(c, list, shown)'
    <3>1. ListsAgree(c, list, shown)
      BY <2>2 DEF ChannelAgrees
    <3>2. ASSUME me \in on[c] PROVE Pending(c, list)'
      BY <2>1, <3>1, <3>2 DEF ListsAgree, Pending
    <3> QED BY <2>1, <3>2 DEF ListsAgree
  <2>3. ASSUME depth >= 2 PROVE StatusAgrees(c, list, shown)'
    BY <2>1, <2>3 DEF ChannelAgrees, StatusAgrees, Truth, Fresh
  <2> QED BY <2>1, <2>2, <2>3 DEF ChannelAgrees
<1>2. ASSUME AsksModes(c) PROVE ChannelAgrees(depth, c, list, shown, flags[c])'
  <2>1. /\ me' = me /\ on' = on /\ status' = status /\ flags' = flags
        /\ asked' = asked /\ todo' = todo /\ untold' = untold /\ told'[c] = (me \in on[c])
    BY <1>2 DEF AsksModes, channel, ServerOK
  <2>2. /\ depth >= 1 => ListsAgree(c, list, shown)'
        /\ depth >= 2 => StatusAgrees(c, list, shown)'
    BY <2>1 DEF ChannelAgrees, ListsAgree, StatusAgrees, Pending, Truth, Fresh
  <2> QED BY <2>1, <2>2 DEF ChannelAgrees
<1> QED BY <1>1, <1>2

\* A 353 shows one of the prefixes there are, if any.
LEMMA StrongestIn ==
  ASSUME NEW set \in SUBSET Status PROVE Strongest(set) \subseteq set
<1>1. CASE set = {}
  BY <1>1 DEF Strongest
<1>2. CASE set # {}
  <2>1. \A s \in set : s \in Nat
    BY NamesAssumption DEF Status
  <2>2. PICK s \in set : \A t \in set : s <= t
    BY <1>2, <2>1, LeastExists
  <2>3. \A t \in set : (\A u \in set : t <= u) => t = s
    BY <2>1, <2>2
  <2>4. Min(set) = s
    BY <2>2, <2>3 DEF Min
  <2> QED BY <1>2, <2>4 DEF Strongest
<1> QED BY <1>1, <1>2

\* Within what a NAMES list may hold, each 353 has its place in it.
LEMMA ListsOneAgrees ==
  ASSUME ServerOK, NEW depth \in 0..2, Granted(depth), NEW c \in Channels, NEW n \in Nicks,
         ListsOne(c, n), NEW x, x = Entry(n, Strongest(status[c][n])), x \in Entries,
         NEW list \in Seq(Entries), NEW shown, NEW kept, ChannelAgrees(depth, c, list, shown, kept)
  PROVE  ChannelAgrees(depth, c, IF Len(list) < MaxNames THEN Append(list, x) ELSE list,
                       shown, kept)'
<1>1. /\ me' = me /\ on' = on /\ status' = status /\ flags' = flags /\ told' = told
      /\ asked' = asked /\ asked[c] /\ n \in todo[c] /\ todo'[c] = todo[c] \ {n}
      /\ todo[c] \subseteq on[c] /\ on[c] \subseteq Nicks
      /\ untold'[c][n] = status[c][n] \ Strongest(status[c][n])
      /\ \A m \in Nicks \ {n} : untold'[c][m] = untold[c][m]
      /\ status[c] \in [Nicks -> SUBSET Status]
  BY DEF ListsOne, channel, ServerOK
<1>2. x.nick = n /\ x.status = Strongest(status[c][n])
  BY DEF Entry
<1>3. CASE me \notin on[c]
  BY <1>1, <1>3 DEF ChannelAgrees, ListsAgree, StatusAgrees
<1>4. CASE depth = 0
  BY <1>1, <1>4 DEF ChannelAgrees
<1>5. CASE me \in on[c] /\ depth >= 1
  <2>1. /\ Names(list) \subseteq on[c] /\ Twice(list)
        /\ \A m \in Nicks : m \in todo[c] => Once(list, m)
        /\ on[c] \subseteq Names(list) \cup todo[c]
    BY <1>1, <1>5 DEF ChannelAgrees, ListsAgree, Pending
  <2>2. 2 * Cardinality(on[c]) < MaxNames
    BY <1>5 DEF Granted, ListsFit
  <2>3. Len(list) < MaxNames
    BY <1>1, <2>1, <2>2, LengthFacts
  <2> DEFINE list2 == Append(list, x)
  <2>4. /\ Names(list2) = Names(list) \cup {n}
        /\ \A m : m # n /\ Once(list, m) => Once(list2, m)
        /\ Once(list, n) /\ Twice(list) => Twice(list2)
        /\ \A st : AllTrue(list, st) /\ x.status \in st[n] => AllTrue(list2, st)
    BY <1>2, AppendFacts
  <2> HIDE DEF list2
  <2>5. Pending(c, list2)'
    BY <1>1, <2>1, <2>4 DEF Pending
  <2>6. ListsAgree(c, list2, shown)'
    BY <1>1, <1>5, <2>5 DEF ListsAgree
  <2>7. ASSUME depth >= 2 PROVE StatusAgrees(c, list2, shown)'
    <3>1. AllTrue(list, Truth(c)) /\ Fresh(c, list)
      BY <1>5, <2>7 DEF ChannelAgrees, StatusAgrees
    <3>2. /\ status[c][n] \in Truth(c)'[n] /\ x.status \in Truth(c)'[n]
          /\ \A m \in Nicks \ {n} : Truth(c)'[m] = Truth(c)[m]
      BY <1>1, <1>2, StrongestIn DEF Truth, Showable
    <3>3. AllTrue(list, Truth(c)')
      <4>1. ASSUME NEW i \in DOMAIN list PROVE list[i].status \in Truth(c)'[list[i].nick]
        <5>1. list[i].nick \in Nicks /\ list[i].status \in Truth(c)[list[i].nick]
          BY <3>1, Places DEF AllTrue
        <5>2. CASE list[i].nick = n
          <6>1. untold[c][n] = {}
            BY <1>1, <3>1, <5>2 DEF Fresh, Names
          <6>2. list[i].status \in Showable(status[c][n], {})
            BY <1>1, <5>1, <5>2, <6>1 DEF Truth
          <6>3. list[i].status = status[c][n]
            BY <6>2 DEF Showable
          <6> QED BY <3>2, <5>2, <6>3
        <5>3. CASE list[i].nick # n
          BY <3>2, <5>1, <5>3
        <5> QED BY <5>2, <5>3
      <4> QED BY <4>1 DEF AllTrue
    <3>4. AllTrue(list2, Truth(c)')
      BY <2>4, <3>2, <3>3
    <3>5. Fresh(c, list2)'
      <4>1. ASSUME NEW m \in Names(list2), m \in todo'[c] PROVE untold'[c][m] = {}
        <5>1. m \in Names(list) /\ m \in Nicks \ {n} /\ m \in todo[c]
          BY <1>1, <2>4, <4>1
        <5> QED BY <1>1, <3>1, <5>1 DEF Fresh
      <4> QED BY <1>1, <4>1 DEF Fresh
    <3> QED BY <1>1, <3>4, <3>5 DEF StatusAgrees
  <2>8. ChannelAgrees(depth, c, list2, shown, kept)'
    BY <1>1, <2>6, <2>7 DEF ChannelAgrees
  <2> QED BY <2>3, <2>8 DEF list2
<1> QED BY <1>3, <1>4, <1>5

LEMMA EndsListAgrees ==
  ASSUME ServerOK, NEW depth \in 0..2, NEW c \in Channels, EndsList(c),
         NEW list \in Seq(Entries), NEW shown, NEW kept, ChannelAgrees(depth, c, list, shown, kept)
  PROVE  ChannelAgrees(depth, c, <<>>, list, kept)'
<1>1. /\ me' = me /\ on' = on /\ status' = status /\ flags' = flags /\ told' = told
      /\ untold' = untold /\ asked[c] /\ ~asked'[c] /\ todo' = todo /\ todo[c] = {}
  BY DEF EndsList, channel, ServerOK
<1>2. ASSUME depth >= 1 PROVE ListsAgree(c, <<>>, list)'
  <2>1. ASSUME me \in on[c] PROVE Pending(c, <<>>)' /\ Names(list) = on[c]
    <3>1. Names(list) = on[c]
      BY <1>1, <1>2, <2>1 DEF ChannelAgrees, ListsAgree, Pending
    <3> QED BY <1>1, <3>1, NothingListed DEF Pending
  <2> QED BY <1>1, <2>1 DEF ListsAgree
<1>3. ASSUME depth >= 2 PROVE StatusAgrees(c, <<>>, list)'
  <2>1. ASSUME me \in on[c] PROVE AllTrue(list, Truth(c))
    BY <1>3, <2>1 DEF ChannelAgrees, StatusAgrees
  <2>2. AllTrue(list, Truth(c)) => FirstTrue(list, Truth(c))
    BY DEF AllTrue, FirstTrue
  <2>3. Truth(c)' = Truth(c)
    BY <1>1 DEF Truth
  <2>4. AllTrue(<<>>, Truth(c)) /\ Fresh(c, <<>>)'
    BY NothingListed DEF Fresh
  <2> QED BY <1>1, <2>1, <2>2, <2>3, <2>4 DEF StatusAgrees
<1> QED BY <1>1, <1>2, <1>3 DEF ChannelAgrees

-----------------------------------------------------------------------------
(* Steps of the server *)

\* What the server says of a step, or does not say, keeps what is played in agreement.
Untold(depth) == \A v \in Views : Agrees(depth, v) => Agrees(depth, v)'
Told(depth, l) == \A v \in Views : Agrees(depth, v) => Agrees(depth, Heard(v, l))'
ServerTells(depth) ==
  \/ wire' = wire /\ Untold(depth)
  \/ \E l \in Lines : wire' = Append(wire, l) /\ Told(depth, l)

LEMMA ServerStep ==
  ASSUME NEW depth, IInv(depth), UNCHANGED <<session, events, bridge>>,
         changes' \in 0..MaxChanges, Len(wire') <= MaxWire, ServerOK', ServerTells(depth)
  PROVE  IInv(depth)'
<1>1. /\ nick' = nick /\ acc' = acc /\ confirmed' = confirmed /\ events' = events
      /\ ThePanel' = ThePanel
  BY DEF session, bridge, ThePanel
<1>2. PICK p \in Panels, v \in Views :
        /\ EventsLead(ThePanel, events, p) /\ p.nickname = nick /\ p.modes = confirmed
        /\ LinesLead(TheView(p.roster), wire, v) /\ Agrees(depth, v)
  BY DEF IInv, PlayedOK
<1>3. TheView(p.roster)' = TheView(p.roster)
  BY <1>1 DEF TheView
<1>4. wire \in Seq(Lines)
  BY DEF IInv, UnderWayOK
<1>5. \E w \in Views : /\ LinesLead(TheView(p.roster), wire', w) /\ wire' \in Seq(Lines)
                       /\ Agrees(depth, w)'
  <2>1. CASE wire' = wire /\ Untold(depth)
    BY <1>2, <1>4, <2>1 DEF Untold
  <2>2. CASE \E l \in Lines : wire' = Append(wire, l) /\ Told(depth, l)
    <3>1. PICK l \in Lines : wire' = Append(wire, l) /\ Told(depth, l)
      BY <2>2
    <3>2. /\ Append(wire, l) \in Seq(Lines)
          /\ LinesLead(TheView(p.roster), Append(wire, l), Heard(v, l))
      BY <1>2, <1>4, LineAdded
    <3>3. Heard(v, l) \in Views
      BY HeardType
    <3>4. Agrees(depth, Heard(v, l))'
      BY <1>2, <3>1 DEF Told
    <3> QED BY <3>1, <3>2, <3>3, <3>4
  <2> QED BY <2>1, <2>2 DEF ServerTells
<1>6. PICK w \in Views : /\ LinesLead(TheView(p.roster), wire', w) /\ wire' \in Seq(Lines)
                         /\ Agrees(depth, w)'
  BY <1>5
<1>7. UnderWayOK'
  BY <1>1, <1>6 DEF IInv, UnderWayOK
<1>8. HeldOK'
  BY <1>1 DEF IInv, HeldOK
<1>9. /\ EventsLead(ThePanel', events', p) /\ p.nickname = nick' /\ p.modes = confirmed'
      /\ LinesLead(TheView(p.roster)', wire', w)
  BY <1>1, <1>2, <1>3, <1>6
<1>10. PlayedOK(depth)'
  BY <1>6, <1>9 DEF PlayedOK
<1> QED BY <1>7, <1>8, <1>10 DEF IInv

\* A view, channel by channel.
LEMMA ViewParts ==
  ASSUME NEW v \in Views, NEW d \in Channels
  PROVE  v.acc[d] \in Seq(Entries) /\ v.roster[d] \in Seq(Entries) /\ v.confirmed[d] \in SUBSET Flags
  BY DEF Views, ListMaps, FlagMaps

\* A line about one channel tells nothing of the others.
LEMMA HeardElsewhere ==
  ASSUME NEW v \in Views, NEW l \in Lines, l.cmd \notin {"QUIT", "NICK"},
         NEW d \in Channels, d # l.chan
  PROVE  /\ Heard(v, l).nick = v.nick /\ Heard(v, l).acc[d] = v.acc[d]
         /\ Heard(v, l).roster[d] = v.roster[d] /\ Heard(v, l).confirmed[d] = v.confirmed[d]
<1>1. l.chan \in Channels
  BY LineFields
<1>2. v.acc \in ListMaps /\ v.roster \in ListMaps /\ v.confirmed \in FlagMaps
  BY DEF Views
<1>3. \A x : /\ Put(v.acc, l.chan, x)[d] = v.acc[d] /\ Put(v.roster, l.chan, x)[d] = v.roster[d]
             /\ Put(v.confirmed, l.chan, x)[d] = v.confirmed[d]
  BY <1>2 DEF Put, ListMaps, FlagMaps
<1>4. Heard(v, l).nick = v.nick
  BY DEF Heard, NickAfter
<1>5. AccAfter(v, l)[d] = v.acc[d]
  BY <1>3, LineFields DEF AccAfter
<1>6. PanelAfter(v, l)[d] = v.roster[d]
  BY <1>3, LineFields DEF PanelAfter
<1>7. ConfirmedAfter(v, l)[d] = v.confirmed[d]
  BY <1>3, LineFields DEF ConfirmedAfter
<1> QED BY <1>4, <1>5, <1>6, <1>7 DEF Heard

LEMMA HeardNick ==
  ASSUME NEW v, NEW l, l.cmd # "NICK" PROVE Heard(v, l).nick = v.nick
  BY DEF Heard, NickAfter

LEMMA OneChannelTold ==
  ASSUME NEW depth, NEW c \in Channels, NEW l \in Lines,
         l.cmd \notin {"QUIT", "NICK"}, l.chan = c, me' = me, \A d \in Channels \ {c} : Kept(d),
         \A v \in Views : Agrees(depth, v) =>
           ChannelAgrees(depth, c, Heard(v, l).acc[c], Heard(v, l).roster[c], Heard(v, l).confirmed[c])'
  PROVE  Told(depth, l)
<1>1. SUFFICES ASSUME NEW v \in Views, Agrees(depth, v) PROVE Agrees(depth, Heard(v, l))'
  BY DEF Told
<1>2. Heard(v, l).nick = me'
  BY <1>1, HeardNick DEF Agrees
<1>3. ASSUME NEW d \in Channels
      PROVE  ChannelAgrees(depth, d, Heard(v, l).acc[d], Heard(v, l).roster[d], Heard(v, l).confirmed[d])'
  <2>1. CASE d = c
    BY <1>1, <2>1
  <2>2. CASE d # c
    <3>1. ChannelAgrees(depth, d, v.acc[d], v.roster[d], v.confirmed[d])'
      BY <1>1, <2>2, KeptAgrees DEF Agrees
    <3>2. /\ Heard(v, l).acc[d] = v.acc[d] /\ Heard(v, l).roster[d] = v.roster[d]
          /\ Heard(v, l).confirmed[d] = v.confirmed[d]
      BY <2>2, HeardElsewhere
    <3> QED BY <3>1, <3>2
  <2> QED BY <2>1, <2>2
<1> QED BY <1>2, <1>3 DEF Agrees

LEMMA OneChannelUntold ==
  ASSUME NEW depth, NEW c \in Channels, me' = me, \A d \in Channels \ {c} : Kept(d),
         \A v \in Views : Agrees(depth, v) =>
           ChannelAgrees(depth, c, v.acc[c], v.roster[c], v.confirmed[c])'
  PROVE  Untold(depth)
<1>1. SUFFICES ASSUME NEW v \in Views, Agrees(depth, v) PROVE Agrees(depth, v)'
  BY DEF Untold
<1>2. ASSUME NEW d \in Channels
      PROVE  ChannelAgrees(depth, d, v.acc[d], v.roster[d], v.confirmed[d])'
  BY <1>1, KeptAgrees DEF Agrees
<1> QED BY <1>1, <1>2 DEF Agrees

\* What a line makes of its own channel.
LEMMA HeardMember ==
  ASSUME NEW v \in Views, NEW l \in Lines, NEW c, c = l.chan, l.cmd \in {"JOIN", "PART", "KICK"}
  PROVE  /\ l.cmd = "JOIN" /\ l.nick # v.nick =>
              /\ Heard(v, l).acc[c] = Add(v.acc[c], l.nick)
              /\ Heard(v, l).roster[c] = Add(v.roster[c], l.nick)
              /\ Heard(v, l).confirmed[c] = v.confirmed[c]
         /\ l.cmd = "JOIN" /\ l.nick = v.nick =>
              /\ Heard(v, l).acc[c] = v.acc[c] /\ Heard(v, l).roster[c] = v.roster[c]
              /\ Heard(v, l).confirmed[c] = v.confirmed[c]
         /\ l.cmd # "JOIN" /\ l.nick # v.nick =>
              /\ Heard(v, l).acc[c] = Without(v.acc[c], l.nick)
              /\ Heard(v, l).roster[c] = Without(v.roster[c], l.nick)
              /\ Heard(v, l).confirmed[c] = v.confirmed[c]
         /\ l.cmd # "JOIN" /\ l.nick = v.nick =>
              /\ Heard(v, l).acc[c] = <<>> /\ Heard(v, l).roster[c] = <<>>
              /\ Heard(v, l).confirmed[c] = {}
<1>1. c \in Channels
  BY LineFields
<1>2. v.acc \in ListMaps /\ v.roster \in ListMaps /\ v.confirmed \in FlagMaps
  BY DEF Views
<1>3. \A x : /\ Put(v.acc, c, x)[c] = x /\ Put(v.roster, c, x)[c] = x
             /\ Put(v.confirmed, c, x)[c] = x
  BY <1>1, <1>2 DEF Put, ListMaps, FlagMaps
<1>4. CASE l.cmd = "JOIN"
  BY <1>3, <1>4 DEF Heard, AccAfter, PanelAfter, ConfirmedAfter, Self
<1>5. CASE l.cmd # "JOIN"
  BY <1>3, <1>5 DEF Heard, AccAfter, PanelAfter, ConfirmedAfter, Self
<1> QED BY <1>4, <1>5

LEMMA HeardHere ==
  ASSUME NEW v \in Views, NEW l \in Lines, NEW c, c = l.chan,
         l.cmd \in {"MODE", "FLAG", "324", "353", "366"}
  PROVE  /\ l.cmd = "MODE" =>
              /\ Heard(v, l).acc[c] = ModeOnAll(v.acc[c], l.nick, l.add, l.prefix)
              /\ Heard(v, l).roster[c] = ModeOnFirst(v.roster[c], l.nick, l.add, l.prefix)
              /\ Heard(v, l).confirmed[c] = v.confirmed[c]
         /\ l.cmd = "FLAG" =>
              /\ Heard(v, l).acc[c] = v.acc[c] /\ Heard(v, l).roster[c] = v.roster[c]
              /\ Heard(v, l).confirmed[c] = Changed(v.confirmed[c], l.add, l.flag)
         /\ l.cmd = "324" =>
              /\ Heard(v, l).acc[c] = v.acc[c] /\ Heard(v, l).roster[c] = v.roster[c]
              /\ Heard(v, l).confirmed[c] = l.flags
         /\ l.cmd = "353" =>
              /\ Heard(v, l).acc[c] = (IF Len(v.acc[c]) < MaxNames THEN Append(v.acc[c], l.entry)
                                       ELSE v.acc[c])
              /\ Heard(v, l).roster[c] = v.roster[c] /\ Heard(v, l).confirmed[c] = v.confirmed[c]
         /\ l.cmd = "366" =>
              /\ Heard(v, l).acc[c] = <<>> /\ Heard(v, l).roster[c] = v.acc[c]
              /\ Heard(v, l).confirmed[c] = v.confirmed[c]
<1>1. c \in Channels
  BY LineFields
<1>2. v.acc \in ListMaps /\ v.roster \in ListMaps /\ v.confirmed \in FlagMaps
  BY DEF Views
<1>3. \A x : /\ Put(v.acc, c, x)[c] = x /\ Put(v.roster, c, x)[c] = x
             /\ Put(v.confirmed, c, x)[c] = x
  BY <1>1, <1>2 DEF Put, ListMaps, FlagMaps
<1>4. CASE l.cmd = "MODE"
  BY <1>3, <1>4 DEF Heard, AccAfter, PanelAfter, ConfirmedAfter, Self
<1>5. CASE l.cmd \in {"FLAG", "324"}
  BY <1>3, <1>5 DEF Heard, AccAfter, PanelAfter, ConfirmedAfter, Self
<1>6. CASE l.cmd = "353"
  <2>1. CASE Len(v.acc[c]) < MaxNames
    BY <1>3, <1>6, <2>1 DEF Heard, AccAfter, PanelAfter, ConfirmedAfter, Self
  <2>2. CASE ~(Len(v.acc[c]) < MaxNames)
    BY <1>3, <1>6, <2>2 DEF Heard, AccAfter, PanelAfter, ConfirmedAfter, Self
  <2> QED BY <1>6, <2>1, <2>2
<1>7. CASE l.cmd = "366"
  BY <1>3, <1>7 DEF Heard, AccAfter, PanelAfter, ConfirmedAfter, Self
<1> QED BY <1>4, <1>5, <1>6, <1>7

LEMMA WeJoinTells ==
  ASSUME ServerOK, NEW depth \in 0..2, NEW c \in Channels, WeJoin(c)
  PROVE  ServerTells(depth) /\ ServerOK'
<1>1. PICK l \in Lines : l = [cmd |-> "JOIN", chan |-> c, nick |-> me] /\ wire' = Append(wire, l)
  BY DEF ServerOK, WeJoin, Says, Lines
<1>2. me' = me /\ \A d \in Channels \ {c} : Kept(d)
  BY DEF ServerOK, WeJoin, Kept
<1>3. ASSUME NEW v \in Views, Agrees(depth, v)
      PROVE  ChannelAgrees(depth, c, Heard(v, l).acc[c], Heard(v, l).roster[c], Heard(v, l).confirmed[c])'
  <2>1. v.nick = me /\ ChannelAgrees(depth, c, v.acc[c], v.roster[c], v.confirmed[c])
    BY <1>3 DEF Agrees
  <2>2. ChannelAgrees(depth, c, v.acc[c], v.roster[c], v.confirmed[c])'
    BY <2>1, ViewParts, WeJoinAgrees
  <2>3. /\ Heard(v, l).acc[c] = v.acc[c] /\ Heard(v, l).roster[c] = v.roster[c]
        /\ Heard(v, l).confirmed[c] = v.confirmed[c]
    BY <1>1, <2>1, HeardMember
  <2> QED BY <2>2, <2>3
<1>4. Told(depth, l)
  BY <1>1, <1>2, <1>3, OneChannelTold
<1>5. ServerOK'
  BY DEF ServerOK, WeJoin
<1> QED BY <1>1, <1>4, <1>5 DEF ServerTells

LEMMA TheyJoinTells ==
  ASSUME ServerOK, NEW depth \in 0..2, NEW c \in Channels, NEW n \in Nicks, TheyJoin(c, n)
  PROVE  ServerTells(depth) /\ ServerOK'
<1> DEFINE l == [cmd |-> "JOIN", chan |-> c, nick |-> n]
<1>1. l \in Lines /\ me' = me /\ n # me
  BY DEF ServerOK, TheyJoin, Lines
<1>2. \A d \in Channels \ {c} : Kept(d)
  BY DEF ServerOK, TheyJoin, Kept
<1>3. ServerOK'
  <2>1. /\ UNCHANGED <<me, status, untold, flags, asked, told>>
        /\ on' = [on EXCEPT ![c] = @ \cup {n}]
        /\ todo' = todo \/ todo' = [todo EXCEPT ![c] = @ \cup {n}]
    BY DEF TheyJoin
  <2>2. /\ on' \in [Channels -> SUBSET Nicks] /\ \A d \in Channels : on[d] \subseteq on'[d]
        /\ n \in on'[c]
    BY <2>1 DEF ServerOK
  <2>3. CASE todo' = todo
    BY <2>1, <2>2, <2>3 DEF ServerOK
  <2>4. CASE todo' = [todo EXCEPT ![c] = @ \cup {n}]
    BY <2>1, <2>2, <2>4 DEF ServerOK
  <2> QED BY <2>1, <2>3, <2>4
<1>4. CASE me \in on[c]
  <2>1. wire' = Append(wire, l)
    BY <1>4 DEF TheyJoin, Says
  <2>2. ASSUME NEW v \in Views, Agrees(depth, v)
        PROVE  ChannelAgrees(depth, c, Heard(v, l).acc[c], Heard(v, l).roster[c], Heard(v, l).confirmed[c])'
    <3>1. v.nick = me /\ ChannelAgrees(depth, c, v.acc[c], v.roster[c], v.confirmed[c])
      BY <2>2 DEF Agrees
    <3>2. ChannelAgrees(depth, c, Add(v.acc[c], n), Add(v.roster[c], n), v.confirmed[c])'
      BY <1>4, <3>1, ViewParts, TheyJoinAgrees
    <3>3. /\ Heard(v, l).acc[c] = Add(v.acc[c], n) /\ Heard(v, l).roster[c] = Add(v.roster[c], n)
          /\ Heard(v, l).confirmed[c] = v.confirmed[c]
      BY <1>1, <3>1, HeardMember
    <3> QED BY <3>2, <3>3
  <2>3. Told(depth, l)
    BY <1>1, <1>2, <2>2, OneChannelTold
  <2> QED BY <1>1, <1>3, <2>1, <2>3 DEF ServerTells
<1>5. CASE me \notin on[c]
  <2>1. wire' = wire
    BY <1>5 DEF TheyJoin, Says
  <2>2. /\ on'[c] = on[c] \cup {n} /\ me \notin on'[c] /\ asked'[c] = asked[c] /\ told'[c] = told[c]
        /\ flags' = flags
    BY <1>1, <1>5 DEF ServerOK, TheyJoin
  <2>3. \A v \in Views : Agrees(depth, v) =>
          ChannelAgrees(depth, c, v.acc[c], v.roster[c], v.confirmed[c])'
    BY <1>1, <1>5, <2>2 DEF Agrees, ChannelAgrees, ListsAgree, StatusAgrees
  <2>4. Untold(depth)
    BY <1>1, <1>2, <2>3, OneChannelUntold
  <2> QED BY <1>3, <2>1, <2>4 DEF ServerTells
<1> QED BY <1>4, <1>5

LEMMA GoesOK ==
  ASSUME ServerOK, NEW n \in Nicks, NEW gone \in SUBSET Channels, Goes(n, gone)
  PROVE  /\ ServerOK' /\ me' = me
         /\ \A d \in Channels \ gone : Kept(d)
         /\ n # me => \A d \in gone : GoesFrom(d, n)
         /\ n = me => \A d \in gone : me' \notin on'[d] /\ ~told'[d]
<1>1. ServerOK'
  BY DEF ServerOK, Goes, Stripped
<1>2. \A d \in Channels \ gone : Kept(d)
  BY DEF ServerOK, Goes, Kept, Stripped
<1>3. n # me => \A d \in gone : GoesFrom(d, n)
  BY DEF ServerOK, Goes, GoesFrom, Stripped
<1>4. n = me => \A d \in gone : me' \notin on'[d] /\ ~told'[d]
  BY DEF ServerOK, Goes
<1> QED BY <1>1, <1>2, <1>3, <1>4 DEF Goes

LEMMA LeavesTells ==
  ASSUME ServerOK, NEW depth \in 0..2, NEW c \in Channels, NEW n \in Nicks,
         NEW cmd \in {"PART", "KICK"}, Leaves(c, n, cmd)
  PROVE  ServerTells(depth) /\ ServerOK'
<1> DEFINE l == [cmd |-> cmd, chan |-> c, nick |-> n]
<1>1. l \in Lines
  BY DEF Lines
<1>2. /\ ServerOK' /\ me' = me /\ \A d \in Channels \ {c} : Kept(d)
      /\ n # me => GoesFrom(c, n)
      /\ n = me => me' \notin on'[c] /\ ~told'[c]
  <2>1. Goes(n, {c}) /\ {c} \in SUBSET Channels
    BY DEF Leaves
  <2> QED BY <2>1, GoesOK
<1>3. CASE me \in on[c]
  <2>1. wire' = Append(wire, l)
    BY <1>3 DEF Leaves, Says
  <2>2. ASSUME NEW v \in Views, Agrees(depth, v)
        PROVE  ChannelAgrees(depth, c, Heard(v, l).acc[c], Heard(v, l).roster[c], Heard(v, l).confirmed[c])'
    <3>1. v.nick = me /\ ChannelAgrees(depth, c, v.acc[c], v.roster[c], v.confirmed[c])
      BY <2>2 DEF Agrees
    <3>2. CASE n # me
      <4>1. ChannelAgrees(depth, c, Without(v.acc[c], n), Without(v.roster[c], n), v.confirmed[c])'
        BY <1>2, <3>1, <3>2, ViewParts, GoesAgrees
      <4>2. /\ Heard(v, l).acc[c] = Without(v.acc[c], n)
            /\ Heard(v, l).roster[c] = Without(v.roster[c], n)
            /\ Heard(v, l).confirmed[c] = v.confirmed[c]
        BY <1>1, <3>1, <3>2, HeardMember
      <4> QED BY <4>1, <4>2
    <3>3. CASE n = me
      <4>1. ChannelAgrees(depth, c, <<>>, <<>>, {})'
        BY <1>2, <3>3, WeGoAgrees
      <4>2. /\ Heard(v, l).acc[c] = <<>> /\ Heard(v, l).roster[c] = <<>>
            /\ Heard(v, l).confirmed[c] = {}
        BY <1>1, <3>1, <3>3, HeardMember
      <4> QED BY <4>1, <4>2
    <3> QED BY <3>2, <3>3
  <2>3. Told(depth, l)
    BY <1>1, <1>2, <2>2, OneChannelTold
  <2> QED BY <1>1, <1>2, <2>1, <2>3 DEF ServerTells
<1>4. CASE me \notin on[c]
  <2>1. wire' = wire /\ n # me
    BY <1>4 DEF Leaves, Says
  <2>2. ASSUME NEW v \in Views, Agrees(depth, v)
        PROVE  ChannelAgrees(depth, c, v.acc[c], v.roster[c], v.confirmed[c])'
    BY <1>2, <1>4, <2>1, <2>2, GoesUnheardAgrees DEF Agrees
  <2>3. Untold(depth)
    BY <1>2, <2>2, OneChannelUntold
  <2> QED BY <1>2, <2>1, <2>3 DEF ServerTells
<1> QED BY <1>3, <1>4

LEMMA QuitsTells ==
  ASSUME ServerOK, NEW depth \in 0..2, NEW n \in Nicks, Quits(n)
  PROVE  ServerTells(depth) /\ ServerOK'
<1> DEFINE l == [cmd |-> "QUIT", nick |-> n]
<1>1. l \in Lines
  BY DEF Lines
<1>2. /\ ServerOK' /\ me' = me /\ n # me /\ \A d \in Channels : GoesFrom(d, n)
  <2>1. Goes(n, Channels) /\ Channels \in SUBSET Channels /\ n # me
    BY DEF Quits
  <2> QED BY <2>1, GoesOK
<1>3. CASE Seen(n)
  <2>1. wire' = Append(wire, l)
    BY <1>3 DEF Quits, Says
  <2>2. ASSUME NEW v \in Views, Agrees(depth, v) PROVE Agrees(depth, Heard(v, l))'
    <3>1. v.nick = me /\ Heard(v, l).nick = v.nick
      BY <1>1, <2>2, HeardNick DEF Agrees
    <3>2. ASSUME NEW d \in Channels
          PROVE  /\ Heard(v, l).acc[d] = Without(v.acc[d], n)
                 /\ Heard(v, l).roster[d] = Without(v.roster[d], n)
                 /\ Heard(v, l).confirmed[d] = v.confirmed[d]
      BY DEF Heard, AccAfter, PanelAfter, ConfirmedAfter, WithoutAll
    <3>3. ASSUME NEW d \in Channels
          PROVE  ChannelAgrees(depth, d, Without(v.acc[d], n), Without(v.roster[d], n), v.confirmed[d])'
      <4>1. ChannelAgrees(depth, d, v.acc[d], v.roster[d], v.confirmed[d])
        BY <2>2 DEF Agrees
      <4> QED BY <1>2, <4>1, ViewParts, GoesAgrees
    <3>4. \A d \in Channels :
            ChannelAgrees(depth, d, Heard(v, l).acc[d], Heard(v, l).roster[d], Heard(v, l).confirmed[d])'
      BY <3>2, <3>3
    <3> QED BY <1>2, <3>1, <3>4 DEF Agrees
  <2>3. Told(depth, l)
    BY <2>2 DEF Told
  <2> QED BY <1>1, <1>2, <2>1, <2>3 DEF ServerTells
<1>4. CASE ~Seen(n)
  <2>1. wire' = wire
    BY <1>4 DEF Quits, Says
  <2>2. ASSUME NEW v \in Views, Agrees(depth, v) PROVE Agrees(depth, v)'
    <3>1. ASSUME NEW d \in Channels
          PROVE  ChannelAgrees(depth, d, v.acc[d], v.roster[d], v.confirmed[d])'
      <4>1. me \notin on[d] \/ n \notin on[d]
        BY <1>4 DEF Seen
      <4>2. ChannelAgrees(depth, d, v.acc[d], v.roster[d], v.confirmed[d])
        BY <2>2 DEF Agrees
      <4> QED BY <1>2, <4>1, <4>2, GoesUnheardAgrees
    <3> QED BY <1>2, <2>2, <3>1 DEF Agrees
  <2>3. Untold(depth)
    BY <2>2 DEF Untold
  <2> QED BY <1>2, <2>1, <2>3 DEF ServerTells
<1> QED BY <1>3, <1>4

LEMMA RenamesOK ==
  ASSUME ServerOK, NEW old \in Nicks, NEW new \in Nicks, Renames(old, new)
  PROVE  ServerOK' /\ \A d \in Channels : RenamedOn(d, old, new)
<1>1. /\ new # me /\ \A d \in Channels : new \notin on[d]
      /\ old # new
      /\ me' = (IF old = me THEN new ELSE me)
      /\ on' = [d \in Channels |-> Swapped(on[d], old, new)]
      /\ todo' = [d \in Channels |-> Swapped(todo[d], old, new)]
      /\ status' = [d \in Channels |-> [status[d] EXCEPT ![new] = status[d][old], ![old] = {}]]
      /\ untold' = [d \in Channels |-> [untold[d] EXCEPT ![new] = untold[d][old], ![old] = {}]]
      /\ flags' = flags /\ asked' = asked /\ told' = told
  BY DEF Renames, Swapped, Moved
<1>2. \A d \in Channels : RenamedOn(d, old, new)
  BY <1>1 DEF RenamedOn
<1>3. me' \in Nicks /\ flags' = flags /\ asked' = asked /\ told' = told
  BY <1>1 DEF ServerOK
<1>4. on' \in [Channels -> SUBSET Nicks] /\ todo' \in [Channels -> SUBSET Nicks]
  BY <1>1 DEF ServerOK, Swapped
<1>5. ASSUME NEW d \in Channels
      PROVE  /\ status'[d] \in [Nicks -> SUBSET Status]
             /\ status'[d][new] = status[d][old] /\ status'[d][old] = {}
             /\ untold'[d] \in [Nicks -> SUBSET Status]
             /\ untold'[d][new] = untold[d][old] /\ untold'[d][old] = {}
             /\ \A m \in Nicks \ {old, new} :
                  status'[d][m] = status[d][m] /\ untold'[d][m] = untold[d][m]
  <2>1. status[d] \in [Nicks -> SUBSET Status] /\ untold[d] \in [Nicks -> SUBSET Status]
    BY DEF ServerOK
  <2>2. /\ status'[d] = [status[d] EXCEPT ![new] = status[d][old], ![old] = {}]
        /\ untold'[d] = [untold[d] EXCEPT ![new] = untold[d][old], ![old] = {}]
    BY <1>1
  <2> QED BY <1>1, <2>1, <2>2
<1>6. /\ status' \in [Channels -> [Nicks -> SUBSET Status]]
      /\ untold' \in [Channels -> [Nicks -> SUBSET Status]]
  BY <1>1, <1>5
<1>7. \A d \in Channels : todo'[d] \subseteq on'[d]
  BY <1>1 DEF ServerOK, Swapped
<1>8. ASSUME NEW d \in Channels, NEW m \in Nicks \ on'[d]
      PROVE  status'[d][m] = {} /\ untold'[d][m] = {}
  <2>1. on'[d] = Swapped(on[d], old, new)
    BY <1>1
  <2>2. CASE m = old
    BY <1>5, <2>2
  <2>3. CASE m = new
    <3>1. old \notin on[d]
      BY <1>8, <2>1, <2>3 DEF Swapped
    <3> QED BY <1>5, <2>3, <3>1 DEF ServerOK
  <2>4. CASE m \notin {old, new}
    <3>1. m \notin on[d]
      BY <1>8, <2>1, <2>4 DEF Swapped
    <3> QED BY <1>5, <2>4, <3>1 DEF ServerOK
  <2> QED BY <2>2, <2>3, <2>4
<1>9. ServerOK'
  BY <1>3, <1>4, <1>6, <1>7, <1>8 DEF ServerOK
<1> QED BY <1>2, <1>9

LEMMA RenamesTells ==
  ASSUME ServerOK, NEW depth \in 0..2, NEW old \in Nicks, NEW new \in Nicks, Renames(old, new)
  PROVE  ServerTells(depth) /\ ServerOK'
<1> DEFINE l == [cmd |-> "NICK", old |-> old, new |-> new]
<1>1. l \in Lines
  BY DEF Lines
<1>2. ServerOK' /\ \A d \in Channels : RenamedOn(d, old, new)
  BY RenamesOK
<1>3. me' = IF old = me THEN new ELSE me
  BY DEF Renames
<1>4. CASE old = me \/ Seen(old)
  <2>1. wire' = Append(wire, l)
    BY <1>4 DEF Renames, Says
  <2>2. ASSUME NEW v \in Views, Agrees(depth, v) PROVE Agrees(depth, Heard(v, l))'
    <3>1. Heard(v, l).nick = me'
      <4>1. v.nick = me
        BY <2>2 DEF Agrees
      <4>2. Heard(v, l).nick = IF old = v.nick THEN new ELSE v.nick
        BY DEF Heard, NickAfter
      <4> QED BY <1>3, <4>1, <4>2
    <3>2. ASSUME NEW d \in Channels
          PROVE  /\ Heard(v, l).acc[d] = Renamed(v.acc[d], old, new)
                 /\ Heard(v, l).roster[d] = IF Lists(v.roster[d], old)
                      THEN Sorted(Renamed(v.roster[d], old, new)) ELSE v.roster[d]
                 /\ Heard(v, l).confirmed[d] = v.confirmed[d]
      BY DEF Heard, AccAfter, PanelAfter, ConfirmedAfter, RenamedAll
    <3>3. ASSUME NEW d \in Channels
          PROVE  ChannelAgrees(depth, d, Renamed(v.acc[d], old, new),
                   IF Lists(v.roster[d], old) THEN Sorted(Renamed(v.roster[d], old, new))
                   ELSE v.roster[d], v.confirmed[d])'
      <4>1. ChannelAgrees(depth, d, v.acc[d], v.roster[d], v.confirmed[d])
        BY <2>2 DEF Agrees
      <4> QED BY <1>2, <4>1, ViewParts, RenamesAgrees
    <3>4. \A d \in Channels :
            ChannelAgrees(depth, d, Heard(v, l).acc[d], Heard(v, l).roster[d], Heard(v, l).confirmed[d])'
      BY <3>2, <3>3
    <3> QED BY <3>1, <3>4 DEF Agrees
  <2>3. Told(depth, l)
    BY <2>2 DEF Told
  <2> QED BY <1>1, <1>2, <2>1, <2>3 DEF ServerTells
<1>5. CASE ~(old = me \/ Seen(old))
  <2>1. wire' = wire
    BY <1>5 DEF Renames, Says
  <2>2. ASSUME NEW v \in Views, Agrees(depth, v) PROVE Agrees(depth, v)'
    <3>1. ASSUME NEW d \in Channels
          PROVE  ChannelAgrees(depth, d, v.acc[d], v.roster[d], v.confirmed[d])'
      <4>1. me \notin on[d] \/ old \notin on[d]
        BY <1>5 DEF Seen
      <4>2. ChannelAgrees(depth, d, v.acc[d], v.roster[d], v.confirmed[d])
        BY <2>2 DEF Agrees
      <4> QED BY <1>2, <1>5, <4>1, <4>2, RenamesUnheardAgrees
    <3> QED BY <1>3, <1>5, <2>2, <3>1 DEF Agrees
  <2>3. Untold(depth)
    BY <2>2 DEF Untold
  <2> QED BY <1>2, <2>1, <2>3 DEF ServerTells
<1> QED BY <1>4, <1>5

LEMMA SetsStatusTells ==
  ASSUME ServerOK, NEW depth \in 0..2, NEW c \in Channels, NEW n \in Nicks, NEW s \in Status,
         SetsStatus(c, n, s)
  PROVE  ServerTells(depth) /\ ServerOK'
<1>1. PICK add \in BOOLEAN : add <=> s \notin status[c][n]
  OBVIOUS
<1> DEFINE l == [cmd |-> "MODE", chan |-> c, nick |-> n, add |-> add, prefix |-> s]
<1>2. l \in Lines
  BY DEF Lines
<1>3. /\ me' = me /\ on' = on /\ flags' = flags /\ asked' = asked /\ todo' = todo /\ told' = told
      /\ n \in on[c] /\ status' = [status EXCEPT ![c][n] = Changed(@, add, s)]
      /\ untold' = [untold EXCEPT ![c][n] = @ \ {s}]
  BY <1>1 DEF SetsStatus, reply, Changed
<1>4. \A d \in Channels \ {c} : Kept(d)
  BY <1>3 DEF ServerOK, Kept
<1>5. ServerOK'
  <2>1. Changed(status[c][n], add, s) \in SUBSET Status
    BY ChangedType DEF ServerOK
  <2> QED BY <1>3, <2>1 DEF ServerOK
<1>6. CASE me \in on[c]
  <2>1. wire' = Append(wire, l)
    <3>1. wire' = Append(wire, [cmd |-> "MODE", chan |-> c, nick |-> n,
                                add |-> (s \notin status[c][n]), prefix |-> s])
      BY <1>6 DEF SetsStatus, Says
    <3>2. (s \notin status[c][n]) = add
      BY <1>1
    <3> QED BY <3>1, <3>2
  <2>2. ASSUME NEW v \in Views, Agrees(depth, v)
        PROVE  ChannelAgrees(depth, c, Heard(v, l).acc[c], Heard(v, l).roster[c], Heard(v, l).confirmed[c])'
    <3>1. ChannelAgrees(depth, c, v.acc[c], v.roster[c], v.confirmed[c])
      BY <2>2 DEF Agrees
    <3>2. ChannelAgrees(depth, c, ModeOnAll(v.acc[c], n, add, s), ModeOnFirst(v.roster[c], n, add, s),
                        v.confirmed[c])'
      BY <1>1, <3>1, ViewParts, SetsStatusAgrees
    <3>3. /\ Heard(v, l).acc[c] = ModeOnAll(v.acc[c], n, add, s)
          /\ Heard(v, l).roster[c] = ModeOnFirst(v.roster[c], n, add, s)
          /\ Heard(v, l).confirmed[c] = v.confirmed[c]
      BY <1>2, HeardHere
    <3> QED BY <3>2, <3>3
  <2>3. Told(depth, l)
    BY <1>2, <1>3, <1>4, <2>2, OneChannelTold
  <2> QED BY <1>2, <1>5, <2>1, <2>3 DEF ServerTells
<1>7. CASE me \notin on[c]
  <2>1. wire' = wire
    BY <1>7 DEF SetsStatus, Says
  <2>2. ASSUME NEW v \in Views, Agrees(depth, v)
        PROVE  ChannelAgrees(depth, c, v.acc[c], v.roster[c], v.confirmed[c])'
    <3>1. ChannelAgrees(depth, c, v.acc[c], v.roster[c], v.confirmed[c])
      BY <2>2 DEF Agrees
    <3> QED BY <1>1, <1>7, <3>1, ViewParts, SetsStatusAgrees
  <2>3. Untold(depth)
    BY <1>3, <1>4, <2>2, OneChannelUntold
  <2> QED BY <1>5, <2>1, <2>3 DEF ServerTells
<1> QED BY <1>6, <1>7

LEMMA SetsFlagTells ==
  ASSUME ServerOK, NEW depth \in 0..2, NEW c \in Channels, NEW f \in Flags, SetsFlag(c, f)
  PROVE  ServerTells(depth) /\ ServerOK'
<1>1. PICK add \in BOOLEAN : add <=> f \notin flags[c]
  OBVIOUS
<1> DEFINE l == [cmd |-> "FLAG", chan |-> c, add |-> add, flag |-> f]
<1>2. l \in Lines
  BY DEF Lines
<1>3. /\ me' = me /\ on' = on /\ status' = status /\ asked' = asked /\ todo' = todo /\ told' = told
      /\ untold' = untold /\ flags' = [flags EXCEPT ![c] = Changed(@, add, f)]
  BY <1>1 DEF SetsFlag, reply, Changed
<1>4. \A d \in Channels \ {c} : Kept(d)
  BY <1>3 DEF ServerOK, Kept
<1>5. ServerOK'
  <2>1. flags \in [Channels -> SUBSET Flags]
    BY DEF ServerOK
  <2>2. Changed(flags[c], add, f) \in SUBSET Flags
    BY <2>1 DEF Changed
  <2>3. flags' \in [Channels -> SUBSET Flags]
    BY <1>3, <2>1, <2>2
  <2> QED BY <1>3, <2>3 DEF ServerOK
<1>6. CASE me \in on[c]
  <2>1. wire' = Append(wire, l)
    <3>1. wire' = Append(wire, [cmd |-> "FLAG", chan |-> c, add |-> (f \notin flags[c]), flag |-> f])
      BY <1>6 DEF SetsFlag, Says
    <3>2. (f \notin flags[c]) = add
      BY <1>1
    <3> QED BY <3>1, <3>2
  <2>2. ASSUME NEW v \in Views, Agrees(depth, v)
        PROVE  ChannelAgrees(depth, c, Heard(v, l).acc[c], Heard(v, l).roster[c], Heard(v, l).confirmed[c])'
    <3>1. ChannelAgrees(depth, c, v.acc[c], v.roster[c], v.confirmed[c])
      BY <2>2 DEF Agrees
    <3>2. ChannelAgrees(depth, c, v.acc[c], v.roster[c], Changed(v.confirmed[c], add, f))'
      BY <1>1, <3>1, SetsFlagAgrees
    <3>3. /\ Heard(v, l).acc[c] = v.acc[c] /\ Heard(v, l).roster[c] = v.roster[c]
          /\ Heard(v, l).confirmed[c] = Changed(v.confirmed[c], add, f)
      BY <1>2, HeardHere
    <3> QED BY <3>2, <3>3
  <2>3. Told(depth, l)
    BY <1>2, <1>3, <1>4, <2>2, OneChannelTold
  <2> QED BY <1>2, <1>5, <2>1, <2>3 DEF ServerTells
<1>7. CASE me \notin on[c]
  <2>1. wire' = wire
    BY <1>7 DEF SetsFlag, Says
  <2>2. ASSUME NEW v \in Views, Agrees(depth, v)
        PROVE  ChannelAgrees(depth, c, v.acc[c], v.roster[c], v.confirmed[c])'
    <3>1. ChannelAgrees(depth, c, v.acc[c], v.roster[c], v.confirmed[c])
      BY <2>2 DEF Agrees
    <3> QED BY <1>1, <1>7, <3>1, SetsFlagAgrees
  <2>3. Untold(depth)
    BY <1>3, <1>4, <2>2, OneChannelUntold
  <2> QED BY <1>5, <2>1, <2>3 DEF ServerTells
<1> QED BY <1>6, <1>7

LEMMA AsksNamesTells ==
  ASSUME ServerOK, NEW depth \in 0..2, NEW c \in Channels, AsksNames(c)
  PROVE  ServerTells(depth) /\ ServerOK'
<1>1. /\ me' = me /\ on' = on /\ status' = status /\ flags' = flags /\ told' = told /\ wire' = wire
      /\ asked' = [asked EXCEPT ![c] = TRUE] /\ todo' = [todo EXCEPT ![c] = on[c]]
      /\ untold' = untold
  BY DEF AsksNames, channel
<1>2. \A d \in Channels \ {c} : Kept(d)
  BY <1>1 DEF ServerOK, Kept
<1>3. ServerOK'
  BY <1>1 DEF ServerOK
<1>4. ASSUME NEW v \in Views, Agrees(depth, v)
      PROVE  ChannelAgrees(depth, c, v.acc[c], v.roster[c], v.confirmed[c])'
  <2>1. ChannelAgrees(depth, c, v.acc[c], v.roster[c], v.confirmed[c])
    BY <1>4 DEF Agrees
  <2> QED BY <2>1, ViewParts, AsksAgrees
<1>5. Untold(depth)
  BY <1>1, <1>2, <1>4, OneChannelUntold
<1> QED BY <1>1, <1>3, <1>5 DEF ServerTells

LEMMA AsksModesTells ==
  ASSUME ServerOK, NEW depth \in 0..2, NEW c \in Channels, AsksModes(c)
  PROVE  ServerTells(depth) /\ ServerOK'
<1>1. /\ me' = me /\ on' = on /\ status' = status /\ flags' = flags /\ asked' = asked /\ todo' = todo
      /\ told' = [told EXCEPT ![c] = me \in on[c]] /\ untold' = untold
      /\ wire' = Append(wire, [cmd |-> "324", chan |-> c, flags |-> flags[c]])
  BY DEF AsksModes, channel, Says
<1>2. PICK l \in Lines : l = [cmd |-> "324", chan |-> c, flags |-> flags[c]]
  BY DEF Lines, ServerOK
<1>3. \A d \in Channels \ {c} : Kept(d)
  BY <1>1 DEF ServerOK, Kept
<1>4. ServerOK'
  <2>1. told' \in [Channels -> BOOLEAN]
    BY <1>1 DEF ServerOK
  <2> QED BY <1>1, <2>1 DEF ServerOK
<1>5. ASSUME NEW v \in Views, Agrees(depth, v)
      PROVE  ChannelAgrees(depth, c, Heard(v, l).acc[c], Heard(v, l).roster[c], Heard(v, l).confirmed[c])'
  <2>1. ChannelAgrees(depth, c, v.acc[c], v.roster[c], v.confirmed[c])
    BY <1>5 DEF Agrees
  <2>2. PICK kept : kept = flags[c]
    OBVIOUS
  <2>3. flags' = flags
    BY <1>1
  <2>4. ChannelAgrees(depth, c, v.acc[c], v.roster[c], kept)'
    <3>1. ChannelAgrees(depth, c, v.acc[c], v.roster[c], flags[c])'
      BY <2>1, ViewParts, AsksAgrees
    <3> QED BY <2>2, <2>3, <3>1 DEF ChannelAgrees
  <2>5. /\ Heard(v, l).acc[c] = v.acc[c] /\ Heard(v, l).roster[c] = v.roster[c]
        /\ Heard(v, l).confirmed[c] = kept
    BY <1>2, <2>2, HeardHere
  <2> QED BY <2>4, <2>5
<1>6. l.cmd \notin {"QUIT", "NICK"} /\ l.chan = c
  BY <1>2
<1>7. Told(depth, l)
  BY <1>1, <1>3, <1>5, <1>6, OneChannelTold
<1> QED BY <1>1, <1>2, <1>4, <1>7 DEF ServerTells

LEMMA ListsOneTells ==
  ASSUME ServerOK, NEW depth \in 0..2, Granted(depth), NEW c \in Channels, NEW n \in Nicks,
         ListsOne(c, n)
  PROVE  ServerTells(depth) /\ ServerOK'
<1>1. PICK x \in Entries : x = Entry(n, Strongest(status[c][n]))
  <2>1. status[c][n] \in SUBSET Status
    BY DEF ServerOK
  <2>2. Strongest(status[c][n]) \subseteq status[c][n]
    BY <2>1, StrongestIn
  <2> QED BY <2>1, <2>2 DEF Entry, Entries
<1> DEFINE l == [cmd |-> "353", chan |-> c, entry |-> x]
<1>2. l \in Lines
  BY DEF Lines
<1>3. /\ me' = me /\ on' = on /\ status' = status /\ flags' = flags /\ asked' = asked /\ told' = told
      /\ todo' = [todo EXCEPT ![c] = @ \ {n}]
      /\ untold' = [untold EXCEPT ![c][n] = status[c][n] \ Strongest(status[c][n])]
  BY DEF ListsOne, channel
<1>4. wire' = Append(wire, l)
  BY <1>1 DEF ListsOne, Says
<1>5. \A d \in Channels \ {c} : Kept(d)
  BY <1>3 DEF ServerOK, Kept
<1>6. ServerOK'
  <2>1. n \in on[c] /\ status[c][n] \ Strongest(status[c][n]) \in SUBSET Status
    BY DEF ServerOK, ListsOne
  <2> QED BY <1>3, <2>1 DEF ServerOK
<1>7. ASSUME NEW v \in Views, Agrees(depth, v)
      PROVE  ChannelAgrees(depth, c, Heard(v, l).acc[c], Heard(v, l).roster[c], Heard(v, l).confirmed[c])'
  <2>1. ChannelAgrees(depth, c, v.acc[c], v.roster[c], v.confirmed[c])
    BY <1>7 DEF Agrees
  <2>2. ChannelAgrees(depth, c, IF Len(v.acc[c]) < MaxNames THEN Append(v.acc[c], x) ELSE v.acc[c],
                      v.roster[c], v.confirmed[c])'
    BY <1>1, <2>1, ViewParts, ListsOneAgrees
  <2>3. /\ Heard(v, l).acc[c] = (IF Len(v.acc[c]) < MaxNames THEN Append(v.acc[c], x) ELSE v.acc[c])
        /\ Heard(v, l).roster[c] = v.roster[c] /\ Heard(v, l).confirmed[c] = v.confirmed[c]
    BY <1>2, HeardHere
  <2> QED BY <2>2, <2>3
<1>8. Told(depth, l)
  BY <1>2, <1>3, <1>5, <1>7, OneChannelTold
<1> QED BY <1>2, <1>4, <1>6, <1>8 DEF ServerTells

LEMMA EndsListTells ==
  ASSUME ServerOK, NEW depth \in 0..2, NEW c \in Channels, EndsList(c)
  PROVE  ServerTells(depth) /\ ServerOK'
<1> DEFINE l == [cmd |-> "366", chan |-> c]
<1>1. l \in Lines
  BY DEF Lines
<1>2. /\ me' = me /\ on' = on /\ status' = status /\ flags' = flags /\ todo' = todo /\ told' = told
      /\ asked' = [asked EXCEPT ![c] = FALSE] /\ untold' = untold /\ wire' = Append(wire, l)
  BY DEF EndsList, channel, Says
<1>3. \A d \in Channels \ {c} : Kept(d)
  BY <1>2 DEF ServerOK, Kept
<1>4. ServerOK'
  BY <1>2 DEF ServerOK
<1>5. ASSUME NEW v \in Views, Agrees(depth, v)
      PROVE  ChannelAgrees(depth, c, Heard(v, l).acc[c], Heard(v, l).roster[c], Heard(v, l).confirmed[c])'
  <2>1. ChannelAgrees(depth, c, v.acc[c], v.roster[c], v.confirmed[c])
    BY <1>5 DEF Agrees
  <2>2. ChannelAgrees(depth, c, <<>>, v.acc[c], v.confirmed[c])'
    BY <2>1, ViewParts, EndsListAgrees
  <2>3. /\ Heard(v, l).acc[c] = <<>> /\ Heard(v, l).roster[c] = v.acc[c]
        /\ Heard(v, l).confirmed[c] = v.confirmed[c]
    BY <1>1, HeardHere
  <2> QED BY <2>2, <2>3
<1>6. Told(depth, l)
  BY <1>1, <1>2, <1>3, <1>5, OneChannelTold
<1> QED BY <1>1, <1>2, <1>4, <1>6 DEF ServerTells

\* Whatever the server does, and says or does not say of it.
LEMMA ServerInvariance ==
  ASSUME NEW depth \in 0..2, IInv(depth), Granted(depth), Server
  PROVE  IInv(depth)'
<1>1. ServerTells(depth) /\ ServerOK'
  <2> USE DEF IInv
  <2>1. CASE \E c \in Channels : WeJoin(c) \/ AsksNames(c) \/ AsksModes(c) \/ EndsList(c)
    BY <2>1, WeJoinTells, AsksNamesTells, AsksModesTells, EndsListTells
  <2>2. CASE \E c \in Channels, n \in Nicks : TheyJoin(c, n) \/ ListsOne(c, n)
    BY <2>2, TheyJoinTells, ListsOneTells
  <2>3. CASE \E c \in Channels, n \in Nicks : Leaves(c, n, "PART") \/ Leaves(c, n, "KICK")
    BY <2>3, LeavesTells
  <2>4. CASE \E c \in Channels, n \in Nicks, s \in Status : SetsStatus(c, n, s)
    BY <2>4, SetsStatusTells
  <2>5. CASE \E c \in Channels, f \in Flags : SetsFlag(c, f)
    BY <2>5, SetsFlagTells
  <2>6. CASE \E n \in Nicks : Quits(n)
    BY <2>6, QuitsTells
  <2>7. CASE \E old, new \in Nicks : Renames(old, new)
    BY <2>7, RenamesTells
  <2> QED BY <2>1, <2>2, <2>3, <2>4, <2>5, <2>6, <2>7 DEF Server
<1>2. UNCHANGED <<session, events, bridge>>
  BY ZenonT(60) DEF Server, WeJoin, AsksNames, AsksModes, EndsList, TheyJoin, ListsOne, Leaves, SetsStatus,
     SetsFlag, Quits, Renames
<1>3. Happens \/ changes' = changes
  BY ZenonT(60) DEF Server, WeJoin, AsksNames, AsksModes, EndsList, TheyJoin, ListsOne, Leaves, SetsStatus,
     SetsFlag, Quits, Renames
<1>4. changes' \in 0..MaxChanges
  <2>1. changes \in 0..MaxChanges /\ MaxChanges \in Nat
    BY NamesAssumption DEF IInv, UnderWayOK
  <2> QED BY <1>3, <2>1 DEF Happens
<1>5. wire' = wire \/ Len(wire) < MaxWire
  BY ZenonT(60) DEF Server, WeJoin, AsksNames, AsksModes, EndsList, TheyJoin, ListsOne, Leaves, SetsStatus,
     SetsFlag, Quits, Renames, Says
<1>6. Len(wire') <= MaxWire
  <2>1. wire \in Seq(Lines) /\ Len(wire) <= MaxWire /\ MaxWire \in Nat
    BY NamesAssumption DEF IInv, UnderWayOK
  <2>2. CASE wire' = wire
    BY <2>1, <2>2
  <2>3. CASE wire' # wire
    <3>1. PICK l \in Lines : wire' = Append(wire, l)
      BY <1>1, <2>3 DEF ServerTells
    <3>2. Len(Append(wire, l)) = Len(wire) + 1 /\ Len(wire) \in Nat
      BY <2>1, AppendProperties, LenProperties
    <3>3. Len(wire) < MaxWire
      BY <1>5, <2>3
    <3> QED BY <2>1, <3>1, <3>2, <3>3
  <2> QED BY <2>2, <2>3
<1> QED BY <1>1, <1>2, <1>4, <1>6, ServerStep

-----------------------------------------------------------------------------
(* The next session, the beginning, and any step *)

\* A session that begins anew is followed by the bridge in two events, and nothing it
\* held counts.
LEMMA ReconnectsInvariance ==
  ASSUME NEW depth \in 0..2, IInv(depth), Reconnects
  PROVE  IInv(depth)'
<1>1. PICK called \in Events : called = [kind |-> "NickChanged", nick |-> me]
  BY DEF IInv, ServerOK, Events
<1>2. PICK gone \in Events : gone = [kind |-> "Disconnected"]
  BY DEF Events
<1>3. PICK p \in Panels : EventsLead(ThePanel, events, p)
  BY DEF IInv, PlayedOK
<1>4. /\ me' = me /\ flags' = flags /\ wire' = <<>> /\ nick' = me /\ ThePanel' = ThePanel
      /\ on' = [c \in Channels |-> on[c] \ {me}]
      /\ status' = [c \in Channels |-> [status[c] EXCEPT ![me] = {}]]
      /\ untold' = [c \in Channels |-> [untold[c] EXCEPT ![me] = {}]]
      /\ asked' = [c \in Channels |-> FALSE] /\ todo' = [c \in Channels |-> {}]
      /\ told' = [c \in Channels |-> FALSE]
      /\ acc' = [c \in Channels |-> <<>>] /\ confirmed' = [c \in Channels |-> {}]
  BY DEF Reconnects, bridge, ThePanel, Stripped
<1>5. events \in Seq(Events) /\ events' = events \o <<gone, called>>
  BY <1>1, <1>2 DEF Reconnects, IInv, UnderWayOK
<1>6. PICK q \in Panels : q = Shown(Shown(p, gone), called)
  BY ShownType
<1>7. q.nickname = me /\ q.modes = [c \in Channels |-> {}]
  <2>2. Shown(p, gone).modes = [c \in Channels |-> {}]
    BY <1>2 DEF Shown, ModesAfter
  <2>3. q.nickname = me
    BY <1>1, <1>6 DEF Shown, NicknameAfter
  <2>4. q.modes = Shown(p, gone).modes
    BY <1>1, <1>6 DEF Shown, ModesAfter
  <2> QED BY <2>2, <2>3, <2>4
<1>8. EventsLead(ThePanel, events', q) /\ events' \in Seq(Events)
  <2>1. /\ Append(events, gone) \in Seq(Events) /\ events \o <<gone>> = Append(events, gone)
        /\ EventsLead(ThePanel, Append(events, gone), Shown(p, gone))
    BY <1>2, <1>3, <1>5, EventAdded
  <2> DEFINE es == Append(events, gone)
  <2> HIDE DEF es
  <2>2. /\ Append(es, called) \in Seq(Events) /\ es \o <<called>> = Append(es, called)
        /\ EventsLead(ThePanel, Append(es, called), Shown(Shown(p, gone), called))
    BY <1>1, <2>1, EventAdded DEF es
  <2>3. es \o <<called>> = events'
    <3>1. <<gone>> \in Seq(Events) /\ <<called>> \in Seq(Events)
          /\ <<gone>> \o <<called>> = <<gone, called>>
      BY <1>1, <1>2, TwoEvents
    <3>2. (events \o <<gone>>) \o <<called>> = events \o (<<gone>> \o <<called>>)
      BY <1>5, <3>1, ConcatAssociative
    <3> QED BY <1>5, <2>1, <3>1, <3>2 DEF es
  <2> QED BY <1>6, <2>2, <2>3
<1>9. ServerOK'
  <2>1. me \in Nicks /\ on \in [Channels -> SUBSET Nicks] /\ flags \in [Channels -> SUBSET Flags]
        /\ status \in [Channels -> [Nicks -> SUBSET Status]]
        /\ untold \in [Channels -> [Nicks -> SUBSET Status]]
        /\ \A c \in Channels : \A n \in Nicks \ on[c] : status[c][n] = {} /\ untold[c][n] = {}
    BY DEF IInv, ServerOK
  <2>2. /\ on' \in [Channels -> SUBSET Nicks]
        /\ status' \in [Channels -> [Nicks -> SUBSET Status]]
        /\ untold' \in [Channels -> [Nicks -> SUBSET Status]]
    BY <1>4, <2>1
  <2>3. \A c \in Channels : \A n \in Nicks \ on'[c] : status'[c][n] = {} /\ untold'[c][n] = {}
    BY <1>4, <2>1
  <2> QED BY <1>4, <2>1, <2>2, <2>3 DEF ServerOK
<1>10. HeldOK'
  <2>1. acc' \in ListMaps
    BY <1>4 DEF ListMaps
  <2>2. confirmed' \in FlagMaps
    BY <1>4 DEF FlagMaps
  <2> QED BY <1>4, <2>1, <2>2 DEF IInv, HeldOK, ServerOK
<1>11. UnderWayOK'
  <2>1. changes' \in 0..MaxChanges
    BY NamesAssumption DEF IInv, UnderWayOK, Reconnects, Happens
  <2>2. wire' \in Seq(Lines) /\ Len(wire') <= MaxWire
    BY <1>4, NamesAssumption
  <2>3. Len(events') <= MaxEvents
    <3>1. <<gone, called>> \in Seq(Events) /\ Len(<<gone, called>>) = 2
      BY <1>1, <1>2
    <3>2. Len(events') = Len(events) + 2
      BY <1>5, <3>1, ConcatProperties
    <3> QED BY <3>2 DEF Reconnects
  <2> QED BY <1>8, <2>1, <2>2, <2>3 DEF UnderWayOK
<1>12. PICK v \in Views : v = TheView(q.roster)'
  <2>1. q.roster \in ListMaps
    BY <1>6 DEF Panels
  <2> QED BY <1>10, <2>1 DEF TheView, Views, HeldOK
<1>13. LinesLead(v, wire', v)
  BY <1>4, NoLines
<1>14. Agrees(depth, v)'
  <2>1. v.nick = me' /\ v.acc = acc' /\ v.confirmed = confirmed' /\ v.roster = q.roster
    BY <1>4, <1>12 DEF TheView
  <2>2. ASSUME NEW c \in Channels
        PROVE  ChannelAgrees(depth, c, v.acc[c], v.roster[c], v.confirmed[c])'
    <3>1. me' \notin on'[c] /\ ~asked'[c] /\ ~told'[c] /\ v.acc[c] = <<>>
      BY <1>4, <2>1
    <3> QED BY <3>1 DEF ChannelAgrees, ListsAgree, StatusAgrees
  <2> QED BY <2>1, <2>2 DEF Agrees
<1>15. PlayedOK(depth)'
  <2>1. EventsLead(ThePanel', events', q) /\ q.nickname = nick' /\ q.modes = confirmed'
    BY <1>4, <1>7, <1>8
  <2>2. LinesLead(TheView(q.roster)', wire', v)
    BY <1>12, <1>13
  <2> QED BY <1>6, <1>14, <2>1, <2>2 DEF PlayedOK
<1> QED BY <1>9, <1>10, <1>11, <1>15 DEF IInv

LEMMA NamesInitially == ASSUME NEW depth \in 0..2, Init PROVE IInv(depth)
<1>1. 1 \in Nicks /\ Present \subseteq Nicks \ {1}
  BY NamesAssumption DEF Nicks
<1>2. ServerOK
  <2>1. /\ on \in [Channels -> SUBSET Nicks] /\ status \in [Channels -> [Nicks -> SUBSET Status]]
        /\ untold = [c \in Channels |-> [n \in Nicks |-> {}]]
    BY <1>1 DEF Init
  <2> QED BY <1>1, <2>1 DEF Init, ServerOK
<1>3. UnderWayOK
  BY NamesAssumption DEF Init, UnderWayOK
<1>4. acc \in ListMaps /\ roster \in ListMaps /\ confirmed \in FlagMaps /\ modes \in FlagMaps
  BY DEF Init, ListMaps, FlagMaps
<1>5. nick \in Nicks /\ nickname \in Nicks
  BY <1>1 DEF Init
<1>6. ThePanel \in Panels
  BY <1>4, <1>5 DEF ThePanel, Panels
<1>7. HeldOK
  BY <1>4, <1>5, <1>6 DEF HeldOK
<1>8. PICK p \in Panels : p = ThePanel
  BY <1>6
<1>9. PICK v \in Views : v = TheView(p.roster)
  BY <1>4, <1>5, <1>8 DEF TheView, Views, ThePanel
<1>10. EventsLead(ThePanel, events, p) /\ LinesLead(TheView(p.roster), wire, v)
  BY <1>8, <1>9, NoEvents, NoLines DEF Init
<1>11. p.nickname = nick /\ p.modes = confirmed
  BY <1>8 DEF ThePanel, Init
<1>12. Agrees(depth, v)
  <2>1. v.nick = me /\ v.acc = acc /\ v.confirmed = confirmed /\ v.roster = p.roster
    BY <1>9 DEF TheView, Init
  <2>2. ASSUME NEW c \in Channels
        PROVE  ChannelAgrees(depth, c, v.acc[c], v.roster[c], v.confirmed[c])
    <3>1. me \notin on[c] /\ ~asked[c] /\ ~told[c] /\ v.acc[c] = <<>>
      BY <1>1, <2>1 DEF Init
    <3> QED BY <3>1 DEF ChannelAgrees, ListsAgree, StatusAgrees
  <2> QED BY <2>1, <2>2 DEF Agrees
<1>13. PlayedOK(depth)
  BY <1>10, <1>11, <1>12 DEF PlayedOK
<1> QED BY <1>2, <1>3, <1>7, <1>13 DEF IInv

LEMMA NamesUnchanged ==
  ASSUME NEW depth \in 0..2, IInv(depth), UNCHANGED vars
  PROVE  IInv(depth)'
<1>1. /\ UNCHANGED server /\ wire' = wire /\ nick' = nick /\ acc' = acc /\ confirmed' = confirmed
      /\ events' = events /\ ThePanel' = ThePanel
  BY DEF vars, session, bridge, ThePanel
<1>2. PICK p \in Panels, v \in Views :
        /\ EventsLead(ThePanel, events, p) /\ p.nickname = nick /\ p.modes = confirmed
        /\ LinesLead(TheView(p.roster), wire, v) /\ Agrees(depth, v)
  BY DEF IInv, PlayedOK
<1>3. ServerOK' /\ Agrees(depth, v)' /\ changes' = changes
  BY <1>1, <1>2, AgreesStill DEF IInv
<1>4. UnderWayOK' /\ HeldOK'
  BY <1>1, <1>3 DEF IInv, UnderWayOK, HeldOK
<1>5. TheView(p.roster)' = TheView(p.roster)
  BY <1>1 DEF TheView
<1>6. PlayedOK(depth)'
  BY <1>1, <1>2, <1>3, <1>5 DEF PlayedOK
<1> QED BY <1>3, <1>4, <1>6 DEF IInv

LEMMA NamesInvariance ==
  ASSUME NEW depth \in 0..2, IInv(depth), Granted(depth), [Next]_vars
  PROVE  IInv(depth)'
<1>1. CASE Server
  BY <1>1, ServerInvariance
<1>2. CASE HearsALine
  <2>1. /\ wire # <<>> /\ wire' = Tail(wire) /\ UNCHANGED <<server, bridge>> /\ line \in Lines
        /\ \A p \in Panels : p.nickname = nick /\ p.modes = confirmed => Carried(p)
    BY <1>2, SessionPlays DEF IInv
  <2>2. /\ nick' \in Nicks /\ acc' \in ListMaps /\ confirmed' \in FlagMaps
        /\ Len(events') <= MaxEvents
    BY <1>2, SessionTyped DEF IInv
  <2> QED BY <2>1, <2>2, SessionStep
<1>3. CASE Reconnects
  BY <1>3, ReconnectsInvariance
<1>4. CASE Bridge
  BY <1>4, BridgePlays, BridgeStep DEF IInv
<1>5. CASE UNCHANGED vars
  BY <1>5, NamesUnchanged
<1> QED BY <1>1, <1>2, <1>3, <1>4, <1>5 DEF Next, Session, HearsALine

-----------------------------------------------------------------------------
(* What it comes to *)

\* With nothing under way, what is held is what was to be.
LEMMA NothingUnderWay ==
  ASSUME NEW depth \in 0..2, IInv(depth), wire = <<>>, events = <<>>
  PROVE  Agrees(depth, TheView(roster)) /\ modes = confirmed
<1>1. PICK p \in Panels, v \in Views :
        /\ EventsLead(ThePanel, events, p) /\ p.modes = confirmed
        /\ LinesLead(TheView(p.roster), wire, v) /\ Agrees(depth, v)
  BY DEF IInv, PlayedOK
<1>2. p = ThePanel /\ v = TheView(p.roster)
  BY <1>1, NoEventsLeft, NoLinesLeft
<1>3. p.roster = roster /\ p.modes = modes
  BY <1>2 DEF ThePanel
<1> QED BY <1>1, <1>2, <1>3

LEMMA SettledAgrees ==
  ASSUME NEW depth \in 0..2, IInv(depth), NEW c \in Channels, Settled(c)
  PROVE  ChannelAgrees(depth, c, acc[c], roster[c], confirmed[c]) /\ modes = confirmed
<1>1. Agrees(depth, TheView(roster)) /\ modes = confirmed
  BY NothingUnderWay DEF Settled
<1>2. /\ TheView(roster).acc = acc /\ TheView(roster).roster = roster
      /\ TheView(roster).confirmed = confirmed
  BY DEF TheView
<1> QED BY <1>1, <1>2 DEF Agrees

LEMMA RosterTyped == ASSUME NEW depth, IInv(depth) PROVE roster \in ListMaps /\ modes \in FlagMaps /\ nickname \in Nicks
  BY DEF IInv, HeldOK, ThePanel, Panels

LEMMA TypeOKFollows == ASSUME IInv(0) PROVE TypeOK
<1>1. ServerOK /\ UnderWayOK
  BY DEF IInv
<1>2. nick \in Nicks /\ acc \in ListMaps /\ confirmed \in FlagMaps
  BY DEF IInv, HeldOK
<1> QED BY <1>1, <1>2, RosterTyped DEF ServerOK, UnderWayOK, ListMaps, FlagMaps, TypeOK

LEMMA FlagsFollow == ASSUME IInv(0) PROVE FlagsAreConfirmed
<1>1. ASSUME NEW c \in Channels, Settled(c), told[c] PROVE modes[c] = flags[c]
  BY <1>1, SettledAgrees DEF ChannelAgrees
<1> QED BY <1>1 DEF FlagsAreConfirmed

LEMMA RosterFollows == ASSUME IInv(1) PROVE RosterIsTruth
<1>1. ASSUME NEW c \in Channels, Settled(c) PROVE {e.nick : e \in ToSet(roster[c])} = on[c]
  <2>1. Names(roster[c]) = on[c]
    BY <1>1, SettledAgrees DEF ChannelAgrees, ListsAgree, Settled
  <2> QED BY <2>1 DEF Names, ToSet
<1> QED BY <1>1 DEF RosterIsTruth

\* Where the bridge looks for a name, its first entry is.
LEMMA FirstOfFacts ==
  ASSUME NEW list \in Seq(Entries), NEW n \in Names(list)
  PROVE  \E i \in DOMAIN list : FirstOf(list, n) = list[i] /\ list[i].nick = n /\ First(list, i)
<1> DEFINE I == {i \in 1..Len(list) : list[i].nick = n}
<1>1. Len(list) \in Nat /\ DOMAIN list = 1..Len(list) /\ \A i \in DOMAIN list : i \in Nat
  BY Places
<1>2. FirstOf(list, n) = list[IF I # {} THEN Min(I) ELSE 0]
  BY DEF FirstOf, SelectInSeq
<1>3. I # {} /\ I \in SUBSET Nat
  BY <1>1 DEF Names
<1>4. Min(I) \in I /\ \A i \in I : Min(I) <= i
  <2>1. \E x \in I : \A y \in I : x <= y
    BY <1>3, LeastExists
  <2> QED BY <2>1 DEF Min
<1>5. PICK i \in I : i = Min(I) /\ \A j \in I : i <= j
  BY <1>4
<1>6. i \in DOMAIN list /\ list[i].nick = n /\ i \in Nat
  BY <1>1, <1>5
<1>7. First(list, i)
  <2>1. ASSUME NEW j \in DOMAIN list, j < i PROVE list[j].nick # n
    <3>1. j \in Nat /\ ~(i <= j)
      BY <1>1, <1>6, <2>1
    <3> QED BY <1>1, <1>5, <3>1
  <2> QED BY <1>6, <2>1 DEF First
<1> QED BY <1>2, <1>3, <1>5, <1>6, <1>7

LEMMA StatusFollows == ASSUME IInv(2) PROVE StatusIsShown
<1>1. ASSUME NEW c \in Channels, Settled(c), NEW n \in on[c]
      PROVE  FirstOf(roster[c], n).status \in Showable(status[c][n], untold[c][n])
  <2>1. Names(roster[c]) = on[c] /\ FirstTrue(roster[c], Truth(c))
    BY <1>1, SettledAgrees DEF ChannelAgrees, ListsAgree, StatusAgrees, Settled
  <2>2. roster[c] \in Seq(Entries)
    BY RosterTyped DEF ListMaps
  <2>3. PICK i \in DOMAIN roster[c] : /\ FirstOf(roster[c], n) = roster[c][i]
                                     /\ roster[c][i].nick = n /\ First(roster[c], i)
    BY <2>1, <2>2, FirstOfFacts
  <2>4. roster[c][i].status \in Truth(c)[n]
    BY <2>1, <2>3 DEF FirstTrue
  <2>5. n \in Nicks
    BY DEF IInv, ServerOK
  <2> QED BY <2>3, <2>4, <2>5 DEF Truth
<1> QED BY <1>1 DEF StatusIsShown, Showable

LEMMA NamesInductive ==
  /\ Spec => []IInv(0)
  /\ Spec /\ []ListsFit => []IInv(1)
  /\ Spec /\ []ListsFit => []IInv(2)
<1>1. Init => IInv(0) /\ IInv(1) /\ IInv(2)
  BY NamesInitially
<1>2. IInv(0) /\ [Next]_vars => IInv(0)'
  BY NamesInvariance DEF Granted
<1>3. IInv(1) /\ ListsFit /\ [Next]_vars => IInv(1)'
  BY NamesInvariance DEF Granted
<1>4. IInv(2) /\ ListsFit /\ [Next]_vars => IInv(2)'
  BY NamesInvariance DEF Granted
<1>5. Spec => []IInv(0)
  BY <1>1, <1>2, PTL DEF Spec
<1>6. Spec /\ []ListsFit => []IInv(1)
  BY <1>1, <1>3, PTL DEF Spec
<1>7. Spec /\ []ListsFit => []IInv(2)
  BY <1>1, <1>4, PTL DEF Spec
<1> QED BY <1>5, <1>6, <1>7

\* Every map of server, session and bridge holds what its type says, and lines and events
\* under way keep to their bounds.
THEOREM NamesTypeCorrect == Spec => []TypeOK
<1>1. IInv(0) => TypeOK
  BY TypeOKFollows
<1> QED BY <1>1, NamesInductive, PTL

\* The flags the bridge shows of a channel we are on are the server's, once it has
\* confirmed them and everything sent has been taken in: 324 replaces what was tracked,
\* and what our leaving or a new session forgets is never confirmed (session.rs:919).
THEOREM FlagsAreConfirmedHolds == Spec => []FlagsAreConfirmed
<1>1. IInv(0) => FlagsAreConfirmed
  BY FlagsFollow
<1> QED BY <1>1, NamesInductive, PTL

\* The people panel names who is there and nobody else, whatever joins, parts, kicks,
\* quits and renames fall between the pieces of a NAMES reply, as long as no channel has
\* half as many members as names_acc may hold: one may be listed twice (session.rs:594).
THEOREM RosterIsTruthHolds == Spec /\ []ListsFit => []RosterIsTruth
<1>1. IInv(1) => RosterIsTruth
  BY RosterFollows
<1> QED BY <1>1, NamesInductive, PTL

\* Nobody is shown with a prefix it has not, whenever during a reply it was given or
\* taken, and none is missing but what the last 353 left out and no MODE has told of
\* since, however many prefixes there are, as long as no channel has half as many members
\* as names_acc may hold (session.rs:669, 843).
THEOREM StatusIsShownHolds == Spec /\ []ListsFit => []StatusIsShown
<1>1. IInv(2) => StatusIsShown
  BY StatusFollows
<1> QED BY <1>1, NamesInductive, PTL

\* Where there are fewer than half as many nicknames as names_acc may hold, both are so in
\* every behaviour.
THEOREM SmallNetworks ==
  ASSUME 2 * TopNick < MaxNames
  PROVE  Spec => [](RosterIsTruth /\ StatusIsShown)
<1>1. IInv(0) => ListsFit
  <2>1. IsFiniteSet(Nicks) /\ Cardinality(Nicks) = TopNick
    BY NamesAssumption, FS_Interval DEF Nicks
  <2>2. ASSUME IInv(0), NEW c \in Channels PROVE 2 * Cardinality(on[c]) < MaxNames
    <3>1. on[c] \in SUBSET Nicks
      BY <2>2 DEF IInv, ServerOK
    <3>2. Cardinality(on[c]) \in Nat /\ Cardinality(on[c]) <= TopNick
      BY <2>1, <3>1, FS_Subset, FS_CardinalityType
    <3> QED BY <3>2, NamesAssumption
  <2> QED BY <2>2 DEF ListsFit
<1> QED BY <1>1, NamesInductive, RosterIsTruthHolds, StatusIsShownHolds, PTL
=============================================================================
