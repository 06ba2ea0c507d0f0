----------------------------- MODULE KircNames -----------------------------
(***************************************************************************)
(* Who is on a channel, with which status and under which flags, on its    *)
(* way from the server to the people panel: the NAMES accumulator and the  *)
(* tracked flags of the session (rust/core/src/session.rs), and the NICKS  *)
(* and MODES maps of the bridge (rust/src/bridge.rs).                      *)
(*                                                                         *)
(* The server answers NAMES in pieces, one member to a 353 here, and the   *)
(* channel goes on changing between them; each 353 tells what holds when   *)
(* it is sent.  Lines and events arrive in order (KircBridge shows this of *)
(* the events).  A map without an entry and one with an empty entry are    *)
(* the same thing to this code, so every map is total.  Channel and nick   *)
(* spellings, the argument matching of long MODE lines, and list modes are *)
(* not here.                                                               *)
(***************************************************************************)
EXTENDS Naturals, FiniteSets, SequencesExt

CONSTANTS
  TopNick,      \* nicknames are 1..TopNick, in their sorting order; ours begins as 1
  Present,      \* who is on every channel at first
  Channels,
  TopStatus,    \* the prefixes of prefix_modes are 1..TopStatus, 1 the strongest
  Flags,        \* the channel flags without an argument
  ListsLate,    \* TRUE: a NAMES reply under way may also list who comes in meanwhile
  MaxNames,     \* MAX_NAMES_PER_CHANNEL, 50000 in the code
  MaxChanges,   \* bound: what happens on the server's side, replies apart
  MaxWire,      \* bound: lines under way
  MaxEvents     \* bound: events under way, at least the two of a rename

ASSUME NamesAssumption ==
  /\ TopNick \in Nat \ {0} /\ Present \subseteq 2..TopNick
  /\ TopStatus \in Nat /\ ListsLate \in BOOLEAN
  /\ MaxNames \in Nat /\ MaxChanges \in Nat /\ MaxWire \in Nat
  /\ MaxEvents \in Nat \ {0, 1}

VARIABLES
  me,        \* our nickname, as the server knows it
  on,        \* who is on each channel
  status,    \* with which prefixes; {} for who is not there
  flags,     \* the flags of each channel
  asked,     \* a NAMES reply is being sent
  todo,      \* the members it still has to list
  told,      \* history: a 324 was sent since we came in
  untold,    \* history: the prefixes of a member the last 353 that listed it left out
  changes,   \* bound: how much has happened
  wire,      \* the lines on their way to the session
  nick,      \* Session.config.nickname
  acc,       \* Session.names_acc
  confirmed, \* Session.channel_modes
  events,    \* the events on their way to the bridge
  nickname,  \* IrcBridge.nickname
  roster,    \* NICKS
  modes      \* MODES

channel == <<me, on, status, flags>>
reply   == <<asked, todo, told, untold>>
server  == <<channel, reply, changes>>
session == <<nick, acc, confirmed>>
bridge  == <<nickname, roster, modes>>
vars    == <<server, wire, session, events, bridge>>

Nicks == 1..TopNick
Status == 1..TopStatus
Entry(n, s) == [nick |-> n, status |-> s]
Entries == [nick : Nicks, status : SUBSET Status]

-----------------------------------------------------------------------------
(* Lists of members and sets of modes *)

Lists(list, n) == \E i \in DOMAIN list : list[i].nick = n

\* names_acc_add and add_nick: at the end, unless the name is there already.
Add(list, n) == IF Lists(list, n) THEN list ELSE Append(list, Entry(n, {}))

\* The entries of a list in the order of upTo: at each place it keeps, the places whose
\* entries come no later.
Arranged(list, upTo) ==
  [k \in 1..Cardinality(DOMAIN upTo) |->
    list[CHOOSE i \in DOMAIN upTo : Cardinality(upTo[i]) = k]]

\* names_acc_remove and remove_nick: every entry of that name.
Without(list, n) ==
  LET kept == {i \in DOMAIN list : list[i].nick # n}
  IN Arranged(list, [i \in kept |-> {j \in kept : j <= i}])

\* names_acc_rename: every entry keeps its prefixes.
Renamed(list, old, new) ==
  [i \in DOMAIN list |-> IF list[i].nick = old THEN Entry(new, list[i].status) ELSE list[i]]

Changed(set, add, x) == IF add THEN set \cup {x} ELSE set \ {x}

\* names_acc_apply_mode: every entry of that name.
ModeOnAll(list, n, add, s) ==
  [i \in DOMAIN list |->
    IF list[i].nick = n THEN Entry(n, Changed(list[i].status, add, s)) ELSE list[i]]

\* apply_prefix_to_list: the first entry of that name.
ModeOnFirst(list, n, add, s) ==
  LET at == SelectInSeq(list, LAMBDA e : e.nick = n)
  IN IF at = 0 THEN list ELSE ReplaceAt(list, at, Entry(n, Changed(list[at].status, add, s)))

\* The sort of a NickRename: by name, entries of one name in the order they had.
Sorted(list) ==
  Arranged(list, [i \in DOMAIN list |->
    {j \in DOMAIN list : \/ list[j].nick < list[i].nick
                         \/ list[j].nick = list[i].nick /\ j <= i}])

-----------------------------------------------------------------------------
(* The server *)

Happens == changes < MaxChanges /\ changes' = changes + 1

\* The server tells us of a channel only while we are on it.
Says(heard, line) ==
  IF heard THEN Len(wire) < MaxWire /\ wire' = Append(wire, line) ELSE UNCHANGED wire

\* We come in: JOIN, then the names, once the reply before is out.
WeJoin(c) ==
  /\ Happens /\ me \notin on[c] /\ ~asked[c]
  /\ on' = [on EXCEPT ![c] = @ \cup {me}]
  /\ asked' = [asked EXCEPT ![c] = TRUE]
  /\ todo' = [todo EXCEPT ![c] = on'[c]]
  /\ Says(TRUE, [cmd |-> "JOIN", chan |-> c, nick |-> me])
  /\ UNCHANGED <<me, status, flags, told, untold, session, events, bridge>>

\* Another comes in; a reply under way may still list them, or not.
TheyJoin(c, n) ==
  /\ Happens /\ n # me /\ n \notin on[c]
  /\ on' = [on EXCEPT ![c] = @ \cup {n}]
  /\ Says(me \in on[c], [cmd |-> "JOIN", chan |-> c, nick |-> n])
  /\ \/ UNCHANGED todo
     \/ ListsLate /\ asked[c] /\ todo' = [todo EXCEPT ![c] = @ \cup {n}]
  /\ UNCHANGED <<me, status, flags, asked, told, untold, session, events, bridge>>

\* What there was to n on the channels of gone.
Stripped(prefixes, n, gone) ==
  [c \in Channels |-> IF c \in gone THEN [prefixes[c] EXCEPT ![n] = {}] ELSE prefixes[c]]

\* n goes from the channels of gone; our own going lets a reply run on.
Goes(n, gone) ==
  /\ on' = [c \in Channels |-> IF c \in gone THEN on[c] \ {n} ELSE on[c]]
  /\ status' = Stripped(status, n, gone) /\ untold' = Stripped(untold, n, gone)
  /\ todo' = [c \in Channels |-> IF c \in gone THEN todo[c] \ {n} ELSE todo[c]]
  /\ told' = [c \in Channels |-> told[c] /\ ~(n = me /\ c \in gone)]
  /\ UNCHANGED <<me, flags, asked>>

\* PART and KICK; our own PART waits for the reply to what we asked before.
Leaves(c, n, cmd) ==
  /\ Happens /\ n \in on[c]
  /\ n = me /\ cmd = "PART" => ~asked[c]
  /\ Goes(n, {c})
  /\ Says(me \in on[c], [cmd |-> cmd, chan |-> c, nick |-> n])
  /\ UNCHANGED <<session, events, bridge>>

Seen(n) == \E c \in Channels : {me, n} \subseteq on[c]

Quits(n) ==
  /\ Happens /\ n # me /\ \E c \in Channels : n \in on[c]
  /\ Goes(n, Channels)
  /\ Says(Seen(n), [cmd |-> "QUIT", nick |-> n])
  /\ UNCHANGED <<session, events, bridge>>

Moved(prefixes, old, new) ==
  [c \in Channels |-> [prefixes[c] EXCEPT ![new] = prefixes[c][old], ![old] = {}]]

Renames(old, new) ==
  LET In(set) == IF old \in set THEN (set \ {old}) \cup {new} ELSE set
  IN /\ Happens
     /\ old = me \/ \E c \in Channels : old \in on[c]
     /\ new # me /\ \A c \in Channels : new \notin on[c]
     /\ me' = IF old = me THEN new ELSE me
     /\ on' = [c \in Channels |-> In(on[c])]
     /\ todo' = [c \in Channels |-> In(todo[c])]
     /\ status' = Moved(status, old, new) /\ untold' = Moved(untold, old, new)
     /\ Says(old = me \/ Seen(old), [cmd |-> "NICK", old |-> old, new |-> new])
     /\ UNCHANGED <<flags, asked, told, session, events, bridge>>

SetsStatus(c, n, s) ==
  LET add == s \notin status[c][n]
  IN /\ Happens /\ n \in on[c]
     /\ status' = [status EXCEPT ![c][n] = Changed(@, add, s)]
     /\ Says(me \in on[c], [cmd |-> "MODE", chan |-> c, nick |-> n, add |-> add, prefix |-> s])
     /\ untold' = [untold EXCEPT ![c][n] = @ \ {s}]
     /\ UNCHANGED <<me, on, flags, asked, todo, told, session, events, bridge>>

SetsFlag(c, f) ==
  LET add == f \notin flags[c]
  IN /\ Happens
     /\ flags' = [flags EXCEPT ![c] = Changed(@, add, f)]
     /\ Says(me \in on[c], [cmd |-> "FLAG", chan |-> c, add |-> add, flag |-> f])
     /\ UNCHANGED <<me, on, status, reply, session, events, bridge>>

\* /names and the MODE query of the properties dialog, for any channel.
AsksNames(c) ==
  /\ Happens /\ ~asked[c]
  /\ asked' = [asked EXCEPT ![c] = TRUE]
  /\ todo' = [todo EXCEPT ![c] = on[c]]
  /\ UNCHANGED <<channel, told, untold, wire, session, events, bridge>>

AsksModes(c) ==
  /\ Happens
  /\ told' = [told EXCEPT ![c] = me \in on[c]]
  /\ Says(TRUE, [cmd |-> "324", chan |-> c, flags |-> flags[c]])
  /\ UNCHANGED <<channel, asked, todo, untold, session, events, bridge>>

\* multi-prefix is not among the capabilities asked for: a 353 shows one prefix.
Strongest(s) == IF s = {} THEN {} ELSE {Min(s)}

ListsOne(c, n) ==
  /\ asked[c] /\ n \in todo[c]
  /\ todo' = [todo EXCEPT ![c] = @ \ {n}]
  /\ untold' = [untold EXCEPT ![c][n] = status[c][n] \ Strongest(status[c][n])]
  /\ Says(TRUE, [cmd |-> "353", chan |-> c, entry |-> Entry(n, Strongest(status[c][n]))])
  /\ UNCHANGED <<channel, asked, told, changes, session, events, bridge>>

EndsList(c) ==
  /\ asked[c] /\ todo[c] = {}
  /\ asked' = [asked EXCEPT ![c] = FALSE]
  /\ Says(TRUE, [cmd |-> "366", chan |-> c])
  /\ UNCHANGED <<channel, todo, told, untold, changes, session, events, bridge>>

-----------------------------------------------------------------------------
(* The session: one line of the wire, and the events it becomes *)

Hears(cmd) ==
  /\ wire # <<>> /\ Head(wire).cmd = cmd
  /\ wire' = Tail(wire)
  /\ UNCHANGED <<server, bridge>>

Emits(next) == Len(events) + Len(next) <= MaxEvents /\ events' = events \o next

line == Head(wire)
\* A membership line becomes an event of the same content, and whether it is about us.
Membership(kind) == <<[kind |-> kind, chan |-> line.chan, nick |-> line.nick, self |-> line.nick = nick]>>
Leaving(c) == acc' = [acc EXCEPT ![c] = <<>>] /\ confirmed' = [confirmed EXCEPT ![c] = {}]

HearsJoin ==
  /\ Hears("JOIN") /\ Emits(Membership("Join"))
  /\ acc' = IF line.nick = nick THEN acc ELSE [acc EXCEPT ![line.chan] = Add(@, line.nick)]
  /\ UNCHANGED <<nick, confirmed>>

\* Mutant: the pending list keeps who has left.
HearsGoneUnfolded(cmd, kind) ==
  /\ Hears(cmd) /\ Emits(Membership(kind))
  /\ IF line.nick = nick THEN Leaving(line.chan) ELSE UNCHANGED <<acc, confirmed>>
  /\ UNCHANGED nick
HearsGone(cmd, kind) ==
  /\ Hears(cmd) /\ Emits(Membership(kind))
  /\ IF line.nick = nick
     THEN Leaving(line.chan)
     ELSE acc' = [acc EXCEPT ![line.chan] = Without(@, line.nick)] /\ UNCHANGED confirmed
  /\ UNCHANGED nick
HearsQuit ==
  /\ Hears("QUIT") /\ Emits(<<[kind |-> "Quit", nick |-> line.nick]>>)
  /\ acc' = [c \in Channels |-> Without(acc[c], line.nick)]
  /\ UNCHANGED <<nick, confirmed>>

\* nick_rename_events: our own rename is reported twice, as what we are called first.
HearsNick ==
  LET self == line.old = nick
      rename == [kind |-> "NickRename", old |-> line.old, new |-> line.new, self |-> self]
  IN /\ Hears("NICK")
     /\ Emits(IF self THEN <<[kind |-> "NickChanged", nick |-> line.new], rename>>
                      ELSE <<rename>>)
     /\ acc' = [c \in Channels |-> Renamed(acc[c], line.old, line.new)]
     /\ nick' = IF self THEN line.new ELSE nick
     /\ UNCHANGED confirmed

\* Mutant: the pending list keeps the prefixes it came with.
HearsStatusUnfolded ==
  /\ Hears("MODE")
  /\ Emits(<<[kind |-> "MemberMode", chan |-> line.chan, nick |-> line.nick,
             add |-> line.add, prefix |-> line.prefix]>>)
  /\ UNCHANGED session
HearsStatus ==
  /\ Hears("MODE")
  /\ Emits(<<[kind |-> "MemberMode", chan |-> line.chan, nick |-> line.nick,
             add |-> line.add, prefix |-> line.prefix]>>)
  /\ acc' = [acc EXCEPT ![line.chan] = ModeOnAll(@, line.nick, line.add, line.prefix)]
  /\ UNCHANGED <<nick, confirmed>>
ModesEvent(c) == [kind |-> "ChannelModes", chan |-> c, modes |-> confirmed'[c]]

\* apply_flag_change: an event only when the tracked set changes.
HearsFlag ==
  /\ Hears("FLAG")
  /\ confirmed' = [confirmed EXCEPT ![line.chan] = Changed(@, line.add, line.flag)]
  /\ Emits(IF confirmed' = confirmed THEN <<>> ELSE <<ModesEvent(line.chan)>>)
  /\ UNCHANGED <<nick, acc>>

\* Mutant: what the server confirms is added to what was tracked.
HearsModesAdded ==
  /\ Hears("324")
  /\ confirmed' = [confirmed EXCEPT ![line.chan] = @ \cup line.flags]
  /\ Emits(<<ModesEvent(line.chan)>>)
  /\ UNCHANGED <<nick, acc>>
HearsModes ==
  /\ Hears("324")
  /\ confirmed' = [confirmed EXCEPT ![line.chan] = line.flags]
  /\ Emits(<<ModesEvent(line.chan)>>)
  /\ UNCHANGED <<nick, acc>>
HearsNames ==
  /\ Hears("353") /\ Emits(<<>>)
  /\ acc' = IF Len(acc[line.chan]) < MaxNames
            THEN [acc EXCEPT ![line.chan] = Append(@, line.entry)] ELSE acc
  /\ UNCHANGED <<nick, confirmed>>

HearsEndOfNames ==
  /\ Hears("366") /\ Emits(<<[kind |-> "Names", chan |-> line.chan, nicks |-> acc[line.chan]]>>)
  /\ acc' = [acc EXCEPT ![line.chan] = <<>>]
  /\ UNCHANGED <<nick, confirmed>>

\* The link is lost and the next session begins: on no channel, with nothing kept.
Reconnects ==
  /\ Happens /\ Len(events) + 2 <= MaxEvents
  /\ on' = [c \in Channels |-> on[c] \ {me}]
  /\ status' = Stripped(status, me, Channels) /\ untold' = Stripped(untold, me, Channels)
  /\ asked' = [c \in Channels |-> FALSE] /\ todo' = [c \in Channels |-> {}]
  /\ told' = [c \in Channels |-> FALSE]
  /\ wire' = <<>> /\ nick' = me
  /\ acc' = [c \in Channels |-> <<>>] /\ confirmed' = [c \in Channels |-> {}]
  /\ events' = events \o <<[kind |-> "Disconnected"], [kind |-> "NickChanged", nick |-> me]>>
  /\ UNCHANGED <<me, flags, bridge>>

-----------------------------------------------------------------------------
(* The bridge: handle_event, on the Qt thread *)

Handles(kind) ==
  /\ events # <<>> /\ Head(events).kind = kind
  /\ events' = Tail(events)
  /\ UNCHANGED <<server, wire, session>>

event == Head(events)
Forgets(c) == roster' = [roster EXCEPT ![c] = <<>>] /\ modes' = [modes EXCEPT ![c] = {}]

ShowsJoin ==
  /\ Handles("Join")
  /\ roster' = IF event.self THEN roster ELSE [roster EXCEPT ![event.chan] = Add(@, event.nick)]
  /\ UNCHANGED <<nickname, modes>>

\* A Part carries no is_self: the bridge compares with the nickname it holds.
ShowsGone(kind) ==
  /\ Handles(kind)
  /\ IF (IF kind = "Part" THEN event.nick = nickname ELSE event.self)
     THEN Forgets(event.chan)
     ELSE roster' = [roster EXCEPT ![event.chan] = Without(@, event.nick)] /\ UNCHANGED modes
  /\ UNCHANGED nickname

ShowsQuit ==
  /\ Handles("Quit")
  /\ roster' = [c \in Channels |-> Without(roster[c], event.nick)]
  /\ UNCHANGED <<nickname, modes>>

ShowsNickChanged ==
  /\ Handles("NickChanged")
  /\ nickname' = event.nick
  /\ UNCHANGED <<roster, modes>>

ShowsNickRename ==
  /\ Handles("NickRename")
  /\ nickname' = IF event.self THEN event.new ELSE nickname
  /\ roster' = [c \in Channels |->
       IF Lists(roster[c], event.old)
       THEN Sorted(Renamed(roster[c], event.old, event.new)) ELSE roster[c]]
  /\ UNCHANGED modes

ShowsMemberMode ==
  /\ Handles("MemberMode")
  /\ roster' = [roster EXCEPT ![event.chan] =
       ModeOnFirst(@, event.nick, event.add, event.prefix)]
  /\ UNCHANGED <<nickname, modes>>

ShowsModes ==
  /\ Handles("ChannelModes")
  /\ modes' = [modes EXCEPT ![event.chan] = event.modes]
  /\ UNCHANGED <<nickname, roster>>

ShowsNames ==
  /\ Handles("Names")
  /\ roster' = [roster EXCEPT ![event.chan] = event.nicks]
  /\ UNCHANGED <<nickname, modes>>
ShowsDisconnected ==
  /\ Handles("Disconnected")
  /\ roster' = [c \in Channels |-> <<>>] /\ modes' = [c \in Channels |-> {}]
  /\ UNCHANGED nickname

-----------------------------------------------------------------------------
Init ==
  /\ me = 1 /\ nick = 1 /\ nickname = 1
  /\ on = [c \in Channels |-> Present]
  /\ status \in [Channels -> [Nicks -> SUBSET Status]]
  /\ \A c \in Channels : \A n \in Nicks \ Present : status[c][n] = {}
  /\ flags \in [Channels -> SUBSET Flags]
  /\ asked = [c \in Channels |-> FALSE] /\ todo = [c \in Channels |-> {}]
  /\ told = [c \in Channels |-> FALSE] /\ untold = [c \in Channels |-> [n \in Nicks |-> {}]]
  /\ changes = 0 /\ wire = <<>> /\ events = <<>>
  /\ acc = [c \in Channels |-> <<>>] /\ confirmed = [c \in Channels |-> {}]
  /\ roster = [c \in Channels |-> <<>>] /\ modes = [c \in Channels |-> {}]

Server ==
  \/ \E c \in Channels : WeJoin(c) \/ AsksNames(c) \/ AsksModes(c) \/ EndsList(c)
  \/ \E c \in Channels, n \in Nicks : \/ TheyJoin(c, n) \/ ListsOne(c, n)
                                      \/ Leaves(c, n, "PART") \/ Leaves(c, n, "KICK")
                                      \/ \E s \in Status : SetsStatus(c, n, s)
  \/ \E c \in Channels, f \in Flags : SetsFlag(c, f)
  \/ \E n \in Nicks : Quits(n)
  \/ \E old, new \in Nicks : Renames(old, new)

Session ==
  \/ HearsJoin \/ HearsGone("PART", "Part") \/ HearsGone("KICK", "Kick") \/ HearsQuit
  \/ HearsNick \/ HearsStatus \/ HearsFlag \/ HearsModes \/ HearsNames \/ HearsEndOfNames
  \/ Reconnects

Bridge ==
  \/ ShowsJoin \/ ShowsGone("Part") \/ ShowsGone("Kick") \/ ShowsQuit \/ ShowsNickChanged
  \/ ShowsNickRename \/ ShowsMemberMode \/ ShowsModes \/ ShowsNames \/ ShowsDisconnected

Next == Server \/ Session \/ Bridge
Spec == Init /\ [][Next]_vars

-----------------------------------------------------------------------------
(* Properties *)

\* Every map holds what its type says, and the lines and events under way are bounded.
TypeOK ==
  /\ {me, nick, nickname} \subseteq Nicks
  /\ on \in [Channels -> SUBSET Nicks]
  /\ {status, untold} \subseteq [Channels -> [Nicks -> SUBSET Status]]
  /\ flags \in [Channels -> SUBSET Flags]
  /\ asked \in [Channels -> BOOLEAN] /\ told \in [Channels -> BOOLEAN]
  /\ todo \in [Channels -> SUBSET Nicks]
  /\ changes \in 0..MaxChanges
  /\ Len(wire) <= MaxWire /\ Len(events) <= MaxEvents
  /\ acc \in [Channels -> Seq(Entries)] /\ roster \in [Channels -> Seq(Entries)]
  /\ confirmed \in [Channels -> SUBSET Flags] /\ modes \in [Channels -> SUBSET Flags]

\* We are on the channel and everything sent about it has been taken in.
Settled(c) == me \in on[c] /\ ~asked[c] /\ wire = <<>> /\ events = <<>>

\* Joins, parts, kicks, quits and renames that fall between the pieces of a NAMES reply
\* are in the list it ends with: once settled, the people panel names who is there, and
\* nobody else (session.rs:594).
RosterIsTruth ==
  \A c \in Channels : Settled(c) => {e.nick : e \in ToSet(roster[c])} = on[c]

\* The entry of a list that stands for n: where the bridge looks for it.
FirstOf(list, n) == list[SelectInSeq(list, LAMBDA e : e.nick = n)]

\* A status given or taken at any moment of a reply is in the list too: once settled,
\* nobody is shown with a prefix it has not, and of those it has only the ones are
\* missing that the last 353 left out, no MODE having told of them since; without
\* multi-prefix a 353 has room for one (session.rs:669, 843).
StatusIsShown ==
  \A c \in Channels : Settled(c) => \A n \in on[c] :
    LET shown == FirstOf(roster[c], n).status
    IN  /\ shown \subseteq status[c][n]
        /\ status[c][n] \ untold[c][n] \subseteq shown

\* Once the server has confirmed the flags of a channel we are on, the flags shown are
\* those it has, whatever was tracked before we came or while we were away (session.rs:919).
FlagsAreConfirmed ==
  \A c \in Channels : Settled(c) /\ told[c] => modes[c] = flags[c]

\* "deduped by bare nick" (session.rs:1841): nobody is listed twice.
NobodyTwice ==
  \A c \in Channels : Settled(c) =>
    \A i, j \in DOMAIN roster[c] : roster[c][i].nick = roster[c][j].nick => i = j
=============================================================================
