------------------------------ MODULE KircChat ------------------------------
(***************************************************************************)
(* What is said in a channel and in queries, from the command of one kIRC  *)
(* to the rows of all of them: PRIVMSG and its echo, CTCP requests and     *)
(* their replies, and CHATHISTORY with its batches (rust/core/src/         *)
(* session.rs).  Several kIRCs meet on one server, so a reply one of them  *)
(* gives is a line another one hears.                                      *)
(*                                                                         *)
(* A message is a number, its place in `said`.  Events reach the bridge in *)
(* order (KircBridge), so a row is filed when the line is heard.  Every    *)
(* client is welcome and keeps its nickname, the server keeps echo-message *)
(* as it was acknowledged, and nobody writes to themselves or to NickServ. *)
(* A row knows the batch its line was tagged with, which the program       *)
(* forgets.                                                                *)
(***************************************************************************)
EXTENDS Naturals, FiniteSets, SequencesExt

CONSTANTS
  Clients,
  Readers,      \* those who ask for histories
  Echoing,      \* which of them may have echo-message, as a set of sets
  Channel,      \* everyone is on it
  MaxBatches,   \* MAX_OPEN_BATCHES, 32 in the code
  Limits,       \* how many messages may be asked for: 1000 at most, says the page
  MaxHistory,   \* MAX_HISTORY_BATCH_MESSAGES, 5000 in the code
  MaxChunks,    \* bound: lines of one message
  MaxWire,      \* bound: lines under way to a client, or commands of one, when more comes
  MaxSaid,      \* bound: lines that users say, whole or in part
  MaxAsked      \* bound: histories asked for

ASSUME ChatAssumption ==
  /\ Channel \notin Clients /\ Readers \subseteq Clients /\ Echoing \subseteq SUBSET Clients
  /\ MaxHistory \in Nat /\ Limits \subseteq 1..MaxHistory
  /\ MaxBatches \in Nat \ {0} /\ MaxSaid \in Nat
  /\ MaxChunks \in Nat \ {0} /\ MaxWire \in Nat \ {0} /\ MaxAsked \in Nat

VARIABLES
  said,     \* the messages, as [from, target, kind, re]: a reply is `re` some request
  log,      \* the chat the server has seen, conversation by conversation
  served,   \* the histories it has sent, as [to, target, list]
  left,     \* what it has yet to send of each, its end included
  up,       \* lines from each client
  down,     \* lines to each client
  echo,     \* Session.echo_message: the server sends back what one says
  batches,  \* Session.batches, as [batch, target, messages]
  rows      \* STORE of each client

server == <<log, served, left>>
client == <<echo, batches, rows>>
vars   == <<said, server, up, down, client>>

Targets == {Channel} \cup Clients
Buffers(c) == Targets \ {c}
Ids == DOMAIN said
Member(c, i) == c = said[i].from \/ said[i].target \in {c, Channel}
\* Where a message from or to c with the other side t belongs.
Between(c, t) == IF t = Channel THEN {Channel} ELSE {c, t}
Conversations == {Between(c, t) : c \in Clients, t \in Targets}
Line(cmd, i, batch) == [cmd |-> cmd, id |-> i, batch |-> batch]
Row(i, batch) == [id |-> i, batch |-> batch]
Rows(list, batch) == [i \in DOMAIN list |-> Row(list[i], batch)]

-----------------------------------------------------------------------------
(* The server *)

HasRoom(wire) == Len(wire) < MaxWire
Sends(c, line) == HasRoom(down[c]) /\ down' = [down EXCEPT ![c] = Append(@, line)]

\* A line goes to the others it is for, and back to who sent it if they asked for echoes.
Relays(c) ==
  LET line == Head(up[c])
      Hears(d) == Member(d, line.id) /\ (d = c => echo[c])
  IN /\ up[c] # <<>> /\ line.cmd # "CHATHISTORY"
     /\ up' = [up EXCEPT ![c] = Tail(@)]
     /\ \A d \in Clients : Hears(d) => HasRoom(down[d])
     /\ down' = [d \in Clients |-> IF Hears(d) THEN Append(down[d], line) ELSE down[d]]
     /\ log' = IF said[line.id].kind = "chat"
               THEN [log EXCEPT ![Between(c, said[line.id].target)] = Append(@, line.id)] ELSE log
     /\ UNCHANGED <<said, served, left, client>>

\* CHATHISTORY LATEST
Latest(list, n) == IF Len(list) <= n THEN list ELSE SubSeq(list, Len(list) - n + 1, Len(list))

End == 0
ServesHistory(c) ==
  LET t == Head(up[c]).target
      list == Latest(log[Between(c, t)], Head(up[c]).limit)
  IN /\ up[c] # <<>> /\ Head(up[c]).cmd = "CHATHISTORY"
     /\ up' = [up EXCEPT ![c] = Tail(@)]
     /\ served' = Append(served, [to |-> c, target |-> t, list |-> list])
     /\ left' = Append(left, Append(list, End))
     /\ Sends(c, [cmd |-> "OPEN", batch |-> Len(served'), target |-> t])
     /\ UNCHANGED <<said, log, client>>

\* Several batches may be open, and their lines come in any order among each other.
SendsBatched(r) ==
  /\ left[r] # <<>> /\ Head(left[r]) # End
  /\ left' = [left EXCEPT ![r] = Tail(@)]
  /\ Sends(served[r].to, Line("PRIVMSG", Head(left[r]), r))
  /\ UNCHANGED <<said, log, served, up, client>>

ClosesBatch(r) ==
  /\ left[r] # <<>> /\ Head(left[r]) = End
  /\ left' = [left EXCEPT ![r] = Tail(@)]
  /\ Sends(served[r].to, [cmd |-> "CLOSE", batch |-> r])
  /\ UNCHANGED <<said, log, served, up, client>>

-----------------------------------------------------------------------------
(* A client: commands *)

Asked == Len(served) + Cardinality({c \in Clients : \E i \in DOMAIN up[c] : up[c][i].cmd = "CHATHISTORY"})
Spoken == Cardinality({i \in Ids : said[i].kind # "reply"})

\* The numbers of the next n messages.
Fresh(n) == [i \in 1..n |-> Len(said) + i]
Record(c, t, kind, re, n) ==
  said' = said \o [i \in 1..n |-> [from |-> c, target |-> t, kind |-> kind, re |-> re]]
Writes(c, cmd, list) ==
  up' = [up EXCEPT ![c] = @ \o [i \in DOMAIN list |-> Line(cmd, list[i], 0)]]
File(c, t, list) == rows' = [rows EXCEPT ![c][t] = @ \o list]

\* Mutant: shown here, echo-message or not.
SaysTwice(c, t, kind, n) ==
  /\ Spoken + n <= MaxSaid /\ HasRoom(up[c])
  /\ kind = "request" => n = 1
  /\ Record(c, t, kind, 0, n)
  /\ Writes(c, "PRIVMSG", Fresh(n))
  /\ IF kind = "chat" THEN File(c, t, Rows(Fresh(n), 0)) ELSE UNCHANGED rows
  /\ UNCHANGED <<server, down, echo, batches>>

\* Privmsg, in n lines; a CTCP query is not split and not shown.
Says(c, t, kind, n) ==
  /\ Spoken + n <= MaxSaid /\ HasRoom(up[c])
  /\ kind = "request" => n = 1
  /\ Record(c, t, kind, 0, n)
  /\ Writes(c, "PRIVMSG", Fresh(n))
  /\ IF ~echo[c] /\ kind = "chat" THEN File(c, t, Rows(Fresh(n), 0)) ELSE UNCHANGED rows
  /\ UNCHANGED <<server, down, echo, batches>>

RequestHistory(c, t, limit) ==
  /\ c \in Readers /\ Asked < MaxAsked /\ HasRoom(up[c])
  /\ up' = [up EXCEPT ![c] = Append(@, [cmd |-> "CHATHISTORY", target |-> t, limit |-> limit])]
  /\ UNCHANGED <<said, server, down, client>>

-----------------------------------------------------------------------------
(* A client: lines *)

line(c) == Head(down[c])
Hears(c, cmd) ==
  /\ down[c] # <<>> /\ line(c).cmd = cmd
  /\ down' = [down EXCEPT ![c] = Tail(@)]
  /\ UNCHANGED <<server, echo>>

OpenBatches(c, r) == {b \in batches[c] : b.batch = r}

\* conversation_target
Conversation(c, i) == IF said[i].target = c THEN said[i].from ELSE said[i].target

HearsOpen(c) ==
  /\ Hears(c, "OPEN")
  /\ batches' = IF Cardinality(batches[c]) < MaxBatches
       THEN [batches EXCEPT ![c] = @ \cup
              {[batch |-> line(c).batch, target |-> line(c).target, messages |-> <<>>]}]
       ELSE batches
  /\ UNCHANGED <<said, up, rows>>

\* HistoryBatch, and its way to the front of the buffer.
HearsClose(c) ==
  /\ Hears(c, "CLOSE")
  /\ batches' = [batches EXCEPT ![c] = @ \ OpenBatches(c, line(c).batch)]
  /\ IF OpenBatches(c, line(c).batch) = {} THEN UNCHANGED rows
     ELSE \E b \in OpenBatches(c, line(c).batch) :
            rows' = [rows EXCEPT ![c][b.target] = Rows(b.messages, b.batch) \o @]
  /\ UNCHANGED <<said, up>>

\* Mutant: a tagged line goes to every batch that is open.
HearsBatchedAnywhere(c) ==
  /\ Hears(c, "PRIVMSG") /\ OpenBatches(c, line(c).batch) # {}
  /\ batches' = [batches EXCEPT ![c] = {[b EXCEPT !.messages = Append(@, line(c).id)] : b \in @}]
  /\ UNCHANGED <<said, up, rows>>

\* A line of an open batch is consumed, and kept as far as there is room.
HearsBatched(c) ==
  LET Keeps(b) == b.batch = line(c).batch /\ Len(b.messages) < MaxHistory
  IN /\ Hears(c, "PRIVMSG") /\ OpenBatches(c, line(c).batch) # {}
     /\ batches' = [batches EXCEPT ![c] =
          {IF Keeps(b) THEN [b EXCEPT !.messages = Append(@, line(c).id)] ELSE b : b \in @}]
     /\ UNCHANGED <<said, up, rows>>

HearsChat(c) ==
  LET i == line(c).id
  IN /\ Hears(c, "PRIVMSG") /\ OpenBatches(c, line(c).batch) = {}
     /\ said[i].kind = "chat"
     /\ File(c, Conversation(c, i), <<Row(i, line(c).batch)>>)
     /\ UNCHANGED <<said, up, batches>>

Reply(c, i) == Record(c, said[i].from, "reply", i, 1) /\ Writes(c, "NOTICE", Fresh(1))

\* Mutant: handle_ctcp does not look at in_notice.
HearsCtcpAnswersAll(c, cmd) ==
  LET i == line(c).id
  IN /\ Hears(c, cmd) /\ OpenBatches(c, line(c).batch) = {}
     /\ said[i].kind # "chat"
     /\ IF said[i].from = c
        THEN UNCHANGED <<said, up, rows>>
        ELSE File(c, Conversation(c, i), <<Row(i, 0)>>) /\ Reply(c, i)
     /\ UNCHANGED batches

\* handle_ctcp: our own is not shown, and only a request of another is answered.
HearsCtcp(c, cmd) ==
  LET i == line(c).id
  IN /\ Hears(c, cmd) /\ OpenBatches(c, line(c).batch) = {}
     /\ said[i].kind # "chat"
     /\ IF said[i].from = c
        THEN UNCHANGED <<said, up, rows>>
        ELSE /\ File(c, Conversation(c, i), <<Row(i, 0)>>)
             /\ IF cmd = "NOTICE" THEN UNCHANGED <<said, up>> ELSE Reply(c, i)
     /\ UNCHANGED batches

-----------------------------------------------------------------------------
Init ==
  /\ echo \in {[c \in Clients |-> c \in e] : e \in Echoing}
  /\ said = <<>> /\ log = [v \in Conversations |-> <<>>] /\ served = <<>> /\ left = <<>>
  /\ up = [c \in Clients |-> <<>>] /\ down = [c \in Clients |-> <<>>]
  /\ batches = [c \in Clients |-> {}]
  /\ rows = [c \in Clients |-> [t \in Buffers(c) |-> <<>>]]

Server ==
  \/ \E c \in Clients : Relays(c) \/ ServesHistory(c)
  \/ \E r \in DOMAIN served : SendsBatched(r) \/ ClosesBatch(r)

Client(c) ==
  \/ \E t \in Buffers(c) : \/ \E kind \in {"chat", "request"}, n \in 1..MaxChunks : Says(c, t, kind, n)
                           \/ \E limit \in Limits : RequestHistory(c, t, limit)
  \/ HearsOpen(c) \/ HearsClose(c) \/ HearsBatched(c) \/ HearsChat(c)
  \/ HearsCtcp(c, "PRIVMSG") \/ HearsCtcp(c, "NOTICE")

Next == Server \/ \E c \in Clients : Client(c)
Spec == Init /\ [][Next]_vars

-----------------------------------------------------------------------------
(* Properties *)

\* Everything sent has been taken in.
Settled ==
  /\ \A c \in Clients : up[c] = <<>> /\ down[c] = <<>>
  /\ \A r \in DOMAIN left : left[r] = <<>>

Count(list, Test(_)) == Cardinality({k \in DOMAIN list : Test(list[k])})

\* Whoever echoes, a line is shown live exactly once to everyone it is between, in the
\* conversation it belongs to and in no other; a CTCP is never shown to who sent it
\* (session.rs:1500).
ShownOnce ==
  Settled => \A c \in Clients, i \in Ids : \A t \in Buffers(c) :
    Count(rows[c][t], LAMBDA e : e = Row(i, 0)) =
      IF /\ Member(c, i) /\ t = Conversation(c, i)
         /\ said[i].from = c => said[i].kind = "chat"
      THEN 1 ELSE 0

\* What `shown` has of batch r is the first n of list, in their order.
Shows(shown, r, list, n) ==
  LET at == {k \in DOMAIN shown : shown[k].batch = r}
  IN /\ Cardinality(at) = n
     /\ \A k \in at : shown[k].id = list[Cardinality({j \in at : j <= k})]

\* With several histories under way, what the server sends of each ends up in the buffer
\* it is of, whole and in order, also if the batch was one too many: then as lines
\* (session.rs:547, 1290).
HistoryIsWhole ==
  Settled => \A r \in DOMAIN served : \A t \in Buffers(served[r].to) :
    LET shown == rows[served[r].to][t]
    IN IF t = served[r].target THEN Shows(shown, r, served[r].list, Len(served[r].list))
                               ELSE Shows(shown, r, <<>>, 0)

\* A CTCP request is answered once by each client it reaches, and nothing else is
\* answered: two clients never keep each other busy (session.rs:1422).
AnsweredOnce ==
  \A c \in Clients, i \in Ids :
    LET answers == Count(said, LAMBDA m : m.from = c /\ m.re = i)
        due == said[i].kind = "request" /\ said[i].from # c /\ Member(c, i)
    IN answers <= 1 /\ (answers = 1 => due) /\ (Settled /\ due => answers = 1)
=============================================================================
