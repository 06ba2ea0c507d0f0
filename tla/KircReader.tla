----------------------------- MODULE KircReader -----------------------------
(***************************************************************************)
(* read_line (rust/core/src/session.rs) as one branch of the select loop   *)
(* of run_session.  The line under assembly lives in local variables of    *)
(* the future, and select! drops the future whenever another branch (a     *)
(* command, a keepalive tick, the registration deadline) wins while the    *)
(* read is waiting for the socket.                                         *)
(*                                                                         *)
(* A byte of the stream is its position, or 0 for a line feed, so that     *)
(* every byte is told apart from every other.                              *)
(***************************************************************************)
EXTENDS Naturals, Sequences, FiniteSets

CONSTANTS
  MaxStream,  \* bound: bytes the server sends
  MaxChunk,   \* capacity of the BufReader, 8192 in the code
  MaxRead     \* MAX_READ: longest accepted line with its terminator, 8194

ASSUME ReaderAssumption ==
  MaxStream \in Nat /\ MaxChunk \in Nat \ {0} /\ MaxRead \in Nat

VARIABLES
  stream,    \* the bytes the server sends, all of them
  arrived,   \* how many of them were read from the socket
  avail,     \* the BufReader's unread bytes
  buf,       \* read_line's buf
  overlong,  \* read_line's overlong
  lines,     \* what read_line returned so far
  closed,    \* read_line returned None
  torn       \* history: the lines, by number, under way when a read was cancelled

rdvars == <<stream, arrived, avail, buf, overlong, lines, closed, torn>>

LF == 0
Streams == UNION {{[i \in 1..n |-> IF i \in ends THEN LF ELSE i] : ends \in SUBSET (1..n)}
                    : n \in 0..MaxStream}

Init ==
  /\ stream \in Streams
  /\ arrived = 0 /\ avail = <<>>
  /\ buf = <<>> /\ overlong = FALSE
  /\ lines = <<>> /\ closed = FALSE /\ torn = {}

\* What fill_buf makes available when `rest` bytes were read from the socket by then:
\* what is left over, or else the next bytes.
CanFill(rest) ==
  IF avail # <<>> THEN rest = arrived ELSE rest > arrived /\ rest - arrived <= MaxChunk
Filled(rest) == IF avail # <<>> THEN avail ELSE SubSeq(stream, arrived + 1, rest)

Feeds(chunk) == {i \in DOMAIN chunk : chunk[i] = LF}

\* Mutants: state of one call carried into the next.
ReturnStillOverlong(line) == lines' = Append(lines, line) /\ buf' = <<>> /\ UNCHANGED overlong
ReturnKeepsBuf(line) == lines' = Append(lines, line) /\ UNCHANGED buf /\ overlong' = FALSE

\* Return a line: the next call starts with an empty buf.
Return(line) == lines' = Append(lines, line) /\ buf' = <<>> /\ overlong' = FALSE

\* The bytes up to the first line feed complete the line, or what is left of an
\* overlong one, which is returned empty.
TakeLine(chunk) ==
  \E pos \in Feeds(chunk) :
    /\ \A i \in Feeds(chunk) : pos <= i
    /\ avail' = SubSeq(chunk, pos + 1, Len(chunk))
    /\ IF overlong \/ Len(buf) + pos > MaxRead
       THEN Return(<<>>)
       ELSE Return(buf \o SubSeq(chunk, 1, pos))

\* No line feed: everything available is taken.
TakePart(chunk) ==
  /\ Feeds(chunk) = {}
  /\ avail' = <<>>
  /\ IF overlong \/ Len(buf) + Len(chunk) > MaxRead
     THEN buf' = <<>> /\ overlong' = TRUE
     ELSE buf' = buf \o chunk /\ UNCHANGED overlong
  /\ UNCHANGED lines

\* One turn of read_line's loop.
Poll ==
  /\ ~closed
  /\ \E rest \in arrived .. Len(stream) :
       /\ CanFill(rest)
       /\ arrived' = rest
       /\ TakeLine(Filled(rest)) \/ TakePart(Filled(rest))
  /\ UNCHANGED <<stream, closed, torn>>

\* The server closed: a trailing partial line is returned once, then None.
EndOfFile ==
  /\ ~closed /\ avail = <<>> /\ arrived = Len(stream)
  /\ IF buf = <<>> \/ overlong
     THEN closed' = TRUE /\ UNCHANGED <<buf, overlong, lines>>
     ELSE Return(buf) /\ UNCHANGED closed
  /\ UNCHANGED <<stream, arrived, avail, torn>>

\* Another branch wins while fill_buf waits: the future and its locals are dropped.
Cancel ==
  /\ ~closed /\ avail = <<>>
  /\ buf # <<>> \/ overlong
  /\ buf' = <<>> /\ overlong' = FALSE
  /\ torn' = torn \cup {Len(lines) + 1}
  /\ UNCHANGED <<stream, arrived, avail, lines, closed>>

Next == Poll \/ EndOfFile \/ Cancel

Spec == Init /\ [][Next]_rdvars

-----------------------------------------------------------------------------
(* What the stream says *)

\* The line feeds among the first c bytes.
FeedsTo(s, c) == Cardinality({i \in Feeds(s) : i <= c})
Count(s) == FeedsTo(s, Len(s))

\* The k-th line of the stream, terminator included.  Behind the last line feed comes a
\* line without one, which may be empty.
EndOf(s, k) ==
  IF k = 0 THEN 0
  ELSE IF k > Count(s) THEN Len(s) ELSE CHOOSE i \in Feeds(s) : FeedsTo(s, i) = k
LineOf(s, k) == SubSeq(s, EndOf(s, k - 1) + 1, EndOf(s, k))
Trailing(s) == LineOf(s, Count(s) + 1)

\* The lines a reader that loses nothing returns.
Reference(s) ==
  [k \in 1 .. (IF Len(Trailing(s)) \in 1..MaxRead THEN Count(s) + 1 ELSE Count(s)) |->
     IF Len(LineOf(s, k)) > MaxRead THEN <<>> ELSE LineOf(s, k)]

IsSuffix(t, s) == Len(t) <= Len(s) /\ t = SubSeq(s, Len(s) - Len(t) + 1, Len(s))

-----------------------------------------------------------------------------
(* Properties *)

TypeOK ==
  /\ stream \in Streams /\ arrived \in 0..Len(stream)
  /\ avail \in Seq(Nat) /\ buf \in Seq(Nat) /\ lines \in Seq(Seq(Nat))
  /\ overlong \in BOOLEAN /\ closed \in BOOLEAN /\ torn \subseteq Nat

\* read_line returns the lines of the stream in order, however the bytes were cut
\* into chunks: each whole or (overlong) empty, unless a cancelled read tore that
\* very line.  At the end no line is missing, except a torn one that has no line feed.
LinesAreWhole ==
  LET whole == Reference(stream) IN
  /\ \A k \in DOMAIN lines \ torn : k \in DOMAIN whole /\ lines[k] = whole[k]
  /\ closed => \A k \in DOMAIN whole \ DOMAIN lines : k \in torn /\ k > Count(stream)

\* The buffer is bounded whatever the server sends.
BufferIsBounded == Len(buf) <= MaxRead

\* Whatever is cancelled, two lines are never run together: what is returned for
\* the k-th line feed is a tail of the k-th line, and no line feed is skipped.
LinesNeverMerge ==
  \A k \in DOMAIN lines : k <= Count(stream) + 1 /\ IsSuffix(lines[k], LineOf(stream, k))

\* "Read one CRLF-terminated line"; "an overlong line is read to its terminator but
\* discarded ... so the next read starts on a fresh line": what is returned for a
\* line feed is that whole line, or the empty string for an overlong one.
OnlyWholeLines ==
  \A k \in DOMAIN lines : k <= Count(stream) => lines[k] = Reference(stream)[k]
=============================================================================
