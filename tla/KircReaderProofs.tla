-------------------------- MODULE KircReaderProofs --------------------------
(***************************************************************************)
(* Proofs about KircReader, for every stream, every capacity of the        *)
(* BufReader and every limit on the length of a line.                      *)
(*                                                                         *)
(* The inductive invariant relates the locals of read_line to the stream:  *)
(* what is unread is the stretch behind the bytes taken so far, buf is the *)
(* stretch before them, within the line under way, and a line nobody tore  *)
(* is in buf from its first byte on, or overlong already.                  *)
(***************************************************************************)
EXTENDS KircReader, Integers, SequenceTheorems, FiniteSetTheorems, TLAPS

-----------------------------------------------------------------------------
(* Lines of a stream *)

\* No line feed lies behind byte c, up to byte d.
NoFeed(s, c, d) == \A i \in Feeds(s) : i <= c \/ d < i

\* p is the first line feed behind byte c.
NextFeed(s, c, p) == p \in Feeds(s) /\ c < p /\ \A i \in Feeds(s) : i <= c \/ p <= i

\* Byte b ends the line before the one that byte c is in, or is next to.
Before(s, b, c) ==
  /\ b \in 0..c
  /\ b = 0 \/ b \in Feeds(s)
  /\ \A i \in Feeds(s) : i <= b \/ c < i

LEMMA FeedsAre ==
  ASSUME NEW s \in Seq(Nat)
  PROVE  Feeds(s) \subseteq 1..Len(s) /\ Len(s) \in Nat
BY LenProperties DEF Feeds

LEMMA FeedsFinite ==
  ASSUME NEW s \in Seq(Nat), NEW c \in Nat
  PROVE  IsFiniteSet({i \in Feeds(s) : i <= c}) /\ FeedsTo(s, c) \in Nat
<1>1. IsFiniteSet(1..Len(s))
  BY FeedsAre, FS_Interval
<1>2. {i \in Feeds(s) : i <= c} \in SUBSET (1..Len(s))
  BY FeedsAre
<1> QED BY <1>1, <1>2, FS_Subset, FS_CardinalityType DEF FeedsTo

LEMMA FeedsNone == ASSUME NEW s \in Seq(Nat) PROVE FeedsTo(s, 0) = 0
<1>1. {i \in Feeds(s) : i <= 0} = {}
  BY FeedsAre
<1> QED BY <1>1, FS_EmptySet DEF FeedsTo

\* Without a line feed in between, nothing is counted.
LEMMA FeedsSame ==
  ASSUME NEW s \in Seq(Nat), NEW c \in Nat, NEW d \in Nat, c <= d,
         \A i \in Feeds(s) : i <= c \/ d < i
  PROVE  FeedsTo(s, d) = FeedsTo(s, c)
<1>1. {i \in Feeds(s) : i <= d} = {i \in Feeds(s) : i <= c}
  BY FeedsAre
<1> QED BY <1>1 DEF FeedsTo

\* The next line feed counts one.
LEMMA FeedsNext ==
  ASSUME NEW s \in Seq(Nat), NEW c \in Nat, NEW p \in Feeds(s), c < p,
         \A i \in Feeds(s) : i <= c \/ p <= i
  PROVE  FeedsTo(s, p) = FeedsTo(s, c) + 1
<1> DEFINE C == {i \in Feeds(s) : i <= c}
           P == {i \in Feeds(s) : i <= p}
<1>1. P = C \cup {p}
  BY FeedsAre
<1>2. p \notin C
  BY FeedsAre
<1>3. IsFiniteSet(C)
  BY FeedsFinite
<1>4. FeedsTo(s, p) = Cardinality(P) /\ FeedsTo(s, c) = Cardinality(C)
  BY DEF FeedsTo
<1> HIDE DEF C, P
<1> QED BY <1>1, <1>2, <1>3, <1>4, FS_AddElement

\* The count grows along the stream, at every line feed.
LEMMA FeedsGrow ==
  ASSUME NEW s \in Seq(Nat), NEW c \in Nat, NEW d \in Nat, c <= d
  PROVE  /\ FeedsTo(s, c) <= FeedsTo(s, d)
         /\ \A p \in Feeds(s) : c < p /\ p <= d => FeedsTo(s, c) < FeedsTo(s, d)
<1> DEFINE C == {i \in Feeds(s) : i <= c}
           D == {i \in Feeds(s) : i <= d}
<1>1. C \in SUBSET D
  BY FeedsAre
<1>2. IsFiniteSet(D) /\ Cardinality(C) \in Nat /\ Cardinality(D) \in Nat
  BY FeedsFinite DEF FeedsTo
<1>3. \A p \in Feeds(s) : c < p /\ p <= d => p \in D /\ p \notin C
  BY FeedsAre
<1> HIDE DEF C, D
<1>4. Cardinality(C) <= Cardinality(D) /\ (Cardinality(D) = Cardinality(C) => D = C)
  BY <1>1, <1>2, FS_Subset
<1>5. ASSUME NEW p \in Feeds(s), c < p, p <= d PROVE Cardinality(C) < Cardinality(D)
  <2>1. D # C
    BY <1>3, <1>5
  <2> QED BY <1>2, <1>4, <2>1
<1> QED BY <1>4, <1>5 DEF FeedsTo, C, D

\* A line feed is the end of the line it counts.
LEMMA EndOfFeed ==
  ASSUME NEW s \in Seq(Nat), NEW b, b = 0 \/ b \in Feeds(s)
  PROVE  EndOf(s, FeedsTo(s, b)) = b /\ FeedsTo(s, b) <= Count(s)
<1>1. Feeds(s) \subseteq 1..Len(s) /\ Len(s) \in Nat /\ b \in Nat /\ b <= Len(s)
  BY FeedsAre
<1>2. FeedsTo(s, b) <= Count(s) /\ FeedsTo(s, b) \in Nat /\ Count(s) \in Nat
  BY <1>1, FeedsGrow, FeedsFinite DEF Count
<1>3. CASE b = 0
  BY <1>2, <1>3, FeedsNone DEF EndOf
<1>4. CASE b \in Feeds(s)
  <2>1. 0 < FeedsTo(s, b)
    <3>1. 0 < b /\ b <= b /\ 0 <= b /\ 0 \in Nat
      BY <1>1, <1>4
    <3>2. FeedsTo(s, 0) < FeedsTo(s, b)
      BY <1>1, <1>4, <3>1, FeedsGrow
    <3> QED BY <3>2, FeedsNone
  <2>2. ASSUME NEW i \in Feeds(s), FeedsTo(s, i) = FeedsTo(s, b) PROVE i = b
    <3>1. i \in Nat /\ i <= i /\ b <= b
      BY <1>1
    <3>2. i < b => FeedsTo(s, i) < FeedsTo(s, b)
      BY <1>1, <1>4, <3>1, FeedsGrow
    <3>3. b < i => FeedsTo(s, b) < FeedsTo(s, i)
      BY <1>1, <3>1, FeedsGrow
    <3>4. FeedsTo(s, i) \in Nat
      BY <3>1, FeedsFinite
    <3> QED BY <1>1, <1>2, <2>2, <3>1, <3>2, <3>3, <3>4
  <2>3. EndOf(s, FeedsTo(s, b)) = CHOOSE i \in Feeds(s) : FeedsTo(s, i) = FeedsTo(s, b)
    BY <1>2, <2>1 DEF EndOf
  <2> QED BY <1>2, <1>4, <2>2, <2>3
<1> QED BY <1>3, <1>4

\* A line is what lies between two ends.
LEMMA LineIs ==
  ASSUME NEW s, NEW k, NEW b, NEW p, EndOf(s, k - 1) = b, EndOf(s, k) = p
  PROVE  LineOf(s, k) = SubSeq(s, b + 1, p)
BY DEF LineOf

LEMMA LineBetween ==
  ASSUME NEW s, NEW k \in Nat, NEW b, NEW p, EndOf(s, k) = b, EndOf(s, k + 1) = p
  PROVE  LineOf(s, k + 1) = SubSeq(s, b + 1, p)
<1> DEFINE n == k + 1
<1>1. n - 1 = k
  OBVIOUS
<1>2. EndOf(s, n - 1) = b /\ EndOf(s, n) = p
  BY <1>1
<1> HIDE DEF n
<1>3. LineOf(s, n) = SubSeq(s, b + 1, p)
  BY <1>2, LineIs
<1> QED BY <1>3 DEF n

\* The line behind byte b, when its line feed is p.
LEMMA LineUpTo ==
  ASSUME NEW s \in Seq(Nat), NEW b, b = 0 \/ b \in Feeds(s),
         NEW p \in Feeds(s), b < p, \A i \in Feeds(s) : i <= b \/ p <= i
  PROVE  /\ FeedsTo(s, p) = FeedsTo(s, b) + 1 /\ FeedsTo(s, b) + 1 \in 1..Count(s)
         /\ LineOf(s, FeedsTo(s, b) + 1) = SubSeq(s, b + 1, p)
<1>1. b \in Nat
  BY FeedsAre
<1>2. FeedsTo(s, p) = FeedsTo(s, b) + 1
  BY <1>1, FeedsNext
<1>3. /\ EndOf(s, FeedsTo(s, b)) = b
      /\ EndOf(s, FeedsTo(s, p)) = p /\ FeedsTo(s, p) <= Count(s)
  BY EndOfFeed
<1>4. FeedsTo(s, b) \in Nat /\ Count(s) \in Nat
  BY <1>1, FeedsAre, FeedsFinite DEF Count
<1>5. FeedsTo(s, b) + 1 \in 1..Count(s)
  BY <1>2, <1>3, <1>4
<1> QED BY <1>2, <1>3, <1>4, <1>5, LineBetween, SMTT(30)

\* The line behind the last line feed.
LEMMA LineToTheEnd ==
  ASSUME NEW s \in Seq(Nat), NEW b, Before(s, b, Len(s))
  PROVE  FeedsTo(s, b) = Count(s) /\ LineOf(s, Count(s) + 1) = SubSeq(s, b + 1, Len(s))
<1>1. b \in Nat /\ b <= Len(s) /\ Len(s) \in Nat
  BY FeedsAre DEF Before
<1>2. FeedsTo(s, b) = Count(s)
  BY <1>1, FeedsSame DEF Before, Count
<1>3. EndOf(s, FeedsTo(s, b)) = b
  BY EndOfFeed DEF Before
<1>4. Count(s) \in Nat
  BY <1>1, FeedsFinite DEF Count
<1>5. Count(s) + 1 # 0 /\ Count(s) + 1 > Count(s)
  BY <1>4
<1>6. EndOf(s, Count(s) + 1) = Len(s)
  BY <1>5 DEF EndOf
<1>7. EndOf(s, Count(s)) = b
  BY <1>2, <1>3
<1>8. LineOf(s, Count(s) + 1) = SubSeq(s, b + 1, Len(s))
  <2> DEFINE k == Count(s)
             p == Len(s)
  <2>1. k \in Nat /\ EndOf(s, k) = b /\ EndOf(s, k + 1) = p
    BY <1>4, <1>6, <1>7
  <2> HIDE DEF k, p
  <2>2. LineOf(s, k + 1) = SubSeq(s, b + 1, p)
    BY <2>1, LineBetween
  <2> QED BY <2>2 DEF k, p
<1> QED BY <1>2, <1>8

-----------------------------------------------------------------------------
(* Stretches of a stream *)

LEMMA Stretch ==
  ASSUME NEW s \in Seq(Nat), NEW b \in 0..Len(s), NEW p \in b..Len(s)
  PROVE  /\ SubSeq(s, b + 1, p) \in Seq(Nat) /\ Len(SubSeq(s, b + 1, p)) = p - b
         /\ \A i \in 1..(p - b) : SubSeq(s, b + 1, p)[i] = s[b + i]
<1>1. Len(s) \in Nat /\ b \in Nat /\ p \in Nat /\ b <= p /\ p <= Len(s)
  BY LenProperties
<1>2. \A i \in (b + 1)..p : s[i] \in Nat
  <2>1. \A i \in (b + 1)..p : i \in 1..Len(s)
    BY <1>1
  <2> QED BY <2>1, ElementOfSeq
<1>3. b + 1 \in Int /\ p \in Int
  BY <1>1
<1>4. /\ SubSeq(s, b + 1, p) \in Seq(Nat)
      /\ Len(SubSeq(s, b + 1, p)) = IF b + 1 <= p THEN p - (b + 1) + 1 ELSE 0
      /\ \A i \in 1..(p - (b + 1) + 1) : SubSeq(s, b + 1, p)[i] = s[b + 1 + i - 1]
  BY <1>2, <1>3, SubSeqProperties, SMTT(30)
<1>5. p - (b + 1) + 1 = p - b /\ (~(b + 1 <= p) => p - b = 0)
  BY <1>1
<1>6. \A i \in 1..(p - b) : b + 1 + i - 1 = b + i
  BY <1>1
<1> QED BY <1>4, <1>5, <1>6

\* The end of a line is a tail of it.
LEMMA TailOfLine ==
  ASSUME NEW s \in Seq(Nat), NEW b \in 0..Len(s), NEW p \in b..Len(s), NEW q \in b..p
  PROVE  IsSuffix(SubSeq(s, q + 1, p), SubSeq(s, b + 1, p))
<1> DEFINE line == SubSeq(s, b + 1, p)
           end == SubSeq(s, q + 1, p)
<1>1. Len(s) \in Nat /\ b \in Nat /\ p \in Nat /\ q \in Nat /\ b <= q /\ q <= p /\ p <= Len(s)
  BY LenProperties
<1>2. /\ line \in Seq(Nat) /\ Len(line) = p - b
      /\ \A i \in 1..(p - b) : line[i] = s[b + i]
  BY Stretch
<1>3. /\ end \in Seq(Nat) /\ Len(end) = p - q
      /\ \A i \in 1..(p - q) : end[i] = s[q + i]
  <2>1. q \in 0..Len(s) /\ p \in q..Len(s)
    BY <1>1
  <2> QED BY <2>1, Stretch
<1> HIDE DEF line, end
<1> DEFINE lo == q - b
           hi == p - b
<1>4. /\ lo \in 0..Len(line) /\ hi \in lo..Len(line) /\ hi - lo = p - q /\ Len(line) = hi
      /\ \A i \in 1..(p - q) : lo + i \in 1..(p - b) /\ b + (lo + i) = q + i
      /\ Len(line) - Len(end) + 1 = lo + 1 /\ Len(end) <= Len(line)
  BY <1>1, <1>2, <1>3
<1> HIDE DEF lo, hi
<1>5. /\ SubSeq(line, lo + 1, hi) \in Seq(Nat) /\ Len(SubSeq(line, lo + 1, hi)) = hi - lo
      /\ \A i \in 1..(hi - lo) : SubSeq(line, lo + 1, hi)[i] = line[lo + i]
  BY <1>2, <1>4, Stretch
<1>6. \A i \in 1..(p - q) : SubSeq(line, lo + 1, hi)[i] = end[i]
  BY <1>2, <1>3, <1>4, <1>5
<1>7. SubSeq(line, lo + 1, hi) = end
  BY <1>3, <1>4, <1>5, <1>6, SeqEqual
<1>8. end = SubSeq(line, Len(line) - Len(end) + 1, Len(line))
  BY <1>4, <1>7
<1>9. IsSuffix(end, line)
  BY <1>4, <1>8 DEF IsSuffix
<1> QED BY <1>9 DEF end, line

LEMMA NothingIsATail == ASSUME NEW line \in Seq(Nat) PROVE IsSuffix(<<>>, line)
<1>1. Len(line) \in Nat /\ Len(<<>>) = 0
  BY LenProperties
<1>2. Len(line) - 0 + 1 \in Int /\ Len(line) \in Int /\ Len(line) < Len(line) - 0 + 1
  BY <1>1
<1>3. SubSeq(line, Len(line) - 0 + 1, Len(line)) = <<>>
  BY <1>2, SubSeqEmpty
<1> QED BY <1>1, <1>3 DEF IsSuffix

\* Two stretches in a row are one.
LEMMA Adjacent ==
  ASSUME NEW s \in Seq(Nat), NEW q \in 0..Len(s), NEW c \in q..Len(s), NEW d \in c..Len(s)
  PROVE  SubSeq(s, q + 1, c) \o SubSeq(s, c + 1, d) = SubSeq(s, q + 1, d)
<1>1. Len(s) \in Nat /\ q \in Nat /\ c \in Nat
  BY LenProperties
<1>2. q + 1 \in 1..(Len(s) + 1) /\ c \in ((q + 1) - 1)..Len(s)
  BY <1>1
<1> QED BY <1>2, ConcatAdjacentSubSeq

-----------------------------------------------------------------------------
(* What read_line holds, and what it returns *)

\* After c bytes the line under way began behind byte b: n lines came before it, buf is a
\* stretch of it up to here, and all of it if the line was not cut and is not overlong.
LineUnder(s, c, b, bf, over, n, cut) ==
  /\ Before(s, b, c) /\ n = FeedsTo(s, b)
  /\ Len(bf) <= c - b /\ bf = SubSeq(s, c - Len(bf) + 1, c)
  /\ over => bf = <<>>
  /\ ~cut => IF over THEN c - b > MaxRead ELSE Len(bf) = c - b

\* Whether the line under way is overlong once the bytes behind c up to d are taken, and what
\* is held of it then.
TooLong(c, d, bf, over) == over \/ Len(bf) + (d - c) > MaxRead
Grown(s, c, d, bf, over) ==
  IF TooLong(c, d, bf, over) THEN <<>> ELSE bf \o SubSeq(s, c + 1, d)

\* A line that may be returned in the k-th place.
Good(s, k, line, cut) ==
  /\ k \in 1..(Count(s) + 1) /\ IsSuffix(line, LineOf(s, k))
  /\ ~cut => k \in DOMAIN Reference(s) /\ line = Reference(s)[k]

LEMMA ReferenceIs ==
  ASSUME NEW s \in Seq(Nat)
  PROVE  /\ \A k \in 1..Count(s) :
              /\ k \in DOMAIN Reference(s)
              /\ Reference(s)[k] = IF Len(LineOf(s, k)) > MaxRead THEN <<>> ELSE LineOf(s, k)
         /\ \A k \in DOMAIN Reference(s) :
              k \in 1..Count(s) \/ (k = Count(s) + 1 /\ Len(Trailing(s)) \in 1..MaxRead)
         /\ Len(Trailing(s)) \in 1..MaxRead =>
              /\ Count(s) + 1 \in DOMAIN Reference(s)
              /\ Reference(s)[Count(s) + 1] = Trailing(s)
<1> DEFINE n == Count(s)
           last == IF Len(Trailing(s)) \in 1..MaxRead THEN n + 1 ELSE n
<1>1. n \in Nat
  BY FeedsAre, FeedsFinite DEF Count
<1>2. /\ DOMAIN Reference(s) = 1..last
      /\ \A k \in 1..last :
           Reference(s)[k] = IF Len(LineOf(s, k)) > MaxRead THEN <<>> ELSE LineOf(s, k)
  BY DEF Reference
<1>3. Trailing(s) = LineOf(s, n + 1)
  BY DEF Trailing
<1>4. Len(Trailing(s)) \in 1..MaxRead => ~(Len(Trailing(s)) > MaxRead)
  BY ReaderAssumption
<1> HIDE DEF n
<1>5. (\A k \in 1..n : k \in 1..last) /\ (\A k \in 1..last : k \in 1..n \/ (k = n + 1 /\ last = n + 1))
  BY <1>1
<1>6. last = n + 1 => Len(Trailing(s)) \in 1..MaxRead
  BY <1>1
<1>7. Len(Trailing(s)) \in 1..MaxRead => n + 1 \in 1..last
  BY <1>1
<1> HIDE DEF last
<1>8. Len(Trailing(s)) \in 1..MaxRead =>
        n + 1 \in DOMAIN Reference(s) /\ Reference(s)[n + 1] = Trailing(s)
  BY <1>2, <1>3, <1>4, <1>7
<1>9. /\ \A k \in 1..n : k \in DOMAIN Reference(s)
           /\ Reference(s)[k] = IF Len(LineOf(s, k)) > MaxRead THEN <<>> ELSE LineOf(s, k)
      /\ \A k \in DOMAIN Reference(s) :
           k \in 1..n \/ (k = n + 1 /\ Len(Trailing(s)) \in 1..MaxRead)
  BY <1>2, <1>5, <1>6
<1> QED BY <1>8, <1>9 DEF n

\* Where buf begins.
LEMMA BufFrom ==
  ASSUME NEW s \in Seq(Nat), NEW c \in 0..Len(s), NEW b, NEW bf, NEW over, NEW n, NEW cut,
         bf \in Seq(Nat), LineUnder(s, c, b, bf, over, n, cut)
  PROVE  /\ b \in 0..c /\ c - Len(bf) \in b..c /\ Len(bf) = c - (c - Len(bf))
         /\ bf = SubSeq(s, (c - Len(bf)) + 1, c)
<1>1. Len(s) \in Nat /\ Len(bf) \in Nat /\ c \in Nat /\ c <= Len(s)
  BY LenProperties
<1>2. b \in 0..c /\ Len(bf) <= c - b /\ bf = SubSeq(s, c - Len(bf) + 1, c)
  BY DEF LineUnder, Before
<1>3. c - Len(bf) \in b..c /\ Len(bf) = c - (c - Len(bf))
  BY <1>1, <1>2
<1> QED BY <1>2, <1>3

\* The line feed at p completes a line after n others.
Completes(s, p, n, line, cut) ==
  Good(s, n + 1, line, cut) /\ FeedsTo(s, p) = n + 1 /\ line \in Seq(Nat)

\* Behind a line feed the next line is under way, and nothing of it is held.
LEMMA LineBegins ==
  ASSUME NEW s \in Seq(Nat), NEW p \in Feeds(s), NEW cut \in BOOLEAN
  PROVE  LineUnder(s, p, p, <<>>, FALSE, FeedsTo(s, p), cut)
<1>1. Feeds(s) \subseteq Nat
  BY FeedsAre
<1>2. p \in 0..p /\ \A i \in Feeds(s) : i <= p \/ p < i
  BY <1>1
<1>3. Before(s, p, p)
  BY <1>2 DEF Before
<1>4. Len(<<>>) = 0 /\ p - p = 0 /\ p - 0 + 1 \in Int /\ p < p - 0 + 1 /\ 0 <= 0 /\ p \in Int
  BY <1>1
<1>5. SubSeq(s, p - 0 + 1, p) = <<>>
  BY <1>4, SubSeqEmpty
<1> QED BY <1>3, <1>4, <1>5 DEF LineUnder

\* The next line feed completes the line under way.
LEMMA TakesLine ==
  ASSUME NEW s \in Seq(Nat), NEW c \in 0..Len(s), NEW b, NEW bf \in Seq(Nat),
         NEW over \in BOOLEAN, NEW n \in Nat, NEW cut \in BOOLEAN,
         LineUnder(s, c, b, bf, over, n, cut), NEW p \in Nat, NextFeed(s, c, p)
  PROVE  Completes(s, p, n, Grown(s, c, p, bf, over), cut)
<1> DEFINE q == c - Len(bf)
           line == Grown(s, c, p, bf, over)
<1>1. /\ Len(s) \in Nat /\ c \in Nat /\ p \in Nat /\ c < p /\ p <= Len(s) /\ p \in 1..Len(s)
      /\ Len(bf) \in Nat /\ MaxRead \in Nat
  BY FeedsAre, LenProperties, ReaderAssumption DEF NextFeed
<1>2. b \in 0..c /\ q \in b..c /\ Len(bf) = c - q /\ bf = SubSeq(s, q + 1, c)
  BY BufFrom
<1>3. /\ b = 0 \/ b \in Feeds(s)
      /\ n = FeedsTo(s, b) /\ \A i \in Feeds(s) : i <= b \/ c < i
      /\ over => bf = <<>>
      /\ ~cut => IF over THEN c - b > MaxRead ELSE Len(bf) = c - b
  BY DEF LineUnder, Before
<1>4. line = IF over \/ Len(bf) + (p - c) > MaxRead THEN <<>> ELSE bf \o SubSeq(s, c + 1, p)
  BY DEF Grown, TooLong
<1> HIDE DEF q, line
<1>5. b < p /\ \A i \in Feeds(s) : i <= b \/ p <= i
  <2>1. Feeds(s) \subseteq Nat
    BY FeedsAre
  <2> QED BY <1>1, <1>2, <1>3, <2>1 DEF NextFeed
<1>6. /\ FeedsTo(s, p) = n + 1 /\ n + 1 \in 1..Count(s)
      /\ LineOf(s, n + 1) = SubSeq(s, b + 1, p)
  BY <1>3, <1>5, LineUpTo DEF NextFeed
<1>7. /\ b \in 0..Len(s) /\ p \in b..Len(s) /\ q \in b..p /\ q \in 0..Len(s)
      /\ c \in q..Len(s) /\ p \in c..Len(s) /\ p \in q..Len(s)
  <2>1. c <= Len(s) /\ 0 <= b /\ b <= q /\ q <= c /\ b \in Int /\ q \in Int
    BY <1>1, <1>2
  <2> QED BY <1>1, <2>1
<1>8. SubSeq(s, b + 1, p) \in Seq(Nat) /\ Len(SubSeq(s, b + 1, p)) = p - b
  BY <1>7, Stretch
<1>9. bf \o SubSeq(s, c + 1, p) = SubSeq(s, q + 1, p)
  BY <1>2, <1>7, Adjacent
<1>10. line = <<>> \/ line = SubSeq(s, q + 1, p)
  BY <1>9, <1>4
<1>11. IsSuffix(line, LineOf(s, n + 1)) /\ line \in Seq(Nat)
  <2>1. SubSeq(s, q + 1, p) \in Seq(Nat) /\ <<>> \in Seq(Nat)
    BY <1>7, Stretch
  <2>2. IsSuffix(SubSeq(s, q + 1, p), SubSeq(s, b + 1, p))
    BY <1>7, TailOfLine
  <2>3. IsSuffix(<<>>, SubSeq(s, b + 1, p))
    BY <1>8, NothingIsATail
  <2> QED BY <1>6, <1>10, <2>1, <2>2, <2>3
<1>12. ASSUME ~cut PROVE line = IF p - b > MaxRead THEN <<>> ELSE SubSeq(s, b + 1, p)
  <2>1. CASE over
    <3>1. p - b > MaxRead
      BY <1>1, <1>2, <1>3, <1>12, <2>1
    <3> QED BY <1>4, <2>1, <3>1
  <2>2. CASE ~over
    <3>1. q = b /\ Len(bf) + (p - c) = p - b
      BY <1>1, <1>2, <1>3, <1>12, <2>2
    <3> QED BY <1>9, <1>4, <2>2, <3>1
  <2> QED BY <2>1, <2>2
<1>13. /\ n + 1 \in DOMAIN Reference(s)
       /\ Reference(s)[n + 1] = IF p - b > MaxRead THEN <<>> ELSE SubSeq(s, b + 1, p)
  <2> DEFINE k == n + 1
  <2>1. k \in 1..Count(s) /\ LineOf(s, k) = SubSeq(s, b + 1, p)
    BY <1>6
  <2> HIDE DEF k
  <2>2. /\ k \in DOMAIN Reference(s)
        /\ Reference(s)[k] = IF Len(LineOf(s, k)) > MaxRead THEN <<>> ELSE LineOf(s, k)
    BY <2>1, ReferenceIs
  <2>3. /\ k \in DOMAIN Reference(s)
        /\ Reference(s)[k] = IF p - b > MaxRead THEN <<>> ELSE SubSeq(s, b + 1, p)
    BY <1>8, <2>1, <2>2
  <2> QED BY <2>3 DEF k
<1>14. n + 1 \in 1..(Count(s) + 1)
  <2>1. Count(s) \in Nat
    BY <1>1, FeedsFinite DEF Count
  <2> QED BY <1>6, <2>1
<1>15. Good(s, n + 1, line, cut)
  BY <1>11, <1>12, <1>13, <1>14 DEF Good
<1> QED BY <1>6, <1>11, <1>15 DEF line, Completes

\* Bytes without a line feed go to buf, or make the line overlong.
LEMMA TakesPart ==
  ASSUME NEW s \in Seq(Nat), NEW c \in 0..Len(s), NEW b, NEW bf \in Seq(Nat),
         NEW over \in BOOLEAN, NEW n, NEW cut \in BOOLEAN, LineUnder(s, c, b, bf, over, n, cut),
         NEW d \in c..Len(s), NoFeed(s, c, d)
  PROVE  /\ LineUnder(s, d, b, Grown(s, c, d, bf, over), TooLong(c, d, bf, over), n, cut)
         /\ Grown(s, c, d, bf, over) \in Seq(Nat) /\ Len(Grown(s, c, d, bf, over)) <= MaxRead
<1> DEFINE q == c - Len(bf)
           more == Grown(s, c, d, bf, over)
           longer == TooLong(c, d, bf, over)
<1>1. /\ Len(s) \in Nat /\ c \in Nat /\ d \in Nat /\ c <= d /\ d <= Len(s)
      /\ Len(bf) \in Nat /\ MaxRead \in Nat
  BY LenProperties, ReaderAssumption
<1>2. b \in 0..c /\ q \in b..c /\ Len(bf) = c - q /\ bf = SubSeq(s, q + 1, c)
  BY BufFrom
<1>3. /\ b = 0 \/ b \in Feeds(s)
      /\ n = FeedsTo(s, b) /\ \A i \in Feeds(s) : i <= b \/ c < i
      /\ ~cut => IF over THEN c - b > MaxRead ELSE Len(bf) = c - b
  BY DEF LineUnder, Before
<1>4. IF over \/ Len(bf) + (d - c) > MaxRead
      THEN more = <<>> /\ longer
      ELSE more = bf \o SubSeq(s, c + 1, d) /\ ~longer
  BY DEF Grown, TooLong
<1>5. longer \in BOOLEAN
  BY DEF TooLong
<1> HIDE DEF q, more, longer
<1>6. Before(s, b, d)
  <2>1. Feeds(s) \subseteq Nat
    BY FeedsAre
  <2>2. b \in 0..d
    BY <1>1, <1>2
  <2>3. \A i \in Feeds(s) : i <= b \/ d < i
    BY <1>1, <1>2, <1>3, <2>1 DEF NoFeed
  <2> QED BY <1>3, <2>2, <2>3 DEF Before
<1>7. ASSUME over \/ Len(bf) + (d - c) > MaxRead
      PROVE  LineUnder(s, d, b, more, longer, n, cut) /\ more \in Seq(Nat) /\ Len(more) <= MaxRead
  <2>1. more = <<>> /\ longer
    BY <1>4, <1>7
  <2>2. /\ Len(<<>>) = 0 /\ d - 0 + 1 \in Int /\ d < d - 0 + 1 /\ d \in Int
        /\ 0 <= d - b /\ 0 <= MaxRead
    BY <1>1, <1>2
  <2>3. SubSeq(s, d - 0 + 1, d) = <<>>
    BY <2>2, SubSeqEmpty
  <2>4. ~cut => d - b > MaxRead
    BY <1>1, <1>2, <1>3, <1>7
  <2>5. <<>> \in Seq(Nat)
    OBVIOUS
  <2> QED BY <1>3, <1>6, <2>1, <2>2, <2>3, <2>4, <2>5 DEF LineUnder
<1>8. ASSUME ~(over \/ Len(bf) + (d - c) > MaxRead)
      PROVE  LineUnder(s, d, b, more, longer, n, cut) /\ more \in Seq(Nat) /\ Len(more) <= MaxRead
  <2>1. q \in 0..Len(s) /\ c \in q..Len(s) /\ d \in c..Len(s) /\ d \in q..Len(s)
    BY <1>1, <1>2
  <2>2. more = SubSeq(s, q + 1, d) /\ ~longer
    BY <1>2, <1>4, <1>8, <2>1, Adjacent
  <2>3. more \in Seq(Nat) /\ Len(more) = d - q
    BY <2>1, <2>2, Stretch
  <2>4. /\ d - Len(more) + 1 = q + 1 /\ Len(more) <= d - b /\ Len(more) <= MaxRead
        /\ ~cut => Len(more) = d - b
    BY <1>1, <1>2, <1>3, <1>8, <2>3
  <2>5. more = SubSeq(s, d - Len(more) + 1, d)
    BY <2>2, <2>4
  <2> QED BY <1>3, <1>6, <2>2, <2>3, <2>4, <2>5 DEF LineUnder
<1> QED BY <1>7, <1>8 DEF more, longer

\* At the end of the stream: the line under way is the last.
LEMMA AtTheEnd ==
  ASSUME NEW s \in Seq(Nat), NEW b, NEW bf \in Seq(Nat), NEW over \in BOOLEAN, NEW n,
         NEW cut \in BOOLEAN, LineUnder(s, Len(s), b, bf, over, n, cut), Len(bf) <= MaxRead
  PROVE  /\ n = Count(s)
         /\ bf # <<>> /\ ~over => Good(s, n + 1, bf, cut)
         /\ bf = <<>> \/ over => \A k \in DOMAIN Reference(s) : k \in 1..n \/ (k = n + 1 /\ cut)
<1> DEFINE c == Len(s)
           q == c - Len(bf)
<1>1. c \in Nat /\ Len(bf) \in Nat /\ MaxRead \in Nat /\ c \in 0..Len(s)
  BY LenProperties, ReaderAssumption
<1>2. b \in 0..c /\ q \in b..c /\ Len(bf) = c - q /\ bf = SubSeq(s, q + 1, c)
  BY <1>1, BufFrom, SMTT(30)
<1>3. /\ Before(s, b, Len(s)) /\ n = FeedsTo(s, b)
      /\ ~cut => IF over THEN c - b > MaxRead ELSE Len(bf) = c - b
  BY DEF LineUnder
<1>4. n = Count(s) /\ Trailing(s) = SubSeq(s, b + 1, c)
  BY <1>3, LineToTheEnd DEF Trailing
<1>5. SubSeq(s, b + 1, c) \in Seq(Nat) /\ Len(SubSeq(s, b + 1, c)) = c - b
  BY <1>1, <1>2, Stretch
<1>6. n \in Nat
  BY <1>1, <1>4, FeedsFinite DEF Count
<1> HIDE DEF c, q
<1>7. ASSUME bf # <<>>, ~over PROVE Good(s, n + 1, bf, cut)
  <2>1. IsSuffix(bf, LineOf(s, n + 1))
    <3>1. b \in 0..Len(s) /\ c \in b..Len(s)
      BY <1>1, <1>2
    <3>2. IsSuffix(SubSeq(s, q + 1, c), SubSeq(s, b + 1, c))
      BY <1>2, <3>1, TailOfLine
    <3> QED BY <1>2, <1>4, <3>2 DEF Trailing
  <2>2. ASSUME ~cut PROVE n + 1 \in DOMAIN Reference(s) /\ bf = Reference(s)[n + 1]
    <3>1. Len(bf) = c - b /\ Len(bf) # 0
      BY <1>1, <1>3, <1>7, <2>2, EmptySeq
    <3>2. Len(Trailing(s)) = c - b
      BY <1>4, <1>5
    <3>3. q = b /\ c - b \in 1..MaxRead
      BY <1>1, <1>2, <3>1
    <3>4. Len(Trailing(s)) \in 1..MaxRead
      BY <3>2, <3>3
    <3>5. bf = Trailing(s)
      BY <1>2, <1>4, <3>3
    <3> QED BY <1>4, <3>4, <3>5, ReferenceIs
  <2>3. n + 1 \in 1..(Count(s) + 1)
    BY <1>4, <1>6
  <2> QED BY <2>1, <2>2, <2>3 DEF Good
<1>8. ASSUME bf = <<>> \/ over, NEW k \in DOMAIN Reference(s), k \notin 1..n
      PROVE  k = n + 1 /\ cut
  <2>1. k = n + 1 /\ Len(Trailing(s)) \in 1..MaxRead
    BY <1>4, <1>8, ReferenceIs
  <2>2. Len(Trailing(s)) = c - b
    BY <1>4, <1>5
  <2>3. ~cut => c - b > MaxRead \/ c - b = 0
    BY <1>1, <1>2, <1>3, <1>8
  <2>4. ~(c - b \in 1..MaxRead /\ (c - b > MaxRead \/ c - b = 0))
    BY <1>1, <1>2
  <2> QED BY <2>1, <2>2, <2>3, <2>4
<1> QED BY <1>4, <1>7, <1>8

-----------------------------------------------------------------------------
(* What one poll of the socket makes available *)

\* A stretch of a stretch.
LEMMA Within ==
  ASSUME NEW s \in Seq(Nat), NEW c \in 0..Len(s), NEW d \in c..Len(s),
         NEW i \in 0..(d - c), NEW j \in i..(d - c)
  PROVE  SubSeq(SubSeq(s, c + 1, d), i + 1, j) = SubSeq(s, (c + i) + 1, c + j)
<1> DEFINE part == SubSeq(s, c + 1, d)
           lo == c + i
           hi == c + j
<1>1. /\ Len(s) \in Nat /\ lo \in 0..Len(s) /\ hi \in lo..Len(s) /\ hi - lo = j - i
      /\ \A k \in 1..(j - i) : i + k \in 1..(d - c) /\ c + (i + k) = lo + k
  BY LenProperties
<1>2. part \in Seq(Nat) /\ Len(part) = d - c /\ \A k \in 1..(d - c) : part[k] = s[c + k]
  BY Stretch
<1> HIDE DEF part, lo, hi
<1>3. i \in 0..Len(part) /\ j \in i..Len(part)
  BY <1>2
<1>4. /\ SubSeq(part, i + 1, j) \in Seq(Nat) /\ Len(SubSeq(part, i + 1, j)) = j - i
      /\ \A k \in 1..(j - i) : SubSeq(part, i + 1, j)[k] = part[i + k]
  BY <1>2, <1>3, Stretch
<1>5. /\ SubSeq(s, lo + 1, hi) \in Seq(Nat) /\ Len(SubSeq(s, lo + 1, hi)) = hi - lo
      /\ \A k \in 1..(hi - lo) : SubSeq(s, lo + 1, hi)[k] = s[lo + k]
  BY <1>1, Stretch
<1>6. \A k \in 1..(j - i) : SubSeq(part, i + 1, j)[k] = SubSeq(s, lo + 1, hi)[k]
  BY <1>1, <1>2, <1>4, <1>5
<1>7. SubSeq(part, i + 1, j) = SubSeq(s, lo + 1, hi)
  BY <1>1, <1>4, <1>5, <1>6, SeqEqual
<1> QED BY <1>7 DEF part, lo, hi

\* The line feeds of a stretch are those of the stream.
LEMMA FeedsOfChunk ==
  ASSUME NEW s \in Seq(Nat), NEW c \in 0..Len(s), NEW d \in c..Len(s)
  PROVE  LET chunk == SubSeq(s, c + 1, d) IN
         /\ chunk \in Seq(Nat) /\ Len(chunk) = d - c
         /\ \A pos \in Feeds(chunk) : pos \in 1..(d - c) /\ c + pos \in Feeds(s)
         /\ \A i \in Feeds(s) : i <= c \/ d < i \/ i - c \in Feeds(chunk)
         /\ Feeds(chunk) = {} => NoFeed(s, c, d)
<1> DEFINE chunk == SubSeq(s, c + 1, d)
<1>1. chunk \in Seq(Nat) /\ Len(chunk) = d - c /\ \A k \in 1..(d - c) : chunk[k] = s[c + k]
  BY Stretch
<1> HIDE DEF chunk
<1>2. Len(s) \in Nat /\ DOMAIN s = 1..Len(s) /\ DOMAIN chunk = 1..(d - c)
  BY <1>1, LenProperties
<1>3. /\ \A pos \in 1..(d - c) : c + pos \in 1..Len(s)
      /\ \A i \in 1..Len(s) : i <= c \/ d < i \/ (i - c \in 1..(d - c) /\ c + (i - c) = i)
  BY <1>2
<1>4. \A pos \in Feeds(chunk) : pos \in 1..(d - c) /\ c + pos \in Feeds(s)
  BY <1>1, <1>2, <1>3 DEF Feeds
<1>5. ASSUME NEW i \in Feeds(s), ~(i <= c), ~(d < i) PROVE i - c \in Feeds(chunk)
  <2>1. i \in 1..Len(s) /\ s[i] = LF
    BY <1>2 DEF Feeds
  <2>2. i - c \in 1..(d - c) /\ c + (i - c) = i
    BY <1>3, <1>5, <2>1
  <2>3. chunk[i - c] = s[c + (i - c)]
    BY <1>1, <2>2
  <2>4. chunk[i - c] = LF
    BY <2>1, <2>2, <2>3
  <2> QED BY <1>2, <2>2, <2>4 DEF Feeds
<1>6. Feeds(chunk) = {} => NoFeed(s, c, d)
  BY <1>5 DEF NoFeed
<1> QED BY <1>1, <1>4, <1>5, <1>6 DEF chunk

\* The first line feed of a chunk is the next one of the stream, and cuts the chunk there.
LEMMA FirstFeed ==
  ASSUME NEW s \in Seq(Nat), NEW c \in 0..Len(s), NEW d \in c..Len(s),
         NEW pos \in Feeds(SubSeq(s, c + 1, d)), \A i \in Feeds(SubSeq(s, c + 1, d)) : pos <= i
  PROVE  LET chunk == SubSeq(s, c + 1, d) IN
         /\ pos \in Nat /\ c + pos <= d /\ NextFeed(s, c, c + pos)
         /\ SubSeq(chunk, 1, pos) = SubSeq(s, c + 1, c + pos)
         /\ SubSeq(chunk, pos + 1, Len(chunk)) = SubSeq(s, (c + pos) + 1, d)
         /\ SubSeq(chunk, pos + 1, Len(chunk)) \in Seq(Nat)
         /\ Len(SubSeq(chunk, pos + 1, Len(chunk))) = d - (c + pos)
<1> DEFINE chunk == SubSeq(s, c + 1, d)
<1>1. /\ chunk \in Seq(Nat) /\ Len(chunk) = d - c /\ pos \in 1..(d - c) /\ c + pos \in Feeds(s)
      /\ \A i \in Feeds(s) : i <= c \/ d < i \/ i - c \in Feeds(chunk)
  BY FeedsOfChunk
<1>2. /\ Len(s) \in Nat /\ Feeds(s) \subseteq Nat /\ pos \in Nat /\ c < c + pos /\ c + pos <= d
      /\ 0 \in 0..(d - c) /\ pos \in 0..(d - c) /\ d - c \in pos..(d - c)
      /\ c + 0 = c /\ 0 + 1 = 1 /\ c + (d - c) = d
      /\ c + pos \in 0..Len(s) /\ d \in (c + pos)..Len(s)
  BY <1>1, FeedsAre
<1>3. ASSUME NEW i \in Feeds(s), ~(i <= c) PROVE c + pos <= i
  <2>1. i - c \in Feeds(chunk) => pos <= i - c
    OBVIOUS
  <2>2. i \in Nat /\ c \in Nat /\ (d < i \/ pos <= i - c)
    BY <1>1, <1>2, <1>3, <2>1
  <2> QED BY <1>2, <2>2
<1>4. SubSeq(chunk, 0 + 1, pos) = SubSeq(s, (c + 0) + 1, c + pos)
  BY <1>2, Within
<1>5. SubSeq(chunk, pos + 1, d - c) = SubSeq(s, (c + pos) + 1, c + (d - c))
  BY <1>2, Within
<1>6. /\ SubSeq(s, (c + pos) + 1, d) \in Seq(Nat)
      /\ Len(SubSeq(s, (c + pos) + 1, d)) = d - (c + pos)
  BY <1>2, Stretch
<1>7. SubSeq(chunk, 1, pos) = SubSeq(s, c + 1, c + pos)
  BY <1>2, <1>4
<1>8. SubSeq(chunk, pos + 1, Len(chunk)) = SubSeq(s, (c + pos) + 1, d)
  BY <1>1, <1>2, <1>5
<1>9. NextFeed(s, c, c + pos)
  BY <1>1, <1>2, <1>3 DEF NextFeed
<1> QED BY <1>2, <1>6, <1>7, <1>8, <1>9

-----------------------------------------------------------------------------
(* The inductive invariant *)

\* The bytes read_line has consumed.
Taken == arrived - Len(avail)

\* What is unread is the stretch of the stream behind them.
Unread ==
  /\ Len(avail) <= arrived /\ arrived <= Len(stream)
  /\ avail = SubSeq(stream, Taken + 1, arrived)

\* The line under way, or, once a last line without a line feed was returned, nothing.
UnderWay ==
  \/ \E b \in Nat : LineUnder(stream, Taken, b, buf, overlong, Len(lines), Len(lines) + 1 \in torn)
  \/ Taken = Len(stream) /\ Len(lines) = Count(stream) + 1 /\ buf = <<>> /\ ~overlong

ReturnedOK == \A k \in DOMAIN lines : Good(stream, k, lines[k], k \in torn)

ClosedOK ==
  closed => \A k \in DOMAIN Reference(stream) \ DOMAIN lines : k \in torn /\ k > Count(stream)

RdTypes ==
  /\ stream \in Streams /\ stream \in Seq(Nat)
  /\ arrived \in Nat /\ avail \in Seq(Nat) /\ buf \in Seq(Nat) /\ lines \in Seq(Seq(Nat))
  /\ overlong \in BOOLEAN /\ closed \in BOOLEAN /\ torn \subseteq Nat
  /\ Len(buf) <= MaxRead

ReadInv == RdTypes /\ Unread /\ UnderWay /\ ReturnedOK /\ ClosedOK

\* A byte of the stream is a number.
LEMMA StreamsAreBytes == ASSUME NEW s \in Streams PROVE s \in Seq(Nat)
<1>1. PICK n \in 0..MaxStream :
        \E ends \in SUBSET (1..n) : s = [i \in 1..n |-> IF i \in ends THEN LF ELSE i]
  BY DEF Streams
<1>2. PICK ends \in SUBSET (1..n) : s = [i \in 1..n |-> IF i \in ends THEN LF ELSE i]
  BY <1>1
<1>3. n \in Nat /\ \A i \in 1..n : (IF i \in ends THEN LF ELSE i) \in Nat
  BY ReaderAssumption DEF LF
<1>4. s \in [1..n -> Nat]
  BY <1>2, <1>3
<1> QED BY <1>3, <1>4, SeqDef

\* Nothing was read yet: the first line is under way, from its first byte on.
LEMMA ReadInit == Init => ReadInv
<1> SUFFICES ASSUME Init PROVE ReadInv
  OBVIOUS
<1>1. stream \in Streams /\ stream \in Seq(Nat) /\ Len(stream) \in Nat /\ MaxRead \in Nat
  BY StreamsAreBytes, LenProperties, ReaderAssumption DEF Init
<1>2. /\ arrived = 0 /\ avail = <<>> /\ buf = <<>> /\ lines = <<>> /\ torn = {}
      /\ overlong = FALSE /\ closed = FALSE
  BY DEF Init
<1>3. /\ Len(avail) = 0 /\ Len(buf) = 0 /\ Len(lines) = 0 /\ DOMAIN lines = {} /\ Len(<<>>) = 0
      /\ avail \in Seq(Nat) /\ buf \in Seq(Nat) /\ lines \in Seq(Seq(Nat))
  <2>1. /\ Len(<<>>) = 0 /\ DOMAIN <<>> = {}
        /\ <<>> \in Seq(Nat) /\ <<>> \in Seq(Seq(Nat))
    OBVIOUS
  <2> QED BY <1>2, <2>1, Zenon
<1>4. RdTypes
  <2>1. /\ arrived \in Nat /\ overlong \in BOOLEAN /\ closed \in BOOLEAN /\ torn \subseteq Nat
        /\ Len(buf) <= MaxRead
    <3>1. 0 <= MaxRead
      BY <1>1
    <3>2. 0 \in Nat /\ FALSE \in BOOLEAN /\ {} \subseteq Nat
      OBVIOUS
    <3> QED BY <1>2, <1>3, <3>1, <3>2, Zenon
  <2> QED BY <1>1, <1>3, <2>1, Zenon DEF RdTypes
<1>5. Taken = 0
  <2>1. 0 - 0 = 0
    OBVIOUS
  <2> QED BY <1>2, <1>3, <2>1, Zenon DEF Taken
<1>6. SubSeq(stream, 0 + 1, 0) = <<>> /\ SubSeq(stream, 0 - 0 + 1, 0) = <<>>
  <2>1. 0 + 1 = 1 /\ 0 - 0 + 1 = 1 /\ 1 \in Int /\ 0 \in Int /\ 0 < 1
    OBVIOUS
  <2> QED BY <2>1, SubSeqEmpty
<1>7. Unread
  BY <1>1, <1>2, <1>3, <1>5, <1>6 DEF Unread
<1>8. LineUnder(stream, 0, 0, <<>>, FALSE, 0, FALSE)
  <2>1. \A i \in Feeds(stream) : i <= 0 \/ 0 < i
    BY <1>1, FeedsAre
  <2>2. Before(stream, 0, 0)
    BY <2>1 DEF Before
  <2>3. FeedsTo(stream, 0) = 0
    BY <1>1, FeedsNone
  <2> QED BY <1>3, <1>6, <2>2, <2>3 DEF LineUnder
<1>9. UnderWay
  <2>1. Len(lines) + 1 \notin torn /\ 0 \in Nat
    BY <1>2
  <2>2. LineUnder(stream, Taken, 0, buf, overlong, Len(lines), Len(lines) + 1 \in torn)
    <3>1. (Len(lines) + 1 \in torn) = FALSE /\ overlong = FALSE
      BY <1>2, <2>1
    <3> QED BY <1>2, <1>3, <1>5, <1>8, <3>1, Zenon
  <2> QED BY <2>1, <2>2, Zenon DEF UnderWay
<1>10. ReturnedOK /\ ClosedOK
  BY <1>2, <1>3 DEF ReturnedOK, ClosedOK
<1> QED BY <1>4, <1>7, <1>9, <1>10 DEF ReadInv

\* A line is returned in the place it has in the stream.
LEMMA Returned ==
  ASSUME ReturnedOK, lines \in Seq(Seq(Nat)), NEW line \in Seq(Nat),
         Good(stream, Len(lines) + 1, line, Len(lines) + 1 \in torn),
         lines' = Append(lines, line), UNCHANGED <<stream, torn>>
  PROVE  ReturnedOK' /\ lines' \in Seq(Seq(Nat)) /\ Len(lines') = Len(lines) + 1
<1>1. /\ lines' \in Seq(Seq(Nat)) /\ Len(lines') = Len(lines) + 1
      /\ \A k \in 1..Len(lines) : lines'[k] = lines[k]
      /\ lines'[Len(lines) + 1] = line
  BY AppendProperties
<1>2. DOMAIN lines = 1..Len(lines) /\ DOMAIN lines' = 1..(Len(lines) + 1) /\ Len(lines) \in Nat
  BY <1>1, LenProperties
<1>3. ASSUME NEW k \in DOMAIN lines' PROVE Good(stream, k, lines'[k], k \in torn)
  <2>1. CASE k \in 1..Len(lines)
    <3>1. Good(stream, k, lines[k], k \in torn) /\ lines'[k] = lines[k]
      BY <1>1, <1>2, <2>1 DEF ReturnedOK
    <3> QED BY <3>1
  <2>2. CASE k = Len(lines) + 1
    BY <1>1, <2>2
  <2> QED BY <1>2, <1>3, <2>1, <2>2
<1>4. ReturnedOK'
  BY <1>3 DEF ReturnedOK
<1> QED BY <1>1, <1>4

\* One poll leaves the stretch of the stream that is available, whether it was left over or
\* is fresh, and there is a line under way.
LEMMA Polled ==
  ASSUME ReadInv, NEW rest \in arrived .. Len(stream), CanFill(rest)
  PROVE  /\ Taken \in 0..Len(stream) /\ rest \in Taken..Len(stream) /\ rest \in Nat
         /\ Filled(rest) = SubSeq(stream, Taken + 1, rest)
         /\ \E b : LineUnder(stream, Taken, b, buf, overlong, Len(lines), Len(lines) + 1 \in torn)
<1>1. /\ stream \in Seq(Nat) /\ arrived \in Nat /\ avail \in Seq(Nat) /\ Len(avail) <= arrived
      /\ arrived <= Len(stream) /\ avail = SubSeq(stream, Taken + 1, arrived) /\ UnderWay
  BY DEF ReadInv, RdTypes, Unread
<1>2. Len(stream) \in Nat /\ Len(avail) \in Nat /\ MaxChunk \in Nat
  BY <1>1, LenProperties, ReaderAssumption
<1>3. Taken \in 0..Len(stream) /\ rest \in Taken..Len(stream) /\ rest \in Nat
  BY <1>1, <1>2 DEF Taken
<1>4. CASE avail = <<>>
  <2>1. Taken = arrived /\ rest > arrived
    BY <1>1, <1>4 DEF Taken, CanFill
  <2>2. Filled(rest) = SubSeq(stream, Taken + 1, rest)
    BY <1>4, <2>1 DEF Filled
  <2>3. Taken # Len(stream)
    BY <1>1, <1>2, <2>1
  <2> QED BY <1>1, <1>3, <2>2, <2>3 DEF UnderWay
<1>5. CASE avail # <<>>
  <2>1. rest = arrived
    BY <1>5 DEF CanFill
  <2>2. Filled(rest) = SubSeq(stream, Taken + 1, rest)
    BY <1>1, <1>5, <2>1 DEF Filled
  <2>3. Len(avail) # 0
    BY <1>1, <1>5, EmptySeq
  <2>4. Taken # Len(stream)
    BY <1>1, <1>2, <2>3 DEF Taken
  <2> QED BY <1>1, <1>3, <2>2, <2>4 DEF UnderWay
<1> QED BY <1>4, <1>5

LEMMA PollKeepsInv == ReadInv /\ Poll => ReadInv'
<1> SUFFICES ASSUME ReadInv, Poll PROVE ReadInv'
  OBVIOUS
<1>1. PICK rest \in arrived .. Len(stream) :
        CanFill(rest) /\ arrived' = rest /\ (TakeLine(Filled(rest)) \/ TakePart(Filled(rest)))
  BY DEF Poll
<1>2. ~closed /\ stream' = stream /\ closed' = closed /\ torn' = torn
  BY DEF Poll
<1>3. /\ stream \in Streams /\ stream \in Seq(Nat) /\ arrived \in Nat /\ buf \in Seq(Nat)
      /\ lines \in Seq(Seq(Nat)) /\ overlong \in BOOLEAN /\ closed \in BOOLEAN
      /\ torn \subseteq Nat /\ ReturnedOK
  BY DEF ReadInv, RdTypes
<1>4. /\ Taken \in 0..Len(stream) /\ rest \in Taken..Len(stream) /\ rest \in Nat
      /\ Filled(rest) = SubSeq(stream, Taken + 1, rest)
  BY <1>1, Polled
<1>5. /\ Len(stream) \in Nat /\ Taken \in Nat /\ MaxRead \in Nat
      /\ Len(<<>>) = 0 /\ <<>> \in Seq(Nat) /\ Len(buf) \in Nat /\ Len(lines) \in Nat
      /\ 0 <= MaxRead
  BY <1>3, <1>4, LenProperties, ReaderAssumption
<1> DEFINE n == Len(lines)
           cut == n + 1 \in torn
<1>6. PICK b : LineUnder(stream, Taken, b, buf, overlong, n, cut)
  BY <1>1, Polled
<1>7. cut \in BOOLEAN
  OBVIOUS
<1>8. ClosedOK'
  BY <1>2 DEF ClosedOK
<1>9. TakeLine(SubSeq(stream, Taken + 1, rest)) \/ TakePart(SubSeq(stream, Taken + 1, rest))
  BY <1>1, <1>4
<1>10. stream \in Seq(Nat) /\ buf \in Seq(Nat) /\ overlong \in BOOLEAN
  BY <1>3
<1> HIDE DEF n, cut
<1>11. CASE TakeLine(SubSeq(stream, Taken + 1, rest))
  <2> DEFINE chunk == SubSeq(stream, Taken + 1, rest)
  <2>1. PICK pos \in Feeds(chunk) :
          /\ \A i \in Feeds(chunk) : pos <= i
          /\ avail' = SubSeq(chunk, pos + 1, Len(chunk))
          /\ IF overlong \/ Len(buf) + pos > MaxRead
             THEN Return(<<>>) ELSE Return(buf \o SubSeq(chunk, 1, pos))
    BY <1>11 DEF TakeLine
  <2> DEFINE p == Taken + pos
             line == Grown(stream, Taken, p, buf, overlong)
  <2>2. /\ pos \in Nat /\ p <= rest /\ NextFeed(stream, Taken, p)
        /\ SubSeq(chunk, 1, pos) = SubSeq(stream, Taken + 1, p)
        /\ avail' = SubSeq(stream, p + 1, rest) /\ avail' \in Seq(Nat)
        /\ Len(avail') = rest - p
    <3>1. \A i \in Feeds(chunk) : pos <= i
      BY <2>1, Zenon
    <3>2. avail' = SubSeq(chunk, pos + 1, Len(chunk))
      BY <2>1, Zenon
    <3>3. /\ pos \in Nat /\ p <= rest /\ NextFeed(stream, Taken, p)
          /\ SubSeq(chunk, 1, pos) = SubSeq(stream, Taken + 1, p)
          /\ SubSeq(chunk, pos + 1, Len(chunk)) = SubSeq(stream, p + 1, rest)
          /\ SubSeq(chunk, pos + 1, Len(chunk)) \in Seq(Nat)
          /\ Len(SubSeq(chunk, pos + 1, Len(chunk))) = rest - p
      BY <1>4, <1>10, <3>1, FirstFeed
    <3> QED BY <3>2, <3>3, Zenon
  <2>3. /\ p \in Nat /\ p - Taken = pos /\ rest - (rest - p) = p /\ rest - p <= rest
        /\ rest <= Len(stream)
    BY <1>4, <1>5, <2>2
  <2>4. lines' = Append(lines, line) /\ buf' = <<>> /\ overlong' = FALSE
    BY <2>1, <2>2, <2>3 DEF Return, Grown, TooLong
  <2>5. /\ Good(stream, n + 1, line, cut) /\ line \in Seq(Nat)
        /\ LineUnder(stream, p, p, <<>>, FALSE, n + 1, n + 2 \in torn)
    <3>1. (n + 2 \in torn) \in BOOLEAN
      OBVIOUS
    <3>2. NextFeed(stream, Taken, p) /\ p \in Nat /\ n \in Nat
      BY <1>5, <2>2, <2>3 DEF n
    <3>3. stream \in Seq(Nat) /\ p \in Feeds(stream)
      BY <1>10, <3>2 DEF NextFeed
    <3> HIDE DEF p
    <3>4. /\ Good(stream, n + 1, line, cut) /\ line \in Seq(Nat)
          /\ FeedsTo(stream, p) = n + 1
      <4>1. Completes(stream, p, n, line, cut)
        BY <1>4, <1>6, <1>7, <1>10, <3>2, TakesLine
      <4> HIDE DEF line
      <4> QED BY <4>1 DEF Completes
    <3> HIDE DEF line
    <3>5. LineUnder(stream, p, p, <<>>, FALSE, FeedsTo(stream, p), n + 2 \in torn)
      BY <3>1, <3>3, LineBegins, Zenon
    <3> QED BY <3>4, <3>5, Zenon
  <2> HIDE DEF p, line
  <2>6. ReturnedOK' /\ lines' \in Seq(Seq(Nat)) /\ Len(lines') = n + 1
    BY <1>2, <1>3, <2>4, <2>5, Returned DEF n, cut
  <2>7. RdTypes'
    <3>1. Len(buf') <= MaxRead /\ buf' \in Seq(Nat) /\ overlong' \in BOOLEAN
      <4>1. Len(buf') = 0
        BY <1>5, <2>4, Zenon
      <4>2. FALSE \in BOOLEAN
        OBVIOUS
      <4> QED BY <1>5, <2>4, <4>1, <4>2, Zenon
    <3> QED BY <1>1, <1>2, <1>3, <1>4, <2>2, <2>6, <3>1, Zenon DEF RdTypes
  <2>8. Taken' = p
    BY <1>1, <2>2, <2>3 DEF Taken
  <2>9. Unread'
    BY <1>1, <1>2, <2>2, <2>3, <2>8 DEF Unread
  <2>10. Len(lines') + 1 = n + 2
    BY <1>5, <2>6 DEF n
  <2>11. UnderWay'
    BY <1>2, <2>3, <2>4, <2>5, <2>6, <2>8, <2>10, Zenon DEF UnderWay
  <2> QED BY <1>8, <2>6, <2>7, <2>9, <2>11 DEF ReadInv
<1>12. CASE TakePart(SubSeq(stream, Taken + 1, rest))
  <2> DEFINE chunk == SubSeq(stream, Taken + 1, rest)
             more == Grown(stream, Taken, rest, buf, overlong)
             longer == TooLong(Taken, rest, buf, overlong)
  <2>1. /\ Feeds(chunk) = {} /\ avail' = <<>> /\ lines' = lines
        /\ IF overlong \/ Len(buf) + Len(chunk) > MaxRead
           THEN buf' = <<>> /\ overlong' = TRUE
           ELSE buf' = buf \o chunk /\ overlong' = overlong
    BY <1>12 DEF TakePart
  <2>2. Len(chunk) = rest - Taken /\ NoFeed(stream, Taken, rest)
    <3>1. Feeds(chunk) = {}
      BY <2>1
    <3> QED BY <1>4, <1>10, <3>1, FeedsOfChunk
  <2>3. buf' = more /\ overlong' = longer
    BY <1>10, <2>1, <2>2 DEF Grown, TooLong
  <2>4. /\ LineUnder(stream, rest, b, more, longer, n, cut)
        /\ more \in Seq(Nat) /\ Len(more) <= MaxRead
    <3>1. NoFeed(stream, Taken, rest)
      BY <2>2
    <3> QED BY <1>4, <1>6, <1>7, <1>10, <3>1, TakesPart
  <2>5. b \in Nat
    BY <1>4, <1>5, <1>6, <1>7, <1>10, BufFrom
  <2>6. RdTypes'
    <3>1. overlong' \in BOOLEAN
      BY <2>3 DEF TooLong
    <3>2. avail' \in Seq(Nat)
      BY <1>5, <2>1
    <3> HIDE DEF more, longer
    <3> QED BY <1>1, <1>2, <1>3, <1>4, <2>1, <2>3, <2>4, <3>1, <3>2, Zenon DEF RdTypes
  <2> HIDE DEF more, longer
  <2>7. Taken' = rest /\ 0 <= rest /\ rest <= Len(stream)
    BY <1>1, <1>4, <1>5, <2>1 DEF Taken
  <2>8. SubSeq(stream, rest + 1, rest) = <<>>
    <3>1. rest + 1 \in Int /\ rest \in Int /\ rest < rest + 1
      BY <1>4
    <3> QED BY <3>1, SubSeqEmpty
  <2>9. Unread'
    BY <1>1, <1>2, <1>5, <2>1, <2>7, <2>8 DEF Unread
  <2>10. UnderWay'
    BY <1>2, <2>1, <2>3, <2>4, <2>5, <2>7, Zenon DEF UnderWay, n, cut
  <2>11. ReturnedOK'
    BY <1>2, <1>3, <2>1, Zenon DEF ReturnedOK
  <2> QED BY <1>8, <2>6, <2>9, <2>10, <2>11 DEF ReadInv
<1> QED BY <1>9, <1>11, <1>12

LEMMA EndOfFileKeepsInv == ReadInv /\ EndOfFile => ReadInv'
<1> SUFFICES ASSUME ReadInv, EndOfFile PROVE ReadInv'
  OBVIOUS
<1>1. /\ ~closed /\ avail = <<>> /\ arrived = Len(stream)
      /\ UNCHANGED <<stream, arrived, avail, torn>>
  BY DEF EndOfFile
<1>2. /\ RdTypes /\ Unread /\ UnderWay /\ ReturnedOK
      /\ stream \in Seq(Nat) /\ arrived \in Nat /\ buf \in Seq(Nat) /\ lines \in Seq(Seq(Nat))
      /\ overlong \in BOOLEAN /\ Len(buf) <= MaxRead
  BY DEF ReadInv, RdTypes
<1>3. /\ Len(<<>>) = 0 /\ <<>> \in Seq(Nat) /\ Len(stream) \in Nat /\ Len(lines) \in Nat
      /\ DOMAIN lines = 1..Len(lines) /\ 0 <= MaxRead
  BY <1>2, LenProperties, ReaderAssumption
<1>4. Taken = Len(stream) /\ Taken' = Len(stream)
  <2>1. Len(avail) = 0 /\ arrived - 0 = arrived
    BY <1>1, <1>2, <1>3
  <2> QED BY <1>1, <2>1 DEF Taken
<1>5. Unread'
  BY <1>1, <1>2 DEF Unread, Taken
<1> DEFINE n == Len(lines)
           cut == n + 1 \in torn
<1>6. cut \in BOOLEAN
  OBVIOUS
<1>7. stream \in Seq(Nat) /\ buf \in Seq(Nat) /\ overlong \in BOOLEAN /\ Len(buf) <= MaxRead
  BY <1>2
<1>8. ASSUME NEW b, LineUnder(stream, Taken, b, buf, overlong, n, cut)
      PROVE  /\ n = Count(stream)
             /\ buf # <<>> /\ ~overlong => Good(stream, n + 1, buf, cut)
             /\ buf = <<>> \/ overlong =>
                  \A k \in DOMAIN Reference(stream) : k \in 1..n \/ (k = n + 1 /\ cut)
  <2>1. LineUnder(stream, Len(stream), b, buf, overlong, n, cut)
    BY <1>4, <1>8, Zenon
  <2> HIDE DEF n, cut
  <2> QED BY <1>6, <1>7, <2>1, AtTheEnd
<1>9. CASE buf = <<>> \/ overlong
  <2>1. closed' = TRUE /\ UNCHANGED <<buf, overlong, lines>>
    BY <1>9 DEF EndOfFile
  <2>2. RdTypes'
    BY <1>1, <1>2, <2>1 DEF RdTypes
  <2>3. UnderWay'
    BY <1>1, <1>2, <1>4, <2>1, Zenon DEF UnderWay
  <2>4. ReturnedOK'
    BY <1>1, <1>2, <2>1, Zenon DEF ReturnedOK
  <2>5. ASSUME NEW k \in DOMAIN Reference(stream), k \notin DOMAIN lines
        PROVE  k \in torn /\ k > Count(stream)
    <3>1. CASE \E b \in Nat : LineUnder(stream, Taken, b, buf, overlong, n, cut)
      <4>1. k = n + 1 /\ cut /\ n = Count(stream)
        BY <1>3, <1>8, <1>9, <2>5, <3>1
      <4> QED BY <1>3, <4>1
    <3>2. CASE n = Count(stream) + 1
      <4>1. k \in 1..Count(stream) \/ k = Count(stream) + 1
        BY <1>7, <2>5, ReferenceIs
      <4>2. Count(stream) \in Nat
        BY <1>3, <1>7, FeedsFinite DEF Count
      <4> HIDE DEF n
      <4>3. k \in 1..n
        BY <3>2, <4>1, <4>2
      <4> QED BY <1>3, <2>5, <4>3 DEF n
    <3> QED BY <1>2, <3>1, <3>2, Zenon DEF UnderWay
  <2>6. ClosedOK'
    BY <1>1, <2>1, <2>5, Zenon DEF ClosedOK
  <2> QED BY <1>5, <2>2, <2>3, <2>4, <2>6 DEF ReadInv
<1>10. CASE ~(buf = <<>> \/ overlong)
  <2>1. lines' = Append(lines, buf) /\ buf' = <<>> /\ overlong' = FALSE /\ closed' = closed
    BY <1>10 DEF EndOfFile, Return
  <2>2. n = Count(stream) /\ Good(stream, n + 1, buf, cut)
    BY <1>2, <1>8, <1>10, Zenon DEF UnderWay
  <2>3. ReturnedOK' /\ lines' \in Seq(Seq(Nat)) /\ Len(lines') = n + 1
    BY <1>1, <1>2, <2>1, <2>2, Returned
  <2>4. RdTypes'
    <3>1. Len(buf') <= MaxRead /\ buf' \in Seq(Nat) /\ overlong' \in BOOLEAN
      <4>1. FALSE \in BOOLEAN /\ Len(buf') = 0
        BY <1>3, <2>1, Zenon
      <4> QED BY <1>3, <2>1, <4>1, Zenon
    <3> QED BY <1>1, <1>2, <2>1, <2>3, <3>1, Zenon DEF RdTypes
  <2>5. UnderWay'
    BY <1>1, <1>4, <2>1, <2>2, <2>3, Zenon DEF UnderWay
  <2>6. ClosedOK'
    BY <1>1, <2>1 DEF ClosedOK
  <2> QED BY <1>5, <2>3, <2>4, <2>5, <2>6 DEF ReadInv
<1> QED BY <1>9, <1>10

LEMMA CancelKeepsInv == ReadInv /\ Cancel => ReadInv'
<1> SUFFICES ASSUME ReadInv, Cancel PROVE ReadInv'
  OBVIOUS
<1>1. /\ ~closed /\ (buf # <<>> \/ overlong)
      /\ buf' = <<>> /\ overlong' = FALSE /\ torn' = torn \cup {Len(lines) + 1}
      /\ UNCHANGED <<stream, arrived, avail, lines, closed>>
  BY DEF Cancel
<1>2. /\ RdTypes /\ Unread /\ UnderWay /\ ReturnedOK /\ stream \in Seq(Nat) /\ buf \in Seq(Nat)
      /\ lines \in Seq(Seq(Nat)) /\ torn \subseteq Nat
  BY DEF ReadInv, RdTypes
<1>3. /\ Len(<<>>) = 0 /\ <<>> \in Seq(Nat) /\ Len(lines) \in Nat /\ 0 <= MaxRead
      /\ DOMAIN lines = 1..Len(lines)
  BY <1>2, LenProperties, ReaderAssumption
<1>4. RdTypes'
  <2>1. Len(buf') <= MaxRead /\ buf' \in Seq(Nat) /\ overlong' \in BOOLEAN
    <3>1. FALSE \in BOOLEAN /\ Len(buf') = 0
      BY <1>1, <1>3, Zenon
    <3> QED BY <1>1, <1>3, <3>1, Zenon
  <2>2. torn' \subseteq Nat
    <3>1. Len(lines) + 1 \in Nat
      BY <1>3
    <3>2. torn \subseteq Nat /\ torn' = torn \cup {Len(lines) + 1}
      BY <1>1, <1>2, Zenon
    <3> QED BY <3>1, <3>2
  <2> QED BY <1>1, <1>2, <2>1, <2>2, Zenon DEF RdTypes
<1>5. Unread' /\ Taken' = Taken
  BY <1>1, <1>2 DEF Unread, Taken
<1>6. ReturnedOK'
  <2>1. \A k \in DOMAIN lines : (k \in torn') = (k \in torn)
    BY <1>1, <1>3
  <2> QED BY <1>1, <1>2, <2>1, Zenon DEF ReturnedOK
<1>7. UnderWay'
  <2>1. PICK b \in Nat :
          LineUnder(stream, Taken, b, buf, overlong, Len(lines), Len(lines) + 1 \in torn)
    BY <1>1, <1>2, Zenon DEF UnderWay
  <2>2. Before(stream, b, Taken) /\ Len(lines) = FeedsTo(stream, b)
    BY <2>1 DEF LineUnder
  <2>3. 0 <= Taken - b /\ Taken \in Nat
    <3>1. b \in 0..Taken
      BY <2>2 DEF Before
    <3>2. Taken \in Int
      BY <1>2, LenProperties DEF RdTypes, Taken
    <3> QED BY <2>1, <3>1, <3>2
  <2>4. SubSeq(stream, Taken - 0 + 1, Taken) = <<>>
    <3>1. Taken - 0 + 1 \in Int /\ Taken \in Int /\ Taken < Taken - 0 + 1
      BY <2>3
    <3> QED BY <3>1, SubSeqEmpty
  <2>5. LineUnder(stream, Taken, b, <<>>, FALSE, Len(lines), TRUE)
    BY <1>3, <2>2, <2>3, <2>4 DEF LineUnder
  <2>6. (Len(lines) + 1 \in torn') = TRUE /\ overlong' = FALSE
    BY <1>1
  <2>7. LineUnder(stream, Taken', b, buf', overlong', Len(lines), Len(lines) + 1 \in torn')
    BY <1>1, <1>5, <2>5, <2>6, Zenon
  <2> QED BY <1>1, <2>1, <2>7, Zenon DEF UnderWay
<1>8. ClosedOK'
  BY <1>1, Zenon DEF ClosedOK
<1> QED BY <1>4, <1>5, <1>6, <1>7, <1>8 DEF ReadInv

LEMMA StutterKeepsInv == ReadInv /\ UNCHANGED rdvars => ReadInv'
<1> SUFFICES ASSUME ReadInv, UNCHANGED rdvars PROVE ReadInv'
  OBVIOUS
<1>1. UNCHANGED <<stream, arrived, avail, buf, overlong, lines, closed, torn>>
  BY DEF rdvars
<1>2. RdTypes'
  BY <1>1, Zenon DEF ReadInv, RdTypes
<1>3. Unread'
  BY <1>1, Zenon DEF ReadInv, Unread, Taken
<1>4. UnderWay'
  BY <1>1, Zenon DEF ReadInv, UnderWay, Taken
<1>5. ReturnedOK' /\ ClosedOK'
  BY <1>1, Zenon DEF ReadInv, ReturnedOK, ClosedOK
<1> QED BY <1>2, <1>3, <1>4, <1>5 DEF ReadInv

-----------------------------------------------------------------------------
(* Theorems *)

\* Every reachable state of the reader satisfies the inductive invariant.
THEOREM ReaderInvariance == Spec => []ReadInv
<1>1. ReadInv /\ [Next]_rdvars => ReadInv'
  BY PollKeepsInv, EndOfFileKeepsInv, CancelKeepsInv, StutterKeepsInv DEF Next
<1> QED BY ReadInit, <1>1, PTL DEF Spec

\* read_line's locals have their types, and no more was read than was sent.
THEOREM ReaderTypeCorrect == Spec => []TypeOK
<1>1. ReadInv => TypeOK
  BY SMTT(30) DEF ReadInv, RdTypes, Unread, TypeOK
<1> QED BY ReaderInvariance, <1>1, PTL

\* However long a line the server sends, buf never grows beyond MAX_READ.
THEOREM BufferIsBoundedHolds == Spec => []BufferIsBounded
<1>1. ReadInv => BufferIsBounded
  BY DEF ReadInv, RdTypes, BufferIsBounded
<1> QED BY ReaderInvariance, <1>1, PTL

\* However the stream is cut into chunks, read_line returns its lines whole and in order, an
\* overlong one as the empty line, save the lines that were under way when a read was cancelled;
\* at the end of the stream none is missing, but a torn one without a line feed.
THEOREM LinesAreWholeHolds == Spec => []LinesAreWhole
<1>1. ReadInv => LinesAreWhole
  <2> SUFFICES ASSUME ReadInv PROVE LinesAreWhole
    OBVIOUS
  <2>1. ASSUME NEW k \in DOMAIN lines \ torn
        PROVE  k \in DOMAIN Reference(stream) /\ lines[k] = Reference(stream)[k]
    BY Zenon DEF ReadInv, ReturnedOK, Good
  <2>2. closed => \A k \in DOMAIN Reference(stream) \ DOMAIN lines : k \in torn /\ k > Count(stream)
    BY Zenon DEF ReadInv, ClosedOK
  <2> QED BY <2>1, <2>2, Zenon DEF LinesAreWhole
<1> QED BY ReaderInvariance, <1>1, PTL

\* Whatever is cancelled, what is returned in the k-th place is a tail of the k-th line: two
\* lines are never run together, and none is skipped.
THEOREM LinesNeverMergeHolds == Spec => []LinesNeverMerge
<1>1. ReadInv => LinesNeverMerge
  <2> SUFFICES ASSUME ReadInv, NEW k \in DOMAIN lines
      PROVE  k <= Count(stream) + 1 /\ IsSuffix(lines[k], LineOf(stream, k))
    BY DEF LinesNeverMerge
  <2>1. k \in 1..(Count(stream) + 1) /\ IsSuffix(lines[k], LineOf(stream, k))
    BY Zenon DEF ReadInv, ReturnedOK, Good
  <2> QED BY <2>1
<1> QED BY ReaderInvariance, <1>1, PTL

=============================================================================
