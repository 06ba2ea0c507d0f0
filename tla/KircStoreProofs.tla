--------------------------- MODULE KircStoreProofs ---------------------------
(***************************************************************************)
(* Proofs about KircStore, for any buffers, any cap and any batch size.    *)
(***************************************************************************)
EXTENDS KircStore, SequenceTheorems, FiniteSetTheorems, TLAPS

\* What STORE holds is well typed, within the cap, and filed under some spelling.
BuffersOK ==
  /\ key \in [Buffers -> Spellings \cup {NoKey}]
  /\ store \in [Buffers -> Seq(Nat)]
  /\ \A b \in Buffers : Len(store[b]) <= MaxRows
  /\ \A b \in Buffers : key[b] = NoKey => store[b] = <<>>
  /\ key[Console] \in {NoKey, ServerBuffer.spell}

\* The model follows the page; while a session is up, a model of a buffer STORE has
\* never heard of is empty, so history that comes into it starts from nothing.
ModelOK ==
  /\ current \in Targets /\ loaded \in Targets /\ rows \in Seq(Nat)
  /\ loaded.buf = current.buf
  /\ visible \in {Nowhere, loaded}
  /\ key[loaded.buf] = loaded.spell => rows = store[loaded.buf]
  /\ phase = "online" /\ key[loaded.buf] = NoKey => rows = <<>>

RestOK ==
  /\ unread \in [Buffers -> Nat] /\ unreadCount \in Nat
  /\ open \subseteq Targets
  /\ phase \in {"offline", "connecting", "online"} /\ lines \in 0..MaxLines

IInv == BuffersOK /\ ModelOK /\ RestOK

-----------------------------------------------------------------------------
(* Sequences *)

\* What is left of a list without its first p rows.
LEMMA FromFacts ==
  ASSUME NEW list \in Seq(Nat), NEW p \in 0..Len(list)
  PROVE  /\ From(list, p + 1) \in Seq(Nat)
         /\ Len(From(list, p + 1)) = Len(list) - p
         /\ \A i \in 1..(Len(list) - p) : From(list, p + 1)[i] = list[p + i]
  <1>1. Len(list) \in Nat /\ p \in Nat /\ p <= Len(list) BY LenProperties
  <1>2. \A i \in (p + 1)..Len(list) : list[i] \in Nat BY <1>1, ElementOfSeq
  <1>3. p + 1 \in Int /\ Len(list) \in Int BY <1>1
  <1>4. /\ SubSeq(list, p + 1, Len(list)) \in Seq(Nat)
        /\ Len(SubSeq(list, p + 1, Len(list)))
             = IF p + 1 <= Len(list) THEN Len(list) - (p + 1) + 1 ELSE 0
        /\ \A i \in 1..(Len(list) - (p + 1) + 1) :
             SubSeq(list, p + 1, Len(list))[i] = list[p + 1 + i - 1]
    BY <1>2, <1>3, SubSeqProperties
  <1>5. ASSUME NEW i \in 1..(Len(list) - p)
        PROVE  SubSeq(list, p + 1, Len(list))[i] = list[p + i]
    <2>1. i \in Nat /\ 1 <= i /\ i <= Len(list) - p BY <1>1
    <2>2. i \in 1..(Len(list) - (p + 1) + 1) BY <1>1, <2>1
    <2>3. p + 1 + i - 1 = p + i BY <1>1, <2>1
    <2>4. SubSeq(list, p + 1, Len(list))[i] = list[p + 1 + i - 1] BY <1>4, <2>2
    <2> QED BY <2>3, <2>4
  <1>6. Len(SubSeq(list, p + 1, Len(list))) = Len(list) - p BY <1>1, <1>4
  <1> QED BY <1>4, <1>5, <1>6 DEF From

LEMMA FromAll == ASSUME NEW list \in Seq(Nat) PROVE From(list, 1) = list
  BY SubSeqFull DEF From

LEMMA LeastFacts ==
  ASSUME NEW a \in Nat, NEW b \in Nat
  PROVE  Least(a, b) \in Nat /\ Least(a, b) <= a /\ Least(a, b) <= b /\ Least(a, b) \in {a, b}
  BY DEF Least

\* A push stays within the cap, puts its row last, and keeps the row that was last.
LEMMA PushFacts ==
  ASSUME NEW list \in Seq(Nat), NEW row \in Nat, Len(list) <= MaxRows
  PROVE  /\ PushBounded(list, row) \in Seq(Nat)
         /\ Len(PushBounded(list, row)) <= MaxRows
         /\ PushBounded(list, row) # <<>>
         /\ Len(list) > 0 =>
              \E i \in DOMAIN PushBounded(list, row) : PushBounded(list, row)[i] = list[Len(list)]
  <1> DEFINE p == IF Len(list) >= MaxRows THEN Least(PruneRows, Len(list)) ELSE 0
             kept == From(list, p + 1)
  <1>1. Len(list) \in Nat /\ MaxRows \in Nat \ {0, 1} /\ PruneRows \in 1..(MaxRows - 1)
    BY LenProperties, StoreAssumption
  <1>2. p \in 0..Len(list) /\ (Len(list) > 0 => p < Len(list)) /\ Len(list) - p + 1 <= MaxRows
    BY <1>1 DEF Least
  <1>3. PushBounded(list, row) = Append(kept, row)
    BY FromAll DEF PushBounded
  <1> HIDE DEF p
  <1>4. /\ kept \in Seq(Nat) /\ Len(kept) = Len(list) - p
        /\ \A i \in 1..(Len(list) - p) : kept[i] = list[p + i]
    BY <1>2, FromFacts
  <1> HIDE DEF kept
  <1>5. /\ Append(kept, row) \in Seq(Nat) /\ Append(kept, row) # <<>>
        /\ Len(Append(kept, row)) = Len(kept) + 1
        /\ \A i \in 1..Len(kept) : Append(kept, row)[i] = kept[i]
    BY <1>4, AppendProperties
  <1>6. DOMAIN Append(kept, row) = 1..Len(Append(kept, row)) BY <1>5, LenProperties
  <1>7. ASSUME Len(list) > 0
        PROVE  \E i \in DOMAIN Append(kept, row) : Append(kept, row)[i] = list[Len(list)]
    <2>1. Len(list) - p \in 1..Len(kept) /\ p + (Len(list) - p) = Len(list) BY <1>1, <1>2, <1>4, <1>7
    <2>2. Append(kept, row)[Len(list) - p] = list[Len(list)] BY <2>1, <1>4, <1>5
    <2>3. Len(list) - p \in DOMAIN Append(kept, row) BY <2>1, <1>1, <1>2, <1>4, <1>5, <1>6
    <2> QED BY <2>2, <2>3
  <1>8. Len(Append(kept, row)) <= MaxRows BY <1>1, <1>2, <1>4, <1>5
  <1> QED BY <1>3, <1>5, <1>7, <1>8

\* append_message removes as many rows as STORE has pruned: the view of a buffer becomes
\* what the push made of it.
LEMMA AppendedIsThePush ==
  ASSUME NEW view \in Seq(Nat), NEW row \in Nat, NEW at, NEW t, at.buf = t.buf,
         Get(key', store', at) = PushBounded(view, row)
  PROVE  Appended(view, at, t, row) = PushBounded(view, row)
  <1> DEFINE p == IF Len(view) >= MaxRows THEN Least(PruneRows, Len(view)) ELSE 0
             surplus == Len(view) + 1 - Len(Get(key', store', at))
  <1>1. Len(view) \in Nat /\ MaxRows \in Nat \ {0, 1} /\ PruneRows \in 1..(MaxRows - 1)
    BY LenProperties, StoreAssumption
  <1>2. p \in 0..Len(view) BY <1>1 DEF Least
  <1>3. PushBounded(view, row) = Append(From(view, p + 1), row) BY FromAll DEF PushBounded
  <1> HIDE DEF p
  <1>4. From(view, p + 1) \in Seq(Nat) /\ Len(From(view, p + 1)) = Len(view) - p
    BY <1>2, FromFacts
  <1>5. Len(PushBounded(view, row)) = Len(view) - p + 1 BY <1>3, <1>4, AppendProperties
  <1>6. surplus = p BY <1>1, <1>2, <1>5
  <1>7. (IF surplus > 0 THEN Least(surplus, Len(view)) ELSE 0) = p
    BY <1>1, <1>2, <1>6 DEF Least
  <1> QED BY <1>3, <1>7 DEF Appended

\* The first row STORE has of a buffer drives every older row out of the view.
LEMMA AppendedAfresh ==
  ASSUME NEW view \in Seq(Nat), NEW row \in Nat, NEW at, NEW t, at.buf = t.buf,
         Len(Get(key', store', at)) = 1
  PROVE  Appended(view, at, t, row) = <<row>>
  <1>1. Len(view) \in Nat BY LenProperties
  <1>2. Appended(view, at, t, row) = Append(From(view, Len(view) + 1), row)
    BY <1>1 DEF Appended, Least
  <1>3. From(view, Len(view) + 1) = <<>> BY <1>1, SubSeqEmpty DEF From
  <1>4. Append(<<>>, row) = <<row>> OBVIOUS
  <1> QED BY <1>2, <1>3, <1>4

\* Whatever is appended to it, a view is a list of rows.
LEMMA AppendedIsAView ==
  ASSUME NEW view \in Seq(Nat), NEW row \in Nat, NEW at, NEW t,
         Len(Get(key', store', at)) \in Nat
  PROVE  Appended(view, at, t, row) \in Seq(Nat)
  <1> DEFINE surplus == Len(view) + 1 - Len(Get(key', store', at))
             prune == IF surplus > 0 THEN Least(surplus, Len(view)) ELSE 0
  <1>1. Len(view) \in Nat BY LenProperties
  <1>2. prune \in 0..Len(view) BY <1>1 DEF Least
  <1>3. Appended(view, at, t, row) = IF at.buf = t.buf THEN Append(From(view, prune + 1), row) ELSE view
    BY DEF Appended
  <1> HIDE DEF prune
  <1> QED BY <1>2, <1>3, FromFacts, AppendProperties

\* A batch fills the room in front of a buffer, keeps what is there, and comes to what
\* prepend_history makes of the view.
LEMMA InFrontFacts ==
  ASSUME NEW list \in Seq(Nat), NEW batch \in Seq(Nat), Len(list) <= MaxRows
  PROVE  /\ InFront(list, batch) \in Seq(Nat)
         /\ Len(InFront(list, batch)) <= MaxRows
         /\ Len(list) > 0 =>
              \E i \in DOMAIN InFront(list, batch) : InFront(list, batch)[i] = list[Len(list)]
         /\ \A at : Get(key', store', at) = InFront(list, batch)
                      => Prepended(list, at) = InFront(list, batch)
  <1> DEFINE room == MaxRows - Len(list)
             p == IF Len(batch) > room THEN Len(batch) - room ELSE 0
             front == From(batch, p + 1)
  <1>1. /\ Len(list) \in Nat /\ Len(batch) \in Nat /\ MaxRows \in Nat
        /\ DOMAIN list = 1..Len(list)
    BY LenProperties, StoreAssumption
  <1>2. CASE room > 0
    <2>1. p \in 0..Len(batch) /\ Len(batch) - p <= room BY <1>1, <1>2
    <2>2. InFront(list, batch) = front \o list BY <1>2 DEF InFront
    <2> HIDE DEF p
    <2>3. front \in Seq(Nat) /\ Len(front) = Len(batch) - p BY <2>1, FromFacts
    <2>4. Len(front) \in Nat /\ Len(front) <= room BY <1>1, <2>1, <2>3
    <2> HIDE DEF front
    <2>5. /\ front \o list \in Seq(Nat) /\ Len(front \o list) = Len(front) + Len(list)
          /\ \A i \in 1..(Len(front) + Len(list)) :
               (front \o list)[i] = IF i <= Len(front) THEN front[i] ELSE list[i - Len(front)]
      BY <2>3, ConcatProperties
    <2>6. Len(front \o list) <= MaxRows BY <1>1, <2>4, <2>5
    <2>7. ASSUME Len(list) > 0
          PROVE  \E i \in DOMAIN (front \o list) : (front \o list)[i] = list[Len(list)]
      <3>1. /\ Len(front) + Len(list) \in 1..(Len(front) + Len(list))
            /\ ~(Len(front) + Len(list) <= Len(front))
            /\ Len(front) + Len(list) - Len(front) = Len(list)
        BY <1>1, <2>4, <2>7
      <3>2. (front \o list)[Len(front) + Len(list)] = list[Len(list)] BY <2>5, <3>1
      <3>3. DOMAIN (front \o list) = 1..(Len(front) + Len(list)) BY <2>5, LenProperties
      <3> QED BY <3>1, <3>2, <3>3
    <2>8. ASSUME NEW at, Get(key', store', at) = front \o list
          PROVE  Prepended(list, at) = front \o list
      <3> DEFINE added == Len(Get(key', store', at)) - Len(list)
      <3>1. added = Len(front) BY <1>1, <2>4, <2>5, <2>8
      <3>2. Prepended(list, at) = IF added > 0 THEN SubSeq(front \o list, 1, added) \o list ELSE list
        BY <2>8 DEF Prepended
      <3> HIDE DEF added
      <3>3. CASE Len(front) > 0
        <4>1. 1 \in 1..Len(front) /\ Len(front) \in 1..Len(front) BY <2>4, <3>3
        <4>2. SubSeq(front \o list, 1, Len(front)) = SubSeq(front, 1, Len(front))
          BY <2>3, <4>1, SubSeqOfConcat1
        <4>3. SubSeq(front, 1, Len(front)) = front BY <2>3, SubSeqFull
        <4> QED BY <3>1, <3>2, <3>3, <4>2, <4>3
      <3>4. CASE ~(Len(front) > 0)
        <4>1. front = <<>> BY <2>3, <2>4, <3>4, EmptySeq
        <4>2. front \o list = list BY <4>1, ConcatEmptySeq
        <4> QED BY <3>1, <3>2, <3>4, <4>2
      <3> QED BY <3>3, <3>4
    <2> QED BY <2>2, <2>5, <2>6, <2>7, <2>8
  <1>3. CASE ~(room > 0)
    <2>1. InFront(list, batch) = list BY <1>3 DEF InFront
    <2>2. Len(list) > 0 => Len(list) \in DOMAIN list BY <1>1
    <2>3. ASSUME NEW at, Get(key', store', at) = list
          PROVE  Prepended(list, at) = list
      <3>1. ~(Len(list) - Len(list) > 0) BY <1>1
      <3> QED BY <2>3, <3>1 DEF Prepended
    <2> QED BY <2>1, <2>2, <2>3
  <1> QED BY <1>2, <1>3

\* Whatever goes in front of it, a view is a list of rows.
LEMMA PrependedIsAView ==
  ASSUME NEW view \in Seq(Nat), NEW at, Get(key', store', at) \in Seq(Nat)
  PROVE  Prepended(view, at) \in Seq(Nat)
  <1> DEFINE stored == Get(key', store', at)
             added == Len(stored) - Len(view)
  <1>1. Len(view) \in Nat /\ Len(stored) \in Nat BY LenProperties
  <1>2. added \in Int /\ added <= Len(stored) BY <1>1
  <1>3. ASSUME NEW i \in 1..added PROVE stored[i] \in Nat
    <2>1. i \in 1..Len(stored) BY <1>1, <1>2
    <2> QED BY <2>1, ElementOfSeq
  <1>4. SubSeq(stored, 1, added) \in Seq(Nat) BY <1>2, <1>3, SubSeqProperties
  <1>5. SubSeq(stored, 1, added) \o view \in Seq(Nat) BY <1>4, ConcatProperties
  <1> QED BY <1>5 DEF Prepended

-----------------------------------------------------------------------------
(* Targets *)

LEMMA TargetFacts ==
  /\ ServerBuffer \in Targets /\ ServerBuffer.buf = Console
  /\ \A t \in Targets : /\ t.buf \in Buffers /\ t.spell \in Spellings /\ t.spell # NoKey
                        /\ t = Target(t.buf, t.spell) /\ t # Nowhere
                        /\ t.buf = Console => t = ServerBuffer
  /\ \A t \in Targets, s \in Spellings : t.buf # Console => Target(t.buf, s) \in Targets
  <1>1. ServerBuffer \in Targets /\ ServerBuffer.buf = Console /\ ServerBuffer.spell \in Spellings
    BY StoreAssumption DEF ServerBuffer, Targets, Target
  <1>2. ASSUME NEW t \in Targets
        PROVE  /\ t.buf \in Buffers /\ t.spell \in Spellings /\ t = Target(t.buf, t.spell)
               /\ t.buf = Console => t = ServerBuffer
    BY <1>1, StoreAssumption DEF Targets, Target, Buffers, ServerBuffer, Console
  <1>3. NoKey \notin Spellings BY StoreAssumption
  <1>4. ASSUME NEW t \in Targets, NEW s \in Spellings, t.buf # Console
        PROVE  Target(t.buf, s) \in Targets
    BY <1>1, <1>4 DEF Targets, Target
  <1>5. Nowhere.spell = NoKey BY DEF Nowhere, Target
  <1> QED BY <1>1, <1>2, <1>3, <1>4, <1>5

\* The spelling STORE has for a target is one, and of a target.
LEMMA CanonFacts ==
  ASSUME BuffersOK, NEW t \in Targets
  PROVE  Canon(t) \in Targets /\ Canon(t).buf = t.buf
         /\ Canon(t).spell = (IF key[t.buf] = NoKey THEN t.spell ELSE key[t.buf])
  <1>1. CASE key[t.buf] = NoKey BY <1>1 DEF Canon
  <1>2. CASE key[t.buf] # NoKey
    <2>1. Canon(t) = Target(t.buf, key[t.buf]) BY <1>2 DEF Canon
    <2>2. t.buf \in Buffers BY TargetFacts
    <2>3. key[t.buf] \in Spellings BY <1>2, <2>2 DEF BuffersOK
    <2>4. Canon(t) \in Targets
      <3>1. CASE t.buf = Console
        <4>1. t = ServerBuffer /\ t = Target(t.buf, t.spell) BY <3>1, TargetFacts
        <4>2. key[t.buf] = t.spell BY <1>2, <3>1, <4>1 DEF BuffersOK
        <4> QED BY <2>1, <4>1, <4>2
      <3>2. CASE t.buf # Console BY <2>1, <2>3, <3>2, TargetFacts
      <3> QED BY <3>1, <3>2
    <2> QED BY <1>2, <2>1, <2>4 DEF Target
  <1> QED BY <1>1, <1>2

-----------------------------------------------------------------------------
(* STORE *)

\* Of what a buffer had, the newest row is still there, unless the buffer went.
NewestKept ==
  \A b \in Buffers :
    Len(store[b]) > 0 /\ store'[b] # <<>> =>
      \E i \in DOMAIN store'[b] : store'[b][i] = store[b][Len(store[b])]

LEMMA SameIsKept == ASSUME BuffersOK, UNCHANGED store PROVE NewestKept
  <1> SUFFICES ASSUME NEW b \in Buffers, Len(store[b]) > 0
               PROVE  \E i \in DOMAIN store[b] : store[b][i] = store[b][Len(store[b])]
    BY DEF NewestKept
  <1>1. store[b] \in Seq(Nat) BY DEF BuffersOK
  <1>2. Len(store[b]) \in DOMAIN store[b] BY <1>1, LenProperties
  <1> QED BY <1>2

\* One buffer filed anew, as a push or a batch does it.
LEMMA FiledKeeps ==
  ASSUME BuffersOK, NEW t \in Targets, NEW list \in Seq(Nat), Len(list) <= MaxRows,
         Len(store[t.buf]) > 0 => \E i \in DOMAIN list : list[i] = store[t.buf][Len(store[t.buf])],
         key' = [key EXCEPT ![t.buf] = Canon(t).spell],
         store' = [store EXCEPT ![t.buf] = list]
  PROVE  /\ BuffersOK' /\ NewestKept
         /\ key'[t.buf] = Canon(t).spell /\ key'[t.buf] \in Spellings
         /\ store'[t.buf] = list
         /\ \A b \in Buffers \ {t.buf} : key'[b] = key[b] /\ store'[b] = store[b]
  <1>1. t.buf \in Buffers /\ Canon(t).spell \in Spellings /\ NoKey \notin Spellings
    BY TargetFacts, CanonFacts, StoreAssumption
  <1>2. /\ key'[t.buf] = Canon(t).spell /\ store'[t.buf] = list
        /\ \A b \in Buffers \ {t.buf} : key'[b] = key[b] /\ store'[b] = store[b]
        /\ key' \in [Buffers -> Spellings \cup {NoKey}] /\ store' \in [Buffers -> Seq(Nat)]
    BY <1>1 DEF BuffersOK
  <1>3. key'[Console] \in {NoKey, ServerBuffer.spell}
    <2>1. CASE t.buf = Console
      <3>1. t = ServerBuffer BY <2>1, TargetFacts
      <3>2. Canon(t).buf = Console /\ Canon(t) \in Targets BY <2>1, CanonFacts
      <3>3. Canon(t) = ServerBuffer BY <3>2, TargetFacts
      <3> QED BY <1>2, <2>1, <3>3
    <2>2. CASE t.buf # Console
      <3>1. Console \in Buffers BY TargetFacts
      <3> QED BY <1>2, <2>2, <3>1 DEF BuffersOK
    <2> QED BY <2>1, <2>2
  <1>4. BuffersOK' BY <1>1, <1>2, <1>3 DEF BuffersOK
  <1>5. NewestKept
    <2> SUFFICES ASSUME NEW b \in Buffers, Len(store[b]) > 0
                 PROVE  \E i \in DOMAIN store'[b] : store'[b][i] = store[b][Len(store[b])]
      BY DEF NewestKept
    <2>1. CASE b = t.buf BY <1>2, <2>1
    <2>2. CASE b # t.buf
      <3>1. store[b] \in Seq(Nat) BY DEF BuffersOK
      <3>2. Len(store[b]) \in DOMAIN store[b] BY <3>1, LenProperties
      <3> QED BY <1>2, <2>2, <3>2
    <2> QED BY <2>1, <2>2
  <1> QED BY <1>1, <1>2, <1>4, <1>5

LEMMA PutKeeps ==
  ASSUME BuffersOK, NEW t \in Targets, NEW row \in Nat, Put(t, row)
  PROVE  /\ BuffersOK' /\ NewestKept
         /\ key'[t.buf] = Canon(t).spell /\ key'[t.buf] \in Spellings
         /\ store'[t.buf] = PushBounded(store[t.buf], row)
         /\ \A b \in Buffers \ {t.buf} : key'[b] = key[b] /\ store'[b] = store[b]
  <1> DEFINE list == PushBounded(store[t.buf], row)
  <1>1. t.buf \in Buffers BY TargetFacts
  <1>2. store[t.buf] \in Seq(Nat) /\ Len(store[t.buf]) <= MaxRows BY <1>1 DEF BuffersOK
  <1>3. /\ list \in Seq(Nat) /\ Len(list) <= MaxRows
        /\ Len(store[t.buf]) > 0 => \E i \in DOMAIN list : list[i] = store[t.buf][Len(store[t.buf])]
    BY <1>2, PushFacts
  <1>4. key' = [key EXCEPT ![t.buf] = Canon(t).spell] /\ store' = [store EXCEPT ![t.buf] = list]
    BY DEF Put
  <1> HIDE DEF list
  <1>5. /\ BuffersOK' /\ NewestKept
        /\ key'[t.buf] = Canon(t).spell /\ key'[t.buf] \in Spellings
        /\ store'[t.buf] = list
        /\ \A b \in Buffers \ {t.buf} : key'[b] = key[b] /\ store'[b] = store[b]
    BY <1>3, <1>4, FiledKeeps
  <1> QED BY <1>5 DEF list

LEMMA ClearKeeps == ASSUME ClearAllStores PROVE BuffersOK' /\ NewestKept
  <1>1. <<>> \in Seq(Nat) /\ Len(<<>>) = 0 /\ 0 <= MaxRows BY EmptySeq, StoreAssumption
  <1>2. Console \in Buffers BY TargetFacts
  <1> QED BY <1>1, <1>2 DEF ClearAllStores, BuffersOK, NewestKept

-----------------------------------------------------------------------------
(* The model *)

\* A push and the page's handler leave the model with what STORE has.
LEMMA ReceiveKeeps ==
  ASSUME BuffersOK, ModelOK, NEW t \in Targets, NEW row \in Nat, Put(t, row),
         Receive(t, row), UNCHANGED <<current, phase>>
  PROVE  ModelOK'
  <1>1. /\ BuffersOK' /\ key'[t.buf] = Canon(t).spell /\ key'[t.buf] # NoKey
        /\ store'[t.buf] = PushBounded(store[t.buf], row)
        /\ \A b \in Buffers \ {t.buf} : key'[b] = key[b] /\ store'[b] = store[b]
    BY PutKeeps, StoreAssumption
  <1>2. UNCHANGED <<loaded, visible, current, phase>> BY DEF Receive
  <1>3. loaded.buf \in Buffers /\ loaded.spell \in Spellings /\ loaded.spell # NoKey
    BY TargetFacts DEF ModelOK
  <1>4. CASE t.buf # current.buf
    <2>1. rows' = rows /\ key'[loaded.buf] = key[loaded.buf] /\ store'[loaded.buf] = store[loaded.buf]
      BY <1>1, <1>3, <1>4 DEF Receive, ModelOK
    <2> QED BY <1>2, <2>1 DEF ModelOK
  <1>5. CASE t.buf = current.buf
    <2> DEFINE got == Get(key', store', loaded)
    <2>1. loaded.buf = t.buf /\ rows \in Seq(Nat) BY <1>5 DEF ModelOK
    <2>2. rows' = Appended(rows, loaded, t, row) BY <1>5 DEF Receive
    <2>3. got = IF key'[t.buf] = loaded.spell THEN store'[t.buf] ELSE <<>> BY <2>1 DEF Get
    <2>4. store'[t.buf] \in Seq(Nat) BY <1>1, <1>3, <2>1 DEF BuffersOK
    <2>5. Len(got) \in Nat BY <2>3, <2>4, LenProperties, EmptySeq
    <2>6. rows' \in Seq(Nat) BY <2>1, <2>2, <2>5, AppendedIsAView
    <2>7. ASSUME key'[t.buf] = loaded.spell PROVE rows' = store'[t.buf]
      <3>1. got = PushBounded(store[t.buf], row) BY <1>1, <2>3, <2>7
      <3>2. CASE key[t.buf] = NoKey
        <4>1. store[t.buf] = <<>> BY <1>3, <2>1, <3>2 DEF BuffersOK
        <4>2. ~(Len(<<>>) >= MaxRows) BY StoreAssumption
        <4>3. PushBounded(<<>>, row) = <<row>>
          <5>1. PushBounded(<<>>, row) = Append(<<>>, row) BY <4>2 DEF PushBounded
          <5> QED BY <5>1
        <4>4. Len(<<row>>) = 1 OBVIOUS
        <4>5. Appended(rows, loaded, t, row) = <<row>>
          BY <2>1, <3>1, <4>1, <4>3, <4>4, AppendedAfresh
        <4> QED BY <1>1, <2>2, <4>1, <4>3, <4>5
      <3>3. CASE key[t.buf] # NoKey
        <4>1. key[loaded.buf] = loaded.spell BY <1>1, <2>1, <2>7, <3>3, CanonFacts
        <4>2. rows = store[t.buf] BY <2>1, <4>1 DEF ModelOK
        <4> QED BY <1>1, <2>1, <2>2, <3>1, <4>2, AppendedIsThePush
      <3> QED BY <3>2, <3>3
    <2> QED BY <1>1, <1>2, <2>1, <2>6, <2>7 DEF ModelOK
  <1> QED BY <1>4, <1>5

\* A reload shows what STORE has.
LEMMA LoadKeeps ==
  ASSUME BuffersOK', NEW t \in Targets, Load(t), current' \in Targets, current'.buf = t.buf
  PROVE  ModelOK'
  <1>1. t.buf \in Buffers /\ t.spell # NoKey BY TargetFacts
  <1>2. loaded' = Target(t.buf, IF key'[t.buf] = NoKey THEN t.spell ELSE key'[t.buf])
    BY DEF Load
  <1>3. loaded' \in Targets /\ loaded'.buf = t.buf
        /\ loaded'.spell = IF key'[t.buf] = NoKey THEN t.spell ELSE key'[t.buf]
    <2>1. t = Target(t.buf, t.spell) /\ t.spell \in Spellings BY TargetFacts
    <2>2. CASE key'[t.buf] = NoKey BY <1>2, <2>1, <2>2
    <2>3. CASE key'[t.buf] # NoKey
      <3>1. key'[t.buf] \in Spellings BY <1>1, <2>3 DEF BuffersOK
      <3>2. CASE t.buf = Console
        <4>1. t = ServerBuffer BY <3>2, TargetFacts
        <4>2. key'[t.buf] = t.spell BY <2>3, <3>2, <4>1 DEF BuffersOK
        <4> QED BY <1>2, <2>1, <4>2
      <3>3. CASE t.buf # Console
        <4>1. loaded' \in Targets BY <1>2, <2>3, <3>1, <3>3, TargetFacts
        <4> QED BY <1>2, <2>3, <4>1 DEF Target
      <3> QED BY <3>2, <3>3
    <2> QED BY <2>2, <2>3
  <1>4. /\ key'[t.buf] # NoKey => rows' = store'[t.buf]
        /\ key'[t.buf] = NoKey => rows' = <<>>
    BY <1>1, <1>3 DEF Load, Get
  <1>5. rows' \in Seq(Nat) BY <1>1, <1>4, EmptySeq DEF BuffersOK
  <1> QED BY <1>1, <1>3, <1>4, <1>5 DEF ModelOK, Load

\* openChannel goes to a buffer of the list, reads it off the badge and reloads.
LEMMA OpenChannelKeeps ==
  ASSUME BuffersOK', RestOK, NEW t \in Targets, open' \subseteq Targets, OpenChannel(t)
  PROVE  ModelOK' /\ unread' \in [Buffers -> Nat] /\ unreadCount' \in Nat
  <1>1. current' \in Targets /\ current'.buf = t.buf
    <2>1. current' = Existing(open', t) BY DEF OpenChannel
    <2>2. CASE \E o \in open' : o.buf = t.buf BY <2>1, <2>2 DEF Existing
    <2>3. CASE ~\E o \in open' : o.buf = t.buf BY <2>1, <2>3 DEF Existing
    <2> QED BY <2>2, <2>3
  <1>2. ModelOK'
    <2>1. Load(current') BY DEF OpenChannel
    <2> QED BY <1>1, <2>1, LoadKeeps
  <1>3. unread' \in [Buffers -> Nat] /\ unreadCount' \in Nat
    <2>1. t.buf \in Buffers BY TargetFacts
    <2> QED BY <2>1 DEF OpenChannel, MarkBufferRead, RestOK
  <1> QED BY <1>2, <1>3

LEMMA ListFacts ==
  ASSUME open \subseteq Targets, NEW t \in Targets
  PROVE  Adding(open, t) \subseteq Targets /\ Removing(open, t) \subseteq Targets
  BY TargetFacts DEF Adding, Removing

-----------------------------------------------------------------------------
(* Steps *)

\* What a step must do: keep the invariant and, unless it changes the phase, keep the
\* newest rows.
Kept == IInv' /\ (phase' = phase => NewestKept)

LEMMA RowFacts ==
  ASSUME RestOK
  PROVE  Row \in Nat /\ \A n \in Nat : NewRows(n) => lines' \in 0..MaxLines
  BY StoreAssumption DEF RestOK, Row, NewRows

LEMMA EventLineKeeps == ASSUME IInv, NEW t \in Targets, EventLine(t) PROVE Kept
  <1>1. Row \in Nat /\ lines' \in 0..MaxLines BY RowFacts DEF IInv, EventLine
  <1>2. BuffersOK' /\ NewestKept BY <1>1, PutKeeps DEF IInv, EventLine
  <1>3. ModelOK' BY <1>1, ReceiveKeeps DEF IInv, EventLine, page
  <1>4. RestOK' BY <1>1 DEF IInv, RestOK, EventLine, badge, page
  <1> QED BY <1>2, <1>3, <1>4 DEF Kept, IInv

LEMMA MsgKeeps == ASSUME IInv, NEW t \in Targets, NEW self \in BOOLEAN, Msg(t, self) PROVE Kept
  <1>1. Row \in Nat /\ lines' \in 0..MaxLines BY RowFacts DEF IInv, Msg
  <1>2. BuffersOK' /\ NewestKept BY <1>1, PutKeeps DEF IInv, Msg
  <1>3. ModelOK' BY <1>1, ReceiveKeeps DEF IInv, Msg
  <1>4. unread' \in [Buffers -> Nat] /\ unreadCount' \in Nat
    BY TargetFacts DEF IInv, RestOK, Msg, BumpUnread
  <1>5. open' \subseteq Targets
    <2>1. Canon(t) \in Targets BY CanonFacts DEF IInv
    <2> QED BY <2>1, ListFacts DEF IInv, RestOK, Msg
  <1>6. RestOK' BY <1>1, <1>4, <1>5 DEF IInv, RestOK, Msg
  <1> QED BY <1>2, <1>3, <1>6 DEF Kept, IInv

LEMMA CommandReplyKeeps == ASSUME IInv, CommandReply PROVE Kept
  <1> DEFINE t == IF visible = Nowhere THEN ServerBuffer ELSE visible
  <1>1. t \in Targets BY TargetFacts DEF IInv, ModelOK
  <1>2. NewRows(1) /\ Put(t, Row) /\ Receive(t, Row) /\ UNCHANGED <<badge, page, phase>>
    BY DEF CommandReply
  <1> HIDE DEF t
  <1>3. Row \in Nat /\ lines' \in 0..MaxLines BY <1>2, RowFacts DEF IInv
  <1>4. BuffersOK' /\ NewestKept BY <1>1, <1>2, <1>3, PutKeeps DEF IInv
  <1>5. ModelOK' BY <1>1, <1>2, <1>3, ReceiveKeeps DEF IInv, page
  <1>6. RestOK' BY <1>2, <1>3 DEF IInv, RestOK, badge, page
  <1> QED BY <1>4, <1>5, <1>6 DEF Kept, IInv

LEMMA JoinFailedKeeps == ASSUME IInv, NEW t \in Targets, JoinFailed(t) PROVE Kept
  <1>1. Row \in Nat /\ lines' \in 0..MaxLines BY RowFacts DEF IInv, JoinFailed
  <1>2. BuffersOK' /\ NewestKept BY <1>1, TargetFacts, PutKeeps DEF IInv, JoinFailed
  <1>3. ModelOK' BY <1>1, TargetFacts, ReceiveKeeps DEF IInv, JoinFailed
  <1>4. open' \subseteq Targets BY ListFacts DEF IInv, RestOK, JoinFailed
  <1>5. RestOK' BY <1>1, <1>4 DEF IInv, RestOK, JoinFailed, badge
  <1> QED BY <1>2, <1>3, <1>5 DEF Kept, IInv

LEMMA HistoryBatchKeeps ==
  ASSUME IInv, NEW t \in Targets, NEW n \in 0..MaxBatch, HistoryBatch(t, n)
  PROVE  Kept
  <1> DEFINE batch == [i \in 1..n |-> lines + i]
             list == InFront(store[t.buf], batch)
  <1>1. n \in Nat /\ lines \in Nat BY StoreAssumption DEF IInv, RestOK
  <1>2. lines' \in 0..MaxLines BY <1>1, RowFacts DEF IInv, HistoryBatch
  <1>3. batch \in Seq(Nat) BY <1>1
  <1>4. t.buf \in Buffers BY TargetFacts
  <1>5. store[t.buf] \in Seq(Nat) /\ Len(store[t.buf]) <= MaxRows BY <1>4 DEF IInv, BuffersOK
  <1>6. /\ key' = [key EXCEPT ![t.buf] = Canon(t).spell] /\ store' = [store EXCEPT ![t.buf] = list]
        /\ rows' = IF t.buf = current.buf /\ t.buf = loaded.buf THEN Prepended(rows, loaded) ELSE rows
        /\ UNCHANGED <<badge, page, loaded, visible, phase>> /\ Online
    BY DEF HistoryBatch
  <1> HIDE DEF batch
  <1>7. /\ list \in Seq(Nat) /\ Len(list) <= MaxRows
        /\ Len(store[t.buf]) > 0 => \E i \in DOMAIN list : list[i] = store[t.buf][Len(store[t.buf])]
        /\ \A at : Get(key', store', at) = list => Prepended(store[t.buf], at) = list
    BY <1>3, <1>5, InFrontFacts
  <1> HIDE DEF list
  <1>8. /\ BuffersOK' /\ NewestKept
        /\ key'[t.buf] = Canon(t).spell /\ key'[t.buf] \in Spellings
        /\ store'[t.buf] = list
        /\ \A b \in Buffers \ {t.buf} : key'[b] = key[b] /\ store'[b] = store[b]
    BY <1>6, <1>7, FiledKeeps DEF IInv
  <1>9. ModelOK'
    <2>1. loaded.buf \in Buffers /\ loaded.spell # NoKey BY TargetFacts DEF IInv, ModelOK
    <2>2. CASE t.buf # loaded.buf
      <3>1. rows' = rows BY <1>6, <2>2
      <3>2. key'[loaded.buf] = key[loaded.buf] /\ store'[loaded.buf] = store[loaded.buf]
        BY <1>8, <2>1, <2>2
      <3> QED BY <1>6, <3>1, <3>2 DEF IInv, ModelOK, page
    <2>3. CASE t.buf = loaded.buf
      <3>1. rows' = Prepended(rows, loaded) BY <1>6, <2>3 DEF IInv, ModelOK
      <3>2. Get(key', store', loaded) = IF key'[t.buf] = loaded.spell THEN list ELSE <<>>
        BY <1>8, <2>3 DEF Get
      <3>3. Get(key', store', loaded) \in Seq(Nat) BY <1>7, <3>2, EmptySeq
      <3>4. rows' \in Seq(Nat) BY <3>1, <3>3, PrependedIsAView DEF IInv, ModelOK
      <3>5. ASSUME key'[t.buf] = loaded.spell PROVE rows' = list
        <4>1. rows = store[t.buf]
          <5>1. CASE key[t.buf] = NoKey
            BY <1>4, <1>6, <2>3, <5>1 DEF IInv, ModelOK, BuffersOK, Online
          <5>2. CASE key[t.buf] # NoKey
            <6>1. key[loaded.buf] = loaded.spell BY <1>8, <2>3, <3>5, <5>2, CanonFacts DEF IInv
            <6> QED BY <2>3, <6>1 DEF IInv, ModelOK
          <5> QED BY <5>1, <5>2
        <4> QED BY <1>7, <3>1, <3>2, <3>5, <4>1
      <3>6. key'[t.buf] # NoKey BY <1>8, StoreAssumption
      <3> QED BY <1>6, <1>8, <2>3, <3>4, <3>5, <3>6 DEF IInv, ModelOK, page
    <2> QED BY <2>2, <2>3
  <1>10. RestOK' BY <1>2, <1>6 DEF IInv, RestOK, badge, page
  <1> QED BY <1>8, <1>9, <1>10 DEF Kept, IInv

LEMMA JoinedKeeps == ASSUME IInv, NEW t \in Targets, Joined(t) PROVE Kept
  <1>1. Row \in Nat /\ lines' \in 0..MaxLines BY RowFacts DEF IInv, Joined
  <1>2. BuffersOK' /\ NewestKept BY <1>1, PutKeeps DEF IInv, Joined
  <1>3. open' \subseteq Targets BY ListFacts DEF IInv, RestOK, Joined
  <1>4. ModelOK' /\ unread' \in [Buffers -> Nat] /\ unreadCount' \in Nat
    BY <1>2, <1>3, OpenChannelKeeps DEF IInv, Joined
  <1>5. RestOK' BY <1>1, <1>3, <1>4 DEF IInv, RestOK, Joined
  <1> QED BY <1>2, <1>4, <1>5 DEF Kept, IInv

\* A model of another buffer than the one that is filed goes on as it was.
LEMMA ElsewhereKeeps ==
  ASSUME BuffersOK, ModelOK, NEW t \in Targets, NEW row \in Nat, Put(t, row),
         t.buf # current.buf, UNCHANGED <<current, model, phase>>
  PROVE  ModelOK'
  <1>1. loaded.buf \in Buffers \ {t.buf} BY TargetFacts DEF ModelOK
  <1>2. key'[loaded.buf] = key[loaded.buf] /\ store'[loaded.buf] = store[loaded.buf]
    BY <1>1, PutKeeps
  <1> QED BY <1>2 DEF ModelOK, model

LEMMA PartedKeeps == ASSUME IInv, NEW t \in Targets, Parted(t) PROVE Kept
  <1>1. Row \in Nat /\ lines' \in 0..MaxLines BY RowFacts DEF IInv, Parted
  <1>2. BuffersOK' /\ NewestKept BY <1>1, PutKeeps DEF IInv, Parted
  <1>3. open' \subseteq Targets BY ListFacts DEF IInv, RestOK, Parted
  <1>4. ModelOK' /\ unread' \in [Buffers -> Nat] /\ unreadCount' \in Nat
    <2>1. CASE current.buf = t.buf
      BY <1>2, <1>3, <2>1, TargetFacts, OpenChannelKeeps DEF IInv, Parted
    <2>2. CASE current.buf # t.buf
      <3>1. Put(t, Row) /\ UNCHANGED <<badge, current, model, phase>> BY <2>2 DEF Parted
      <3>2. ModelOK' BY <1>1, <2>2, <3>1, ElsewhereKeeps DEF IInv
      <3> QED BY <3>1, <3>2 DEF IInv, RestOK, badge
    <2> QED BY <2>1, <2>2
  <1>5. RestOK' BY <1>1, <1>3, <1>4 DEF IInv, RestOK, Parted
  <1> QED BY <1>2, <1>4, <1>5 DEF Kept, IInv

LEMMA RegisteredKeeps == ASSUME IInv, Registered PROVE Kept
  <1> DEFINE at == Canon(current)
             t == ServerBuffer
             view == Get(key, store, at)
  <1>1. Row \in Nat /\ lines' \in 0..MaxLines BY RowFacts DEF IInv, Registered
  <1>2. t \in Targets /\ t.buf = Console BY TargetFacts
  <1>3. /\ Put(t, Row) /\ loaded' = at /\ visible' = at
        /\ rows' = Appended(view, at, t, Row) /\ UNCHANGED <<badge, page>> /\ phase' = "online"
    BY DEF Registered
  <1>4. /\ BuffersOK' /\ NewestKept
        /\ key'[t.buf] = Canon(t).spell /\ key'[t.buf] \in Spellings
        /\ store'[t.buf] = PushBounded(store[t.buf], Row)
        /\ \A b \in Buffers \ {t.buf} : key'[b] = key[b] /\ store'[b] = store[b]
    BY <1>1, <1>2, <1>3, PutKeeps DEF IInv
  <1>5. /\ at \in Targets /\ at.buf = current.buf /\ at.buf \in Buffers /\ at.spell # NoKey
        /\ at.spell = IF key[at.buf] = NoKey THEN current.spell ELSE key[at.buf]
    <2>1. at \in Targets /\ at.buf = current.buf
          /\ at.spell = IF key[current.buf] = NoKey THEN current.spell ELSE key[current.buf]
      BY CanonFacts DEF IInv, ModelOK
    <2> HIDE DEF at
    <2> QED BY <2>1, TargetFacts
  <1> HIDE DEF at, t
  <1>6. view \in Seq(Nat) /\ view = store[at.buf]
    <2>1. view = IF key[at.buf] = at.spell THEN store[at.buf] ELSE <<>> BY DEF Get
    <2>2. key[at.buf] = NoKey => store[at.buf] = <<>> BY <1>5 DEF IInv, BuffersOK
    <2>3. view = store[at.buf] BY <1>5, <2>1, <2>2
    <2> QED BY <1>5, <2>3 DEF IInv, BuffersOK
  <1> HIDE DEF view
  <1>7. /\ rows' \in Seq(Nat)
        /\ key'[at.buf] = NoKey => rows' = <<>>
        /\ key'[at.buf] = at.spell => rows' = store'[at.buf]
    <2>1. CASE at.buf # t.buf
      <3>1. key'[at.buf] = key[at.buf] /\ store'[at.buf] = store[at.buf] BY <1>4, <1>5, <2>1
      <3>2. rows' = view BY <1>3, <2>1 DEF Appended
      <3>3. key[at.buf] = NoKey => store[at.buf] = <<>> BY <1>5 DEF IInv, BuffersOK
      <3> QED BY <1>6, <3>1, <3>2, <3>3
    <2>2. CASE at.buf = t.buf
      <3>1. at = t BY <1>2, <1>5, <2>2, TargetFacts DEF t
      <3>2. key'[at.buf] = at.spell
        <4>1. key'[Console] \in {NoKey, t.spell} BY <1>4 DEF BuffersOK, t
        <4> QED BY <1>2, <1>4, <3>1, <4>1, StoreAssumption
      <3>3. Get(key', store', at) = PushBounded(view, Row) BY <1>4, <1>6, <2>2, <3>2 DEF Get
      <3>4. rows' = store'[at.buf]
        BY <1>1, <1>3, <1>4, <1>6, <2>2, <3>3, AppendedIsThePush
      <3>5. rows' \in Seq(Nat) BY <1>4, <1>5, <3>4 DEF BuffersOK
      <3> QED BY <1>5, <3>2, <3>4, <3>5
    <2> QED BY <2>1, <2>2
  <1>8. ModelOK' BY <1>3, <1>5, <1>7, EmptySeq DEF IInv, ModelOK, page
  <1>9. RestOK' BY <1>1, <1>3 DEF IInv, RestOK, badge, page
  <1> QED BY <1>4, <1>8, <1>9 DEF Kept, IInv

LEMMA DisconnectedKeeps == ASSUME IInv, NEW said \in BOOLEAN, Disconnected(said) PROVE Kept
  <1> DEFINE last == IF said THEN <<Row>> ELSE <<>>
  <1>1. Row \in Nat BY RowFacts DEF IInv
  <1>2. last \in Seq(Nat) /\ Len(last) <= 1 /\ Len(last) \in Nat /\ (~said => last = <<>>)
    BY <1>1
  <1>3. /\ phase # "offline" /\ phase' = "offline" /\ NewRows(Len(last)) /\ ToConsole
        /\ key' = [b \in Buffers |-> IF b = Console /\ said THEN ServerBuffer.spell ELSE NoKey]
        /\ store' = [b \in Buffers |-> IF b = Console THEN last ELSE <<>>]
        /\ unread' = [b \in Buffers |-> 0]
        /\ loaded' = ServerBuffer /\ visible' = ServerBuffer /\ rows' = last
        /\ UNCHANGED unreadCount
    BY DEF Disconnected
  <1> HIDE DEF last
  <1>4. lines' \in 0..MaxLines BY <1>2, <1>3, RowFacts DEF IInv
  <1>5. /\ Console \in Buffers /\ ServerBuffer.spell \in Spellings /\ ServerBuffer.buf = Console
        /\ NoKey \notin Spellings /\ ServerBuffer \in Targets
    BY TargetFacts, StoreAssumption
  <1>6. <<>> \in Seq(Nat) /\ Len(<<>>) = 0 /\ 0 <= MaxRows /\ 1 <= MaxRows BY EmptySeq, StoreAssumption
  <1>7. BuffersOK'
    <2>1. key' \in [Buffers -> Spellings \cup {NoKey}] /\ store' \in [Buffers -> Seq(Nat)]
      BY <1>2, <1>3, <1>5, <1>6
    <2>2. \A b \in Buffers : Len(store'[b]) <= MaxRows
      <3>1. Len(last) <= MaxRows BY <1>2, StoreAssumption
      <3> QED BY <1>3, <1>6, <3>1
    <2>3. \A b \in Buffers : key'[b] = NoKey => store'[b] = <<>> BY <1>2, <1>3, <1>5
    <2>4. key'[Console] \in {NoKey, ServerBuffer.spell} BY <1>3, <1>5
    <2> QED BY <2>1, <2>2, <2>3, <2>4 DEF BuffersOK
  <1>8. ModelOK'
    <2>1. current' = ServerBuffer BY <1>3 DEF ToConsole
    <2>2. rows' = store'[Console] BY <1>3, <1>5
    <2>3. phase' # "online" BY <1>3
    <2> QED BY <1>2, <1>3, <1>5, <2>1, <2>2, <2>3 DEF ModelOK
  <1>9. RestOK' BY <1>3, <1>4, <1>5 DEF IInv, RestOK, ToConsole
  <1>10. phase' # phase BY <1>3
  <1> QED BY <1>7, <1>8, <1>9, <1>10 DEF Kept, IInv

\* The console is loaded afresh.
LEMMA ToConsoleKeeps ==
  ASSUME BuffersOK', ToConsole, Load(ServerBuffer)
  PROVE  ModelOK' /\ open' \subseteq Targets
  <1>1. current' = ServerBuffer /\ open' = {ServerBuffer} BY DEF ToConsole
  <1>2. current' \in Targets /\ current'.buf = ServerBuffer.buf BY <1>1, TargetFacts
  <1> QED BY <1>1, <1>2, TargetFacts, LoadKeeps

LEMMA FailedKeeps == ASSUME IInv, Failed PROVE Kept
  <1>1. BuffersOK' /\ NewestKept BY SameIsKept DEF IInv, Failed, buffers, BuffersOK
  <1>2. ModelOK' /\ open' \subseteq Targets BY <1>1, ToConsoleKeeps DEF Failed
  <1>3. unread' \in [Buffers -> Nat] /\ unreadCount' \in Nat
    BY TargetFacts DEF IInv, RestOK, Failed, MarkBufferRead
  <1>4. RestOK' BY <1>2, <1>3 DEF IInv, RestOK, Failed
  <1> QED BY <1>1, <1>2, <1>4 DEF Kept, IInv

LEMMA ConnectServerKeeps == ASSUME IInv, ConnectServer PROVE Kept
  <1>1. BuffersOK' /\ NewestKept BY ClearKeeps DEF ConnectServer
  <1>2. ModelOK'
    <2>1. loaded.buf \in Buffers /\ loaded.spell # NoKey BY TargetFacts DEF IInv, ModelOK
    <2>2. key'[loaded.buf] = NoKey BY <2>1 DEF ConnectServer, ClearAllStores
    <2> QED BY <2>1, <2>2 DEF IInv, ModelOK, ConnectServer, page
  <1>3. RestOK' BY DEF IInv, RestOK, ConnectServer, ClearAllStores, page
  <1> QED BY <1>1, <1>2, <1>3 DEF Kept, IInv

LEMMA DisconnectServerKeeps == ASSUME IInv, DisconnectServer PROVE Kept
  <1>1. BuffersOK' /\ NewestKept BY ClearKeeps DEF DisconnectServer
  <1>2. ModelOK' /\ open' \subseteq Targets BY <1>1, ToConsoleKeeps DEF DisconnectServer
  <1>3. RestOK' BY <1>2 DEF IInv, RestOK, DisconnectServer, ClearAllStores
  <1> QED BY <1>1, <1>2, <1>3 DEF Kept, IInv

LEMMA OpenBufferKeeps == ASSUME IInv, NEW t \in Targets, OpenBuffer(t) PROVE Kept
  <1>1. BuffersOK' /\ NewestKept BY SameIsKept DEF IInv, OpenBuffer, buffers, BuffersOK
  <1>2. open' \subseteq Targets BY ListFacts DEF IInv, RestOK, OpenBuffer
  <1>3. ModelOK' /\ unread' \in [Buffers -> Nat] /\ unreadCount' \in Nat
    BY <1>1, <1>2, OpenChannelKeeps DEF IInv, OpenBuffer
  <1>4. RestOK' BY <1>2, <1>3 DEF IInv, RestOK, OpenBuffer
  <1> QED BY <1>1, <1>3, <1>4 DEF Kept, IInv

LEMMA CloseBufferKeeps == ASSUME IInv, NEW t \in Targets, CloseBuffer(t) PROVE Kept
  <1>1. BuffersOK' /\ NewestKept BY SameIsKept DEF IInv, CloseBuffer, buffers, BuffersOK
  <1>2. open' \subseteq Targets BY ListFacts DEF IInv, RestOK, CloseBuffer
  <1>3. ModelOK' /\ unread' \in [Buffers -> Nat] /\ unreadCount' \in Nat
    <2>1. CASE current.buf = t.buf
      BY <1>1, <1>2, <2>1, TargetFacts, OpenChannelKeeps DEF IInv, CloseBuffer
    <2>2. CASE current.buf # t.buf
      <3>1. UNCHANGED <<buffers, phase, badge, current, model>> BY <2>2 DEF CloseBuffer
      <3> QED BY <3>1 DEF IInv, ModelOK, RestOK, buffers, badge, model
    <2> QED BY <2>1, <2>2
  <1>4. RestOK' BY <1>2, <1>3 DEF IInv, RestOK, CloseBuffer
  <1> QED BY <1>1, <1>3, <1>4 DEF Kept, IInv

LEMMA ClearBufferKeeps == ASSUME IInv, Clear PROVE Kept
  <1>1. current \in Targets /\ current.buf \in Buffers BY TargetFacts DEF IInv, ModelOK
  <1>2. <<>> \in Seq(Nat) /\ Len(<<>>) = 0 /\ 0 <= MaxRows BY EmptySeq, StoreAssumption
  <1>3. /\ key' = [key EXCEPT ![current.buf] = NoKey] /\ store' = [store EXCEPT ![current.buf] = <<>>]
        /\ Load(current) /\ UNCHANGED <<badge, page, phase, lines>>
    BY DEF Clear
  <1>4. BuffersOK'
    <2>1. Console \in Buffers BY TargetFacts
    <2> QED BY <1>1, <1>2, <1>3, <2>1 DEF IInv, BuffersOK
  <1>5. NewestKept
    <2> SUFFICES ASSUME NEW b \in Buffers, Len(store[b]) > 0, store'[b] # <<>>
                 PROVE  \E i \in DOMAIN store'[b] : store'[b][i] = store[b][Len(store[b])]
      BY DEF NewestKept
    <2>1. store[b] \in Seq(Nat) /\ store'[b] = store[b] BY <1>1, <1>3 DEF IInv, BuffersOK
    <2>2. Len(store[b]) \in DOMAIN store[b] BY <2>1, LenProperties
    <2> QED BY <2>1, <2>2
  <1>6. current' = current BY <1>3 DEF page
  <1>7. ModelOK' BY <1>1, <1>3, <1>4, <1>6, LoadKeeps
  <1>8. RestOK' BY <1>3 DEF IInv, RestOK, badge, page
  <1> QED BY <1>4, <1>5, <1>7, <1>8 DEF Kept, IInv

LEMMA MarkReadKeeps == ASSUME IInv, MarkRead PROVE Kept
  <1>1. BuffersOK' /\ NewestKept BY SameIsKept DEF IInv, MarkRead, buffers, BuffersOK
  <1>2. ModelOK' BY DEF IInv, ModelOK, MarkRead, buffers, page, model
  <1>3. RestOK' BY DEF IInv, RestOK, MarkRead, page
  <1> QED BY <1>1, <1>2, <1>3 DEF Kept, IInv

LEMMA InitKeeps == Init => IInv
  <1> SUFFICES ASSUME Init PROVE IInv OBVIOUS
  <1>1. <<>> \in Seq(Nat) /\ Len(<<>>) = 0 /\ 0 <= MaxRows /\ 0 \in 0..MaxLines
    BY EmptySeq, StoreAssumption
  <1>2. Console \in Buffers BY TargetFacts
  <1>3. BuffersOK BY <1>1, <1>2 DEF Init, BuffersOK
  <1>4. ModelOK BY <1>1, <1>2, TargetFacts DEF Init, ModelOK
  <1>5. RestOK BY <1>1, TargetFacts DEF Init, RestOK
  <1> QED BY <1>3, <1>4, <1>5 DEF IInv

LEMMA NextKeeps == IInv /\ [Next]_vars => Kept
  <1> SUFFICES ASSUME IInv, [Next]_vars PROVE Kept OBVIOUS
  <1>1. CASE Events
    BY <1>1, EventLineKeeps, JoinedKeeps, PartedKeeps, JoinFailedKeeps, MsgKeeps, HistoryBatchKeeps,
       CommandReplyKeeps, RegisteredKeeps, FailedKeeps, DisconnectedKeeps
    DEF Events
  <1>2. CASE Calls
    BY <1>2, OpenBufferKeeps, CloseBufferKeeps, ConnectServerKeeps, DisconnectServerKeeps,
       ClearBufferKeeps, MarkReadKeeps
    DEF Calls
  <1>3. CASE UNCHANGED vars
    <2>1. BuffersOK' /\ NewestKept BY <1>3, SameIsKept DEF IInv, BuffersOK, vars, buffers
    <2>2. ModelOK' BY <1>3 DEF IInv, ModelOK, vars, buffers, page, model
    <2>3. RestOK' BY <1>3 DEF IInv, RestOK, vars, badge, page
    <2> QED BY <2>1, <2>2, <2>3 DEF Kept, IInv
  <1> QED BY <1>1, <1>2, <1>3 DEF Next

-----------------------------------------------------------------------------
(* The badge *)

\* While a session is up the page shows a buffer; the buffer it is on has no count, and
\* while a session is on, the badge is the number of counted messages.
BadgeOK ==
  /\ Online => visible # Nowhere
  /\ unread[current.buf] = 0
  /\ IsFiniteSet(Counted(unread))
  /\ phase # "offline" => unreadCount = Cardinality(Counted(unread))

LEMMA CountedPairs ==
  ASSUME NEW un \in [Buffers -> Nat], NEW p
  PROVE  p \in Counted(un) <=> \E b \in Buffers : \E i \in 1..un[b] : p = <<b, i>>
  BY DEF Counted

\* A message more in one buffer is one more on the badge.
LEMMA OneMore ==
  ASSUME NEW un \in [Buffers -> Nat], NEW b \in Buffers, IsFiniteSet(Counted(un))
  PROVE  LET more == [un EXCEPT ![b] = @ + 1]
         IN  /\ IsFiniteSet(Counted(more))
             /\ Cardinality(Counted(more)) = Cardinality(Counted(un)) + 1
  <1> DEFINE more == [un EXCEPT ![b] = @ + 1]
             last == <<b, un[b] + 1>>
  <1>1. un[b] \in Nat OBVIOUS
  <1>2. more \in [Buffers -> Nat] /\ more[b] = un[b] + 1 /\ \A c \in Buffers \ {b} : more[c] = un[c]
    BY <1>1
  <1>3. \A i : i \in 1..(un[b] + 1) <=> i \in 1..un[b] \/ i = un[b] + 1
    BY <1>1
  <1> HIDE DEF more
  <1>4. ASSUME NEW p PROVE p \in Counted(more) <=> p \in Counted(un) \/ p = last
    <2>1. p \in Counted(more) <=> \E c \in Buffers : \E i \in 1..more[c] : p = <<c, i>>
      BY <1>2, CountedPairs
    <2>2. p \in Counted(un) <=> \E c \in Buffers : \E i \in 1..un[c] : p = <<c, i>>
      BY CountedPairs
    <2> QED BY <1>2, <1>3, <2>1, <2>2
  <1>5. last \notin Counted(un)
    <2>1. last \in Counted(un) <=> \E c \in Buffers : \E i \in 1..un[c] : last = <<c, i>>
      BY CountedPairs
    <2>2. \A i \in 1..un[b] : i # un[b] + 1
      BY <1>1
    <2> QED BY <2>1, <2>2
  <1>6. Counted(more) = Counted(un) \cup {last}
    BY <1>4
  <1> HIDE DEF last
  <1>7. /\ IsFiniteSet(Counted(un) \cup {last})
        /\ Cardinality(Counted(un) \cup {last}) = Cardinality(Counted(un)) + 1
    BY <1>5, FS_AddElement
  <1>8. IsFiniteSet(Counted(more)) /\ Cardinality(Counted(more)) = Cardinality(Counted(un)) + 1
    BY <1>6, <1>7
  <1> QED BY <1>8 DEF more

\* A buffer that is read takes its messages off the badge.
LEMMA OneRead ==
  ASSUME NEW un \in [Buffers -> Nat], NEW b \in Buffers, IsFiniteSet(Counted(un))
  PROVE  LET less == [un EXCEPT ![b] = 0]
         IN  /\ IsFiniteSet(Counted(less)) /\ Cardinality(Counted(less)) \in Nat
             /\ Cardinality(Counted(un)) = Cardinality(Counted(less)) + un[b]
  <1> DEFINE less == [un EXCEPT ![b] = 0]
             mine == {b} \X (1..un[b])
  <1>1. un[b] \in Nat OBVIOUS
  <1>2. less \in [Buffers -> Nat] /\ less[b] = 0 /\ \A c \in Buffers \ {b} : less[c] = un[c]
    OBVIOUS
  <1>3. 1..0 = {} OBVIOUS
  <1> HIDE DEF less
  <1>4. ASSUME NEW p
        PROVE  /\ p \in Counted(un) <=> p \in Counted(less) \/ p \in mine
               /\ ~(p \in Counted(less) /\ p \in mine)
    <2>1. p \in Counted(less) <=> \E c \in Buffers : \E i \in 1..less[c] : p = <<c, i>>
      BY <1>2, CountedPairs
    <2>2. p \in Counted(un) <=> \E c \in Buffers : \E i \in 1..un[c] : p = <<c, i>>
      BY CountedPairs
    <2>3. p \in mine <=> \E i \in 1..un[b] : p = <<b, i>>
      OBVIOUS
    <2> QED BY <1>2, <1>3, <2>1, <2>2, <2>3
  <1>5. IsFiniteSet(mine) /\ Cardinality(mine) = un[b]
    <2>1. IsFiniteSet({b}) /\ Cardinality({b}) = 1
      BY FS_Singleton
    <2>2. IsFiniteSet(1..un[b]) /\ Cardinality(1..un[b]) = un[b]
      BY <1>1, FS_Interval
    <2>3. IsFiniteSet(mine) /\ Cardinality(mine) = Cardinality({b}) * Cardinality(1..un[b])
      BY <2>1, <2>2, FS_Product
    <2> QED BY <1>1, <2>1, <2>2, <2>3
  <1> HIDE DEF mine
  <1>6. IsFiniteSet(Counted(less)) /\ Cardinality(Counted(less)) \in Nat
    <2>1. Counted(less) \in SUBSET Counted(un)
      BY <1>4
    <2> QED BY <2>1, FS_Subset, FS_CardinalityType
  <1>7. Counted(un) = Counted(less) \cup mine /\ Counted(less) \cap mine = {}
    BY <1>4
  <1>8. Cardinality(Counted(un)) = Cardinality(Counted(less)) + Cardinality(mine) - Cardinality({})
    BY <1>5, <1>6, <1>7, FS_Union
  <1>9. Cardinality(Counted(un)) = Cardinality(Counted(less)) + un[b]
    BY <1>1, <1>5, <1>6, <1>8, FS_EmptySet
  <1> QED BY <1>6, <1>9 DEF less

LEMMA AllRead ==
  LET none == [b \in Buffers |-> 0]
  IN  IsFiniteSet(Counted(none)) /\ Cardinality(Counted(none)) = 0
  <1> DEFINE none == [b \in Buffers |-> 0]
  <1>1. none \in [Buffers -> Nat] /\ \A b \in Buffers : none[b] = 0
    OBVIOUS
  <1>2. 1..0 = {} OBVIOUS
  <1> HIDE DEF none
  <1>3. ASSUME NEW p PROVE p \notin Counted(none)
    BY <1>1, <1>2, CountedPairs
  <1>4. Counted(none) = {} BY <1>3
  <1> QED BY <1>4, FS_EmptySet DEF none

LEMMA TakenOff ==
  ASSUME NEW d \in Nat, NEW n \in Nat, NEW c, c = d + n
  PROVE  (IF c > n THEN c - n ELSE 0) = d
  OBVIOUS

\* MarkBufferRead takes off what the buffer had, if the badge was right.
LEMMA MarkedRead ==
  ASSUME RestOK, BadgeOK, NEW b \in Buffers, MarkBufferRead(unread, unreadCount, b)
  PROVE  /\ unread'[b] = 0 /\ IsFiniteSet(Counted(unread'))
         /\ phase # "offline" => unreadCount' = Cardinality(Counted(unread'))
  <1>1. unread \in [Buffers -> Nat] /\ unread[b] \in Nat
    BY DEF RestOK
  <1>2. unread' = [unread EXCEPT ![b] = 0]
    BY DEF MarkBufferRead
  <1>3. unreadCount' = IF unreadCount > unread[b] THEN unreadCount - unread[b] ELSE 0
    BY DEF MarkBufferRead
  <1>4. IsFiniteSet(Counted(unread))
    BY DEF BadgeOK
  <1>5. /\ IsFiniteSet(Counted(unread')) /\ Cardinality(Counted(unread')) \in Nat
        /\ Cardinality(Counted(unread)) = Cardinality(Counted(unread')) + unread[b]
    BY <1>1, <1>2, <1>4, OneRead
  <1>6. ASSUME phase # "offline"
        PROVE  unreadCount' = Cardinality(Counted(unread'))
    <2>1. unreadCount = Cardinality(Counted(unread')) + unread[b]
      BY <1>5, <1>6 DEF BadgeOK
    <2> QED BY <1>1, <1>3, <1>5, <2>1, TakenOff
  <1> QED BY <1>1, <1>2, <1>5, <1>6

\* openChannel reads the buffer the page is on then, and puts it on screen.
LEMMA OpenChannelBadge ==
  ASSUME RestOK, BadgeOK, NEW t \in Targets, open' \subseteq Targets, OpenChannel(t), ModelOK',
         UNCHANGED phase
  PROVE  BadgeOK'
  <1>1. t.buf \in Buffers BY TargetFacts
  <1>2. MarkBufferRead(unread, unreadCount, t.buf) /\ Load(current')
    BY DEF OpenChannel
  <1>3. current'.buf = t.buf
    <2>1. current' = Existing(open', t) BY DEF OpenChannel
    <2>2. CASE \E o \in open' : o.buf = t.buf BY <2>1, <2>2 DEF Existing
    <2>3. CASE ~\E o \in open' : o.buf = t.buf BY <2>1, <2>3 DEF Existing
    <2> QED BY <2>2, <2>3
  <1>4. /\ unread'[t.buf] = 0 /\ IsFiniteSet(Counted(unread'))
        /\ phase # "offline" => unreadCount' = Cardinality(Counted(unread'))
    BY <1>1, <1>2, MarkedRead
  <1>5. visible' # Nowhere
    <2>1. visible' = loaded' /\ loaded' \in Targets BY <1>2 DEF Load, ModelOK
    <2> QED BY <2>1, TargetFacts
  <1> QED BY <1>3, <1>4, <1>5 DEF BadgeOK

\* A step that leaves the counts and the page where they are.
LEMMA SameBadge ==
  ASSUME BadgeOK, UNCHANGED <<badge, current>>, Online' => visible' # Nowhere,
         phase = "offline" => phase' = "offline"
  PROVE  BadgeOK'
  BY DEF BadgeOK, badge

LEMMA MsgBadge ==
  ASSUME IInv, BadgeOK, NEW t \in Targets, NEW self \in BOOLEAN, Msg(t, self)
  PROVE  BadgeOK'
  <1>1. /\ unread \in [Buffers -> Nat] /\ unreadCount \in Nat
        /\ t.buf \in Buffers
    BY TargetFacts DEF IInv, RestOK
  <1>2. /\ Online /\ BumpUnread(t, self) /\ UNCHANGED <<visible, current, phase>>
    BY DEF Msg, Receive
  <1>3. visible # Nowhere /\ visible.buf = current.buf
    BY <1>2 DEF BadgeOK, IInv, ModelOK
  <1>4. CASE UNCHANGED <<unread, unreadCount>>
    BY <1>2, <1>3, <1>4 DEF BadgeOK
  <1>5. CASE t.buf # current.buf /\ unread' = [unread EXCEPT ![t.buf] = @ + 1]
             /\ unreadCount' = unreadCount + 1
    <2>1. IsFiniteSet(Counted(unread)) /\ unreadCount = Cardinality(Counted(unread))
      BY <1>2 DEF BadgeOK, Online
    <2>2. /\ IsFiniteSet(Counted(unread'))
          /\ Cardinality(Counted(unread')) = Cardinality(Counted(unread)) + 1
      BY <1>1, <1>5, <2>1, OneMore
    <2>3. Cardinality(Counted(unread)) \in Nat
      BY <2>1, FS_CardinalityType
    <2>4. unreadCount' = Cardinality(Counted(unread'))
      BY <1>1, <1>2, <1>5, <2>1, <2>2, <2>3
    <2>5. current.buf \in Buffers /\ unread'[current.buf] = 0
      BY <1>5, TargetFacts DEF BadgeOK, IInv, ModelOK, RestOK
    <2> QED BY <1>2, <1>3, <2>2, <2>4, <2>5 DEF BadgeOK
  <1> QED BY <1>2, <1>3, <1>4, <1>5 DEF BumpUnread

\* After a step that clears every count, unread_count with them or at the end.
LEMMA ClearedBadge ==
  ASSUME unread' = [b \in Buffers |-> 0], unreadCount' = 0 \/ phase' = "offline",
         current'.buf \in Buffers, Online' => visible' # Nowhere
  PROVE  BadgeOK'
  <1>1. IsFiniteSet(Counted(unread')) /\ Cardinality(Counted(unread')) = 0
    BY AllRead
  <1>2. unread'[current'.buf] = 0
    OBVIOUS
  <1> QED BY <1>1, <1>2 DEF BadgeOK

LEMMA EventsBadge == ASSUME IInv, BadgeOK, IInv', Events PROVE BadgeOK'
  <1>1. ASSUME NEW t \in Targets, EventLine(t) \/ JoinFailed(t) PROVE BadgeOK'
    BY <1>1, SameBadge DEF EventLine, JoinFailed, Receive, page, badge, BadgeOK, Online
  <1>2. ASSUME NEW t \in Targets, Joined(t) PROVE BadgeOK'
    BY <1>2, OpenChannelBadge DEF IInv, RestOK, Joined
  <1>3. ASSUME NEW t \in Targets, Parted(t) PROVE BadgeOK'
    <2>1. CASE OpenChannel(ServerBuffer)
      BY <1>3, <2>1, TargetFacts, OpenChannelBadge DEF IInv, RestOK, Parted
    <2>2. CASE UNCHANGED <<badge, current, model>>
      BY <1>3, <2>2, SameBadge DEF Parted, model, BadgeOK, Online
    <2> QED BY <1>3, <2>1, <2>2 DEF Parted
  <1>4. ASSUME NEW t \in Targets, NEW n \in 0..MaxBatch, HistoryBatch(t, n) PROVE BadgeOK'
    BY <1>4, SameBadge DEF HistoryBatch, page, BadgeOK, Online
  <1>5. CASE CommandReply
    BY <1>5, SameBadge DEF CommandReply, Receive, page, BadgeOK, Online
  <1>6. CASE Registered
    <2>1. visible' = loaded' /\ loaded' \in Targets BY <1>6 DEF Registered, IInv, ModelOK
    <2>2. visible' # Nowhere BY <2>1, TargetFacts
    <2> QED BY <1>6, <2>2, SameBadge DEF Registered, page
  <1>7. CASE Failed
    <2>1. /\ MarkBufferRead(unread, unreadCount, Console)
          /\ current' = ServerBuffer /\ phase' = "offline"
      BY <1>7 DEF Failed, ToConsole
    <2>2. Console \in Buffers /\ ServerBuffer.buf = Console BY TargetFacts
    <2>3. unread'[Console] = 0 /\ IsFiniteSet(Counted(unread'))
      BY <2>1, <2>2, MarkedRead DEF IInv
    <2> QED BY <2>1, <2>2, <2>3 DEF BadgeOK, Online
  <1>8. ASSUME NEW said \in BOOLEAN, Disconnected(said) PROVE BadgeOK'
    <2>1. /\ unread' = [b \in Buffers |-> 0]
          /\ current' = ServerBuffer /\ phase' = "offline"
      BY <1>8 DEF Disconnected, ToConsole
    <2> QED BY <2>1, TargetFacts, ClearedBadge DEF Online
  <1> QED BY <1>1, <1>2, <1>3, <1>4, <1>5, <1>6, <1>7, <1>8, MsgBadge DEF Events

LEMMA CallsBadge == ASSUME IInv, BadgeOK, IInv', Calls PROVE BadgeOK'
  <1>1. ASSUME NEW t \in Targets, OpenBuffer(t) PROVE BadgeOK'
    BY <1>1, OpenChannelBadge DEF IInv, RestOK, OpenBuffer
  <1>2. ASSUME NEW t \in Targets, CloseBuffer(t) PROVE BadgeOK'
    <2>1. CASE OpenChannel(ServerBuffer)
      BY <1>2, <2>1, TargetFacts, OpenChannelBadge DEF IInv, RestOK, CloseBuffer
    <2>2. CASE UNCHANGED <<badge, current, model>>
      BY <1>2, <2>2, SameBadge DEF CloseBuffer, model, BadgeOK, Online
    <2> QED BY <1>2, <2>1, <2>2 DEF CloseBuffer
  <1>3. CASE ConnectServer
    <2>1. /\ unread' = [b \in Buffers |-> 0] /\ unreadCount' = 0
          /\ current' = current /\ phase' = "connecting"
      BY <1>3 DEF ConnectServer, ClearAllStores, page
    <2>2. current.buf \in Buffers BY TargetFacts DEF IInv, ModelOK
    <2> QED BY <2>1, <2>2, ClearedBadge DEF Online
  <1>4. CASE DisconnectServer
    <2>1. /\ unread' = [b \in Buffers |-> 0] /\ unreadCount' = 0
          /\ current' = ServerBuffer /\ phase' = "offline"
      BY <1>4 DEF DisconnectServer, ClearAllStores, ToConsole
    <2> QED BY <2>1, TargetFacts, ClearedBadge DEF Online
  <1>5. CASE Clear
    <2>1. visible' = loaded' /\ loaded' \in Targets BY <1>5 DEF Clear, Load, IInv, ModelOK
    <2>2. visible' # Nowhere BY <2>1, TargetFacts
    <2> QED BY <1>5, <2>2, SameBadge DEF Clear, page
  <1>6. CASE MarkRead
    <2>1. /\ unread' = [b \in Buffers |-> 0] /\ unreadCount' = 0
          /\ current' = current /\ visible' = visible /\ phase' = phase
      BY <1>6 DEF MarkRead, page, model
    <2>2. current.buf \in Buffers BY TargetFacts DEF IInv, ModelOK
    <2> QED BY <2>1, <2>2, ClearedBadge DEF BadgeOK, Online
  <1> QED BY <1>1, <1>2, <1>3, <1>4, <1>5, <1>6 DEF Calls

LEMMA InitBadge == Init => BadgeOK
  <1>1. IsFiniteSet(Counted([b \in Buffers |-> 0])) /\ Cardinality(Counted([b \in Buffers |-> 0])) = 0
    BY AllRead
  <1>2. ServerBuffer.buf \in Buffers BY TargetFacts
  <1> SUFFICES ASSUME Init PROVE BadgeOK OBVIOUS
  <1>3. unread = [b \in Buffers |-> 0] /\ unreadCount = 0
        /\ current = ServerBuffer /\ phase = "offline"
    BY DEF Init
  <1>4. unread[current.buf] = 0 BY <1>2, <1>3
  <1> QED BY <1>1, <1>3, <1>4 DEF BadgeOK, Online

-----------------------------------------------------------------------------
(* Theorems *)

THEOREM Inductive == Spec => []IInv
  <1>1. Init => IInv BY InitKeeps
  <1>2. IInv /\ [Next]_vars => IInv' BY NextKeeps DEF Kept
  <1> QED BY <1>1, <1>2, PTL DEF Spec

\* Every state of STORE, the badge, the page and the model is well typed, and no buffer
\* outgrows MAX_BUFFER_ROWS (push_bounded and HistoryBatch).
THEOREM TypeCorrect == Spec => []TypeOK
  <1>1. IInv => TypeOK
    BY DEF IInv, BuffersOK, ModelOK, RestOK, TypeOK
  <1> QED BY <1>1, Inductive, PTL

\* append_message and prepend_history, which count rows, keep the model equal to the
\* buffer it was loaded from, through pruning, history, drops and reconnects.
THEOREM ViewIsTheBufferHolds == Spec => []ViewIsTheBuffer
  <1>1. IInv => ViewIsTheBuffer
    BY DEF IInv, ModelOK, ViewIsTheBuffer
  <1> QED BY <1>1, Inductive, PTL

\* No push and no history batch costs a buffer its newest row.
THEOREM NewestRowStaysHolds == Spec => NewestRowStays
  <1> DEFINE Stays == phase' = phase => \A b \in Buffers :
               LET n == Len(store[b])
               IN n > 0 /\ store'[b] # <<>> => \E i \in DOMAIN store'[b] : store'[b][i] = store[b][n]
  <1>1. IInv /\ [Next]_vars => [Stays]_vars
    BY NextKeeps DEF Kept, NewestKept
  <1>2. Spec => [][Stays]_vars
    BY <1>1, Inductive, PTL DEF Spec
  <1> QED BY <1>2 DEF NewestRowStays

\* The buffer on screen has no count, and while a session is on unread_count, which is
\* kept beside the map of counts, is their sum, through every click and reconnect.
THEOREM BadgeOfASessionHolds == Spec => []BadgeOfASession
  <1>1. Init => BadgeOK BY InitBadge
  <1>2. IInv /\ IInv' /\ BadgeOK /\ [Next]_vars => BadgeOK'
    <2> SUFFICES ASSUME IInv, IInv', BadgeOK, [Next]_vars PROVE BadgeOK' OBVIOUS
    <2>1. CASE UNCHANGED vars BY <2>1, SameBadge DEF vars, page, model, BadgeOK, Online
    <2> QED BY <2>1, EventsBadge, CallsBadge DEF Next
  <1>3. IInv /\ BadgeOK => BadgeOfASession
    <2> SUFFICES ASSUME IInv, BadgeOK PROVE BadgeOfASession OBVIOUS
    <2>1. visible # Nowhere => visible.buf = current.buf BY DEF IInv, ModelOK
    <2> QED BY <2>1 DEF BadgeOK, BadgeOfASession
  <1> QED BY <1>1, <1>2, <1>3, Inductive, PTL DEF Spec

=============================================================================
