----------------------------- MODULE StringProof -----------------------------
(***************************************************************************)
(* String8, for any finite set of strings, texts and blocks of any size:    *)
(* the blocks count their owners, mCapacity is the size of the block where  *)
(* nothing failed, no other write overruns a block, and copies keep texts.  *)
(***************************************************************************)
EXTENDS String8, BlocksProof, WellFoundedInduction

StrObject == [buf : {Gone, None} \cup 0..MaxBlocks, cap : Nat, unsure : {"no", "memory", "shared"}]

-----------------------------------------------------------------------------
(* Strings on their blocks                                                  *)

CountOf(st, b) == Cardinality(OwnersIn(Strings, st, b))

\* The blocks count the strings on them, and the reference to block c that a call
\* holds and has not given to its string yet; the empty block has its one byte.
FitsWith(hp, st, c) ==
    /\ HeapOK(hp)
    /\ st \in [Strings -> StrObject]
    /\ Len(hp[Empty].bytes) = 1
    /\ \A b \in 0..MaxBlocks :
          hp[b].refs = CountOf(st, b) + (IF b = Empty THEN 1 ELSE 0) + (IF b = c THEN 1 ELSE 0)

Fits(hp, st) == FitsWith(hp, st, None)

\* What the other strings have stays.
OthersSame(st, hp, hp2, h) ==
    \A g \in Strings : g # h /\ st[g].buf >= Empty => hp2[st[g].buf].bytes = hp[st[g].buf].bytes

\* None and Gone are no blocks.
LEMMA NoBlockNumbers == /\ None \notin 0..MaxBlocks /\ Gone \notin 0..MaxBlocks /\ Empty \in 0..MaxBlocks
                        /\ None # Gone /\ None < Empty /\ Gone < Empty
  BY BlocksAssumption DEF None, Gone, Empty

LEMMA BufIs ==
  ASSUME NEW o \in StrObject
  PROVE  /\ o.buf >= Empty <=> o.buf \in 0..MaxBlocks
         /\ o.buf < Empty <=> o.buf \in {Gone, None}
         /\ o.buf \in Int /\ o.cap \in Nat /\ o.unsure \in {"no", "memory", "shared"}
  BY BlocksAssumption DEF StrObject, None, Gone, Empty

LEMMA CountIs == \A st, b : CountOf(st, b) \in Nat
<1>1. \A st, b : OwnersIn(Strings, st, b) \subseteq Strings
  BY DEF OwnersIn
<1> QED
  BY StringsAssumption, <1>1, FS_Subset, FS_CardinalityType DEF CountOf

LEMMA CountMoves ==
  ASSUME NEW st \in [Strings -> StrObject], NEW h \in Strings, NEW o2, NEW b
  PROVE  Moved(st[h].buf = b, o2.buf = b, CountOf(st, b), CountOf([st EXCEPT ![h] = o2], b))
<1>1. st = [x \in Strings |-> st[x]] /\ IsFiniteSet(Strings)
  BY StringsAssumption
<1> QED
  BY <1>1, OneOwnerMoves DEF CountOf

\* A string is on a block that is there; the reference of a call and the other
\* owners come on top.
LEMMA OnBlock ==
  ASSUME NEW hp, NEW st, NEW c, FitsWith(hp, st, c),
         NEW h \in Strings, NEW b \in 0..MaxBlocks, st[h].buf = b
  PROVE  /\ hp[b].refs \in Nat /\ hp[b].refs > 0
         /\ c = b => hp[b].refs > 1
         /\ b = Empty => hp[b].refs > 1
<1>1. Moved(TRUE, TRUE, CountOf(st, b), CountOf([st EXCEPT ![h] = st[h]], b))
  BY CountMoves DEF FitsWith
<1>2. CountOf(st, b) \in Nat /\ CountOf(st, b) > 0
  BY <1>1 DEF Moved
<1>3. hp[b].refs = CountOf(st, b) + (IF b = Empty THEN 1 ELSE 0) + (IF b = c THEN 1 ELSE 0)
  BY DEF FitsWith
<1> QED
  BY <1>2, <1>3

LEMMA Alone ==
  ASSUME NEW hp, NEW st, NEW c, FitsWith(hp, st, c),
         NEW g \in Strings, NEW h \in Strings, g # h,
         NEW b \in 0..MaxBlocks, st[h].buf = b, st[g].buf = b
  PROVE  hp[b].refs > 1
<1> DEFINE st1 == [st EXCEPT ![h] = NoString]
<1>1. NoString \in StrObject /\ NoString.buf # b
  BY NoBlockNumbers DEF NoString, StrObject
<1>2. st \in [Strings -> StrObject] /\ st1 \in [Strings -> StrObject] /\ st1[g].buf = b
  BY <1>1 DEF FitsWith
<1>3. Moved(TRUE, FALSE, CountOf(st, b), CountOf(st1, b))
  BY <1>1, <1>2, CountMoves, ZenonT(30)
<1> HIDE DEF st1
<1>4. Moved(TRUE, TRUE, CountOf(st1, b), CountOf([st1 EXCEPT ![g] = st1[g]], b))
  BY <1>2, CountMoves
<1>5. CountOf(st, b) \in Nat /\ CountOf(st, b) > 1
  BY <1>3, <1>4 DEF Moved
<1>6. hp[b].refs = CountOf(st, b) + (IF b = Empty THEN 1 ELSE 0) + (IF b = c THEN 1 ELSE 0)
  BY DEF FitsWith
<1> QED
  BY <1>5, <1>6

LEMMA EmptyThere ==
  ASSUME NEW hp, NEW st, Fits(hp, st), NEW h \in Strings
  PROVE  hp[Empty].refs > 0
<1>1. Moved(st[h].buf = Empty, st[h].buf = Empty, CountOf(st, Empty), CountOf([st EXCEPT ![h] = st[h]], Empty))
  BY CountMoves DEF Fits, FitsWith
<1>2. CountOf(st, Empty) \in Nat
  BY <1>1 DEF Moved
<1> QED
  BY <1>2, NoBlockNumbers DEF Fits, FitsWith

\* A call takes a reference, ...
LEMMA AcquireFits ==
  ASSUME NEW hp, NEW st, Fits(hp, st), NEW h, NEW b \in 0..MaxBlocks, hp[b].refs > 0
  PROVE  /\ FitsWith(Acquire(hp, b), st, b)
         /\ \A x \in 0..MaxBlocks : Acquire(hp, b)[x].bytes = hp[x].bytes
         /\ OthersSame(st, hp, Acquire(hp, b), h)
<1>1. PICK hp2 : hp2 = Acquire(hp, b)
  OBVIOUS
<1>2. /\ HeapOK(hp2) /\ hp2[b].refs = hp[b].refs + 1 /\ hp2[b].bytes = hp[b].bytes
      /\ \A x \in (0..MaxBlocks) \ {b} : hp2[x] = hp[x]
  BY <1>1, AcquireIs DEF Fits, FitsWith
<1>3. \A x \in 0..MaxBlocks : hp2[x].bytes = hp[x].bytes
  BY <1>2
<1>4. \A x \in 0..MaxBlocks : /\ hp[x].refs \in Nat /\ CountOf(st, x) \in Nat
                              /\ hp[x].refs = CountOf(st, x) + (IF x = Empty THEN 1 ELSE 0) + 0
  BY NoBlockNumbers, CountIs DEF Fits, FitsWith, HeapOK, Block
<1>5. FitsWith(hp2, st, b)
  <2> SUFFICES ASSUME NEW x \in 0..MaxBlocks
               PROVE  hp2[x].refs = CountOf(st, x) + (IF x = Empty THEN 1 ELSE 0) + (IF x = b THEN 1 ELSE 0)
    BY <1>2, <1>3, NoBlockNumbers DEF Fits, FitsWith
  <2>1. CASE x = b
    <3>1. hp2[x].refs = hp[x].refs + 1
      BY <1>2, <2>1
    <3> QED
      BY <1>4, <2>1, <3>1
  <2>2. CASE x # b
    BY <1>2, <1>4, <2>2
  <2> QED
    BY <2>1, <2>2
<1>6. OthersSame(st, hp, hp2, h)
  <2> SUFFICES ASSUME NEW g \in Strings, st[g].buf >= Empty PROVE hp2[st[g].buf].bytes = hp[st[g].buf].bytes
    BY DEF OthersSame
  <2>1. st[g].buf \in 0..MaxBlocks
    BY BufIs DEF Fits, FitsWith
  <2> QED
    BY <1>3, <2>1
<1> QED
  BY <1>1, <1>3, <1>5, <1>6

\* ... gets a block from malloc(), ...
LEMMA AllocFits ==
  ASSUME NEW hp, NEW st, Fits(hp, st), NEW h,
         NEW bytes \in Seq(Int), NEW r \in Alloc(hp, bytes), r.block # None
  PROVE  /\ r.block \in 1..MaxBlocks
         /\ FitsWith(r.heap, st, r.block)
         /\ r.heap[r.block].bytes = bytes /\ r.heap[r.block].refs = 1
         /\ OthersSame(st, hp, r.heap, h)
<1>1. PICK c \in 1..MaxBlocks : c = r.block /\ hp[c].refs = 0 /\ r.heap = [hp EXCEPT ![c] = [bytes |-> bytes, refs |-> 1]]
  <2>1. AllocOutcome(hp, bytes, r)
    BY AllocIs
  <2> QED
    BY <2>1 DEF AllocOutcome
<1>2. [bytes |-> bytes, refs |-> 1] \in Block
  BY DEF Block
<1>3. /\ HeapOK(r.heap) /\ r.heap[c] = [bytes |-> bytes, refs |-> 1]
      /\ \A x \in (0..MaxBlocks) \ {c} : r.heap[x] = hp[x]
  BY <1>1, <1>2 DEF Fits, FitsWith, HeapOK
<1>4. \A x \in 0..MaxBlocks : /\ hp[x].refs \in Nat /\ CountOf(st, x) \in Nat
                              /\ hp[x].refs = CountOf(st, x) + (IF x = Empty THEN 1 ELSE 0) + 0
  BY NoBlockNumbers, CountIs DEF Fits, FitsWith, HeapOK, Block
<1>5. FitsWith(r.heap, st, c)
  <2> SUFFICES ASSUME NEW x \in 0..MaxBlocks
               PROVE  r.heap[x].refs = CountOf(st, x) + (IF x = Empty THEN 1 ELSE 0) + (IF x = c THEN 1 ELSE 0)
    <3>1. r.heap[Empty] = hp[Empty]
      BY <1>3, NoBlockNumbers DEF Empty
    <3> QED
      BY <1>3, <3>1 DEF Fits, FitsWith
  <2>1. CASE x = c
    <3>1. CountOf(st, x) = 0 /\ x # Empty
      BY <1>1, <1>4, <2>1 DEF Empty
    <3>2. r.heap[x].refs = 1
      BY <1>3, <2>1
    <3> QED
      BY <2>1, <3>1, <3>2
  <2>2. CASE x # c
    BY <1>3, <1>4, <2>2
  <2> QED
    BY <2>1, <2>2
<1>6. OthersSame(st, hp, r.heap, h)
  <2> SUFFICES ASSUME NEW g \in Strings, st[g].buf >= Empty PROVE r.heap[st[g].buf].bytes = hp[st[g].buf].bytes
    BY DEF OthersSame
  <2>1. PICK x \in 0..MaxBlocks : x = st[g].buf
    BY BufIs DEF Fits, FitsWith
  <2>2. hp[x].refs > 0
    BY <2>1, OnBlock DEF Fits
  <2> QED
    BY <1>1, <1>3, <2>1, <2>2
<1> QED
  BY <1>1, <1>3, <1>5, <1>6

\* ... lets go of the block its string had, ...
LEMMA LetGoFits ==
  ASSUME NEW hp, NEW st, NEW c, FitsWith(hp, st, c), NEW h \in Strings, st[h].buf # Gone,
         NEW o2 \in StrObject, o2.buf < Empty
  PROVE  /\ FitsWith(LetGo(hp, st[h]), [st EXCEPT ![h] = o2], c)
         /\ OthersSame(st, hp, LetGo(hp, st[h]), h)
         /\ c \in 0..MaxBlocks => LetGo(hp, st[h])[c].bytes = hp[c].bytes
<1> DEFINE st2 == [st EXCEPT ![h] = o2]
<1>0. st \in [Strings -> StrObject] /\ st2 \in [Strings -> StrObject] /\ st[h] \in StrObject
  BY DEF FitsWith
<1>1. CASE st[h].buf = None
  <2>1. LetGo(hp, st[h]) = hp
    BY <1>1 DEF LetGo
  <2>2. ASSUME NEW x \in 0..MaxBlocks PROVE CountOf(st2, x) = CountOf(st, x) /\ CountOf(st, x) \in Nat
    <3>1. (st[h].buf = x) = FALSE /\ (o2.buf = x) = FALSE
      BY <1>1, BufIs, NoBlockNumbers
    <3>2. Moved(st[h].buf = x, o2.buf = x, CountOf(st, x), CountOf(st2, x))
      BY <1>0, CountMoves
    <3> HIDE DEF st2
    <3> QED
      BY <3>1, <3>2 DEF Moved
  <2>3. FitsWith(hp, st2, c)
    <3> HIDE DEF st2
    <3> QED
      BY <1>0, <2>2 DEF FitsWith
  <2> QED
    BY <2>1, <2>3 DEF OthersSame
<1>2. CASE st[h].buf # None
  <2>1. PICK b \in 0..MaxBlocks : b = st[h].buf
    BY <1>0, <1>2 DEF StrObject
  <2>2. PICK hp2 : hp2 = Release(hp, b)
    OBVIOUS
  <2>3. LetGo(hp, st[h]) = hp2
    BY <1>2, <2>1, <2>2 DEF LetGo
  <2>4. hp[b].refs \in Nat /\ hp[b].refs > 0 /\ (c = b => hp[b].refs > 1) /\ (b = Empty => hp[b].refs > 1)
    BY <2>1, OnBlock
  <2>5. /\ HeapOK(hp2) /\ hp2[b].refs = hp[b].refs - 1
        /\ hp[b].refs # 1 => hp2[b].bytes = hp[b].bytes
        /\ \A x \in (0..MaxBlocks) \ {b} : hp2[x] = hp[x]
    BY <2>2, <2>4, ReleaseIs DEF FitsWith
  <2>6. FitsWith(hp2, st2, c)
    <3>1. ASSUME NEW x \in 0..MaxBlocks
          PROVE  hp2[x].refs = CountOf(st2, x) + (IF x = Empty THEN 1 ELSE 0) + (IF x = c THEN 1 ELSE 0)
      <4>1. (o2.buf = x) = FALSE
        BY BufIs, NoBlockNumbers
      <4>2. Moved(st[h].buf = x, o2.buf = x, CountOf(st, x), CountOf(st2, x))
        BY <1>0, CountMoves
      <4>3. Moved(b = x, FALSE, CountOf(st, x), CountOf(st2, x))
        BY <2>1, <4>1, <4>2
      <4>4. hp[x].refs = CountOf(st, x) + (IF x = Empty THEN 1 ELSE 0) + (IF x = c THEN 1 ELSE 0)
        BY DEF FitsWith
      <4> HIDE DEF st2
      <4>5. CASE b = x
        BY <2>5, <4>3, <4>4, <4>5 DEF Moved
      <4>6. CASE b # x
        BY <2>5, <4>3, <4>4, <4>6 DEF Moved
      <4> QED
        BY <4>5, <4>6
    <3>2. hp2[Empty].bytes = hp[Empty].bytes
      BY <2>4, <2>5, NoBlockNumbers
    <3> HIDE DEF st2
    <3> QED
      BY <1>0, <2>5, <3>1, <3>2 DEF FitsWith
  <2>7. OthersSame(st, hp, hp2, h)
    <3> SUFFICES ASSUME NEW g \in Strings, g # h, st[g].buf >= Empty
                 PROVE  hp2[st[g].buf].bytes = hp[st[g].buf].bytes
      BY DEF OthersSame
    <3>1. PICK x \in 0..MaxBlocks : x = st[g].buf
      BY <1>0, BufIs
    <3>2. x = b => hp[b].refs > 1
      BY <2>1, <3>1, Alone
    <3> QED
      BY <2>5, <3>1, <3>2
  <2> QED
    BY <2>3, <2>4, <2>5, <2>6, <2>7
<1> QED
  BY <1>1, <1>2

\* ... and gives its own to the string.
LEMMA TakeFits ==
  ASSUME NEW hp, NEW st, NEW c \in 0..MaxBlocks, FitsWith(hp, st, c),
         NEW h \in Strings, st[h].buf < Empty, NEW o2 \in StrObject, o2.buf = c
  PROVE  Fits(hp, [st EXCEPT ![h] = o2])
<1> DEFINE st2 == [st EXCEPT ![h] = o2]
<1>1. st \in [Strings -> StrObject] /\ st2 \in [Strings -> StrObject] /\ st[h] \in StrObject
  BY DEF FitsWith
<1>2. ASSUME NEW x \in 0..MaxBlocks
      PROVE  hp[x].refs = CountOf(st2, x) + (IF x = Empty THEN 1 ELSE 0) + (IF x = None THEN 1 ELSE 0)
  <2>1. (st[h].buf = x) = FALSE
    BY <1>1, BufIs, NoBlockNumbers
  <2>2. Moved(st[h].buf = x, o2.buf = x, CountOf(st, x), CountOf(st2, x))
    BY <1>1, CountMoves
  <2>3. Moved(FALSE, c = x, CountOf(st, x), CountOf(st2, x))
    BY <2>1, <2>2
  <2>4. hp[x].refs = CountOf(st, x) + (IF x = Empty THEN 1 ELSE 0) + (IF x = c THEN 1 ELSE 0) /\ x # None
    BY NoBlockNumbers DEF FitsWith
  <2> HIDE DEF st2
  <2> QED
    BY <2>3, <2>4 DEF Moved
<1> HIDE DEF st2
<1>3. HeapOK(hp)
  BY DEF FitsWith
<1> QED
  BY <1>1, <1>2, <1>3 DEF Fits, FitsWith, st2

\* A string that got a block of its own, or changed the one it had.
LEMMA OwnFits ==
  ASSUME NEW hp, NEW st, Fits(hp, st), NEW h \in Strings,
         NEW b \in 0..MaxBlocks, st[h].buf = b,
         NEW hp2, HeapOK(hp2), NEW c \in 0..MaxBlocks, OwnStep(hp, b, hp2, c),
         NEW o2 \in StrObject, o2.buf = c
  PROVE  Fits(hp2, [st EXCEPT ![h] = o2]) /\ OthersSame(st, hp, hp2, h)
<1> DEFINE st2 == [st EXCEPT ![h] = o2]
<1>1. st \in [Strings -> StrObject] /\ st2 \in [Strings -> StrObject]
  BY DEF Fits, FitsWith
<1>2. hp[b].refs \in Nat /\ hp[b].refs > 0
  BY OnBlock DEF Fits
<1>3. OthersSame(st, hp, hp2, h)
  <2> SUFFICES ASSUME NEW g \in Strings, g # h, st[g].buf >= Empty
               PROVE  hp2[st[g].buf].bytes = hp[st[g].buf].bytes
    BY DEF OthersSame
  <2>1. PICK x \in 0..MaxBlocks : x = st[g].buf
    BY <1>1, BufIs
  <2>2. hp[x].refs > 0
    BY <2>1, OnBlock DEF Fits
  <2>3. x = b => hp[b].refs > 1
    BY <2>1, Alone DEF Fits
  <2> QED
    BY <1>2, <2>1, <2>2, <2>3 DEF OwnStep
<1>4. ASSUME NEW x \in 0..MaxBlocks
      PROVE  hp2[x].refs = CountOf(st2, x) + (IF x = Empty THEN 1 ELSE 0) + (IF x = None THEN 1 ELSE 0)
  <2>1. Moved(b = x, c = x, CountOf(st, x), CountOf(st2, x))
    BY <1>1, CountMoves
  <2>2. /\ hp[x].refs = CountOf(st, x) + (IF x = Empty THEN 1 ELSE 0) + (IF x = None THEN 1 ELSE 0)
        /\ hp[x].refs \in Nat /\ x # None
    BY NoBlockNumbers DEF Fits, FitsWith, HeapOK, Block
  <2>3. hp2[x].refs = hp[x].refs + (IF c = x THEN 1 ELSE 0) - (IF b = x THEN 1 ELSE 0)
    BY <2>2 DEF OwnStep
  <2> HIDE DEF st2
  <2> QED
    BY <2>1, <2>2, <2>3 DEF Moved
<1> HIDE DEF st2
<1>5. hp2[Empty].bytes = hp[Empty].bytes
  <2>1. c # b => c # Empty
    BY EmptyThere DEF OwnStep
  <2>2. b = Empty => hp[b].refs > 1
    BY OnBlock DEF Fits
  <2> QED
    BY <1>2, <2>1, <2>2, NoBlockNumbers DEF OwnStep
<1>6. Fits(hp2, st2)
  BY <1>1, <1>4, <1>5 DEF Fits, FitsWith
<1> QED
  BY <1>3, <1>6 DEF st2

\* Two strings that change places.
LEMMA SwapFits ==
  ASSUME NEW hp, NEW st, NEW c, FitsWith(hp, st, c),
         NEW g \in Strings, NEW h \in Strings, g # h
  PROVE  FitsWith(hp, [st EXCEPT ![h] = st[g], ![g] = st[h]], c)
<1> DEFINE st1 == [st EXCEPT ![h] = st[g]]
           st2 == [st1 EXCEPT ![g] = st[h]]
<1>1. st \in [Strings -> StrObject] /\ st1 \in [Strings -> StrObject] /\ st2 \in [Strings -> StrObject]
  BY DEF FitsWith
<1>2. st1[g] = st[g] /\ st2 = [st EXCEPT ![h] = st[g], ![g] = st[h]]
  BY <1>1
<1>3. ASSUME NEW x \in 0..MaxBlocks PROVE CountOf(st2, x) = CountOf(st, x)
  <2>1. Moved(st[h].buf = x, st[g].buf = x, CountOf(st, x), CountOf(st1, x))
    BY <1>1, CountMoves
  <2> HIDE DEF st1
  <2>2. Moved(st1[g].buf = x, st[h].buf = x, CountOf(st1, x), CountOf(st2, x))
    BY <1>1, CountMoves
  <2> HIDE DEF st2
  <2> QED
    BY <1>2, <2>1, <2>2 DEF Moved
<1> HIDE DEF st2
<1>4. FitsWith(hp, st2, c)
  BY <1>1, <1>3 DEF FitsWith
<1> QED
  BY <1>2, <1>4

-----------------------------------------------------------------------------
(* Bytes                                                                    *)

LEMMA ZerosAre == ASSUME NEW n \in Nat PROVE Zeros(n) \in Seq(Int) /\ Len(Zeros(n)) = n /\ \A i \in 1..n : Zeros(n)[i] = NUL
<1>1. Zeros(n) = [i \in 1..n |-> Zeros(n)[i]] /\ \A i \in 1..n : Zeros(n)[i] = NUL
  BY DEF Zeros
<1>2. \A i \in 1..n : Zeros(n)[i] \in Int
  BY <1>1 DEF NUL
<1> QED
  BY <1>1, <1>2, SeqOfFunction

LEMMA WrittenIs ==
  ASSUME NEW bytes \in Seq(Int), NEW at \in Int, NEW data \in Seq(Int)
  PROVE  /\ Written(bytes, at, data) \in Seq(Int)
         /\ Len(Written(bytes, at, data)) = Len(bytes)
         /\ \A i \in 1..Len(bytes) :
               /\ i \in (at + 1)..(at + Len(data)) => Written(bytes, at, data)[i] = data[i - at]
               /\ i \notin (at + 1)..(at + Len(data)) => Written(bytes, at, data)[i] = bytes[i]
<1> DEFINE w == Written(bytes, at, data)
<1>1. DOMAIN bytes = 1..Len(bytes) /\ Len(bytes) \in Nat /\ Len(data) \in Nat
  OBVIOUS
<1>2. w = [i \in 1..Len(bytes) |-> w[i]]
  BY <1>1 DEF Written
<1>3. \A i \in 1..Len(bytes) :
         /\ i \in (at + 1)..(at + Len(data)) => w[i] = data[i - at]
         /\ i \notin (at + 1)..(at + Len(data)) => w[i] = bytes[i]
  BY <1>1 DEF Written
<1> HIDE DEF w
<1>4. ASSUME NEW i \in 1..Len(bytes) PROVE w[i] \in Int
  <2>1. CASE i \in (at + 1)..(at + Len(data))
    <3>1. i - at \in 1..Len(data)
      BY <1>1, <2>1
    <3> QED
      BY <1>3, <2>1, <3>1, ElementOfSeq
  <2>2. CASE i \notin (at + 1)..(at + Len(data))
    BY <1>3, <2>2, ElementOfSeq
  <2> QED
    BY <2>1, <2>2
<1>5. w \in Seq(Int) /\ Len(w) = Len(bytes)
  BY <1>1, <1>2, <1>4, SeqOfFunction
<1> QED
  BY <1>3, <1>5 DEF w

\* strlen(): the bytes in front of the first NUL, or all of them.
EndsAt(bytes, len) == /\ len \in Nat /\ len <= Len(bytes)
                      /\ \A i \in 1..len : bytes[i] # NUL
                      /\ len < Len(bytes) => bytes[len + 1] = NUL

LEMMA CStringIs ==
  ASSUME NEW bytes \in Seq(Int)
  PROVE  \E len : EndsAt(bytes, len) /\ CString(bytes) = SubSeq(bytes, 1, len)
<1>1. DOMAIN bytes = 1..Len(bytes) /\ Len(bytes) \in Nat
  OBVIOUS
<1>2. CASE NUL \notin ToSet(bytes)
  <2>1. \A i \in 1..Len(bytes) : bytes[i] # NUL
    BY <1>1, <1>2 DEF ToSet
  <2>2. CString(bytes) = bytes
    BY <1>2 DEF CString
  <2>3. SubSeq(bytes, 1, Len(bytes)) = bytes
    BY SubSeqFull
  <2> QED
    BY <1>1, <2>1, <2>2, <2>3 DEF EndsAt
<1>3. CASE NUL \in ToSet(bytes)
  <2> DEFINE Ends == {n \in 1..Len(bytes) : bytes[n] = NUL}
             IsFirst(n) == bytes[n] = NUL /\ \A i \in 1..(n - 1) : bytes[i] # NUL
  <2>1. Ends # {} /\ Ends \subseteq Nat
    BY <1>1, <1>3 DEF ToSet
  <2>2. PICK n \in Ends : \A y \in Ends : ~ (<<y, n>> \in OpToRel(<, Nat))
    <3> HIDE DEF Ends
    <3> QED
      BY <2>1, WFMin, NatLessThanWellFounded
  <2>3. ASSUME NEW i \in 1..(n - 1) PROVE bytes[i] # NUL
    <3>1. i \in Nat /\ n \in Nat /\ i < n /\ i \in 1..Len(bytes)
      OBVIOUS
    <3>2. <<i, n>> \in OpToRel(<, Nat)
      BY <3>1 DEF OpToRel
    <3>3. i \notin Ends
      <4> HIDE DEF Ends
      <4> QED
        BY <2>2, <3>2
    <3> QED
      BY <3>1, <3>3
  <2>4. n \in DOMAIN bytes /\ IsFirst(n)
    BY <1>1, <2>3
  <2> DEFINE m == CHOOSE k \in DOMAIN bytes : IsFirst(k)
  <2>5. m \in DOMAIN bytes /\ IsFirst(m)
    BY <2>4
  <2>6. CString(bytes) = SubSeq(bytes, 1, m - 1)
    BY <1>3 DEF CString
  <2> HIDE DEF m
  <2>7. EndsAt(bytes, m - 1)
    BY <1>1, <2>5 DEF EndsAt
  <2> QED
    BY <2>6, <2>7
<1> QED
  BY <1>2, <1>3

\* The text is part of the bytes.
LEMMA TextIs ==
  ASSUME NEW bytes \in Seq(Int)
  PROVE  /\ CString(bytes) \in Seq(Int) /\ EndsAt(bytes, Len(CString(bytes)))
         /\ \A i \in 1..Len(CString(bytes)) : CString(bytes)[i] = bytes[i]
<1>1. PICK len : EndsAt(bytes, len) /\ CString(bytes) = SubSeq(bytes, 1, len)
  BY CStringIs
<1>2. len \in Nat /\ len <= Len(bytes) /\ Len(bytes) \in Nat
  BY <1>1 DEF EndsAt
<1>3. /\ SubSeq(bytes, 1, len) \in Seq(Int) /\ Len(SubSeq(bytes, 1, len)) = len
      /\ \A i \in 1..len : SubSeq(bytes, 1, len)[i] = bytes[i]
  BY <1>2, SubSeqProperties
<1> QED
  BY <1>1, <1>3

\* Bytes that begin with a text and a NUL show that text.
LEMMA TextShown ==
  ASSUME NEW bytes \in Seq(Int), NEW t \in Seq(Int), \A i \in 1..Len(t) : t[i] # NUL,
         Len(t) <= Len(bytes), \A i \in 1..Len(t) : bytes[i] = t[i],
         Len(t) < Len(bytes) => bytes[Len(t) + 1] = NUL
  PROVE  CString(bytes) = t
<1>1. PICK n : n = Len(CString(bytes))
  OBVIOUS
<1>2. /\ CString(bytes) \in Seq(Int) /\ EndsAt(bytes, n) /\ n \in Nat
      /\ \A i \in 1..n : CString(bytes)[i] = bytes[i]
  BY <1>1, TextIs
<1>3. Len(t) \in Nat /\ Len(bytes) \in Nat
  OBVIOUS
<1>4. ~ (n < Len(t))
  <2> SUFFICES ASSUME n < Len(t) PROVE FALSE
    OBVIOUS
  <2>1. n + 1 \in 1..Len(t) /\ bytes[n + 1] = NUL
    BY <1>2, <1>3 DEF EndsAt
  <2> QED
    BY <2>1
<1>5. ~ (Len(t) < n)
  <2> SUFFICES ASSUME Len(t) < n PROVE FALSE
    OBVIOUS
  <2>1. Len(t) + 1 \in 1..n /\ Len(t) < Len(bytes)
    BY <1>2, <1>3 DEF EndsAt
  <2>2. bytes[Len(t) + 1] # NUL
    BY <1>2, <2>1 DEF EndsAt
  <2> QED
    BY <2>1, <2>2
<1>6. n = Len(t)
  BY <1>2, <1>3, <1>4, <1>5
<1>7. \A i \in 1..n : CString(bytes)[i] = t[i]
  BY <1>2, <1>6
<1> QED
  BY <1>1, <1>2, <1>6, <1>7, SeqEqual

-----------------------------------------------------------------------------
(* What a call may leave                                                    *)

\* mCapacity is the size of the block less 1, as long as nothing failed.
CapFits(hp, o) == o.buf >= Empty /\ o.unsure = "no" => Len(hp[o.buf].bytes) = o.cap + 1

\* String h became o2: all still count, and the others have what they had.
Kept(st, hp, h, hp2, o2) ==
    /\ Fits(hp2, [st EXCEPT ![h] = o2])
    /\ OthersSame(st, hp, hp2, h)
    /\ o2 \in StrObject
    /\ CapFits(hp2, o2)

Safe(st, hp, h, r) == /\ Kept(st, hp, h, r.heap, r.obj)
                      /\ r.bad => r.obj.unsure # "no"

\* The bytes of one block changed.
BytesAt(hp, b, bytes) == [hp EXCEPT ![b] = [hp[b] EXCEPT !.bytes = bytes]]

LEMMA BytesAtIs ==
  ASSUME NEW hp, HeapOK(hp), NEW b \in 0..MaxBlocks, hp[b].refs > 0, NEW bytes \in Seq(Int)
  PROVE  /\ HeapOK(BytesAt(hp, b, bytes))
         /\ BytesAt(hp, b, bytes)[b].bytes = bytes
         /\ BytesAt(hp, b, bytes)[b].refs = hp[b].refs
         /\ \A x \in (0..MaxBlocks) \ {b} : BytesAt(hp, b, bytes)[x] = hp[x]
<1>1. PICK new : new = [hp[b] EXCEPT !.bytes = bytes]
  OBVIOUS
<1>2. hp[b] \in Block
  BY DEF HeapOK
<1>3. new \in Block /\ new.bytes = bytes /\ new.refs = hp[b].refs
  BY <1>1, <1>2 DEF Block
<1>4. BytesAt(hp, b, bytes) = [hp EXCEPT ![b] = new]
  BY <1>1 DEF BytesAt
<1> QED
  BY <1>3, <1>4 DEF HeapOK

\* The block of a string that is its own, with other bytes.
LEMMA BytesKept ==
  ASSUME NEW st, NEW hp, NEW h \in Strings, NEW hp1, NEW o,
         Kept(st, hp, h, hp1, o), st = [x \in Strings |-> st[x]],
         NEW b \in 0..MaxBlocks, o.buf = b, hp1[b].refs = 1,
         NEW bytes \in Seq(Int), Len(bytes) = Len(hp1[b].bytes)
  PROVE  /\ Kept(st, hp, h, BytesAt(hp1, b, bytes), o)
         /\ BytesAt(hp1, b, bytes)[b].bytes = bytes
<1> DEFINE st1 == [st EXCEPT ![h] = o]
<1>1. PICK hp2 : hp2 = BytesAt(hp1, b, bytes)
  OBVIOUS
<1>2. /\ HeapOK(hp2) /\ hp2[b].bytes = bytes /\ hp2[b].refs = 1
      /\ \A x \in (0..MaxBlocks) \ {b} : hp2[x] = hp1[x]
  BY <1>1, BytesAtIs DEF Kept, Fits, FitsWith
<1>3. OwnStep(hp1, b, hp2, b)
  BY <1>2 DEF OwnStep
<1>4. Fits(hp1, st1) /\ st1[h] = o /\ [st1 EXCEPT ![h] = o] = st1 /\ o \in StrObject
  BY DEF Kept
<1>5. Fits(hp2, st1) /\ OthersSame(st1, hp1, hp2, h)
  <2> HIDE DEF st1
  <2> QED
    BY <1>2, <1>3, <1>4, OwnFits
<1>6. OthersSame(st, hp, hp2, h)
  <2>1. \A g \in Strings : g # h => st1[g] = st[g]
    OBVIOUS
  <2> HIDE DEF st1
  <2> QED
    BY <1>5, <2>1 DEF Kept, OthersSame
<1>7. CapFits(hp2, o)
  BY <1>2 DEF Kept, CapFits
<1> QED
  BY <1>1, <1>2, <1>4, <1>5, <1>6, <1>7 DEF Kept

\* A string on the block it had.
LEMMA SameBlockKept ==
  ASSUME NEW st, NEW hp, NEW h \in Strings, Fits(hp, st),
         NEW o2 \in StrObject, o2.buf = st[h].buf, CapFits(hp, o2)
  PROVE  Kept(st, hp, h, hp, o2)
<1> DEFINE st2 == [st EXCEPT ![h] = o2]
<1>1. st \in [Strings -> StrObject] /\ st2 \in [Strings -> StrObject]
  BY DEF Fits, FitsWith
<1>2. ASSUME NEW x \in 0..MaxBlocks PROVE CountOf(st2, x) = CountOf(st, x)
  <2>1. Moved(st[h].buf = x, o2.buf = x, CountOf(st, x), CountOf(st2, x))
    BY <1>1, CountMoves
  <2> HIDE DEF st2
  <2> QED
    BY <2>1 DEF Moved
<1>3. Fits(hp, st2)
  <2> HIDE DEF st2
  <2> QED
    BY <1>1, <1>2 DEF Fits, FitsWith
<1> QED
  BY <1>3 DEF Kept, OthersSame

\* The reference of a call goes to its string: one that had a block lets go of
\* that, one that had none just takes it.
LEMMA ReplacedKept ==
  ASSUME NEW st, NEW hp, NEW h \in Strings, NEW hp1, NEW c \in 0..MaxBlocks,
         FitsWith(hp1, st, c), OthersSame(st, hp, hp1, h), st[h].buf # Gone,
         NEW o2 \in StrObject, o2.buf = c, CapFits(hp1, o2)
  PROVE  /\ Kept(st, hp, h, LetGo(hp1, st[h]), o2)
         /\ LetGo(hp1, st[h])[c].bytes = hp1[c].bytes
<1>1. PICK hp2 : hp2 = LetGo(hp1, st[h])
  OBVIOUS
<1> DEFINE st1 == [st EXCEPT ![h] = NoString]
<1>2. NoString \in StrObject /\ NoString.buf < Empty
  BY NoBlockNumbers DEF NoString, StrObject
<1>3. /\ FitsWith(hp2, st1, c) /\ OthersSame(st, hp1, hp2, h) /\ hp2[c].bytes = hp1[c].bytes
  BY <1>1, <1>2, LetGoFits
<1>4. st1[h] = NoString /\ [st1 EXCEPT ![h] = o2] = [st EXCEPT ![h] = o2]
  BY DEF FitsWith
<1>5. Fits(hp2, [st1 EXCEPT ![h] = o2])
  <2> HIDE DEF st1
  <2> QED
    BY <1>2, <1>3, <1>4, TakeFits
<1>6. OthersSame(st, hp, hp2, h)
  BY <1>3 DEF OthersSame
<1>7. CapFits(hp2, o2)
  BY <1>3 DEF CapFits
<1> QED
  BY <1>1, <1>3, <1>4, <1>5, <1>6, <1>7 DEF Kept

LEMMA TakenKept ==
  ASSUME NEW st, NEW hp, NEW h \in Strings, NEW hp1, NEW c \in 0..MaxBlocks,
         FitsWith(hp1, st, c), OthersSame(st, hp, hp1, h), st[h].buf < Empty,
         NEW o2 \in StrObject, o2.buf = c, CapFits(hp1, o2)
  PROVE  Kept(st, hp, h, hp1, o2)
  BY TakeFits DEF Kept

-----------------------------------------------------------------------------
(* The steps of the calls                                                   *)

IsOutcome(r) == r = [heap |-> r.heap, obj |-> r.obj, bad |-> r.bad, null |-> r.null]

LEMMA OutcomeIs ==
  ASSUME NEW hp, NEW o
  PROVE  /\ IsOutcome(Outcome(hp, o)) /\ Outcome(hp, o).heap = hp /\ Outcome(hp, o).obj = o
         /\ Outcome(hp, o).bad = FALSE /\ Outcome(hp, o).null = FALSE
  BY DEF Outcome, IsOutcome

LEMMA WritesIs ==
  ASSUME NEW d, IsOutcome(d), NEW at, NEW data
  PROVE  /\ IsOutcome(Writes(d, at, data))
         /\ Writes(d, at, data).heap = BytesAt(d.heap, d.obj.buf, Written(d.heap[d.obj.buf].bytes, at, data))
         /\ Writes(d, at, data).obj = d.obj /\ Writes(d, at, data).null = d.null
         /\ Writes(d, at, data).bad = (at + Len(data) > Len(d.heap[d.obj.buf].bytes))
<1>1. PICK hp, o, x, y : d = [heap |-> hp, obj |-> o, bad |-> x, null |-> y]
  BY DEF IsOutcome
<1>2. d.heap = hp /\ d.obj = o /\ d.null = y
  BY <1>1
<1>3. PICK new, over : /\ new = BytesAt(hp, o.buf, Written(hp[o.buf].bytes, at, data))
                       /\ over = (at + Len(data) > Len(hp[o.buf].bytes))
  OBVIOUS
<1>4. Writes(d, at, data) = [d EXCEPT !.heap = BytesAt(hp, o.buf, Written(hp[o.buf].bytes, at, data)),
                                      !.bad = at + Len(data) > Len(hp[o.buf].bytes)]
  BY <1>2 DEF Writes, BytesAt
<1>5. Writes(d, at, data) = [d EXCEPT !.heap = new, !.bad = over]
  BY <1>3, <1>4, Zenon
<1>6. Writes(d, at, data) = [heap |-> new, obj |-> o, bad |-> over, null |-> y]
  BY <1>1, <1>5
<1>7. /\ Writes(d, at, data).heap = new /\ Writes(d, at, data).obj = o
      /\ Writes(d, at, data).bad = over /\ Writes(d, at, data).null = y
  BY <1>6
<1>8. IsOutcome(Writes(d, at, data))
  BY <1>6, <1>7 DEF IsOutcome
<1> QED
  BY <1>2, <1>3, <1>7, <1>8

\* Bytes written into a block of the string's own.
Ready(st, hp, h, d, b) ==
    /\ IsOutcome(d) /\ Kept(st, hp, h, d.heap, d.obj)
    /\ b \in 0..MaxBlocks /\ d.obj.buf = b /\ d.heap[b].refs = 1

Wrote(st, hp, h, d, b, at, data, w) ==
    /\ Safe(st, hp, h, w) /\ w.obj = d.obj
    /\ w.heap[b].bytes = Written(d.heap[b].bytes, at, data)

LEMMA WritesSafe ==
  ASSUME NEW st, NEW hp, NEW h \in Strings, Fits(hp, st),
         NEW d, NEW b, Ready(st, hp, h, d, b),
         NEW at \in Nat, NEW data \in Seq(Int),
         d.obj.unsure = "no" => at + Len(data) <= Len(d.heap[b].bytes)
  PROVE  Wrote(st, hp, h, d, b, at, data, Writes(d, at, data))
<1>0. /\ IsOutcome(d) /\ Kept(st, hp, h, d.heap, d.obj) /\ st = [x \in Strings |-> st[x]]
      /\ b \in 0..MaxBlocks /\ d.obj.buf = b /\ d.heap[b].refs = 1
  BY DEF Ready, Fits, FitsWith
<1>1. d.heap[b].bytes \in Seq(Int) /\ Len(d.heap[b].bytes) \in Nat
  <2>1. PICK hp1 : hp1 = d.heap
    OBVIOUS
  <2>2. hp1[b].bytes \in Seq(Int)
    BY <1>0, <2>1 DEF Kept, Fits, FitsWith, HeapOK, Block
  <2> QED
    BY <2>1, <2>2
<1>2. PICK bytes : bytes = Written(d.heap[b].bytes, at, data)
  OBVIOUS
<1>3. bytes \in Seq(Int) /\ Len(bytes) = Len(d.heap[b].bytes)
  BY <1>1, <1>2, WrittenIs
<1>4. PICK w : w = Writes(d, at, data)
  OBVIOUS
<1>5. /\ w.heap = BytesAt(d.heap, b, bytes) /\ w.obj = d.obj
      /\ w.bad = (at + Len(data) > Len(d.heap[b].bytes))
  BY <1>0, <1>2, <1>4, WritesIs
<1>6. Kept(st, hp, h, BytesAt(d.heap, b, bytes), d.obj) /\ BytesAt(d.heap, b, bytes)[b].bytes = bytes
  BY <1>0, <1>3, BytesKept
<1>7. w.bad => d.obj.unsure # "no"
  <2>1. CASE at + Len(data) > Len(d.heap[b].bytes)
    BY <1>1, <2>1
  <2>2. CASE ~ (at + Len(data) > Len(d.heap[b].bytes))
    BY <1>5, <2>2, Zenon
  <2> QED
    BY <2>1, <2>2
<1>8. Safe(st, hp, h, w)
  BY <1>5, <1>6, <1>7 DEF Safe
<1> QED
  BY <1>2, <1>4, <1>5, <1>6, <1>8 DEF Wrote

LEMMA AtIs ==
  ASSUME NEW o \in StrObject, NEW b \in 0..MaxBlocks, NEW cap \in Nat
  PROVE  /\ At(o, b, cap) \in StrObject /\ At(o, b, cap).buf = b
         /\ At(o, b, cap).cap = cap /\ At(o, b, cap).unsure = "no"
  BY DEF At, StrObject

\* An outcome without a write.
LEMMA OutcomeSafe ==
  ASSUME NEW st, NEW hp, NEW h, NEW hp2, NEW o2, Kept(st, hp, h, hp2, o2)
  PROVE  Safe(st, hp, h, Outcome(hp2, o2))
<1>1. Outcome(hp2, o2).heap = hp2 /\ Outcome(hp2, o2).obj = o2 /\ Outcome(hp2, o2).bad = FALSE
  BY OutcomeIs
<1>2. Kept(st, hp, h, Outcome(hp2, o2).heap, Outcome(hp2, o2).obj)
  BY <1>1
<1>3. ~ Outcome(hp2, o2).bad
  BY <1>1, Zenon
<1> QED
  BY <1>2, <1>3, Zenon DEF Safe

\* The capacity that getBuffer() asks for.
Room(n) == IF n < DefaultLen THEN DefaultLen ELSE n

LEMMA RoomIs == ASSUME NEW n \in Nat
                PROVE  Room(n) \in Nat /\ n <= Room(n) /\ Zeros(Room(n) + 1) \in Seq(Int)
                       /\ Len(Zeros(Room(n) + 1)) = Room(n) + 1
  BY StringsAssumption, ZerosAre DEF Room

\* getBuffer() that threw: the text was too long, or there was no memory.
GotNothing(hp, o, n, r) ==
    \/ r = Outcome(hp, o)
    \/ r = Outcome(hp, [o EXCEPT !.cap = Room(n), !.unsure = IF o.buf = None THEN @ ELSE "memory"])

LEMMA GotNothingSafe ==
  ASSUME NEW st, NEW hp, NEW h \in Strings, Fits(hp, st), CapFits(hp, st[h]),
         NEW n \in Nat, NEW r, GotNothing(hp, st[h], n, r)
  PROVE  \E o2 : r = Outcome(hp, o2) /\ o2.buf = st[h].buf /\ Kept(st, hp, h, hp, o2)
<1>1. st[h] \in StrObject
  BY DEF Fits, FitsWith
<1>2. CASE r = Outcome(hp, st[h])
  <2>1. Kept(st, hp, h, hp, st[h])
    BY <1>1, SameBlockKept
  <2> QED
    BY <1>2, <2>1
<1>3. ASSUME NEW o2, o2 = [st[h] EXCEPT !.cap = Room(n), !.unsure = IF st[h].buf = None THEN @ ELSE "memory"],
             r = Outcome(hp, o2)
      PROVE  Kept(st, hp, h, hp, o2) /\ o2.buf = st[h].buf
  <2>1. o2 \in StrObject /\ o2.buf = st[h].buf /\ (st[h].buf = None \/ o2.unsure = "memory")
    BY <1>1, <1>3, RoomIs DEF StrObject
  <2>2. CapFits(hp, o2)
    BY <2>1 DEF CapFits, None, Empty
  <2> QED
    BY <2>1, <2>2, SameBlockKept
<1> QED
  BY <1>2, <1>3 DEF GotNothing

\* A new block for a string that has none.
LEMMA GotBlockKept ==
  ASSUME NEW st, NEW hp, NEW h \in Strings, Fits(hp, st), st[h].buf < Empty,
         NEW cap \in Nat, NEW bytes \in Seq(Int), Len(bytes) = cap + 1,
         NEW a \in Alloc(hp, bytes), a.block # None, NEW o \in StrObject
  PROVE  /\ a.block \in 1..MaxBlocks /\ At(o, a.block, cap).buf = a.block
         /\ Kept(st, hp, h, a.heap, At(o, a.block, cap))
         /\ a.heap[a.block].bytes = bytes /\ a.heap[a.block].refs = 1
<1>1. PICK c : c = a.block
  OBVIOUS
<1>2. /\ c \in 1..MaxBlocks /\ FitsWith(a.heap, st, c) /\ OthersSame(st, hp, a.heap, h)
      /\ a.heap[c].bytes = bytes /\ a.heap[c].refs = 1
  BY <1>1, AllocFits
<1>3. c \in 0..MaxBlocks
  BY <1>2
<1>4. At(o, c, cap) \in StrObject /\ At(o, c, cap).buf = c /\ At(o, c, cap).cap = cap
  BY <1>3, AtIs
<1>5. CapFits(a.heap, At(o, c, cap))
  BY <1>2, <1>4 DEF CapFits
<1>6. Kept(st, hp, h, a.heap, At(o, c, cap))
  BY <1>2, <1>3, <1>4, <1>5, TakenKept
<1> QED
  BY <1>1, <1>2, <1>4, <1>6

\* detach(): the string is alone on its block, has none, or a null pointer was
\* followed.
Detached(st, hp, h, d) ==
    /\ IsOutcome(d) /\ Safe(st, hp, h, d) /\ ~ d.bad
    /\ d.obj.buf = None \/ d.obj.buf \in 0..MaxBlocks
    /\ ~ d.null /\ d.obj.buf # None => d.heap[d.obj.buf].refs = 1
    /\ st[h].buf # None => d.obj.buf # None /\ d.obj.cap = st[h].cap

\* The same for an outcome without a write.
LEMMA OutcomeDetached ==
  ASSUME NEW st, NEW hp, NEW h, NEW hp2, NEW o2, Kept(st, hp, h, hp2, o2),
         \/ o2.buf = None /\ st[h].buf = None
         \/ o2.buf \in 0..MaxBlocks /\ hp2[o2.buf].refs = 1 /\ (st[h].buf # None => o2.cap = st[h].cap)
  PROVE  Detached(st, hp, h, Outcome(hp2, o2))
<1>1. PICK r : /\ r = Outcome(hp2, o2) /\ IsOutcome(r) /\ Safe(st, hp, h, r)
               /\ r.heap = hp2 /\ r.obj = o2 /\ r.bad = FALSE
  <2>1. /\ IsOutcome(Outcome(hp2, o2)) /\ Outcome(hp2, o2).heap = hp2 /\ Outcome(hp2, o2).obj = o2
        /\ Outcome(hp2, o2).bad = FALSE
    BY DEF Outcome, IsOutcome
  <2>2. Safe(st, hp, h, Outcome(hp2, o2))
    BY OutcomeSafe
  <2> QED
    BY <2>1, <2>2
<1>3. ~ r.bad
  BY <1>1, Zenon
<1>4. o2.buf \in 0..MaxBlocks => o2.buf # None
  BY NoBlockNumbers
<1>5. /\ r.obj.buf = None \/ r.obj.buf \in 0..MaxBlocks
      /\ r.obj.buf # None => r.heap[r.obj.buf].refs = 1
      /\ st[h].buf # None => r.obj.buf # None /\ r.obj.cap = st[h].cap
  BY <1>1, <1>4
<1>6. Detached(st, hp, h, r)
  BY <1>1, <1>3, <1>5, Zenon DEF Detached
<1> QED
  BY <1>1, <1>6

LEMMA DetachIs ==
  ASSUME NEW st, NEW hp, NEW h \in Strings, Fits(hp, st), CapFits(hp, st[h]),
         st[h].buf # Gone, NEW d \in Detach(hp, st[h])
  PROVE  Detached(st, hp, h, d)
<1>0. PICK o : o = st[h]
  OBVIOUS
<1>1. o \in StrObject /\ st \in [Strings -> StrObject] /\ d \in Detach(hp, o) /\ o.buf # Gone
      /\ CapFits(hp, o)
  BY <1>0 DEF Fits, FitsWith
<1>2. CASE o.buf = None
  <2>1. \/ GotNothing(hp, o, 0, d)
        \/ \E a \in Alloc(hp, Zeros(Room(0) + 1)) :
              a.block # None /\ d = Outcome(a.heap, At(o, a.block, Room(0)))
    BY <1>1, <1>2 DEF Detach, GetBuffer, GotNothing, Room
  <2>2. CASE GotNothing(hp, o, 0, d)
    BY <1>0, <1>2, <2>2, GotNothingSafe, OutcomeDetached
  <2>3. ASSUME NEW a \in Alloc(hp, Zeros(Room(0) + 1)), a.block # None,
               d = Outcome(a.heap, At(o, a.block, Room(0)))
        PROVE  Detached(st, hp, h, d)
    <3>1. PICK cap \in Nat, bytes \in Seq(Int) :
            cap = Room(0) /\ bytes = Zeros(Room(0) + 1) /\ Len(bytes) = cap + 1
      BY RoomIs
    <3>2. o.buf < Empty
      BY <1>2, NoBlockNumbers
    <3>3. /\ a.block \in 1..MaxBlocks /\ At(o, a.block, cap).buf = a.block
          /\ Kept(st, hp, h, a.heap, At(o, a.block, cap)) /\ a.heap[a.block].refs = 1
      BY <1>0, <1>1, <2>3, <3>1, <3>2, GotBlockKept
    <3>4. a.block \in 0..MaxBlocks
      BY <3>3
    <3> QED
      BY <1>0, <1>2, <2>3, <3>1, <3>3, <3>4, OutcomeDetached
  <2> QED
    BY <2>1, <2>2, <2>3
<1>3. CASE o.buf # None /\ hp[o.buf].refs = 1
  <2>1. d = Outcome(hp, o)
    BY <1>1, <1>3 DEF Detach
  <2>2. Kept(st, hp, h, hp, o)
    BY <1>0, <1>1, SameBlockKept
  <2>3. o.buf \in 0..MaxBlocks
    BY <1>1, <1>3 DEF StrObject
  <2> QED
    BY <1>0, <1>3, <2>1, <2>2, <2>3, OutcomeDetached
<1>4. CASE o.buf # None /\ hp[o.buf].refs # 1
  <2>1. PICK b \in 0..MaxBlocks : b = o.buf
    BY <1>1, <1>4 DEF StrObject
  <2>2. PICK r \in EditResize(hp, b, o.cap + 1) :
          d = IF r.block = None THEN [Outcome(hp, o) EXCEPT !.null = TRUE] ELSE Outcome(r.heap, At(o, r.block, o.cap))
    BY <1>1, <1>4, <2>1 DEF Detach
  <2>3. o.cap + 1 \in Nat /\ o.cap \in Nat /\ HeapOK(hp) /\ hp[b].refs > 0
    <3>1. o.cap \in Nat
      BY <1>1, BufIs
    <3>2. hp[b].refs > 0
      BY <1>0, <2>1, OnBlock DEF Fits
    <3> QED
      BY <3>1, <3>2 DEF Fits, FitsWith
  <2>4. OwnOutcome(hp, b, r) /\ (r.block # None => Len(r.heap[r.block].bytes) = o.cap + 1)
    BY <2>2, <2>3, EditResizeIs
  <2>5. CASE r.block = None
    <3>1. d = [heap |-> hp, obj |-> o, bad |-> FALSE, null |-> TRUE]
      BY <2>2, <2>5 DEF Outcome
    <3>2. d.heap = hp /\ d.obj = o /\ d.bad = FALSE /\ d.null = TRUE
      BY <3>1
    <3>3. IsOutcome(d)
      BY <3>1, <3>2 DEF IsOutcome
    <3>4. Kept(st, hp, h, d.heap, d.obj)
      BY <1>0, <1>1, <3>2, SameBlockKept
    <3>5. ~ d.bad /\ d.null
      BY <3>2, Zenon
    <3>6. Safe(st, hp, h, d)
      BY <3>4, <3>5, Zenon DEF Safe
    <3>7. d.obj.buf \in 0..MaxBlocks /\ d.obj.buf # None /\ d.obj.cap = st[h].cap
      BY <1>0, <1>4, <2>1, <3>2
    <3> QED
      BY <3>3, <3>5, <3>6, <3>7, Zenon DEF Detached
  <2>6. CASE r.block # None
    <3>1. PICK c \in 0..MaxBlocks : c = r.block /\ HeapOK(r.heap) /\ OwnStep(hp, b, r.heap, c) /\ r.heap[c].refs = 1
      BY <2>4, <2>6 DEF OwnOutcome
    <3>2. PICK o2 : o2 = At(o, c, o.cap)
      OBVIOUS
    <3>3. o2 \in StrObject /\ o2.buf = c /\ o2.cap = o.cap
      BY <1>1, <2>3, <3>2, AtIs, ZenonT(30)
    <3>4. CapFits(r.heap, o2)
      BY <2>4, <3>1, <3>3, NoBlockNumbers DEF CapFits
    <3>5. Kept(st, hp, h, r.heap, o2)
      BY <1>0, <2>1, <3>1, <3>3, <3>4, OwnFits DEF Kept
    <3>6. d = Outcome(r.heap, o2)
      BY <2>2, <2>6, <3>1, <3>2
    <3> QED
      BY <1>0, <3>1, <3>3, <3>5, <3>6, OutcomeDetached
  <2> QED
    BY <2>5, <2>6
<1> QED
  BY <1>2, <1>3, <1>4

\* A string that is alone on its block may change the bytes in it.
NewBytes(d, bytes) == [d EXCEPT !.heap = BytesAt(d.heap, d.obj.buf, bytes)]

OnItsOwn(st, hp, h, d) == Detached(st, hp, h, d) /\ ~ d.null /\ d.obj.buf # None

LEMMA NewBytesIs ==
  ASSUME NEW st, NEW hp, NEW h \in Strings, Fits(hp, st),
         NEW d, OnItsOwn(st, hp, h, d),
         NEW bytes \in Seq(Int), Len(bytes) = Len(d.heap[d.obj.buf].bytes)
  PROVE  /\ OnItsOwn(st, hp, h, NewBytes(d, bytes))
         /\ NewBytes(d, bytes).obj = d.obj /\ NewBytes(d, bytes).heap[d.obj.buf].bytes = bytes
<1>1. PICK hp1, o, x, y : d = [heap |-> hp1, obj |-> o, bad |-> x, null |-> y]
  BY Zenon DEF OnItsOwn, Detached, IsOutcome
<1>2. d.heap = hp1 /\ d.obj = o /\ d.bad = x /\ d.null = y
  BY <1>1
<1>3. PICK b \in 0..MaxBlocks : b = o.buf
  BY <1>2, Zenon DEF OnItsOwn, Detached
<1>4. ~ x /\ ~ y /\ Safe(st, hp, h, d) /\ (st[h].buf # None => o.cap = st[h].cap)
  BY <1>2, Zenon DEF OnItsOwn, Detached
<1>5. hp1[b].refs = 1
  BY <1>2, <1>3, <1>4, Zenon DEF OnItsOwn, Detached
<1>6. Kept(st, hp, h, hp1, o)
  BY <1>2, <1>4, Zenon DEF Safe
<1>7. PICK hp2 : hp2 = BytesAt(hp1, b, bytes)
  OBVIOUS
<1>0. st = [g \in Strings |-> st[g]]
  BY DEF Fits, FitsWith
<1>8. Kept(st, hp, h, hp2, o) /\ hp2[b].bytes = bytes
  BY <1>0, <1>2, <1>3, <1>5, <1>6, <1>7, BytesKept
<1>9. hp2[b].refs = 1
  <2>1. HeapOK(hp1)
    BY <1>6 DEF Kept, Fits, FitsWith
  <2> QED
    BY <1>5, <1>7, <2>1, BytesAtIs
<1>10. PICK e : e = NewBytes(d, bytes)
  OBVIOUS
<1>11. e = [heap |-> hp2, obj |-> o, bad |-> x, null |-> y]
  BY <1>1, <1>2, <1>3, <1>7, <1>10 DEF NewBytes
<1>12. e.heap = hp2 /\ e.obj = o /\ e.bad = x /\ e.null = y
  BY <1>11
<1>13. IsOutcome(e)
  BY <1>11, <1>12 DEF IsOutcome
<1>14. Safe(st, hp, h, e) /\ ~ e.bad
  BY <1>4, <1>8, <1>12, Zenon DEF Safe
<1>15. b # None
  BY NoBlockNumbers
<1>16. Detached(st, hp, h, e)
  BY <1>3, <1>4, <1>9, <1>12, <1>13, <1>14, <1>15, Zenon DEF OnItsOwn, Detached
<1>17. OnItsOwn(st, hp, h, e)
  BY <1>3, <1>4, <1>12, <1>15, <1>16, Zenon DEF OnItsOwn
<1> QED
  BY <1>2, <1>3, <1>8, <1>10, <1>12, <1>17

\* The bytes of a string that is alone on its block.
LEMMA DetachedBytes ==
  ASSUME NEW st, NEW hp, NEW h, NEW d, OnItsOwn(st, hp, h, d)
  PROVE  /\ d.obj.buf \in 0..MaxBlocks /\ d.heap[d.obj.buf].refs = 1 /\ Kept(st, hp, h, d.heap, d.obj)
         /\ d.heap[d.obj.buf].bytes \in Seq(Int) /\ HeapOK(d.heap) /\ d.obj \in StrObject
<1>1. PICK hp1, o : hp1 = d.heap /\ o = d.obj
  OBVIOUS
<1>2. Kept(st, hp, h, hp1, o) /\ o.buf \in 0..MaxBlocks /\ hp1[o.buf].refs = 1
  BY <1>1, Zenon DEF OnItsOwn, Detached, Safe
<1>3. HeapOK(hp1) /\ o \in StrObject
  BY <1>2 DEF Kept, Fits, FitsWith
<1>4. hp1[o.buf].bytes \in Seq(Int)
  BY <1>2, <1>3 DEF HeapOK, Block
<1> QED
  BY <1>1, <1>2, <1>3, <1>4

\* clear(): NULs over the text.
Blank(bytes) == Written(bytes, 0, Zeros(Len(CString(bytes))))

LEMMA BlankIs ==
  ASSUME NEW bytes \in Seq(Int)
  PROVE  /\ Blank(bytes) \in Seq(Int) /\ Len(Blank(bytes)) = Len(bytes)
         /\ \A i \in 1..Len(bytes) :
               /\ i <= Len(CString(bytes)) + 1 => Blank(bytes)[i] = NUL
               /\ i > Len(CString(bytes)) => Blank(bytes)[i] = bytes[i]
<1>1. PICK n \in Nat : n = Len(CString(bytes)) /\ EndsAt(bytes, n)
  BY TextIs
<1>2. PICK z \in Seq(Int) : z = Zeros(n) /\ Len(z) = n /\ \A i \in 1..n : z[i] = NUL
  BY ZerosAre
<1>3. PICK w : w = Written(bytes, 0, z)
  OBVIOUS
<1>4. /\ w \in Seq(Int) /\ Len(w) = Len(bytes)
      /\ \A i \in 1..Len(bytes) : /\ i \in (0 + 1)..(0 + Len(z)) => w[i] = z[i - 0]
                                  /\ i \notin (0 + 1)..(0 + Len(z)) => w[i] = bytes[i]
  BY <1>3, WrittenIs
<1>5. ASSUME NEW i \in 1..Len(bytes)
      PROVE  (i <= n + 1 => w[i] = NUL) /\ (i > n => w[i] = bytes[i])
  <2>0. i \in Nat /\ n \in Nat
    OBVIOUS
  <2>1. CASE i <= n
    <3>1. i \in (0 + 1)..(0 + Len(z)) /\ i \in 1..n /\ i - 0 = i
      BY <1>2, <2>1
    <3>2. w[i] = z[i - 0]
      BY <1>4, <3>1, Zenon
    <3>3. w[i] = NUL
      BY <1>2, <3>1, <3>2
    <3> QED
      BY <2>1, <3>3
  <2>2. CASE i > n
    <3>1. i \notin (0 + 1)..(0 + Len(z))
      BY <1>2, <2>2
    <3>2. i = n + 1 => bytes[i] = NUL
      BY <1>1, <2>2 DEF EndsAt
    <3>3. w[i] = bytes[i]
      BY <1>4, <3>1, Zenon
    <3> QED
      BY <2>2, <3>2, <3>3
  <2> QED
    BY <2>1, <2>2
<1> QED
  BY <1>1, <1>2, <1>3, <1>4, <1>5 DEF Blank

ClearedAs(st, hp, h, r) ==
    /\ Detached(st, hp, h, r)
    /\ st[h].buf # None /\ hp[st[h].buf].refs = 1 =>
          r.obj = st[h] /\ r.heap[st[h].buf].bytes = Blank(hp[st[h].buf].bytes) /\ ~ r.null

LEMMA ClearedIs ==
  ASSUME NEW st, NEW hp, NEW h \in Strings, Fits(hp, st), CapFits(hp, st[h]),
         st[h].buf # Gone, NEW r \in Cleared(hp, st[h])
  PROVE  ClearedAs(st, hp, h, r)
<1>1. PICK d \in Detach(hp, st[h]) :
        r = IF d.null \/ d.obj.buf = None THEN d
            ELSE [d EXCEPT !.heap[d.obj.buf].bytes = Written(@, 0, Zeros(Len(CString(@))))]
  BY Zenon DEF Cleared
<1>2. Detached(st, hp, h, d)
  BY DetachIs
<1>4. CASE d.null \/ d.obj.buf = None
  <2>1. r = d
    BY <1>1, <1>4, Zenon
  <2>2. ~ (st[h].buf # None /\ hp[st[h].buf].refs = 1)
    <3> SUFFICES ASSUME st[h].buf # None, hp[st[h].buf].refs = 1 PROVE FALSE
      OBVIOUS
    <3>1. d = Outcome(hp, st[h])
      BY DEF Detach
    <3>2. d.null = FALSE /\ d.obj = st[h]
      BY <3>1 DEF Outcome
    <3> QED
      BY <1>4, <3>2, Zenon
  <2> QED
    BY <1>2, <2>1, <2>2, Zenon DEF ClearedAs
<1>5. CASE ~ d.null /\ d.obj.buf # None
  <2>0. OnItsOwn(st, hp, h, d)
    BY <1>2, <1>5, Zenon DEF OnItsOwn
  <2>1. PICK bytes : bytes = Blank(d.heap[d.obj.buf].bytes)
    OBVIOUS
  <2>2. bytes \in Seq(Int) /\ Len(bytes) = Len(d.heap[d.obj.buf].bytes)
    BY <2>0, <2>1, DetachedBytes, BlankIs
  <2>3. r = [d EXCEPT !.heap[d.obj.buf].bytes = Written(@, 0, Zeros(Len(CString(@))))]
    BY <1>1, <1>5, Zenon
  <2>4. r = NewBytes(d, bytes)
    BY <2>1, <2>3 DEF NewBytes, BytesAt, Blank
  <2>5. OnItsOwn(st, hp, h, r) /\ r.obj = d.obj /\ r.heap[d.obj.buf].bytes = bytes
    BY <2>0, <2>2, <2>4, NewBytesIs
  <2>6. ASSUME st[h].buf # None, hp[st[h].buf].refs = 1
        PROVE  r.obj = st[h] /\ r.heap[st[h].buf].bytes = Blank(hp[st[h].buf].bytes)
    <3>1. d = Outcome(hp, st[h])
      BY <2>6 DEF Detach
    <3>2. d.heap = hp /\ d.obj = st[h]
      BY <3>1 DEF Outcome
    <3> QED
      BY <2>1, <2>5, <3>2
  <2> QED
    BY <2>5, <2>6, Zenon DEF OnItsOwn, ClearedAs
<1> QED
  BY <1>4, <1>5, Zenon

-----------------------------------------------------------------------------
(* The calls that give a string another text                                *)

\* A step of a step: string h first became o1, and then o2.
LEMMA KeptAgain ==
  ASSUME NEW st, NEW hp, NEW h \in Strings, NEW hp1, NEW o1, NEW st1, st1 = [st EXCEPT ![h] = o1],
         OthersSame(st, hp, hp1, h), st \in [Strings -> StrObject],
         NEW hp2, NEW o2, Kept(st1, hp1, h, hp2, o2)
  PROVE  Kept(st, hp, h, hp2, o2)
<1>1. [st1 EXCEPT ![h] = o2] = [st EXCEPT ![h] = o2]
  OBVIOUS
<1>2. \A g \in Strings : g # h => st1[g] = st[g]
  OBVIOUS
<1>3. OthersSame(st, hp, hp2, h)
  BY <1>2 DEF OthersSame, Kept
<1> QED
  BY <1>1, <1>3 DEF Kept

\* A new block for a string that lets go of the one it had.
Fresh(st, hp, h, bytes, c, hp2, o2) ==
    /\ c \in 1..MaxBlocks /\ o2 \in StrObject /\ o2.buf = c /\ o2.unsure = "no"
    /\ Kept(st, hp, h, hp2, o2)
    /\ hp2[c].bytes = bytes /\ hp2[c].refs = 1

LEMMA FreshKept ==
  ASSUME NEW st, NEW hp, NEW h \in Strings, Fits(hp, st), st[h].buf # Gone,
         NEW cap \in Nat, NEW bytes \in Seq(Int), Len(bytes) = cap + 1,
         NEW a \in Alloc(hp, bytes), a.block # None, NEW o \in StrObject
  PROVE  Fresh(st, hp, h, bytes, a.block, LetGo(a.heap, st[h]), At(o, a.block, cap))
<1>1. PICK c : c = a.block
  OBVIOUS
<1>2. /\ c \in 1..MaxBlocks /\ FitsWith(a.heap, st, c) /\ OthersSame(st, hp, a.heap, h)
      /\ a.heap[c].bytes = bytes /\ a.heap[c].refs = 1
  BY <1>1, AllocFits
<1>3. c \in 0..MaxBlocks
  BY <1>2
<1>4. /\ At(o, c, cap) \in StrObject /\ At(o, c, cap).buf = c /\ At(o, c, cap).cap = cap
      /\ At(o, c, cap).unsure = "no"
  BY <1>3, AtIs
<1>5. CapFits(a.heap, At(o, c, cap))
  BY <1>2, <1>4 DEF CapFits
<1>6. /\ Kept(st, hp, h, LetGo(a.heap, st[h]), At(o, c, cap))
      /\ LetGo(a.heap, st[h])[c].bytes = a.heap[c].bytes
  BY <1>2, <1>3, <1>4, <1>5, ReplacedKept
<1>7. LetGo(a.heap, st[h])[c].refs = 1
  <2>1. CASE st[h].buf = None
    BY <1>2, <2>1 DEF LetGo
  <2>2. CASE st[h].buf # None
    <3>1. PICK b \in 0..MaxBlocks : b = st[h].buf
      BY <2>2 DEF Fits, FitsWith, StrObject
    <3>2. a.heap[b].refs \in Nat /\ a.heap[b].refs > 0 /\ (c = b => a.heap[b].refs > 1)
      BY <1>2, <3>1, OnBlock
    <3>3. c # b
      BY <1>2, <3>2
    <3>4. HeapOK(a.heap)
      BY <1>2 DEF FitsWith
    <3>5. \A x \in (0..MaxBlocks) \ {b} : Release(a.heap, b)[x] = a.heap[x]
      BY <3>2, <3>4, ReleaseIs
    <3>6. LetGo(a.heap, st[h]) = Release(a.heap, b)
      BY <2>2, <3>1 DEF LetGo
    <3> QED
      BY <1>2, <1>3, <3>3, <3>5, <3>6
  <2> QED
    BY <2>1, <2>2
<1> QED
  BY <1>1, <1>2, <1>4, <1>6, <1>7 DEF Fresh

\* A text as the program passes it.
LEMMA TextFits ==
  ASSUME NEW t \in Texts
  PROVE  /\ t \in Seq(Int) /\ Len(t) \in Nat /\ Len(t) > 0
         /\ \A i \in 1..Len(t) : t[i] \in Int /\ t[i] # NUL
         /\ Append(t, NUL) \in Seq(Int) /\ Len(Append(t, NUL)) = Len(t) + 1
<1>1. t \in Seq(Chars) /\ t # <<>> /\ Chars \subseteq Int \ {NUL}
  BY StringsAssumption
<1>2. Len(t) \in Nat /\ \A i \in 1..Len(t) : t[i] \in Chars
  BY <1>1, ElementOfSeq
<1>3. t \in Seq(Int)
  <2>1. \A i \in 1..Len(t) : t[i] \in Int
    BY <1>1, <1>2
  <2>2. t = [i \in 1..Len(t) |-> t[i]]
    BY <1>1
  <2> QED
    BY <1>2, <2>1, <2>2, SeqOfFunction
<1>4. Len(t) > 0
  BY <1>1, <1>2, <1>3, EmptySeq
<1> QED
  BY <1>1, <1>2, <1>3, <1>4 DEF NUL

\* Written at the start of a fresh block, a text is the text of the block.
LEMMA FreshText ==
  ASSUME NEW t \in Texts, NEW n \in Nat, Len(t) < n
  PROVE  CString(Written(Zeros(n), 0, t)) = t
<1>1. /\ t \in Seq(Int) /\ Len(t) \in Nat /\ \A i \in 1..Len(t) : t[i] # NUL
  BY TextFits
<1>2. PICK z \in Seq(Int) : z = Zeros(n) /\ Len(z) = n /\ \A i \in 1..n : z[i] = NUL
  BY ZerosAre
<1>3. PICK w \in Seq(Int) :
        /\ w = Written(z, 0, t) /\ Len(w) = Len(z)
        /\ \A i \in 1..Len(z) : /\ i \in (0 + 1)..(0 + Len(t)) => w[i] = t[i - 0]
                                /\ i \notin (0 + 1)..(0 + Len(t)) => w[i] = z[i]
  BY <1>1, WrittenIs
<1>4. ASSUME NEW i \in 1..Len(t) PROVE w[i] = t[i]
  <2>1. i \in 1..Len(z) /\ i \in (0 + 1)..(0 + Len(t)) /\ i - 0 = i
    BY <1>1, <1>2
  <2>2. w[i] = t[i - 0]
    BY <1>3, <2>1, Zenon
  <2> QED
    BY <2>1, <2>2
<1>5. w[Len(t) + 1] = NUL
  <2>1. Len(t) + 1 \in 1..Len(z) /\ Len(t) + 1 \notin (0 + 1)..(0 + Len(t)) /\ Len(t) + 1 \in 1..n
    BY <1>1, <1>2
  <2>2. w[Len(t) + 1] = z[Len(t) + 1]
    BY <1>3, <2>1, Zenon
  <2> QED
    BY <1>2, <2>1, <2>2
<1>6. CString(w) = t
  BY <1>1, <1>2, <1>3, <1>4, <1>5, TextShown, SMTT(30)
<1> QED
  BY <1>2, <1>3, <1>6

\* A text in a block of just its size.
LEMMA OwnText ==
  ASSUME NEW t \in Texts
  PROVE  CString(Append(t, NUL)) = t
<1>1. /\ t \in Seq(Int) /\ Len(t) \in Nat /\ \A i \in 1..Len(t) : t[i] # NUL
      /\ Append(t, NUL) \in Seq(Int) /\ Len(Append(t, NUL)) = Len(t) + 1
  BY TextFits
<1>2. PICK a \in Seq(Int) : a = Append(t, NUL) /\ Len(a) = Len(t) + 1
  BY <1>1
<1>3. ASSUME NEW i \in 1..Len(t) PROVE a[i] = t[i]
  BY <1>1, <1>2
<1>4. a[Len(t) + 1] = NUL
  BY <1>1, <1>2
<1>5. Len(t) <= Len(a)
  BY <1>1, <1>2
<1>6. CString(a) = t
  BY <1>1, <1>2, <1>3, <1>4, <1>5, TextShown
<1> QED
  BY <1>2, <1>6

\* allocFromUTF8(): the empty block, or a new one of just the size of the text.
Given(st, hp, h, data, f) ==
    /\ IsOutcome(f) /\ f.bad = FALSE /\ f.null = FALSE
    /\ f.obj \in StrObject /\ f.obj.buf \in 0..MaxBlocks /\ f.obj.unsure = "no"
    /\ FitsWith(f.heap, st, f.obj.buf) /\ OthersSame(st, hp, f.heap, h) /\ CapFits(f.heap, f.obj)
    /\ \/ f.obj.cap = 0
       \/ f.heap[f.obj.buf].bytes = Append(data, NUL)

LEMMA FromCharsIs ==
  ASSUME NEW st, NEW hp, NEW h \in Strings, Fits(hp, st),
         NEW data \in Seq(Int), NEW f \in FromChars(hp, data)
  PROVE  Given(st, hp, h, data, f)
<1>1. CASE data = <<>> \/ Len(data) >= MaxLen
  <2>1. f = Outcome(Acquire(hp, Empty), EmptyString)
    BY <1>1 DEF FromChars
  <2>2. EmptyString = [buf |-> Empty, cap |-> 0, unsure |-> "no"]
    BY DEF EmptyString, NoString
  <2>3. /\ EmptyString \in StrObject /\ EmptyString.buf = Empty /\ EmptyString.cap = 0 /\ EmptyString.unsure = "no"
    BY <2>2, NoBlockNumbers DEF StrObject
  <2>4. PICK hp1 : hp1 = Acquire(hp, Empty)
    OBVIOUS
  <2>5. /\ FitsWith(hp1, st, Empty) /\ OthersSame(st, hp, hp1, h)
    BY <2>4, EmptyThere, AcquireFits, NoBlockNumbers
  <2>6. CapFits(hp1, EmptyString)
    BY <2>3, <2>5 DEF CapFits, FitsWith
  <2>7. f = [heap |-> hp1, obj |-> EmptyString, bad |-> FALSE, null |-> FALSE]
    BY <2>1, <2>4 DEF Outcome
  <2>8. f.heap = hp1 /\ f.obj = EmptyString /\ f.bad = FALSE /\ f.null = FALSE
    BY <2>7
  <2>9. IsOutcome(f)
    BY <2>7, <2>8 DEF IsOutcome
  <2> QED
    BY <2>3, <2>5, <2>6, <2>8, <2>9, NoBlockNumbers DEF Given
<1>2. CASE ~ (data = <<>> \/ Len(data) >= MaxLen)
  <2>1. PICK bytes \in Seq(Int) : bytes = Append(data, NUL) /\ Len(bytes) = Len(data) + 1
    <3>1. NUL \in Int
      BY DEF NUL
    <3> QED
      BY <3>1, AppendProperties
  <2>2. PICK a \in Alloc(hp, bytes) : a.block # None /\ f = Outcome(a.heap, At(NoString, a.block, Len(data)))
    BY <1>2, <2>1 DEF FromChars
  <2>3. PICK c : c = a.block
    OBVIOUS
  <2>4. /\ c \in 1..MaxBlocks /\ FitsWith(a.heap, st, c) /\ OthersSame(st, hp, a.heap, h)
        /\ a.heap[c].bytes = bytes
    BY <2>2, <2>3, AllocFits
  <2>5. c \in 0..MaxBlocks /\ Len(data) \in Nat
    BY <2>4
  <2>6. NoString \in StrObject
    BY NoBlockNumbers DEF NoString, StrObject
  <2>7. PICK o2 : o2 = At(NoString, c, Len(data))
    OBVIOUS
  <2>8. o2 \in StrObject /\ o2.buf = c /\ o2.cap = Len(data) /\ o2.unsure = "no"
    BY <2>5, <2>6, <2>7, AtIs
  <2>9. CapFits(a.heap, o2)
    BY <2>1, <2>4, <2>8 DEF CapFits
  <2>10. f = [heap |-> a.heap, obj |-> o2, bad |-> FALSE, null |-> FALSE]
    BY <2>2, <2>3, <2>7 DEF Outcome
  <2>11. f.heap = a.heap /\ f.obj = o2 /\ f.bad = FALSE /\ f.null = FALSE
    BY <2>10
  <2>12. IsOutcome(f)
    BY <2>10, <2>11 DEF IsOutcome
  <2> QED
    BY <2>1, <2>4, <2>5, <2>8, <2>9, <2>11, <2>12 DEF Given
<1> QED
  BY <1>1, <1>2

\* What an assignment leaves: the text, unless mCapacity is wrong or what is
\* behind the old text shows.
Shows(st, hp, h, t, hp2, o2) ==
    o2.buf # None /\ o2.unsure = "no" =>
        \/ TextOf(hp2, o2) = t
        \/ \E i \in (Len(TextOf(hp, st[h])) + 2)..Len(hp[st[h].buf].bytes) : hp[st[h].buf].bytes[i] # NUL

SetSafe(st, hp, h, t, r) == Safe(st, hp, h, r) /\ Shows(st, hp, h, t, r.heap, r.obj)

\* A text in a new block: whatever the string had, it lets go of that.
FreshlyWritten(st, hp, h, n, t, b, w) ==
    /\ Safe(st, hp, h, w) /\ w.obj.buf = b /\ b \in 1..MaxBlocks
    /\ w.heap[b].bytes = Written(Zeros(Room(n) + 1), 0, t)

LEMMA FreshSafe ==
  ASSUME NEW st, NEW hp, NEW h \in Strings, Fits(hp, st), st[h].buf # Gone,
         NEW n \in Nat, NEW t \in Seq(Int), Len(t) <= n,
         NEW a \in Alloc(hp, Zeros(Room(n) + 1)), a.block # None, NEW o \in StrObject
  PROVE  FreshlyWritten(st, hp, h, n, t, a.block,
                        Writes(Outcome(LetGo(a.heap, st[h]), At(o, a.block, Room(n))), 0, t))
<1>1. PICK cap \in Nat, bytes \in Seq(Int) :
        cap = Room(n) /\ bytes = Zeros(Room(n) + 1) /\ Len(bytes) = cap + 1 /\ n <= cap
  BY RoomIs
<1>2. PICK hp2 : hp2 = LetGo(a.heap, st[h])
  OBVIOUS
<1>3. PICK o2 : o2 = At(o, a.block, cap)
  OBVIOUS
<1>4. PICK b : b = a.block
  OBVIOUS
<1>5. Fresh(st, hp, h, bytes, b, hp2, o2)
  <2>1. a \in Alloc(hp, bytes)
    BY <1>1
  <2> QED
    BY <1>1, <1>2, <1>3, <1>4, <2>1, FreshKept
<1>6. PICK d : d = Outcome(hp2, o2)
  OBVIOUS
<1>7. IsOutcome(d) /\ d.heap = hp2 /\ d.obj = o2
  BY <1>6, OutcomeIs
<1>8. b \in 0..MaxBlocks /\ b \in 1..MaxBlocks
  BY <1>5 DEF Fresh
<1>9. /\ Ready(st, hp, h, d, b) /\ d.heap[b].bytes = bytes /\ d.obj.buf = b
  BY <1>5, <1>7, <1>8 DEF Fresh, Ready
<1>10. 0 + Len(t) <= Len(d.heap[b].bytes)
  BY <1>1, <1>9
<1>11. PICK w : w = Writes(d, 0, t)
  OBVIOUS
<1>12. Wrote(st, hp, h, d, b, 0, t, w)
  BY <1>9, <1>10, <1>11, WritesSafe
<1> QED
  BY <1>1, <1>2, <1>3, <1>4, <1>6, <1>8, <1>9, <1>11, <1>12 DEF Wrote, FreshlyWritten

\* A text for a string that has no block: there may be no room for it.
TextInto(hp, o, old, t) ==
    GetBuffer(hp, o, Len(t), LAMBDA hp2, b, cap : Writes(Outcome(hp2, At(old, b, cap)), 0, t))

GotText(st, hp, h, t, r) == Safe(st, hp, h, r) /\ (r.obj.buf # None => TextOf(r.heap, r.obj) = t)

LEMMA TextIntoIs ==
  ASSUME NEW st, NEW hp, NEW h \in Strings, Fits(hp, st), st[h].buf = None,
         NEW t \in Texts, NEW old \in StrObject, NEW r \in TextInto(hp, st[h], old, t)
  PROVE  GotText(st, hp, h, t, r)
<1>0. PICK o : o = st[h]
  OBVIOUS
<1>1. o \in StrObject /\ o.buf = None /\ o.buf < Empty /\ o.buf # Gone /\ CapFits(hp, o)
  BY <1>0 DEF Fits, FitsWith, CapFits, None, Gone, Empty
<1>2. t \in Seq(Int) /\ Len(t) \in Nat
  BY TextFits
<1>3. \/ GotNothing(hp, o, Len(t), r)
      \/ \E a \in Alloc(hp, Zeros(Room(Len(t)) + 1)) :
            a.block # None /\ r = Writes(Outcome(a.heap, At(old, a.block, Room(Len(t)))), 0, t)
  BY <1>0 DEF TextInto, GetBuffer, GotNothing, Room
<1>4. CASE GotNothing(hp, o, Len(t), r)
  <2>1. PICK o2 : r = Outcome(hp, o2) /\ o2.buf = o.buf /\ Kept(st, hp, h, hp, o2)
    BY <1>0, <1>1, <1>2, <1>4, GotNothingSafe
  <2>2. Safe(st, hp, h, r)
    BY <2>1, OutcomeSafe
  <2>3. r.obj = o2
    BY <2>1 DEF Outcome
  <2> QED
    BY <1>1, <2>1, <2>2, <2>3 DEF GotText
<1>5. ASSUME NEW a \in Alloc(hp, Zeros(Room(Len(t)) + 1)), a.block # None,
             r = Writes(Outcome(a.heap, At(old, a.block, Room(Len(t)))), 0, t)
      PROVE  GotText(st, hp, h, t, r)
  <2>1. LetGo(a.heap, st[h]) = a.heap
    BY <1>0, <1>1 DEF LetGo
  <2>2. Len(t) <= Len(t)
    BY <1>2
  <2>3. FreshlyWritten(st, hp, h, Len(t), t, a.block, r)
    BY <1>0, <1>1, <1>2, <1>5, <2>1, <2>2, FreshSafe
  <2>4. Room(Len(t)) + 1 \in Nat /\ Len(t) < Room(Len(t)) + 1
    BY <1>2, RoomIs
  <2>5. CString(r.heap[a.block].bytes) = t
    BY <2>3, <2>4, FreshText DEF FreshlyWritten
  <2>6. ~ (r.obj.buf < Empty)
    BY <2>3 DEF FreshlyWritten, Empty
  <2> QED
    BY <2>3, <2>5, <2>6 DEF FreshlyWritten, GotText, TextOf
<1> QED
  BY <1>3, <1>4, <1>5

\* A text over the NULs of an old one.
LEMMA OverText ==
  ASSUME NEW old \in Seq(Int), NEW t \in Texts, Len(t) < Len(old)
  PROVE  \/ CString(Written(Blank(old), 0, t)) = t
         \/ \E i \in (Len(CString(old)) + 2)..Len(old) : old[i] # NUL
<1> SUFFICES ASSUME \A i \in (Len(CString(old)) + 2)..Len(old) : old[i] = NUL
             PROVE  CString(Written(Blank(old), 0, t)) = t
  OBVIOUS
<1>1. /\ t \in Seq(Int) /\ Len(t) \in Nat /\ \A i \in 1..Len(t) : t[i] # NUL
  BY TextFits
<1>2. PICK n \in Nat : n = Len(CString(old))
  BY TextIs
<1>3. PICK z \in Seq(Int) :
        /\ z = Blank(old) /\ Len(z) = Len(old)
        /\ \A i \in 1..Len(old) : /\ i <= n + 1 => z[i] = NUL
                                  /\ i > n => z[i] = old[i]
  BY <1>2, BlankIs
<1>4. PICK w \in Seq(Int) :
        /\ w = Written(z, 0, t) /\ Len(w) = Len(z)
        /\ \A i \in 1..Len(z) : /\ i \in (0 + 1)..(0 + Len(t)) => w[i] = t[i - 0]
                                /\ i \notin (0 + 1)..(0 + Len(t)) => w[i] = z[i]
  BY <1>1, WrittenIs
<1>5. ASSUME NEW i \in 1..Len(t) PROVE w[i] = t[i]
  <2>1. i \in 1..Len(z) /\ i \in (0 + 1)..(0 + Len(t)) /\ i - 0 = i
    BY <1>1, <1>3
  <2>2. w[i] = t[i - 0]
    BY <1>4, <2>1, Zenon
  <2> QED
    BY <2>1, <2>2
<1>6. PICK k \in 1..Len(old) : k = Len(t) + 1
  <2>1. Len(t) + 1 \in 1..Len(old)
    BY <1>1
  <2> QED
    BY <2>1
<1>7. w[k] = NUL
  <2>1. k \in 1..Len(z) /\ k \notin (0 + 1)..(0 + Len(t))
    BY <1>1, <1>3, <1>6
  <2>2. w[k] = z[k]
    BY <1>4, <2>1, Zenon
  <2>3. CASE k <= n + 1
    BY <1>3, <2>2, <2>3
  <2>4. CASE k > n + 1
    <3>1. k \in (n + 2)..Len(old) /\ k > n
      BY <2>4
    <3>2. old[k] = NUL
      BY <1>2, <3>1
    <3> QED
      BY <1>3, <2>2, <3>1, <3>2
  <2> QED
    BY <2>3, <2>4
<1>8. CString(w) = t
  <2>1. Len(t) <= Len(w) /\ w[Len(t) + 1] = NUL
    BY <1>1, <1>3, <1>4, <1>6, <1>7
  <2> QED
    BY <1>1, <1>5, <2>1, TextShown
<1> QED
  BY <1>3, <1>4, <1>8

\* The ways of an assignment.
OnGiven(o, f) == [o EXCEPT !.buf = f.obj.buf,
                           !.unsure = IF f.obj.cap = o.cap \/ o.unsure = "memory" THEN o.unsure ELSE "shared"]

Shared(hp, o, t) == {Outcome(LetGo(f.heap, o), OnGiven(o, f)) : f \in FromChars(hp, t)}

LEMMA SetToCases ==
  ASSUME NEW hp, NEW o, o.cap \in Nat, NEW t, Len(t) \in Nat
  PROVE  /\ o.buf = None => SetTo(hp, o, t) = TextInto(hp, o, o, t)
         /\ o.buf # None /\ o.cap < Len(t) => SetTo(hp, o, t) = TextInto(LetGo(hp, o), NullString, o, t)
         /\ o.buf # None /\ o.cap >= Len(t) /\ hp[o.buf].refs = 1 =>
               SetTo(hp, o, t) = {Writes(c, 0, t) : c \in Cleared(hp, o)}
         /\ o.buf # None /\ o.cap >= Len(t) /\ hp[o.buf].refs # 1 => SetTo(hp, o, t) = Shared(hp, o, t)
<1>1. ASSUME o.buf = None PROVE SetTo(hp, o, t) = TextInto(hp, o, o, t)
  BY <1>1 DEF SetTo, TextInto, GetBuffer
<1>2. ASSUME o.buf # None, o.cap < Len(t)
      PROVE  SetTo(hp, o, t) = TextInto(LetGo(hp, o), NullString, o, t)
  <2>1. ~ (o.cap >= Len(t))
    BY <1>2
  <2> QED
    BY <1>2, <2>1, Zenon DEF SetTo, TextInto, GetBuffer
<1>3. ASSUME o.buf # None, o.cap >= Len(t), hp[o.buf].refs = 1
      PROVE  SetTo(hp, o, t) = {Writes(c, 0, t) : c \in Cleared(hp, o)}
  <2>1. ~ (o.cap < Len(t))
    BY <1>3
  <2> QED
    BY <1>3, <2>1, Zenon DEF SetTo, GetBuffer
<1>4. ASSUME o.buf # None, o.cap >= Len(t), hp[o.buf].refs # 1
      PROVE  SetTo(hp, o, t) = Shared(hp, o, t)
  <2>1. ~ (o.cap < Len(t))
    BY <1>4
  <2> QED
    BY <1>4, <2>1, Zenon DEF SetTo, Shared, OnGiven, GetBuffer
<1> QED
  BY <1>1, <1>2, <1>3, <1>4

LEMMA SetToIs ==
  ASSUME NEW st, NEW hp, NEW h \in Strings, Fits(hp, st), CapFits(hp, st[h]),
         st[h].buf # Gone, NEW t \in Texts, NEW r \in SetTo(hp, st[h], t)
  PROVE  SetSafe(st, hp, h, t, r)
<1>0. PICK o : o = st[h]
  OBVIOUS
<1>1. /\ o \in StrObject /\ o.buf # Gone /\ CapFits(hp, o) /\ st \in [Strings -> StrObject]
      /\ o.cap \in Nat
  BY <1>0 DEF Fits, FitsWith, StrObject
<1>2. t \in Seq(Int) /\ Len(t) \in Nat /\ Len(t) > 0
  BY TextFits
<1>3. CASE o.buf = None
  <2>1. r \in TextInto(hp, o, o, t)
    BY <1>0, <1>1, <1>2, <1>3, SetToCases
  <2>2. GotText(st, hp, h, t, r)
    BY <1>0, <1>1, <1>3, <2>1, TextIntoIs
  <2> QED
    BY <2>2 DEF GotText, SetSafe, Shows
<1>4. CASE o.buf # None /\ o.cap < Len(t)
  <2>1. PICK hp1 : hp1 = LetGo(hp, o)
    OBVIOUS
  <2>2. r \in TextInto(hp1, NullString, o, t)
    BY <1>0, <1>1, <1>2, <1>4, <2>1, SetToCases
  <2>3. NullString = [buf |-> None, cap |-> 0, unsure |-> "no"]
    BY DEF NullString, NoString
  <2>4. NullString \in StrObject /\ NullString.buf = None /\ NullString.buf < Empty
    BY <2>3, NoBlockNumbers DEF StrObject
  <2>5. PICK st1 : st1 = [st EXCEPT ![h] = NullString]
    OBVIOUS
  <2>6. FitsWith(hp1, st1, None) /\ OthersSame(st, hp, hp1, h) /\ st1[h] = NullString
    BY <1>0, <1>1, <2>1, <2>4, <2>5, LetGoFits DEF Fits
  <2>7. GotText(st1, hp1, h, t, r)
    BY <1>1, <2>2, <2>4, <2>6, TextIntoIs DEF Fits
  <2>8. Kept(st, hp, h, r.heap, r.obj)
    BY <1>1, <2>5, <2>6, <2>7, KeptAgain DEF GotText, Safe
  <2> QED
    BY <2>7, <2>8 DEF GotText, SetSafe, Shows, Safe
<1>5. CASE o.buf # None /\ o.cap >= Len(t) /\ hp[o.buf].refs = 1
  <2>0. SetTo(hp, o, t) = {Writes(c, 0, t) : c \in Cleared(hp, o)}
    BY <1>1, <1>2, <1>5, SetToCases
  <2>1. PICK c \in Cleared(hp, o) : r = Writes(c, 0, t)
    BY <1>0, <2>0, Zenon
  <2>2. PICK b \in 0..MaxBlocks : b = o.buf
    BY <1>1, <1>5 DEF StrObject
  <2>3. PICK old \in Seq(Int) : old = hp[b].bytes
    BY <2>2 DEF Fits, FitsWith, HeapOK, Block
  <2>4. Detached(st, hp, h, c) /\ c.obj = o /\ c.heap[b].bytes = Blank(old) /\ ~ c.null
    <3>1. ClearedAs(st, hp, h, c)
      BY <1>0, <1>1, <2>1, ClearedIs
    <3> QED
      BY <1>0, <1>5, <2>2, <2>3, <3>1, Zenon DEF ClearedAs
  <2>5. OnItsOwn(st, hp, h, c)
    BY <1>5, <2>4, Zenon DEF OnItsOwn
  <2>6. Ready(st, hp, h, c, b)
    <3>1. IsOutcome(c)
      BY <2>4, Zenon DEF Detached
    <3> QED
      BY <2>2, <2>4, <2>5, <3>1, DetachedBytes DEF Ready
  <2>7. Blank(old) \in Seq(Int) /\ Len(Blank(old)) = Len(old)
    BY BlankIs
  <2>8. o.unsure = "no" => Len(t) < Len(old)
    BY <1>0, <1>1, <1>2, <1>5, <2>2, <2>3 DEF CapFits, Empty
  <2>9. c.obj.unsure = "no" => 0 + Len(t) <= Len(c.heap[b].bytes)
    BY <1>2, <2>4, <2>7, <2>8
  <2>10. Wrote(st, hp, h, c, b, 0, t, r)
    BY <1>2, <2>1, <2>6, <2>9, WritesSafe
  <2>11. Safe(st, hp, h, r) /\ r.obj = o /\ r.heap[b].bytes = Written(Blank(old), 0, t)
    BY <2>4, <2>10 DEF Wrote
  <2>12. b >= Empty /\ ~ (b < Empty)
    BY DEF Empty
  <2>13. TextOf(hp, o) = CString(old) /\ TextOf(r.heap, r.obj) = CString(r.heap[b].bytes)
    BY <2>2, <2>3, <2>11, <2>12 DEF TextOf
  <2>14. Shows(st, hp, h, t, r.heap, r.obj)
    BY <1>0, <2>2, <2>3, <2>8, <2>11, <2>13, OverText DEF Shows
  <2> QED
    BY <2>11, <2>14 DEF SetSafe
<1>6. CASE o.buf # None /\ o.cap >= Len(t) /\ hp[o.buf].refs # 1
  <2>1. PICK f \in FromChars(hp, t) :
          r = Outcome(LetGo(f.heap, o), OnGiven(o, f))
    <3>1. SetTo(hp, o, t) = Shared(hp, o, t)
      BY <1>1, <1>2, <1>6, SetToCases
    <3> QED
      BY <1>0, <3>1, Zenon DEF Shared
  <2>2. Given(st, hp, h, t, f)
    BY <1>2, FromCharsIs
  <2>3. PICK c \in 0..MaxBlocks : c = f.obj.buf
    BY <2>2 DEF Given
  <2>4. PICK o2 : o2 = OnGiven(o, f)
    OBVIOUS
  <2>5. /\ o2 \in StrObject /\ o2.buf = c /\ o2.cap = o.cap
        /\ o2.unsure = "no" => f.obj.cap = o.cap
    BY <1>1, <2>3, <2>4 DEF StrObject, OnGiven
  <2>6. CapFits(f.heap, o2)
    BY <2>2, <2>3, <2>5 DEF Given, CapFits
  <2>7. /\ Kept(st, hp, h, LetGo(f.heap, o), o2)
        /\ LetGo(f.heap, o)[c].bytes = f.heap[c].bytes
    BY <1>0, <1>1, <2>2, <2>3, <2>5, <2>6, ReplacedKept DEF Given
  <2>8. r = Outcome(LetGo(f.heap, o), o2)
    BY <2>1, <2>4
  <2>9. Safe(st, hp, h, r)
    BY <2>7, <2>8, OutcomeSafe
  <2>10. r.heap = LetGo(f.heap, o) /\ r.obj = o2
    BY <2>8 DEF Outcome
  <2>11. ASSUME o2.unsure = "no" PROVE TextOf(r.heap, o2) = t
    <3>1. f.obj.cap # 0
      BY <1>1, <1>2, <1>6, <2>5, <2>11
    <3>2. r.heap[c].bytes = Append(t, NUL)
      BY <2>2, <2>3, <2>7, <2>10, <3>1 DEF Given
    <3>3. ~ (o2.buf < Empty)
      BY <2>5 DEF Empty
    <3> QED
      BY <2>5, <3>2, <3>3, OwnText DEF TextOf
  <2> QED
    BY <2>9, <2>10, <2>11 DEF SetSafe, Shows
<1> QED
  BY <1>1, <1>2, <1>3, <1>4, <1>5, <1>6

\* The text of a string that is on a block.
LEMMA TextOfIs ==
  ASSUME NEW hp, HeapOK(hp), NEW o \in StrObject
  PROVE  /\ TextOf(hp, o) \in Seq(Int) /\ Len(TextOf(hp, o)) \in Nat
         /\ o.buf < Empty => Len(TextOf(hp, o)) = 0
<1>1. CASE o.buf < Empty
  BY <1>1 DEF TextOf
<1>2. CASE ~ (o.buf < Empty)
  <2>1. o.buf \in 0..MaxBlocks
    BY <1>2, NoBlockNumbers DEF StrObject
  <2>2. PICK bytes \in Seq(Int) : bytes = hp[o.buf].bytes
    BY <2>1 DEF HeapOK, Block
  <2>3. TextOf(hp, o) = CString(bytes)
    BY <1>2, <2>2 DEF TextOf
  <2> QED
    BY <1>2, <2>2, <2>3, TextIs
<1> QED
  BY <1>1, <1>2

\* n bytes and the NUL after the text of a string on its own block.
LEMMA TailSafe ==
  ASSUME NEW st, NEW hp, NEW h \in Strings, Fits(hp, st),
         NEW d, OnItsOwn(st, hp, h, d), NEW t \in Texts, NEW len \in Nat, len + Len(t) <= d.obj.cap
  PROVE  Safe(st, hp, h, Writes(d, len, Append(t, NUL)))
<1>1. PICK data \in Seq(Int) : data = Append(t, NUL) /\ Len(data) = Len(t) + 1 /\ Len(t) \in Nat
  BY TextFits
<1>2. PICK b : b = d.obj.buf
  OBVIOUS
<1>3. /\ b \in 0..MaxBlocks /\ d.heap[b].refs = 1 /\ Kept(st, hp, h, d.heap, d.obj)
      /\ d.heap[b].bytes \in Seq(Int) /\ d.obj \in StrObject
  BY <1>2, DetachedBytes
<1>4. IsOutcome(d)
  BY Zenon DEF OnItsOwn, Detached
<1>5. Ready(st, hp, h, d, b)
  BY <1>2, <1>3, <1>4 DEF Ready
<1>6. d.obj.unsure = "no" => Len(d.heap[b].bytes) = d.obj.cap + 1
  BY <1>2, <1>3 DEF Kept, CapFits, Empty
<1>7. d.obj.unsure = "no" => len + Len(data) <= Len(d.heap[b].bytes)
  BY <1>1, <1>3, <1>6 DEF StrObject
<1>8. Wrote(st, hp, h, d, b, len, data, Writes(d, len, data))
  BY <1>5, <1>7, WritesSafe
<1> QED
  BY <1>1, <1>8 DEF Wrote

LEMMA AppendedIs ==
  ASSUME NEW st, NEW hp, NEW h \in Strings, Fits(hp, st), CapFits(hp, st[h]),
         st[h].buf # Gone, NEW t \in Texts, NEW r \in Appended(hp, st[h], t)
  PROVE  Safe(st, hp, h, r)
<1>0. PICK o : o = st[h]
  OBVIOUS
<1>1. o \in StrObject /\ st \in [Strings -> StrObject] /\ HeapOK(hp)
  BY <1>0 DEF Fits, FitsWith
<1>2. t \in Seq(Int) /\ Len(t) \in Nat
  BY TextFits
<1>3. PICK text \in Seq(Int) : /\ text = TextOf(hp, o) /\ Len(text) \in Nat
                               /\ o.buf < Empty => Len(text) = 0
  BY <1>1, TextOfIs
<1>4. CASE Len(text) = 0
  <2>1. r \in SetTo(hp, o, t)
    BY <1>0, <1>3, <1>4 DEF Appended, GetBuffer
  <2>2. SetSafe(st, hp, h, t, r)
    BY <1>0, <2>1, SetToIs
  <2> QED
    BY <2>2 DEF SetSafe
<1>5. CASE Len(text) # 0 /\ Len(text) + Len(t) < o.cap
  <2>1. PICK d \in Detach(hp, o) : r = IF d.null THEN d ELSE Writes(d, Len(text), Append(t, NUL))
    BY <1>0, <1>3, <1>5 DEF Appended, GetBuffer
  <2>2. Detached(st, hp, h, d)
    BY <1>0, <2>1, DetachIs
  <2>3. CASE d.null
    <3>1. r = d
      BY <2>1, <2>3
    <3> QED
      BY <2>2, <3>1, Zenon DEF Detached
  <2>4. CASE ~ d.null
    <3>1. r = Writes(d, Len(text), Append(t, NUL))
      BY <2>1, <2>4, Zenon
    <3>2. o.buf # None
      BY <1>3, <1>5, NoBlockNumbers
    <3>3. OnItsOwn(st, hp, h, d) /\ d.obj.cap = o.cap
      BY <1>0, <2>2, <2>4, <3>2, Zenon DEF Detached, OnItsOwn
    <3>4. Len(text) + Len(t) <= d.obj.cap
      BY <1>1, <1>2, <1>3, <1>5, <3>3 DEF StrObject
    <3> QED
      BY <1>3, <3>1, <3>3, <3>4, TailSafe
  <2> QED
    BY <2>3, <2>4
<1>6. CASE Len(text) # 0 /\ ~ (Len(text) + Len(t) < o.cap)
  <2>0. PICK n \in Nat : n = Len(text) + Len(t)
    BY <1>2, <1>3
  <2>1. PICK both \in Seq(Int) : both = text \o t /\ Len(both) <= n
    <3>1. text \o t \in Seq(Int)
      BY <1>2, <1>3, ConcatProperties
    <3>2. Len(text \o t) = Len(text) + Len(t)
      BY <1>2, <1>3, ConcatProperties
    <3>3. Len(text \o t) <= n
      BY <2>0, <3>2
    <3> QED
      BY <3>1, <3>3
  <2>2. \/ GotNothing(hp, o, n, r)
        \/ \E a \in Alloc(hp, Zeros(Room(n) + 1)) :
              a.block # None /\ r = Writes(Outcome(LetGo(a.heap, o), At(o, a.block, Room(n))), 0, both)
    BY <1>0, <1>3, <1>6, <2>0, <2>1 DEF Appended, GetBuffer, GotNothing, Room
  <2>3. CASE GotNothing(hp, o, n, r)
    <3>1. \E o2 : r = Outcome(hp, o2) /\ o2.buf = o.buf /\ Kept(st, hp, h, hp, o2)
      BY <1>0, <2>1, <2>3, GotNothingSafe
    <3> QED
      BY <3>1, OutcomeSafe
  <2>4. ASSUME NEW a \in Alloc(hp, Zeros(Room(n) + 1)), a.block # None,
               r = Writes(Outcome(LetGo(a.heap, o), At(o, a.block, Room(n))), 0, both)
        PROVE  Safe(st, hp, h, r)
    <3>1. FreshlyWritten(st, hp, h, n, both, a.block, r)
      BY <1>0, <1>1, <2>1, <2>4, FreshSafe
    <3> QED
      BY <3>1 DEF FreshlyWritten
  <2> QED
    BY <2>2, <2>3, <2>4
<1> QED
  BY <1>4, <1>5, <1>6

\* appendFormat() after its detach().
LEMMA FormattedIs ==
  ASSUME NEW st, NEW hp, NEW h \in Strings, Fits(hp, st),
         NEW d, Detached(st, hp, h, d), d.obj.buf # None, NEW t \in Texts, NEW r \in Formatted(d, t)
  PROVE  Safe(st, hp, h, r)
<1>1. CASE d.null
  <2>1. r = d
    BY <1>1 DEF Formatted
  <2> QED
    BY <2>1, Zenon DEF Detached
<1>2. CASE ~ d.null
  <2>1. OnItsOwn(st, hp, h, d)
    BY <1>2, Zenon DEF OnItsOwn
  <2>2. PICK hp1, o, b : hp1 = d.heap /\ o = d.obj /\ b = d.obj.buf
    OBVIOUS
  <2>3. /\ b \in 0..MaxBlocks /\ hp1[b].refs = 1 /\ Kept(st, hp, h, hp1, o) /\ HeapOK(hp1)
        /\ o \in StrObject /\ o.buf = b
    BY <2>1, <2>2, DetachedBytes
  <2>4. PICK len \in Nat : len = Len(TextOf(hp1, o))
    BY <2>3, TextOfIs
  <2>5. o.cap \in Nat /\ Len(t) \in Nat
    BY <2>3, TextFits DEF StrObject
  <2>6. CASE o.cap >= len + Len(t)
    <3>1. r = Writes(d, len, Append(t, NUL))
      BY <1>2, <2>2, <2>4, <2>6 DEF Formatted
    <3>2. len + Len(t) <= d.obj.cap
      BY <2>2, <2>5, <2>6
    <3> QED
      BY <2>1, <3>1, <3>2, TailSafe
  <2>7. CASE ~ (o.cap >= len + Len(t))
    <3>1. PICK n \in Nat : n = len + Len(t)
      BY <2>5
    <3>2. PICK a \in EditResize(hp1, b, n + 1) :
            r = IF a.block = None THEN d ELSE Writes(Outcome(a.heap, At(o, a.block, n)), len, Append(t, NUL))
      BY <1>2, <2>2, <2>4, <2>7, <3>1 DEF Formatted
    <3>3. OwnOutcome(hp1, b, a) /\ (a.block # None => Len(a.heap[a.block].bytes) = n + 1)
      BY <2>3, <3>2, EditResizeIs
    <3>4. CASE a.block = None
      <4>1. r = d
        BY <3>2, <3>4
      <4> QED
        BY <4>1, Zenon DEF Detached
    <3>5. CASE a.block # None
      <4>1. PICK c \in 0..MaxBlocks :
              c = a.block /\ HeapOK(a.heap) /\ OwnStep(hp1, b, a.heap, c) /\ a.heap[c].refs = 1
        BY <3>3, <3>5 DEF OwnOutcome
      <4>2. PICK o2 : o2 = At(o, c, n)
        OBVIOUS
      <4>3. o2 \in StrObject /\ o2.buf = c /\ o2.cap = n
        BY <2>3, <4>2, AtIs, ZenonT(30)
      <4>4. CapFits(a.heap, o2)
        BY <3>3, <3>5, <4>1, <4>3 DEF CapFits
      <4>5. PICK st1 : st1 = [st EXCEPT ![h] = o]
        OBVIOUS
      <4>6. Fits(hp1, st1) /\ st1[h] = o /\ OthersSame(st, hp, hp1, h) /\ st \in [Strings -> StrObject]
        BY <2>3, <4>5 DEF Kept, Fits, FitsWith
      <4>7. Fits(a.heap, [st1 EXCEPT ![h] = o2]) /\ OthersSame(st1, hp1, a.heap, h)
        BY <2>3, <4>1, <4>3, <4>6, OwnFits
      <4>8. Kept(st1, hp1, h, a.heap, o2)
        BY <4>3, <4>4, <4>7 DEF Kept
      <4>9. Kept(st, hp, h, a.heap, o2)
        BY <4>5, <4>6, <4>8, KeptAgain
      <4>10. PICK e : e = Outcome(a.heap, o2)
        OBVIOUS
      <4>11. IsOutcome(e) /\ e.heap = a.heap /\ e.obj = o2
        BY <4>10, OutcomeIs, ZenonT(30)
      <4>12. Ready(st, hp, h, e, c)
        BY <4>1, <4>3, <4>9, <4>11 DEF Ready
      <4>13. PICK data \in Seq(Int) : data = Append(t, NUL) /\ Len(data) = Len(t) + 1
        BY TextFits
      <4>14. len + Len(data) <= Len(e.heap[c].bytes)
        BY <2>5, <3>1, <3>3, <3>5, <4>1, <4>11, <4>13
      <4>15. Wrote(st, hp, h, e, c, len, data, Writes(e, len, data))
        BY <4>12, <4>14, WritesSafe
      <4>16. r = Writes(e, len, data)
        BY <3>2, <3>5, <4>1, <4>2, <4>10, <4>13
      <4> QED
        BY <4>15, <4>16 DEF Wrote
    <3> QED
      BY <3>4, <3>5
  <2> QED
    BY <2>6, <2>7
<1> QED
  BY <1>1, <1>2

-----------------------------------------------------------------------------
(* The calls that work on the text where it is                              *)

\* A set of places has a least one and a last one.
LEMMA LeastOf ==
  ASSUME NEW S, S \subseteq Nat, S # {}
  PROVE  \E n \in S : \A y \in S : n <= y
<1>1. PICK n \in S : \A y \in S : ~ (<<y, n>> \in OpToRel(<, Nat))
  BY WFMin, NatLessThanWellFounded
<1>2. ASSUME NEW y \in S PROVE n <= y
  <2> SUFFICES ASSUME ~ (n <= y) PROVE FALSE
    OBVIOUS
  <2>1. y \in Nat /\ n \in Nat /\ y < n
    OBVIOUS
  <2>2. <<y, n>> \in OpToRel(<, Nat)
    BY <2>1 DEF OpToRel
  <2> QED
    BY <1>1, <2>2
<1> QED
  BY <1>2

LEMMA MinIs == ASSUME NEW S, S \subseteq Nat, S # {} PROVE Min(S) \in S /\ \A y \in S : Min(S) <= y
  BY LeastOf DEF Min

LEMMA MaxIs == ASSUME NEW n \in Nat, NEW S, S \subseteq 1..n, S # {} PROVE Max(S) \in S
<1> DEFINE Bounds == {k \in Nat : \A y \in S : y <= k}
<1>1. n \in Bounds /\ Bounds \subseteq Nat
  OBVIOUS
<1>2. PICK k \in Bounds : \A y \in Bounds : k <= y
  <2> HIDE DEF Bounds
  <2> QED
    BY <1>1, LeastOf
<1>3. k \in S
  <2> SUFFICES ASSUME k \notin S PROVE FALSE
    OBVIOUS
  <2>1. \A y \in S : y < k /\ y >= 1 /\ y \in Nat
    OBVIOUS
  <2>2. k - 1 \in Nat /\ \A y \in S : y <= k - 1
    <3>1. ASSUME NEW y \in S PROVE y <= k - 1 /\ k - 1 \in Nat
      BY <2>1
    <3> QED
      BY <3>1
  <2>3. k - 1 \in Bounds
    BY <2>2
  <2> QED
    BY <1>2, <2>3
<1>4. \A y \in S : k >= y
  OBVIOUS
<1> QED
  BY <1>3, <1>4 DEF Max

\* Where the text begins and ends that is not to be trimmed.
LEMMA EndsAre ==
  ASSUME NEW t \in Seq(Int)
  PROVE  /\ FirstNot(t) \in 0..Len(t) /\ LastNot(t) \in 0..Len(t)
         /\ LastNot(t) # 0 => FirstNot(t) # 0
<1> DEFINE I == {i \in 1..Len(t) : t[i] # Space}
<1>1. FirstNot(t) = IF I # {} THEN Min(I) ELSE 0
  BY DEF FirstNot, SelectInSeq
<1>2. LastNot(t) = LET n == IF I # {} THEN Max(I) ELSE 0 IN IF n = 1 THEN 0 ELSE n
  BY DEF LastNot, SelectLastInSeq
<1>3. Len(t) \in Nat /\ I \subseteq Nat /\ I \subseteq 1..Len(t)
  OBVIOUS
<1> HIDE DEF I
<1>4. I # {} => Min(I) \in 1..Len(t) /\ Max(I) \in 1..Len(t)
  BY <1>3, MinIs, MaxIs
<1> QED
  BY <1>1, <1>2, <1>3, <1>4

\* What a call makes of the bytes is as long as they are.
SameSize(new, bytes) == new \in Seq(Int) /\ Len(new) = Len(bytes)

LEMMA WrittenSize ==
  ASSUME NEW bytes \in Seq(Int), NEW at \in Int, NEW data \in Seq(Int)
  PROVE  SameSize(Written(bytes, at, data), bytes)
  BY WrittenIs DEF SameSize

\* A part of a text with a NUL behind it.
LEMMA PartIs ==
  ASSUME NEW t \in Seq(Int), NEW m \in 1..(Len(t) + 1), NEW n \in 0..Len(t)
  PROVE  Append(SubSeq(t, m, n), NUL) \in Seq(Int)
<1>1. SubSeq(t, m, n) \in Seq(Int)
  BY SubSeqProperties
<1>2. NUL \in Int
  BY DEF NUL
<1> QED
  BY <1>1, <1>2, AppendProperties

LEMMA NulIs == <<NUL>> \in Seq(Int)
<1>1. NUL \in Int
  BY DEF NUL
<1> QED
  BY <1>1

LEMMA TrimSizes ==
  ASSUME NEW bytes \in Seq(Int)
  PROVE  SameSize(Trim(bytes), bytes) /\ SameSize(TrimLeft(bytes), bytes) /\ SameSize(TrimRight(bytes), bytes)
<1>1. PICK t \in Seq(Int) : t = CString(bytes)
  BY TextIs
<1>2. PICK f, l : f = FirstNot(t) /\ l = LastNot(t)
  OBVIOUS
<1>3. f \in 0..Len(t) /\ l \in 0..Len(t) /\ (l # 0 => f # 0) /\ Len(t) \in Nat
  BY <1>2, EndsAre
<1>4. SameSize(Written(bytes, 0, <<NUL>>), bytes) /\ SameSize(Written(bytes, l, <<NUL>>), bytes)
  <2>1. PICK nul \in Seq(Int) : nul = <<NUL>>
    BY NulIs
  <2>2. 0 \in Int /\ l \in Int
    BY <1>3
  <2>3. SameSize(Written(bytes, 0, nul), bytes) /\ SameSize(Written(bytes, l, nul), bytes)
    BY <2>2, WrittenSize
  <2> QED
    BY <2>1, <2>3
<1>5. SameSize(bytes, bytes)
  BY DEF SameSize
<1>6. ASSUME f # 0 PROVE SameSize(Written(bytes, 0, Append(SubSeq(t, f, Len(t)), NUL)), bytes)
  <2>1. PICK data \in Seq(Int) : data = Append(SubSeq(t, f, Len(t)), NUL)
    <3>1. f \in 1..(Len(t) + 1) /\ Len(t) \in 0..Len(t)
      BY <1>3, <1>6
    <3> QED
      BY <3>1, PartIs
  <2>2. SameSize(Written(bytes, 0, data), bytes)
    BY WrittenSize
  <2> QED
    BY <2>1, <2>2
<1>7. ASSUME l # 0 PROVE SameSize(Written(bytes, 0, Append(SubSeq(t, f, l), NUL)), bytes)
  <2>1. PICK data \in Seq(Int) : data = Append(SubSeq(t, f, l), NUL)
    <3>1. f \in 1..(Len(t) + 1) /\ l \in 0..Len(t)
      BY <1>3, <1>7
    <3> QED
      BY <3>1, PartIs
  <2>2. SameSize(Written(bytes, 0, data), bytes)
    BY WrittenSize
  <2> QED
    BY <2>1, <2>2
<1>8. SameSize(Trim(bytes), bytes)
  BY <1>1, <1>2, <1>4, <1>7 DEF Trim
<1>9. SameSize(TrimLeft(bytes), bytes)
  <2>1. TrimLeft(bytes) = IF f = 0 THEN Written(bytes, 0, <<NUL>>)
                          ELSE IF f = 1 THEN bytes ELSE Written(bytes, 0, Append(SubSeq(t, f, Len(t)), NUL))
    BY <1>1, <1>2 DEF TrimLeft
  <2> QED
    BY <1>4, <1>5, <1>6, <2>1
<1>10. SameSize(TrimRight(bytes), bytes)
  BY <1>1, <1>2, <1>4, <1>5 DEF TrimRight
<1> QED
  BY <1>8, <1>9, <1>10

\* removeOne().
RemovedOne(key, b) ==
    LET t == CString(b)
        i == Find(t, key)
    IN  IF i = 0 THEN b ELSE Written(b, i - 1, Append(SubSeq(t, i + Len(key), Len(t)), NUL))

LEMMA RemovedOneSize ==
  ASSUME NEW key, Len(key) \in Nat, NEW b \in Seq(Int)
  PROVE  SameSize(RemovedOne(key, b), b)
<1>1. PICK t \in Seq(Int) : t = CString(b)
  BY TextIs
<1>2. PICK O : O = Occurrences(t, key)
  OBVIOUS
<1>3. O \subseteq 1..(Len(t) - Len(key) + 1) /\ O \subseteq Nat
  BY <1>2 DEF Occurrences
<1>4. PICK i : i = Find(t, key)
  OBVIOUS
<1>5. i = 0 \/ i \in 1..(Len(t) - Len(key) + 1)
  <2>1. O # {} => \E n \in O : \A y \in O : n <= y
    BY <1>3, LeastOf
  <2>2. O = {} => i = 0
    BY <1>2, <1>4 DEF Find
  <2>3. O # {} => i \in O
    BY <1>2, <1>4, <2>1 DEF Find
  <2> QED
    BY <1>3, <2>2, <2>3
<1>6. CASE i = 0
  BY <1>1, <1>4, <1>6 DEF RemovedOne, SameSize
<1>7. CASE i # 0
  <2>1. i + Len(key) \in 1..(Len(t) + 1) /\ Len(t) \in 0..Len(t) /\ i - 1 \in Int
    BY <1>5, <1>7
  <2>2. PICK data \in Seq(Int) : data = Append(SubSeq(t, i + Len(key), Len(t)), NUL)
    BY <2>1, PartIs
  <2>3. RemovedOne(key, b) = Written(b, i - 1, data)
    BY <1>1, <1>4, <1>7, <2>2 DEF RemovedOne
  <2> QED
    BY <2>1, <2>3, WrittenSize
<1> QED
  BY <1>6, <1>7

\* removeAll(): the bytes after each step, and that there are such bytes.
Removes(f, key, bytes, n) == f = [k \in 0..n |-> IF k = 0 THEN bytes ELSE RemovedOne(key, f[k - 1])]

LEMMA RemovesExist ==
  ASSUME NEW key, NEW bytes, NEW n \in Nat
  PROVE  \E f : Removes(f, key, bytes, n)
<1> DEFINE Missing == {k \in Nat : ~ \E f : Removes(f, key, bytes, k)}
<1> SUFFICES ASSUME Missing # {} PROVE FALSE
  OBVIOUS
<1>1. PICK k \in Missing : \A y \in Missing : k <= y
  <2>1. Missing \subseteq Nat
    OBVIOUS
  <2> HIDE DEF Missing
  <2> QED
    BY <2>1, LeastOf
<1>2. k \in Nat /\ ~ \E f : Removes(f, key, bytes, k)
  OBVIOUS
<1>3. k # 0
  <2>1. Removes([i \in 0..0 |-> bytes], key, bytes, 0)
    BY DEF Removes
  <2> QED
    BY <1>2, <2>1
<1>4. k - 1 \in Nat /\ k - 1 \notin Missing
  <2>1. k - 1 \in Nat /\ ~ (k <= k - 1)
    BY <1>2, <1>3
  <2> HIDE DEF Missing
  <2> QED
    BY <1>1, <2>1
<1>5. PICK f : Removes(f, key, bytes, k - 1)
  BY <1>4
<1> DEFINE g == [i \in 0..k |-> IF i < k THEN f[i] ELSE RemovedOne(key, f[i - 1])]
<1>6. Removes(g, key, bytes, k)
  <2>1. ASSUME NEW i \in 0..k PROVE g[i] = IF i = 0 THEN bytes ELSE RemovedOne(key, g[i - 1])
    <3>1. CASE i = 0
      <4>1. g[0] = f[0] /\ f[0] = bytes
        BY <1>2, <1>3, <1>4, <1>5 DEF Removes
      <4> QED
        BY <3>1, <4>1
    <3>2. CASE i # 0
      <4>1. i - 1 \in 0..k /\ i - 1 < k /\ g[i - 1] = f[i - 1]
        BY <1>2, <3>2
      <4>2. i < k => f[i] = RemovedOne(key, f[i - 1])
        BY <1>2, <1>4, <1>5, <3>2 DEF Removes
      <4>3. g[i] = IF i < k THEN f[i] ELSE RemovedOne(key, f[i - 1])
        OBVIOUS
      <4> HIDE DEF g
      <4> QED
        BY <3>2, <4>1, <4>2, <4>3
    <3> QED
      BY <3>1, <3>2
  <2>2. g = [i \in 0..k |-> g[i]]
    OBVIOUS
  <2> HIDE DEF g
  <2> QED
    BY <2>1, <2>2 DEF Removes
<1> QED
  BY <1>2, <1>6

LEMMA RemoveAllSize ==
  ASSUME NEW key, Len(key) \in Nat, NEW bytes \in Seq(Int)
  PROVE  SameSize(RemoveAll(key, bytes), bytes)
<1> DEFINE n == Len(bytes)
           f == CHOOSE f : Removes(f, key, bytes, n)
<1>1. Removes(f, key, bytes, n) /\ n \in Nat
  BY RemovesExist
<1>2. RemoveAll(key, bytes) = f[n]
  BY DEF RemoveAll, Removes, RemovedOne
<1> HIDE DEF f
<1> DEFINE Wrong == {k \in Nat : k <= n /\ ~ SameSize(f[k], bytes)}
<1>3. Wrong = {}
  <2> SUFFICES ASSUME Wrong # {} PROVE FALSE
    OBVIOUS
  <2>1. PICK k \in Wrong : \A y \in Wrong : k <= y
    <3>1. Wrong \subseteq Nat
      OBVIOUS
    <3> HIDE DEF Wrong
    <3> QED
      BY <3>1, LeastOf
  <2>2. k # 0
    <3>1. f[0] = bytes
      BY <1>1 DEF Removes
    <3> QED
      BY <3>1 DEF SameSize
  <2>3. PICK j \in Nat : j = k - 1
    BY <2>2
  <2>4. SameSize(f[j], bytes)
    <3>1. ~ (k <= j) /\ j <= n
      BY <1>1, <2>3
    <3> QED
      BY <2>1, <3>1
  <2>5. f[k] = RemovedOne(key, f[j])
    BY <1>1, <2>2, <2>3 DEF Removes
  <2>6. SameSize(f[k], f[j])
    BY <2>4, <2>5, RemovedOneSize DEF SameSize
  <2> QED
    BY <2>4, <2>6 DEF SameSize
<1> QED
  BY <1>1, <1>2, <1>3

-----------------------------------------------------------------------------
(* The invariant and the calls                                              *)

CapsFit == \A g \in Strings : CapFits(heap, str[g])
Unsure == \E h \in Strings : str[h].unsure # "no"

SInv == Fits(heap, str) /\ CapsFit /\ (overrun => Unsure)

\* A call of string h: the invariant, and no other string has another text.
OthersKeep(h) == \A g \in Strings : g # h /\ Alive(g) => Text(g)' = Text(g)
StepOf(h) == SInv' /\ OthersKeep(h)

\* A string on a block as it was has its text.
LEMMA SameText ==
  ASSUME NEW hp, NEW hp2, NEW o \in StrObject, o.buf >= Empty => hp2[o.buf].bytes = hp[o.buf].bytes
  PROVE  TextOf(hp2, o) = TextOf(hp, o) /\ (CapFits(hp, o) => CapFits(hp2, o))
<1>1. o.buf \in Int /\ Empty \in Int
  BY BufIs, NoBlockNumbers
<1>2. TextOf(hp2, o) = TextOf(hp, o)
  BY <1>1 DEF TextOf
<1>3. CapFits(hp, o) => CapFits(hp2, o)
  BY DEF CapFits
<1> QED
  BY <1>2, <1>3

LEMMA KeptStep ==
  ASSUME SInv, NEW h \in Strings, NEW o2,
         Kept(str, heap, h, heap', o2), str' = [str EXCEPT ![h] = o2],
         overrun' => o2.unsure # "no"
  PROVE  StepOf(h)
<1>1. str \in [Strings -> StrObject] /\ o2 \in StrObject /\ str'[h] = o2
  BY DEF SInv, Fits, FitsWith, Kept
<1>2. \A g \in Strings : g # h => str'[g] = str[g]
  BY <1>1
<1>3. ASSUME NEW g \in Strings, g # h
      PROVE  TextOf(heap', str[g]) = TextOf(heap, str[g]) /\ CapFits(heap', str[g])
  <2>1. str[g].buf >= Empty => heap'[str[g].buf].bytes = heap[str[g].buf].bytes
    BY <1>3 DEF Kept, OthersSame
  <2>2. CapFits(heap, str[g])
    BY DEF SInv, CapsFit
  <2> QED
    BY <1>1, <2>1, <2>2, SameText
<1>4. CapsFit'
  <2> SUFFICES ASSUME NEW g \in Strings PROVE CapFits(heap', str'[g])
    BY DEF CapsFit
  <2>1. CASE g = h
    BY <1>1, <2>1 DEF Kept
  <2>2. CASE g # h
    BY <1>2, <1>3, <2>2
  <2> QED
    BY <2>1, <2>2
<1>5. Fits(heap', str')
  BY DEF Kept
<1>6. overrun' => Unsure'
  BY <1>1 DEF Unsure
<1>7. OthersKeep(h)
  BY <1>2, <1>3 DEF OthersKeep, Text
<1> QED
  BY <1>4, <1>5, <1>6, <1>7 DEF StepOf, SInv

\* A call that ends in an outcome.
LEMMA BecomeStep ==
  ASSUME SInv, NEW h \in Strings, NEW r, Safe(str, heap, h, r), Become(h, r)
  PROVE  StepOf(h)
<1>1. heap' = r.heap /\ str' = [str EXCEPT ![h] = r.obj]
  BY DEF Become
<1>2. overrun' => r.obj.unsure # "no"
  BY Zenon DEF Become, Safe
<1>3. Kept(str, heap, h, heap', r.obj)
  BY <1>1 DEF Safe
<1> QED
  BY <1>1, <1>2, <1>3, KeptStep

LEMMA ObjectsAre ==
  /\ NoString \in StrObject /\ NoString.buf = Gone /\ NoString.buf < Empty
  /\ EmptyString \in StrObject /\ EmptyString.buf = Empty /\ EmptyString.cap = 0
<1>1. NoString = [buf |-> Gone, cap |-> 0, unsure |-> "no"] /\ EmptyString = [buf |-> Empty, cap |-> 0, unsure |-> "no"]
  BY DEF NoString, EmptyString
<1> QED
  BY <1>1, NoBlockNumbers DEF StrObject

LEMMA StrIs ==
  ASSUME SInv
  PROVE  /\ Fits(heap, str) /\ FitsWith(heap, str, None) /\ str \in [Strings -> StrObject]
         /\ \A g \in Strings : CapFits(heap, str[g]) /\ str[g] \in StrObject
  BY DEF SInv, CapsFit, Fits, FitsWith

LEMMA ConstructStep ==
  ASSUME SInv, NEW h \in Strings, Construct(h) PROVE StepOf(h)
<1>1. Fits(heap, str) /\ str[h].buf < Empty
  BY StrIs, NoBlockNumbers DEF Construct, Alive
<1>2. PICK hp1 : hp1 = Acquire(heap, Empty)
  OBVIOUS
<1>3. FitsWith(hp1, str, Empty) /\ OthersSame(str, heap, hp1, h)
  BY <1>1, <1>2, EmptyThere, AcquireFits, NoBlockNumbers
<1>4. CapFits(hp1, EmptyString)
  BY <1>3, ObjectsAre DEF CapFits, FitsWith
<1>5. Kept(str, heap, h, hp1, EmptyString)
  BY <1>1, <1>3, <1>4, ObjectsAre, TakenKept, NoBlockNumbers
<1>6. Safe(str, heap, h, Outcome(hp1, EmptyString))
  BY <1>5, OutcomeSafe
<1>7. Become(h, Outcome(hp1, EmptyString))
  BY <1>2 DEF Construct
<1> QED
  BY <1>6, <1>7, BecomeStep

LEMMA ConstructSizeStep ==
  ASSUME SInv, NEW h \in Strings, NEW n \in Nat, ConstructSize(h, n) PROVE StepOf(h)
<1>1. Fits(heap, str) /\ str[h].buf < Empty
  BY StrIs, NoBlockNumbers DEF ConstructSize, Alive
<1>2. PICK r : /\ \/ GotNothing(heap, NoString, n, r)
                  \/ \E a \in Alloc(heap, Zeros(Room(n) + 1)) :
                        a.block # None /\ r = Outcome(a.heap, At(NoString, a.block, Room(n)))
               /\ r.obj.buf # Gone /\ Become(h, r)
  BY DEF ConstructSize, GetBuffer, GotNothing, Room
<1>3. ~ GotNothing(heap, NoString, n, r)
  <2>1. ASSUME NEW o2, o2.buf = Gone PROVE r # Outcome(heap, o2)
    BY <1>2, <2>1 DEF Outcome
  <2>2. PICK o : o = NoString /\ o \in StrObject /\ o.buf = Gone
    BY ObjectsAre
  <2>3. [o EXCEPT !.cap = Room(n), !.unsure = IF o.buf = None THEN o.unsure ELSE "memory"].buf = Gone
    BY <2>2 DEF StrObject
  <2> QED
    BY <2>1, <2>2, <2>3 DEF GotNothing
<1>4. PICK cap \in Nat, bytes \in Seq(Int) :
        cap = Room(n) /\ bytes = Zeros(Room(n) + 1) /\ Len(bytes) = cap + 1
  BY RoomIs
<1>5. PICK a \in Alloc(heap, bytes) : a.block # None /\ r = Outcome(a.heap, At(NoString, a.block, cap))
  BY <1>2, <1>3, <1>4
<1>6. Kept(str, heap, h, a.heap, At(NoString, a.block, cap))
  BY <1>1, <1>4, <1>5, ObjectsAre, GotBlockKept
<1>7. Safe(str, heap, h, r)
  BY <1>5, <1>6, OutcomeSafe
<1> QED
  BY <1>2, <1>7, BecomeStep

LEMMA ConstructCharsStep ==
  ASSUME SInv, NEW h \in Strings, NEW t \in Texts, ConstructChars(h, t) PROVE StepOf(h)
<1>1. Fits(heap, str) /\ str[h].buf < Empty
  BY StrIs, NoBlockNumbers DEF ConstructChars, Alive
<1>2. PICK f \in FromChars(heap, t) : Become(h, f)
  BY DEF ConstructChars
<1>3. Given(str, heap, h, t, f)
  BY <1>1, TextFits, FromCharsIs
<1>4. Kept(str, heap, h, f.heap, f.obj)
  BY <1>1, <1>3, TakenKept DEF Given
<1>5. ~ f.bad
  BY <1>3, Zenon DEF Given
<1>6. Safe(str, heap, h, f)
  BY <1>4, <1>5, Zenon DEF Safe
<1> QED
  BY <1>2, <1>6, BecomeStep

LEMMA CopyConstructStep ==
  ASSUME SInv, NEW g \in Strings, NEW h \in Strings, CopyConstruct(g, h) PROVE StepOf(h)
<1>1. Fits(heap, str) /\ str[h].buf < Empty /\ str[g] \in StrObject /\ CapFits(heap, str[g])
  BY StrIs, NoBlockNumbers DEF CopyConstruct, Alive
<1>2. PICK b \in 0..MaxBlocks : b = str[g].buf
  BY <1>1, BufIs DEF CopyConstruct, Owns
<1>3. heap[b].refs > 0
  BY <1>1, <1>2, OnBlock DEF Fits
<1>4. PICK hp1 : hp1 = Acquire(heap, b)
  OBVIOUS
<1>5. /\ FitsWith(hp1, str, b) /\ OthersSame(str, heap, hp1, h) /\ hp1[b].bytes = heap[b].bytes
  BY <1>1, <1>3, <1>4, AcquireFits
<1>6. CapFits(hp1, str[g])
  BY <1>1, <1>2, <1>5 DEF CapFits
<1>7. Kept(str, heap, h, hp1, str[g])
  BY <1>1, <1>2, <1>5, <1>6, TakenKept
<1>8. Safe(str, heap, h, Outcome(hp1, str[g]))
  BY <1>7, OutcomeSafe
<1>9. Become(h, Outcome(hp1, str[g]))
  BY <1>2, <1>4 DEF CopyConstruct
<1> QED
  BY <1>8, <1>9, BecomeStep

LEMMA DestroyStep ==
  ASSUME SInv, NEW h \in Strings, Destroy(h) PROVE StepOf(h)
<1>1. FitsWith(heap, str, None) /\ str[h].buf # Gone
  BY StrIs DEF Destroy, Alive
<1>2. FitsWith(LetGo(heap, str[h]), [str EXCEPT ![h] = NoString], None) /\ OthersSame(str, heap, LetGo(heap, str[h]), h)
  BY <1>1, ObjectsAre, LetGoFits
<1>3. CapFits(LetGo(heap, str[h]), NoString)
  BY ObjectsAre DEF CapFits, Gone, Empty
<1>4. Kept(str, heap, h, LetGo(heap, str[h]), NoString)
  BY <1>2, <1>3, ObjectsAre DEF Kept, Fits
<1>5. Safe(str, heap, h, Outcome(LetGo(heap, str[h]), NoString))
  BY <1>4, OutcomeSafe
<1> QED
  BY <1>5, BecomeStep DEF Destroy

LEMMA AssignStep ==
  ASSUME SInv, NEW g \in Strings, NEW h \in Strings, Assign(g, h) PROVE StepOf(h)
<1>1. /\ FitsWith(heap, str, None) /\ str \in [Strings -> StrObject] /\ str[h].buf # Gone /\ str[g].buf # Gone
      /\ g # h /\ str[g] \in StrObject /\ CapFits(heap, str[g])
  BY StrIs DEF Assign, Alive
<1>2. PICK hp1 : hp1 = LetGo(heap, str[h])
  OBVIOUS
<1>3. CASE Owns(g)
  <2>1. PICK st1 : st1 = [str EXCEPT ![h] = NoString]
    OBVIOUS
  <2>2. FitsWith(hp1, st1, None) /\ OthersSame(str, heap, hp1, h)
    BY <1>1, <1>2, <2>1, ObjectsAre, LetGoFits
  <2>3. st1[h] = NoString /\ st1[g] = str[g]
    BY <1>1, <2>1
  <2>4. PICK b \in 0..MaxBlocks : b = str[g].buf
    BY <1>1, <1>3, BufIs DEF Owns
  <2>5. hp1[b].refs > 0
    BY <2>2, <2>3, <2>4, OnBlock
  <2>6. PICK hp2 : hp2 = Acquire(hp1, b)
    OBVIOUS
  <2>7. FitsWith(hp2, st1, b) /\ OthersSame(st1, hp1, hp2, h) /\ hp2[b].bytes = hp1[b].bytes
    BY <2>2, <2>5, <2>6, AcquireFits DEF Fits
  <2>8. hp1[b].bytes = heap[b].bytes
    BY <1>1, <2>2, <2>4, NoBlockNumbers, BufIs DEF OthersSame
  <2>9. CapFits(hp2, str[g])
    BY <1>1, <2>4, <2>7, <2>8 DEF CapFits
  <2>10. Kept(st1, hp1, h, hp2, str[g])
    BY <1>1, <2>2, <2>3, <2>4, <2>7, <2>9, ObjectsAre, TakenKept DEF Fits
  <2>11. Kept(str, heap, h, hp2, str[g])
    BY <1>1, <2>1, <2>2, <2>10, KeptAgain
  <2>12. Safe(str, heap, h, Outcome(hp2, str[g]))
    BY <2>11, OutcomeSafe
  <2>13. Become(h, Outcome(hp2, str[g]))
    BY <1>2, <1>3, <2>4, <2>6 DEF Assign
  <2> QED
    BY <2>12, <2>13, BecomeStep
<1>4. CASE ~ Owns(g)
  <2>1. str[g].buf < Empty
    BY <1>1, <1>4, BufIs, NoBlockNumbers DEF Owns
  <2>2. FitsWith(hp1, [str EXCEPT ![h] = str[g]], None) /\ OthersSame(str, heap, hp1, h)
    BY <1>1, <1>2, <2>1, LetGoFits
  <2>3. CapFits(hp1, str[g])
    BY <1>4 DEF CapFits, Owns
  <2>4. Kept(str, heap, h, hp1, str[g])
    BY <1>1, <2>2, <2>3 DEF Kept, Fits
  <2>5. PICK r : r = [Outcome(hp1, str[g]) EXCEPT !.null = TRUE]
    OBVIOUS
  <2>6. r.heap = hp1 /\ r.obj = str[g] /\ r.bad = FALSE
    BY <2>5 DEF Outcome
  <2>7. ~ r.bad
    BY <2>6, Zenon
  <2>8. Safe(str, heap, h, r)
    BY <2>4, <2>6, <2>7, Zenon DEF Safe
  <2>9. Become(h, r)
    BY <1>2, <1>4, <2>5 DEF Assign
  <2> QED
    BY <2>8, <2>9, BecomeStep
<1> QED
  BY <1>3, <1>4

LEMMA AssignCharsStep ==
  ASSUME SInv, NEW h \in Strings, NEW t \in Texts, AssignChars(h, t) PROVE StepOf(h)
<1>1. Fits(heap, str) /\ CapFits(heap, str[h]) /\ str[h].buf # Gone
  BY StrIs DEF AssignChars, Alive
<1>2. PICK r \in SetTo(heap, str[h], t) : Become(h, r)
  BY DEF AssignChars
<1>3. Safe(str, heap, h, r)
  BY <1>1, SetToIs DEF SetSafe
<1> QED
  BY <1>2, <1>3, BecomeStep

LEMMA AppendCharsStep ==
  ASSUME SInv, NEW h \in Strings, NEW t \in Texts, AppendChars(h, t) PROVE StepOf(h)
<1>1. Fits(heap, str) /\ CapFits(heap, str[h]) /\ str[h].buf # Gone
  BY StrIs DEF AppendChars, Alive
<1>2. PICK r \in Appended(heap, str[h], t) : Become(h, r)
  BY DEF AppendChars
<1>3. Safe(str, heap, h, r)
  BY <1>1, AppendedIs
<1> QED
  BY <1>2, <1>3, BecomeStep

LEMMA AppendFormatStep ==
  ASSUME SInv, NEW h \in Strings, NEW t \in Texts, AppendFormat(h, t) PROVE StepOf(h)
<1>1. Fits(heap, str) /\ CapFits(heap, str[h]) /\ str[h].buf # Gone
  BY StrIs DEF AppendFormat, Alive
<1>2. PICK d \in Detach(heap, str[h]) :
        IF d.obj.buf = None THEN Become(h, d) ELSE \E r \in Formatted(d, t) : Become(h, r)
  BY DEF AppendFormat
<1>3. Detached(str, heap, h, d)
  BY <1>1, DetachIs
<1>4. CASE d.obj.buf = None
  <2>1. Safe(str, heap, h, d) /\ Become(h, d)
    BY <1>2, <1>3, <1>4, Zenon DEF Detached
  <2> QED
    BY <2>1, BecomeStep
<1>5. CASE d.obj.buf # None
  <2>1. PICK r \in Formatted(d, t) : Become(h, r)
    BY <1>2, <1>5
  <2>2. Safe(str, heap, h, r)
    BY <1>1, <1>3, <1>5, FormattedIs
  <2> QED
    BY <2>1, <2>2, BecomeStep
<1> QED
  BY <1>4, <1>5

LEMMA ClearStep ==
  ASSUME SInv, NEW h \in Strings, Clear(h) PROVE StepOf(h)
<1>1. Fits(heap, str) /\ CapFits(heap, str[h]) /\ str[h].buf # Gone
  BY StrIs DEF Clear, Alive
<1>2. PICK r \in Cleared(heap, str[h]) : Become(h, r)
  BY DEF Clear
<1>3. ClearedAs(str, heap, h, r)
  BY <1>1, ClearedIs
<1>4. Safe(str, heap, h, r)
  BY <1>3, Zenon DEF ClearedAs, Detached
<1> QED
  BY <1>2, <1>4, BecomeStep

\* A call that detaches and leaves other bytes of the same size.
LEMMA EditedStep ==
  ASSUME SInv, NEW h \in Strings, Owns(h), NEW d \in Detach(heap, str[h]), NEW new,
         OnItsOwn(str, heap, h, d) => SameSize(new, d.heap[d.obj.buf].bytes),
         Become(h, IF d.null THEN d ELSE NewBytes(d, new))
  PROVE  StepOf(h)
<1>1. Fits(heap, str) /\ CapFits(heap, str[h]) /\ str[h].buf # Gone /\ str[h].buf # None
  BY StrIs DEF Owns, Gone, None, Empty
<1>2. Detached(str, heap, h, d)
  BY <1>1, DetachIs
<1>3. CASE d.null
  <2>1. Safe(str, heap, h, d)
    BY <1>2, Zenon DEF Detached
  <2>2. Become(h, d)
    BY <1>3
  <2> QED
    BY <2>1, <2>2, BecomeStep
<1>4. CASE ~ d.null
  <2>1. OnItsOwn(str, heap, h, d)
    BY <1>1, <1>2, <1>4, Zenon DEF Detached, OnItsOwn
  <2>2. new \in Seq(Int) /\ Len(new) = Len(d.heap[d.obj.buf].bytes)
    BY <2>1 DEF SameSize
  <2>3. PICK r : r = NewBytes(d, new)
    OBVIOUS
  <2>4. OnItsOwn(str, heap, h, r)
    BY <1>1, <2>1, <2>2, <2>3, NewBytesIs
  <2>5. Safe(str, heap, h, r)
    BY <2>4, Zenon DEF OnItsOwn, Detached
  <2>6. Become(h, r)
    BY <1>4, <2>3
  <2> QED
    BY <2>5, <2>6, BecomeStep
<1> QED
  BY <1>3, <1>4

LEMMA TrimTextStep ==
  ASSUME SInv, NEW h \in Strings, TrimText(h) PROVE StepOf(h)
<1>1. PICK d, new :
        /\ d \in Detach(heap, str[h])
        /\ new \in {Trim(d.heap[d.obj.buf].bytes), TrimLeft(d.heap[d.obj.buf].bytes), TrimRight(d.heap[d.obj.buf].bytes)}
        /\ Owns(h) /\ Become(h, IF d.null THEN d ELSE NewBytes(d, new))
  <2>1. CASE Edited(h, Trim)
    BY <2>1 DEF Edited, NewBytes, BytesAt
  <2>2. CASE Edited(h, TrimLeft)
    BY <2>2 DEF Edited, NewBytes, BytesAt
  <2>3. CASE Edited(h, TrimRight)
    BY <2>3 DEF Edited, NewBytes, BytesAt
  <2> QED
    BY <2>1, <2>2, <2>3 DEF TrimText
<1>2. OnItsOwn(str, heap, h, d) => SameSize(new, d.heap[d.obj.buf].bytes)
  BY <1>1, DetachedBytes, TrimSizes
<1> QED
  BY <1>1, <1>2, EditedStep

LEMMA RemoveTextStep ==
  ASSUME SInv, NEW h \in Strings, NEW key \in Texts, RemoveText(h, key) PROVE StepOf(h)
<1>1. PICK d \in Detach(heap, str[h]) :
        Owns(h) /\ Become(h, IF d.null THEN d ELSE NewBytes(d, RemoveAll(key, d.heap[d.obj.buf].bytes)))
  BY DEF RemoveText, Edited, NewBytes, BytesAt
<1>2. OnItsOwn(str, heap, h, d) => SameSize(RemoveAll(key, d.heap[d.obj.buf].bytes), d.heap[d.obj.buf].bytes)
  BY DetachedBytes, TextFits, RemoveAllSize
<1> QED
  BY <1>1, <1>2, EditedStep

LEMMA WriteCharStep ==
  ASSUME SInv, NEW h \in Strings, NEW i \in Nat, NEW c \in Chars, WriteChar(h, i, c)
  PROVE  StepOf(h)
<1>1. PICK d \in Detach(heap, str[h]) :
        Owns(h) /\ Become(h, IF d.null THEN d ELSE NewBytes(d, Written(d.heap[d.obj.buf].bytes, i, <<c>>)))
  BY DEF WriteChar, Edited, NewBytes, BytesAt
<1>2. PICK data \in Seq(Int) : data = <<c>>
  <2>1. c \in Int
    BY StringsAssumption
  <2>2. <<c>> \in Seq(Int)
    BY <2>1
  <2> QED
    BY <2>2
<1>3. OnItsOwn(str, heap, h, d) => SameSize(Written(d.heap[d.obj.buf].bytes, i, data), d.heap[d.obj.buf].bytes)
  BY DetachedBytes, WrittenSize
<1> QED
  BY <1>1, <1>2, <1>3, EditedStep

\* The case of letters and other characters is changed in a block that may be shared.
LEMMA ReplaceCharsStep ==
  ASSUME SInv, ~ overrun, NEW h \in Strings, NEW o \in Chars, NEW n \in Chars, ReplaceChars(h, o, n)
  PROVE  SInv'
<1>1. FitsWith(heap, str, None) /\ HeapOK(heap) /\ \A g \in Strings : CapFits(heap, str[g]) /\ str[g] \in StrObject
  BY StrIs DEF FitsWith
<1>2. PICK b \in 0..MaxBlocks : b = str[h].buf
  BY <1>1, BufIs DEF ReplaceChars, Owns
<1>3. PICK old \in Seq(Int) : old = heap[b].bytes
  BY <1>1 DEF HeapOK, Block
<1>4. PICK new : new = Replaced(old, o, n)
  OBVIOUS
<1>5. new \in Seq(Int) /\ Len(new) = Len(old)
  <2>1. new = [i \in 1..Len(old) |-> new[i]] /\ Len(old) \in Nat
    BY <1>4 DEF Replaced
  <2>2. \A i \in 1..Len(old) : new[i] = n \/ new[i] = old[i]
    BY <1>4 DEF Replaced
  <2>3. n \in Int
    BY StringsAssumption
  <2>4. \A i \in 1..Len(old) : new[i] \in Int
    BY <2>2, <2>3, ElementOfSeq
  <2> QED
    BY <2>1, <2>4, SeqOfFunction
<1>6. heap' = BytesAt(heap, b, new)
  BY <1>2, <1>3, <1>4 DEF ReplaceChars, BytesAt
<1>7. heap[b].refs > 0
  BY <1>1, <1>2, OnBlock
<1>8. /\ HeapOK(heap') /\ heap'[b].bytes = new /\ heap'[b].refs = heap[b].refs
      /\ \A x \in (0..MaxBlocks) \ {b} : heap'[x] = heap[x]
  BY <1>1, <1>5, <1>6, <1>7, BytesAtIs, SMTT(30)
<1>9. \A x \in 0..MaxBlocks : heap'[x].refs = heap[x].refs /\ Len(heap'[x].bytes) = Len(heap[x].bytes)
  BY <1>3, <1>5, <1>8
<1>10. FitsWith(heap', str, None)
  BY <1>1, <1>8, <1>9, NoBlockNumbers DEF FitsWith
<1>11. ASSUME NEW g \in Strings PROVE CapFits(heap', str[g])
  <2>1. str[g].buf >= Empty => str[g].buf \in 0..MaxBlocks
    BY <1>1, BufIs
  <2> QED
    BY <1>1, <1>9, <2>1 DEF CapFits
<1>12. str' = str /\ ~ overrun'
  BY DEF ReplaceChars
<1> QED
  BY <1>10, <1>11, <1>12 DEF SInv, Fits, CapsFit

LEMMA ResizeStep ==
  ASSUME SInv, ~ overrun, NEW h \in Strings, NEW n \in Nat, Resize(h, n)
  PROVE  StepOf(h)
<1>1. Fits(heap, str) /\ HeapOK(heap) /\ str[h].buf # Gone /\ str[h] \in StrObject
  BY StrIs DEF Resize, Owns, Gone, Empty, FitsWith
<1>2. PICK b \in 0..MaxBlocks : b = str[h].buf
  BY <1>1, BufIs DEF Resize, Owns
<1>3. PICK bytes \in Seq(Int) : bytes = Resized(heap[b].bytes, n, Junk)
  <2>1. heap[b].bytes \in Seq(Int) /\ Junk \in Int
    BY <1>1 DEF HeapOK, Block, Junk
  <2> QED
    BY <2>1, ResizedIs
<1>4. PICK f \in FromChars(heap, bytes) : heap' = LetGo(f.heap, str[h]) /\ str' = [str EXCEPT ![h] = f.obj]
  BY <1>2, <1>3 DEF Resize
<1>5. Given(str, heap, h, bytes, f)
  BY <1>1, FromCharsIs
<1>6. Kept(str, heap, h, heap', f.obj)
  BY <1>1, <1>4, <1>5, ReplacedKept DEF Given
<1>7. ~ overrun'
  BY DEF Resize
<1> QED
  BY <1>4, <1>6, <1>7, KeptStep

\* Two strings change places.
LEMMA SwappedStep ==
  ASSUME SInv, ~ overrun, NEW g \in Strings, NEW h \in Strings, MoveAssign(g, h)
  PROVE  SInv' /\ \A x \in Strings \ {g, h} : Text(x)' = Text(x)
<1>1. FitsWith(heap, str, None) /\ str \in [Strings -> StrObject] /\ \A x \in Strings : CapFits(heap, str[x])
  BY StrIs
<1>2. /\ g # h /\ str' = [str EXCEPT ![h] = str[g], ![g] = str[h]] /\ heap' = heap /\ ~ overrun'
  BY DEF MoveAssign
<1>3. FitsWith(heap, str', None)
  BY <1>1, <1>2, SwapFits
<1>4. \A x \in Strings \ {g, h} : str'[x] = str[x]
  BY <1>1, <1>2
<1>5. str'[g] = str[h] /\ str'[h] = str[g]
  BY <1>1, <1>2
<1>6. CapsFit'
  BY <1>1, <1>2, <1>4, <1>5 DEF CapsFit
<1> QED
  BY <1>2, <1>3, <1>4, <1>6 DEF SInv, Fits, Text

LEMMA MoveStep ==
  ASSUME SInv, ~ overrun, NEW g \in Strings, NEW h \in Strings, Move(g, h)
  PROVE  StepOf(g)
<1>1. /\ FitsWith(heap, str, None) /\ str \in [Strings -> StrObject]
      /\ \A x \in Strings : CapFits(heap, str[x]) /\ str[x] \in StrObject
  BY StrIs
<1>2. /\ str[h].buf = Gone /\ str[g].buf >= Empty /\ ~ overrun'
      /\ heap' = Acquire(heap, Empty) /\ str' = [str EXCEPT ![h] = str[g], ![g] = EmptyString]
  BY DEF Move, Owns, Alive
<1>3. g # h /\ str[h].buf < Empty
  BY <1>2 DEF Gone, Empty
<1>4. PICK st1 : st1 = [str EXCEPT ![h] = str[g], ![g] = str[h]]
  OBVIOUS
<1>5. FitsWith(heap, st1, None)
  BY <1>1, <1>3, <1>4, SwapFits
<1>6. PICK hp1 : hp1 = Acquire(heap, Empty)
  OBVIOUS
<1>7. /\ FitsWith(hp1, st1, Empty) /\ OthersSame(st1, heap, hp1, g)
      /\ \A x \in 0..MaxBlocks : hp1[x].bytes = heap[x].bytes
  BY <1>5, <1>6, EmptyThere, AcquireFits, NoBlockNumbers DEF Fits
<1>8. st1[g] = str[h]
  BY <1>1, <1>3, <1>4
<1>9. Fits(hp1, [st1 EXCEPT ![g] = EmptyString])
  BY <1>3, <1>7, <1>8, ObjectsAre, NoBlockNumbers, TakeFits
<1>10. [st1 EXCEPT ![g] = EmptyString] = str'
  BY <1>1, <1>2, <1>3, <1>4
<1>11. ASSUME NEW x \in Strings
       PROVE  CapFits(hp1, str[x]) /\ TextOf(hp1, str[x]) = TextOf(heap, str[x])
  <2>1. str[x].buf >= Empty => hp1[str[x].buf].bytes = heap[str[x].buf].bytes
    BY <1>1, <1>7, BufIs
  <2> QED
    BY <1>1, <2>1, SameText
<1>12. CapFits(hp1, EmptyString)
  BY <1>7, ObjectsAre DEF CapFits, FitsWith
<1>13. /\ str'[g] = EmptyString /\ str'[h] = str[g]
       /\ \A x \in Strings \ {g, h} : str'[x] = str[x]
  BY <1>1, <1>2, <1>3
<1>14. CapsFit'
  BY <1>2, <1>6, <1>11, <1>12, <1>13 DEF CapsFit
<1>15. OthersKeep(g)
  BY <1>2, <1>6, <1>11, <1>13 DEF OthersKeep, Alive, Text
<1> QED
  BY <1>2, <1>6, <1>9, <1>10, <1>14, <1>15 DEF StepOf, SInv

-----------------------------------------------------------------------------
(* The theorem                                                              *)

LEMMA StrInitInv == ASSUME StrInit PROVE SInv
<1>1. /\ str = [h \in Strings |-> NoString] /\ overrun = FALSE
      /\ heap = [b \in 0..MaxBlocks |-> IF b = Empty THEN [bytes |-> <<NUL>>, refs |-> 1] ELSE NoBlock]
  BY DEF StrInit
<1>2. PICK e : e = [bytes |-> <<NUL>>, refs |-> 1]
  OBVIOUS
<1>3. PICK one \in Seq(Int) : one = <<NUL>> /\ Len(one) = 1
  BY NulIs
<1>4. e \in Block /\ e.refs = 1 /\ e.bytes = one
  BY <1>2, <1>3 DEF Block
<1>5. NoBlock \in Block /\ NoBlock.refs = 0 /\ NoBlock.bytes = <<>>
  BY DEF NoBlock, Block
<1>6. heap = [b \in 0..MaxBlocks |-> IF b = Empty THEN e ELSE NoBlock]
  BY <1>1, <1>2
<1>7. HeapOK(heap) /\ heap[Empty] = e
  BY <1>4, <1>5, <1>6, NoBlockNumbers DEF HeapOK
<1>8. str \in [Strings -> StrObject] /\ \A h \in Strings : str[h] = NoString
  BY <1>1, ObjectsAre
<1>9. ASSUME NEW b \in 0..MaxBlocks
      PROVE  heap[b].refs = CountOf(str, b) + (IF b = Empty THEN 1 ELSE 0) + (IF b = None THEN 1 ELSE 0)
  <2>1. OwnersIn(Strings, str, b) = {}
    BY <1>8, ObjectsAre, NoBlockNumbers DEF OwnersIn
  <2>2. CountOf(str, b) = 0
    BY <2>1, FS_EmptySet DEF CountOf
  <2>3. heap[b].refs = IF b = Empty THEN 1 ELSE 0
    BY <1>4, <1>5, <1>6
  <2>4. b # None
    BY NoBlockNumbers
  <2> QED
    BY <2>2, <2>3, <2>4
<1>10. Fits(heap, str)
  BY <1>3, <1>4, <1>7, <1>8, <1>9 DEF Fits, FitsWith
<1>11. CapsFit
  BY <1>8, ObjectsAre DEF CapsFit, CapFits, Gone, Empty
<1> QED
  BY <1>1, <1>10, <1>11, Zenon DEF SInv

\* What a step of the strings is.
OneCall == \E k \in Strings : StepOf(k)
Exchange == \E g, h \in Strings : /\ g # h /\ MoveAssign(g, h) /\ MoveAssign(h, g)
                                  /\ \A x \in Strings \ {g, h} : Text(x)' = Text(x)
InPlace == \E h \in Strings, o, n \in Chars : ReplaceChars(h, o, n)

LEMMA StepIs ==
  ASSUME SInv, StrNext
  PROVE  SInv' /\ (OneCall \/ Exchange \/ InPlace)
<1>0. ~ overrun
  BY DEF StrNext
<1>1. PICK h \in Strings :
         \/ Construct(h) \/ Destroy(h) \/ Clear(h) \/ TrimText(h)
         \/ \E n \in 0..MaxLen : ConstructSize(h, n) \/ Resize(h, n)
         \/ \E t \in Texts : \/ ConstructChars(h, t) \/ AssignChars(h, t) \/ AppendChars(h, t)
                             \/ AppendFormat(h, t) \/ RemoveText(h, t)
         \/ \E i \in 0..(MaxLen - 1), c \in Chars : WriteChar(h, i, c)
         \/ \E o, n \in Chars : o # n /\ ReplaceChars(h, o, n)
         \/ \E g \in Strings : CopyConstruct(g, h) \/ Move(g, h) \/ Assign(g, h) \/ MoveAssign(g, h)
  BY DEF StrNext
<1>2. CASE Construct(h) \/ Destroy(h) \/ Clear(h) \/ TrimText(h)
  <2>1. StepOf(h)
    BY <1>2, ConstructStep, DestroyStep, ClearStep, TrimTextStep
  <2> QED
    BY <2>1 DEF StepOf, OneCall
<1>3. CASE \E n \in 0..MaxLen : ConstructSize(h, n) \/ Resize(h, n)
  <2>1. PICK n \in 0..MaxLen : ConstructSize(h, n) \/ Resize(h, n)
    BY <1>3
  <2>2. n \in Nat
    OBVIOUS
  <2>3. StepOf(h)
    BY <1>0, <2>1, <2>2, ConstructSizeStep, ResizeStep
  <2> QED
    BY <2>3 DEF StepOf, OneCall
<1>4. CASE \E t \in Texts : \/ ConstructChars(h, t) \/ AssignChars(h, t) \/ AppendChars(h, t)
                            \/ AppendFormat(h, t) \/ RemoveText(h, t)
  <2>1. StepOf(h)
    BY <1>4, ConstructCharsStep, AssignCharsStep, AppendCharsStep, AppendFormatStep, RemoveTextStep
  <2> QED
    BY <2>1 DEF StepOf, OneCall
<1>5. CASE \E i \in 0..(MaxLen - 1), c \in Chars : WriteChar(h, i, c)
  <2>1. PICK i \in 0..(MaxLen - 1), c \in Chars : WriteChar(h, i, c)
    BY <1>5
  <2>2. i \in Nat
    OBVIOUS
  <2>3. StepOf(h)
    BY <2>1, <2>2, WriteCharStep
  <2> QED
    BY <2>3 DEF StepOf, OneCall
<1>6. CASE \E o, n \in Chars : o # n /\ ReplaceChars(h, o, n)
  BY <1>0, <1>6, ReplaceCharsStep DEF InPlace
<1>7. CASE \E g \in Strings : CopyConstruct(g, h) \/ Move(g, h) \/ Assign(g, h) \/ MoveAssign(g, h)
  <2>1. PICK g \in Strings : CopyConstruct(g, h) \/ Move(g, h) \/ Assign(g, h) \/ MoveAssign(g, h)
    BY <1>7
  <2>2. CASE CopyConstruct(g, h) \/ Assign(g, h)
    <3>1. StepOf(h)
      BY <2>2, CopyConstructStep, AssignStep
    <3> QED
      BY <3>1 DEF StepOf, OneCall
  <2>3. CASE Move(g, h)
    <3>1. StepOf(g)
      BY <1>0, <2>3, MoveStep
    <3> QED
      BY <3>1 DEF StepOf, OneCall
  <2>4. CASE MoveAssign(g, h)
    <3>1. SInv' /\ \A x \in Strings \ {g, h} : Text(x)' = Text(x)
      BY <1>0, <2>4, SwappedStep
    <3>2. g # h /\ MoveAssign(h, g)
      <4>1. str \in [Strings -> StrObject]
        BY StrIs
      <4>2. g # h => [str EXCEPT ![h] = str[g], ![g] = str[h]] = [str EXCEPT ![g] = str[h], ![h] = str[g]]
        BY <4>1
      <4> QED
        BY <2>4, <4>2 DEF MoveAssign
    <3> QED
      BY <2>4, <3>1, <3>2 DEF Exchange
  <2> QED
    BY <2>1, <2>2, <2>3, <2>4
<1> QED
  BY <1>1, <1>2, <1>3, <1>4, <1>5, <1>6, <1>7

\* A block is counted, and mCapacity and overruns are as the run checks them.
LEMMA StringsAreCounted ==
  ASSUME SInv
  PROVE  StringsCounted /\ CapacityIsSizeUnlessUnsure /\ OverrunOnlyWhenUnsure
<1>1. FitsWith(heap, str, None) /\ \A g \in Strings : CapFits(heap, str[g])
  BY StrIs
<1>2. ASSUME NEW b \in 0..MaxBlocks
      PROVE  heap[b].refs = Cardinality({h \in Strings : str[h].buf = b}) + (IF b = Empty THEN 1 ELSE 0)
  <2>1. /\ heap[b].refs = CountOf(str, b) + (IF b = Empty THEN 1 ELSE 0) + (IF b = None THEN 1 ELSE 0)
        /\ CountOf(str, b) \in Nat /\ b # None
    BY <1>1, CountIs, NoBlockNumbers DEF FitsWith
  <2>2. CountOf(str, b) = Cardinality({h \in Strings : str[h].buf = b})
    BY DEF CountOf, OwnersIn
  <2>3. heap[b].refs = CountOf(str, b) + (IF b = Empty THEN 1 ELSE 0)
    BY <2>1
  <2> QED
    BY <2>2, <2>3
<1>3. StringsCounted
  BY <1>2 DEF StringsCounted
<1>4. CapacityIsSizeUnlessUnsure
  BY <1>1 DEF CapacityIsSizeUnlessUnsure, CapFits, Owns
<1>5. OverrunOnlyWhenUnsure
  BY Zenon DEF SInv, Unsure, OverrunOnlyWhenUnsure
<1> QED
  BY <1>3, <1>4, <1>5

\* The two action properties, of one step.
KeepsTexts ==
    \A g, h \in Strings :
       g # h /\ Alive(g) /\ Alive(h) /\ Alive(g)' /\ Alive(h)' /\ Text(g)' # Text(g) /\ Text(h)' # Text(h) =>
         \/ overrun'
         \/ MoveAssign(g, h)
         \/ \E o, n \in Chars : ReplaceChars(h, o, n)

LEMMA StepKeepsTexts ==
  ASSUME OneCall \/ Exchange \/ (InPlace /\ SInv)
  PROVE  KeepsTexts
<1>1. CASE OneCall
  BY <1>1 DEF OneCall, StepOf, OthersKeep, KeepsTexts
<1>2. CASE Exchange
  BY <1>2 DEF Exchange, KeepsTexts
<1>3. CASE InPlace /\ SInv
  <2>1. PICK k \in Strings, o \in Chars, n \in Chars : ReplaceChars(k, o, n)
    BY <1>3 DEF InPlace
  <2>2. /\ str \in [Strings -> StrObject] /\ HeapOK(heap)
        /\ \A h \in Strings : str[h] \in StrObject
    BY <1>3, StrIs DEF FitsWith
  <2>3. ASSUME NEW h \in Strings, str[h].buf # str[k].buf
        PROVE  Text(h)' = Text(h)
    <3>1. str[h].buf >= Empty => heap'[str[h].buf].bytes = heap[str[h].buf].bytes
      BY <2>1, <2>2, <2>3, BufIs DEF ReplaceChars, HeapOK
    <3>2. str' = str
      BY <2>1 DEF ReplaceChars
    <3> QED
      BY <2>2, <3>1, <3>2, SameText DEF Text
  <2>4. ASSUME NEW h \in Strings, str[h].buf = str[k].buf
        PROVE  ReplaceChars(h, o, n)
    BY <2>1, <2>4 DEF ReplaceChars, Owns
  <2> QED
    BY <2>3, <2>4 DEF KeepsTexts
<1> QED
  BY <1>1, <1>2, <1>3

ShowsAssigned ==
    \A h \in Strings, t \in Texts :
       AssignChars(h, t) /\ str'[h].buf # None /\ ~ overrun' /\ str'[h].unsure = "no" =>
         \/ Text(h)' = t
         \/ \E i \in (Len(Text(h)) + 2)..Len(heap[str[h].buf].bytes) : heap[str[h].buf].bytes[i] # NUL

LEMMA StepShowsAssigned == ASSUME SInv PROVE ShowsAssigned
<1> SUFFICES ASSUME NEW h \in Strings, NEW t \in Texts,
                    AssignChars(h, t), str'[h].buf # None, str'[h].unsure = "no"
             PROVE  \/ Text(h)' = t
                    \/ \E i \in (Len(Text(h)) + 2)..Len(heap[str[h].buf].bytes) : heap[str[h].buf].bytes[i] # NUL
  BY DEF ShowsAssigned
<1>1. /\ Fits(heap, str) /\ CapFits(heap, str[h]) /\ str[h].buf # Gone
      /\ str \in [Strings -> StrObject]
  BY StrIs DEF AssignChars, Alive
<1>2. PICK r \in SetTo(heap, str[h], t) : Become(h, r)
  BY DEF AssignChars
<1>3. Shows(str, heap, h, t, r.heap, r.obj)
  BY <1>1, SetToIs DEF SetSafe
<1>4. heap' = r.heap /\ str'[h] = r.obj
  BY <1>1, <1>2 DEF Become
<1> QED
  BY <1>3, <1>4 DEF Shows, Text

\* String8: blocks are counted, mCapacity is the size of the block where nothing
\* failed, nothing else overruns, a call changes its own text only, and an
\* assigned text is the text.
THEOREM StringsAreSound == StrSpec => StringsSound
<1>1. StrInit => SInv
  BY StrInitInv
<1>2. SInv /\ [StrNext]_strVars => SInv'
  <2>1. SInv /\ StrNext => SInv'
    BY StepIs
  <2>2. SInv /\ UNCHANGED strVars => SInv'
    BY DEF SInv, CapsFit, Unsure, strVars
  <2> QED
    BY <2>1, <2>2
<1>3. SInv => StringsCounted /\ CapacityIsSizeUnlessUnsure /\ OverrunOnlyWhenUnsure
  BY StringsAreCounted
<1>4. SInv /\ [StrNext]_strVars => [KeepsTexts]_strVars
  BY StepIs, StepKeepsTexts
<1>5. SInv => ShowsAssigned
  BY StepShowsAssigned
<1>6. CopiesKeepText <=> [][KeepsTexts]_strVars
  BY PTL DEF CopiesKeepText, KeepsTexts
<1>7. AssignedIsText <=> [][ShowsAssigned]_strVars
  BY PTL DEF AssignedIsText, ShowsAssigned
<1> QED
  BY <1>1, <1>2, <1>3, <1>4, <1>5, <1>6, <1>7, PTL DEF StrSpec, StringsSound
=============================================================================
