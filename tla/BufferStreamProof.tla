-------------------------- MODULE BufferStreamProof --------------------------
(***************************************************************************)
(* ByteBuffer and the BufferStream on one, for any finite set of objects,   *)
(* number of blocks and byte strings: the blocks count their owners, copies *)
(* keep their bytes, and the stream is first in, first out.                 *)
(***************************************************************************)
EXTENDS BufferStream, BlocksProof, WellFoundedInduction

Object == [buf : {None} \cup 0..MaxBlocks, size : Nat, cap : Nat, shrunk : BOOLEAN]

-----------------------------------------------------------------------------
(* The operations on the bytes of one object *)

\* An object that is in range of its block, and its block there.
InRange(hp, o) == /\ ~ o.shrunk => o.size <= o.cap
                  /\ o.cap <= Len(hp[o.buf].bytes)
OnBlock(hp, o) == o \in Object /\ o.buf \in 0..MaxBlocks /\ hp[o.buf].refs > 0 /\ InRange(hp, o)

LEMMA CalculateIs == ASSUME NEW n \in Nat PROVE Calculate(n) \in Nat /\ n <= Calculate(n)
<1>1. (3 * n) \div 2 \in Nat /\ n <= (3 * n) \div 2
  OBVIOUS
<1> QED
  BY <1>1, ByteBufferAssumption DEF Calculate

\* Room for n bytes: the first n that were there are the same.
RoomOutcome(hp, b, n, r) ==
    /\ OwnOutcome(hp, b, r)
    /\ r.block # None => /\ Len(r.heap[r.block].bytes) \in Nat
                         /\ n <= Len(r.heap[r.block].bytes)
                         /\ SamePrefix(r.heap[r.block].bytes, hp[b].bytes, n)

LEMMA RoomIs ==
  ASSUME NEW hp, HeapOK(hp), NEW o, OnBlock(hp, o), NEW n \in Nat, NEW r \in Room(hp, o, n)
  PROVE  RoomOutcome(hp, o.buf, n, r)
<1>1. o.cap \in Nat /\ o.buf \in 0..MaxBlocks /\ o.cap <= Len(hp[o.buf].bytes)
  BY DEF OnBlock, InRange, Object
<1>2. hp[o.buf].bytes \in Seq(Int) /\ Len(hp[o.buf].bytes) \in Nat /\ hp[o.buf].refs > 0
  BY <1>1 DEF HeapOK, Block, OnBlock
<1>3. CASE o.cap < n
  <2> DEFINE m == Calculate(n)
  <2>1. r \in EditResize(hp, o.buf, m)
    BY <1>3 DEF Room
  <2>2. m \in Nat /\ n <= m
    BY CalculateIs
  <2> HIDE DEF m
  <2>3. /\ OwnOutcome(hp, o.buf, r)
        /\ r.block # None => /\ Len(r.heap[r.block].bytes) = m
                             /\ SamePrefix(r.heap[r.block].bytes, hp[o.buf].bytes, m)
    BY <1>1, <1>2, <2>1, <2>2, EditResizeIs
  <2> QED
    BY <2>2, <2>3 DEF SamePrefix, RoomOutcome
<1>4. CASE ~ o.cap < n
  <2>1. r \in Edit(hp, o.buf)
    BY <1>4 DEF Room
  <2>2. OwnOutcome(hp, o.buf, r) /\ (r.block # None => r.heap[r.block].bytes = hp[o.buf].bytes)
    BY <1>1, <1>2, <2>1, EditIs
  <2>3. n <= Len(hp[o.buf].bytes)
    BY <1>1, <1>2, <1>4
  <2> QED
    BY <1>2, <2>2, <2>3 DEF SamePrefix, RoomOutcome
<1> QED
  BY <1>3, <1>4

\* A block that is the caller's own stays that when it is written to.
PutOwnOutcome(hp, b, q, at, data, put) ==
    LET c == q.block
        new == put[c].bytes
    IN  /\ c \in 0..MaxBlocks /\ HeapOK(put) /\ OwnStep(hp, b, put, c) /\ put[c].refs = 1
        /\ \A x \in 0..MaxBlocks : put[x].refs = q.heap[x].refs
        /\ Len(new) = Len(q.heap[c].bytes)
        /\ \A i \in 1..Len(new) : new[i] = IF i \in (at + 1)..(at + Len(data)) THEN data[i - at]
                                           ELSE q.heap[c].bytes[i]

LEMMA PutOwn ==
  ASSUME NEW hp, NEW b \in 0..MaxBlocks, NEW q, q.block # None, OwnOutcome(hp, b, q),
         NEW at \in Int, NEW data \in Seq(Int)
  PROVE  PutOwnOutcome(hp, b, q, at, data, Put(q.heap, q.block, at, data))
<1>1. /\ q.block \in 0..MaxBlocks /\ HeapOK(q.heap) /\ OwnStep(hp, b, q.heap, q.block)
      /\ q.heap[q.block].refs = 1 /\ q.heap[q.block].refs > 0
  BY DEF OwnOutcome
<1>2. PICK c \in 0..MaxBlocks : c = q.block
  BY <1>1
<1>3. PICK hp1 : hp1 = q.heap
  OBVIOUS
<1>4. PICK put : put = Put(hp1, c, at, data)
  OBVIOUS
<1>5. PutOutcome(hp1, c, at, data, put)
  BY <1>1, <1>2, <1>3, <1>4, PutIs
<1>6. OwnStep(hp, b, put, c)
  BY <1>1, <1>2, <1>3, <1>5 DEF OwnStep, PutOutcome
<1> QED
  BY <1>1, <1>2, <1>3, <1>4, <1>5, <1>6 DEF PutOwnOutcome, PutOutcome

\* What set() comes to: nothing, or an object on a block of its own that
\* keeps the bytes in front of the place and has the data there.
Place(o, offset) == IF o.size >= offset THEN offset ELSE 0

SetDone(hp, o, data, offset, src, r) ==
    LET at == Place(o, offset)
        new == r.heap[r.obj.buf].bytes
    IN  /\ data # <<>>
        /\ r.obj.buf \in 0..MaxBlocks
        /\ r.obj = [buf |-> r.obj.buf, size |-> Len(data) + at, cap |-> Len(new), shrunk |-> FALSE]
        /\ HeapOK(r.heap) /\ OwnStep(hp, o.buf, r.heap, r.obj.buf) /\ r.heap[r.obj.buf].refs = 1
        /\ Len(data) + at <= Len(new)
        /\ SamePrefix(new, hp[o.buf].bytes, at)
        /\ ~ r.bad => \A j \in 1..Len(data) : new[at + j] = data[j]
        /\ r.ret = Len(data)
        /\ r.bad \in BOOLEAN /\ (r.bad <=> src # None /\ r.heap[src].refs = 0)

SetNothing(hp, o, r) == r.heap = hp /\ r.obj = o /\ r.ret = 0 /\ r.bad = FALSE

LEMMA SetBytesIs ==
  ASSUME NEW hp, HeapOK(hp), NEW o, OnBlock(hp, o), NEW data \in Seq(Int), NEW offset \in Nat,
         NEW src \in {None} \cup 0..MaxBlocks, NEW r \in SetBytes(hp, o, data, offset, src)
  PROVE  SetNothing(hp, o, r) \/ SetDone(hp, o, data, offset, src, r)
<1> DEFINE at == Place(o, offset)
           n == Len(data) + at
<1>1. at \in Nat /\ n \in Nat /\ o.buf \in 0..MaxBlocks
  BY DEF Place, OnBlock
<1>2. CASE data = <<>>
  BY <1>2 DEF SetBytes, SetNothing
<1>3. CASE data # <<>>
  <2> DEFINE Dead(q) == src # None /\ q.heap[src].refs = 0
             Bytes(q) == IF Dead(q) THEN [i \in 1..Len(data) |-> Junk] ELSE data
             Result(q) ==
               IF q.block = None THEN [heap |-> q.heap, obj |-> o, ret |-> 0, bad |-> FALSE]
               ELSE [heap |-> Put(q.heap, q.block, at, Bytes(q)),
                     obj |-> Holding(o, q.heap, q.block, n),
                     ret |-> Len(data), bad |-> Dead(q)]
  <2>1. PICK q \in Room(hp, o, n) : r = Result(q)
    BY <1>3 DEF SetBytes, Place
  <2>2. RoomOutcome(hp, o.buf, n, q)
    BY <1>1, RoomIs
  <2>3. CASE q.block = None
    BY <2>1, <2>2, <2>3, BlocksAssumption DEF RoomOutcome, OwnOutcome, SetNothing, None
  <2>4. CASE q.block # None
    <3> DEFINE c == q.block
               put == Put(q.heap, c, at, Bytes(q))
               new == put[c].bytes
    <3>1. Bytes(q) \in Seq(Int) /\ Len(Bytes(q)) = Len(data)
      <4>1. CASE Dead(q)
        <5> DEFINE junk == [i \in 1..Len(data) |-> Junk]
        <5>1. junk \in Seq(Int) /\ Len(junk) = Len(data)
          BY SeqOfFunction DEF Junk
        <5> QED
          BY <4>1, <5>1
      <4>2. CASE ~ Dead(q)
        BY <4>2
      <4> QED
        BY <4>1, <4>2
    <3>2. ~ Dead(q) => Bytes(q) = data
      OBVIOUS
    <3>3. r.heap = put /\ r.obj = Holding(o, q.heap, c, n) /\ r.ret = Len(data) /\ r.bad = Dead(q)
      BY <2>1, <2>4
    <3> HIDE DEF Bytes
    <3>4. PutOwnOutcome(hp, o.buf, q, at, Bytes(q), put)
      BY <1>1, <2>2, <2>4, <3>1, PutOwn DEF RoomOutcome
    <3> HIDE DEF put, at
    <3> USE DEF PutOwnOutcome
    <3>5. r.obj = [buf |-> c, size |-> n, cap |-> Len(new), shrunk |-> FALSE]
      <4>1. o \in Object
        BY DEF OnBlock
      <4> QED
        BY <3>3, <3>4, <4>1 DEF Holding, Object
    <3>6. n <= Len(new) /\ Len(new) \in Nat
      BY <2>2, <2>4, <3>4 DEF RoomOutcome
    <3>7. SamePrefix(new, hp[o.buf].bytes, at)
      <4>1. SamePrefix(q.heap[c].bytes, hp[o.buf].bytes, n)
        BY <2>2, <2>4 DEF RoomOutcome
      <4> SUFFICES ASSUME NEW i \in 1..at, i <= Len(hp[o.buf].bytes) PROVE new[i] = hp[o.buf].bytes[i]
        BY DEF SamePrefix
      <4>2. i \in 1..n /\ i \in 1..Len(new) /\ i \notin (at + 1)..(at + Len(Bytes(q)))
        BY <1>1, <3>1, <3>6
      <4>3. new[i] = q.heap[c].bytes[i]
        BY <3>4, <4>2
      <4> QED
        BY <4>1, <4>2, <4>3 DEF SamePrefix
    <3>8. ~ Dead(q) => \A j \in 1..Len(data) : new[at + j] = data[j]
      <4> SUFFICES ASSUME ~ Dead(q), NEW j \in 1..Len(data) PROVE new[at + j] = data[j]
        OBVIOUS
      <4>1. at + j \in 1..Len(new) /\ at + j \in (at + 1)..(at + Len(data)) /\ (at + j) - at = j
        BY <1>1, <3>6
      <4> QED
        BY <3>1, <3>2, <3>4, <4>1
    <3>9. Dead(q) <=> (src # None /\ r.heap[src].refs = 0)
      BY <3>3, <3>4
    <3>10. r.bad \in BOOLEAN /\ (r.bad <=> src # None /\ r.heap[src].refs = 0)
      BY <3>3, <3>9
    <3>11. r.obj.buf = c /\ r.obj.buf \in 0..MaxBlocks /\ r.obj.size = n
      BY <3>4, <3>5
    <3>12. ~ r.bad => \A j \in 1..Len(data) : r.heap[r.obj.buf].bytes[at + j] = data[j]
      <4> HIDE DEF Dead
      <4> QED
        BY <3>3, <3>8, <3>11
    <3>13. /\ HeapOK(r.heap) /\ OwnStep(hp, o.buf, r.heap, r.obj.buf) /\ r.heap[r.obj.buf].refs = 1
           /\ n <= Len(r.heap[r.obj.buf].bytes)
           /\ SamePrefix(r.heap[r.obj.buf].bytes, hp[o.buf].bytes, at)
           /\ r.obj = [buf |-> r.obj.buf, size |-> n, cap |-> Len(r.heap[r.obj.buf].bytes), shrunk |-> FALSE]
      <4> HIDE DEF Dead
      <4> QED
        BY <3>3, <3>4, <3>5, <3>6, <3>7, <3>11
    <3> HIDE DEF Dead
    <3> QED
      BY <1>3, <3>3, <3>10, <3>11, <3>12, <3>13 DEF SetDone, at
  <2> QED
    BY <2>3, <2>4
<1> QED
  BY <1>2, <1>3

-----------------------------------------------------------------------------
(* Owners and counts *)

Owners(ob, b) == OwnersIn(Objects, ob, b)
CountOf(ob, b) == Cardinality(Owners(ob, b))

Counted(hp, ob, dr) ==
    \A b \in 0..MaxBlocks : hp[b].refs = CountOf(ob, b) + dr[b] + (IF b = Empty THEN 1 ELSE 0)

\* Blocks, objects and lost references that fit together.
Good(hp, ob, dr) == /\ HeapOK(hp)
                    /\ ob \in [Objects -> Object]
                    /\ dr \in [0..MaxBlocks -> Nat]
                    /\ \A h \in Objects : ob[h].buf # None => InRange(hp, ob[h])
                    /\ Counted(hp, ob, dr)

LEMMA OwnersFinite == \A ob, b : IsFiniteSet(Owners(ob, b)) /\ CountOf(ob, b) \in Nat
<1>1. \A ob, b : Owners(ob, b) \subseteq Objects
  BY DEF Owners, OwnersIn
<1>2. \A ob, b : IsFiniteSet(Owners(ob, b))
  BY <1>1, FS_Subset, ByteBufferAssumption
<1> QED
  BY <1>2, FS_CardinalityType DEF CountOf

LEMMA OwnersMove ==
  ASSUME NEW ob \in [Objects -> Object], NEW h \in Objects, NEW o2, NEW b
  PROVE  Moved(ob[h].buf = b, o2.buf = b, CountOf(ob, b), CountOf([ob EXCEPT ![h] = o2], b))
<1>1. ob = [x \in Objects |-> ob[x]] /\ IsFiniteSet(Objects)
  BY ByteBufferAssumption
<1> QED
  BY <1>1, OneOwnerMoves DEF CountOf, Owners

\* An object that exists is on a block that is there.
LEMMA GoodOn ==
  ASSUME NEW hp, NEW ob, NEW dr, Good(hp, ob, dr), NEW h \in Objects, ob[h].buf # None
  PROVE  OnBlock(hp, ob[h])
<1>1. ob[h] \in Object /\ ob[h].buf \in 0..MaxBlocks /\ InRange(hp, ob[h])
  BY DEF Good, Object
<1>2. PICK b \in 0..MaxBlocks : b = ob[h].buf
  BY <1>1
<1>3. Moved(TRUE, TRUE, CountOf(ob, b), CountOf([ob EXCEPT ![h] = ob[h]], b))
  BY <1>2, OwnersMove DEF Good
<1>4. hp[b].refs > 0
  BY <1>3 DEF Moved, Good, Counted
<1> QED
  BY <1>1, <1>2, <1>4 DEF OnBlock

\* Who is on a block with one reference is alone, and it is not the empty block.
LEMMA GoodAlone ==
  ASSUME NEW hp, NEW ob, NEW dr, Good(hp, ob, dr), NEW h \in Objects, ob[h].buf # None,
         NEW g \in Objects, g # h, ob[g].buf = ob[h].buf
  PROVE  hp[ob[h].buf].refs > 1
<1>1. PICK b \in 0..MaxBlocks : b = ob[h].buf
  BY DEF Good, Object
<1> DEFINE ob1 == [ob EXCEPT ![h] = NoObject]
<1>2. NoObject \in Object /\ NoObject.buf = None /\ b # None
  BY <1>1, BlocksAssumption DEF NoObject, Object, None
<1>3. ob1 \in [Objects -> Object] /\ ob1[g].buf = b
  BY <1>1, <1>2 DEF Good
<1>4. Moved(TRUE, FALSE, CountOf(ob, b), CountOf(ob1, b))
  BY <1>1, <1>2, OwnersMove DEF Good
<1> HIDE DEF ob1
<1>5. Moved(TRUE, TRUE, CountOf(ob1, b), CountOf([ob1 EXCEPT ![g] = ob1[g]], b))
  BY <1>3, OwnersMove
<1>6. CountOf(ob, b) \in Nat /\ CountOf(ob, b) > 1
  BY <1>4, <1>5 DEF Moved
<1>7. hp[b].refs = CountOf(ob, b) + dr[b] + (IF b = Empty THEN 1 ELSE 0) /\ dr[b] \in Nat
  BY DEF Good, Counted
<1> QED
  BY <1>1, <1>6, <1>7

LEMMA GoodEmpty ==
  ASSUME NEW hp, NEW ob, NEW dr, Good(hp, ob, dr)
  PROVE  Empty \in 0..MaxBlocks /\ hp[Empty].refs > 0
<1>1. Empty \in 0..MaxBlocks
  BY BlocksAssumption DEF Empty
<1> QED
  BY <1>1, OwnersFinite DEF Good, Counted

\* What the other objects have stays.
OthersSame(hp, ob, hp2, h) ==
    \A g \in Objects : g # h /\ ob[g].buf # None => hp2[ob[g].buf].bytes = hp[ob[g].buf].bytes

\* An object that got a block of its own, or changed the one it had.
LEMMA OwnKeeps ==
  ASSUME NEW hp, NEW ob, NEW dr, Good(hp, ob, dr), NEW h \in Objects, ob[h].buf # None,
         NEW hp2, HeapOK(hp2), NEW o2 \in Object, o2.buf # None,
         OwnStep(hp, ob[h].buf, hp2, o2.buf), InRange(hp2, o2)
  PROVE  Good(hp2, [ob EXCEPT ![h] = o2], dr) /\ OthersSame(hp, ob, hp2, h)
<1>1. PICK b \in 0..MaxBlocks, c \in 0..MaxBlocks : b = ob[h].buf /\ c = o2.buf
  BY DEF Good, Object
<1>2. OwnStep(hp, b, hp2, c) /\ ob \in [Objects -> Object]
  BY <1>1 DEF Good
<1>3. hp[b].refs > 0 /\ \A x \in 0..MaxBlocks : hp[x].refs \in Nat
  BY <1>1, GoodOn DEF OnBlock, Good, HeapOK, Block
<1>4. OthersSame(hp, ob, hp2, h)
  <2> SUFFICES ASSUME NEW g \in Objects, g # h, ob[g].buf # None
               PROVE  hp2[ob[g].buf].bytes = hp[ob[g].buf].bytes
    BY DEF OthersSame
  <2>1. PICK x \in 0..MaxBlocks : x = ob[g].buf
    BY DEF Good, Object
  <2>2. hp[x].refs > 0
    BY <2>1, GoodOn DEF OnBlock
  <2>3. x = b => hp[b].refs > 1
    BY <1>1, <2>1, GoodAlone
  <2> QED
    BY <1>2, <1>3, <2>1, <2>2, <2>3 DEF OwnStep
<1>5. Counted(hp2, [ob EXCEPT ![h] = o2], dr)
  <2> SUFFICES ASSUME NEW x \in 0..MaxBlocks
               PROVE  hp2[x].refs = CountOf([ob EXCEPT ![h] = o2], x) + dr[x] + (IF x = Empty THEN 1 ELSE 0)
    BY DEF Counted
  <2>1. Moved(b = x, c = x, CountOf(ob, x), CountOf([ob EXCEPT ![h] = o2], x))
    BY <1>1, <1>2, OwnersMove
  <2>2. /\ hp[x].refs = CountOf(ob, x) + dr[x] + (IF x = Empty THEN 1 ELSE 0)
        /\ dr[x] \in Nat /\ hp[x].refs \in Nat
    BY <1>3 DEF Good, Counted
  <2>3. hp2[x].refs = hp[x].refs + (IF c = x THEN 1 ELSE 0) - (IF b = x THEN 1 ELSE 0)
    BY <1>2, <2>2 DEF OwnStep
  <2> QED
    BY <2>1, <2>2, <2>3 DEF Moved
<1>6. \A g \in Objects : [ob EXCEPT ![h] = o2][g].buf # None => InRange(hp2, [ob EXCEPT ![h] = o2][g])
  <2> SUFFICES ASSUME NEW g \in Objects, g # h, ob[g].buf # None PROVE InRange(hp2, ob[g])
    BY <1>2
  <2> QED
    BY <1>4 DEF OthersSame, InRange, Good
<1> QED
  BY <1>2, <1>4, <1>5, <1>6 DEF Good

\* An object that begins to exist on a block that is there.
LEMMA AcquireKeeps ==
  ASSUME NEW hp, NEW ob, NEW dr, Good(hp, ob, dr), NEW h \in Objects, ob[h].buf = None,
         NEW o2 \in Object, o2.buf \in 0..MaxBlocks, hp[o2.buf].refs > 0, InRange(hp, o2)
  PROVE  /\ Good(Acquire(hp, o2.buf), [ob EXCEPT ![h] = o2], dr)
         /\ OthersSame(hp, ob, Acquire(hp, o2.buf), h)
<1>1. PICK c \in 0..MaxBlocks : c = o2.buf
  OBVIOUS
<1>2. PICK hp2 : hp2 = Acquire(hp, c)
  OBVIOUS
<1>3. /\ HeapOK(hp2) /\ hp2[c].refs = hp[c].refs + 1 /\ hp2[c].bytes = hp[c].bytes
      /\ \A x \in (0..MaxBlocks) \ {c} : hp2[x] = hp[x]
  BY <1>1, <1>2, AcquireIs DEF Good
<1>4. \A x \in 0..MaxBlocks : hp2[x].bytes = hp[x].bytes
  BY <1>3
<1>5. None # c /\ ob \in [Objects -> Object]
  BY BlocksAssumption DEF None, Good
<1>6. Counted(hp2, [ob EXCEPT ![h] = o2], dr)
  <2> SUFFICES ASSUME NEW x \in 0..MaxBlocks
               PROVE  hp2[x].refs = CountOf([ob EXCEPT ![h] = o2], x) + dr[x] + (IF x = Empty THEN 1 ELSE 0)
    BY DEF Counted
  <2>1. Moved(FALSE, c = x, CountOf(ob, x), CountOf([ob EXCEPT ![h] = o2], x))
    <3>1. (ob[h].buf = x) = FALSE
      BY BlocksAssumption DEF None
    <3>2. Moved(ob[h].buf = x, o2.buf = x, CountOf(ob, x), CountOf([ob EXCEPT ![h] = o2], x))
      BY <1>5, OwnersMove
    <3> QED
      BY <1>1, <3>1, <3>2
  <2>2. /\ hp[x].refs = CountOf(ob, x) + dr[x] + (IF x = Empty THEN 1 ELSE 0)
        /\ dr[x] \in Nat /\ hp[x].refs \in Nat
    BY DEF Good, Counted, HeapOK, Block
  <2>3. hp2[x].refs = hp[x].refs + (IF c = x THEN 1 ELSE 0)
    BY <1>3, <2>2
  <2> QED
    BY <2>1, <2>2, <2>3 DEF Moved
<1>7. \A g \in Objects : [ob EXCEPT ![h] = o2][g].buf # None => InRange(hp2, [ob EXCEPT ![h] = o2][g])
  <2>1. InRange(hp2, o2)
    BY <1>1, <1>4 DEF InRange
  <2>2. ASSUME NEW g \in Objects, g # h, ob[g].buf # None PROVE InRange(hp2, ob[g])
    <3>1. ob[g].buf \in 0..MaxBlocks
      BY <2>2 DEF Good, Object
    <3> QED
      BY <1>4, <2>2, <3>1 DEF InRange, Good
  <2> QED
    BY <1>5, <2>1, <2>2
<1>8. OthersSame(hp, ob, hp2, h)
  <2>1. \A g \in Objects : ob[g].buf # None => ob[g].buf \in 0..MaxBlocks
    BY DEF Good, Object
  <2> QED
    BY <1>4, <2>1 DEF OthersSame
<1> QED
  BY <1>1, <1>2, <1>3, <1>5, <1>6, <1>7, <1>8 DEF Good

\* An object on a block that malloc() gave for it.
LEMMA AllocKeeps ==
  ASSUME NEW hp, NEW ob, NEW dr, Good(hp, ob, dr), NEW h \in Objects, ob[h].buf = None,
         NEW bytes \in Seq(Int), NEW c \in 1..MaxBlocks, hp[c].refs = 0,
         NEW hp2, hp2 = [hp EXCEPT ![c] = [bytes |-> bytes, refs |-> 1]],
         NEW o2 \in Object, o2.buf = c, InRange(hp2, o2)
  PROVE  Good(hp2, [ob EXCEPT ![h] = o2], dr) /\ OthersSame(hp, ob, hp2, h)
<1>1. c \in 0..MaxBlocks /\ c # Empty /\ c # None /\ ob \in [Objects -> Object]
  BY BlocksAssumption DEF Empty, None, Good
<1>2. [bytes |-> bytes, refs |-> 1] \in Block
  BY DEF Block
<1>3. HeapOK(hp2) /\ hp2[c].refs = 1 /\ \A x \in (0..MaxBlocks) \ {c} : hp2[x] = hp[x]
  BY <1>1, <1>2 DEF Good, HeapOK
<1>4. Counted(hp2, [ob EXCEPT ![h] = o2], dr)
  <2> SUFFICES ASSUME NEW x \in 0..MaxBlocks
               PROVE  hp2[x].refs = CountOf([ob EXCEPT ![h] = o2], x) + dr[x] + (IF x = Empty THEN 1 ELSE 0)
    BY DEF Counted
  <2>1. Moved(FALSE, c = x, CountOf(ob, x), CountOf([ob EXCEPT ![h] = o2], x))
    <3>1. (ob[h].buf = x) = FALSE
      BY BlocksAssumption DEF None
    <3>2. Moved(ob[h].buf = x, o2.buf = x, CountOf(ob, x), CountOf([ob EXCEPT ![h] = o2], x))
      BY <1>1, OwnersMove
    <3> QED
      BY <3>1, <3>2
  <2>2. /\ hp[x].refs = CountOf(ob, x) + dr[x] + (IF x = Empty THEN 1 ELSE 0)
        /\ dr[x] \in Nat /\ hp[x].refs \in Nat
    BY DEF Good, Counted, HeapOK, Block
  <2> QED
    BY <1>1, <1>3, <2>1, <2>2 DEF Moved
<1>5. ASSUME NEW g \in Objects, ob[g].buf # None PROVE ob[g].buf \in (0..MaxBlocks) \ {c}
  <2>1. OnBlock(hp, ob[g])
    BY <1>5, GoodOn
  <2> QED
    BY <2>1 DEF OnBlock
<1>6. OthersSame(hp, ob, hp2, h)
  BY <1>3, <1>5 DEF OthersSame
<1>7. \A g \in Objects : [ob EXCEPT ![h] = o2][g].buf # None => InRange(hp2, [ob EXCEPT ![h] = o2][g])
  <2> SUFFICES ASSUME NEW g \in Objects, g # h, ob[g].buf # None PROVE InRange(hp2, ob[g])
    BY <1>1
  <2> QED
    BY <1>3, <1>5 DEF InRange, Good
<1> QED
  BY <1>1, <1>3, <1>4, <1>6, <1>7 DEF Good

\* An object that is gone.
LEMMA ReleaseKeeps ==
  ASSUME NEW hp, NEW ob, NEW dr, Good(hp, ob, dr), NEW h \in Objects, ob[h].buf # None
  PROVE  /\ Good(Release(hp, ob[h].buf), [ob EXCEPT ![h] = NoObject], dr)
         /\ OthersSame(hp, ob, Release(hp, ob[h].buf), h)
<1>1. PICK b \in 0..MaxBlocks : b = ob[h].buf
  BY DEF Good, Object
<1>2. PICK hp2 : hp2 = Release(hp, b)
  OBVIOUS
<1>3. hp[b].refs > 0
  BY <1>1, GoodOn DEF OnBlock
<1>4. /\ HeapOK(hp2) /\ hp2[b].refs = hp[b].refs - 1
      /\ hp[b].refs # 1 => hp2[b].bytes = hp[b].bytes
      /\ \A x \in (0..MaxBlocks) \ {b} : hp2[x] = hp[x]
  BY <1>2, <1>3, ReleaseIs DEF Good
<1>5. NoObject \in Object /\ NoObject.buf = None /\ ob \in [Objects -> Object]
  BY DEF NoObject, Object, Good
<1>6. OthersSame(hp, ob, hp2, h)
  <2> SUFFICES ASSUME NEW g \in Objects, g # h, ob[g].buf # None
               PROVE  hp2[ob[g].buf].bytes = hp[ob[g].buf].bytes
    BY DEF OthersSame
  <2>1. ob[g].buf \in 0..MaxBlocks
    BY DEF Good, Object
  <2>2. ob[g].buf = b => hp[b].refs > 1
    BY <1>1, GoodAlone
  <2> QED
    BY <1>4, <2>1, <2>2
<1>7. Counted(hp2, [ob EXCEPT ![h] = NoObject], dr)
  <2> SUFFICES ASSUME NEW x \in 0..MaxBlocks
               PROVE  hp2[x].refs = CountOf([ob EXCEPT ![h] = NoObject], x) + dr[x] + (IF x = Empty THEN 1 ELSE 0)
    BY DEF Counted
  <2>1. Moved(b = x, FALSE, CountOf(ob, x), CountOf([ob EXCEPT ![h] = NoObject], x))
    <3>1. (NoObject.buf = x) = FALSE
      BY <1>5, BlocksAssumption DEF None
    <3>2. Moved(ob[h].buf = x, NoObject.buf = x, CountOf(ob, x), CountOf([ob EXCEPT ![h] = NoObject], x))
      BY <1>5, OwnersMove
    <3> QED
      BY <1>1, <3>1, <3>2
  <2>2. /\ hp[x].refs = CountOf(ob, x) + dr[x] + (IF x = Empty THEN 1 ELSE 0)
        /\ dr[x] \in Nat /\ hp[x].refs \in Nat
    BY DEF Good, Counted, HeapOK, Block
  <2>3. hp2[x].refs = hp[x].refs - (IF b = x THEN 1 ELSE 0)
    BY <1>4, <2>2
  <2> QED
    BY <2>1, <2>2, <2>3 DEF Moved
<1>8. \A g \in Objects : [ob EXCEPT ![h] = NoObject][g].buf # None =>
                           InRange(hp2, [ob EXCEPT ![h] = NoObject][g])
  <2> SUFFICES ASSUME NEW g \in Objects, g # h, ob[g].buf # None PROVE InRange(hp2, ob[g])
    BY <1>5
  <2> QED
    BY <1>6 DEF OthersSame, InRange, Good
<1> QED
  BY <1>1, <1>2, <1>4, <1>5, <1>6, <1>7, <1>8 DEF Good

\* Two objects that change places.
LEMMA SwapKeeps ==
  ASSUME NEW hp, NEW ob, NEW dr, Good(hp, ob, dr), NEW g \in Objects, NEW h \in Objects, g # h
  PROVE  Good(hp, [ob EXCEPT ![h] = ob[g], ![g] = ob[h]], dr)
<1> DEFINE ob1 == [ob EXCEPT ![h] = ob[g]]
           ob2 == [ob1 EXCEPT ![g] = ob[h]]
<1>1. ob \in [Objects -> Object] /\ ob1 \in [Objects -> Object] /\ ob2 \in [Objects -> Object]
  BY DEF Good
<1>2. ob1[g] = ob[g] /\ ob2 = [ob EXCEPT ![h] = ob[g], ![g] = ob[h]]
  BY <1>1
<1>3. ASSUME NEW x \in 0..MaxBlocks PROVE CountOf(ob2, x) = CountOf(ob, x)
  <2>1. Moved(ob[h].buf = x, ob[g].buf = x, CountOf(ob, x), CountOf(ob1, x))
    BY <1>1, OwnersMove
  <2> HIDE DEF ob1
  <2>2. Moved(ob1[g].buf = x, ob[h].buf = x, CountOf(ob1, x), CountOf(ob2, x))
    BY <1>1, OwnersMove
  <2> HIDE DEF ob2
  <2> QED
    BY <1>2, <2>1, <2>2 DEF Moved
<1>4. Counted(hp, ob2, dr)
  <2> HIDE DEF ob2
  <2> QED
    BY <1>3 DEF Good, Counted
<1>5. \A x \in Objects : ob2[x].buf # None => InRange(hp, ob2[x])
  BY <1>1 DEF Good
<1> HIDE DEF ob2
<1> QED
  BY <1>1, <1>2, <1>4, <1>5 DEF Good

\* set() on an object keeps everything in order, whatever becomes of it.
SetKept(hp, ob, dr, h, r) ==
    /\ Good(r.heap, [ob EXCEPT ![h] = r.obj], dr)
    /\ OthersSame(hp, ob, r.heap, h)
    /\ r.obj \in Object /\ r.obj.buf # None
    /\ r.ret \in Nat /\ r.bad \in BOOLEAN

LEMMA SetKeeps ==
  ASSUME NEW hp, NEW ob, NEW dr, Good(hp, ob, dr), NEW h \in Objects, ob[h].buf # None,
         NEW data \in Seq(Int), NEW offset \in Nat, NEW src \in {None} \cup 0..MaxBlocks,
         NEW r \in SetBytes(hp, ob[h], data, offset, src)
  PROVE  SetKept(hp, ob, dr, h, r)
<1>1. HeapOK(hp) /\ OnBlock(hp, ob[h]) /\ ob \in [Objects -> Object] /\ ob[h] \in Object
  BY GoodOn DEF Good
<1>2. SetNothing(hp, ob[h], r) \/ SetDone(hp, ob[h], data, offset, src, r)
  BY <1>1, SetBytesIs
<1>3. CASE SetNothing(hp, ob[h], r)
  <2>1. [ob EXCEPT ![h] = r.obj] = ob
    BY <1>1, <1>3 DEF SetNothing
  <2>2. Good(r.heap, [ob EXCEPT ![h] = r.obj], dr) /\ OthersSame(hp, ob, r.heap, h)
    BY <1>3, <2>1 DEF SetNothing, OthersSame
  <2>3. r.obj \in Object /\ r.obj.buf # None /\ r.ret \in Nat
    BY <1>1, <1>3 DEF SetNothing
  <2>4. r.bad \in BOOLEAN
    BY <1>3, Zenon DEF SetNothing
  <2> QED
    BY <2>2, <2>3, <2>4 DEF SetKept
<1>4. CASE SetDone(hp, ob[h], data, offset, src, r)
  <2> DEFINE c == r.obj.buf
             n == Len(data) + Place(ob[h], offset)
             room == Len(r.heap[c].bytes)
  <2>1. /\ c \in 0..MaxBlocks /\ HeapOK(r.heap) /\ n <= room
        /\ r.obj = [buf |-> c, size |-> n, cap |-> room, shrunk |-> FALSE]
        /\ OwnStep(hp, ob[h].buf, r.heap, c) /\ r.ret = Len(data) /\ r.bad \in BOOLEAN
    BY <1>4 DEF SetDone
  <2>2. n \in Nat /\ Len(data) \in Nat
    BY DEF Place
  <2>3. room \in Nat
    BY <2>1 DEF HeapOK, Block
  <2>4. c # None
    BY <2>1, BlocksAssumption DEF None
  <2> HIDE DEF c, n, room
  <2>5. r.obj.buf = c /\ r.obj \in Object
    BY <2>1, <2>2, <2>3 DEF Object
  <2>6. InRange(r.heap, r.obj)
    BY <2>1, <2>2, <2>3 DEF InRange, room
  <2>7. Good(r.heap, [ob EXCEPT ![h] = r.obj], dr) /\ OthersSame(hp, ob, r.heap, h)
    BY <2>1, <2>4, <2>5, <2>6, OwnKeeps
  <2>8. r.ret \in Nat /\ r.bad \in BOOLEAN
    BY <1>4, <2>2 DEF SetDone
  <2> QED
    BY <2>4, <2>5, <2>7, <2>8 DEF SetKept
<1> QED
  BY <1>2, <1>3, <1>4

\* The same for an object that begins with the empty block.
LEMMA EmptyKeeps ==
  ASSUME NEW hp, NEW ob, NEW dr, Good(hp, ob, dr), NEW h \in Objects, ob[h].buf = None
  PROVE  /\ Good(Acquire(hp, Empty), [ob EXCEPT ![h] = EmptyObject], dr)
         /\ OthersSame(hp, ob, Acquire(hp, Empty), h)
         /\ EmptyObject \in Object /\ EmptyObject.buf # None
<1>1. Empty \in 0..MaxBlocks /\ hp[Empty].refs > 0
  BY GoodEmpty
<1>2. EmptyObject \in Object /\ EmptyObject.buf = Empty /\ EmptyObject.size = 0 /\ EmptyObject.cap = 0
  BY <1>1 DEF EmptyObject, NoObject, Object
<1>3. hp[Empty].bytes \in Seq(Int)
  BY <1>1 DEF Good, HeapOK, Block
<1>4. InRange(hp, EmptyObject)
  BY <1>2, <1>3 DEF InRange
<1> QED
  BY <1>1, <1>2, <1>4, AcquireKeeps DEF None, Empty

\* One change of an object after another.
LEMMA OneByOne ==
  ASSUME NEW ob \in [Objects -> Object], NEW h \in Objects, NEW o1, NEW o2, NEW hp, NEW hp1, NEW hp2,
         OthersSame(hp, ob, hp1, h), OthersSame(hp1, [ob EXCEPT ![h] = o1], hp2, h)
  PROVE  /\ OthersSame(hp, ob, hp2, h)
         /\ [[ob EXCEPT ![h] = o1] EXCEPT ![h] = o2] = [ob EXCEPT ![h] = o2]
         /\ [ob EXCEPT ![h] = o1][h] = o1
  BY DEF OthersSame

-----------------------------------------------------------------------------
(* The calls on ByteBuffer *)

BInv == Good(heap, obj, dropped) /\ returned \in Int /\ misused \in BOOLEAN

\* What a call on h does: it changes no other object, and no byte of one; when
\* it returns 0 no byte of h is lost; and only h appended to itself, alone on its
\* block, or constructed without memory, uses bytes that are no block's.
OneObject(h) == /\ obj' = [obj EXCEPT ![h] = obj'[h]]
                /\ OthersSame(heap, obj, heap', h)

FailKeeps(h) == returned' = 0 /\ Alive(h) /\ Alive(h)' /\ ~ obj[h].shrunk =>
                    /\ obj'[h].size >= obj[h].size
                    /\ SubSeq(Contents(h)', 1, obj[h].size) = Contents(h)

\* The constructor from uint8_t found no memory.
BornWithout(h) == \E data \in Items : ConstructBytes(h, data)

FreedBy(h) == misused' => \/ misused
                         \/ BornWithout(h)
                         \/ /\ Alive(h) /\ heap[obj[h].buf].refs = 1
                            /\ obj'[h].size = 2 * obj[h].size

ByteStep(h) == BInv' /\ OneObject(h) /\ FailKeeps(h) /\ FreedBy(h)

LEMMA ItemIs == ASSUME NEW data \in Items
                PROVE  data \in Seq(Int) /\ data # <<>> /\ Len(data) \in Nat \ {0} /\ data[1] \in Int
<1>1. data \in Seq(Nat) /\ data # <<>>
  BY ByteBufferAssumption
<1>2. Len(data) \in Nat /\ \A i \in 1..Len(data) : data[i] \in Int
  BY <1>1, ElementOfSeq
<1>3. data = [i \in 1..Len(data) |-> data[i]]
  BY <1>1
<1>4. data \in Seq(Int)
  BY <1>2, <1>3, SeqOfFunction
<1>5. Len(data) # 0
  BY <1>1
<1> QED
  BY <1>1, <1>2, <1>4, <1>5

\* The bytes an object has.
LEMMA ContentsIs ==
  ASSUME BInv, NEW h \in Objects, Alive(h)
  PROVE  /\ Contents(h) \in Seq(Int) /\ Len(Contents(h)) = obj[h].size /\ obj[h].size \in Nat
         /\ \A i \in 1..obj[h].size :
               Contents(h)[i] = IF i <= Len(heap[obj[h].buf].bytes) THEN heap[obj[h].buf].bytes[i] ELSE Junk
<1>1. obj[h].buf \in 0..MaxBlocks /\ obj[h].size \in Nat
  BY DEF BInv, Good, Object, Alive
<1> DEFINE bytes == heap[obj[h].buf].bytes
<1>2. bytes \in Seq(Int) /\ Len(bytes) \in Nat /\ \A i \in 1..Len(bytes) : bytes[i] \in Int
  <2>1. bytes \in Seq(Int)
    BY <1>1 DEF BInv, Good, HeapOK, Block
  <2> QED
    BY <2>1, ElementOfSeq
<1>3. Contents(h) = [i \in 1..obj[h].size |-> IF i <= Len(bytes) THEN bytes[i] ELSE Junk]
  BY DEF Contents
<1> HIDE DEF bytes
<1>4. /\ Contents(h) = [i \in 1..obj[h].size |-> Contents(h)[i]]
      /\ \A i \in 1..obj[h].size : Contents(h)[i] = IF i <= Len(bytes) THEN bytes[i] ELSE Junk
  BY <1>3
<1>5. ASSUME NEW i \in 1..obj[h].size PROVE Contents(h)[i] \in Int
  <2>1. Contents(h)[i] = IF i <= Len(bytes) THEN bytes[i] ELSE Junk
    BY <1>4
  <2>2. i <= Len(bytes) => i \in 1..Len(bytes)
    BY <1>1, <1>2
  <2>3. i <= Len(bytes) => bytes[i] \in Int
    BY <1>2, <2>2
  <2> QED
    BY <2>1, <2>3 DEF Junk
<1>6. Contents(h) \in Seq(Int) /\ Len(Contents(h)) = obj[h].size
  BY <1>1, <1>4, <1>5, SeqOfFunction
<1> QED
  BY <1>1, <1>4, <1>6 DEF bytes

LEMMA SameContents ==
  ASSUME NEW h \in Objects, obj'[h] = obj[h], heap'[obj[h].buf].bytes = heap[obj[h].buf].bytes
  PROVE  Contents(h)' = Contents(h)
  BY DEF Contents

LEMMA SameKept ==
  ASSUME BInv, NEW h \in Objects, obj'[h] = obj[h],
         Alive(h) => heap'[obj[h].buf].bytes = heap[obj[h].buf].bytes
  PROVE  FailKeeps(h)
<1> SUFFICES ASSUME Alive(h)
             PROVE  obj'[h].size >= obj[h].size /\ SubSeq(Contents(h)', 1, obj[h].size) = Contents(h)
  BY DEF FailKeeps
<1>1. Contents(h)' = Contents(h)
  BY SameContents
<1>2. Contents(h) \in Seq(Int) /\ Len(Contents(h)) = obj[h].size /\ obj[h].size \in Nat
  BY ContentsIs
<1> QED
  BY <1>1, <1>2, SubSeqFull

\* A call whose outcome is in order.
LEMMA BecomeKeeps ==
  ASSUME BInv, NEW h \in Objects, NEW r, Become(h, r),
         Good(r.heap, [obj EXCEPT ![h] = r.obj], dropped), OthersSame(heap, obj, r.heap, h),
         r.ret \in Int, r.bad \in BOOLEAN
  PROVE  /\ BInv' /\ OneObject(h)
         /\ obj'[h] = r.obj /\ heap' = r.heap /\ returned' = r.ret /\ (misused' => misused \/ r.bad)
<1>1. /\ heap' = r.heap /\ obj' = [obj EXCEPT ![h] = r.obj] /\ returned' = r.ret
      /\ misused' = (misused \/ r.bad) /\ dropped' = dropped
  BY DEF Become
<1>2. misused' \in BOOLEAN
  BY <1>1
<1>3. Good(heap', obj', dropped')
  BY <1>1
<1>4. obj \in [Objects -> Object]
  BY DEF BInv, Good
<1>5. obj'[h] = r.obj
  BY <1>1, <1>4
<1> QED
  BY <1>1, <1>2, <1>3, <1>5 DEF BInv, OneObject

LEMMA BecomeObjectKeeps ==
  ASSUME BInv, NEW h \in Objects, NEW hp, NEW o, BecomeObject(h, hp, o),
         Good(hp, [obj EXCEPT ![h] = o], dropped), OthersSame(heap, obj, hp, h)
  PROVE  ByteStep(h)
<1> DEFINE r == [heap |-> hp, obj |-> o, ret |-> Junk, bad |-> FALSE]
<1>1. Become(h, r) /\ r.heap = hp /\ r.obj = o /\ r.ret = Junk
  BY DEF BecomeObject
<1>2. r.bad = FALSE
  OBVIOUS
<1>3. r.bad \in BOOLEAN
  OBVIOUS
<1> HIDE DEF r
<1>4. /\ BInv' /\ OneObject(h)
      /\ returned' = r.ret /\ (misused' => misused \/ r.bad)
  BY <1>1, <1>3, BecomeKeeps DEF Junk
<1>5. FailKeeps(h)
  BY <1>1, <1>4 DEF FailKeeps, Junk
<1>6. FreedBy(h)
  BY <1>2, <1>4 DEF FreedBy
<1> QED
  BY <1>4, <1>5, <1>6 DEF ByteStep

LEMMA ConstructKeeps == ASSUME BInv, NEW h \in Objects, Construct(h) PROVE ByteStep(h)
<1>1. obj[h].buf = None /\ BecomeObject(h, Acquire(heap, Empty), EmptyObject)
  BY DEF Construct, Alive
<1> QED
  BY <1>1, EmptyKeeps, BecomeObjectKeeps DEF BInv

\* The bytes of a new block, and the object on it.
HoldingOutcome(hp, b, n, o) ==
    /\ o \in Object /\ o.buf = b /\ o.size = n /\ o.cap = Len(hp[b].bytes) /\ o.shrunk = FALSE
    /\ b # None /\ Len(hp[b].bytes) \in Nat

LEMMA HoldingIs ==
  ASSUME NEW o \in Object, NEW hp, HeapOK(hp), NEW b \in 0..MaxBlocks, NEW n \in Nat
  PROVE  HoldingOutcome(hp, b, n, Holding(o, hp, b, n))
<1>1. PICK k \in Nat : k = Len(hp[b].bytes)
  BY DEF HeapOK, Block
<1>2. Holding(o, hp, b, n) = [o EXCEPT !.buf = b, !.cap = k, !.size = n, !.shrunk = FALSE]
  BY <1>1 DEF Holding
<1>3. Holding(o, hp, b, n) = [buf |-> b, size |-> n, cap |-> k, shrunk |-> FALSE]
  BY <1>2 DEF Object
<1>4. b # None
  BY BlocksAssumption DEF None
<1> QED
  BY <1>1, <1>3, <1>4 DEF Object, HoldingOutcome

LEMMA ConstructSizeKeeps ==
  ASSUME BInv, NEW h \in Objects, NEW n \in Nat, ConstructSize(h, n)
  PROVE  ByteStep(h)
<1> DEFINE hp1 == Acquire(heap, Empty)
           ob1 == [obj EXCEPT ![h] = EmptyObject]
           bytes == Resized(<<>>, n, Junk)
<1>1. obj[h].buf = None /\ obj \in [Objects -> Object]
  BY DEF ConstructSize, Alive, BInv, Good
<1>2. PICK r \in Instead(hp1, Empty, bytes) :
        BecomeObject(h, r.heap, IF r.block = None THEN EmptyObject
                                ELSE Holding(EmptyObject, r.heap, r.block, 0))
  BY DEF ConstructSize
<1>3. Good(hp1, ob1, dropped) /\ OthersSame(heap, obj, hp1, h)
  BY <1>1, EmptyKeeps DEF BInv
<1>4. ob1[h] = EmptyObject /\ EmptyObject \in Object /\ EmptyObject.buf = Empty /\ Empty # None
  BY <1>1, EmptyKeeps DEF BInv, EmptyObject, NoObject, Empty, None
<1>5. bytes \in Seq(Int)
  <2>1. <<>> \in Seq(Int) /\ Junk \in Int
    BY DEF Junk
  <2> QED
    BY <2>1, ResizedIs
<1> HIDE DEF hp1, bytes
<1>6. Empty \in 0..MaxBlocks /\ hp1[Empty].refs > 0 /\ HeapOK(hp1)
  BY <1>3, GoodEmpty DEF Good
<1>7. OwnOutcome(hp1, Empty, r)
  BY <1>5, <1>6, InsteadIs
<1>8. CASE r.block = None
  <2>1. r.heap = hp1
    BY <1>7, <1>8, BlocksAssumption DEF OwnOutcome, None
  <2> QED
    BY <1>2, <1>3, <1>8, <2>1, BecomeObjectKeeps
<1>9. CASE r.block # None
  <2> DEFINE o == Holding(EmptyObject, r.heap, r.block, 0)
  <2>1. r.block \in 0..MaxBlocks /\ HeapOK(r.heap) /\ OwnStep(hp1, Empty, r.heap, r.block)
    BY <1>7, <1>9 DEF OwnOutcome
  <2>2. HoldingOutcome(r.heap, r.block, 0, o)
    BY <1>4, <2>1, HoldingIs
  <2> HIDE DEF o
  <2>3. o \in Object /\ o.buf = r.block /\ InRange(r.heap, o)
    BY <2>2 DEF InRange, HoldingOutcome
  <2>4. Good(r.heap, [ob1 EXCEPT ![h] = o], dropped) /\ OthersSame(hp1, ob1, r.heap, h)
    BY <1>3, <1>4, <1>9, <2>1, <2>3, OwnKeeps
  <2>5. [ob1 EXCEPT ![h] = o] = [obj EXCEPT ![h] = o]
    BY <1>1
  <2>6. OthersSame(heap, obj, r.heap, h)
    BY <1>1, <1>3, <2>4 DEF OthersSame
  <2>7. BecomeObject(h, r.heap, o)
    BY <1>2, <1>9 DEF o
  <2> QED
    BY <2>4, <2>5, <2>6, <2>7, BecomeObjectKeeps
<1> QED
  BY <1>8, <1>9

\* Where the object was not there before there is nothing to lose.
LEMMA BornKeeps ==
  ASSUME BInv, NEW h \in Objects, ~ Alive(h), NEW r, Become(h, r),
         Good(r.heap, [obj EXCEPT ![h] = r.obj], dropped), OthersSame(heap, obj, r.heap, h),
         r.ret \in Int, r.bad = FALSE
  PROVE  ByteStep(h)
<1>1. r.bad \in BOOLEAN
  BY Zenon
<1>2. BInv' /\ OneObject(h) /\ (misused' => misused \/ r.bad)
  BY <1>1, BecomeKeeps
<1> QED
  BY <1>2 DEF ByteStep, FailKeeps, FreedBy

\* Data that is nowhere in the heap is not freed.
LEMMA FromOutside ==
  ASSUME NEW hp, HeapOK(hp), NEW o, OnBlock(hp, o), NEW data \in Seq(Int), NEW offset \in Nat,
         NEW r \in SetBytes(hp, o, data, offset, None)
  PROVE  r.bad = FALSE
<1>1. SetNothing(hp, o, r) \/ SetDone(hp, o, data, offset, None, r)
  BY SetBytesIs
<1>2. CASE SetNothing(hp, o, r)
  BY <1>2 DEF SetNothing
<1>3. CASE SetDone(hp, o, data, offset, None, r)
  BY <1>3 DEF SetDone
<1> QED
  BY <1>1, <1>2, <1>3

LEMMA ConstructCharsKeeps ==
  ASSUME BInv, NEW h \in Objects, NEW data \in Items, ConstructChars(h, data)
  PROVE  ByteStep(h)
<1> DEFINE hp1 == Acquire(heap, Empty)
           ob1 == [obj EXCEPT ![h] = EmptyObject]
<1>1. obj[h].buf = None /\ obj \in [Objects -> Object] /\ ~ Alive(h)
  BY DEF ConstructChars, Alive, BInv, Good
<1>2. PICK r \in SetBytes(hp1, EmptyObject, data, 0, None) : Become(h, r)
  BY DEF ConstructChars
<1>3. Good(hp1, ob1, dropped) /\ OthersSame(heap, obj, hp1, h)
  BY <1>1, EmptyKeeps DEF BInv
<1>4. ob1[h] = EmptyObject /\ EmptyObject.buf # None
  BY <1>1, EmptyKeeps DEF BInv
<1>5. data \in Seq(Int)
  BY ItemIs
<1> HIDE DEF hp1
<1>6. SetKept(hp1, ob1, dropped, h, r)
  <2> HIDE DEF ob1
  <2> QED
    BY <1>2, <1>3, <1>4, <1>5, SetKeeps
<1>7. r.bad = FALSE
  <2>1. HeapOK(hp1) /\ OnBlock(hp1, EmptyObject)
    <3> HIDE DEF ob1
    <3> QED
      BY <1>3, <1>4, GoodOn DEF Good
  <2> QED
    BY <1>2, <1>5, <2>1, FromOutside
<1>8. [ob1 EXCEPT ![h] = r.obj] = [obj EXCEPT ![h] = r.obj]
  BY <1>1
<1>9. Good(r.heap, [obj EXCEPT ![h] = r.obj], dropped) /\ r.ret \in Int
  BY <1>6, <1>8 DEF SetKept
<1>10. OthersSame(heap, obj, r.heap, h)
  BY <1>1, <1>3, <1>6 DEF OthersSame, SetKept
<1> QED
  BY <1>1, <1>2, <1>7, <1>9, <1>10, BornKeeps

LEMMA BornWithoutKeeps ==
  ASSUME BInv, NEW h \in Objects, obj[h].buf = None, NEW data \in Items, ConstructBytes(h, data),
         Become(h, [heap |-> heap, obj |-> NoObject, ret |-> Junk, bad |-> TRUE])
  PROVE  ByteStep(h)
<1>1. /\ heap' = heap /\ obj' = [obj EXCEPT ![h] = NoObject] /\ returned' = Junk
      /\ misused' /\ misused' \in BOOLEAN /\ dropped' = dropped
  BY DEF Become
<1>2. NoObject \in Object /\ NoObject.buf = None /\ obj \in [Objects -> Object]
  BY DEF NoObject, Object, BInv, Good
<1>3. /\ obj' \in [Objects -> Object] /\ obj'[h] = NoObject
      /\ \A g \in Objects \ {h} : obj'[g] = obj[g]
  BY <1>1, <1>2
<1>4. \A b \in 0..MaxBlocks : Owners(obj', b) = Owners(obj, b)
  BY <1>2, <1>3 DEF Owners, OwnersIn, None
<1>5. Good(heap', obj', dropped')
  BY <1>1, <1>2, <1>3, <1>4 DEF BInv, Good, Counted, CountOf
<1>6. BInv' /\ OneObject(h)
  BY <1>1, <1>3, <1>5 DEF BInv, OneObject, OthersSame, Junk
<1> QED
  BY <1>1, <1>6 DEF ByteStep, FailKeeps, FreedBy, BornWithout, Junk

LEMMA ConstructBytesKeeps ==
  ASSUME BInv, NEW h \in Objects, NEW data \in Items, ConstructBytes(h, data)
  PROVE  ByteStep(h)
<1> DEFINE bytes == Resized(<<>>, Len(data), 0)
<1>1. obj[h].buf = None /\ obj \in [Objects -> Object] /\ ~ Alive(h)
  BY DEF ConstructBytes, Alive, BInv, Good
<1>2. PICK q \in Alloc(heap, bytes) :
        IF q.block = None
        THEN Become(h, [heap |-> heap, obj |-> NoObject, ret |-> Junk, bad |-> TRUE])
        ELSE \E r \in SetBytes(q.heap, Holding(NoObject, q.heap, q.block, 0), data, 0, None) : Become(h, r)
  BY DEF ConstructBytes
<1>0. CASE q.block = None
  BY <1>1, <1>2, <1>0, BornWithoutKeeps
<1> SUFFICES ASSUME q.block # None PROVE ByteStep(h)
  BY <1>0
<1>3. data \in Seq(Int) /\ bytes \in Seq(Int)
  BY ItemIs, ResizedIs
<1> HIDE DEF bytes
<1>4. PICK c \in 1..MaxBlocks : /\ heap[c].refs = 0 /\ c = q.block
                                /\ q.heap = [heap EXCEPT ![c] = [bytes |-> bytes, refs |-> 1]]
  <2>1. AllocOutcome(heap, bytes, q)
    BY AllocIs
  <2> QED
    BY <1>2, <2>1 DEF AllocOutcome
<1>5. PICK hp1 : hp1 = q.heap
  OBVIOUS
<1>6. HeapOK(hp1)
  <2>1. PICK block \in Block : block = [bytes |-> bytes, refs |-> 1]
    BY <1>3 DEF Block
  <2>2. block.refs # 0 /\ hp1 = [heap EXCEPT ![c] = block]
    BY <1>4, <1>5, <2>1
  <2> QED
    BY <2>2 DEF BInv, Good, HeapOK
<1>7. PICK o1 : o1 = Holding(NoObject, hp1, c, 0)
  OBVIOUS
<1>8. HoldingOutcome(hp1, c, 0, o1)
  <2>1. NoObject \in Object /\ c \in 0..MaxBlocks
    BY BlocksAssumption DEF NoObject, Object
  <2> QED
    BY <1>6, <1>7, <2>1, HoldingIs
<1>9. o1 \in Object /\ o1.buf = c /\ InRange(hp1, o1)
  BY <1>8 DEF InRange, HoldingOutcome
<1>10. PICK ob1 : ob1 = [obj EXCEPT ![h] = o1]
  OBVIOUS
<1>11. Good(hp1, ob1, dropped) /\ OthersSame(heap, obj, hp1, h)
  <2>1. hp1 = [heap EXCEPT ![c] = [bytes |-> bytes, refs |-> 1]]
    BY <1>4, <1>5
  <2> QED
    BY <1>1, <1>3, <1>4, <1>9, <1>10, <2>1, AllocKeeps DEF BInv
<1>12. PICK r \in SetBytes(hp1, o1, data, 0, None) : Become(h, r)
  BY <1>2, <1>4, <1>5, <1>7
<1>13. ob1[h] = o1 /\ o1.buf # None
  BY <1>1, <1>8, <1>9, <1>10 DEF HoldingOutcome
<1>14. SetKept(hp1, ob1, dropped, h, r)
  BY <1>3, <1>11, <1>12, <1>13, SetKeeps
<1>15. r.bad = FALSE
  <2>1. OnBlock(hp1, o1)
    BY <1>11, <1>13, GoodOn
  <2> QED
    BY <1>3, <1>6, <1>12, <2>1, FromOutside
<1>16. [ob1 EXCEPT ![h] = r.obj] = [obj EXCEPT ![h] = r.obj]
  BY <1>1, <1>10
<1>17. Good(r.heap, [obj EXCEPT ![h] = r.obj], dropped) /\ r.ret \in Int
  BY <1>14, <1>16 DEF SetKept
<1>18. OthersSame(heap, obj, r.heap, h)
  BY <1>1, <1>10, <1>11, <1>14 DEF OthersSame, SetKept
<1> QED
  BY <1>1, <1>12, <1>15, <1>17, <1>18, BornKeeps

LEMMA CopyKeeps == ASSUME BInv, NEW g \in Objects, NEW h \in Objects, Copy(g, h) PROVE ByteStep(h)
<1>1. /\ obj[h].buf = None /\ obj[g].buf # None
      /\ BecomeObject(h, Acquire(heap, obj[g].buf), obj[g])
  BY DEF Copy, Alive
<1>2. PICK o : o = obj[g]
  OBVIOUS
<1>3. OnBlock(heap, o)
  BY <1>1, <1>2, GoodOn DEF BInv
<1> QED
  BY <1>1, <1>2, <1>3, AcquireKeeps, BecomeObjectKeeps DEF BInv, OnBlock

LEMMA DestroyKeeps == ASSUME BInv, NEW h \in Objects, Destroy(h) PROVE ByteStep(h)
<1>1. obj[h].buf # None /\ BecomeObject(h, Release(heap, obj[h].buf), NoObject)
  BY DEF Destroy, Alive
<1> QED
  BY <1>1, ReleaseKeeps, BecomeObjectKeeps DEF BInv

\* An object that goes to a block it owns, or stays where it is.
LEMMA OwnBecomes ==
  ASSUME BInv, NEW h \in Objects, Alive(h), NEW r, OwnOutcome(heap, obj[h].buf, r), r.block # None,
         NEW o \in Object, o.buf = r.block, InRange(r.heap, o), BecomeObject(h, r.heap, o)
  PROVE  ByteStep(h)
<1>1. obj[h].buf # None /\ HeapOK(r.heap) /\ OwnStep(heap, obj[h].buf, r.heap, o.buf) /\ o.buf # None
  BY DEF Alive, OwnOutcome
<1>2. Good(r.heap, [obj EXCEPT ![h] = o], dropped) /\ OthersSame(heap, obj, r.heap, h)
  BY <1>1, OwnKeeps DEF BInv
<1> QED
  BY <1>2, BecomeObjectKeeps

LEMMA StaysKeeps ==
  ASSUME BInv, NEW h \in Objects, Alive(h), NEW o \in Object, o.buf = obj[h].buf, InRange(heap, o),
         BecomeObject(h, heap, o)
  PROVE  ByteStep(h)
<1>1. OnBlock(heap, obj[h]) /\ HeapOK(heap) /\ obj[h].buf # None
  BY GoodOn DEF BInv, Alive, Good
<1>2. PICK b \in 0..MaxBlocks : b = obj[h].buf /\ heap[b].refs > 0
  BY <1>1 DEF OnBlock
<1>3. OwnStep(heap, obj[h].buf, heap, o.buf)
  BY <1>2 DEF OwnStep
<1>4. Good(heap, [obj EXCEPT ![h] = o], dropped) /\ OthersSame(heap, obj, heap, h)
  BY <1>1, <1>3, OwnKeeps DEF BInv
<1> QED
  BY <1>4, BecomeObjectKeeps

LEMMA ClearKeeps == ASSUME BInv, NEW h \in Objects, Clear(h) PROVE ByteStep(h)
<1>1. PICK r \in Edit(heap, obj[h].buf) :
        BecomeObject(h, r.heap, [obj[h] EXCEPT !.buf = IF r.block = None THEN obj[h].buf ELSE r.block,
                                               !.size = 0, !.shrunk = FALSE])
  BY DEF Clear
<1>2. Alive(h) /\ OnBlock(heap, obj[h]) /\ HeapOK(heap)
  BY GoodOn DEF BInv, Clear, Alive, Good
<1>3. PICK b \in 0..MaxBlocks : b = obj[h].buf /\ heap[b].refs > 0
  BY <1>2 DEF OnBlock
<1>4. OwnOutcome(heap, b, r) /\ (r.block # None => r.heap[r.block].bytes = heap[b].bytes)
  BY <1>1, <1>2, <1>3, EditIs
<1>5. obj[h] \in Object /\ obj[h].cap \in Nat /\ obj[h].cap <= Len(heap[b].bytes)
  BY <1>2, <1>3 DEF OnBlock, InRange, Object
<1>6. CASE r.block = None
  <2> DEFINE o == [obj[h] EXCEPT !.buf = obj[h].buf, !.size = 0, !.shrunk = FALSE]
  <2>1. r.heap = heap /\ BecomeObject(h, r.heap, o)
    BY <1>1, <1>4, <1>6, BlocksAssumption DEF OwnOutcome, None
  <2>2. o \in Object /\ o.buf = b /\ o.size = 0 /\ o.cap = obj[h].cap
    BY <1>3, <1>5 DEF Object
  <2> HIDE DEF o
  <2>3. InRange(heap, o)
    BY <1>5, <2>2 DEF InRange
  <2> QED
    BY <1>2, <1>3, <2>1, <2>2, <2>3, StaysKeeps
<1>7. CASE r.block # None
  <2> DEFINE o == [obj[h] EXCEPT !.buf = r.block, !.size = 0, !.shrunk = FALSE]
  <2>1. r.block \in 0..MaxBlocks /\ BecomeObject(h, r.heap, o)
    BY <1>1, <1>4, <1>7 DEF OwnOutcome
  <2>2. o \in Object /\ o.buf = r.block /\ o.size = 0 /\ o.cap = obj[h].cap
    BY <1>5, <2>1 DEF Object
  <2> HIDE DEF o
  <2>3. InRange(r.heap, o)
    BY <1>4, <1>5, <1>7, <2>2 DEF InRange
  <2> QED
    BY <1>2, <1>3, <1>4, <1>7, <2>1, <2>2, <2>3, OwnBecomes
<1> QED
  BY <1>6, <1>7

LEMMA ReserveKeeps ==
  ASSUME BInv, NEW h \in Objects, NEW n \in Nat, Reserve(h, n) PROVE ByteStep(h)
<1>1. PICK r \in EditResize(heap, obj[h].buf, n) :
        BecomeObject(h, r.heap,
                     IF r.block = None THEN obj[h]
                     ELSE [Holding(obj[h], r.heap, r.block, obj[h].size) EXCEPT !.shrunk = n < obj[h].size])
  BY DEF Reserve
<1>2. Alive(h) /\ OnBlock(heap, obj[h]) /\ HeapOK(heap)
  BY GoodOn DEF BInv, Reserve, Alive, Good
<1>3. PICK b \in 0..MaxBlocks : b = obj[h].buf /\ heap[b].refs > 0
  BY <1>2 DEF OnBlock
<1>4. OwnOutcome(heap, b, r) /\ (r.block # None => Len(r.heap[r.block].bytes) = n)
  BY <1>1, <1>2, <1>3, EditResizeIs
<1>5. obj[h] \in Object /\ obj[h].size \in Nat
  BY <1>2, <1>3 DEF OnBlock, Object
<1>6. CASE r.block = None
  <2>1. r.heap = heap /\ BecomeObject(h, r.heap, obj[h])
    BY <1>1, <1>4, <1>6, BlocksAssumption DEF OwnOutcome, None
  <2> QED
    BY <1>2, <1>5, <2>1, StaysKeeps DEF OnBlock
<1>7. CASE r.block # None
  <2> DEFINE held == Holding(obj[h], r.heap, r.block, obj[h].size)
             o == [held EXCEPT !.shrunk = n < obj[h].size]
  <2>1. r.block \in 0..MaxBlocks /\ HeapOK(r.heap) /\ BecomeObject(h, r.heap, o)
    BY <1>1, <1>4, <1>7 DEF OwnOutcome
  <2>2. HoldingOutcome(r.heap, r.block, obj[h].size, held)
    BY <1>5, <2>1, HoldingIs
  <2> HIDE DEF held
  <2>3. o \in Object /\ o.buf = r.block /\ o.size = obj[h].size /\ o.cap = n /\ (o.shrunk <=> n < obj[h].size)
    <3>1. PICK less \in BOOLEAN : less <=> n < obj[h].size
      OBVIOUS
    <3>2. o = [held EXCEPT !.shrunk = less]
      BY <3>1
    <3>3. held \in Object /\ held.cap = n /\ held.buf = r.block /\ held.size = obj[h].size
      BY <1>4, <1>7, <2>2 DEF HoldingOutcome
    <3> HIDE DEF o
    <3> QED
      BY <3>1, <3>2, <3>3 DEF Object
  <2> HIDE DEF o
  <2>4. InRange(r.heap, o)
    BY <1>4, <1>5, <1>7, <2>3 DEF InRange
  <2> QED
    BY <1>2, <1>3, <1>4, <1>7, <2>1, <2>3, <2>4, OwnBecomes
<1> QED
  BY <1>6, <1>7

LEMMA ResizeKeeps ==
  ASSUME BInv, NEW h \in Objects, NEW n \in Nat, Resize(h, n) PROVE ByteStep(h)
<1> DEFINE m == IF n > obj[h].cap THEN obj[h].cap ELSE n
           o == [obj[h] EXCEPT !.size = m, !.shrunk = FALSE]
<1>1. Alive(h) /\ BecomeObject(h, heap, o)
  BY DEF Resize
<1>2. OnBlock(heap, obj[h])
  BY <1>1, GoodOn DEF BInv, Alive
<1>3. obj[h] \in Object /\ obj[h].cap \in Nat /\ m \in Nat /\ m <= obj[h].cap
  BY <1>2 DEF OnBlock, Object
<1> HIDE DEF m
<1>4. o \in Object /\ o.buf = obj[h].buf /\ o.size = m /\ o.cap = obj[h].cap
  BY <1>3 DEF Object
<1> HIDE DEF o
<1>5. InRange(heap, o)
  BY <1>2, <1>3, <1>4 DEF InRange, OnBlock
<1> QED
  BY <1>1, <1>4, <1>5, StaysKeeps

\* Bytes of a block as a reader has them.
View(bytes, from, n) == [i \in 1..n |-> IF from + i <= Len(bytes) THEN bytes[from + i] ELSE Junk]

LEMMA ViewIs ==
  ASSUME NEW bytes \in Seq(Int), NEW from \in Nat, NEW n \in Nat
  PROVE  /\ View(bytes, from, n) \in Seq(Int) /\ Len(View(bytes, from, n)) = n
         /\ \A i \in 1..n : View(bytes, from, n)[i] =
                              IF from + i <= Len(bytes) THEN bytes[from + i] ELSE Junk
<1> DEFINE v == View(bytes, from, n)
<1>1. v = [i \in 1..n |-> v[i]]
  BY DEF View
<1>2. \A i \in 1..n : v[i] = IF from + i <= Len(bytes) THEN bytes[from + i] ELSE Junk
  BY DEF View
<1>3. ASSUME NEW i \in 1..n PROVE v[i] \in Int
  <2>1. Len(bytes) \in Nat /\ (from + i <= Len(bytes) => from + i \in 1..Len(bytes))
    OBVIOUS
  <2>2. from + i <= Len(bytes) => bytes[from + i] \in Int
    BY <2>1, ElementOfSeq
  <2> QED
    BY <1>2, <2>2 DEF Junk
<1> HIDE DEF v
<1>4. v \in Seq(Int) /\ Len(v) = n
  BY <1>1, <1>3, SeqOfFunction
<1> QED
  BY <1>2, <1>4 DEF v

\* A longer view of bytes that begin as others did.
LEMMA ViewPrefix ==
  ASSUME NEW old \in Seq(Int), NEW new \in Seq(Int), NEW m \in Nat, NEW n \in Nat, m <= n,
         m <= Len(old), n <= Len(new), SamePrefix(new, old, m)
  PROVE  SubSeq(View(new, 0, n), 1, m) = View(old, 0, m)
<1> DEFINE a == View(old, 0, m)
           b == View(new, 0, n)
<1>1. /\ a \in Seq(Int) /\ Len(a) = m
      /\ \A i \in 1..m : a[i] = IF 0 + i <= Len(old) THEN old[0 + i] ELSE Junk
      /\ b \in Seq(Int) /\ Len(b) = n
      /\ \A i \in 1..n : b[i] = IF 0 + i <= Len(new) THEN new[0 + i] ELSE Junk
  BY ViewIs
<1> HIDE DEF a, b
<1>2. ASSUME NEW i \in 1..m PROVE a[i] = b[i]
  <2>1. i \in 1..n /\ 0 + i = i /\ i <= Len(old) /\ i <= Len(new) /\ Len(old) \in Nat /\ Len(new) \in Nat
    OBVIOUS
  <2>2. a[i] = old[i]
    BY <1>1, <2>1
  <2>3. b[i] = new[i]
    BY <1>1, <2>1
  <2> QED
    BY <2>1, <2>2, <2>3 DEF SamePrefix
<1>3. \A i \in 1..m : b[i] \in Int
  BY <1>1, ElementOfSeq
<1>4. /\ SubSeq(b, 1, m) \in Seq(Int)
      /\ Len(SubSeq(b, 1, m)) = m
      /\ \A i \in 1..m : SubSeq(b, 1, m)[i] = b[i]
  BY <1>3, SubSeqProperties
<1>5. SubSeq(b, 1, m) = a
  BY <1>1, <1>2, <1>4, SeqEqual
<1> QED
  BY <1>5 DEF a, b

LEMMA ContentsView ==
  ASSUME NEW h \in Objects, obj[h].size \in Nat
  PROVE  Contents(h) = View(heap[obj[h].buf].bytes, 0, obj[h].size)
  BY DEF Contents, View

LEMMA NextContentsView ==
  ASSUME NEW h \in Objects, obj'[h].size \in Nat
  PROVE  Contents(h)' = View(heap'[obj'[h].buf].bytes, 0, obj'[h].size)
  BY DEF Contents, View

\* Writing through operator[] keeps all but the bytes.
LEMMA PutKeeps ==
  ASSUME NEW hp, NEW ob, NEW dr, Good(hp, ob, dr), NEW b \in 0..MaxBlocks, hp[b].refs > 0,
         NEW at \in Int, NEW data \in Seq(Int)
  PROVE  Good(Put(hp, b, at, data), ob, dr)
<1>1. PICK hp2 : hp2 = Put(hp, b, at, data)
  OBVIOUS
<1>2. PutOutcome(hp, b, at, data, hp2)
  BY <1>1, PutIs DEF Good
<1>3. HeapOK(hp2) /\ \A x \in 0..MaxBlocks : hp2[x].refs = hp[x].refs /\ Len(hp2[x].bytes) = Len(hp[x].bytes)
  BY <1>2 DEF PutOutcome
<1>4. Counted(hp2, ob, dr)
  BY <1>3 DEF Good, Counted
<1>5. ASSUME NEW g \in Objects, ob[g].buf # None PROVE InRange(hp2, ob[g])
  <2>1. ob[g].buf \in 0..MaxBlocks /\ InRange(hp, ob[g])
    BY <1>5 DEF Good, Object
  <2> QED
    BY <1>3, <2>1 DEF InRange
<1> QED
  BY <1>1, <1>3, <1>4, <1>5 DEF Good

\* A byte of one block changes, for every object on it.
ElementStep(h, i, byte) ==
    /\ BInv' /\ obj' = obj /\ Alive(h) /\ returned' = Junk /\ misused' = misused
    /\ PutOutcome(heap, obj[h].buf, i - 1, <<byte>>, heap')

LEMMA WriteElementKeeps ==
  ASSUME BInv, NEW h \in Objects, NEW i \in Nat, NEW byte \in Int, WriteElement(h, i, byte)
  PROVE  ElementStep(h, i, byte)
<1>1. /\ Alive(h)
      /\ BecomeObject(h, Put(heap, obj[h].buf, i - 1, <<byte>>), obj[h])
  BY DEF WriteElement
<1>2. OnBlock(heap, obj[h]) /\ obj \in [Objects -> Object]
  BY <1>1, GoodOn DEF BInv, Alive, Good
<1>3. PICK b \in 0..MaxBlocks : b = obj[h].buf /\ heap[b].refs > 0
  BY <1>2 DEF OnBlock
<1>4. PICK hp : hp = Put(heap, b, i - 1, <<byte>>)
  OBVIOUS
<1>5. /\ heap' = hp /\ obj' = [obj EXCEPT ![h] = obj[h]] /\ returned' = Junk
      /\ (misused' <=> misused) /\ misused' \in BOOLEAN /\ dropped' = dropped
  BY <1>1, <1>3, <1>4 DEF BecomeObject, Become, BInv
<1>6. obj' = obj
  BY <1>2, <1>5
<1>7. i - 1 \in Int /\ <<byte>> \in Seq(Int)
  OBVIOUS
<1>8. Good(hp, obj, dropped) /\ PutOutcome(heap, b, i - 1, <<byte>>, hp)
  BY <1>3, <1>4, <1>7, PutKeeps, PutIs DEF BInv, Good
<1>9. BInv'
  BY <1>5, <1>6, <1>8 DEF BInv, Junk
<1> QED
  BY <1>1, <1>3, <1>5, <1>6, <1>8, <1>9 DEF ElementStep, BInv

\* A call that ends as set() does.
LEMMA SetBecomes ==
  ASSUME BInv, NEW h \in Objects, Alive(h), NEW data \in Seq(Int), NEW offset \in Nat,
         NEW src \in {None} \cup 0..MaxBlocks,
         NEW r \in SetBytes(heap, obj[h], data, offset, src), Become(h, r),
         r.bad => heap[obj[h].buf].refs = 1 /\ r.obj.size = 2 * obj[h].size
  PROVE  ByteStep(h)
<1>1. obj[h].buf # None /\ OnBlock(heap, obj[h]) /\ HeapOK(heap)
  BY GoodOn DEF BInv, Alive, Good
<1>2. SetKept(heap, obj, dropped, h, r)
  BY <1>1, SetKeeps DEF BInv
<1>3. /\ BInv' /\ OneObject(h)
      /\ obj'[h] = r.obj /\ heap' = r.heap /\ returned' = r.ret /\ (misused' => misused \/ r.bad)
  <2>1. r.ret \in Int
    BY <1>2 DEF SetKept
  <2> QED
    BY <1>2, <2>1, BecomeKeeps DEF SetKept
<1>4. FreedBy(h)
  BY <1>3 DEF FreedBy
<1>5. FailKeeps(h)
  <2>1. SetNothing(heap, obj[h], r) \/ SetDone(heap, obj[h], data, offset, src, r)
    BY <1>1, SetBytesIs
  <2>2. CASE SetNothing(heap, obj[h], r)
    BY <1>3, <2>2, SameKept DEF SetNothing
  <2>3. CASE SetDone(heap, obj[h], data, offset, src, r)
    <3>1. data # <<>> /\ r.ret = Len(data)
      BY <2>3 DEF SetDone
    <3> QED
      BY <1>3, <3>1 DEF FailKeeps
  <2> QED
    BY <2>1, <2>2, <2>3
<1> QED
  BY <1>3, <1>4, <1>5 DEF ByteStep

LEMMA SetCallKeeps ==
  ASSUME BInv, NEW h \in Objects, NEW data \in Items, NEW offset \in Nat, Set(h, data, offset)
  PROVE  ByteStep(h)
<1>1. PICK r \in SetBytes(heap, obj[h], data, offset, None) : Become(h, r)
  BY DEF Set
<1>2. Alive(h) /\ OnBlock(heap, obj[h]) /\ HeapOK(heap) /\ data \in Seq(Int)
  BY GoodOn, ItemIs DEF BInv, Alive, Good, Set
<1>3. r.bad = FALSE
  BY <1>1, <1>2, FromOutside
<1> QED
  BY <1>1, <1>2, <1>3, SetBecomes

\* The bytes of a freed block are copied only when an object alone on its block
\* is appended to itself.
LEMMA AppendObjectKeeps ==
  ASSUME BInv, NEW h \in Objects, NEW g \in Objects, AppendObject(h, g)
  PROVE  ByteStep(h)
<1>1. PICK data : data = Contents(g)
  OBVIOUS
<1>2. PICK r \in SetBytes(heap, obj[h], data, obj[h].size, obj[g].buf) : Become(h, r)
  BY <1>1 DEF AppendObject
<1>3. /\ Alive(h) /\ Alive(g) /\ OnBlock(heap, obj[h]) /\ OnBlock(heap, obj[g]) /\ HeapOK(heap)
      /\ data \in Seq(Int) /\ Len(data) = obj[g].size /\ obj[g].size \in Nat /\ obj[h].size \in Nat
  BY <1>1, GoodOn, ContentsIs DEF BInv, Alive, Good, AppendObject
<1>4. PICK b \in 0..MaxBlocks, s \in 0..MaxBlocks :
        b = obj[h].buf /\ s = obj[g].buf /\ heap[b].refs > 0 /\ heap[s].refs > 0
  BY <1>3 DEF OnBlock
<1>5. r.bad => heap[b].refs = 1 /\ r.obj.size = 2 * obj[h].size
  <2> SUFFICES ASSUME r.bad PROVE heap[b].refs = 1 /\ r.obj.size = 2 * obj[h].size
    OBVIOUS
  <2>1. SetNothing(heap, obj[h], r) \/ SetDone(heap, obj[h], data, obj[h].size, s, r)
    BY <1>2, <1>3, <1>4, SetBytesIs
  <2>2. ~ SetNothing(heap, obj[h], r)
    BY DEF SetNothing
  <2>3. SetDone(heap, obj[h], data, obj[h].size, s, r)
    BY <2>1, <2>2
  <2>4. PICK c \in 0..MaxBlocks : c = r.obj.buf
    BY <2>3 DEF SetDone
  <2>5. OwnStep(heap, b, r.heap, c) /\ r.heap[c].refs = 1 /\ r.heap[s].refs = 0
    BY <1>4, <2>3, <2>4 DEF SetDone
  <2>6. r.obj.size = Len(data) + obj[h].size
    BY <1>3, <2>3 DEF SetDone, Place
  <2>7. heap[b].refs \in Nat
    BY <1>3 DEF HeapOK, Block
  <2>8. s = b /\ heap[b].refs = 1
    BY <1>4, <2>5, <2>7 DEF OwnStep
  <2>9. g = h
    <3> SUFFICES ASSUME g # h PROVE FALSE
      OBVIOUS
    <3>1. obj[h].buf # None /\ obj[g].buf = obj[h].buf /\ Good(heap, obj, dropped)
      BY <1>3, <1>4, <2>8 DEF BInv, Alive
    <3>2. heap[obj[h].buf].refs > 1
      BY <3>1, GoodAlone
    <3> QED
      BY <1>4, <2>8, <3>2
  <2> QED
    BY <1>3, <2>6, <2>8, <2>9
<1> QED
  BY <1>2, <1>3, <1>4, <1>5, SetBecomes

\* insert() may end with the bytes behind the offset lost; then it returns what
\* it has written, or 0 with all the bytes where they were.
LEMMA InsertKeeps ==
  ASSUME BInv, NEW h \in Objects, NEW data \in Items, NEW offset \in Nat, Insert(h, data, offset)
  PROVE  ByteStep(h)
<1> DEFINE n == Len(data) + obj[h].size
           tail(q) == SubSeq(q.heap[q.block].bytes, offset + 1, obj[h].size)
           longer(q) == Holding(obj[h], q.heap, q.block, n)
           Ends(q, hp, ret) == Become(h, [heap |-> hp, obj |-> longer(q), ret |-> ret, bad |-> FALSE])
<1>1. PICK q \in Room(heap, obj[h], n) :
        IF q.block = None
        THEN Become(h, [heap |-> q.heap, obj |-> obj[h], ret |-> 0, bad |-> FALSE])
        ELSE \/ Ends(q, Put(q.heap, q.block, offset, data \o tail(q)), Len(data))
             \/ tail(q) # <<>> /\ Ends(q, q.heap, 0)
  BY DEF Insert
<1>2. /\ Alive(h) /\ obj[h].buf # None /\ OnBlock(heap, obj[h]) /\ HeapOK(heap) /\ offset <= obj[h].size
      /\ data \in Seq(Int) /\ Len(data) \in Nat \ {0} /\ obj[h] \in Object /\ obj[h].size \in Nat
  BY GoodOn, ItemIs DEF BInv, Alive, Good, Insert, OnBlock, Object
<1>3. PICK b \in 0..MaxBlocks : b = obj[h].buf /\ heap[b].refs > 0
  BY <1>2 DEF OnBlock
<1>4. n \in Nat /\ obj[h].size <= n
  BY <1>2
<1>5. RoomOutcome(heap, b, n, q)
  BY <1>1, <1>2, <1>3, <1>4, RoomIs
<1>6. CASE q.block = None
  <2> DEFINE r == [heap |-> q.heap, obj |-> obj[h], ret |-> 0, bad |-> FALSE]
  <2>1. Become(h, r) /\ q.heap = heap
    BY <1>1, <1>5, <1>6, BlocksAssumption DEF RoomOutcome, OwnOutcome, None
  <2>2. /\ heap' = heap /\ obj' = [obj EXCEPT ![h] = obj[h]] /\ returned' = 0
        /\ (misused' <=> misused) /\ misused' \in BOOLEAN /\ dropped' = dropped
    BY <2>1 DEF Become, BInv
  <2>3. obj' = obj
    BY <2>2 DEF BInv, Good
  <2>4. BInv' /\ OneObject(h)
    BY <2>2, <2>3 DEF BInv, OneObject, OthersSame
  <2>5. FailKeeps(h)
    BY <2>2, <2>3, SameKept
  <2> QED
    BY <2>2, <2>4, <2>5 DEF ByteStep, FreedBy
<1>7. CASE q.block # None
  <2>1. PICK c \in 0..MaxBlocks : c = q.block
    BY <1>5, <1>7 DEF RoomOutcome, OwnOutcome
  <2>2. /\ HeapOK(q.heap) /\ OwnStep(heap, b, q.heap, c) /\ c # None
        /\ n <= Len(q.heap[c].bytes) /\ SamePrefix(q.heap[c].bytes, heap[b].bytes, n)
    BY <1>5, <1>7, <2>1 DEF RoomOutcome, OwnOutcome
  <2>3. q.heap[c].bytes \in Seq(Int) /\ Len(q.heap[c].bytes) \in Nat
    <3>1. q.heap[c] \in Block
      BY <2>2 DEF HeapOK
    <3>2. q.heap[c].bytes \in Seq(Int)
      BY <3>1 DEF Block
    <3> QED
      BY <3>2, LenProperties
  <2>4. HoldingOutcome(q.heap, c, n, longer(q))
    BY <1>2, <1>4, <2>1, <2>2, HoldingIs
  <2>5. PICK o : o = longer(q)
    OBVIOUS
  <2>6. o \in Object /\ o.buf = c /\ o.size = n /\ o.cap = Len(q.heap[c].bytes)
    BY <2>4, <2>5 DEF HoldingOutcome
  <2>7. PICK back \in Seq(Int) : back = tail(q)
    <3>1. ASSUME NEW i \in (offset + 1)..obj[h].size PROVE q.heap[c].bytes[i] \in Int
      <4> HIDE DEF n
      <4>1. i \in 1..Len(q.heap[c].bytes)
        <5>1. i \in Nat /\ 1 <= i /\ i <= obj[h].size
          BY <1>2
        <5> QED
          BY <1>2, <1>4, <2>2, <2>3, <5>1, SMTT(30)
      <4> QED
        BY <2>3, <4>1, ElementOfSeq
    <3>2. tail(q) \in Seq(Int)
      BY <1>2, <2>1, <3>1, SubSeqProperties
    <3> QED
      BY <3>2
  <2> HIDE DEF tail, longer, n
  <2>8. CASE Ends(q, Put(q.heap, q.block, offset, data \o tail(q)), Len(data))
    <3> DEFINE put == Put(q.heap, c, offset, data \o back)
               r == [heap |-> put, obj |-> o, ret |-> Len(data), bad |-> FALSE]
    <3>1. Become(h, r) /\ r.heap = put /\ r.obj = o /\ r.ret = Len(data)
      BY <2>1, <2>5, <2>7, <2>8
    <3>2. r.bad \in BOOLEAN /\ ~ r.bad
      BY Zenon
    <3>3. data \o back \in Seq(Int)
      BY <1>2, ConcatProperties
    <3>4. PutOwnOutcome(heap, b, q, offset, data \o back, put)
      <4>1. OwnOutcome(heap, b, q) /\ offset \in Int
        BY <1>5 DEF RoomOutcome
      <4>2. PutOwnOutcome(heap, b, q, offset, data \o back, Put(q.heap, q.block, offset, data \o back))
        BY <1>7, <3>3, <4>1, PutOwn
      <4> QED
        BY <2>1, <4>2
    <3> HIDE DEF put, r
    <3>5. HeapOK(put) /\ OwnStep(heap, b, put, c) /\ Len(put[c].bytes) = Len(q.heap[c].bytes)
      BY <2>1, <3>4 DEF PutOwnOutcome
    <3>6. InRange(put, o)
      BY <1>4, <2>2, <2>3, <2>6, <3>5 DEF InRange
    <3>7. Good(put, [obj EXCEPT ![h] = o], dropped) /\ OthersSame(heap, obj, put, h)
      BY <1>2, <1>3, <2>2, <2>6, <3>5, <3>6, OwnKeeps DEF BInv
    <3>8. BInv' /\ OneObject(h) /\ returned' = r.ret /\ (misused' => misused \/ r.bad)
      BY <1>2, <3>1, <3>2, <3>7, BecomeKeeps
    <3> QED
      BY <1>2, <3>1, <3>2, <3>8 DEF ByteStep, FailKeeps, FreedBy
  <2>9. CASE Ends(q, q.heap, 0)
    <3> DEFINE r == [heap |-> q.heap, obj |-> o, ret |-> 0, bad |-> FALSE]
    <3>1. Become(h, r) /\ r.heap = q.heap /\ r.obj = o /\ r.ret = 0
      BY <2>5, <2>9
    <3>2. r.bad \in BOOLEAN /\ ~ r.bad
      BY Zenon
    <3> HIDE DEF r
    <3>3. InRange(q.heap, o)
      BY <1>4, <2>2, <2>3, <2>6 DEF InRange
    <3>4. Good(q.heap, [obj EXCEPT ![h] = o], dropped) /\ OthersSame(heap, obj, q.heap, h)
      BY <1>2, <1>3, <2>2, <2>6, <3>3, OwnKeeps DEF BInv
    <3>5. /\ BInv' /\ OneObject(h) /\ obj'[h] = o /\ heap' = q.heap
          /\ (misused' => misused \/ r.bad)
      BY <3>1, <3>2, <3>4, BecomeKeeps
    <3>6. FailKeeps(h)
      <4> SUFFICES ASSUME ~ obj[h].shrunk
                   PROVE  obj'[h].size >= obj[h].size /\ SubSeq(Contents(h)', 1, obj[h].size) = Contents(h)
        BY DEF FailKeeps
      <4>1. obj[h].size <= Len(heap[b].bytes) /\ heap[b].bytes \in Seq(Int)
        BY <1>2, <1>3 DEF OnBlock, InRange, Object, HeapOK, Block
      <4>2. SamePrefix(q.heap[c].bytes, heap[b].bytes, obj[h].size)
        BY <1>2, <1>4, <2>2 DEF SamePrefix
      <4>3. SubSeq(View(q.heap[c].bytes, 0, n), 1, obj[h].size) = View(heap[b].bytes, 0, obj[h].size)
        BY <1>2, <1>4, <2>2, <2>3, <4>1, <4>2, ViewPrefix, ZenonT(30)
      <4>4. Contents(h)' = View(q.heap[c].bytes, 0, n)
        BY <1>4, <2>6, <3>5, NextContentsView
      <4>5. Contents(h) = View(heap[b].bytes, 0, obj[h].size)
        BY <1>2, <1>3, ContentsView
      <4> QED
        BY <1>4, <2>6, <3>5, <4>3, <4>4, <4>5
    <3> QED
      BY <3>2, <3>5, <3>6 DEF ByteStep, FreedBy
  <2> QED
    BY <1>1, <1>7, <2>8, <2>9
<1> QED
  BY <1>6, <1>7

\* operator=: the reference that is lost is counted as such.
LEMMA AssignKeeps == ASSUME BInv, NEW g \in Objects, NEW h \in Objects, Assign(g, h) PROVE ByteStep(h)
<1>1. /\ obj[g].buf # None /\ obj[h].buf # None /\ heap' = Acquire(heap, obj[g].buf)
      /\ obj' = [obj EXCEPT ![h] = obj[g]]
      /\ dropped' = [dropped EXCEPT ![obj[h].buf] = @ + 1]
      /\ returned' = Junk /\ misused' = misused
  BY DEF Assign, Alive
<1>2. OnBlock(heap, obj[g]) /\ OnBlock(heap, obj[h]) /\ HeapOK(heap) /\ obj \in [Objects -> Object]
  BY <1>1, GoodOn DEF BInv, Good
<1>3. PICK b \in 0..MaxBlocks, c \in 0..MaxBlocks : b = obj[h].buf /\ c = obj[g].buf /\ heap[c].refs > 0
  BY <1>2 DEF OnBlock
<1>4. /\ HeapOK(heap') /\ heap'[c].refs = heap[c].refs + 1
      /\ \A x \in 0..MaxBlocks : heap'[x].bytes = heap[x].bytes
      /\ \A x \in (0..MaxBlocks) \ {c} : heap'[x] = heap[x]
  BY <1>1, <1>2, <1>3, AcquireIs
<1>5. obj' \in [Objects -> Object] /\ obj'[h] = obj[g] /\ \A x \in Objects \ {h} : obj'[x] = obj[x]
  BY <1>1, <1>2
<1>6. /\ dropped' \in [0..MaxBlocks -> Nat] /\ dropped'[b] = dropped[b] + 1
      /\ \A x \in (0..MaxBlocks) \ {b} : dropped'[x] = dropped[x]
  BY <1>1, <1>3 DEF BInv, Good
<1>7. Counted(heap', obj', dropped')
  <2> SUFFICES ASSUME NEW x \in 0..MaxBlocks
               PROVE  heap'[x].refs = CountOf(obj', x) + dropped'[x] + (IF x = Empty THEN 1 ELSE 0)
    BY DEF Counted
  <2>1. Moved(b = x, c = x, CountOf(obj, x), CountOf(obj', x))
    BY <1>1, <1>2, <1>3, OwnersMove
  <2>2. /\ heap[x].refs = CountOf(obj, x) + dropped[x] + (IF x = Empty THEN 1 ELSE 0)
        /\ dropped[x] \in Nat /\ heap[x].refs \in Nat
    BY DEF BInv, Good, Counted, HeapOK, Block
  <2>3. heap'[x].refs = heap[x].refs + (IF c = x THEN 1 ELSE 0)
    BY <1>4, <2>2
  <2>4. dropped'[x] = dropped[x] + (IF b = x THEN 1 ELSE 0)
    BY <1>6, <2>2
  <2> QED
    BY <2>1, <2>2, <2>3, <2>4 DEF Moved
<1>8. ASSUME NEW f \in Objects, obj'[f].buf # None PROVE InRange(heap', obj'[f])
  <2>1. PICK e \in Objects : obj'[f] = obj[e]
    BY <1>5
  <2>2. OnBlock(heap, obj[e])
    BY <1>8, <2>1, GoodOn DEF BInv
  <2> QED
    BY <1>4, <2>1, <2>2 DEF InRange, OnBlock
<1>9. OthersSame(heap, obj, heap', h)
  <2>1. \A f \in Objects : obj[f].buf # None => obj[f].buf \in 0..MaxBlocks
    BY DEF BInv, Good, Object
  <2> QED
    BY <1>4, <2>1 DEF OthersSame
<1>10. BInv'
  BY <1>1, <1>4, <1>5, <1>6, <1>7, <1>8 DEF BInv, Good, Junk
<1> QED
  BY <1>1, <1>5, <1>9, <1>10 DEF ByteStep, OneObject, FailKeeps, FreedBy, Junk

\* A call on h changes h only, as ByteStep says.
LEMMA OperateKeeps == ASSUME BInv, NEW h \in Objects, Operate(h) PROVE ByteStep(h)
<1>1. MaxSize \in Nat /\ \A data \in Items : data[1] \in Int
  BY ItemIs, ByteBufferAssumption
<1>2. CASE Construct(h) \/ Destroy(h) \/ Clear(h)
  BY <1>2, ConstructKeeps, DestroyKeeps, ClearKeeps
<1>3. ASSUME NEW n \in 1..MaxSize, ConstructSize(h, n) \/ Reserve(h, n) PROVE ByteStep(h)
  BY <1>3, ConstructSizeKeeps, ReserveKeeps
<1>4. ASSUME NEW n \in 0..MaxSize, Resize(h, n) PROVE ByteStep(h)
  BY <1>4, ResizeKeeps
<1>5. ASSUME NEW data \in Items, ConstructChars(h, data) \/ ConstructBytes(h, data) PROVE ByteStep(h)
  BY <1>5, ConstructCharsKeeps, ConstructBytesKeeps
<1>6. ASSUME NEW data \in Items, NEW at \in 0..MaxSize, Set(h, data, at) \/ Insert(h, data, at)
      PROVE  ByteStep(h)
  BY <1>6, SetCallKeeps, InsertKeeps
<1>7. ASSUME NEW g \in Objects, Copy(g, h) \/ Assign(g, h) \/ AppendObject(h, g) PROVE ByteStep(h)
  BY <1>7, CopyKeeps, AssignKeeps, AppendObjectKeeps
<1> QED
  BY <1>2, <1>3, <1>4, <1>5, <1>6, <1>7 DEF Operate

\* A call on two objects: each then has what the other had, and no byte changes.
BothStep(g, h) == /\ BInv'
                  /\ \A x \in 0..MaxBlocks : heap'[x].bytes = heap[x].bytes
                  /\ \A f \in Objects \ {g, h} : obj'[f] = obj[f]
                  /\ obj'[h] = obj[g] /\ (Alive(h) => obj'[g] = obj[h])
                  /\ returned' = Junk /\ misused' = misused

LEMMA MoveKeeps ==
  ASSUME BInv, NEW g \in Objects, NEW h \in Objects, Move(g, h) PROVE BothStep(g, h)
<1>1. /\ obj[g].buf # None /\ obj[h].buf = None /\ heap' = Acquire(heap, Empty)
      /\ obj' = [obj EXCEPT ![h] = obj[g], ![g] = EmptyObject]
      /\ returned' = Junk /\ misused' = misused /\ dropped' = dropped
  BY DEF Move, Alive
<1>2. g # h /\ obj \in [Objects -> Object]
  BY <1>1 DEF BInv, Good
<1> DEFINE ob1 == [obj EXCEPT ![h] = EmptyObject]
<1>3. Good(heap', ob1, dropped)
  BY <1>1, EmptyKeeps DEF BInv
<1>4. ob1[g] = obj[g] /\ ob1[h] = EmptyObject
  BY <1>2
<1>5. [ob1 EXCEPT ![h] = ob1[g], ![g] = ob1[h]] = obj'
  BY <1>1, <1>2, <1>4
<1> HIDE DEF ob1
<1>6. Good(heap', obj', dropped')
  BY <1>1, <1>2, <1>3, <1>5, SwapKeeps
<1>7. \A x \in 0..MaxBlocks : heap'[x].bytes = heap[x].bytes
  BY <1>1, GoodEmpty, AcquireIs DEF BInv, Good
<1> QED
  BY <1>1, <1>2, <1>6, <1>7 DEF BothStep, BInv, Junk, Alive

LEMMA MoveAssignKeeps ==
  ASSUME BInv, NEW g \in Objects, NEW h \in Objects, MoveAssign(g, h) PROVE BothStep(g, h)
<1>1. /\ g # h /\ heap' = heap /\ obj' = [obj EXCEPT ![h] = obj[g], ![g] = obj[h]]
      /\ returned' = Junk /\ misused' = misused /\ dropped' = dropped
  BY DEF MoveAssign
<1>2. obj \in [Objects -> Object]
  BY DEF BInv, Good
<1>3. Good(heap', obj', dropped')
  BY <1>1, SwapKeeps DEF BInv
<1> QED
  BY <1>1, <1>2, <1>3 DEF BothStep, BInv, Junk

LEMMA OperateBothKeeps ==
  ASSUME BInv, NEW g \in Objects, NEW h \in Objects, OperateBoth(g, h) PROVE BothStep(g, h)
  BY MoveKeeps, MoveAssignKeeps DEF OperateBoth

-----------------------------------------------------------------------------
(* What a call does to the bytes of the objects *)

\* A call on h leaves the contents of every other object.
LEMMA OtherContents ==
  ASSUME BInv, NEW h \in Objects, OneObject(h), NEW g \in Objects, g # h
  PROVE  obj'[g] = obj[g] /\ (Alive(g) => Contents(g)' = Contents(g))
<1>1. obj' = [obj EXCEPT ![h] = obj'[h]] /\ OthersSame(heap, obj, heap', h)
  BY DEF OneObject
<1>2. obj'[g] = obj[g]
  BY <1>1 DEF BInv, Good
<1>3. ASSUME Alive(g) PROVE heap'[obj[g].buf].bytes = heap[obj[g].buf].bytes
  BY <1>1, <1>3 DEF OthersSame, Alive
<1> QED
  BY <1>2, <1>3, SameContents

LEMMA AtMostOne == ASSUME NEW S, NEW x, S \subseteq {x} PROVE Cardinality(S) <= 1
<1>1. IsFiniteSet({x}) /\ Cardinality({x}) = 1
  BY FS_Singleton
<1>2. IsFiniteSet(S) /\ Cardinality(S) <= Cardinality({x})
  BY <1>1, FS_Subset
<1> QED
  BY <1>1, <1>2

LEMMA OneOtherKeeps ==
  ASSUME BInv, NEW h \in Objects, OneObject(h)
  PROVE  OthersKeepStep
<1> DEFINE changed == {g \in Objects : Alive(g) /\ Alive(g)' /\ Contents(g)' # Contents(g)}
<1>1. \A g \in Objects : g # h /\ Alive(g) => Contents(g)' = Contents(g)
  BY OtherContents
<1>2. changed \subseteq {h}
  BY <1>1
<1> HIDE DEF changed
<1>3. Cardinality(changed) <= 1
  BY <1>2, AtMostOne
<1> QED
  BY <1>3 DEF OthersKeepStep, changed

LEMMA OneFailureLosesNothing ==
  ASSUME BInv, NEW h \in Objects, OneObject(h), FailKeeps(h)
  PROVE  FailureLosesNothingStep
<1> SUFFICES ASSUME returned' = 0, NEW g \in Objects, Alive(g), Alive(g)', ~ obj[g].shrunk
             PROVE  obj'[g].size >= obj[g].size /\ SubSeq(Contents(g)', 1, obj[g].size) = Contents(g)
  BY DEF FailureLosesNothingStep
<1>1. CASE g = h
  BY <1>1 DEF FailKeeps
<1>2. CASE g # h
  <2>1. obj'[g] = obj[g] /\ Contents(g)' = Contents(g)
    BY <1>2, OtherContents
  <2>2. Contents(g) \in Seq(Int) /\ Len(Contents(g)) = obj[g].size /\ obj[g].size \in Nat
    BY ContentsIs
  <2> QED
    BY <2>1, <2>2, SubSeqFull
<1> QED
  BY <1>1, <1>2

LEMMA BothOthersKeep ==
  ASSUME BInv, NEW g \in Objects, NEW h \in Objects, BothStep(g, h)
  PROVE  OthersKeepStep /\ FailureLosesNothingStep
<1> DEFINE changed == {f \in Objects : Alive(f) /\ Alive(f)' /\ Contents(f)' # Contents(f)}
<1>1. ASSUME NEW e \in Objects, NEW f \in Objects, Alive(f), obj'[e] = obj[f]
      PROVE  Contents(e)' = Contents(f)
  <2>1. obj[f].buf \in 0..MaxBlocks
    BY <1>1 DEF BInv, Good, Object, Alive
  <2>2. heap'[obj'[e].buf].bytes = heap[obj[f].buf].bytes /\ obj'[e].size = obj[f].size
    BY <1>1, <2>1 DEF BothStep
  <2> QED
    BY <2>2 DEF Contents
<1>2. \A f \in Objects \ {g, h} : Alive(f) => Contents(f)' = Contents(f)
  BY <1>1 DEF BothStep
<1>3. CASE ~ Alive(h)
  <2>1. changed \subseteq {g}
    BY <1>2, <1>3
  <2>2. Cardinality(changed) <= 1
    <3> HIDE DEF changed
    <3> QED
      BY <2>1, AtMostOne
  <2> QED
    BY <2>2 DEF OthersKeepStep, FailureLosesNothingStep, BothStep, Junk
<1>4. CASE Alive(h) /\ ~ Alive(g)
  <2>1. changed \subseteq {h}
    BY <1>2, <1>4
  <2>2. Cardinality(changed) <= 1
    <3> HIDE DEF changed
    <3> QED
      BY <2>1, AtMostOne
  <2> QED
    BY <2>2 DEF OthersKeepStep, FailureLosesNothingStep, BothStep, Junk
<1>5. CASE Alive(h) /\ Alive(g)
  <2>1. Contents(h)' = Contents(g) /\ Contents(g)' = Contents(h)
    BY <1>1, <1>5 DEF BothStep
  <2>2. changed \subseteq {g, h}
    BY <1>2
  <2>3. CASE Contents(g) = Contents(h)
    <3>1. changed \subseteq {g}
      BY <2>1, <2>2, <2>3
    <3>2. Cardinality(changed) <= 1
      <4> HIDE DEF changed
      <4> QED
        BY <3>1, AtMostOne
    <3> QED
      BY <3>2 DEF OthersKeepStep, FailureLosesNothingStep, BothStep, Junk
  <2>4. CASE Contents(g) # Contents(h)
    <3>1. Alive(g)' /\ Alive(h)'
      BY <1>5 DEF Alive, BothStep
    <3>2. changed = {g, h}
      BY <1>5, <2>1, <2>2, <2>4, <3>1
    <3> QED
      BY <2>1, <3>2 DEF OthersKeepStep, FailureLosesNothingStep, BothStep, Junk
  <2> QED
    BY <2>3, <2>4
<1> QED
  BY <1>3, <1>4, <1>5

-----------------------------------------------------------------------------
(* The stream *)

\* The invariant of the stream: the positions are in order and inside the object
\* it is on, and what lies between them is what was written and not read.
Positions ==
    /\ stream \in [on : {None} \cup Objects, rpos : Nat, wpos : Nat]
    /\ stream.rpos <= stream.wpos
    /\ pending \in Seq(Int) /\ lapsed \in {"no", "memory", "stale"}
    /\ stream.on # None => /\ Alive(stream.on) /\ ~ obj[stream.on].shrunk
                           /\ lapsed # "memory" => stream.wpos <= obj[stream.on].size

SInv == BInv /\ Positions /\ StreamIsFifo

\* What can be read, by block and position.
Unread(bytes, s) == View(bytes, s.rpos, s.wpos - s.rpos)

LEMMA FifoView ==
  StreamIsFifo <=> (stream.on # None /\ lapsed = "no" =>
                       /\ Unread(heap[obj[stream.on].buf].bytes, stream) = pending
                       /\ stream.wpos = obj[stream.on].size)
  BY DEF StreamIsFifo, Between, View, Unread

LEMMA NextFifoView ==
  StreamIsFifo' <=> (stream'.on # None /\ lapsed' = "no" =>
                       /\ Unread(heap'[obj'[stream'.on].buf].bytes, stream') = pending'
                       /\ stream'.wpos = obj'[stream'.on].size)
  BY DEF StreamIsFifo, Between, View, Unread

\* Bytes written behind those in view.
ViewLonger(old, new, data, from, size) ==
    View(new, from, size + Len(data) - from) = View(old, from, size - from) \o data

ViewFits(bytes, from, n) ==
    /\ View(bytes, from, n) \in Seq(Int) /\ Len(View(bytes, from, n)) = n
    /\ \A i \in 1..n : View(bytes, from, n)[i] = IF from + i <= Len(bytes) THEN bytes[from + i] ELSE Junk

LEMMA ViewFitted == ASSUME NEW bytes \in Seq(Int), NEW from \in Nat, NEW n \in Nat PROVE ViewFits(bytes, from, n)
  BY ViewIs DEF ViewFits

LEMMA ViewAppend ==
  ASSUME NEW old \in Seq(Int), NEW new \in Seq(Int), NEW data \in Seq(Int), NEW from \in Nat,
         NEW size \in Nat, from <= size, size <= Len(old), size + Len(data) <= Len(new),
         SamePrefix(new, old, size), \A j \in 1..Len(data) : new[size + j] = data[j]
  PROVE  ViewLonger(old, new, data, from, size)
<1> DEFINE a == View(old, from, size - from)
           m == size + Len(data) - from
           b == View(new, from, m)
<1>1. size - from \in Nat /\ m \in Nat /\ Len(data) \in Nat
  OBVIOUS
<1>2. /\ a \in Seq(Int) /\ Len(a) = size - from
      /\ \A i \in 1..(size - from) : a[i] = IF from + i <= Len(old) THEN old[from + i] ELSE Junk
  BY <1>1, ViewIs, ZenonT(30)
<1>3. /\ b \in Seq(Int) /\ Len(b) = m
      /\ \A i \in 1..m : b[i] = IF from + i <= Len(new) THEN new[from + i] ELSE Junk
  <2>1. ViewFits(new, from, m)
    BY <1>1, ViewFitted
  <2> HIDE DEF m
  <2> QED
    BY <2>1 DEF b, ViewFits
<1> HIDE DEF a, b
<1>4. /\ a \o data \in Seq(Int) /\ Len(a \o data) = m
      /\ \A i \in 1..m : (a \o data)[i] = IF i <= Len(a) THEN a[i] ELSE data[i - Len(a)]
  <2>1. /\ a \o data \in Seq(Int) /\ Len(a \o data) = Len(a) + Len(data)
        /\ \A i \in 1..(Len(a) + Len(data)) :
              (a \o data)[i] = IF i <= Len(a) THEN a[i] ELSE data[i - Len(a)]
    BY <1>2, ConcatProperties
  <2>2. Len(a) + Len(data) = m
    BY <1>1, <1>2
  <2> QED
    BY <2>1, <2>2
<1>5. ASSUME NEW i \in 1..m PROVE b[i] = (a \o data)[i]
  <2>1. b[i] = new[from + i]
    BY <1>3
  <2>2. CASE i <= size - from
    <3>1. from + i \in 1..size /\ from + i <= Len(old) /\ i \in 1..(size - from)
      BY <2>2
    <3>2. a[i] = old[from + i]
      BY <1>2, <3>1
    <3> QED
      BY <1>2, <1>4, <2>1, <2>2, <3>1, <3>2 DEF SamePrefix
  <2>3. CASE ~ i <= size - from
    <3>1. i - (size - from) \in 1..Len(data) /\ size + (i - (size - from)) = from + i
      BY <2>3
    <3>2. new[from + i] = data[i - (size - from)]
      BY <3>1
    <3> QED
      BY <1>2, <1>4, <2>1, <2>3, <3>2
  <2> QED
    BY <2>2, <2>3
<1>6. b = a \o data
  BY <1>3, <1>4, <1>5, SeqEqual
<1> QED
  BY <1>6 DEF a, b, ViewLonger

\* Bytes written to the front.
LEMMA ViewFront ==
  ASSUME NEW new \in Seq(Int), NEW data \in Seq(Int), Len(data) <= Len(new),
         \A j \in 1..Len(data) : new[0 + j] = data[j]
  PROVE  View(new, 0, Len(data)) = data
<1>1. /\ View(new, 0, Len(data)) \in Seq(Int) /\ Len(View(new, 0, Len(data))) = Len(data)
      /\ \A i \in 1..Len(data) : View(new, 0, Len(data))[i] =
                                   IF 0 + i <= Len(new) THEN new[0 + i] ELSE Junk
  <2>1. Len(data) \in Nat /\ 0 \in Nat
    OBVIOUS
  <2> QED
    BY <2>1, ViewIs
<1>2. \A i \in 1..Len(data) : View(new, 0, Len(data))[i] = data[i]
  BY <1>1
<1> QED
  BY <1>1, <1>2, SeqEqual

\* The first n bytes of a view taken away.
LEMMA ViewAdvance ==
  ASSUME NEW bytes \in Seq(Int), NEW from \in Nat, NEW m \in Nat, NEW n \in 0..m
  PROVE  View(bytes, from + n, m - n) = SubSeq(View(bytes, from, m), n + 1, m)
<1> DEFINE a == View(bytes, from, m)
           b == View(bytes, from + n, m - n)
<1>1. from + n \in Nat /\ m - n \in Nat
  OBVIOUS
<1>2. /\ a \in Seq(Int) /\ Len(a) = m
      /\ \A i \in 1..m : a[i] = IF from + i <= Len(bytes) THEN bytes[from + i] ELSE Junk
  BY ViewIs
<1>3. /\ b \in Seq(Int) /\ Len(b) = m - n
      /\ \A i \in 1..(m - n) : b[i] = IF (from + n) + i <= Len(bytes) THEN bytes[(from + n) + i] ELSE Junk
  BY <1>1, ViewIs
<1> HIDE DEF a, b
<1>4. \A i \in (n + 1)..m : a[i] \in Int
  BY <1>2, ElementOfSeq
<1>5. /\ SubSeq(a, n + 1, m) \in Seq(Int)
      /\ Len(SubSeq(a, n + 1, m)) = m - n
      /\ \A i \in 1..(m - (n + 1) + 1) : SubSeq(a, n + 1, m)[i] = a[(n + 1) + i - 1]
  BY <1>4, SubSeqProperties
<1>6. ASSUME NEW i \in 1..(m - n) PROVE b[i] = SubSeq(a, n + 1, m)[i]
  <2>1. /\ i \in 1..(m - (n + 1) + 1) /\ (n + 1) + i - 1 = n + i /\ n + i \in 1..m
        /\ from + (n + i) = (from + n) + i
    OBVIOUS
  <2>2. SubSeq(a, n + 1, m)[i] = a[n + i]
    BY <1>5, <2>1
  <2>3. a[n + i] = IF from + (n + i) <= Len(bytes) THEN bytes[from + (n + i)] ELSE Junk
    BY <1>2, <2>1
  <2> QED
    BY <1>3, <2>1, <2>2, <2>3
<1>7. b = SubSeq(a, n + 1, m)
  BY <1>3, <1>5, <1>6, SeqEqual
<1> QED
  BY <1>7 DEF a, b

LEMMA SetRecord ==
  ASSUME NEW hp, NEW o, NEW data, NEW offset, NEW src, NEW r \in SetBytes(hp, o, data, offset, src)
  PROVE  r = [heap |-> r.heap, obj |-> r.obj, ret |-> r.ret, bad |-> r.bad]
  BY DEF SetBytes

\* Moving bytes to the front of a block that has room for them frees no block.
LEMMA FromItself ==
  ASSUME NEW hp, HeapOK(hp), NEW o, OnBlock(hp, o), NEW data \in Seq(Int), Len(data) <= o.cap,
         NEW r \in SetBytes(hp, o, data, 0, o.buf)
  PROVE  ~ r.bad
<1>1. o \in Object /\ o.cap \in Nat /\ o.size \in Nat
  BY DEF OnBlock, Object
<1>2. PICK b \in 0..MaxBlocks : b = o.buf /\ hp[b].refs > 0 /\ hp[b].refs \in Nat
  BY DEF OnBlock, HeapOK, Block
<1>3. SetNothing(hp, o, r) \/ SetDone(hp, o, data, 0, b, r)
  BY <1>2, SetBytesIs
<1>4. CASE SetNothing(hp, o, r)
  BY <1>4 DEF SetNothing
<1>5. CASE SetDone(hp, o, data, 0, b, r)
  <2>1. PICK c \in 0..MaxBlocks : c = r.obj.buf
    BY <1>5 DEF SetDone
  <2>2. /\ OwnStep(hp, b, r.heap, c) /\ (r.bad <=> b # None /\ r.heap[b].refs = 0) /\ data # <<>>
    BY <1>2, <1>5, <2>1 DEF SetDone
  <2>3. CASE hp[b].refs # 1
    BY <1>2, <2>2, <2>3 DEF OwnStep
  <2>4. CASE hp[b].refs = 1
    <3>1. Place(o, 0) = 0 /\ ~ o.cap < Len(data) + 0
      BY <1>1 DEF Place
    <3>2. Room(hp, o, Len(data) + 0) = {[heap |-> hp, block |-> b]}
      BY <1>2, <2>4, <3>1 DEF Room, Edit
    <3>3. b # None
      BY BlocksAssumption DEF None
    <3>4. r.obj = Holding(o, hp, b, Len(data) + 0)
      BY <1>2, <2>2, <3>1, <3>2, <3>3 DEF SetBytes, Place
    <3>5. r.obj.buf = b
      BY <1>1, <1>2, <3>4 DEF Holding, Object
    <3> QED
      BY <1>2, <2>1, <2>2, <3>5 DEF OwnStep
  <2> QED
    BY <2>3, <2>4
<1> QED
  BY <1>3, <1>4, <1>5

\* append() at the end of a write(): c is the buffer as the compaction left it.
StreamStep(h) == /\ SInv' /\ OneObject(h) /\ returned' = Junk
                 /\ misused' => misused \/ lapsed = "memory"

\* The buffer the data is appended to, and where the stream is in it.
Ready(h, c, rpos, wpos, stale) ==
    /\ Good(c.heap, [obj EXCEPT ![h] = c.obj], dropped)
    /\ OthersSame(heap, obj, c.heap, h)
    /\ c.obj.buf # None /\ ~ c.obj.shrunk /\ c.bad \in BOOLEAN
    /\ lapsed # "memory" => wpos <= c.obj.size /\ ~ c.bad
    /\ lapsed = "no" /\ ~ stale =>
          /\ View(c.heap[c.obj.buf].bytes, rpos, wpos - rpos) = pending
          /\ wpos = c.obj.size

LEMMA AppendedKeeps ==
  ASSUME SInv, Streaming, NEW h \in Objects, h = stream.on, NEW c, NEW rpos \in Nat, NEW wpos \in Nat,
         rpos <= wpos, NEW data \in Items, NEW stale \in BOOLEAN, Ready(h, c, rpos, wpos, stale),
         Appended(c, rpos, wpos, data, stale)
  PROVE  StreamStep(h)
<1> DEFINE ob1 == [obj EXCEPT ![h] = c.obj]
           hp1 == c.heap
           o1 == c.obj
<1>1. PICK r \in SetBytes(hp1, o1, data, o1.size, None) :
        /\ Become(h, [r EXCEPT !.bad = c.bad, !.ret = Junk])
        /\ stream' = [stream EXCEPT !.rpos = rpos, !.wpos = wpos + Len(data)]
        /\ lapsed' = IF r.ret = 0 \/ lapsed = "memory" THEN "memory"
                     ELSE IF stale THEN "stale" ELSE lapsed
        /\ pending' = IF lapsed' = "memory" THEN <<>> ELSE pending \o data
  BY DEF Appended
<1>2. obj \in [Objects -> Object] /\ ob1[h] = o1
  BY DEF SInv, BInv, Good
<1>3. data \in Seq(Int) /\ Len(data) \in Nat \ {0}
  BY ItemIs
<1>4. Good(hp1, ob1, dropped) /\ OthersSame(heap, obj, hp1, h) /\ o1.buf # None /\ c.bad \in BOOLEAN
  BY DEF Ready
<1>5. OnBlock(hp1, o1) /\ HeapOK(hp1) /\ o1 \in Object /\ o1.size \in Nat
  <2>1. OnBlock(hp1, o1)
    <3> HIDE DEF ob1, hp1, o1
    <3> QED
      BY <1>2, <1>4, GoodOn
  <2> QED
    BY <1>4, <2>1 DEF OnBlock, Object, Good
<1>6. SetKept(hp1, ob1, dropped, h, r)
  <2> HIDE DEF ob1, hp1, o1
  <2> QED
    BY <1>1, <1>2, <1>3, <1>4, <1>5, SetKeeps
<1>7. PICK r2 : r2 = [r EXCEPT !.bad = c.bad, !.ret = Junk]
  OBVIOUS
<1>8. r2.heap = r.heap /\ r2.obj = r.obj /\ r2.ret = Junk /\ r2.bad = c.bad
  <2>1. r = [heap |-> r.heap, obj |-> r.obj, ret |-> r.ret, bad |-> r.bad]
    BY <1>1, SetRecord
  <2> QED
    BY <1>7, <2>1
<1>9. [ob1 EXCEPT ![h] = r.obj] = [obj EXCEPT ![h] = r.obj]
  BY <1>2
<1>10. Good(r.heap, [obj EXCEPT ![h] = r.obj], dropped) /\ OthersSame(heap, obj, r.heap, h)
  BY <1>2, <1>4, <1>6, <1>9 DEF SetKept, OthersSame
<1>11. /\ BInv' /\ OneObject(h) /\ obj'[h] = r.obj /\ heap' = r.heap /\ returned' = Junk
       /\ misused' => misused \/ c.bad
  <2>1. Become(h, r2) /\ r2.ret \in Int /\ r2.bad \in BOOLEAN
    BY <1>1, <1>4, <1>7, <1>8 DEF Junk
  <2> QED
    BY <1>8, <1>10, <2>1, BecomeKeeps DEF SInv
<1>12. misused' => misused \/ lapsed = "memory"
  BY <1>11 DEF Ready
<1>13. /\ stream' = [on |-> h, rpos |-> rpos, wpos |-> wpos + Len(data)]
       /\ stream'.on = h /\ stream'.rpos = rpos /\ stream'.wpos = wpos + Len(data)
  BY <1>1 DEF SInv, Positions
<1>14. /\ lapsed \in {"no", "memory", "stale"} /\ lapsed' \in {"no", "memory", "stale"}
       /\ lapsed' # "memory" => lapsed # "memory" /\ r.ret # 0
       /\ lapsed' = "no" => lapsed = "no" /\ ~ stale
  BY <1>1 DEF SInv, Positions
<1>15. pending' \in Seq(Int) /\ (lapsed' # "memory" => pending' = pending \o data)
  <2>1. pending \o data \in Seq(Int) /\ <<>> \in Seq(Int)
    BY <1>3, ConcatProperties DEF SInv, Positions
  <2> QED
    BY <1>1, <2>1
<1>16. SetNothing(hp1, o1, r) \/ SetDone(hp1, o1, data, o1.size, None, r)
  BY <1>1, <1>3, <1>5, SetBytesIs
<1>17. CASE SetNothing(hp1, o1, r)
  <2>1. r.ret = 0 /\ r.obj = o1
    BY <1>17 DEF SetNothing
  <2>2. lapsed' = "memory"
    BY <1>1, <2>1
  <2>3. Positions'
    BY <1>3, <1>4, <1>11, <1>13, <1>15, <2>1, <2>2 DEF Positions, Alive, Ready
  <2>4. StreamIsFifo'
    BY <2>2 DEF StreamIsFifo
  <2> QED
    BY <1>11, <1>12, <2>3, <2>4 DEF SInv, StreamStep
<1>18. CASE SetDone(hp1, o1, data, o1.size, None, r)
  <2>1. /\ r.obj.buf \in 0..MaxBlocks /\ r.obj.size = Len(data) + o1.size /\ ~ r.obj.shrunk
        /\ HeapOK(r.heap) /\ Len(data) + o1.size <= Len(r.heap[r.obj.buf].bytes)
        /\ SamePrefix(r.heap[r.obj.buf].bytes, hp1[o1.buf].bytes, o1.size)
        /\ ~ r.bad => \A j \in 1..Len(data) : r.heap[r.obj.buf].bytes[o1.size + j] = data[j]
    <3>1. Place(o1, o1.size) = o1.size
      BY <1>5 DEF Place
    <3>2. r.obj = [buf |-> r.obj.buf, size |-> Len(data) + o1.size,
                   cap |-> Len(r.heap[r.obj.buf].bytes), shrunk |-> FALSE]
      BY <1>18, <3>1 DEF SetDone
    <3>3. r.obj.size = Len(data) + o1.size /\ ~ r.obj.shrunk
      <4> HIDE DEF o1
      <4> QED
        BY <3>2
    <3>4. /\ r.obj.buf \in 0..MaxBlocks
          /\ HeapOK(r.heap) /\ Len(data) + o1.size <= Len(r.heap[r.obj.buf].bytes)
          /\ SamePrefix(r.heap[r.obj.buf].bytes, hp1[o1.buf].bytes, o1.size)
          /\ ~ r.bad => \A j \in 1..Len(data) : r.heap[r.obj.buf].bytes[o1.size + j] = data[j]
      <4> HIDE DEF o1, hp1
      <4> QED
        BY <1>18, <3>1, Zenon DEF SetDone
    <3> QED
      BY <3>3, <3>4
  <2>2. r.obj.buf # None
    BY <2>1, BlocksAssumption DEF None
  <2>3. lapsed' # "memory" => stream'.wpos <= obj'[h].size
    <3> SUFFICES ASSUME lapsed' # "memory" PROVE stream'.wpos <= obj'[h].size
      OBVIOUS
    <3>1. wpos <= o1.size
      BY <1>14 DEF Ready
    <3>2. obj'[h].size = Len(data) + o1.size /\ stream'.wpos = wpos + Len(data)
      BY <1>11, <1>13, <2>1
    <3> HIDE DEF o1
    <3> QED
      BY <1>3, <1>5, <3>1, <3>2
  <2>4. Positions'
    BY <1>3, <1>11, <1>13, <1>14, <1>15, <2>1, <2>2, <2>3 DEF Positions, Alive
  <2>5. StreamIsFifo'
    <3> SUFFICES ASSUME lapsed' = "no"
                 PROVE  /\ Unread(r.heap[r.obj.buf].bytes, stream') = pending'
                        /\ stream'.wpos = r.obj.size
      BY <1>11, <1>13, NextFifoView
    <3>1. View(hp1[o1.buf].bytes, rpos, wpos - rpos) = pending /\ wpos = o1.size
      BY <1>14 DEF Ready
    <3>2. PICK old \in Seq(Int) : old = hp1[o1.buf].bytes /\ o1.size <= Len(old)
      <4>1. hp1[o1.buf] \in Block /\ ~ o1.shrunk /\ o1.cap <= Len(hp1[o1.buf].bytes) /\ o1.size <= o1.cap
        BY <1>5 DEF OnBlock, InRange, HeapOK, Ready
      <4>2. hp1[o1.buf].bytes \in Seq(Int) /\ o1.cap \in Nat
        BY <1>5, <4>1 DEF Block, Object
      <4>3. Len(hp1[o1.buf].bytes) \in Nat
        BY <4>2, LenProperties
      <4> HIDE DEF o1, hp1
      <4> QED
        BY <1>5, <4>1, <4>2, <4>3
    <3>3. PICK new \in Seq(Int) : new = r.heap[r.obj.buf].bytes
      BY <2>1 DEF HeapOK, Block
    <3>4. ~ r.bad
      BY <1>1, <1>3, <1>5, FromOutside
    <3>5. PICK size \in Nat : size = o1.size
      BY <1>5
    <3>6. /\ size + Len(data) <= Len(new) /\ SamePrefix(new, old, size)
          /\ \A j \in 1..Len(data) : new[size + j] = data[j]
      <4>1. Len(data) + size = size + Len(data)
        BY <1>3
      <4> HIDE DEF o1, hp1
      <4> QED
        BY <2>1, <3>2, <3>3, <3>4, <3>5, <4>1
    <3>7. size <= Len(old) /\ wpos = size /\ rpos <= size
      BY <3>1, <3>2, <3>5
    <3>8. View(new, rpos, size + Len(data) - rpos) = View(old, rpos, size - rpos) \o data
      <4>1. ViewLonger(old, new, data, rpos, size)
        <5> HIDE DEF o1, hp1
        <5> QED
          BY <1>3, <3>6, <3>7, ViewAppend
      <4> QED
        BY <4>1 DEF ViewLonger
    <3>9. pending' = pending \o data /\ View(old, rpos, size - rpos) = pending
      BY <1>14, <1>15, <3>1, <3>2, <3>7
    <3>10. Unread(new, stream') = pending'
      BY <1>13, <3>7, <3>8, <3>9 DEF Unread
    <3>11. stream'.wpos = r.obj.size
      BY <1>3, <1>13, <2>1, <3>5, <3>7
    <3> QED
      BY <3>3, <3>10, <3>11
  <2> QED
    BY <1>11, <1>12, <2>4, <2>5 DEF SInv, StreamStep
<1> QED
  BY <1>16, <1>17, <1>18

\* write() as it is when the buffer has room or grows at its end.
LEMMA StandingReady ==
  ASSUME SInv, Streaming, NEW h \in Objects, h = stream.on
  PROVE  Ready(h, Standing, stream.rpos, stream.wpos, FALSE)
<1> DEFINE c == Standing
<1>1. c.heap = heap /\ c.obj = obj[h]
  BY DEF Standing
<1>2. c.bad \in BOOLEAN /\ ~ c.bad
  BY Zenon DEF Standing
<1>3. obj \in [Objects -> Object] /\ Good(heap, obj, dropped)
  BY DEF SInv, BInv, Good
<1>4. [obj EXCEPT ![h] = c.obj] = obj
  BY <1>1, <1>3
<1>5. stream.on # None
  BY DEF Streaming
<1>6. obj[h].buf # None /\ ~ obj[h].shrunk /\ (lapsed # "memory" => stream.wpos <= obj[h].size)
  BY <1>5 DEF SInv, Positions, Alive
<1>7. lapsed = "no" =>
        /\ View(heap[obj[h].buf].bytes, stream.rpos, stream.wpos - stream.rpos) = pending
        /\ stream.wpos = obj[h].size
  BY <1>5, FifoView DEF SInv, Unread
<1> HIDE DEF c
<1>8. Ready(h, c, stream.rpos, stream.wpos, FALSE)
  BY <1>1, <1>2, <1>3, <1>4, <1>6, <1>7 DEF Ready, OthersSame
<1> QED
  BY <1>8 DEF c

LEMMA CompactedReady ==
  ASSUME SInv, Streaming, NEW h \in Objects, h = stream.on, NEW c \in Compacted,
         NEW unread, unread = stream.wpos - stream.rpos, c.ret = unread,
         NEW stale \in BOOLEAN, stale <=> unread = 0
  PROVE  Ready(h, c, 0, unread, stale) /\ unread \in Nat
<1>1. stream.rpos \in Nat /\ stream.wpos \in Nat /\ stream.rpos <= stream.wpos /\ unread \in Nat
  BY DEF SInv, Positions
<1>2. /\ obj[h].buf # None /\ ~ obj[h].shrunk /\ (lapsed # "memory" => stream.wpos <= obj[h].size)
      /\ Good(heap, obj, dropped) /\ obj \in [Objects -> Object] /\ HeapOK(heap)
  BY DEF SInv, BInv, Good, Positions, Alive, Streaming
<1>3. OnBlock(heap, obj[h]) /\ obj[h] \in Object /\ obj[h].size \in Nat /\ obj[h].cap \in Nat
  BY <1>2, GoodOn DEF Object
<1>4. PICK b \in 0..MaxBlocks : b = obj[h].buf
  BY <1>3 DEF OnBlock
<1>5. PICK data : data = Between(h, stream.rpos, stream.wpos)
  OBVIOUS
<1>6. data = View(heap[b].bytes, stream.rpos, unread)
  BY <1>4, <1>5 DEF Between, View
<1>7. data \in Seq(Int) /\ Len(data) = unread
  <2>1. heap[b].bytes \in Seq(Int)
    BY <1>2 DEF HeapOK, Block
  <2> QED
    BY <1>1, <1>6, <2>1, ViewIs
<1>8. c \in SetBytes(heap, obj[h], data, 0, b)
  BY <1>4, <1>5 DEF Compacted
<1>9. SetKept(heap, obj, dropped, h, c)
  BY <1>2, <1>4, <1>7, <1>8, SetKeeps
<1>10. SetNothing(heap, obj[h], c) \/ SetDone(heap, obj[h], data, 0, b, c)
  BY <1>2, <1>3, <1>7, <1>8, SetBytesIs
<1>11. CASE SetNothing(heap, obj[h], c)
  <2>1. c.obj = obj[h] /\ unread = 0 /\ ~ c.bad
    BY <1>11 DEF SetNothing
  <2> QED
    BY <1>1, <1>2, <1>3, <1>9, <2>1 DEF Ready, SetKept
<1>12. CASE SetDone(heap, obj[h], data, 0, b, c)
  <2>1. Place(obj[h], 0) = 0
    BY <1>3 DEF Place
  <2>2. /\ c.obj = [buf |-> c.obj.buf, size |-> Len(data) + 0,
                    cap |-> Len(c.heap[c.obj.buf].bytes), shrunk |-> FALSE]
        /\ HeapOK(c.heap) /\ c.obj.buf \in 0..MaxBlocks
        /\ Len(data) + 0 <= Len(c.heap[c.obj.buf].bytes)
        /\ ~ c.bad => \A j \in 1..Len(data) : c.heap[c.obj.buf].bytes[0 + j] = data[j]
    BY <1>12, <2>1 DEF SetDone
  <2>3. c.obj.size = unread /\ ~ c.obj.shrunk
    BY <1>1, <1>7, <2>2
  <2>4. lapsed # "memory" => ~ c.bad
    <3> SUFFICES ASSUME lapsed # "memory" PROVE ~ c.bad
      OBVIOUS
    <3>1. unread <= obj[h].cap
      BY <1>1, <1>2, <1>3 DEF OnBlock, InRange
    <3> QED
      BY <1>2, <1>3, <1>4, <1>7, <1>8, <3>1, FromItself
  <2>5. lapsed = "no" => View(c.heap[c.obj.buf].bytes, 0, unread - 0) = pending
    <3> SUFFICES ASSUME lapsed = "no"
                 PROVE  View(c.heap[c.obj.buf].bytes, 0, unread - 0) = pending
      OBVIOUS
    <3>1. data = pending
      BY <1>4, <1>6, FifoView DEF SInv, Streaming, Unread
    <3>2. PICK new \in Seq(Int) : new = c.heap[c.obj.buf].bytes
      BY <2>2 DEF HeapOK, Block
    <3>3. Len(data) <= Len(new) /\ \A j \in 1..Len(data) : new[0 + j] = data[j]
      BY <1>1, <1>7, <2>2, <2>4, <3>2
    <3>4. View(new, 0, Len(data)) = data
      BY <1>7, <3>3, ViewFront
    <3> QED
      BY <1>1, <1>7, <3>1, <3>2, <3>4
  <2> QED
    BY <1>1, <1>9, <2>3, <2>4, <2>5 DEF Ready, SetKept
<1> QED
  BY <1>10, <1>11, <1>12

LEMMA WriteKeeps ==
  ASSUME SInv, NEW data \in Items, Write(data), NEW h \in Objects, h = stream.on PROVE StreamStep(h)
<1> DEFINE unread == stream.wpos - stream.rpos
<1>1. /\ Streaming
      /\ IF NeedsCompaction(Len(data))
         THEN \E c \in Compacted : c.ret = unread /\ Appended(c, 0, unread, data, unread = 0)
         ELSE Appended(Standing, stream.rpos, stream.wpos, data, FALSE)
  BY DEF Write
<1>2. stream.rpos \in Nat /\ stream.wpos \in Nat /\ stream.rpos <= stream.wpos
  BY DEF SInv, Positions
<1>3. CASE NeedsCompaction(Len(data))
  <2>1. PICK c \in Compacted : c.ret = unread /\ Appended(c, 0, unread, data, unread = 0)
    BY <1>1, <1>3
  <2>2. PICK stale \in BOOLEAN : stale = (unread = 0)
    OBVIOUS
  <2>3. stale <=> unread = 0
    BY <2>2
  <2>4. Appended(c, 0, unread, data, stale)
    BY <2>1, <2>2
  <2>5. Ready(h, c, 0, unread, stale) /\ unread \in Nat
    BY <1>1, <2>1, <2>3, CompactedReady
  <2> HIDE DEF unread
  <2> QED
    BY <1>1, <2>4, <2>5, AppendedKeeps
<1>4. CASE ~ NeedsCompaction(Len(data))
  <2>1. Appended(Standing, stream.rpos, stream.wpos, data, FALSE)
    BY <1>1, <1>4
  <2>2. Ready(h, Standing, stream.rpos, stream.wpos, FALSE)
    BY <1>1, StandingReady
  <2> QED
    BY <1>1, <1>2, <2>1, <2>2, AppendedKeeps
<1> QED
  BY <1>3, <1>4

\* Calls that read leave the buffers.
LEMMA SameBuffers == ASSUME BInv, UNCHANGED byteVars PROVE BInv'
  BY DEF BInv, byteVars

LEMMA AttachKeeps == ASSUME SInv, NEW h \in Objects, Attach(h) PROVE SInv'
<1>1. /\ Alive(h) /\ ~ obj[h].shrunk /\ stream' = [on |-> h, rpos |-> 0, wpos |-> obj[h].size]
      /\ pending' = Contents(h) /\ lapsed' = "no" /\ heap' = heap /\ obj' = obj /\ BInv'
  BY SameBuffers DEF Attach, SInv, byteVars
<1>2. Contents(h) \in Seq(Int) /\ obj[h].size \in Nat
  BY <1>1, ContentsIs DEF SInv
<1>3. Positions'
  BY <1>1, <1>2 DEF Positions, Alive
<1>4. Contents(h) = View(heap[obj[h].buf].bytes, 0, obj[h].size)
  BY <1>2, ContentsView
<1>5. obj[h].size - 0 = obj[h].size /\ stream'.on = h /\ stream'.rpos = 0 /\ stream'.wpos = obj[h].size
  BY <1>1, <1>2
<1>6. StreamIsFifo'
  BY <1>1, <1>4, <1>5, NextFifoView DEF Unread
<1> QED
  BY <1>1, <1>3, <1>6 DEF SInv

LEMMA DetachKeeps == ASSUME SInv, Detach PROVE SInv'
<1>1. stream' = NoStream /\ pending' = <<>> /\ lapsed' = "no" /\ BInv'
  BY SameBuffers DEF Detach, SInv
<1>2. <<>> \in Seq(Int) /\ NoStream.on = None /\ NoStream \in [on : {None} \cup Objects, rpos : Nat, wpos : Nat]
      /\ NoStream.rpos <= NoStream.wpos
  BY DEF NoStream
<1>3. Positions'
  BY <1>1, <1>2 DEF Positions
<1>4. StreamIsFifo'
  BY <1>1, <1>2 DEF StreamIsFifo
<1> QED
  BY <1>1, <1>3, <1>4 DEF SInv

LEMMA AdvanceKeeps ==
  ASSUME SInv, Streaming, NEW n \in Nat, n <= stream.wpos - stream.rpos, Advance(n) PROVE SInv'
<1>1. /\ stream' = [stream EXCEPT !.rpos = @ + n]
      /\ pending' = SubSeq(pending, n + 1, Len(pending))
      /\ lapsed' = lapsed /\ heap' = heap /\ obj' = obj /\ BInv'
  BY SameBuffers DEF Advance, SInv, byteVars
<1>2. /\ stream \in [on : {None} \cup Objects, rpos : Nat, wpos : Nat] /\ stream.rpos <= stream.wpos
      /\ pending \in Seq(Int) /\ stream.on \in Objects /\ stream.on # None
  BY DEF SInv, Positions, Streaming
<1>3. /\ stream' \in [on : {None} \cup Objects, rpos : Nat, wpos : Nat]
      /\ stream'.on = stream.on /\ stream'.rpos = stream.rpos + n /\ stream'.wpos = stream.wpos
  <2>1. PICK k \in Nat : k = stream.rpos + n
    BY <1>2
  <2>2. stream' = [stream EXCEPT !.rpos = k]
    BY <1>1, <2>1
  <2> QED
    BY <1>2, <2>1, <2>2
<1>4. pending' \in Seq(Int)
  <2>1. \A i \in (n + 1)..Len(pending) : pending[i] \in Int
    BY <1>2, ElementOfSeq
  <2> QED
    BY <1>1, <1>2, <2>1, SubSeqProperties
<1>5. Positions'
  BY <1>1, <1>2, <1>3, <1>4 DEF SInv, Positions, Alive
<1>6. ASSUME StreamIsFifo PROVE StreamIsFifo'
  <2> SUFFICES ASSUME lapsed = "no"
               PROVE  /\ Unread(heap[obj[stream.on].buf].bytes, stream') = pending'
                      /\ stream'.wpos = obj[stream.on].size
    BY <1>1, <1>3, NextFifoView
  <2>1. /\ Unread(heap[obj[stream.on].buf].bytes, stream) = pending
        /\ stream.wpos = obj[stream.on].size
    BY <1>2, <1>6, FifoView
  <2>2. PICK bytes \in Seq(Int) : bytes = heap[obj[stream.on].buf].bytes
    BY <1>2 DEF SInv, Positions, BInv, Good, Object, Alive, HeapOK, Block
  <2>3. PICK m \in Nat : m = stream.wpos - stream.rpos
    BY <1>2
  <2>4. PICK from \in Nat : from = stream.rpos
    BY <1>2
  <2>5. View(bytes, from, m) = pending /\ Len(pending) = m
    <3>1. View(bytes, from, m) = pending
      BY <2>1, <2>2, <2>3, <2>4 DEF Unread
    <3> QED
      BY <3>1, ViewIs
  <2>6. View(bytes, from + n, m - n) = SubSeq(pending, n + 1, m)
    <3>1. n \in 0..m
      BY <2>3
    <3>2. View(bytes, from + n, m - n) = SubSeq(View(bytes, from, m), n + 1, m)
      BY <3>1, ViewAdvance
    <3> QED
      BY <2>5, <3>2
  <2>7. stream'.wpos - stream'.rpos = m - n
    BY <1>2, <1>3, <2>3
  <2>8. Unread(bytes, stream') = View(bytes, from + n, m - n)
    BY <1>3, <2>4, <2>7 DEF Unread
  <2> QED
    BY <1>1, <1>3, <2>1, <2>2, <2>5, <2>6, <2>8
<1> QED
  BY <1>1, <1>5, <1>6 DEF SInv

LEMMA ReadKeeps == ASSUME SInv, NEW n \in Nat, Read(n) PROVE SInv'
<1>1. Streaming /\ stream.rpos + n <= stream.wpos /\ Advance(n)
  BY DEF Read
<1>2. n <= stream.wpos - stream.rpos
  BY <1>1 DEF SInv, Positions
<1> QED
  BY <1>1, <1>2, AdvanceKeeps

\* The first of some positions.
LEMMA FirstOf ==
  ASSUME NEW ends, ends \subseteq Nat, ends # {}
  PROVE  (CHOOSE i \in ends : \A j \in ends : i <= j) \in ends
<1>1. PICK i \in ends : \A j \in ends : ~ (<<j, i>> \in OpToRel(<, Nat))
  BY WFMin, NatLessThanWellFounded
<1>2. ASSUME NEW j \in ends, j < i PROVE FALSE
  <2>1. <<j, i>> \in OpToRel(<, Nat)
    BY <1>2 DEF OpToRel
  <2> QED
    BY <1>1, <2>1
<1>3. \A j \in ends : i <= j
  <2>1. i \in Nat /\ \A j \in ends : j \in Nat
    OBVIOUS
  <2> QED
    BY <1>2, <2>1
<1> QED
  BY <1>3

LEMMA ReadStringKeeps == ASSUME SInv, ReadString PROVE SInv'
<1> DEFINE unread == Between(stream.on, stream.rpos, stream.wpos)
           ends == {i \in DOMAIN unread : unread[i] = 0}
           n == IF ends = {} THEN Len(unread) ELSE CHOOSE i \in ends : \A j \in ends : i <= j
<1>1. Streaming /\ Advance(n)
  BY DEF ReadString
<1>2. PICK m \in Nat : m = stream.wpos - stream.rpos
  BY DEF SInv, Positions
<1>3. DOMAIN unread = 1..m
  BY <1>2 DEF Between
<1>4. Len(unread) = m
  <2>1. PICK bytes \in Seq(Int) : bytes = heap[obj[stream.on].buf].bytes
    BY <1>1 DEF Streaming, SInv, Positions, BInv, Good, Object, Alive, HeapOK, Block
  <2>2. unread = View(bytes, stream.rpos, m) /\ stream.rpos \in Nat
    BY <1>2, <2>1 DEF Between, View, SInv, Positions
  <2> HIDE DEF unread
  <2> QED
    BY <2>2, ViewIs
<1>5. ends \subseteq 1..m
  BY <1>3
<1> HIDE DEF unread, ends
<1>6. n \in 0..m
  <2>1. CASE ends = {}
    <3>1. n = Len(unread)
      BY <2>1
    <3> HIDE DEF n
    <3> QED
      BY <1>4, <3>1
  <2>2. CASE ends # {}
    <3>1. ends \subseteq Nat
      BY <1>5
    <3>2. PICK e : e = CHOOSE i \in ends : \A j \in ends : i <= j
      OBVIOUS
    <3>3. e \in ends
      BY <2>2, <3>1, <3>2, FirstOf
    <3>4. n = e
      BY <2>2, <3>2
    <3> HIDE DEF n
    <3> QED
      BY <1>5, <3>3, <3>4
  <2> QED
    BY <2>1, <2>2
<1> HIDE DEF n
<1> QED
  BY <1>1, <1>2, <1>6, AdvanceKeeps

\* Calls on the other objects.
LEMMA OtherStreams ==
  ASSUME SInv, NEW h \in Objects, h # stream.on, BInv', OneObject(h), UNCHANGED streamVars
  PROVE  SInv'
<1>1. /\ stream' = stream /\ pending' = pending /\ lapsed' = lapsed
      /\ obj' = [obj EXCEPT ![h] = obj'[h]] /\ OthersSame(heap, obj, heap', h)
  BY DEF streamVars, OneObject
<1>2. stream.on # None => obj'[stream.on] = obj[stream.on]
  BY <1>1 DEF SInv, Positions, BInv, Good
<1>3. Positions'
  BY <1>1, <1>2 DEF SInv, Positions, Alive
<1>4. StreamIsFifo'
  <2>1. stream.on # None => heap'[obj[stream.on].buf].bytes = heap[obj[stream.on].buf].bytes
    BY <1>1 DEF SInv, Positions, OthersSame, Alive
  <2> QED
    BY <1>1, <1>2, <2>1, FifoView, NextFifoView DEF SInv, Unread
<1> QED
  BY <1>3, <1>4 DEF SInv

\* operator[] of another object: the byte in the stream's block is the byte in
\* the stream.
LEMMA ElementStreams ==
  ASSUME SInv, NEW h \in Objects, NEW i \in Nat, NEW byte \in Int, ElementStep(h, i, byte),
         WriteBeside(h, i, byte)
  PROVE  SInv'
<1>1. /\ stream' = stream /\ lapsed' = lapsed /\ obj' = obj /\ BInv'
      /\ pending' = IF /\ stream.on # None /\ obj[h].buf = obj[stream.on].buf
                       /\ i - stream.rpos \in DOMAIN pending
                    THEN [pending EXCEPT ![i - stream.rpos] = byte] ELSE pending
  BY DEF WriteBeside, ElementStep
<1>2. pending \in Seq(Int) /\ stream.rpos \in Nat /\ stream.wpos \in Nat /\ stream.rpos <= stream.wpos
  BY DEF SInv, Positions
<1>3. pending' \in Seq(Int) /\ DOMAIN pending' = DOMAIN pending
  <2>1. ASSUME NEW j \in DOMAIN pending PROVE [pending EXCEPT ![j] = byte] \in Seq(Int)
    BY <1>2, <2>1, ExceptSeq
  <2> QED
    BY <1>1, <1>2, <2>1
<1>4. Positions'
  BY <1>1, <1>3 DEF SInv, Positions, Alive
<1>5. StreamIsFifo'
  <2> SUFFICES ASSUME stream.on # None, lapsed = "no"
               PROVE  /\ Unread(heap'[obj[stream.on].buf].bytes, stream) = pending'
                      /\ stream.wpos = obj[stream.on].size
    BY <1>1, NextFifoView
  <2>1. Unread(heap[obj[stream.on].buf].bytes, stream) = pending /\ stream.wpos = obj[stream.on].size
    BY FifoView DEF SInv
  <2>2. PICK b \in 0..MaxBlocks : b = obj[stream.on].buf
    BY DEF SInv, Positions, Alive, BInv, Good, Object
  <2>3. PICK c \in 0..MaxBlocks : c = obj[h].buf
    BY DEF ElementStep, SInv, Alive, BInv, Good, Object
  <2>4. PutOutcome(heap, c, i - 1, <<byte>>, heap')
    BY <2>3 DEF ElementStep
  <2>5. CASE b # c
    BY <1>1, <2>1, <2>2, <2>3, <2>4, <2>5 DEF PutOutcome
  <2>6. CASE b = c
    <3>1. PICK n \in Nat : n = stream.wpos - stream.rpos
      BY <1>2
    <3>2. PICK old \in Seq(Int) : old = heap[b].bytes
      BY DEF SInv, BInv, Good, HeapOK, Block
    <3>3. PICK new \in Seq(Int) : new = heap'[b].bytes
      BY <2>4 DEF PutOutcome, HeapOK, Block
    <3>4. PICK from \in Nat : from = stream.rpos
      BY <1>2
    <3>5. /\ Len(new) = Len(old)
          /\ \A k \in 1..Len(old) : new[k] = IF k = i THEN byte ELSE old[k]
      <4>1. /\ Len(new) = Len(old)
            /\ \A k \in 1..Len(old) :
                  new[k] = IF k \in ((i - 1) + 1)..((i - 1) + 1) THEN <<byte>>[k - (i - 1)] ELSE old[k]
        BY <2>4, <2>6, <3>2, <3>3 DEF PutOutcome
      <4> QED
        BY <4>1
    <3>6. from + n <= Len(old)
      <4>1. OnBlock(heap, obj[stream.on]) /\ ~ obj[stream.on].shrunk
        BY GoodOn DEF SInv, Positions, BInv, Good, Alive
      <4>2. obj[stream.on].size \in Nat /\ obj[stream.on].cap \in Nat
        BY <4>1 DEF OnBlock, Object
      <4>3. /\ obj[stream.on].size <= obj[stream.on].cap
            /\ obj[stream.on].cap <= Len(heap[b].bytes)
        BY <2>2, <4>1 DEF OnBlock, InRange
      <4>4. from + n = obj[stream.on].size
        BY <1>2, <2>1, <3>1, <3>4
      <4> QED
        BY <3>2, <4>2, <4>3, <4>4
    <3>7. pending = View(old, from, n) /\ Unread(new, stream) = View(new, from, n)
      BY <2>1, <2>2, <3>1, <3>2, <3>4 DEF Unread
    <3>8. ViewFits(old, from, n) /\ ViewFits(new, from, n)
      BY ViewFitted
    <3>9. DOMAIN pending = 1..n /\ \A k \in 1..n : pending[k] = old[from + k]
      <4>1. /\ pending \in Seq(Int) /\ Len(pending) = n
            /\ \A k \in 1..n : pending[k] = IF from + k <= Len(old) THEN old[from + k] ELSE Junk
        BY <3>7, <3>8 DEF ViewFits
      <4>2. ASSUME NEW k \in 1..n PROVE from + k <= Len(old)
        BY <3>6
      <4>3. ASSUME NEW k \in 1..n PROVE pending[k] = old[from + k]
        BY <4>1, <4>2
      <4>4. DOMAIN pending = 1..n
        BY <4>1
      <4> QED
        BY <4>3, <4>4
    <3>10. pending' = IF i - from \in 1..n THEN [pending EXCEPT ![i - from] = byte] ELSE pending
      BY <1>1, <2>2, <2>3, <2>6, <3>4, <3>9
    <3>11. \A k \in 1..n : pending'[k] = IF from + k = i THEN byte ELSE old[from + k]
      <4> SUFFICES ASSUME NEW k \in 1..n
                   PROVE  pending'[k] = IF from + k = i THEN byte ELSE old[from + k]
        OBVIOUS
      <4>1. from + k = i <=> k = i - from
        OBVIOUS
      <4> QED
        BY <3>9, <3>10, <4>1
    <3>12. \A k \in 1..n : View(new, from, n)[k] = IF from + k = i THEN byte ELSE old[from + k]
      <4>1. \A k \in 1..n : View(new, from, n)[k] = IF from + k <= Len(new) THEN new[from + k] ELSE Junk
        BY <3>8 DEF ViewFits
      <4>2. ASSUME NEW k \in 1..n PROVE from + k \in 1..Len(old) /\ from + k <= Len(new)
        BY <3>5, <3>6
      <4>3. ASSUME NEW k \in 1..n
            PROVE  View(new, from, n)[k] = IF from + k = i THEN byte ELSE old[from + k]
        <5>1. View(new, from, n)[k] = new[from + k]
          BY <4>1, <4>2
        <5> QED
          BY <3>5, <4>2, <5>1
      <4> QED
        BY <4>3
    <3>13. View(new, from, n) = pending'
      <4>1. View(new, from, n) \in Seq(Int) /\ Len(View(new, from, n)) = n
        BY <3>8 DEF ViewFits
      <4>2. Len(pending') = n /\ pending' \in Seq(Int)
        BY <1>3, <3>9
      <4>3. PICK seen : seen = View(new, from, n)
        OBVIOUS
      <4>4. PICK left : left = pending'
        OBVIOUS
      <4>5. /\ seen \in Seq(Int) /\ left \in Seq(Int) /\ Len(seen) = Len(left)
            /\ \A k \in 1..Len(seen) : seen[k] = left[k]
        BY <3>11, <3>12, <4>1, <4>2, <4>3, <4>4
      <4>6. seen = left
        BY <4>5, SeqEqual
      <4> QED
        BY <4>3, <4>4, <4>6
    <3> QED
      BY <2>1, <2>2, <3>3, <3>7, <3>13
  <2> QED
    BY <2>5, <2>6
<1> QED
  BY <1>1, <1>4, <1>5 DEF SInv

LEMMA BothOtherStreams ==
  ASSUME SInv, NEW g \in Objects, NEW h \in Objects, g # stream.on, h # stream.on,
         BothStep(g, h), UNCHANGED streamVars
  PROVE  SInv'
<1>1. /\ stream' = stream /\ pending' = pending /\ lapsed' = lapsed
      /\ \A f \in Objects \ {g, h} : obj'[f] = obj[f]
      /\ \A x \in 0..MaxBlocks : heap'[x].bytes = heap[x].bytes
      /\ BInv'
  BY DEF streamVars, BothStep
<1>2. stream.on # None => /\ obj'[stream.on] = obj[stream.on]
                          /\ heap'[obj[stream.on].buf].bytes = heap[obj[stream.on].buf].bytes
  BY <1>1 DEF SInv, Positions, Alive, BInv, Good, Object
<1>3. Positions'
  BY <1>1, <1>2 DEF SInv, Positions, Alive
<1>4. StreamIsFifo <=> StreamIsFifo'
  BY <1>1, <1>2, FifoView, NextFifoView DEF Unread
<1> QED
  BY <1>1, <1>3, <1>4 DEF SInv

LEMMA InitHolds == ASSUME Init PROVE SInv
<1>1. /\ heap = [b \in 0..MaxBlocks |-> IF b = Empty THEN [bytes |-> <<0>>, refs |-> 1] ELSE NoBlock]
      /\ obj = [h \in Objects |-> NoObject]
      /\ dropped = [b \in 0..MaxBlocks |-> 0] /\ returned = Junk /\ misused = FALSE
      /\ stream = NoStream /\ pending = <<>> /\ lapsed = "no"
  BY DEF Init, ByteInit, StreamInit
<1>2. [bytes |-> <<0>>, refs |-> 1] \in Block /\ NoBlock \in Block /\ NoBlock.refs = 0 /\ NoBlock.bytes = <<>>
  <2>1. <<0>> \in Seq(Int) /\ <<>> \in Seq(Int)
    OBVIOUS
  <2> QED
    BY <2>1 DEF Block, NoBlock
<1>3. HeapOK(heap) /\ \A b \in 0..MaxBlocks : heap[b].refs = IF b = Empty THEN 1 ELSE 0
  BY <1>1, <1>2 DEF HeapOK
<1>4. NoObject \in Object /\ NoObject.buf = None /\ obj \in [Objects -> Object] /\ \A h \in Objects : obj[h].buf = None
  BY <1>1 DEF NoObject, Object
<1>5. Counted(heap, obj, dropped)
  <2> SUFFICES ASSUME NEW b \in 0..MaxBlocks
               PROVE  heap[b].refs = CountOf(obj, b) + dropped[b] + (IF b = Empty THEN 1 ELSE 0)
    BY DEF Counted
  <2>1. Owners(obj, b) = {}
    BY <1>4, BlocksAssumption DEF Owners, OwnersIn, None
  <2>2. CountOf(obj, b) = 0
    BY <2>1, FS_EmptySet DEF CountOf
  <2> QED
    BY <1>1, <1>3, <2>2
<1>6. BInv
  <2>1. misused \in BOOLEAN
    BY <1>1, Zenon
  <2>2. returned \in Int /\ dropped \in [0..MaxBlocks -> Nat]
    BY <1>1 DEF Junk
  <2>3. Good(heap, obj, dropped)
    BY <1>3, <1>4, <1>5, <2>2 DEF Good
  <2> QED
    BY <2>1, <2>2, <2>3 DEF BInv
<1>7. Positions /\ StreamIsFifo
  BY <1>1 DEF Positions, StreamIsFifo, NoStream
<1> QED
  BY <1>6, <1>7 DEF SInv

\* What a step does: nothing to the buffers, a call on one object, or on two.
OneCall(h) == /\ OneObject(h) /\ FailKeeps(h)
              /\ misused' => \/ misused \/ lapsed = "memory" \/ BornWithout(h)
                             \/ /\ Alive(h) /\ heap[obj[h].buf].refs = 1
                                /\ obj'[h].size = 2 * obj[h].size

ElementWritten == \E h \in Objects, i \in 1..MaxSize, data \in Items :
                     WriteElement(h, i, data[1]) /\ ElementStep(h, i, data[1])

StepOutcome == \/ UNCHANGED byteVars
               \/ ElementWritten
               \/ \E h \in Objects : OneCall(h)
               \/ \E g, h \in Objects : BothStep(g, h)

LEMMA StreamNextKeeps == ASSUME SInv, StreamNext PROVE SInv' /\ StepOutcome
<1>1. ASSUME NEW h \in Objects, Attach(h) PROVE SInv' /\ StepOutcome
  BY <1>1, AttachKeeps DEF Attach, StepOutcome
<1>2. CASE Detach
  BY <1>2, DetachKeeps DEF Detach, StepOutcome
<1>3. ASSUME NEW data \in Items, Write(data) PROVE SInv' /\ StepOutcome
  <2>1. PICK h \in Objects : h = stream.on
    BY <1>3 DEF Write, Streaming, SInv, Positions
  <2>2. StreamStep(h)
    BY <1>3, <2>1, WriteKeeps
  <2>3. OneCall(h)
    BY <2>2 DEF StreamStep, OneCall, FailKeeps, Junk
  <2> QED
    BY <2>2, <2>3 DEF StreamStep, StepOutcome
<1>4. ASSUME NEW data \in Items, Read(Len(data)) PROVE SInv' /\ StepOutcome
  <2>1. Len(data) \in Nat
    BY ItemIs
  <2> QED
    BY <1>4, <2>1, ReadKeeps DEF Read, Advance, StepOutcome
<1>5. CASE ReadString
  BY <1>5, ReadStringKeeps DEF ReadString, Advance, StepOutcome
<1> QED
  BY <1>1, <1>2, <1>3, <1>4, <1>5 DEF StreamNext

LEMMA NextKeeps == ASSUME SInv, [Next]_vars PROVE SInv' /\ StepOutcome
<1>1. CASE StreamNext
  BY <1>1, StreamNextKeeps
<1>2. ASSUME NEW h \in Objects \ {stream.on}, Operate(h), UNCHANGED streamVars PROVE SInv' /\ StepOutcome
  <2>1. ByteStep(h)
    BY <1>2, OperateKeeps DEF SInv
  <2>2. SInv'
    BY <1>2, <2>1, OtherStreams DEF ByteStep
  <2>3. OneCall(h)
    BY <2>1 DEF ByteStep, OneCall, FreedBy
  <2> QED
    BY <2>2, <2>3 DEF StepOutcome
<1>3. ASSUME NEW g \in Objects \ {stream.on}, NEW h \in Objects \ {stream.on}, OperateBoth(g, h),
             UNCHANGED streamVars
      PROVE  SInv' /\ StepOutcome
  <2>1. BothStep(g, h)
    BY <1>3, OperateBothKeeps DEF SInv
  <2>2. SInv'
    BY <1>3, <2>1, BothOtherStreams
  <2> QED
    BY <2>1, <2>2 DEF StepOutcome
<1>5. ASSUME NEW h \in Objects, NEW i \in 1..MaxSize, NEW data \in Items, WriteBeside(h, i, data[1])
      PROVE  SInv' /\ StepOutcome
  <2>1. i \in Nat /\ data[1] \in Int /\ WriteElement(h, i, data[1])
    BY <1>5, ItemIs, ByteBufferAssumption DEF WriteBeside, OperateElement
  <2>2. ElementStep(h, i, data[1])
    BY <2>1, WriteElementKeeps DEF SInv
  <2>3. SInv'
    BY <1>5, <2>1, <2>2, ElementStreams
  <2>4. ElementWritten
    BY <2>1, <2>2 DEF ElementWritten
  <2> QED
    BY <2>3, <2>4 DEF StepOutcome
<1>4. CASE UNCHANGED vars
  <2>1. UNCHANGED byteVars /\ stream' = stream /\ pending' = pending /\ lapsed' = lapsed
    BY <1>4 DEF vars, streamVars
  <2>2. heap' = heap /\ obj' = obj /\ BInv'
    BY <2>1, SameBuffers DEF byteVars, SInv
  <2>3. Positions' /\ (StreamIsFifo <=> StreamIsFifo')
    BY <2>1, <2>2, FifoView, NextFifoView DEF SInv, Positions, Alive
  <2> QED
    BY <2>1, <2>2, <2>3 DEF SInv, StepOutcome
<1> QED
  BY <1>1, <1>2, <1>3, <1>4, <1>5 DEF Next, BufferNext

LEMMA CountsFollow == ASSUME SInv PROVE ByteTypeOK /\ SizesFit /\ RefsCountOwners
<1>1. ByteTypeOK
  BY DEF SInv, BInv, Good, HeapOK, Block, Object, ByteTypeOK
<1>2. SizesFit
  BY DEF SInv, BInv, Good, InRange, SizesFit, Alive
<1>3. RefsCountOwners
  BY DEF SInv, BInv, Good, Counted, CountOf, Owners, OwnersIn, RefsCountOwners
<1> QED
  BY <1>1, <1>2, <1>3

LEMMA StepsKeep ==
  ASSUME SInv, StepOutcome
  PROVE  [OthersKeepStep]_byteVars /\ [FailureLosesNothingStep]_byteVars /\ [FreedReadStep]_vars
<1>1. CASE UNCHANGED byteVars
  <2>1. misused' = misused
    BY <1>1 DEF byteVars
  <2> QED
    BY <1>1, <2>1 DEF FreedReadStep
<1>2. ASSUME NEW h \in Objects, OneCall(h)
      PROVE  OthersKeepStep /\ FailureLosesNothingStep /\ FreedReadStep
  <2>1. OthersKeepStep
    BY <1>2, OneOtherKeeps DEF SInv, OneCall
  <2>2. FailureLosesNothingStep
    BY <1>2, OneFailureLosesNothing DEF SInv, OneCall
  <2>3. FreedReadStep
    <3> SUFFICES ASSUME ~ misused, misused', lapsed # "memory", ~ BornWithout(h)
                 PROVE  /\ Alive(h) /\ heap[obj[h].buf].refs = 1
                        /\ obj'[h].size = 2 * obj[h].size
      BY DEF FreedReadStep, BornWithout
    <3> QED
      BY <1>2 DEF OneCall
  <2> QED
    BY <2>1, <2>2, <2>3
<1>3. ASSUME NEW g \in Objects, NEW h \in Objects, BothStep(g, h)
      PROVE  OthersKeepStep /\ FailureLosesNothingStep /\ FreedReadStep
  <2>1. OthersKeepStep /\ FailureLosesNothingStep
    BY <1>3, BothOthersKeep DEF SInv
  <2>2. misused' = misused
    BY <1>3 DEF BothStep
  <2> QED
    BY <2>1, <2>2 DEF FreedReadStep
<1>4. ASSUME NEW h \in Objects, NEW i \in 1..MaxSize, NEW data \in Items,
             WriteElement(h, i, data[1]), ElementStep(h, i, data[1])
      PROVE  OthersKeepStep /\ FailureLosesNothingStep /\ FreedReadStep
  <2>1. data[1] \in Int /\ obj' = obj /\ PutOutcome(heap, obj[h].buf, i - 1, <<data[1]>>, heap')
    BY <1>4, ItemIs DEF ElementStep
  <2>2. ASSUME NEW g \in Objects, Alive(g), obj[g].buf # obj[h].buf PROVE Contents(g)' = Contents(g)
    <3>1. obj[g].buf \in 0..MaxBlocks
      BY <2>2 DEF SInv, BInv, Good, Object, Alive
    <3>2. heap'[obj[g].buf].bytes = heap[obj[g].buf].bytes
      BY <2>1, <2>2, <3>1 DEF PutOutcome
    <3> QED
      BY <2>1, <3>2 DEF Contents
  <2>3. OthersKeepStep
    BY <1>4, <2>2 DEF OthersKeepStep
  <2>4. FailureLosesNothingStep /\ FreedReadStep
    BY <1>4 DEF ElementStep, FailureLosesNothingStep, FreedReadStep, Junk
  <2> QED
    BY <2>3, <2>4
<1> QED
  BY <1>1, <1>2, <1>3, <1>4 DEF StepOutcome, ElementWritten

LEMMA StreamInvariant == Spec => []SInv
<1>1. Init => SInv
  BY InitHolds
<1>2. SInv /\ [Next]_vars => SInv'
  BY NextKeeps
<1> QED
  BY <1>1, <1>2, PTL DEF Spec

\* Every block of ByteBuffer counts the objects on it, with the references that
\* operator= drops, and no object counts bytes its block does not have: for any
\* number of objects and blocks, also when operator[] writes to a shared block.
THEOREM BuffersCounted == Spec => [](ByteTypeOK /\ SizesFit /\ RefsCountOwners)
<1>1. SInv => ByteTypeOK /\ SizesFit /\ RefsCountOwners
  BY CountsFollow
<1> QED
  BY <1>1, StreamInvariant, PTL

\* Buffers that share blocks behave as if each had its own: no call changes the
\* bytes of a copy, but operator[], which changes the byte it is written to in the
\* copies on the block; a call that returns 0 loses nothing, and bytes that are no
\* block's are used only by an object appended to itself, by a stream a write()
\* failed on and by a constructor that found no memory.
THEOREM BuffersAreSound == Spec => ByteBuffersSound
<1>1. SInv /\ [Next]_vars =>
        [OthersKeepStep]_byteVars /\ [FailureLosesNothingStep]_byteVars /\ [FreedReadStep]_vars
  BY NextKeeps, StepsKeep
<1>2. Spec => [][OthersKeepStep]_byteVars /\ [][FailureLosesNothingStep]_byteVars /\ [][FreedReadStep]_vars
  BY <1>1, StreamInvariant, PTL DEF Spec
<1> QED
  BY <1>2, BuffersCounted, PTL DEF ByteBuffersSound, OthersKeep, FailureLosesNothing, FreedReadOnlyByItself

\* What is read from a BufferStream is what was written to it, in that order and
\* each byte once, through every growth, compaction, failed malloc() and change of
\* a copy; a byte written through operator[] of a copy on the same block counts
\* as written to the stream.
THEOREM StreamInOrder == Spec => []StreamIsFifo
<1>1. SInv => StreamIsFifo
  BY DEF SInv
<1> QED
  BY <1>1, StreamInvariant, PTL
=============================================================================
