----------------------------- MODULE BlocksProof -----------------------------
(***************************************************************************)
(* What the operations on the blocks under ByteBuffer and String8 leave,    *)
(* whatever the number of blocks and their bytes.                           *)
(***************************************************************************)
EXTENDS Blocks, FiniteSetTheorems, SequenceTheorems, TLAPS

Block == [bytes : Seq(Int), refs : Nat]

\* A heap in which a free address has no bytes.
HeapOK(hp) == /\ hp \in [0..MaxBlocks -> Block]
              /\ \A b \in 0..MaxBlocks : hp[b].refs = 0 => hp[b].bytes = <<>>

-----------------------------------------------------------------------------
(* The operations on blocks *)

\* A function on 1..n is a sequence of that length.
LEMMA SeqOfFunction ==
  ASSUME NEW n \in Nat, NEW S, NEW f, f = [i \in 1..n |-> f[i]], \A i \in 1..n : f[i] \in S
  PROVE  f \in Seq(S) /\ Len(f) = n
<1>1. f \in [1..n -> S]
  OBVIOUS
<1> QED
  BY <1>1, SeqDef, LenProperties

\* The bytes of a block that became n long.
LEMMA ResizedIs ==
  ASSUME NEW bytes \in Seq(Int), NEW n \in Nat, NEW fill \in Int
  PROVE  /\ Resized(bytes, n, fill) \in Seq(Int)
         /\ Len(Resized(bytes, n, fill)) = n
         /\ \A i \in 1..n : i <= Len(bytes) => Resized(bytes, n, fill)[i] = bytes[i]
<1> DEFINE f == Resized(bytes, n, fill)
<1>1. f = [i \in 1..n |-> f[i]]
  BY DEF Resized
<1>2. \A i \in 1..n : f[i] = IF i <= Len(bytes) THEN bytes[i] ELSE fill
  BY DEF Resized
<1>3. \A i \in 1..n : i <= Len(bytes) => bytes[i] \in Int
  BY ElementOfSeq
<1>4. \A i \in 1..n : f[i] \in Int
  BY <1>2, <1>3
<1> QED
  BY <1>1, <1>2, <1>4, SeqOfFunction

\* malloc() gives a free address, or none.
AllocOutcome(hp, bytes, r) ==
    \/ r.block = None /\ r.heap = hp
    \/ /\ r.block \in 1..MaxBlocks /\ hp[r.block].refs = 0
       /\ r.heap = [hp EXCEPT ![r.block] = [bytes |-> bytes, refs |-> 1]]

LEMMA AllocIs == ASSUME NEW hp, NEW bytes, NEW r \in Alloc(hp, bytes)
                 PROVE  AllocOutcome(hp, bytes, r)
  BY DEF Alloc, AllocOutcome

\* The reference an owner had to b is now to c: b was its own and has changed, or
\* c is new and b has one reference less.
OwnStep(hp, b, hp2, c) ==
    /\ \A x \in (0..MaxBlocks) \ {b, c} : hp2[x] = hp[x]
    /\ c = b => hp2[b].refs = hp[b].refs /\ (hp[b].refs # 1 => hp2[b] = hp[b])
    /\ c # b => /\ hp[c].refs = 0 /\ hp2[c].refs = 1
                /\ hp2[b].refs = hp[b].refs - 1
                /\ hp[b].refs # 1 => hp2[b].bytes = hp[b].bytes

\* What a reference more and a reference less leave.
LEMMA AcquireIs ==
  ASSUME NEW hp, HeapOK(hp), NEW b \in 0..MaxBlocks, hp[b].refs > 0
  PROVE  /\ HeapOK(Acquire(hp, b))
         /\ Acquire(hp, b)[b].refs = hp[b].refs + 1 /\ Acquire(hp, b)[b].bytes = hp[b].bytes
         /\ \A x \in (0..MaxBlocks) \ {b} : Acquire(hp, b)[x] = hp[x]
  BY DEF HeapOK, Acquire, Block

LEMMA ReleaseIs ==
  ASSUME NEW hp, HeapOK(hp), NEW b \in 0..MaxBlocks, hp[b].refs > 0
  PROVE  /\ HeapOK(Release(hp, b))
         /\ Release(hp, b)[b].refs = hp[b].refs - 1
         /\ hp[b].refs # 1 => Release(hp, b)[b].bytes = hp[b].bytes
         /\ \A x \in (0..MaxBlocks) \ {b} : Release(hp, b)[x] = hp[x]
<1>1. hp[b] \in Block
  BY DEF HeapOK
<1>2. NoBlock \in Block /\ NoBlock.refs = 0 /\ NoBlock.bytes = <<>>
  BY DEF NoBlock, Block
<1>3. CASE hp[b].refs = 1
  BY <1>1, <1>2, <1>3 DEF HeapOK, Release
<1>4. CASE hp[b].refs # 1
  <2> DEFINE less == [hp[b] EXCEPT !.refs = @ - 1]
  <2>1. less \in Block /\ less.refs = hp[b].refs - 1 /\ less.refs > 0 /\ less.bytes = hp[b].bytes
    BY <1>1, <1>4 DEF Block
  <2>2. Release(hp, b) = [hp EXCEPT ![b] = less]
    BY <1>4 DEF Release
  <2> HIDE DEF less
  <2> QED
    BY <1>4, <2>1, <2>2 DEF HeapOK
<1> QED
  BY <1>3, <1>4

\* A call for a block of its own either fails and leaves everything, or has
\* a block that is the caller's alone.
OwnOutcome(hp, b, r) ==
    \/ r.block = None /\ r.heap = hp
    \/ /\ r.block \in 0..MaxBlocks
       /\ HeapOK(r.heap)
       /\ OwnStep(hp, b, r.heap, r.block)
       /\ r.heap[r.block].refs = 1

LEMMA InsteadIs ==
  ASSUME NEW hp, HeapOK(hp), NEW b \in 0..MaxBlocks, hp[b].refs > 0,
         NEW bytes \in Seq(Int), NEW r \in Instead(hp, b, bytes)
  PROVE  /\ OwnOutcome(hp, b, r)
         /\ r.block # None => r.heap[r.block].bytes = bytes
<1>1. PICK o \in Alloc(hp, bytes) :
        r = IF o.block = None THEN o ELSE [o EXCEPT !.heap = Release(@, b)]
  BY DEF Instead
<1>2. CASE o.block = None
  <2>1. r = o
    BY <1>1, <1>2
  <2>2. AllocOutcome(hp, bytes, o)
    BY AllocIs
  <2> QED
    BY <1>2, <2>1, <2>2, BlocksAssumption DEF AllocOutcome, OwnOutcome, None
<1>3. CASE o.block # None
  <2> DEFINE With(c) == [hp EXCEPT ![c] = [bytes |-> bytes, refs |-> 1]]
  <2>1. PICK c \in 1..MaxBlocks : hp[c].refs = 0 /\ o = [heap |-> With(c), block |-> c]
    BY <1>3 DEF Alloc
  <2> DEFINE hp1 == With(c)
  <2>2. r = [heap |-> Release(hp1, b), block |-> c]
    <3>1. r = [o EXCEPT !.heap = Release(o.heap, b)]
      BY <1>1, <1>3
    <3>2. o = [heap |-> hp1, block |-> c]
      BY <2>1
    <3> HIDE DEF hp1
    <3> QED
      BY <3>1, <3>2
  <2>3. c # b /\ c \in 0..MaxBlocks /\ c # None
    BY <2>1, BlocksAssumption DEF None
  <2>4. [bytes |-> bytes, refs |-> 1] \in Block
    BY DEF Block
  <2>5. HeapOK(hp1) /\ hp1[b] = hp[b] /\ hp1[c] = [bytes |-> bytes, refs |-> 1]
    BY <2>3, <2>4 DEF HeapOK
  <2>6. \A x \in (0..MaxBlocks) \ {c} : hp1[x] = hp[x]
    BY <2>3 DEF HeapOK
  <2>7. /\ HeapOK(r.heap) /\ r.heap[b].refs = hp[b].refs - 1
        /\ hp[b].refs # 1 => r.heap[b].bytes = hp[b].bytes
        /\ \A x \in (0..MaxBlocks) \ {b} : r.heap[x] = hp1[x]
    <3> HIDE DEF hp1
    <3> QED
      BY <2>2, <2>5, ReleaseIs
  <2> HIDE DEF hp1
  <2> QED
    BY <2>1, <2>2, <2>3, <2>5, <2>6, <2>7 DEF OwnOutcome, OwnStep
<1> QED
  BY <1>2, <1>3

\* The first n bytes of a block that were there before are the same.
SamePrefix(new, old, n) == \A i \in 1..n : i <= Len(old) => new[i] = old[i]

LEMMA EditIs ==
  ASSUME NEW hp, HeapOK(hp), NEW b \in 0..MaxBlocks, hp[b].refs > 0, NEW r \in Edit(hp, b)
  PROVE  /\ OwnOutcome(hp, b, r)
         /\ r.block # None => r.heap[r.block].bytes = hp[b].bytes
<1>1. hp[b].bytes \in Seq(Int)
  BY DEF HeapOK, Block
<1>2. CASE hp[b].refs = 1
  BY <1>2 DEF Edit, OwnOutcome, OwnStep
<1>3. CASE hp[b].refs # 1
  BY <1>1, <1>3, InsteadIs DEF Edit
<1> QED
  BY <1>2, <1>3

\* A block that is grown where it is.
LEMMA GrownIs ==
  ASSUME NEW hp, HeapOK(hp), NEW b \in 0..MaxBlocks, hp[b].refs = 1, NEW n \in Nat
  PROVE  /\ OwnOutcome(hp, b, Grown(hp, b, n))
         /\ Grown(hp, b, n).block = b
         /\ Grown(hp, b, n).heap[b].bytes = Resized(hp[b].bytes, n, Junk)
<1> DEFINE bytes == Resized(hp[b].bytes, n, Junk)
           hp2 == Grown(hp, b, n).heap
<1>1. hp[b] \in Block /\ hp[b].bytes \in Seq(Int)
  BY DEF HeapOK, Block
<1>2. bytes \in Seq(Int)
  BY <1>1, ResizedIs DEF Junk
<1>3. Grown(hp, b, n).block = b /\ hp2 = [hp EXCEPT ![b] = [hp[b] EXCEPT !.bytes = bytes]]
  BY DEF Grown
<1>4. [hp[b] EXCEPT !.bytes = bytes] \in Block
  <2> HIDE DEF bytes
  <2> QED
    BY <1>1, <1>2 DEF Block
<1>5. HeapOK(hp2) /\ hp2[b].refs = 1 /\ hp2[b].bytes = bytes
  <2> HIDE DEF bytes, hp2
  <2> QED
    BY <1>1, <1>3, <1>4 DEF HeapOK, Block
<1>6. \A x \in (0..MaxBlocks) \ {b} : hp2[x] = hp[x]
  BY <1>3 DEF HeapOK
<1> QED
  BY <1>3, <1>5, <1>6 DEF OwnOutcome, OwnStep

LEMMA EditResizeIs ==
  ASSUME NEW hp, HeapOK(hp), NEW b \in 0..MaxBlocks, hp[b].refs > 0, NEW n \in Nat,
         NEW r \in EditResize(hp, b, n)
  PROVE  /\ OwnOutcome(hp, b, r)
         /\ r.block # None => /\ Len(r.heap[r.block].bytes) = n
                              /\ SamePrefix(r.heap[r.block].bytes, hp[b].bytes, n)
<1>1. hp[b].bytes \in Seq(Int) /\ hp[b].refs \in Nat
  BY DEF HeapOK, Block
<1>2. ASSUME NEW fill \in Int
      PROVE  /\ Resized(hp[b].bytes, n, fill) \in Seq(Int)
             /\ Len(Resized(hp[b].bytes, n, fill)) = n
             /\ SamePrefix(Resized(hp[b].bytes, n, fill), hp[b].bytes, n)
  BY <1>1, ResizedIs DEF SamePrefix
<1>3. ASSUME NEW fill \in Int, r \in Instead(hp, b, Resized(hp[b].bytes, n, fill))
      PROVE  /\ OwnOutcome(hp, b, r)
             /\ r.block # None => /\ Len(r.heap[r.block].bytes) = n
                                  /\ SamePrefix(r.heap[r.block].bytes, hp[b].bytes, n)
  BY <1>2, <1>3, InsteadIs
<1>4. CASE hp[b].refs > 1
  <2>1. r \in Instead(hp, b, Resized(hp[b].bytes, n, 0))
    BY <1>4 DEF EditResize
  <2> QED
    BY <1>3, <2>1
<1>5. CASE hp[b].refs = 1 /\ Len(hp[b].bytes) = n
  <2>1. r = [heap |-> hp, block |-> b]
    BY <1>5 DEF EditResize
  <2> QED
    BY <1>5, <2>1 DEF OwnOutcome, OwnStep, SamePrefix
<1>6. CASE hp[b].refs = 1 /\ Len(hp[b].bytes) # n
  <2>1. \/ r = Grown(hp, b, n)
        \/ r \in Instead(hp, b, Resized(hp[b].bytes, n, Junk))
        \/ r \in Instead(hp, b, Resized(hp[b].bytes, n, 0))
    BY <1>6 DEF EditResize
  <2>2. CASE r = Grown(hp, b, n)
    BY <1>2, <1>6, <2>2, GrownIs DEF Junk
  <2> QED
    BY <1>3, <2>1, <2>2 DEF Junk
<1> QED
  BY <1>1, <1>4, <1>5, <1>6

\* Writing into a block.
PutOutcome(hp, b, at, data, hp2) ==
    /\ HeapOK(hp2)
    /\ \A x \in (0..MaxBlocks) \ {b} : hp2[x] = hp[x]
    /\ hp2[b].refs = hp[b].refs
    /\ Len(hp2[b].bytes) = Len(hp[b].bytes)
    /\ \A i \in 1..Len(hp[b].bytes) :
          hp2[b].bytes[i] = IF i \in (at + 1)..(at + Len(data)) THEN data[i - at] ELSE hp[b].bytes[i]

LEMMA PutIs ==
  ASSUME NEW hp, HeapOK(hp), NEW b \in 0..MaxBlocks, hp[b].refs > 0,
         NEW at \in Int, NEW data \in Seq(Int)
  PROVE  PutOutcome(hp, b, at, data, Put(hp, b, at, data))
<1> DEFINE old == hp[b].bytes
           new == [i \in 1..Len(old) |-> IF i \in (at + 1)..(at + Len(data)) THEN data[i - at] ELSE old[i]]
<1>1. hp[b] \in Block /\ old \in Seq(Int) /\ Len(old) \in Nat
  BY DEF HeapOK, Block
<1>2. new \in Seq(Int) /\ Len(new) = Len(old)
  <2>1. ASSUME NEW i \in 1..Len(old) PROVE new[i] \in Int
    <3>1. CASE i \in (at + 1)..(at + Len(data))
      <4>1. i - at \in 1..Len(data)
        BY <1>1, <3>1
      <4> QED
        BY <3>1, <4>1, ElementOfSeq
    <3>2. CASE i \notin (at + 1)..(at + Len(data))
      BY <1>1, <3>2, ElementOfSeq
    <3> QED
      BY <3>1, <3>2
  <2>2. new = [i \in 1..Len(old) |-> new[i]]
    OBVIOUS
  <2> HIDE DEF new
  <2> QED
    BY <1>1, <2>1, <2>2, SeqOfFunction
<1>3. Put(hp, b, at, data) = [hp EXCEPT ![b] = [hp[b] EXCEPT !.bytes = new]]
  BY DEF Put
<1>4. \A i \in 1..Len(old) : new[i] = IF i \in (at + 1)..(at + Len(data)) THEN data[i - at] ELSE old[i]
  OBVIOUS
<1> HIDE DEF new
<1>5. [hp[b] EXCEPT !.bytes = new] \in Block
  BY <1>1, <1>2 DEF Block
<1> QED
  BY <1>1, <1>2, <1>3, <1>4, <1>5 DEF HeapOK, Block, PutOutcome

-----------------------------------------------------------------------------
(* Owners and counts: objects with a block in the field buf                 *)

OwnersIn(S, ob, b) == {h \in S : ob[h].buf = b}

\* The counts when one object goes to another block.
Moved(old, new, n, n2) ==
    /\ n \in Nat /\ n2 \in Nat
    /\ old /\ new => n2 = n /\ n > 0
    /\ ~ old /\ ~ new => n2 = n
    /\ old /\ ~ new => n2 = n - 1 /\ n > 0
    /\ ~ old /\ new => n2 = n + 1

LEMMA OneOwnerMoves ==
  ASSUME NEW Objs, IsFiniteSet(Objs), NEW ob, ob = [x \in Objs |-> ob[x]],
         NEW h \in Objs, NEW o2, NEW b
  PROVE  Moved(ob[h].buf = b, o2.buf = b, Cardinality(OwnersIn(Objs, ob, b)),
               Cardinality(OwnersIn(Objs, [ob EXCEPT ![h] = o2], b)))
<1> DEFINE S == OwnersIn(Objs, ob, b)
           T == OwnersIn(Objs, [ob EXCEPT ![h] = o2], b)
<1>1. IsFiniteSet(S) /\ IsFiniteSet(T) /\ Cardinality(S) \in Nat /\ Cardinality(T) \in Nat
  <2>1. S \subseteq Objs /\ T \subseteq Objs
    BY DEF OwnersIn
  <2> HIDE DEF S, T
  <2> QED
    BY <2>1, FS_Subset, FS_CardinalityType
<1>2. h \in S <=> ob[h].buf = b
  BY DEF OwnersIn
<1>3. o2.buf = b => T = S \cup {h}
  BY DEF OwnersIn
<1>4. o2.buf # b => T = S \ {h}
  BY DEF OwnersIn
<1> HIDE DEF S, T
<1>5. /\ Cardinality(S \cup {h}) = IF h \in S THEN Cardinality(S) ELSE Cardinality(S) + 1
      /\ Cardinality(S \ {h}) = IF h \in S THEN Cardinality(S) - 1 ELSE Cardinality(S)
  BY <1>1, FS_AddElement, FS_RemoveElement
<1>6. h \in S => Cardinality(S) > 0
  BY <1>1, FS_EmptySet
<1>7. Moved(ob[h].buf = b, o2.buf = b, Cardinality(S), Cardinality(T))
  BY <1>1, <1>2, <1>3, <1>4, <1>5, <1>6 DEF Moved
<1> QED
  BY <1>7 DEF S, T
=============================================================================
