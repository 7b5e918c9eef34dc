------------------------------- MODULE BitMap -------------------------------
(***************************************************************************)
(* BitMap of utils/bitmap.cpp: a block of bytes and mCapacity, which counts *)
(* bits and is computed with 32 bits (here: CapacityMod).  The copies give  *)
(* memcpy() that number of bits as a number of bytes: they overrun, and the *)
(* model has no opinion on what follows.                                    *)
(***************************************************************************)
EXTENDS Integers, FiniteSets, FiniteSetsExt

CONSTANTS BitMaps,
          Indices,          \* the bits that the callers use
          Sizes,            \* the sizes they ask for; a default one among them
          DefaultSize,
          ByteBits,         \* bits of a byte
          WordBytes,        \* bytes of the words that count() reads first
          CapacityMod       \* mCapacity wraps around here

VARIABLES map,              \* the objects: the bytes of the block, or NullBlock, the bits set in it, mCapacity
          overrun           \* memory outside of a block was read and written

bitVars == <<map, overrun>>

Gone == [bytes |-> -2, bits |-> {}, mCapacity |-> 0]
NullBlock == -1
Null == [Gone EXCEPT !.bytes = NullBlock]

BitInit == map = [m \in BitMaps |-> Gone] /\ overrun = FALSE

Exists(m) == map[m] # Gone
Becomes(m, b) == map' = [map EXCEPT ![m] = b] /\ UNCHANGED overrun
Covered(bytes) == {i \in Indices : i < bytes * ByteBits}

-----------------------------------------------------------------------------
\* alloc(): a block of zeros and its capacity, or neither.
Allocated(size) == LET bytes == (size + ByteBits - 1) \div ByteBits
                   IN  {Null, [bytes |-> bytes, bits |-> {}, mCapacity |-> (bytes * ByteBits) % CapacityMod]}

\* Faulty variant: the bits are not copied into the new block.
ReservedBlank(b, size) == IF size <= b.mCapacity THEN {b}
                          ELSE {IF n = Null THEN b ELSE n : n \in Allocated(size)}

\* reserve(): as many bytes are copied as both capacities have.
Reserved(b, size) ==
    IF size <= b.mCapacity THEN {b}
    ELSE {IF n = Null THEN b
          ELSE [n EXCEPT !.bits = b.bits \cap Covered(Min({n.mCapacity, b.mCapacity}) \div ByteBits)]
            : n \in Allocated(size)}

Construct(m) == ~ Exists(m) /\ \E b \in Allocated(DefaultSize) : Becomes(m, b)
ConstructSize(m, size) == ~ Exists(m) /\ \E b \in Reserved(Null, size) : Becomes(m, b)
Reserve(m, size) == Exists(m) /\ \E b \in Reserved(map[m], size) : Becomes(m, b)
Destroy(m) == Exists(m) /\ Becomes(m, Gone)

\* The block of o is copied, if it has a capacity and alloc() finds memory.
CopyOf(o, m) == IF map[o].mCapacity = 0 THEN Becomes(m, Null)
                ELSE \/ Becomes(m, Null)
                     \/ overrun' = (map[o].mCapacity > map[o].bytes) /\ map' = [map EXCEPT ![m] = map[o]]

CopyConstruct(o, m) == Exists(o) /\ ~ Exists(m) /\ CopyOf(o, m)

\* operator=: the block that m had is not freed.
Assign(o, m) == Exists(o) /\ Exists(m) /\ o # m /\ CopyOf(o, m)

\* set(): FALSE and nothing done when the index is not below the capacity.
Set(m, i, v) == /\ Exists(m)
                /\ IF i >= map[m].mCapacity THEN UNCHANGED bitVars
                   ELSE Becomes(m, [map[m] EXCEPT !.bits = IF v THEN @ \cup {i} ELSE @ \ {i}])

Clear(m) == Exists(m) /\ Becomes(m, [map[m] EXCEPT !.bits = @ \ Covered(map[m].mCapacity \div ByteBits)])

BitNext == /\ ~ overrun
           /\ \E m \in BitMaps :
                \/ Construct(m) \/ Destroy(m) \/ Clear(m)
                \/ \E size \in Sizes : ConstructSize(m, size) \/ Reserve(m, size)
                \/ \E i \in Indices, v \in BOOLEAN : Set(m, i, v)
                \/ \E o \in BitMaps : CopyConstruct(o, m) \/ Assign(o, m)

BitSpec == BitInit /\ [][BitNext]_bitVars

-----------------------------------------------------------------------------
(* count(): words of WordBytes bytes, then the bytes left *)

InBytes(b, from, n) == Cardinality({i \in b.bits : i \div ByteBits \in from..(from + n - 1)})

Count(b) == LET bytes == b.mCapacity \div ByteBits
                words == bytes \div WordBytes
            IN  MapThenSumSet(LAMBDA w : InBytes(b, w * WordBytes, WordBytes), 0..(words - 1))
                    + InBytes(b, words * WordBytes, bytes % WordBytes)

-----------------------------------------------------------------------------
\* No bit is kept outside of a block and the capacity never promises more than
\* the block has, also where it has wrapped around and promises less.
BitsInBlock == \A m \in BitMaps : Exists(m) =>
    LET b == map[m] IN /\ b.bits \subseteq Covered(b.bytes)
                       /\ b.mCapacity <= (IF b.bytes = NullBlock THEN 0 ELSE b.bytes * ByteBits)

\* count() is the number of indices at which at() is true.
CountsBits == \A m \in BitMaps : Count(map[m]) = Cardinality(map[m].bits)

\* A bit is changed by a set() of its own or by clear(); reserve() keeps them
\* all, unless the size is within a byte of the largest, where the capacity
\* becomes 0 and every bit is lost.
BitsKept ==
    [][overrun' \/ \A m \in BitMaps : Exists(m) /\ Exists(m)' /\ map'[m] # map[m] =>
          \/ map'[m].mCapacity = map[m].mCapacity /\ Cardinality(map[m].bits \ map'[m].bits) = 1
          \/ map[m].bits \subseteq map'[m].bits
          \/ map'[m].bits = {} /\ (map'[m].mCapacity = map[m].mCapacity \/ map'[m].mCapacity = 0)]_bitVars

\* A bit is where it was put.
BitsSound == [](BitsInBlock /\ CountsBits) /\ BitsKept
=============================================================================
