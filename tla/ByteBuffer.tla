----------------------------- MODULE ByteBuffer -----------------------------
(***************************************************************************)
(* ByteBuffer of buffer.cpp: a resizable array of bytes in a SharedBuffer   *)
(* that copies share until one of them changes.  The blocks hold their      *)
(* bytes here, so that a stale, freed or never written byte that reaches a  *)
(* reader is seen; the interleavings of threads on the count are the        *)
(* subject of SharedBuffer, and an operation is one step.                  *)
(***************************************************************************)
EXTENDS Blocks

CONSTANTS Objects,      \* the ByteBuffer objects
          Items,        \* the byte strings the program writes, none empty
          Default,      \* DEFAULT_BUFFER_SIZE, 256 in the code
          MaxSize,      \* bound: the bytes in a buffer
          MaxDropped    \* bound: the references to a block lost in assignments

ASSUME ByteBufferAssumption == /\ IsFiniteSet(Objects) /\ None \notin Objects
                               /\ Items \subseteq Seq(Nat) \ {<<>>}
                               /\ Default \in Nat \ {0}
                               /\ MaxSize \in Nat /\ MaxDropped \in Nat

NoObject == [buf |-> None, size |-> 0, cap |-> 0, shrunk |-> FALSE]

VARIABLES heap,         \* the blocks: their bytes and their mRefs
          obj,          \* the objects: mBuffer, mDataSize, mCapacity; shrunk
                        \* marks a reserve() below the size
          dropped,      \* the references lost by operator=
          returned,     \* what the last call returned, Junk for nothing
          misused       \* bytes of a freed block were copied, or bytes written
                        \* where no block is: what follows is not the program's

byteVars == <<heap, obj, dropped, returned, misused>>

EmptyObject == [NoObject EXCEPT !.buf = Empty]

ByteInit == /\ heap = [b \in 0..MaxBlocks |->
                         IF b = Empty THEN [bytes |-> <<0>>, refs |-> 1] ELSE NoBlock]
            /\ obj = [h \in Objects |-> NoObject]
            /\ dropped = [b \in 0..MaxBlocks |-> 0]
            /\ returned = Junk
            /\ misused = FALSE

Alive(h) == obj[h].buf # None

\* What the owner of h may read; past the end of the block there is anything.
Contents(h) == LET block == heap[obj[h].buf].bytes
               IN  [i \in 1..obj[h].size |-> IF i <= Len(block) THEN block[i] ELSE Junk]

-----------------------------------------------------------------------------
(* Sizes, and the operations on bytes *)

Calculate(n) == IF n >= Default THEN (3 * n) \div 2 ELSE Default

\* The block with room for n bytes that belongs to object o alone.
Room(hp, o, n) == IF o.cap < n THEN EditResize(hp, o.buf, Calculate(n)) ELSE Edit(hp, o.buf)

Holding(o, hp, b, n) == [o EXCEPT !.buf = b, !.cap = Len(hp[b].bytes), !.size = n, !.shrunk = FALSE]

\* The results of set(): data points into block src, or nowhere we know of.
SetBytes(hp, o, data, offset, src) ==
    LET at == IF o.size >= offset THEN offset ELSE 0
        n == Len(data) + at
        Result(r) ==
            IF r.block = None THEN [heap |-> r.heap, obj |-> o, ret |-> 0, bad |-> FALSE]
            ELSE LET dead == src # None /\ r.heap[src].refs = 0
                     bytes == IF dead THEN [i \in 1..Len(data) |-> Junk] ELSE data
                 IN  [heap |-> Put(r.heap, r.block, at, bytes),
                      obj |-> Holding(o, r.heap, r.block, n),
                      ret |-> Len(data), bad |-> dead]
    IN  IF data = <<>> THEN {[heap |-> hp, obj |-> o, ret |-> 0, bad |-> FALSE]}
        ELSE {Result(r) : r \in Room(hp, o, n)}

\* Object h becomes what the outcome r says.
Become(h, r) == /\ heap' = r.heap
                /\ obj' = [obj EXCEPT ![h] = r.obj]
                /\ returned' = r.ret
                /\ misused' = (misused \/ r.bad)
                /\ UNCHANGED dropped

\* The same for the calls that return nothing.
BecomeObject(h, hp, o) == Become(h, [heap |-> hp, obj |-> o, ret |-> Junk, bad |-> FALSE])

-----------------------------------------------------------------------------
(* Constructors, destructor, assignments *)

Construct(h) == /\ ~ Alive(h)
                /\ BecomeObject(h, Acquire(heap, Empty), EmptyObject)

\* A buffer of n bytes, none of them written and none of them counted.
ConstructSize(h, n) ==
    /\ ~ Alive(h)
    /\ \E r \in Instead(Acquire(heap, Empty), Empty, Resized(<<>>, n, Junk)) :
         BecomeObject(h, r.heap, IF r.block = None THEN EmptyObject
                                 ELSE Holding(EmptyObject, r.heap, r.block, 0))

ConstructChars(h, data) ==
    /\ ~ Alive(h)
    /\ \E r \in SetBytes(Acquire(heap, Empty), EmptyObject, data, 0, None) : Become(h, r)

\* From uint8_t: a block of just this size.  allocBuffer() tests the data() of
\* the block, which is not null when alloc() has returned nullptr, and clears the
\* bytes at that address.
ConstructBytes(h, data) ==
    /\ ~ Alive(h)
    /\ \E r \in Alloc(heap, Resized(<<>>, Len(data), 0)) :
         IF r.block = None
         THEN Become(h, [heap |-> heap, obj |-> NoObject, ret |-> Junk, bad |-> TRUE])
         ELSE \E s \in SetBytes(r.heap, Holding(NoObject, r.heap, r.block, 0), data, 0, None) :
                 Become(h, s)

Copy(g, h) == /\ Alive(g) /\ ~ Alive(h)
              /\ BecomeObject(h, Acquire(heap, obj[g].buf), obj[g])

\* The moved-from object is left with the empty block.
Move(g, h) == /\ Alive(g) /\ ~ Alive(h)
              /\ heap' = Acquire(heap, Empty)
              /\ obj' = [obj EXCEPT ![h] = obj[g], ![g] = EmptyObject]
              /\ returned' = Junk
              /\ UNCHANGED <<dropped, misused>>

Destroy(h) == Alive(h) /\ BecomeObject(h, Release(heap, obj[h].buf), NoObject)

\* operator=(const ByteBuffer &): the block h had keeps its reference.
Assign(g, h) == /\ Alive(g) /\ Alive(h) /\ g # h
                /\ dropped[obj[h].buf] < MaxDropped
                /\ heap' = Acquire(heap, obj[g].buf)
                /\ obj' = [obj EXCEPT ![h] = obj[g]]
                /\ dropped' = [dropped EXCEPT ![obj[h].buf] = @ + 1]
                /\ returned' = Junk
                /\ UNCHANGED misused

MoveAssign(g, h) == /\ Alive(g) /\ Alive(h) /\ g # h
                    /\ obj' = [obj EXCEPT ![h] = obj[g], ![g] = obj[h]]
                    /\ returned' = Junk
                    /\ UNCHANGED <<heap, dropped, misused>>

-----------------------------------------------------------------------------
(* Changes *)

Fits(h, data) == Len(data) + obj[h].size <= MaxSize

Set(h, data, offset) == /\ Alive(h) /\ Fits(h, data)
                        /\ \E r \in SetBytes(heap, obj[h], data, offset, None) : Become(h, r)

\* append() of another object, or of the object itself.
AppendObject(h, g) ==
    /\ Alive(h) /\ Alive(g) /\ Fits(h, Contents(g))
    /\ \E r \in SetBytes(heap, obj[h], Contents(g), obj[h].size, obj[g].buf) : Become(h, r)

\* The bytes behind the offset are kept in memory from malloc(): when it fails
\* the buffer has its new size already.
Insert(h, data, offset) ==
    /\ Alive(h) /\ Fits(h, data) /\ offset <= obj[h].size
    /\ \E r \in Room(heap, obj[h], Len(data) + obj[h].size) :
         LET n == Len(data) + obj[h].size
             tail == SubSeq(r.heap[r.block].bytes, offset + 1, obj[h].size)
             longer == Holding(obj[h], r.heap, r.block, n)
             Ends(hp, ret) == Become(h, [heap |-> hp, obj |-> longer, ret |-> ret, bad |-> FALSE])
         IN  IF r.block = None
             THEN Become(h, [heap |-> r.heap, obj |-> obj[h], ret |-> 0, bad |-> FALSE])
             ELSE \/ Ends(Put(r.heap, r.block, offset, data \o tail), Len(data))
                  \/ tail # <<>> /\ Ends(r.heap, 0)

\* Below the size, too: then mDataSize is more than there is.
Reserve(h, n) ==
    /\ Alive(h)
    /\ \E r \in EditResize(heap, obj[h].buf, n) :
         BecomeObject(h, r.heap,
                      IF r.block = None THEN obj[h]
                      ELSE [Holding(obj[h], r.heap, r.block, obj[h].size)
                            EXCEPT !.shrunk = n < obj[h].size])

\* clear(): detach() takes a copy of a shared block; mCapacity stays.
Clear(h) ==
    /\ Alive(h)
    /\ \E r \in Edit(heap, obj[h].buf) :
         BecomeObject(h, r.heap, [obj[h] EXCEPT !.buf = IF r.block = None THEN @ ELSE r.block,
                                                !.size = 0, !.shrunk = FALSE])

\* resize() counts bytes that are in the block, whoever wrote them.
Resize(h, n) == /\ Alive(h)
                /\ BecomeObject(h, heap, [obj[h] EXCEPT !.size = IF n > obj[h].cap THEN obj[h].cap ELSE n,
                                                        !.shrunk = FALSE])

\* obj[i] = byte: operator[] gives a reference into the block as it is, shared or
\* not.
WriteElement(h, i, byte) == /\ Alive(h) /\ i <= obj[h].cap
                            /\ BecomeObject(h, Put(heap, obj[h].buf, i - 1, <<byte>>), obj[h])

-----------------------------------------------------------------------------
(* The calls that change h only, the write through operator[], and the calls *)
(* that change two objects                                                   *)

Operate(h) ==
    /\ ~ misused
    /\ \/ Construct(h) \/ Destroy(h) \/ Clear(h)
       \/ \E n \in 1..MaxSize : ConstructSize(h, n) \/ Reserve(h, n)
       \/ \E n \in 0..MaxSize : Resize(h, n)
       \/ \E data \in Items : ConstructChars(h, data) \/ ConstructBytes(h, data)
       \/ \E data \in Items, at \in 0..MaxSize : Set(h, data, at) \/ Insert(h, data, at)
       \/ \E g \in Objects : Copy(g, h) \/ Assign(g, h) \/ AppendObject(h, g)

OperateElement(h, i, byte) == ~ misused /\ WriteElement(h, i, byte)

OperateBoth(g, h) == ~ misused /\ (Move(g, h) \/ MoveAssign(g, h))

-----------------------------------------------------------------------------
(* Properties *)

ByteTypeOK ==
    /\ \A b \in 0..MaxBlocks : /\ heap[b].refs \in Nat
                               /\ heap[b].refs = 0 => heap[b].bytes = <<>>
    /\ \A h \in Objects : obj[h].buf \in {None} \cup 0..MaxBlocks /\ obj[h].size \in Nat

\* The bytes an object counts are inside its capacity, and the capacity inside
\* the block, whatever was shared, moved, cleared or reallocated in between;
\* only a reserve() below the size breaks it.
SizesFit == \A h \in Objects : Alive(h) =>
                /\ ~ obj[h].shrunk => obj[h].size <= obj[h].cap
                /\ obj[h].cap <= Len(heap[obj[h].buf].bytes)

\* A block counts the objects that point at it, so that it is freed with the
\* last of them and not before; the references that operator= drops without
\* releasing them are the only ones nobody gives back.
RefsCountOwners ==
    \A b \in 0..MaxBlocks :
        heap[b].refs = Cardinality({h \in Objects : obj[h].buf = b}) + dropped[b]
                       + (IF b = Empty THEN 1 ELSE 0)

OthersKeepStep ==
    LET changed == {h \in Objects : Alive(h) /\ Alive(h)' /\ Contents(h)' # Contents(h)}
    IN  \/ Cardinality(changed) <= 1
        \/ \E g, h \in Objects : /\ changed = {g, h}
                                 /\ Contents(g)' = Contents(h)
                                 /\ Contents(h)' = Contents(g)
        \/ \E h \in Objects, i \in 1..MaxSize, data \in Items :
               /\ WriteElement(h, i, data[1])
               /\ \A g \in changed : obj[g].buf = obj[h].buf

\* Copy-on-write: a call changes the bytes of the object it is made on and of
\* no copy; a move assignment swaps those of two.  The exception is operator[]
\* (buffer.cpp:120), which does not detach: a byte written through it changes in
\* all the copies that are on the block, and in no other object.
OthersKeep == [][OthersKeepStep]_byteVars

FailureLosesNothingStep ==
    returned' = 0 => \A h \in Objects : Alive(h) /\ Alive(h)' /\ ~ obj[h].shrunk =>
         /\ obj'[h].size >= obj[h].size
         /\ SubSeq(Contents(h)', 1, obj[h].size) = Contents(h)

\* A call that returns 0 has lost no byte of any object (that counts no more
\* than it has).
FailureLosesNothing == [][FailureLosesNothingStep]_byteVars
=============================================================================
