------------------------------ MODULE HashMap ------------------------------
(***************************************************************************)
(* HashMap<Key, Val> of hash.h over the HashData of hash.cpp: objects that  *)
(* share their buckets and take a copy before they change them.  Every      *)
(* empty object starts on the static shared_null, whose count begins at the *)
(* largest number and is changed by copies and destructors like any other,  *)
(* but not by the constructors.  erase() does not compile and has no model. *)
(***************************************************************************)
EXTENDS Integers, Sequences, FiniteSets, SequencesExt

CONSTANTS HashMaps,         \* the objects
          HashKeys,         \* numbers, as their order is one to make lists in
          HashValues,       \* 0 is Val()
          HashOf,           \* key.hash()
          MinBits,          \* minNumBits, 4 in the code
          CountMod,         \* the count is unsigned: modulo 2^32 in the code
          MaxHashData,      \* bound: the HashData objects
          Absent            \* in the dictionaries: there is no such object

Null == 0               \* shared_null
Nothing == -1           \* there is no such object

VARIABLES heap,         \* the HashData: buckets of nodes, numBits, size, ref
          data,         \* HashMap::data
          misused,      \* memory was used that is not there: all is undefined
          dict          \* history: what the calls make of dictionaries

hashVars == <<heap, data, misused, dict>>

H == INSTANCE Dictionaries WITH Maps <- HashMaps

NoData == [buckets |-> <<>>, bits |-> MinBits, size |-> 0, ref |-> 0, live |-> FALSE]

HashInit == /\ heap = [d \in 0..MaxHashData |->
                         IF d = Null THEN [NoData EXCEPT !.ref = CountMod - 1, !.live = TRUE] ELSE NoData]
            /\ data = [h \in HashMaps |-> Nothing]
            /\ misused = FALSE
            /\ H!Init

-----------------------------------------------------------------------------
(* Sizes and buckets *)

PrimeDeltas == <<0, 0, 1, 3, 1, 5, 3, 3>>
PrimeForNumBits(bits) == 2 ^ bits + PrimeDeltas[bits + 1]

CountBits(hint) == LET log == CHOOSE b \in 0..hint : 2 ^ b <= hint /\ hint < 2 ^ (b + 1)
                   IN  IF PrimeForNumBits(log) < hint THEN log + 1 ELSE log

NumBuckets(b) == Len(b.buckets)
Buckets(n) == [i \in 1..n |-> <<>>]
Bucket(k, n) == (HashOf[k] % n) + 1
Node(k, v) == [key |-> k, val |-> v]
NodesOf(b) == UNION {ToSet(b.buckets[i]) : i \in DOMAIN b.buckets}
KeysOf(b) == {node.key : node \in NodesOf(b)}

\* Faulty variant: the nodes stay in the buckets they had.
RehashedInPlace(b, bits) ==
    [b EXCEPT !.bits = bits,
              !.buckets = [i \in 1..PrimeForNumBits(bits) |-> IF i \in DOMAIN @ THEN @[i] ELSE <<>>]]

\* The nodes go bucket after bucket to the ends of their new buckets.
Rehashed(b, bits) ==
    LET n == PrimeForNumBits(bits)
    IN  [b EXCEPT !.bits = bits,
                  !.buckets = [i \in 1..n |-> SelectSeq(FlattenSeq(@), LAMBDA x : Bucket(x.key, n) = i)]]

Rehash(b, bits) == IF bits = b.bits THEN b ELSE Rehashed(b, bits)

\* rehash() for a number of entries: it shrinks to half at most.
RehashFor(b, n) ==
    LET least == IF CountBits(n) < MinBits THEN MinBits ELSE CountBits(n)
    IN  Rehash(b, CHOOSE bits \in least..(least + b.bits) :
                      /\ PrimeForNumBits(bits) >= NumBuckets(b) \div 2
                      /\ \A less \in least..(bits - 1) : PrimeForNumBits(less) < NumBuckets(b) \div 2)

Grown(b) == IF b.size >= NumBuckets(b) THEN Rehash(b, b.bits + 1) ELSE b

Inserted(b, k, v) ==
    IF k \in KeysOf(b) THEN b
    ELSE LET g == Grown(b)
         IN  [g EXCEPT !.buckets[Bucket(k, NumBuckets(g))] = Append(@, Node(k, v)), !.size = @ + 1]

\* at(k) = v
Assigned(b, k, v) ==
    LET there == Inserted(b, k, 0)
    IN  [there EXCEPT !.buckets[Bucket(k, NumBuckets(there))] =
           [i \in DOMAIN @ |-> IF @[i].key = k THEN Node(k, v) ELSE @[i]]]

-----------------------------------------------------------------------------
(* The count: each gives the heap, the data and whether memory was misused  *)

Outcome(hp, d, bad) == [heap |-> hp, data |-> d, bad |-> bad]
Counted(hp, d) == [hp EXCEPT ![d].ref = (@ + 1) % CountMod]

\* deref() stays at 0.  shared_null cannot be deleted.
Released(hp, d) ==
    LET last == hp[d].ref <= 1
    IN  IF last /\ d # Null THEN [heap |-> [hp EXCEPT ![d] = NoData], bad |-> ~ hp[d].live]
        ELSE [heap |-> [hp EXCEPT ![d].ref = IF @ = 0 THEN 0 ELSE @ - 1], bad |-> last]

Fresh == CHOOSE d \in 1..MaxHashData : ~ heap[d].live

\* detach_helper(): the buckets of a copy of shared_null are of the least
\* number, however many shared_null has.
DetachHelper(hp, d) ==
    LET n == IF d = Null THEN PrimeForNumBits(MinBits) ELSE NumBuckets(hp[d])
        kept == IF d = Null THEN Outcome(hp, Null, FALSE) ELSE Released(hp, d)
        copy == [hp[d] EXCEPT !.ref = 1, !.live = TRUE,
                              !.bits = IF d = Null THEN MinBits ELSE @,
                              !.buckets = IF d = Null THEN Buckets(n) ELSE @]
    IN  Outcome([kept.heap EXCEPT ![Fresh] = copy], Fresh, kept.bad \/ NumBuckets(hp[d]) > n)

\* Faulty variant: only shared_null is never written to.
DetachedNullOnly(hp, d) == IF d = Null THEN DetachHelper(hp, d) ELSE Outcome(hp, d, ~ hp[d].live)

Detached(hp, d) == IF hp[d].ref > 1 THEN DetachHelper(hp, d) ELSE Outcome(hp, d, ~ hp[d].live)

Alive(h) == data[h] # Nothing
Result(h, hp, d, bad) == heap' = hp /\ data' = [data EXCEPT ![h] = d] /\ misused' = bad

\* A change of the object's own HashData, and one that makes a node:
\* shared_null makes them of nodeSize 0.
Change(h, F(_)) == LET o == Detached(heap, data[h])
                   IN  Result(h, [o.heap EXCEPT ![o.data] = F(@)], o.data, o.bad)

MakeNode(h, F(_)) == LET o == Detached(heap, data[h])
                     IN  Result(h, IF o.data = Null THEN o.heap ELSE [o.heap EXCEPT ![o.data] = F(@)],
                                o.data, o.bad \/ o.data = Null)

-----------------------------------------------------------------------------
(* Constructors, destructor, assignments *)

Construct(h) == ~ Alive(h) /\ Result(h, heap, Null, FALSE)

\* From a list: shared_null itself is rehashed first.
ConstructList(h, keys, v) ==
    /\ ~ Alive(h)
    /\ LET n == IF keys = <<>> THEN 1 ELSE Len(keys)
           hp == [heap EXCEPT ![Null] = RehashFor(@, n)]
           o == Detached(hp, Null)
           all == FoldLeft(LAMBDA b, k : Inserted(b, k, v), o.heap[o.data], keys)
       IN  IF keys = <<>> THEN Result(h, hp, Null, FALSE)
           ELSE IF o.data = Null THEN Result(h, hp, Null, TRUE)
           ELSE Result(h, [o.heap EXCEPT ![o.data] = all], o.data, o.bad)

Copy(g, h) == Alive(g) /\ ~ Alive(h) /\ Result(h, Counted(heap, data[g]), data[g], FALSE)

Assign(g, h) == /\ Alive(g) /\ Alive(h) /\ data[g] # data[h]
                /\ LET r == Released(Counted(heap, data[g]), data[h])
                   IN  Result(h, r.heap, data[g], r.bad)

Move(g, h) == /\ Alive(g) /\ ~ Alive(h)
              /\ data' = [data EXCEPT ![h] = data[g], ![g] = Null]
              /\ UNCHANGED <<heap, misused>>

\* operator=(HashMap &&) swaps.
MoveAssign(g, h) == /\ Alive(g) /\ Alive(h) /\ g # h
                    /\ data' = [data EXCEPT ![h] = data[g], ![g] = data[h]]
                    /\ UNCHANGED <<heap, misused>>

Leave(h, d) == LET r == Released(heap, data[h]) IN Result(h, r.heap, d, r.bad)

Destroy(h) == Alive(h) /\ Leave(h, Nothing)

\* clear(): the object is swapped with an empty one, which is destroyed.
Clear(h) == Alive(h) /\ Leave(h, Null)

-----------------------------------------------------------------------------
Insert(h, k, v) == Alive(h) /\ MakeNode(h, LAMBDA b : Inserted(b, k, v))
At(h, k, v) == Alive(h) /\ MakeNode(h, LAMBDA b : Assigned(b, k, v))
Reserve(h, n) == Alive(h) /\ Change(h, LAMBDA b : RehashFor(b, n))

\* begin(), end() and find() of an object that is not const.
Look(h) == Alive(h) /\ Change(h, LAMBDA b : b)

\* The sizes that are reserved, and the lists of keys that are given.
Reserved == {1, Cardinality(HashKeys)}
Lists == {<<>>, SetToSortSeq(HashKeys, <)}

HashNext ==
    /\ ~ misused
    /\ \E h \in HashMaps :
          \/ Construct(h) /\ H!New(h)
          \/ Destroy(h) /\ H!Drop(h)
          \/ Clear(h) /\ H!Clear(h)
          \/ Look(h) /\ H!Look
          \/ \E n \in Reserved : Reserve(h, n) /\ H!Look
          \/ \E k \in HashKeys, v \in HashValues :
                \/ Insert(h, k, v) /\ H!Insert(h, k, v)
                \/ At(h, k, v) /\ H!Put(h, k, v)
          \/ \E keys \in Lists : ConstructList(h, keys, 0) /\ H!NewWith(h, ToSet(keys), 0)
          \/ \E g \in HashMaps :
                \/ Copy(g, h) /\ H!Copy(g, h)
                \/ Assign(g, h) /\ H!Copy(g, h)
                \/ Move(g, h) /\ H!Move(g, h)
                \/ MoveAssign(g, h) /\ H!Move(g, h)

HashSpec == HashInit /\ [][HashNext]_hashVars

-----------------------------------------------------------------------------
(* Iterators: the node at a place, bucket and position in it; the end        *)

End == [bucket |-> 0, at |-> 0]
Astray == [bucket |-> -1, at |-> 0]
Place(i, j) == [bucket |-> i, at |-> j]

FirstNode(b) == LET some == {i \in DOMAIN b.buckets : b.buckets[i] # <<>>}
                IN  IF some = {} THEN End ELSE Place(CHOOSE i \in some : \A j \in some : i <= j, 1)

\* nextNode() looks into the bucket after the node's.  If that is empty it
\* increments the pointer and not the bucket, and unless it was the last one
\* returns an address inside the HashData.
NextNode(b, p) ==
    LET start == p.bucket + 1
    IN  CASE p.at < Len(b.buckets[p.bucket]) -> Place(p.bucket, p.at + 1)
          [] p.at = Len(b.buckets[p.bucket]) /\ start > NumBuckets(b) -> End
          [] OTHER -> IF b.buckets[start] # <<>> THEN Place(start, 1)
                      ELSE IF start = NumBuckets(b) THEN End ELSE Astray

\* previousNode(): the one before in the bucket, or the last of the next lower
\* bucket that has any.
PreviousNode(b, p) ==
    LET lower == {i \in DOMAIN b.buckets : b.buckets[i] # <<>> /\ (p = End \/ i < p.bucket)}
    IN  IF p.at > 1 THEN Place(p.bucket, p.at - 1)
        ELSE IF lower = {} THEN End
        ELSE LET i == CHOOSE i \in lower : \A j \in lower : j <= i IN Place(i, Len(b.buckets[i]))

\* The places a walk comes to, up to the end.
Walk(b, from, Step(_)) ==
    LET path[n \in 0..b.size] == IF n = 0 THEN <<from>>
                                 ELSE LET before == path[n - 1] IN
                                      IF Last(before) \in {End, Astray} THEN before
                                      ELSE Append(before, Step(Last(before)))
    IN  path[b.size]

Shown(b, walk) == {b.buckets[p.bucket][p.at] : p \in ToSet(walk) \ {End, Astray}}

-----------------------------------------------------------------------------
\* Through every rehash a node is in the bucket its hash says, each key has one
\* node, and the size and the number of buckets are what they should be.
BucketsSound ==
    \A d \in 1..MaxHashData : heap[d].live =>
        LET b == heap[d]
        IN  /\ NumBuckets(b) = PrimeForNumBits(b.bits)
            /\ \A i \in DOMAIN b.buckets : \A x \in ToSet(b.buckets[i]) : Bucket(x.key, NumBuckets(b)) = i
            /\ b.size = Cardinality(KeysOf(b)) /\ b.size = Len(FlattenSeq(b.buckets))

\* The count of a HashData is the number of objects on it, so that none is freed
\* while it is used and none stays.
DataCountsOwners ==
    ~ misused => \A d \in 1..MaxHashData :
        heap[d].ref = Cardinality({h \in HashMaps : data[h] = d}) /\ (heap[d].live <=> heap[d].ref > 0)

\* The objects do not go wrong unless shared_null has: its count has wrapped
\* around (a copy of an empty object is enough), or a list has given it buckets.
MisusedOnlyByNull == misused => heap[Null].ref <= 1 \/ heap[Null].buckets # <<>>

\* A walk with ++ that reaches the end has shown every entry, and one with --
\* from the end shows every entry; ++ may go astray, but it passes nothing over.
WalksShowAll ==
    ~ misused => \A h \in HashMaps : Alive(h) =>
        LET b == heap[data[h]]
            forward == Walk(b, FirstNode(b), LAMBDA p : NextNode(b, p))
        IN  /\ Last(forward) = End => Shown(b, forward) = NodesOf(b)
            /\ Shown(b, Walk(b, PreviousNode(b, End), LAMBDA p : PreviousNode(b, p))) = NodesOf(b)

\* The buckets, the counts and the walks fit, until shared_null has gone wrong.
HashMapsSound == BucketsSound /\ DataCountsOwners /\ MisusedOnlyByNull /\ WalksShowAll

\* The entries of an object.
Dict(h) == IF ~ Alive(h) THEN Absent
           ELSE LET nodes == NodesOf(heap[data[h]])
                IN  [k \in KeysOf(heap[data[h]]) |-> (CHOOSE x \in nodes : x.key = k).val]

\* Sharing is invisible, until memory is misused: each object is the dictionary
\* that the calls made on it give, whatever is done to the others.  insert() keeps
\* an existing value, at() gives the place of it; reserve(), begin() and find(),
\* which take a copy of shared data and may rehash it, change nothing.
HashMapsAreDictionaries == ~ misused => \A h \in HashMaps : Dict(h) = dict[h]
=============================================================================
