-------------------------------- MODULE Map --------------------------------
(***************************************************************************)
(* Map<Key, Val> of map.h: objects that share a MapData, a red-black tree   *)
(* with a count of the other owners, and take a copy before they change it. *)
(* An operation goes through the accesses to the count one by one: the test *)
(* in detach(), destroy() or clear(), the test and the decrement in         *)
(* RefCount::deref(), the copy, and the operation itself.                  *)
(*                                                                         *)
(* Whether the program uses its maps one operation after the other or from  *)
(* a thread per map is chosen at the start.                                *)
(***************************************************************************)
EXTENDS RBTreeOps, FiniteSets, SequencesExt

CONSTANTS Maps,             \* the Map objects
          MapKeys,          \* the keys they are used with
          Values,           \* the values, 0 is Val()
          MaxData,          \* bound: the MapData objects
          MaxSerial,        \* bound: the Map objects at a time without threads
          RefMod,           \* the count is unsigned: modulo 2^32 in the code
          Absent            \* in the dictionaries: there is no such object

MapAssumption == RBTreeAssumption /\ MapKeys \subseteq Keys /\ 0 \in Values

NoData == [tree |-> Empty, val |-> Nobody, count |-> 0, ref |-> 0, live |-> FALSE]
NewData == [NoData EXCEPT !.live = TRUE]
NoIter == [data |-> Null, key |-> Null]
NoOp == [name |-> "none", key |-> Null, val |-> 0, other |-> Null]

VARIABLES serial,           \* one operation after the other
          heap,             \* the MapData objects
          mRBtree,          \* Map::mRBtree, or Null: there is no such object
          pc, op,           \* the operation an object is in, and how far
          it,               \* an iterator into the object
          crossed,          \* the maps changed through an iterator that another one's tree has
          misused,          \* freed or foreign nodes were used: all is undefined
          dict              \* history: what the calls make of dictionaries

mapVars == <<serial, heap, mRBtree, pc, op, it, crossed, misused, dict>>

D == INSTANCE Dictionaries

MapInit == /\ serial \in BOOLEAN
           /\ heap = [d \in 1..MaxData |-> NoData]
           /\ mRBtree = [h \in Maps |-> Null]
           /\ pc = [h \in Maps |-> "idle"]
           /\ op = [h \in Maps |-> NoOp]
           /\ it = [h \in Maps |-> NoIter]
           /\ crossed = {} /\ misused = FALSE
           /\ D!Init

Data(h) == heap[mRBtree[h]]
Owners(d) == {h \in Maps : mRBtree[h] = d}
Contents(d) == [k \in Nodes(d.tree) |-> d.val[k]]

\* The addresses that new may return; an address somebody still holds is not
\* given out again, so that its use shows.
FreshData == {d \in 1..MaxData : /\ ~ heap[d].live
                                 /\ \A h \in Maps : mRBtree[h] # d /\ it[h].data # d}

NextData == CHOOSE d \in FreshData : \A e \in FreshData : d <= e

\* An object nobody else copies from or operates on.  Bound: when an iterator has
\* changed more than its own map, no more is called.
Free(h) == /\ ~ misused /\ crossed = {}
           /\ pc[h] = "idle"
           /\ \A g \in Maps : /\ serial => pc[g] = "idle"
                              /\ pc[g] # "idle" => op[g].other # h

Goto(h, l) == pc' = [pc EXCEPT ![h] = l]
Return(h) == Goto(h, "idle") /\ op' = [op EXCEPT ![h] = NoOp]

-----------------------------------------------------------------------------
(* Constructors and moves *)

MayConstruct(h) == /\ Free(h) /\ mRBtree[h] = Null
                   /\ serial => Cardinality({g \in Maps : mRBtree[g] # Null}) < MaxSerial

Construct(h) == /\ MayConstruct(h)
                /\ FreshData # {}
                /\ heap' = [heap EXCEPT ![NextData] = NewData]
                /\ mRBtree' = [mRBtree EXCEPT ![h] = NextData]
                /\ UNCHANGED <<serial, pc, op, it, crossed, misused>>

\* Faulty variant: the compiler's copy constructor.
CopyConstructPlain(g, h) == /\ MayConstruct(h)
                            /\ Free(g) /\ mRBtree[g] # Null
                            /\ mRBtree' = [mRBtree EXCEPT ![h] = mRBtree[g]]
                            /\ UNCHANGED <<serial, heap, pc, op, it, crossed, misused>>

CopyConstruct(g, h) == /\ MayConstruct(h)
                       /\ Free(g) /\ mRBtree[g] # Null
                       /\ mRBtree' = [mRBtree EXCEPT ![h] = mRBtree[g]]
                       /\ heap' = [heap EXCEPT ![mRBtree[g]].ref = @ + 1]
                       /\ UNCHANGED <<serial, pc, op, it, crossed, misused>>

\* The move constructor leaves g a new, empty tree; the move assignment swaps.
Move(g, h) == /\ Free(g) /\ mRBtree[g] # Null
              /\ Free(h) /\ g # h
              /\ IF mRBtree[h] = Null
                   THEN /\ MayConstruct(h) /\ FreshData # {}
                        /\ heap' = [heap EXCEPT ![NextData] = NewData]
                        /\ mRBtree' = [mRBtree EXCEPT ![h] = mRBtree[g], ![g] = NextData]
                   ELSE /\ mRBtree' = [mRBtree EXCEPT ![h] = mRBtree[g], ![g] = mRBtree[h]]
                        /\ UNCHANGED heap
              /\ it' = [it EXCEPT ![g] = NoIter, ![h] = NoIter]
              /\ UNCHANGED <<serial, pc, op, crossed, misused>>

-----------------------------------------------------------------------------
(* What the operations do to a tree of the object's own *)

With(d, k, v) == IF Search(d.tree, k) # Null THEN d
                 ELSE [d EXCEPT !.tree = Insert(@, k), !.val[k] = v, !.count = @ + 1]

Without(d, k) == IF Search(d.tree, k) = Null THEN d
                 ELSE [d EXCEPT !.tree = EraseNode(@, k), !.val[k] = 0, !.count = @ - 1]

\* insert() keeps the value of an existing key; index is m[k] = v.
Result(d, o) == CASE o.name = "insert" -> With(d, o.key, o.val)
                  [] o.name = "index" -> [With(d, o.key, 0) EXCEPT !.val[o.key] = o.val]
                  [] o.name = "erase" -> Without(d, o.key)
                  [] o.name = "find" -> d
                  [] o.name = "clear" -> [d EXCEPT !.tree = Clear(@), !.val = Nobody, !.count = 0]

\* The key at the iterator returned, or Null: insert() returns a null iterator for
\* a key that exists, erase() the next one, or null if there was none.
Returned(d, o) == LET there == Search(d.tree, o.key)
                  IN  CASE o.name = "insert" -> IF there = Null THEN o.key ELSE Null
                        [] o.name = "erase" -> IF there = Null THEN Null ELSE Neighbour(d.tree, "right", there)
                        [] o.name = "find" -> there

\* Iterators to nodes that are freed are no longer used.
Surviving(iters, id, keys) == [g \in Maps |-> IF iters[g].data = id /\ iters[g].key \in keys THEN NoIter
                                              ELSE iters[g]]
IterTo(id, k) == IF k = Null THEN NoIter ELSE [data |-> id, key |-> k]

\* Operation o of h on the tree id, in the heap hp.
Perform(h, o, id, hp) ==
    LET d == hp[id]
        gone == Nodes(d.tree) \ Nodes(Result(d, o).tree)
        left == Surviving(it, id, gone)
    IN  /\ heap' = [hp EXCEPT ![id] = Result(d, o)]
        /\ it' = IF o.name \in {"insert", "erase", "find"}
                   THEN [left EXCEPT ![h] = IterTo(id, Returned(d, o))] ELSE left

\* The end of destroy() for the last owner of a tree: nodes and MapData go.
Freed(id) == /\ heap' = [heap EXCEPT ![id] = NoData]
             /\ it' = Surviving(it, id, Keys)

\* The copy assignment goes on with the tree of the other object.
Take(h, g, hp) == /\ mRBtree' = [mRBtree EXCEPT ![h] = mRBtree[g]]
                  /\ heap' = [hp EXCEPT ![mRBtree[g]].ref = @ + 1]

-----------------------------------------------------------------------------
(* The way of an operation through the count *)

Operations == [name : {"insert", "index"}, key : MapKeys, val : Values, other : {Null}]
              \cup [name : {"erase", "find"}, key : MapKeys, val : {0}, other : {Null}]
              \cup [name : {"clear", "destroy", "eraseIter"}, key : {Null}, val : {0}, other : {Null}]
              \cup [name : {"assign"}, key : {Null}, val : {0}, other : Maps]

\* An iterator is used on its own map, while that is on the tree it points into:
\* also when the map has been copied since, and others are on that tree.
IterUsable(h) == serial /\ it[h] # NoIter /\ mRBtree[h] = it[h].data

\* Bound: with several threads the operations are those that concern the count.
MayCall(h, o) == /\ Free(h) /\ mRBtree[h] # Null
                 /\ serial \/ o.name \in {"find", "clear", "destroy", "assign"}
                 /\ o.name = "eraseIter" => IterUsable(h)
                 /\ o.name = "assign" => o.other # h /\ Free(o.other) /\ mRBtree[o.other] # Null

\* Faulty variant: a tree with one other owner is taken for the object's own.
SharedByMany(d) == d.ref > 1

\* The test of detach(), destroy() and clear().
IsShared(d) == d.ref > 0

\* A call on a MapData that was freed.
Uses(h) == misused' = ~ Data(h).live

CallShared(h, o) == /\ MayCall(h, o)
                    /\ IsShared(Data(h))
                    /\ op' = [op EXCEPT ![h] = o]
                    /\ Goto(h, "derefTest")
                    /\ Uses(h)
                    /\ UNCHANGED <<serial, heap, mRBtree, it, crossed>>

\* Not shared: nobody else can come to own the tree before the operation is done.
CallOwn(h, o) == /\ MayCall(h, o)
                 /\ ~ IsShared(Data(h))
                 /\ o.name \notin {"destroy", "assign", "eraseIter"}
                 /\ Perform(h, o, mRBtree[h], heap)
                 /\ Uses(h)
                 /\ UNCHANGED <<serial, mRBtree, pc, op, crossed>>

EraseOwn(h, o) == /\ MayCall(h, o)
                  /\ ~ IsShared(Data(h))
                  /\ o.name = "eraseIter"
                  /\ Perform(h, [o EXCEPT !.name = "erase", !.key = it[h].key], mRBtree[h], heap)
                  /\ Uses(h)
                  /\ UNCHANGED <<serial, mRBtree, pc, op, crossed>>

DestroyOwn(h, o) == /\ MayCall(h, o)
                    /\ ~ IsShared(Data(h))
                    /\ o.name = "destroy"
                    /\ Freed(mRBtree[h])
                    /\ mRBtree' = [mRBtree EXCEPT ![h] = Null]
                    /\ Uses(h)
                    /\ UNCHANGED <<serial, pc, op, crossed>>

AssignOwn(h, o) == /\ MayCall(h, o)
                   /\ ~ IsShared(Data(h))
                   /\ o.name = "assign"
                   /\ Take(h, o.other, [heap EXCEPT ![mRBtree[h]] = NoData])
                   /\ it' = Surviving(it, mRBtree[h], Keys)
                   /\ Uses(h)
                   /\ UNCHANGED <<serial, pc, op, crossed>>

\* RefCount::deref() tests ...
DerefTest(h) == /\ pc[h] = "derefTest"
                /\ Goto(h, IF Data(h).ref = 0 THEN "left" ELSE "deref")
                /\ UNCHANGED <<serial, heap, mRBtree, op, it, crossed, misused>>

\* ... and decrements, what may wrap.
Deref(h) == /\ pc[h] = "deref"
            /\ heap' = [heap EXCEPT ![mRBtree[h]].ref = (@ - 1) % RefMod]
            /\ Goto(h, "left")
            /\ UNCHANGED <<serial, mRBtree, op, it, crossed, misused>>

Left(h, names) == pc[h] = "left" /\ op[h].name \in names /\ ~ misused

DestroyShared(h) == /\ Left(h, {"destroy"})
                    /\ mRBtree' = [mRBtree EXCEPT ![h] = Null]
                    /\ Return(h)
                    /\ UNCHANGED <<serial, heap, it, crossed, misused>>

AssignShared(h) == /\ Left(h, {"assign"})
                   /\ Take(h, op[h].other, heap)
                   /\ Return(h)
                   /\ UNCHANGED <<serial, it, crossed, misused>>

ClearShared(h) == /\ Left(h, {"clear"})
                  /\ FreshData # {}
                  /\ heap' = [heap EXCEPT ![NextData] = NewData]
                  /\ mRBtree' = [mRBtree EXCEPT ![h] = NextData]
                  /\ Return(h)
                  /\ UNCHANGED <<serial, it, crossed, misused>>

\* The loop of detach_helper(): the nodes are inserted in order.
CopyOf(d) == [d EXCEPT !.tree = FoldLeft(Insert, Empty, Foreach(@, {}, {}).visited),
                       !.count = Cardinality(Nodes(d.tree)), !.ref = 0, !.live = TRUE]

\* The copy, and the operation on it.  By now the other owners may have freed or
\* changed the tree.
Detach(h) == /\ Left(h, {"insert", "index", "erase", "find"})
             /\ FreshData # {}
             /\ mRBtree' = [mRBtree EXCEPT ![h] = NextData]
             /\ Perform(h, op[h], NextData, [heap EXCEPT ![NextData] = CopyOf(Data(h))])
             /\ misused' = ~ Data(h).live
             /\ Return(h)
             /\ UNCHANGED <<serial, crossed>>

\* erase(iterator) after detach(): the node is taken out of the tree it is in,
\* that of the others, but counted in the new one.  With a red leaf that is all;
\* else the pointers of the two trees get mixed.
EraseDetached(h) ==
    /\ Left(h, {"eraseIter"}) /\ FreshData # {}
    /\ LET id == it[h].data
           k == it[h].key
           t == heap[id].tree
           leaf == k \in t.red /\ t.left[k] = Null /\ t.right[k] = Null
       IN  /\ heap' = [heap EXCEPT ![NextData] = [CopyOf(Data(h)) EXCEPT !.count = @ - 1],
                                   ![id].tree = IF leaf THEN EraseNode(@, k) ELSE @]
           /\ it' = [Surviving(it, id, {k}) EXCEPT ![h] = IterTo(id, Neighbour(t, "right", k))]
           /\ misused' = ~ leaf
    /\ crossed' = Owners(mRBtree[h])
    /\ mRBtree' = [mRBtree EXCEPT ![h] = NextData]
    /\ Return(h)
    /\ UNCHANGED serial

\* it.value() = v, on the node, whoever is on its tree.
WriteIter(h, v) == /\ Free(h) /\ mRBtree[h] # Null /\ IterUsable(h)
                   /\ heap' = [heap EXCEPT ![it[h].data].val[it[h].key] = v]
                   /\ crossed' = Owners(mRBtree[h]) \ {h}
                   /\ UNCHANGED <<serial, mRBtree, pc, op, it, misused>>

-----------------------------------------------------------------------------
Call(h, o) == CallShared(h, o) \/ CallOwn(h, o) \/ EraseOwn(h, o) \/ DestroyOwn(h, o) \/ AssignOwn(h, o)

Continue(h) == \/ DerefTest(h) \/ Deref(h) \/ DestroyShared(h) \/ AssignShared(h)
               \/ ClearShared(h) \/ Detach(h) \/ EraseDetached(h)

\* What operation o of h does to its dictionary.  The dictionaries are looked at
\* when one operation is made after the other.
DictDoes(h, o) == CASE ~ serial -> D!Look
                    [] o.name = "insert" -> D!Insert(h, o.key, o.val)
                    [] o.name = "index" -> D!Put(h, o.key, o.val)
                    [] o.name = "erase" -> D!Erase(h, o.key)
                    [] o.name = "eraseIter" -> D!Erase(h, it[h].key)
                    [] o.name = "find" -> D!Look
                    [] o.name = "clear" -> D!Clear(h)
                    [] o.name = "destroy" -> D!Drop(h)
                    [] o.name = "assign" -> D!Copy(o.other, h)

MapNext == \E h \in Maps :
              \/ Construct(h) /\ IF serial THEN D!New(h) ELSE D!Look
              \/ \E g \in Maps :
                    \/ CopyConstruct(g, h) /\ IF serial THEN D!Copy(g, h) ELSE D!Look
                    \/ Move(g, h) /\ IF serial THEN D!Move(g, h) ELSE D!Look
              \/ \E o \in Operations : Call(h, o) /\ IF pc'[h] = "idle" THEN DictDoes(h, o) ELSE D!Look
              \/ \E v \in Values : WriteIter(h, v) /\ D!Put(h, it[h].key, v)
              \/ Continue(h) /\ IF pc'[h] = "idle" THEN DictDoes(h, op[h]) ELSE D!Look

MapSpec == MapInit /\ [][MapNext]_mapVars

-----------------------------------------------------------------------------
MapTypeOK == /\ serial \in BOOLEAN /\ crossed \subseteq Maps /\ misused \in BOOLEAN
             /\ mRBtree \in [Maps -> 0..MaxData]
             /\ \A d \in 1..MaxData : /\ heap[d].count \in 0..MaxKey
                                      /\ heap[d].ref \in 0..RefMod - 1
                                      /\ heap[d].val \in [Keys -> Values]

\* Every tree is a red-black tree, and node_count, all that size() looks at, is
\* the number of its nodes (until an iterator has been used across a copy).
TreesSound == ~ misused /\ crossed = {} =>
    \A d \in 1..MaxData : heap[d].live => /\ RedBlack(heap[d].tree)
                                          /\ heap[d].count = Cardinality(Nodes(heap[d].tree))

\* With operations one after the other the count is the number of the other
\* owners, and a tree without an owner has been freed.
RefsCountOthers == serial /\ (\A h \in Maps : pc[h] = "idle") =>
    \A d \in 1..MaxData : IF heap[d].live THEN heap[d].ref = Cardinality(Owners(d)) - 1
                          ELSE Owners(d) = {}

\* From several threads too the count is never too small, so that nobody who
\* still owns a tree finds it freed (it may be leaked, or freed under the copy of
\* a detach() that has already left).
OwnersKeepTree == ~ misused => \A h \in Maps :
    mRBtree[h] # Null /\ pc[h] # "left" => Data(h).live

\* Freed memory is read by nobody when operations do not overlap, and no foreign
\* node is used but by erase(iterator) of a map that has been copied since.
SerialIsSafe == serial /\ crossed = {} => ~ misused

\* Shared trees are counted and kept.
MapsSound == MapTypeOK /\ TreesSound /\ RefsCountOthers /\ OwnersKeepTree /\ SerialIsSafe

\* The entries of a Map.
Dict(h) == IF mRBtree[h] = Null THEN Absent ELSE Contents(Data(h))

\* Sharing is invisible when operations do not overlap: each Map is the dictionary
\* that the calls made on it give, from the moment they end, whatever is done to
\* the others.  insert() keeps an existing value, erase() takes out its key alone.
\* The exception are the maps in crossed: erase(iterator) and a write through it,
\* with an iterator got before its map was copied, change the tree of the others.
MapsAreDictionaries == serial /\ ~ misused => \A h \in Maps \ crossed : Dict(h) = dict[h]
=============================================================================
