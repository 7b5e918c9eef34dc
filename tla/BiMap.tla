------------------------------- MODULE BiMap -------------------------------
(***************************************************************************)
(* BiMap<K, V> of bimap.hpp: m_storage, a std::map from keys to values, and *)
(* m_indexMap from the hashes of the values to pointers into the keys of    *)
(* m_storage.  The two have to be changed together, and the pointers must   *)
(* not outlive the nodes of m_storage.  iterator::update(key) does not      *)
(* compile and has no model.                                               *)
(***************************************************************************)
EXTENDS Integers, FiniteSets

CONSTANTS BiMaps,           \* the objects
          BiKeys, BiValues,
          HashV,            \* the hash function of the values
          MaxNodes          \* the addresses of nodes of m_storage

NoNode == 0

VARIABLES node,             \* the nodes: an owner, a key and a value, or free
          m_indexMap,       \* of each object: hash -> node, or NoNode
          spoiled,          \* history: a call has left the two maps of the object apart
          dangled           \* a pointer to a node that is not there was followed

biVars == <<node, m_indexMap, spoiled, dangled>>

Hashes == {HashV[v] : v \in BiValues}
FreeNode == [owner |-> NoNode]
NoIndex == [x \in Hashes |-> NoNode]

BiInit == /\ node = [n \in 1..MaxNodes |-> FreeNode]
          /\ m_indexMap = [m \in BiMaps |-> NoIndex]
          /\ spoiled = [m \in BiMaps |-> FALSE]
          /\ dangled = FALSE

NodesOf(m) == {n \in 1..MaxNodes : node[n].owner = m}
Stored(m, k) == {n \in NodesOf(m) : node[n].key = k}
Pairs(m) == {<<node[n].key, node[n].val>> : n \in NodesOf(m)}
Indexed(m, v) == m_indexMap[m][HashV[v]]

\* A call on m; the other objects keep what they have.
Becomes(m, index, spoils) == /\ m_indexMap' = [m_indexMap EXCEPT ![m] = index]
                             /\ spoiled' = [spoiled EXCEPT ![m] = spoils]

\* A call that refuses or throws: it has not begun to change anything.
Fails == UNCHANGED biVars

\* A node for a key that has none, and the index entry that points at it.
NewPair(nodes, m, index, k, v) ==
    \E n \in {f \in 1..MaxNodes : nodes[f] = FreeNode} :
        /\ node' = [nodes EXCEPT ![n] = [owner |-> m, key |-> k, val |-> v]]
        /\ Becomes(m, [index EXCEPT ![HashV[v]] = n], spoiled[m])
        /\ UNCHANGED dangled

-----------------------------------------------------------------------------
(* Insertions and replacements *)

\* Refused when the key is there, or a value with the same hash.
Insert(m, k, v) == IF Indexed(m, v) # NoNode \/ Stored(m, k) # {} THEN Fails
                   ELSE NewPair(node, m, m_indexMap[m], k, v)

\* The index gets the new value, m_storage keeps the old one.
ReplaceValue(m, k, v) ==
    IF Indexed(m, v) # NoNode THEN Fails
    ELSE IF Stored(m, k) = {} THEN Insert(m, k, v)
    ELSE \E n \in Stored(m, k) :
           /\ Becomes(m, [m_indexMap[m] EXCEPT ![HashV[node[n].val]] = NoNode, ![HashV[v]] = n], TRUE)
           /\ UNCHANGED <<node, dangled>>

\* Follows the pointer of the index to the key it erases.
ReplaceKey(m, v, k) ==
    LET p == Indexed(m, v)
    IN  IF Stored(m, k) # {} THEN Fails
        ELSE IF p = NoNode THEN Insert(m, k, v)
        ELSE IF node[p].owner # m
             THEN dangled' = TRUE /\ UNCHANGED <<node, m_indexMap, spoiled>>
             ELSE NewPair([node EXCEPT ![p] = FreeNode], m, m_indexMap[m], k, v)

\* iterator::update(value): the entry of the old value is erased and made again.
Update(m, k, v) == /\ Stored(m, k) # {}
                   /\ Indexed(m, v) = NoNode
                   /\ \E n \in Stored(m, k) :
                         m_indexMap' = [m_indexMap EXCEPT ![m][HashV[node[n].val]] = n]
                   /\ UNCHANGED <<node, spoiled, dangled>>

-----------------------------------------------------------------------------
(* Erasure *)

Erase(m, n) == /\ node' = [node EXCEPT ![n] = FreeNode]
               /\ Becomes(m, [m_indexMap[m] EXCEPT ![HashV[node[n].val]] = NoNode], spoiled[m])
               /\ UNCHANGED dangled

EraseKey(m, k) == IF Stored(m, k) = {} THEN Fails ELSE \E n \in Stored(m, k) : Erase(m, n)

\* The pointer of the index is followed after its entry is gone.
EraseValue(m, v) ==
    LET p == Indexed(m, v)
    IN  IF p = NoNode THEN Fails
        ELSE /\ Becomes(m, [m_indexMap[m] EXCEPT ![HashV[v]] = NoNode], spoiled[m])
             /\ node' = IF node[p].owner = m THEN [node EXCEPT ![p] = FreeNode] ELSE node
             /\ dangled' = (node[p].owner # m)

Find(m, v) == LET p == Indexed(m, v)
              IN  /\ dangled' = (p # NoNode /\ node[p].owner # m)
                  /\ UNCHANGED <<node, m_indexMap, spoiled>>

Emptied(nodes, m) == [n \in 1..MaxNodes |-> IF nodes[n].owner = m THEN FreeNode ELSE nodes[n]]

Clear(m) == /\ node' = Emptied(node, m)
            /\ Becomes(m, NoIndex, FALSE)
            /\ UNCHANGED dangled

-----------------------------------------------------------------------------
(* Copies *)

\* The entry of a copy of o for a hash: the last node with it, where it was copied to.
EntryFor(o, x, index, at) ==
    LET same == {s \in NodesOf(o) : HashV[node[s].val] = x}
    IN  IF same = {} THEN index[x]
        ELSE at[CHOOSE n \in same : \A n2 \in same : node[n].key >= node[n2].key]

\* m gets copies of the nodes of o, at free addresses, and an entry for each, in
\* the order of the keys, in addition to those of index.
CopyNodes(o, m, index, spoils) ==
    LET free == {n \in 1..MaxNodes : Emptied(node, m)[n] = FreeNode}
    IN  \E at \in {f \in [NodesOf(o) -> free] : \A n1, n2 \in NodesOf(o) : n1 < n2 => f[n1] < f[n2]} :
          /\ node' = [n \in 1..MaxNodes |->
                        IF \E s \in NodesOf(o) : at[s] = n
                        THEN [node[CHOOSE s \in NodesOf(o) : at[s] = n] EXCEPT !.owner = m]
                        ELSE Emptied(node, m)[n]]
          /\ Becomes(m, [x \in Hashes |-> EntryFor(o, x, index, at)], spoils)
          /\ UNCHANGED dangled

Twins(o) == \E n1, n2 \in NodesOf(o) : n1 # n2 /\ HashV[node[n1].val] = HashV[node[n2].val]

\* The copy constructor, of an object that has just been made.
CopyConstruct(o, m) == /\ o # m /\ NodesOf(m) = {} /\ m_indexMap[m] = NoIndex
                       /\ CopyNodes(o, m, NoIndex, Twins(o))

\* operator=: the entries of the values m had stay in its index.
Assign(o, m) == /\ o # m
                /\ CopyNodes(o, m, m_indexMap[m],
                             Twins(o) \/ \E x \in Hashes : /\ m_indexMap[m][x] # NoNode
                                                           /\ \A n \in NodesOf(o) : HashV[node[n].val] # x)

\* Faulty variant: the nodes of o go to m, those of m stay.
SwapOneWay(o, m) == /\ o # m
                    /\ node' = [n \in 1..MaxNodes |->
                                  IF node[n].owner = o THEN [node[n] EXCEPT !.owner = m] ELSE node[n]]
                    /\ UNCHANGED <<m_indexMap, spoiled, dangled>>

\* The move assignment swaps, the move constructor swaps with a new object.
Swap(o, m) == /\ o # m
              /\ node' = [n \in 1..MaxNodes |->
                            CASE node[n].owner = o -> [node[n] EXCEPT !.owner = m]
                              [] node[n].owner = m -> [node[n] EXCEPT !.owner = o]
                              [] OTHER -> node[n]]
              /\ m_indexMap' = [m_indexMap EXCEPT ![o] = m_indexMap[m], ![m] = m_indexMap[o]]
              /\ spoiled' = [spoiled EXCEPT ![o] = spoiled[m], ![m] = spoiled[o]]
              /\ UNCHANGED dangled

BiNext == /\ ~ dangled
          /\ \E m \in BiMaps :
               \/ Clear(m)
               \/ \E k \in BiKeys : EraseKey(m, k)
               \/ \E v \in BiValues : EraseValue(m, v) \/ Find(m, v)
               \/ \E k \in BiKeys, v \in BiValues :
                     Insert(m, k, v) \/ ReplaceValue(m, k, v) \/ ReplaceKey(m, v, k) \/ Update(m, k, v)
               \/ \E o \in BiMaps : CopyConstruct(o, m) \/ Assign(o, m) \/ Swap(o, m)

BiSpec == BiInit /\ [][BiNext]_biVars

-----------------------------------------------------------------------------
\* The two maps of an object are inverse to each other: a hash leads to the
\* object's own node, and each node is found under its value's hash.  A
\* replaceValue() of a key that is there breaks it, and so does an assignment
\* to an object that has other values.
MapsInverse ==
    \A m \in BiMaps : ~ spoiled[m] =>
        /\ \A x \in Hashes : m_indexMap[m][x] # NoNode =>
              node[m_indexMap[m][x]].owner = m /\ HashV[node[m_indexMap[m][x]].val] = x
        /\ \A n \in NodesOf(m) : Indexed(m, node[n].val) = n

\* Only in an object whose maps have been left apart does a pointer dangle.
DangledOnlyWhenSpoiled == dangled => \E m \in BiMaps : spoiled[m]

\* A call on an object that is not spoiled keeps every pair but the one it is
\* about, or empties the object, or makes it equal to another.
OtherPairsKept ==
    [][UNCHANGED biVars \/ \A m \in BiMaps : Pairs(m)' # Pairs(m) /\ ~ spoiled[m] =>
           \/ Cardinality(Pairs(m) \ Pairs(m)') <= 1 /\ Cardinality(Pairs(m)' \ Pairs(m)) <= 1
           \/ Pairs(m)' = {}
           \/ \E o \in BiMaps \ {m} : Pairs(m)' = Pairs(o)]_biVars

\* Keys and values find each other, until an object is spoiled.
BiMapsSound == [](MapsInverse /\ DangledOnlyWhenSpoiled) /\ OtherPairsKept
=============================================================================
