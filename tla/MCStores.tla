------------------------------ MODULE MCStores ------------------------------
(***************************************************************************)
(* The red-black tree, with enough keys for the loops of its rebalancing to *)
(* go up more than once, and the stores that do not use it: HashMap, BiMap, *)
(* the clients of a Redis and of a MySQL server, and the lock of the        *)
(* configuration trees.  A behaviour is one of one of them, the part chosen *)
(* at the start.                                                           *)
(***************************************************************************)
EXTENDS RedisClient, ConfigRWMutex, BiMap, MySqlConn

CONSTANTS HashMaps, HashKeys, HashValues, HashOf, MinBits, CountMod, MaxHashData, Absent,
          TreeKeys, MaxWalk

VARIABLES part, heap, data, misused, dict, tree, keys

hashVars == <<heap, data, misused, dict>>
treeVars == <<tree, keys>>
storesVars == <<part, treeVars, redisVars, hashVars, biVars, mysqlVars, vars>>

T == INSTANCE RBTree WITH MaxKey <- TreeKeys
HM == INSTANCE HashMap

StoresInit == /\ part \in {"RBTree", "HashMap", "BiMap", "Redis", "MySql", "RWMutex"}
              /\ T!TreeInit /\ RedisInit /\ HM!HashInit /\ BiInit /\ MySqlInit /\ Init

StoresNext ==
    /\ UNCHANGED part
    /\ \/ /\ part = "RBTree" /\ T!TreeNext
          /\ UNCHANGED <<redisVars, hashVars, biVars, mysqlVars, vars>>
       \/ /\ part = "Redis" /\ RedisNext
          /\ UNCHANGED <<treeVars, hashVars, biVars, mysqlVars, vars>>
       \/ /\ part = "HashMap" /\ HM!HashNext
          /\ UNCHANGED <<treeVars, redisVars, biVars, mysqlVars, vars>>
       \/ /\ part = "BiMap" /\ BiNext
          /\ UNCHANGED <<treeVars, redisVars, hashVars, mysqlVars, vars>>
       \/ /\ part = "MySql" /\ MySqlNext
          /\ UNCHANGED <<treeVars, redisVars, hashVars, biVars, vars>>
       \/ /\ part = "RWMutex" /\ Next
          /\ UNCHANGED <<treeVars, redisVars, hashVars, biVars, mysqlVars>>

StoresSpec == StoresInit /\ [][StoresNext]_storesVars

\* The HashMaps are interchangeable, and the BiMaps; the properties are safety properties.
Symmetry == Permutations(HashMaps) \cup Permutations(BiMaps)

\* Keys 0 and 2 share a bucket of two, 0 and 1 one of five.
FewHashes == (0 :> 0) @@ (1 :> 5) @@ (2 :> 2)

\* Two of the three values collide.
Colliding == (1 :> 1) @@ (2 :> 2) @@ (3 :> 2)

\* RBTree: the tree and its walks.
TreeSound == T!TreeSound
\* HashMap: the buckets, the counts and the walks fit.
HashMapsSound == HM!HashMapsSound
\* HashMap: sharing is invisible.
HashMapsAreDictionaries == HM!HashMapsAreDictionaries
=============================================================================
