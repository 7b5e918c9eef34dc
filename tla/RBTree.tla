------------------------------- MODULE RBTree -------------------------------
(***************************************************************************)
(* A client of rbtree_api.h: any sequence of insertions, erasures by key    *)
(* and by node, replacements, walks that erase, and clear.                 *)
(***************************************************************************)
EXTENDS RBTreeOps, FiniteSets, SequencesExt

CONSTANT MaxWalk        \* bound: the nodes of a tree that is walked

VARIABLES tree,
          keys          \* history: the keys that should be in the tree

treeVars == <<tree, keys>>

TreeInit == tree = Empty /\ keys = {}

TreeInsert(k) == /\ tree' = Insert(tree, k)
                 /\ keys' = keys \cup {k}

\* rbtree_erase finds the node; rbtree_erase_node gets one that is in the tree.
TreeErase(k) == /\ tree' = IF Search(tree, k) = Null THEN tree ELSE EraseNode(tree, k)
                /\ keys' = keys \ {k}

\* A key between the neighbours of the old one takes its place.
TreeReplace(old, new) == /\ old \in keys /\ new \notin keys
                         /\ \A k \in keys \ {old} : (k < old) = (k < new)
                         /\ tree' = ReplaceNode(tree, old, new)
                         /\ keys' = (keys \ {old}) \cup {new}

\* The walks, in trees of at most MaxWalk nodes: those that go on to the last
\* node erase any nodes, those that end at one before that erase a node at most.
Walks == IF Cardinality(keys) > MaxWalk THEN {}
         ELSE {[erase |-> S, quit |-> {}] : S \in SUBSET keys}
              \cup {[erase |-> S, quit |-> {k}] : S \in {{}} \cup {{j} : j \in keys}, k \in keys}

\* rbtree_foreach with a callback.
TreeForeach(w) == LET walk == Foreach(tree, w.erase, w.quit)
                  IN  /\ tree' = walk.tree
                      /\ keys' = keys \ (w.erase \cap ToSet(walk.visited))

TreeClear == /\ tree' = Clear(tree)
             /\ keys' = {}

TreeNext == \/ \E k \in Keys : TreeInsert(k) \/ TreeErase(k)
            \/ \E old, new \in Keys : TreeReplace(old, new)
            \/ \E w \in Walks : TreeForeach(w)
            \/ TreeClear

TreeSpec == TreeInit /\ [][TreeNext]_treeVars

-----------------------------------------------------------------------------
\* The tree is a search tree, its parent pointers fit, and no path is longer
\* than twice another, after every operation: rotations and recolourings.
TreeIsRedBlack == RedBlack(tree)

\* The tree holds exactly the keys inserted and not erased, and finds them.
TreeHoldsKeys == /\ Nodes(tree) = keys
                 /\ \A k \in Keys : (Search(tree, k) = k) = (k \in keys)

\* rb_next and rb_prev go through all keys in order, from end to end.
TreeWalksInOrder ==
    \A k \in keys :
        /\ Neighbour(tree, "right", k) = IF \E j \in keys : j > k
                                          THEN CHOOSE j \in keys : j > k /\ \A i \in keys : i > k => j <= i
                                          ELSE Null
        /\ Neighbour(tree, "left", k) = IF \E j \in keys : j < k
                                         THEN CHOOSE j \in keys : j < k /\ \A i \in keys : i < k => j >= i
                                         ELSE Null

\* "even if the callback deletes the node the loop is not disturbed"
\* (rbtree_api.cpp:123): each node up to the one that ends the walk is shown
\* once, in order.
ForeachShowsAll ==
    \A w \in Walks :
        Foreach(tree, w.erase, w.quit).visited = SetToSortSeq({k \in keys : \A q \in w.quit : k <= q}, <)

\* The tree, what it holds and what its walks show, after every operation.
TreeSound == TreeIsRedBlack /\ TreeHoldsKeys /\ TreeWalksInOrder /\ ForeachShowsAll
=============================================================================
