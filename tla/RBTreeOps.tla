----------------------------- MODULE RBTreeOps -----------------------------
(***************************************************************************)
(* The red-black tree of rbtree_base.cpp and rbtree_api.cpp as operators on *)
(* a tree value.  A node is named by its key.  The code writes every case   *)
(* twice, once per side; here the side is a parameter, and the field of a   *)
(* node on side s is t[s][n].                                              *)
(***************************************************************************)
EXTENDS Integers, Sequences

CONSTANT MaxKey                     \* the keys are 1..MaxKey

RBTreeAssumption == MaxKey \in Nat

Keys == 1..MaxKey
Null == 0
Other(s) == IF s = "left" THEN "right" ELSE "left"

Nobody == [k \in Keys |-> Null]
Empty == [root |-> Null, left |-> Nobody, right |-> Nobody, parent |-> Nobody, red |-> {}]

-----------------------------------------------------------------------------
(* Pointers and colours *)

SetParent(t, n, p) == IF n = Null THEN t ELSE [t EXCEPT !.parent[n] = p]
SideOf(t, p, n) == IF t.left[p] = n THEN "left" ELSE "right"

\* The pointer to old, in its parent p or in the root, becomes one to new.
Redirect(t, p, old, new) == IF p = Null THEN [t EXCEPT !.root = new]
                            ELSE [t EXCEPT ![SideOf(t, p, old)][p] = new]

Paint(t, black, red) == [t EXCEPT !.red = (@ \ black) \cup red]

\* __rb_rotate_left and __rb_rotate_right: node goes down to side s.
Rotate(t, node, s) ==
    LET up == t[Other(s)][node]
        inner == t[s][up]
        turned == [SetParent(t, inner, node) EXCEPT
                      ![Other(s)][node] = inner, ![s][up] = node,
                      !.parent[up] = t.parent[node], !.parent[node] = up]
    IN  Redirect(turned, t.parent[node], node, up)

-----------------------------------------------------------------------------
(* Walking *)

RECURSIVE Descend(_, _, _), Ascend(_, _, _), Seek(_, _, _)

Descend(t, s, n) == IF t[s][n] = Null THEN n ELSE Descend(t, s, t[s][n])

Ascend(t, s, n) == LET p == t.parent[n]
                   IN  IF p # Null /\ t[s][p] = n THEN Ascend(t, s, p) ELSE p

\* rb_first and rb_last
Outermost(t, s) == IF t.root = Null THEN Null ELSE Descend(t, s, t.root)

\* rb_next (s is "right") and rb_prev (s is "left")
Neighbour(t, s, n) == IF t[s][n] # Null THEN Descend(t, Other(s), t[s][n]) ELSE Ascend(t, s, n)

\* Where the search for k from n ends.
Seek(t, n, k) == LET down == t[IF k < n THEN "left" ELSE "right"][n]
                 IN  IF n = k \/ down = Null THEN n ELSE Seek(t, down, k)

Search(t, k) == IF t.root # Null /\ Seek(t, t.root, k) = k THEN k ELSE Null

-----------------------------------------------------------------------------
(* Insertion *)

RECURSIVE InsertColor(_, _)

\* The parent on side s of gparent, the uncle black: low and top change places.
RaiseRed(t, gparent, s, low, top) == InsertColor(Rotate(Paint(t, {top}, {gparent}), gparent, Other(s)), low)

\* Faulty variant: "continue" is missing, the recolouring does not go on upwards.
RepairRedOnce(t, node, parent, gparent, s, uncle) ==
    IF uncle \in t.red THEN Paint(Paint(t, {uncle, parent}, {gparent}), {t.root}, {})
    ELSE IF t[s][parent] = node THEN RaiseRed(t, gparent, s, node, parent)
    ELSE RaiseRed(Rotate(t, parent, s), gparent, s, parent, node)

RepairRed(t, node, parent, gparent, s, uncle) ==
    IF uncle \in t.red THEN InsertColor(Paint(t, {uncle, parent}, {gparent}), gparent)
    ELSE IF t[s][parent] = node THEN RaiseRed(t, gparent, s, node, parent)
    ELSE RaiseRed(Rotate(t, parent, s), gparent, s, parent, node)

InsertColor(t, node) ==
    LET parent == t.parent[node]
        gparent == t.parent[parent]
        s == SideOf(t, gparent, parent)
    IN  IF parent \notin t.red THEN Paint(t, {t.root}, {})
        ELSE RepairRed(t, node, parent, gparent, s, t[Other(s)][gparent])

LinkNode(t, k, p) ==
    LET linked == [t EXCEPT !.parent[k] = p, !.red = @ \cup {k}]
    IN  IF p = Null THEN [linked EXCEPT !.root = k]
        ELSE [linked EXCEPT ![IF k < p THEN "left" ELSE "right"][p] = k]

\* rbtree_insert and MapData::insert
Insert(t, k) ==
    LET p == IF t.root = Null THEN Null ELSE Seek(t, t.root, k)
    IN  IF p = k THEN t ELSE InsertColor(LinkNode(t, k, p), k)

-----------------------------------------------------------------------------
(* Erasure *)

RECURSIVE EraseColor(_, _, _)

\* A red other is rotated up, what leaves a black one in its place.
BlackOther(t, parent, s, other) ==
    IF other \in t.red THEN Rotate(Paint(t, {other}, {parent}), parent, s) ELSE t

\* The child of other away from s becomes red.
OuterRed(t, s, other) == IF t[Other(s)][other] \in t.red THEN t
                         ELSE Rotate(Paint(t, {t[s][other]}, {other}), other, Other(s))

\* other takes the place and the colour of parent.
RaiseOther(t, parent, s, other) ==
    Rotate(Paint(t, {other, parent, t[Other(s)][other]}, IF parent \in t.red THEN {other} ELSE {}), parent, s)

BlackRoot(t) == Paint(t, {t.root}, {})
RaiseNext(t, parent, s) == BlackRoot(RaiseOther(t, parent, s, t[Other(s)][parent]))

\* Faulty variant: the loop ends after one step upwards.
RepairBlackOnce(t, parent, s, other) ==
    IF t.left[other] \notin t.red /\ t.right[other] \notin t.red
      THEN Paint(t, {parent}, {other})
      ELSE RaiseNext(OuterRed(t, s, other), parent, s)

RepairBlack(t, parent, s, other) ==
    IF t.left[other] \notin t.red /\ t.right[other] \notin t.red
      THEN EraseColor(Paint(t, {}, {other}), parent, t.parent[parent])
      ELSE RaiseNext(OuterRed(t, s, other), parent, s)

RepairSide(t, parent, s) == RepairBlack(t, parent, s, t[Other(s)][parent])

\* __rb_erase_color: node, perhaps null, has one black too few above it.
EraseColor(t, node, parent) ==
    LET s == SideOf(t, parent, node)
    IN  IF node \in t.red \/ node = t.root THEN Paint(t, {node}, {})
        ELSE RepairSide(BlackOther(t, parent, s, t[Other(s)][parent]), parent, s)

\* The leftmost node of the right subtree.
Successor(t, old) == Descend(t, "left", t.right[old])

\* A node with two children gives its place to its successor.
TakePlace(t, old, node) ==
    LET moved == [t EXCEPT !.parent[node] = t.parent[old], !.left[node] = t.left[old],
                           !.right[node] = t.right[old],
                           !.red = IF old \in t.red THEN @ \cup {node} ELSE @ \ {node}]
        hung == Redirect(moved, t.parent[old], old, node)
    IN  SetParent(SetParent(hung, t.left[old], node), t.right[old], node)

Forget(t, n) == [t EXCEPT !.left[n] = Null, !.right[n] = Null, !.parent[n] = Null, !.red = @ \ {n}]

\* node, with at most this child, is cut out, and takes the place of old if it
\* is another one.
Unlinked(t, node, child) == Redirect(SetParent(t, child, t.parent[node]), t.parent[node], node, child)
CutOut(t, old, node, child) == IF node = old THEN Unlinked(t, node, child)
                               ELSE TakePlace(Unlinked(t, node, child), old, node)

EraseFor(t, old, node, child) ==
    Forget(IF node \in t.red THEN CutOut(t, old, node, child)
           ELSE EraseColor(CutOut(t, old, node, child), child,
                           IF node # old /\ t.parent[node] = old THEN node ELSE t.parent[node]), old)

\* The only child, or null.
ChildOf(t, node) == IF t.left[node] = Null THEN t.right[node] ELSE t.left[node]
EraseAs(t, old, node) == EraseFor(t, old, node, ChildOf(t, node))

\* rb_erase
EraseNode(t, old) ==
    EraseAs(t, old, IF t.left[old] # Null /\ t.right[old] # Null THEN Successor(t, old) ELSE old)

\* rbtree_clear and MapData::clear: the root goes as long as there is one.
RECURSIVE Clear(_)
Clear(t) == IF t.root = Null THEN t ELSE Clear(EraseNode(t, t.root))

\* rb_replace_node
ReplaceNode(t, victim, new) ==
    Forget(TakePlace(t, victim, new), victim)

-----------------------------------------------------------------------------
(* rbtree_foreach, with a callback that erases the nodes of S and returns    *)
(* true at those of quit: the next node is found before the callback, and   *)
(* the last one before the first.                                          *)

RECURSIVE Walk(_, _, _, _, _, _)

\* The walk gave node to the callback, which left the tree t behind.
Shown(t, S, quit, node, next, end, seen) ==
    IF node = end \/ node \in quit THEN [tree |-> t, visited |-> Append(seen, node)]
    ELSE Walk(t, S, quit, next, end, Append(seen, node))

Walk(t, S, quit, node, end, seen) ==
    Shown(IF node \in S THEN EraseNode(t, node) ELSE t, S, quit, node, Neighbour(t, "right", node), end, seen)

Foreach(t, S, quit) == IF t.root = Null THEN [tree |-> t, visited |-> <<>>]
                       ELSE Walk(t, S, quit, Outermost(t, "left"), Outermost(t, "right"), <<>>)

-----------------------------------------------------------------------------
(* What a correct tree is *)

RECURSIVE Below(_, _), BlackHeight(_, _)

\* The nodes below n, n included.
Below(t, n) == IF n = Null THEN {} ELSE {n} \cup Below(t, t.left[n]) \cup Below(t, t.right[n])

Nodes(t) == Below(t, t.root)

\* The number of black nodes on every way down from n, or -1.
BlackHeight(t, n) ==
    IF n = Null THEN 0
    ELSE LET l == BlackHeight(t, t.left[n])
             r == BlackHeight(t, t.right[n])
         IN  IF l # r \/ l = -1 THEN -1 ELSE IF n \in t.red THEN l ELSE l + 1

Ordered(t) == \A n \in Nodes(t) : /\ \A m \in Below(t, t.left[n]) : m < n
                                  /\ \A m \in Below(t, t.right[n]) : m > n

Linked(t) == /\ t.root # Null => t.parent[t.root] = Null
             /\ \A n \in Nodes(t), s \in {"left", "right"} :
                    t[s][n] # Null => t.parent[t[s][n]] = n

Balanced(t) == /\ BlackHeight(t, t.root) # -1
               /\ t.root \notin t.red
               /\ \A n \in t.red : t.left[n] \notin t.red /\ t.right[n] \notin t.red

RedBlack(t) == Ordered(t) /\ Linked(t) /\ Balanced(t)
=============================================================================
