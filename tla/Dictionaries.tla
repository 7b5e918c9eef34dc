---------------------------- MODULE Dictionaries ----------------------------
(***************************************************************************)
(* What a set of Map or HashMap objects looks like to its user: each is a   *)
(* dictionary of its own.  An action here is what the call of that name     *)
(* does to the dictionaries, whatever is in them: it changes its own object *)
(* and no other.  Map and HashMap take each of their calls together with    *)
(* the action of that call, and have to agree with the dictionaries.        *)
(***************************************************************************)
EXTENDS TLC

CONSTANTS Maps,
          Absent        \* there is no such object

VARIABLE dict

Init == dict = [h \in Maps |-> Absent]

Becomes(h, d) == dict' = [dict EXCEPT ![h] = d]

\* Constructors, destructor, assignment; a map that is moved from is empty, or has
\* what the other had.
New(h) == Becomes(h, <<>>)
NewWith(h, keys, v) == Becomes(h, [k \in keys |-> v])
Drop(h) == Becomes(h, Absent)
Copy(g, h) == Becomes(h, dict[g])
Move(g, h) == dict' = [dict EXCEPT ![g] = IF dict[h] = Absent THEN <<>> ELSE dict[h], ![h] = dict[g]]

\* insert() keeps an existing value; operator[] and at() give a place to write to,
\* and so does an iterator; find() and the like change nothing.
Insert(h, k, v) == Becomes(h, dict[h] @@ (k :> v))
Put(h, k, v) == Becomes(h, (k :> v) @@ dict[h])
Erase(h, k) == Becomes(h, [j \in DOMAIN dict[h] \ {k} |-> dict[h][j]])
Clear(h) == Becomes(h, <<>>)
Look == UNCHANGED dict
=============================================================================
