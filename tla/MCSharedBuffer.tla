--------------------------- MODULE MCSharedBuffer ---------------------------
(* Three handles that share and copy buffers over four addresses. *)
EXTENDS SharedBuffer, TLC

Symmetry == Permutations(Handles) \cup Permutations(Buffers)
=============================================================================
