------------------------------- MODULE Blocks -------------------------------
(***************************************************************************)
(* The heap of byte blocks under ByteBuffer and String8: SharedBuffer with  *)
(* each of its operations in one step, and malloc() that may fail.  What    *)
(* threads do to the count is the subject of SharedBuffer.                  *)
(***************************************************************************)
EXTENDS Integers, Sequences, FiniteSets

CONSTANT MaxBlocks      \* bound: the blocks malloc() can give out

ASSUME BlocksAssumption == MaxBlocks \in Nat

Junk == -1              \* a byte nobody wrote
None == -1              \* nullptr: there is no block
Empty == 0              \* the block that all empty objects share, which owns itself

NoBlock == [bytes |-> <<>>, refs |-> 0]

-----------------------------------------------------------------------------
(* Each gives the set of [heap, block] it may end in *)

Acquire(hp, b) == [hp EXCEPT ![b].refs = @ + 1]
Release(hp, b) == [hp EXCEPT ![b] = IF hp[b].refs = 1 THEN NoBlock
                                    ELSE [hp[b] EXCEPT !.refs = @ - 1]]

Resized(bytes, n, fill) == [i \in 1..n |-> IF i <= Len(bytes) THEN bytes[i] ELSE fill]

\* malloc() may fail.  Which free address it gives makes no difference.
Alloc(hp, bytes) ==
    LET free == {b \in 1..MaxBlocks : hp[b].refs = 0}
    IN  {[heap |-> hp, block |-> None]} \cup
        {[heap |-> [hp EXCEPT ![b] = [bytes |-> bytes, refs |-> 1]], block |-> b] :
            b \in {f \in free : \A g \in free : f <= g}}

\* A block with these bytes in the place of b.
Instead(hp, b, bytes) ==
    {IF o.block = None THEN o ELSE [o EXCEPT !.heap = Release(@, b)] : o \in Alloc(hp, bytes)}

\* Faulty variant: the caller that shares the block may write to it.
EditShared(hp, b) == {[heap |-> hp, block |-> b]}

Edit(hp, b) == IF hp[b].refs = 1 THEN {[heap |-> hp, block |-> b]}
               ELSE Instead(hp, b, hp[b].bytes)

Grown(hp, b, n) == [heap |-> [hp EXCEPT ![b].bytes = Resized(@, n, Junk)], block |-> b]

\* realloc() grows the block where it is or moves it; when it fails the code
\* still tries alloc().
EditResize(hp, b, n) ==
    LET copied == Instead(hp, b, Resized(hp[b].bytes, n, 0))
    IN  CASE hp[b].refs > 1 -> copied
          [] hp[b].refs = 1 /\ Len(hp[b].bytes) = n -> {[heap |-> hp, block |-> b]}
          [] OTHER -> {Grown(hp, b, n)} \cup Instead(hp, b, Resized(hp[b].bytes, n, Junk))
                      \cup copied

\* Bytes written into block b after its first `at` bytes.
Put(hp, b, at, data) ==
    [hp EXCEPT ![b].bytes = [i \in 1..Len(@) |->
        IF i \in (at + 1)..(at + Len(data)) THEN data[i - at] ELSE @[i]]]
=============================================================================
