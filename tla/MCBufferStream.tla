--------------------------- MODULE MCBufferStream ---------------------------
(* BufferStream on two buffers: one may be a copy of the other, or both may *)
(* be changed while a third party streams.                                  *)
EXTENDS BufferStream, TLC

\* A byte, and a byte with the NUL that ends a string.
TwoItems == {<<1>>, <<2, 0>>}

ObjectSymmetry == Permutations(Objects)
=============================================================================
