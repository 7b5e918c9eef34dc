-------------------------- MODULE SharedBufferProof --------------------------
(***************************************************************************)
(* No buffer is used after it is freed, the reference count is the number  *)
(* of owners, nothing leaks, and copy-on-write is invisible, for any       *)
(* number of handles and buffers.                                          *)
(***************************************************************************)
EXTENDS SharedBuffer, FiniteSetTheorems, TLAPS

-----------------------------------------------------------------------------
(* Owners and counts *)

\* The owners of a buffer are finitely many, so mRefs can count them.
LEMMA OwnersFinite == \A b : IsFiniteSet(Owners(b))
<1>1. \A b : Owners(b) \subseteq Handles
  BY DEF Owners
<1> QED
  BY <1>1, FS_Subset, SharedBufferAssumption

\* onlyOwner() is right: a count of 1 means that the handle that asks is the
\* only one.
LEMMA CountOneMeansAlone ==
  ASSUME NEW S, IsFiniteSet(S), NEW h \in S, Cardinality(S) = 1
  PROVE  S = {h}
  BY FS_Singleton

LEMMA AddOwner ==
  ASSUME NEW S, IsFiniteSet(S), NEW h, h \notin S
  PROVE  Cardinality(S \cup {h}) = Cardinality(S) + 1
  BY FS_AddElement

LEMMA RemoveOwner ==
  ASSUME NEW S, IsFiniteSet(S), NEW h \in S
  PROVE  Cardinality(S \ {h}) = Cardinality(S) - 1
  BY FS_RemoveElement

LEMMA OneOwner == \A h : Cardinality({h}) = 1
  BY FS_Singleton

LEMMA NoOwner == Cardinality({}) = 0
  BY FS_EmptySet

LEMMA CountIsNat == ASSUME NEW S, IsFiniteSet(S) PROVE Cardinality(S) \in Nat
  BY FS_CardinalityType

\* A handle that sees mRefs = 1 has the buffer for itself: no other handle
\* points at it, not even one that is about to free it.
LEMMA SoleOwner ==
  ASSUME Inv, NEW h \in Handles, buf[h] # NoBuffer, pc[h] # "relFree",
         mRefs[buf[h]] = 1
  PROVE  \A g \in Handles : buf[g] = buf[h] => g = h
<1> DEFINE b == buf[h]
<1>1. b \in Buffers /\ alive[b]
  BY DEF Inv, TypeOK, NoUseAfterFree
<1>2. h \in Owners(b)
  BY DEF Owners
<1>3. Cardinality(Owners(b)) = 1
  BY <1>1 DEF Inv, RefsCountOwners
<1>4. Owners(b) = {h}
  BY <1>2, <1>3, OwnersFinite, CountOneMeansAlone
<1> SUFFICES ASSUME NEW g \in Handles, buf[g] = b, g # h PROVE FALSE
  OBVIOUS
<1>5. pc[g] = "relFree"
  BY <1>4 DEF Owners
<1> QED
  BY <1>5 DEF Inv, Exclusive

\* An address malloc() may return is known to no handle.
LEMMA DeadUnknown ==
  ASSUME Inv, NEW b \in Buffers, ~ alive[b]
  PROVE  \A h \in Handles : buf[h] # b /\ next[h] # b
  BY SharedBufferAssumption DEF Inv, NoUseAfterFree

-----------------------------------------------------------------------------
(* The invariant *)

LEMMA InitInv == Init => Inv
<1> SUFFICES ASSUME Init PROVE Inv
  OBVIOUS
<1>1. TypeOK
  BY SharedBufferAssumption DEF Init, TypeOK, Ops, PC
<1> QED
  BY <1>1 DEF Init, Inv, Shape, NextPrivate, Exclusive, NoUseAfterFree,
              RefsCountOwners, NoLeak

LEMMA NewInv ==
  ASSUME Inv, NEW h \in Handles, NEW b \in Buffers, NEW d \in Data, New(h, b, d)
  PROVE  Inv'
<1> USE SharedBufferAssumption
<1>1. TypeOK'
  BY DEF Inv, TypeOK, New, Malloc
<1>2. \A g \in Handles : buf[g] # b /\ next[g] # b
  BY DeadUnknown DEF New, Malloc
<1>3. next[h] = NoBuffer
  BY DEF Inv, Shape, New
<1>4. (Shape /\ NextPrivate /\ Exclusive /\ NoUseAfterFree /\ NoLeak)'
  BY <1>2, <1>3 DEF Inv, TypeOK, Shape, NextPrivate, Exclusive, NoUseAfterFree,
                    NoLeak, New, Malloc
<1>5. RefsCountOwners'
  <2> SUFFICES ASSUME NEW c \in Buffers, alive'[c]
               PROVE mRefs'[c] = Cardinality(Owners(c)')
    BY DEF RefsCountOwners
  <2>1. CASE c = b
    <3>1. Owners(c)' = {h}
      BY <1>2, <1>3, <2>1 DEF Owners, New, Inv, TypeOK
    <3> QED
      BY <2>1, <3>1, OneOwner DEF New, Malloc, Inv, TypeOK
  <2>2. CASE c # b
    <3>1. Owners(c)' = Owners(c)
      BY <2>2 DEF Owners, New, Inv, TypeOK
    <3> QED
      BY <2>2, <3>1 DEF New, Malloc, Inv, TypeOK, RefsCountOwners
  <2> QED
    BY <2>1, <2>2
<1> QED
  BY <1>1, <1>4, <1>5 DEF Inv

LEMMA AcquireInv ==
  ASSUME Inv, NEW g \in Handles, NEW h \in Handles, Acquire(g, h)
  PROVE  Inv'
<1> USE SharedBufferAssumption
<1> DEFINE b == buf[g]
<1>1. b \in Buffers /\ alive[b] /\ g # h
  BY DEF Acquire, Inv, TypeOK, NoUseAfterFree
<1>2. TypeOK'
  BY <1>1 DEF Inv, TypeOK, Acquire
<1>3. next[h] = NoBuffer /\ next[g] = NoBuffer
  BY DEF Inv, Shape, Acquire
<1>4. (Shape /\ NextPrivate /\ NoUseAfterFree /\ NoLeak)'
  BY <1>1, <1>3 DEF Inv, TypeOK, Shape, NextPrivate, NoUseAfterFree, NoLeak, Acquire
<1>5. Exclusive'
  \* g is idle, so nobody else has its buffer for itself.
  BY <1>1 DEF Inv, TypeOK, Exclusive, Acquire
<1>6. RefsCountOwners'
  <2> SUFFICES ASSUME NEW c \in Buffers, alive'[c]
               PROVE mRefs'[c] = Cardinality(Owners(c)')
    BY DEF RefsCountOwners
  <2>1. CASE c = b
    <3>1. h \notin Owners(c)
      BY <1>1, <1>3, <2>1 DEF Owners, Acquire
    <3>2. Owners(c)' = Owners(c) \cup {h}
      BY <2>1 DEF Owners, Acquire, Inv, TypeOK
    <3>3. Cardinality(Owners(c)') = Cardinality(Owners(c)) + 1
      BY <3>1, <3>2, OwnersFinite, AddOwner
    <3> QED
      BY <1>1, <2>1, <3>3 DEF Acquire, Inv, TypeOK, RefsCountOwners
  <2>2. CASE c # b
    <3>1. Owners(c)' = Owners(c)
      BY <2>2 DEF Owners, Acquire, Inv, TypeOK
    <3> QED
      BY <2>2, <3>1 DEF Acquire, Inv, TypeOK, RefsCountOwners
  <2> QED
    BY <2>1, <2>2
<1> QED
  BY <1>2, <1>4, <1>5, <1>6 DEF Inv

\* Steps that move an operation on and touch no buffer.
LEMMA OwnersUnchanged ==
  ASSUME Inv, UNCHANGED <<alive, mRefs, buf, next>>,
         \A g \in Handles : pc'[g] = "relFree" <=> pc[g] = "relFree"
  PROVE  (NextPrivate /\ NoUseAfterFree /\ RefsCountOwners /\ NoLeak)'
<1>1. \A b : Owners(b)' = Owners(b)
  BY DEF Owners
<1> QED
  BY <1>1 DEF Inv, NextPrivate, NoUseAfterFree, RefsCountOwners, NoLeak

\* Call and the steps that only test: OnlyOwner, the in-place and the failed
\* realloc(), the failed alloc() and the onlyOwner() test of release().
LEMMA CallInv ==
  ASSUME Inv, NEW h \in Handles, NEW o \in Ops, Call(h, o)
  PROVE  Inv'
<1>1. Start(o) \in {"alloc", "relOwner", "onlyOwner"}
  BY DEF Start, Ops
<1>2. TypeOK'
  BY <1>1 DEF Inv, TypeOK, Call, Goto, PC
<1>3. (NextPrivate /\ NoUseAfterFree /\ RefsCountOwners /\ NoLeak)'
  BY <1>1, OwnersUnchanged DEF Call, Goto, Inv, TypeOK
<1>4. Shape'
  BY SharedBufferAssumption DEF Inv, TypeOK, Shape, Call, Goto, Start, Ops
<1>5. Exclusive'
  BY <1>1 DEF Inv, TypeOK, Exclusive, Call, Goto
<1> QED
  BY <1>2, <1>3, <1>4, <1>5 DEF Inv

LEMMA TestInv ==
  ASSUME Inv, NEW h \in Handles,
         \/ OnlyOwner(h) \/ ReallocInPlace(h) \/ ReallocFail(h)
         \/ AllocFail(h) \/ RelOwner(h)
  PROVE  Inv'
<1> USE SharedBufferAssumption
<1> USE DEF OnlyOwner, ReallocInPlace, ReallocFail, AllocFail, RelOwner, Goto
<1>1. TypeOK'
  BY DEF Inv, TypeOK, PC
<1>2. (NextPrivate /\ NoUseAfterFree /\ RefsCountOwners /\ NoLeak)'
  <2>1. pc[h] # "relFree" /\ pc'[h] # "relFree"
    BY DEF Inv, TypeOK
  <2>2. \A g \in Handles : pc'[g] = "relFree" <=> pc[g] = "relFree"
    BY <2>1 DEF Inv, TypeOK
  <2> QED
    BY <2>2, OwnersUnchanged
<1>3. Shape'
  BY DEF Inv, TypeOK, Shape
<1>4. Exclusive'
  <2>1. CASE OnlyOwner(h) \/ RelOwner(h)
    <3>1. buf[h] # NoBuffer /\ pc[h] # "relFree"
      BY <2>1 DEF Inv, Shape
    <3>2. pc'[h] \in {"write", "realloc", "relStore"} => mRefs[buf[h]] = 1
      BY <2>1 DEF Inv, TypeOK
    <3>3. pc'[h] # "relFree"
      BY <2>1 DEF Inv, TypeOK
    <3> QED
      BY <2>1, <3>1, <3>2, <3>3, SoleOwner DEF Inv, TypeOK, Exclusive
  <2>2. CASE ReallocInPlace(h) \/ ReallocFail(h) \/ AllocFail(h)
    BY <2>2 DEF Inv, TypeOK, Exclusive
  <2> QED
    BY <2>1, <2>2
<1> QED
  BY <1>1, <1>2, <1>3, <1>4 DEF Inv

\* Copy and Write change contents only.
LEMMA CopyWriteInv ==
  ASSUME Inv, NEW h \in Handles, NEW d \in Data, Copy(h) \/ Write(h, d)
  PROVE  Inv'
<1> USE SharedBufferAssumption
<1> USE DEF Copy, Write, Goto
<1>1. TypeOK'
  <2>1. buf[h] \in Buffers
    BY DEF Inv, TypeOK, Shape
  <2> QED
    BY <2>1 DEF Inv, TypeOK, PC
<1>2. (NextPrivate /\ NoUseAfterFree /\ RefsCountOwners /\ NoLeak)'
  BY OwnersUnchanged DEF Inv, TypeOK
<1>3. Shape' /\ Exclusive'
  BY DEF Inv, TypeOK, Shape, Exclusive
<1> QED
  BY <1>1, <1>2, <1>3 DEF Inv

LEMMA ReallocMoveInv ==
  ASSUME Inv, NEW h \in Handles, NEW b \in Buffers, ReallocMove(h, b)
  PROVE  Inv'
<1> USE SharedBufferAssumption
<1>1. buf[h] \in Buffers /\ alive[buf[h]] /\ buf[h] # b
  BY DEF ReallocMove, Inv, TypeOK, Shape, NoUseAfterFree
<1>2. \A g \in Handles : buf[g] # b /\ next[g] # b
  BY DeadUnknown DEF ReallocMove
<1>3. \A g \in Handles : buf[g] = buf[h] => g = h
  BY DEF ReallocMove, Inv, Exclusive
<1>4. \A g \in Handles : next[g] # buf[h]
  BY <1>1 DEF Inv, NextPrivate
<1>5. next[h] = NoBuffer
  BY DEF ReallocMove, Inv, Shape
<1>6. TypeOK'
  BY <1>1 DEF Inv, TypeOK, ReallocMove, Goto, PC
<1>7. (Shape /\ NextPrivate /\ Exclusive /\ NoUseAfterFree /\ NoLeak)'
  BY <1>1, <1>2, <1>3, <1>4, <1>5
     DEF Inv, TypeOK, Shape, NextPrivate, Exclusive, NoUseAfterFree, NoLeak,
         ReallocMove, Goto
<1>8. RefsCountOwners'
  <2> SUFFICES ASSUME NEW c \in Buffers, alive'[c]
               PROVE mRefs'[c] = Cardinality(Owners(c)')
    BY DEF RefsCountOwners
  <2>1. CASE c = b
    <3>1. Owners(c)' = {h}
      BY <1>2, <2>1 DEF Owners, ReallocMove, Goto, Inv, TypeOK
    <3>2. Owners(buf[h]) = {h}
      BY <1>3, <1>4 DEF Owners, ReallocMove
    <3>3. mRefs[buf[h]] = 1
      BY <1>1, <3>2, OneOwner DEF Inv, RefsCountOwners
    <3> QED
      BY <2>1, <3>1, <3>3, OneOwner DEF ReallocMove, Inv, TypeOK
  <2>2. CASE c # b
    <3>1. c # buf[h]
      BY <1>1, <2>2 DEF ReallocMove, Inv, TypeOK
    <3>2. Owners(c)' = Owners(c)
      BY <2>2, <3>1 DEF Owners, ReallocMove, Goto, Inv, TypeOK
    <3> QED
      BY <2>2, <3>1, <3>2 DEF ReallocMove, Inv, TypeOK, RefsCountOwners
  <2> QED
    BY <2>1, <2>2
<1> QED
  BY <1>6, <1>7, <1>8 DEF Inv

LEMMA AllocInv ==
  ASSUME Inv, NEW h \in Handles, NEW b \in Buffers, Alloc(h, b)
  PROVE  Inv'
<1> USE SharedBufferAssumption
<1>1. \A g \in Handles : buf[g] # b /\ next[g] # b
  BY DeadUnknown DEF Alloc, Malloc
<1>2. next[h] = NoBuffer /\ op[h] # "release"
  BY DEF Alloc, Inv, Shape
<1>3. TypeOK'
  BY DEF Inv, TypeOK, Alloc, Malloc, Goto, PC
<1>4. (Shape /\ NextPrivate /\ Exclusive /\ NoUseAfterFree /\ NoLeak)'
  BY <1>1, <1>2
     DEF Inv, TypeOK, Shape, NextPrivate, Exclusive, NoUseAfterFree, NoLeak,
         Alloc, Malloc, Goto
<1>5. RefsCountOwners'
  <2> SUFFICES ASSUME NEW c \in Buffers, alive'[c]
               PROVE mRefs'[c] = Cardinality(Owners(c)')
    BY DEF RefsCountOwners
  <2>1. CASE c = b
    <3>1. Owners(c)' = {h}
      BY <1>1, <2>1 DEF Owners, Alloc, Goto, Inv, TypeOK
    <3> QED
      BY <2>1, <3>1, OneOwner DEF Alloc, Malloc, Inv, TypeOK
  <2>2. CASE c # b
    <3>1. Owners(c)' = Owners(c)
      BY <1>2, <2>2 DEF Owners, Alloc, Goto, Inv, TypeOK
    <3> QED
      BY <2>2, <3>1 DEF Alloc, Malloc, Inv, TypeOK, RefsCountOwners
  <2> QED
    BY <2>1, <2>2
<1> QED
  BY <1>3, <1>4, <1>5 DEF Inv

\* The last reference goes, after the onlyOwner() test of release() or as the
\* result of fetch_sub(): in both cases the handle is alone with the buffer.
LEMMA DropLastInv ==
  ASSUME Inv, NEW h \in Handles, RelStore(h) \/ RelSubLast(h)
  PROVE  Inv'
<1> USE SharedBufferAssumption
<1> DEFINE b == buf[h]
<1>1. b \in Buffers /\ alive[b]
  BY DEF RelStore, RelSubLast, Inv, TypeOK, Shape, NoUseAfterFree
<1>2. \A g \in Handles : buf[g] = b => g = h
  <2>1. CASE RelStore(h)
    BY <2>1 DEF RelStore, Inv, Exclusive
  <2>2. CASE RelSubLast(h)
    BY <2>2, <1>1, SoleOwner DEF RelSubLast
  <2> QED
    BY <2>1, <2>2
<1>3. \A g \in Handles : next[g] # b
  BY <1>1 DEF Inv, NextPrivate
<1> USE DEF RelStore, RelSubLast, Goto
<1>4. TypeOK'
  BY <1>1 DEF Inv, TypeOK, PC
<1>5. (Shape /\ NextPrivate /\ Exclusive /\ NoUseAfterFree /\ NoLeak)'
  BY <1>1, <1>2
     DEF Inv, TypeOK, Shape, NextPrivate, Exclusive, NoUseAfterFree, NoLeak
<1>6. RefsCountOwners'
  <2> SUFFICES ASSUME NEW c \in Buffers, alive'[c]
               PROVE mRefs'[c] = Cardinality(Owners(c)')
    BY DEF RefsCountOwners
  <2>1. CASE c = b
    <3>1. Owners(c)' = {}
      BY <1>2, <1>3, <2>1 DEF Owners, Inv, TypeOK
    <3> QED
      BY <2>1, <3>1, NoOwner DEF Inv, TypeOK
  <2>2. CASE c # b
    <3>1. Owners(c)' = Owners(c)
      BY <2>2 DEF Owners, Inv, TypeOK
    <3> QED
      BY <2>2, <3>1 DEF Inv, TypeOK, RefsCountOwners
  <2> QED
    BY <2>1, <2>2
<1> QED
  BY <1>4, <1>5, <1>6 DEF Inv

LEMMA RelSubInv ==
  ASSUME Inv, NEW h \in Handles, RelSub(h)
  PROVE  Inv'
<1> USE SharedBufferAssumption
<1> DEFINE b == buf[h]
<1>1. b \in Buffers /\ alive[b]
  BY DEF RelSub, Inv, TypeOK, Shape, NoUseAfterFree
<1>2. \A g \in Handles : next[g] # b
  BY <1>1 DEF Inv, NextPrivate
<1>3. h \in Owners(b)
  BY DEF Owners, RelSub
<1>4. mRefs[b] = Cardinality(Owners(b)) /\ mRefs[b] # 1
  BY <1>1 DEF RelSub, Inv, RefsCountOwners
<1>5. PICK k \in Handles : k # h /\ buf[k] = b
  <2>1. Owners(b) # {h}
    BY <1>4, OneOwner
  <2> QED
    BY <1>2, <1>3, <2>1 DEF Owners
<1>6. next[h] = NoBuffer <=> op[h] = "release"
  BY DEF RelSub, Inv, Shape
<1>7. mRefs[b] > 0
  <2>1. Cardinality(Owners(b)) # 0
    BY <1>3, OwnersFinite, FS_EmptySet
  <2> QED
    BY <1>4, <2>1, OwnersFinite, CountIsNat
<1> USE DEF RelSub, Finish, Goto
<1>8. TypeOK'
  BY <1>1, <1>7 DEF Inv, TypeOK, PC
<1>9. (Shape /\ NextPrivate /\ Exclusive /\ NoUseAfterFree)'
  BY <1>6 DEF Inv, TypeOK, Shape, NextPrivate, Exclusive, NoUseAfterFree
<1>10. NoLeak'
  <2> SUFFICES ASSUME NEW c \in Buffers, alive'[c]
               PROVE \E g \in Handles : c \in {buf'[g], next'[g]}
    BY DEF NoLeak
  <2>1. CASE c = b
    BY <1>5, <2>1 DEF Inv, TypeOK
  <2>2. CASE c # b
    <3>1. PICK g \in Handles : c \in {buf[g], next[g]}
      BY DEF Inv, NoLeak
    <3> QED
      BY <2>2, <3>1 DEF Inv, TypeOK
  <2> QED
    BY <2>1, <2>2
<1>11. RefsCountOwners'
  <2> SUFFICES ASSUME NEW c \in Buffers, alive'[c]
               PROVE mRefs'[c] = Cardinality(Owners(c)')
    BY DEF RefsCountOwners
  <2>1. CASE c = b
    <3>1. Owners(c)' = Owners(c) \ {h}
      BY <1>2, <2>1 DEF Owners, Inv, TypeOK
    <3>2. Cardinality(Owners(c)') = Cardinality(Owners(c)) - 1
      BY <1>3, <2>1, <3>1, OwnersFinite, RemoveOwner
    <3> QED
      BY <1>4, <2>1, <3>2 DEF Inv, TypeOK
  <2>2. CASE c # b
    <3>1. Owners(c)' = Owners(c)
      BY <2>2 DEF Owners, Inv, TypeOK
    <3> QED
      BY <2>2, <3>1 DEF Inv, TypeOK, RefsCountOwners
  <2> QED
    BY <2>1, <2>2
<1> QED
  BY <1>8, <1>9, <1>10, <1>11 DEF Inv

LEMMA RelFreeInv ==
  ASSUME Inv, NEW h \in Handles, RelFree(h)
  PROVE  Inv'
<1> USE SharedBufferAssumption
<1> DEFINE b == buf[h]
<1>1. b \in Buffers /\ alive[b]
  BY DEF RelFree, Inv, TypeOK, Shape, NoUseAfterFree
<1>2. \A g \in Handles : next[g] # b
  BY <1>1 DEF Inv, NextPrivate
<1>3. \A g \in Handles : buf[g] = b => g = h
  BY DEF RelFree, Inv, Exclusive
<1>4. next[h] = NoBuffer <=> op[h] = "release"
  BY DEF RelFree, Inv, Shape
<1> USE DEF RelFree, Finish, Goto
<1>5. TypeOK'
  BY DEF Inv, TypeOK, PC
<1>6. (Shape /\ NextPrivate /\ Exclusive /\ NoUseAfterFree)'
  BY <1>1, <1>2, <1>3, <1>4
     DEF Inv, TypeOK, Shape, NextPrivate, Exclusive, NoUseAfterFree
<1>7. NoLeak'
  BY <1>1 DEF Inv, TypeOK, NoLeak
<1>8. RefsCountOwners'
  <2> SUFFICES ASSUME NEW c \in Buffers, alive'[c]
               PROVE mRefs'[c] = Cardinality(Owners(c)')
    BY DEF RefsCountOwners
  <2>1. c # b /\ alive[c]
    BY <1>1 DEF Inv, TypeOK
  <2>2. Owners(c)' = Owners(c)
    BY <2>1 DEF Owners, Inv, TypeOK
  <2> QED
    BY <2>1, <2>2 DEF Inv, RefsCountOwners
<1> QED
  BY <1>5, <1>6, <1>7, <1>8 DEF Inv

LEMMA NextInv == Inv /\ [Next]_vars => Inv'
<1> SUFFICES ASSUME Inv, [Next]_vars PROVE Inv'
  OBVIOUS
<1>1. CASE UNCHANGED vars
  <2>1. \A b : Owners(b)' = Owners(b)
    BY <1>1 DEF vars, Owners
  <2> QED
    BY <1>1, <2>1 DEF vars, Inv, TypeOK, Shape, NextPrivate, Exclusive,
                      NoUseAfterFree, RefsCountOwners, NoLeak
<1>2. ASSUME NEW h \in Handles, Step(h) PROVE Inv'
  BY <1>2, TestInv, ReallocMoveInv, AllocInv, CopyWriteInv, DropLastInv,
     RelSubInv, RelFreeInv, SharedBufferAssumption DEF Step
<1> QED
  BY <1>1, <1>2, NewInv, AcquireInv, CallInv DEF Next

\* At every step of every interleaving of alloc, acquire, edit, editResize,
\* attemptEdit, reset and release the invariant holds.
THEOREM SharedBufferInv == Spec => []Inv
  BY InitInv, NextInv, PTL DEF Spec

\* A String8 or ByteBuffer never reaches memory that another object's edit or
\* destructor has freed.
THEOREM SharedBufferNoUseAfterFree == Spec => []NoUseAfterFree
<1>1. Inv => NoUseAfterFree
  BY DEF Inv
<1> QED
  BY <1>1, SharedBufferInv, PTL

\* mRefs of an allocated buffer is the number of its owners.
THEOREM SharedBufferCounts == Spec => []RefsCountOwners
<1>1. Inv => RefsCountOwners
  BY DEF Inv
<1> QED
  BY <1>1, SharedBufferInv, PTL

\* An allocated buffer always has a handle that will free it, after every
\* failure of alloc() and realloc() too.
THEOREM SharedBufferNoLeak == Spec => []NoLeak
<1>1. Inv => NoLeak
  BY DEF Inv
<1> QED
  BY <1>1, SharedBufferInv, PTL

\* release() frees a buffer once, by the one handle that is left.
THEOREM SharedBufferFreedOnce == Spec => []FreedOnce
<1>1. Inv => FreedOnce
  BY DEF Inv, Exclusive, FreedOnce
<1> QED
  BY <1>1, SharedBufferInv, PTL

-----------------------------------------------------------------------------
(* Copy-on-write is invisible *)

\* Only the buffers a step writes to can change the value of a handle.
LEMMA SameValue ==
  ASSUME NEW h \in Handles, buf'[h] = buf[h],
         buf[h] # NoBuffer => data'[buf[h]] = data[buf[h]]
  PROVE  HandleValue'[h] = HandleValue[h]
  BY DEF HandleValue

\* A step that leaves every other handle's value alone is a Put or a Drop of
\* the abstract store.
LEMMA OneHandleChanges ==
  ASSUME TypeOK', NEW h \in Handles,
         \A g \in Handles : g # h => HandleValue'[g] = HandleValue[g]
  PROVE  Store!Next
<1> DEFINE v == HandleValue'[h]
<1>1. HandleValue' = [HandleValue EXCEPT ![h] = v]
  BY DEF HandleValue
<1>2. v \in Data \cup {NoBuffer}
  BY DEF HandleValue, TypeOK
<1> QED
  BY <1>1, <1>2 DEF Store!Next, Store!Put, Store!Drop

\* Steps that change neither pointers nor contents are stutters.
LEMMA NothingChanges ==
  ASSUME UNCHANGED <<data, buf>>
  PROVE  UNCHANGED HandleValue
  BY DEF HandleValue

LEMMA AcquireImplements ==
  ASSUME Inv, NEW g \in Handles, NEW h \in Handles, Acquire(g, h)
  PROVE  Store!Next
<1>1. HandleValue[g] = data[buf[g]] /\ HandleValue[h] = NoBuffer
  BY DEF HandleValue, Acquire
<1>2. HandleValue[g] # NoBuffer
  BY <1>1, SharedBufferAssumption DEF Acquire, Inv, TypeOK
<1>3. HandleValue' = [HandleValue EXCEPT ![h] = HandleValue[g]]
  BY <1>1, <1>2 DEF Acquire, HandleValue, Inv, TypeOK
<1> QED
  BY <1>1, <1>2, <1>3 DEF Store!Next, Store!CopyFrom

LEMMA StepImplements == Inv /\ Inv' /\ [Next]_vars => [Store!Next]_HandleValue
<1> SUFFICES ASSUME Inv, Inv', [Next]_vars
             PROVE Store!Next \/ UNCHANGED HandleValue
  OBVIOUS
<1>0. TypeOK'
  BY DEF Inv
<1>1. ASSUME NEW h \in Handles, NEW b \in Buffers, NEW d \in Data, New(h, b, d)
      PROVE Store!Next
  <2>1. \A g \in Handles : buf[g] # b
    BY <1>1, DeadUnknown DEF New, Malloc
  <2>2. \A g \in Handles : g # h => HandleValue'[g] = HandleValue[g]
    BY <1>1, <2>1, SameValue DEF New, Inv, TypeOK
  <2> QED
    BY <1>0, <2>2, OneHandleChanges
<1>2. ASSUME NEW h \in Handles, NEW b \in Buffers, ReallocMove(h, b) \/ Alloc(h, b)
      PROVE Store!Next
  <2>1. \A g \in Handles : buf[g] # b
    BY <1>2, DeadUnknown DEF ReallocMove, Alloc, Malloc
  <2>2. \A g \in Handles : g # h => HandleValue'[g] = HandleValue[g]
    BY <1>2, <2>1, SameValue DEF ReallocMove, Alloc, Inv, TypeOK
  <2> QED
    BY <1>0, <2>2, OneHandleChanges
<1>3. ASSUME NEW h \in Handles, Copy(h) PROVE Store!Next
  <2>1. \A g \in Handles : buf[g] # next[h]
    BY <1>3 DEF Copy, Inv, Shape, NextPrivate
  <2>2. \A g \in Handles : g # h => HandleValue'[g] = HandleValue[g]
    BY <1>3, <2>1, SameValue DEF Copy, Inv, TypeOK
  <2> QED
    BY <1>0, <2>2, OneHandleChanges
<1>4. ASSUME NEW h \in Handles, NEW d \in Data, Write(h, d) PROVE Store!Next
  <2>1. \A g \in Handles : g # h => buf[g] # buf[h]
    BY <1>4 DEF Write, Inv, Exclusive
  <2>2. \A g \in Handles : g # h => HandleValue'[g] = HandleValue[g]
    BY <1>4, <2>1, SameValue DEF Write, Inv, TypeOK
  <2> QED
    BY <1>0, <2>2, OneHandleChanges
<1>5. ASSUME NEW h \in Handles, RelSub(h) \/ RelFree(h) PROVE Store!Next
  <2>1. \A g \in Handles : g # h => HandleValue'[g] = HandleValue[g]
    BY <1>5, SameValue DEF RelSub, RelFree, Finish, Inv, TypeOK
  <2> QED
    BY <1>0, <2>1, OneHandleChanges
<1>6. ASSUME NEW h \in Handles,
             \/ OnlyOwner(h) \/ ReallocInPlace(h) \/ ReallocFail(h)
             \/ AllocFail(h) \/ RelOwner(h) \/ RelStore(h) \/ RelSubLast(h)
             \/ \E o \in Ops : Call(h, o)
      PROVE UNCHANGED HandleValue
  BY <1>6, NothingChanges
     DEF OnlyOwner, ReallocInPlace, ReallocFail, AllocFail, RelOwner, RelStore,
         RelSubLast, Call
<1>7. CASE UNCHANGED vars
  BY <1>7, NothingChanges DEF vars
<1> QED
  BY <1>1, <1>2, <1>3, <1>4, <1>5, <1>6, <1>7, AcquireImplements DEF Next, Step

\* Sharing buffers is an implementation of objects with values of their own: a
\* write through one handle never shows through another.
THEOREM SharedBufferImplementsStore == Spec => CopyOnWrite
<1>1. Init => Store!Init
  BY DEF Init, HandleValue, Store!Init
<1> QED
  BY <1>1, SharedBufferInv, StepImplements, PTL DEF Spec, CopyOnWrite, Store!Spec

-----------------------------------------------------------------------------
(* Only writes change a value *)

Releasing == {"relOwner", "relStore", "relSub", "relFree"}

\* From memcpy() until release() has returned, the new buffer of an operation
\* that keeps the data has the data of the old one.
CopyIsThere == \A h \in Handles :
    pc[h] \in Releasing /\ op[h] \notin {"reset", "release"} => data[next[h]] = data[buf[h]]

\* Where no contents of the two buffers of h change, and h goes nowhere, nothing does.
LEMMA CopyStays ==
  ASSUME CopyIsThere, NEW h \in Handles,
         buf'[h] = buf[h], next'[h] = next[h], op'[h] = op[h],
         pc'[h] \in Releasing /\ op[h] \notin {"reset", "release"} =>
            /\ pc[h] \in Releasing
            /\ data'[next[h]] = data[next[h]] /\ data'[buf[h]] = data[buf[h]]
  PROVE  pc'[h] \in Releasing /\ op'[h] \notin {"reset", "release"} => data'[next'[h]] = data'[buf'[h]]
  BY DEF CopyIsThere

\* A step that writes b only, which is not of h.
LEMMA OtherCopyStays ==
  ASSUME Inv, CopyIsThere, NEW g \in Handles, NEW h \in Handles, g # h, NEW b \in Buffers,
         buf[h] # b, next[h] # b,
         buf'[h] = buf[h], next'[h] = next[h], op'[h] = op[h], pc'[h] = pc[h],
         \A c \in Buffers : c # b => data'[c] = data[c]
  PROVE  pc'[h] \in Releasing /\ op'[h] \notin {"reset", "release"} => data'[next'[h]] = data'[buf'[h]]
<1>1. pc[h] \in Releasing /\ op[h] # "release" => buf[h] \in Buffers /\ next[h] \in Buffers
  BY DEF Inv, TypeOK, Shape, Releasing
<1> QED
  BY <1>1, CopyStays

LEMMA InitCopy == Init => CopyIsThere
  BY DEF Init, CopyIsThere, Releasing

LEMMA NextCopy == Inv /\ CopyIsThere /\ [Next]_vars => CopyIsThere'
<1> SUFFICES ASSUME Inv, CopyIsThere, [Next]_vars PROVE CopyIsThere'
  OBVIOUS
<1>1. TypeOK /\ Shape
  BY DEF Inv
<1>2. ASSUME NEW g \in Handles, NEW b \in Buffers, NEW d \in Data, New(g, b, d) PROVE CopyIsThere'
  <2>1. \A h \in Handles : buf[h] # b /\ next[h] # b
    BY <1>2, DeadUnknown DEF New, Malloc
  <2>2. pc'[g] = "idle"
    BY <1>2 DEF New
  <2>3. ASSUME NEW h \in Handles, h # g
        PROVE  pc'[h] \in Releasing /\ op'[h] \notin {"reset", "release"} => data'[next'[h]] = data'[buf'[h]]
    BY <1>1, <1>2, <2>1, <2>3, OtherCopyStays DEF New, TypeOK
  <2> QED
    BY <2>2, <2>3 DEF CopyIsThere, Releasing
<1>3. ASSUME NEW g \in Handles, NEW h \in Handles, Acquire(g, h) PROVE CopyIsThere'
  BY <1>1, <1>3 DEF Acquire, CopyIsThere, TypeOK, Releasing
<1>4. ASSUME NEW h \in Handles, NEW o \in Ops, Call(h, o) PROVE CopyIsThere'
  BY <1>1, <1>4 DEF Call, Goto, Start, CopyIsThere, TypeOK, Releasing
<1>5. ASSUME NEW h \in Handles,
             OnlyOwner(h) \/ ReallocInPlace(h) \/ ReallocFail(h) \/ AllocFail(h)
      PROVE  CopyIsThere'
  BY <1>1, <1>5 DEF OnlyOwner, ReallocInPlace, ReallocFail, AllocFail, Goto, CopyIsThere, TypeOK, Releasing
<1>6. ASSUME NEW g \in Handles, NEW b \in Buffers, ReallocMove(g, b) \/ Alloc(g, b) PROVE CopyIsThere'
  <2>1. \A h \in Handles : buf[h] # b /\ next[h] # b
    BY <1>6, DeadUnknown DEF ReallocMove, Alloc, Malloc
  <2>2. pc'[g] \in Releasing => op'[g] = "reset"
    BY <1>1, <1>6 DEF ReallocMove, Alloc, Goto, TypeOK, Releasing
  <2>3. ASSUME NEW h \in Handles, h # g
        PROVE  pc'[h] \in Releasing /\ op'[h] \notin {"reset", "release"} => data'[next'[h]] = data'[buf'[h]]
    BY <1>1, <1>6, <2>1, <2>3, OtherCopyStays DEF ReallocMove, Alloc, Goto, TypeOK
  <2> QED
    BY <2>2, <2>3 DEF CopyIsThere
<1>7. ASSUME NEW g \in Handles, Copy(g) PROVE CopyIsThere'
  <2>1. next[g] \in Buffers /\ buf[g] \in Buffers /\ next[g] # buf[g]
    BY <1>1, <1>7 DEF Copy, TypeOK, Shape, Inv, NextPrivate
  <2>2. \A h \in Handles : buf[h] # next[g] /\ (h # g => next[h] # next[g])
    BY <1>1, <1>7 DEF Copy, Shape, Inv, NextPrivate
  <2>3. data'[next'[g]] = data'[buf'[g]]
    BY <1>1, <1>7, <2>1 DEF Copy, TypeOK
  <2>4. ASSUME NEW h \in Handles, h # g
        PROVE  pc'[h] \in Releasing /\ op'[h] \notin {"reset", "release"} => data'[next'[h]] = data'[buf'[h]]
    BY <1>1, <1>7, <2>1, <2>2, <2>4, OtherCopyStays DEF Copy, Goto, TypeOK
  <2> QED
    BY <2>3, <2>4 DEF CopyIsThere
<1>8. ASSUME NEW g \in Handles, NEW d \in Data, Write(g, d) PROVE CopyIsThere'
  <2>1. buf[g] \in Buffers
    BY <1>1, <1>8 DEF Write, TypeOK, Shape
  <2>2. \A h \in Handles : h # g => buf[h] # buf[g] /\ next[h] # buf[g]
    <3>1. \A h \in Handles : h # g => buf[h] # buf[g]
      BY <1>8, <2>1 DEF Write, Inv, Exclusive
    <3>2. \A h \in Handles : next[h] # NoBuffer => buf[g] # next[h]
      BY DEF Inv, NextPrivate
    <3>3. buf[g] # NoBuffer
      BY <2>1, SharedBufferAssumption
    <3> QED
      BY <3>1, <3>2, <3>3
  <2>3. pc'[g] = "idle"
    BY <1>1, <1>8 DEF Write, Goto, TypeOK
  <2>4. ASSUME NEW h \in Handles, h # g
        PROVE  pc'[h] \in Releasing /\ op'[h] \notin {"reset", "release"} => data'[next'[h]] = data'[buf'[h]]
    BY <1>1, <1>8, <2>1, <2>2, <2>4, OtherCopyStays DEF Write, Goto, TypeOK
  <2> QED
    BY <2>3, <2>4 DEF CopyIsThere, Releasing
<1>9. ASSUME NEW h \in Handles, RelOwner(h) \/ RelStore(h) \/ RelSubLast(h) PROVE CopyIsThere'
  BY <1>1, <1>9 DEF RelOwner, RelStore, RelSubLast, Goto, CopyIsThere, TypeOK, Releasing
<1>10. ASSUME NEW h \in Handles, RelSub(h) \/ RelFree(h) PROVE CopyIsThere'
  BY <1>1, <1>10 DEF RelSub, RelFree, Finish, Goto, CopyIsThere, TypeOK, Releasing
<1>11. CASE UNCHANGED vars
  BY <1>11 DEF vars, CopyIsThere
<1> QED
  BY <1>2, <1>3, <1>4, <1>5, <1>6, <1>7, <1>8, <1>9, <1>10, <1>11 DEF Next, Step

\* What a step may do to the value of one handle.
Keeps(h) == HandleValue'[h] # HandleValue[h] /\ buf[h] # NoBuffer =>
                pc[h] = "write" \/ op[h] \in {"reset", "release"}

LEMMA StepKeeps == Inv /\ CopyIsThere /\ [Next]_vars => \A h \in Handles : Keeps(h)
<1> SUFFICES ASSUME Inv, CopyIsThere, [Next]_vars, NEW h \in Handles PROVE Keeps(h)
  OBVIOUS
<1>1. TypeOK /\ Shape
  BY DEF Inv
<1>2. ASSUME buf'[h] = buf[h], buf[h] # NoBuffer => data'[buf[h]] = data[buf[h]] PROVE Keeps(h)
  BY <1>2, SameValue DEF Keeps
<1>3. ASSUME NEW g \in Handles, NEW b \in Buffers, NEW d \in Data, New(g, b, d) PROVE Keeps(h)
  <2>1. buf[h] # b
    BY <1>3, DeadUnknown DEF New, Malloc
  <2>2. CASE g = h
    BY <1>3, <2>2 DEF New, Keeps
  <2>3. CASE g # h
    BY <1>1, <1>2, <1>3, <2>1, <2>3 DEF New, TypeOK
  <2> QED
    BY <2>2, <2>3
<1>4. ASSUME NEW f \in Handles, NEW g \in Handles, Acquire(f, g) PROVE Keeps(h)
  <2>1. CASE g = h
    BY <1>4, <2>1 DEF Acquire, Keeps
  <2>2. CASE g # h
    BY <1>1, <1>2, <1>4, <2>2 DEF Acquire, TypeOK
  <2> QED
    BY <2>1, <2>2
<1>5. ASSUME NEW g \in Handles, NEW b \in Buffers, ReallocMove(g, b) PROVE Keeps(h)
  <2>1. buf[h] # b
    BY <1>5, DeadUnknown DEF ReallocMove
  <2>2. CASE g # h
    BY <1>1, <1>2, <1>5, <2>1, <2>2 DEF ReallocMove, TypeOK
  <2>3. CASE g = h
    <3>1. b # NoBuffer /\ buf'[h] = b /\ data'[b] = data[buf[h]]
      BY <1>1, <1>5, <2>3, SharedBufferAssumption DEF ReallocMove, TypeOK
    <3>2. HandleValue'[h] = data[buf[h]]
      BY <3>1 DEF HandleValue
    <3>3. buf[h] # NoBuffer => HandleValue[h] = data[buf[h]]
      BY DEF HandleValue
    <3> QED
      BY <3>2, <3>3 DEF Keeps
  <2> QED
    BY <2>2, <2>3
<1>6. ASSUME NEW g \in Handles, NEW b \in Buffers, Alloc(g, b) PROVE Keeps(h)
  <2>1. buf[h] # b
    BY <1>6, DeadUnknown DEF Alloc, Malloc
  <2> QED
    BY <1>1, <1>2, <1>6, <2>1 DEF Alloc, TypeOK
<1>7. ASSUME NEW g \in Handles, Copy(g) PROVE Keeps(h)
  <2>1. buf[h] # next[g]
    BY <1>1, <1>7 DEF Copy, Shape, Inv, NextPrivate
  <2> QED
    BY <1>1, <1>2, <1>7, <2>1 DEF Copy, TypeOK
<1>8. ASSUME NEW g \in Handles, NEW d \in Data, Write(g, d) PROVE Keeps(h)
  <2>1. CASE g = h
    BY <1>8, <2>1 DEF Write, Keeps
  <2>2. CASE g # h
    <3>1. buf[h] # buf[g]
      BY <1>8, <2>2 DEF Write, Inv, Exclusive
    <3> QED
      BY <1>1, <1>2, <1>8, <3>1 DEF Write, TypeOK
  <2> QED
    BY <2>1, <2>2
<1>9. ASSUME NEW g \in Handles, RelSub(g) \/ RelFree(g) PROVE Keeps(h)
  <2>1. CASE g # h
    BY <1>1, <1>2, <1>9, <2>1 DEF RelSub, RelFree, Finish, TypeOK
  <2>2. CASE g = h /\ op[h] \in {"reset", "release"}
    BY <2>2 DEF Keeps
  <2>3. CASE g = h /\ op[h] \notin {"reset", "release"}
    <3>1. pc[h] \in Releasing
      BY <1>9, <2>3 DEF RelSub, RelFree, Releasing
    <3>2. data[next[h]] = data[buf[h]] /\ next[h] # NoBuffer
      BY <1>1, <2>3, <3>1 DEF CopyIsThere, Shape, Releasing
    <3>3. buf'[h] = next[h] /\ data' = data
      BY <1>1, <1>9, <2>3 DEF RelSub, RelFree, Finish, TypeOK
    <3>4. HandleValue'[h] = data[buf[h]]
      BY <3>2, <3>3 DEF HandleValue
    <3>5. buf[h] # NoBuffer => HandleValue[h] = data[buf[h]]
      BY DEF HandleValue
    <3> QED
      BY <3>4, <3>5 DEF Keeps
  <2> QED
    BY <2>1, <2>2, <2>3
<1>10. ASSUME NEW g \in Handles,
             \/ OnlyOwner(g) \/ ReallocInPlace(g) \/ ReallocFail(g)
             \/ AllocFail(g) \/ RelOwner(g) \/ RelStore(g) \/ RelSubLast(g)
             \/ \E o \in Ops : Call(g, o)
       PROVE  Keeps(h)
  BY <1>2, <1>10
     DEF OnlyOwner, ReallocInPlace, ReallocFail, AllocFail, RelOwner, RelStore, RelSubLast, Call
<1>11. CASE UNCHANGED vars
  BY <1>2, <1>11 DEF vars
<1> QED
  BY <1>3, <1>4, <1>5, <1>6, <1>7, <1>8, <1>9, <1>10, <1>11 DEF Next, Step

\* The value of a handle changes where its user writes, resets or releases it:
\* edit() and editResize() hand over the data they found, also when the buffer
\* moves or another handle gives it up meanwhile.
THEOREM SharedBufferOnlyWrites == Spec => OnlyWritesChange
<1>1. Spec => []CopyIsThere
  BY InitCopy, NextCopy, SharedBufferInv, PTL DEF Spec
<1>2. Inv /\ CopyIsThere /\ [Next]_vars =>
        [\A h \in Handles : HandleValue'[h] # HandleValue[h] /\ buf[h] # NoBuffer =>
            pc[h] = "write" \/ op[h] \in {"reset", "release"}]_vars
  BY StepKeeps DEF Keeps
<1> QED
  BY <1>1, <1>2, SharedBufferInv, PTL DEF Spec, OnlyWritesChange
=============================================================================
