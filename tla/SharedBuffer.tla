---------------------------- MODULE SharedBuffer ----------------------------
(***************************************************************************)
(* eular::SharedBuffer, the reference-counted storage under String8 and    *)
(* ByteBuffer.  An object (a handle) points at a buffer; copying the       *)
(* object shares the buffer and changing it first obtains a buffer nobody  *)
(* else has.                                                               *)
(*                                                                         *)
(* Handles of different threads share buffers, so every access to mRefs    *)
(* and every allocation is a step of its own, and the operations of        *)
(* different handles interleave.  One handle is used by one thread at a    *)
(* time (the classes document no more), so a handle takes part in one      *)
(* operation at a time, and its own pc says how far that operation is.     *)
(***************************************************************************)
EXTENDS Integers, FiniteSets

CONSTANTS Handles,      \* the String8 and ByteBuffer objects
          Buffers,      \* the addresses malloc() may return
          Data,         \* the contents a buffer may have
          Blank,        \* the contents of memory that is not initialised
          NoBuffer      \* the null pointer

ASSUME SharedBufferAssumption ==
    /\ IsFiniteSet(Handles)
    /\ Blank \in Data
    /\ NoBuffer \notin Buffers
    /\ NoBuffer \notin Data

VARIABLES alive,        \* alive[b]: b was malloc()ed and not yet free()d
          mRefs,        \* the reference count in the header of b
          data,         \* the bytes behind the header of b
          buf,          \* the buffer the handle points at
          next,         \* the buffer its operation has obtained so far
          op,           \* the operation the handle is in
          pc            \* the next step of that operation

vars == <<alive, mRefs, data, buf, next, op, pc>>

Ops == {"edit", "editResize", "attemptEdit", "reset", "release"}

PC == {"idle",
       "onlyOwner",     \* about to test onlyOwner() in edit, editResize, attemptEdit
       "realloc",       \* editResize of the only owner: about to realloc
       "alloc",         \* about to alloc the new buffer
       "copy",          \* about to memcpy into it
       "relOwner",      \* release(): about to test onlyOwner()
       "relStore",      \* release() of the only owner: about to store 0
       "relSub",        \* release(): about to fetch_sub
       "relFree",       \* release() of the last owner: about to dealloc
       "write"}         \* the caller writes through the pointer it was given

Init == /\ alive = [b \in Buffers |-> FALSE]
        /\ mRefs = [b \in Buffers |-> 0]
        /\ data = [b \in Buffers |-> Blank]
        /\ buf = [h \in Handles |-> NoBuffer]
        /\ next = [h \in Handles |-> NoBuffer]
        /\ op = [h \in Handles |-> "release"]
        /\ pc = [h \in Handles |-> "idle"]

Goto(h, l) == pc' = [pc EXCEPT ![h] = l]

\* malloc() of a buffer with one reference; the contents are what was there.
Malloc(b) == /\ b \in Buffers
             /\ ~ alive[b]
             /\ alive' = [alive EXCEPT ![b] = TRUE]
             /\ mRefs' = [mRefs EXCEPT ![b] = 1]

-----------------------------------------------------------------------------
(* Operations start *)

\* A constructor: alloc() and fill it before anybody can see it.
New(h, b, d) == /\ pc[h] = "idle" /\ buf[h] = NoBuffer
                /\ Malloc(b)
                /\ data' = [data EXCEPT ![b] = d]
                /\ buf' = [buf EXCEPT ![h] = b]
                /\ UNCHANGED <<next, op, pc>>

\* Faulty variant: the copy takes the pointer and no reference.
AcquireNothing(g, h) == /\ pc[g] = "idle" /\ buf[g] # NoBuffer
                        /\ pc[h] = "idle" /\ buf[h] = NoBuffer
                        /\ buf' = [buf EXCEPT ![h] = buf[g]]
                        /\ UNCHANGED <<alive, mRefs, data, next, op, pc>>

\* A copy constructor: h takes g's pointer and acquires it (buffer.cpp:79,
\* string8.cpp:118).  The caller holds both objects meanwhile.
Acquire(g, h) == /\ pc[g] = "idle" /\ buf[g] # NoBuffer
                 /\ pc[h] = "idle" /\ buf[h] = NoBuffer
                 /\ mRefs' = [mRefs EXCEPT ![buf[g]] = @ + 1]
                 /\ buf' = [buf EXCEPT ![h] = buf[g]]
                 /\ UNCHANGED <<alive, data, next, op, pc>>

Start(o) == CASE o = "reset"   -> "alloc"
              [] o = "release" -> "relOwner"
              [] OTHER         -> "onlyOwner"

Call(h, o) == /\ pc[h] = "idle" /\ buf[h] # NoBuffer
              /\ op' = [op EXCEPT ![h] = o]
              /\ Goto(h, Start(o))
              /\ UNCHANGED <<alive, mRefs, data, buf, next>>

-----------------------------------------------------------------------------
(* edit(), editResize(), attemptEdit() and reset() *)

\* Faulty variant: a buffer with two owners is edited in place.
OnlyOwnerOffByOne(h) ==
    /\ pc[h] = "onlyOwner"
    /\ Goto(h, IF mRefs[buf[h]] <= 2
                 THEN IF op[h] = "editResize" THEN "realloc" ELSE "write"
                 ELSE IF op[h] = "attemptEdit" THEN "idle" ELSE "alloc")
    /\ UNCHANGED <<alive, mRefs, data, buf, next, op>>

\* onlyOwner(): mRefs is loaded once.  attemptEdit() of a shared buffer
\* returns null and the handle is as before.
OnlyOwner(h) ==
    /\ pc[h] = "onlyOwner"
    /\ Goto(h, IF mRefs[buf[h]] = 1
                 THEN IF op[h] = "editResize" THEN "realloc" ELSE "write"
                 ELSE IF op[h] = "attemptEdit" THEN "idle" ELSE "alloc")
    /\ UNCHANGED <<alive, mRefs, data, buf, next, op>>

\* editResize() of the only owner, when the size does not change or realloc()
\* extends the memory where it is.
ReallocInPlace(h) == /\ pc[h] = "realloc"
                     /\ Goto(h, "write")
                     /\ UNCHANGED <<alive, mRefs, data, buf, next, op>>

\* realloc() moves the header and the data to a new address and frees the old.
ReallocMove(h, b) ==
    /\ pc[h] = "realloc"
    /\ b \in Buffers /\ ~ alive[b]
    /\ alive' = [alive EXCEPT ![buf[h]] = FALSE, ![b] = TRUE]
    /\ mRefs' = [mRefs EXCEPT ![b] = mRefs[buf[h]]]
    /\ data' = [data EXCEPT ![b] = data[buf[h]]]
    /\ buf' = [buf EXCEPT ![h] = b]
    /\ Goto(h, "write")
    /\ UNCHANGED <<next, op>>

\* realloc() fails and editResize() falls through to alloc().
ReallocFail(h) == /\ pc[h] = "realloc"
                  /\ Goto(h, "alloc")
                  /\ UNCHANGED <<alive, mRefs, data, buf, next, op>>

\* Faulty variant: the caller of edit() gets the new buffer without the data.
AllocForgettingCopy(h, b) == /\ pc[h] = "alloc"
                             /\ Malloc(b)
                             /\ next' = [next EXCEPT ![h] = b]
                             /\ Goto(h, "relOwner")
                             /\ data' = [data EXCEPT ![b] = Blank]
                             /\ UNCHANGED <<buf, op>>

Alloc(h, b) == /\ pc[h] = "alloc"
               /\ Malloc(b)
               /\ next' = [next EXCEPT ![h] = b]
               /\ Goto(h, IF op[h] = "reset" THEN "relOwner" ELSE "copy")
               /\ data' = [data EXCEPT ![b] = Blank]
               /\ UNCHANGED <<buf, op>>

\* malloc() returns null: the operation returns null and releases nothing.
AllocFail(h) == /\ pc[h] = "alloc"
                /\ Goto(h, "idle")
                /\ UNCHANGED <<alive, mRefs, data, buf, next, op>>

Copy(h) == /\ pc[h] = "copy"
           /\ data' = [data EXCEPT ![next[h]] = data[buf[h]]]
           /\ Goto(h, "relOwner")
           /\ UNCHANGED <<alive, mRefs, buf, next, op>>

\* The caller of edit(), editResize(), attemptEdit() or reset() changes the
\* data it was given.
Write(h, d) == /\ pc[h] = "write"
               /\ data' = [data EXCEPT ![buf[h]] = d]
               /\ Goto(h, "idle")
               /\ UNCHANGED <<alive, mRefs, buf, next, op>>

-----------------------------------------------------------------------------
(* release() *)

\* release() has returned: the handle points at the new buffer, if there is
\* one (in release() itself next[h] is null).
Finish(h) == /\ buf' = [buf EXCEPT ![h] = next[h]]
             /\ next' = [next EXCEPT ![h] = NoBuffer]
             /\ Goto(h, IF op[h] = "release" THEN "idle" ELSE "write")

RelOwner(h) == /\ pc[h] = "relOwner"
               /\ Goto(h, IF mRefs[buf[h]] = 1 THEN "relStore" ELSE "relSub")
               /\ UNCHANGED <<alive, mRefs, data, buf, next, op>>

RelStore(h) == /\ pc[h] = "relStore"
               /\ mRefs' = [mRefs EXCEPT ![buf[h]] = 0]
               /\ Goto(h, "relFree")
               /\ UNCHANGED <<alive, data, buf, next, op>>

\* fetch_sub() returned 1: this was the last reference.
RelSubLast(h) == /\ pc[h] = "relSub"
                 /\ mRefs[buf[h]] = 1
                 /\ mRefs' = [mRefs EXCEPT ![buf[h]] = 0]
                 /\ Goto(h, "relFree")
                 /\ UNCHANGED <<alive, data, buf, next, op>>

RelSub(h) == /\ pc[h] = "relSub"
             /\ mRefs[buf[h]] # 1
             /\ mRefs' = [mRefs EXCEPT ![buf[h]] = @ - 1]
             /\ Finish(h)
             /\ UNCHANGED <<alive, data, op>>

RelFree(h) == /\ pc[h] = "relFree"
              /\ alive' = [alive EXCEPT ![buf[h]] = FALSE]
              /\ Finish(h)
              /\ UNCHANGED <<mRefs, data, op>>

-----------------------------------------------------------------------------
Step(h) == \/ OnlyOwner(h)
           \/ ReallocInPlace(h)
           \/ \E b \in Buffers : ReallocMove(h, b)
           \/ ReallocFail(h)
           \/ \E b \in Buffers : Alloc(h, b)
           \/ AllocFail(h)
           \/ Copy(h)
           \/ \E d \in Data : Write(h, d)
           \/ RelOwner(h)
           \/ RelStore(h)
           \/ RelSubLast(h)
           \/ RelSub(h)
           \/ RelFree(h)

Next == \E h \in Handles : \/ \E b \in Buffers, d \in Data : New(h, b, d)
                           \/ \E g \in Handles : Acquire(g, h)
                           \/ \E o \in Ops : Call(h, o)
                           \/ Step(h)

Spec == Init /\ [][Next]_vars

-----------------------------------------------------------------------------
TypeOK == /\ alive \in [Buffers -> BOOLEAN]
          /\ mRefs \in [Buffers -> Nat]
          /\ data \in [Buffers -> Data]
          /\ buf \in [Handles -> Buffers \cup {NoBuffer}]
          /\ next \in [Handles -> Buffers \cup {NoBuffer}]
          /\ op \in [Handles -> Ops]
          /\ pc \in [Handles -> PC]

\* The handles whose reference is counted in mRefs of b: those that point at
\* it and have not given the reference up in release(), and the one that just
\* allocated it.
Owners(b) == {h \in Handles : \/ buf[h] = b /\ pc[h] # "relFree"
                              \/ next[h] = b}

\* No handle is left with a buffer that another one freed: the onlyOwner()
\* shortcuts of release() (sharedbuffer.cpp:113) and editResize() (:65) and
\* the fetch_sub (:123) never free under a handle that still uses the buffer.
NoUseAfterFree == \A h \in Handles : /\ buf[h] # NoBuffer => alive[buf[h]]
                                     /\ next[h] # NoBuffer => alive[next[h]]

\* The count is the number of owners, also between the two halves of the
\* onlyOwner() shortcut.
RefsCountOwners == \A b \in Buffers : alive[b] => mRefs[b] = Cardinality(Owners(b))

\* No buffer is lost: while it is allocated some handle owns it, or is about
\* to free it.
NoLeak == \A b \in Buffers :
             alive[b] => \E h \in Handles : b \in {buf[h], next[h]}

\* Only one handle frees a buffer (no double free): when a handle is past the
\* decision to free, no other handle points at the buffer.
FreedOnce == \A g, h \in Handles :
                pc[g] \in {"relStore", "relFree"} /\ buf[h] = buf[g] => g = h

\* Copy-on-write is invisible: every handle behaves as if it had a value of
\* its own, so a write through one handle never shows through another.
HandleValue == [h \in Handles |-> IF buf[h] = NoBuffer THEN NoBuffer ELSE data[buf[h]]]

Store == INSTANCE ValueStore WITH value <- HandleValue

CopyOnWrite == Store!Spec

\* The value of a handle changes only where its user changes it: edit() and
\* editResize() hand over the data they found (reset() loses it).
OnlyWritesChange ==
    [][\A h \in Handles :
         HandleValue'[h] # HandleValue[h] /\ buf[h] # NoBuffer =>
             pc[h] = "write" \/ op[h] \in {"reset", "release"}]_vars

-----------------------------------------------------------------------------
(* The inductive invariant behind these properties *)

\* Where an operation is says which buffers its handle has.
Shape == \A h \in Handles :
    /\ pc[h] # "idle" => buf[h] # NoBuffer
    /\ next[h] # NoBuffer <=> \/ pc[h] = "copy"
                              \/ /\ op[h] # "release"
                                 /\ pc[h] \in {"relOwner", "relStore", "relSub", "relFree"}
    /\ op[h] = "release" => pc[h] \in {"idle", "relOwner", "relStore", "relSub", "relFree"}

\* A buffer that was just allocated is known to its operation only.
NextPrivate == \A g, h \in Handles :
    next[h] # NoBuffer => /\ buf[g] # next[h]
                          /\ next[g] = next[h] => g = h

\* Between onlyOwner() and what it allows no other handle points at the buffer.
Exclusive == \A g, h \in Handles :
    /\ pc[h] \in {"write", "realloc", "relStore", "relFree"}
    /\ buf[g] = buf[h]
    => g = h

Inv == /\ TypeOK
       /\ Shape
       /\ NextPrivate
       /\ Exclusive
       /\ NoUseAfterFree
       /\ RefsCountOwners
       /\ NoLeak
=============================================================================
