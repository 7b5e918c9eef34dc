----------------------------- MODULE StoresProof -----------------------------
(***************************************************************************)
(* The lock of the configuration trees and what the trees show, the         *)
(* connection to a MySQL server and BiMap, for any number of threads, calls, *)
(* documents, objects and nodes.                                            *)
(***************************************************************************)
EXTENDS ConfigRWMutex, MySqlConn, BiMap, ConfigTrees, FiniteSetTheorems,
        SequenceTheorems, WellFoundedInduction, TLAPS

-----------------------------------------------------------------------------
(* RWMutex: it keeps its books although its tests and its changes are steps *)
(* of their own.  The invariant says of m_writeCount only that a writer is  *)
(* inside while it is set; the converse does not hold.                      *)

\* No thread is a reader and a writer, and there are finitely many readers.
LockAssumption == Readers \cap Writers = {} /\ IsFiniteSet(Readers)

PC == {"idle", "sleep", "asleep", "enter", "inside", "readNotify", "writeLeave", "writeNotify"}

Types == /\ m_readCount \in Int
         /\ m_writeCount \in BOOLEAN
         /\ sleeping \in SUBSET Threads
         /\ pc \in [Threads -> PC]
         /\ late \in SUBSET sleeping

\* The last steps of wunlock() are for writers.
WriteLeaves == \A t \in Threads : pc[t] = "writeLeave" => t \in Writers

\* Somebody is going to clear m_writeCount.
WriterInside == m_writeCount => \E t \in Writers : pc[t] \in {"inside", "writeLeave"}

IInv == Types /\ WriteLeaves /\ WriterInside /\ CountsReaders

ReadersInside == {t \in Readers : pc[t] = "inside"}

-----------------------------------------------------------------------------
\* The readers inside are those with pc "inside".
LEMMA InsideReaders == ASSUME LockAssumption, WriteLeaves PROVE Inside \cap Readers = ReadersInside
  BY DEF LockAssumption, WriteLeaves, Inside, ReadersInside, Threads

\* A lock as the constructor leaves it.
LEMMA InitIInv == ASSUME LockAssumption, Init PROVE IInv
<1>1. Types
  <2>1. pc \in [Threads -> PC]
    BY DEF Init, PC
  <2>2. sleeping \in SUBSET Threads /\ late \in SUBSET sleeping
    BY DEF Init
  <2>3. m_readCount \in Int
    BY DEF Init
  <2>4. m_writeCount \in BOOLEAN
    BY DEF Init
  <2> QED
    BY <2>1, <2>2, <2>3, <2>4 DEF Types
<1>2. WriteLeaves /\ WriterInside
  BY DEF Init, WriteLeaves, WriterInside
<1>3. ReadersInside = {}
  BY DEF Init, ReadersInside, Threads
<1>4. CountsReaders
  BY <1>2, <1>3, InsideReaders, FS_EmptySet DEF CountsReaders, Init
<1> QED
  BY <1>1, <1>2, <1>4 DEF IInv

\* A step that neither lets a reader in nor out keeps the count.
LEMMA CountKept ==
  ASSUME LockAssumption, IInv, WriteLeaves', UNCHANGED m_readCount,
         \A t \in Readers : pc'[t] = "inside" <=> pc[t] = "inside"
  PROVE  CountsReaders'
<1>1. ReadersInside' = ReadersInside
  BY DEF ReadersInside
<1>2. (Inside \cap Readers)' = Inside \cap Readers
  BY <1>1, InsideReaders DEF IInv, LockAssumption, WriteLeaves, Inside, ReadersInside, Threads
<1> QED
  BY <1>2 DEF CountsReaders, IInv

\* No step of rlock(), runlock(), wlock() or wunlock() disturbs the invariant.
LEMMA NextIInv == ASSUME LockAssumption, IInv, [Next]_vars PROVE IInv'
<1> USE DEF IInv, Types, PC
<1>1. ASSUME NEW t \in Threads, Test(t) PROVE IInv'
  <2>1. Types' /\ WriteLeaves' /\ WriterInside'
    BY <1>1 DEF Test, Goto, WriteLeaves, WriterInside, Threads
  <2> QED
    BY <1>1, <2>1, CountKept DEF Test, Goto, Threads
<1>2. ASSUME NEW t \in Threads, Sleep(t) PROVE IInv'
  <2>1. Types' /\ WriteLeaves' /\ WriterInside'
    BY <1>2 DEF Sleep, Goto, WriteLeaves, WriterInside, Threads
  <2> QED
    BY <1>2, <2>1, CountKept DEF Sleep, Goto, Threads
<1>3. ASSUME NEW t \in Threads, Wake(t) \/ SpuriousWake(t) PROVE IInv'
  <2>1. Types' /\ WriteLeaves' /\ WriterInside'
    BY <1>3 DEF Wake, SpuriousWake, Goto, WriteLeaves, WriterInside, Threads
  <2> QED
    BY <1>3, <2>1, CountKept DEF Wake, SpuriousWake, Goto, Threads
<1>4. ASSUME NEW t \in Threads, ReadEnter(t) PROVE IInv'
  <2>1. Types' /\ WriteLeaves' /\ WriterInside'
    BY <1>4 DEF ReadEnter, Goto, WriteLeaves, WriterInside, Threads, LockAssumption
  <2>2. ReadersInside' = ReadersInside \cup {t} /\ t \notin ReadersInside
    BY <1>4 DEF ReadEnter, Goto, ReadersInside, Threads
  <2>3. IsFiniteSet(ReadersInside)
    BY FS_Subset DEF ReadersInside, LockAssumption
  <2>4. Cardinality(ReadersInside') = Cardinality(ReadersInside) + 1
    BY <2>2, <2>3, FS_AddElement
  <2>5. Inside \cap Readers = ReadersInside /\ (Inside \cap Readers)' = ReadersInside'
    BY <2>1, InsideReaders DEF LockAssumption, WriteLeaves, Inside, ReadersInside, Threads
  <2>6. CountsReaders'
    BY <1>4, <2>4, <2>5 DEF ReadEnter, CountsReaders
  <2> QED
    BY <2>1, <2>6
<1>5. ASSUME NEW t \in Threads, WriteEnter(t) PROVE IInv'
  <2>1. Types' /\ WriteLeaves' /\ WriterInside'
    BY <1>5 DEF WriteEnter, Goto, WriteLeaves, WriterInside, Threads
  <2> QED
    BY <1>5, <2>1, CountKept DEF WriteEnter, Goto, Threads, LockAssumption
<1>6. ASSUME NEW t \in Threads, ReadLeave(t) PROVE IInv'
  <2>1. Types' /\ WriteLeaves' /\ WriterInside'
    BY <1>6 DEF ReadLeave, Goto, WriteLeaves, WriterInside, Threads, LockAssumption
  <2>2. ReadersInside' = ReadersInside \ {t} /\ t \in ReadersInside
    BY <1>6 DEF ReadLeave, Goto, ReadersInside, Threads
  <2>3. IsFiniteSet(ReadersInside)
    BY FS_Subset DEF ReadersInside, LockAssumption
  <2>4. Cardinality(ReadersInside') = Cardinality(ReadersInside) - 1
    BY <2>2, <2>3, FS_RemoveElement
  <2>5. Inside \cap Readers = ReadersInside /\ (Inside \cap Readers)' = ReadersInside'
    BY <2>1, InsideReaders DEF LockAssumption, WriteLeaves, Inside, ReadersInside, Threads
  <2>6. CountsReaders'
    BY <1>6, <2>4, <2>5 DEF ReadLeave, CountsReaders
  <2> QED
    BY <2>1, <2>6
<1>7. ASSUME NEW t \in Threads, ReadNotify(t) PROVE IInv'
  <2>1. Types' /\ WriteLeaves' /\ WriterInside'
    BY <1>7 DEF ReadNotify, Goto, WriteLeaves, WriterInside, Threads
  <2> QED
    BY <1>7, <2>1, CountKept DEF ReadNotify, Goto, Threads
<1>8. ASSUME NEW t \in Threads, WriteLeaveTest(t) PROVE IInv'
  <2>1. Types' /\ WriteLeaves' /\ WriterInside'
    BY <1>8 DEF WriteLeaveTest, Goto, WriteLeaves, WriterInside, Threads
  <2> QED
    BY <1>8, <2>1, CountKept DEF WriteLeaveTest, Goto, Threads, LockAssumption
<1>9. ASSUME NEW t \in Threads, WriteLeave(t) PROVE IInv'
  <2>1. Types' /\ WriteLeaves' /\ WriterInside'
    BY <1>9 DEF WriteLeave, Goto, WriteLeaves, WriterInside, Threads
  <2> QED
    BY <1>9, <2>1, CountKept DEF WriteLeave, Goto, Threads
<1>10. ASSUME NEW t \in Threads, WriteNotify(t) PROVE IInv'
  <2>1. Types' /\ WriteLeaves' /\ WriterInside'
    BY <1>10 DEF WriteNotify, Goto, WriteLeaves, WriterInside, Threads
  <2> QED
    BY <1>10, <2>1, CountKept DEF WriteNotify, Goto, Threads
<1>11. CASE UNCHANGED vars
  <2>1. Types' /\ WriteLeaves' /\ WriterInside'
    BY <1>11 DEF vars, WriteLeaves, WriterInside
  <2> QED
    BY <1>11, <2>1, CountKept DEF vars
<1> QED
  BY <1>1, <1>2, <1>3, <1>4, <1>5, <1>6, <1>7, <1>8, <1>9, <1>10, <1>11 DEF Next, Step

\* The state of the lock and who is inside agree, whatever the interleaving.
THEOREM ConfigLockInv == ASSUME LockAssumption PROVE Spec => []IInv
<1>1. Init => IInv
  BY InitIInv
<1>2. IInv /\ [Next]_vars => IInv'
  BY NextIInv
<1> QED
  BY <1>1, <1>2, PTL DEF Spec

\* rlock() and runlock(): m_readCount is the number of the readers inside.
THEOREM ConfigLockCounts == ASSUME LockAssumption PROVE Spec => []CountsReaders
<1>1. IInv => CountsReaders
  BY DEF IInv
<1> QED
  BY <1>1, ConfigLockInv, PTL

\* When nobody is inside nothing is locked: no test of the destructor can fail.
LEMMA NobodyInside == ASSUME LockAssumption, IInv PROVE AllReleased
<1> SUFFICES ASSUME \A t \in Threads : pc[t] \in {"idle", "sleep", "asleep", "enter"}
             PROVE  m_readCount = 0 /\ ~ m_writeCount
  BY DEF AllReleased
<1>1. Inside \cap Readers = {}
  BY DEF Inside
<1>2. m_readCount = 0
  BY <1>1, FS_EmptySet DEF IInv, CountsReaders
<1>3. m_writeCount = FALSE
  BY DEF IInv, Types, WriterInside, Threads
<1> QED
  BY <1>2, <1>3

\* The assertion of ~RWMutex() holds once all threads have unlocked.
THEOREM ConfigLockReleased == ASSUME LockAssumption PROVE Spec => []AllReleased
<1>1. IInv => AllReleased
  BY NobodyInside
<1> QED
  BY <1>1, ConfigLockInv, PTL

-----------------------------------------------------------------------------
(* Who is left asleep *)

\* A thread whose steps will wake somebody: it is inside and counts, is about to
\* enter, or is about to notify.
Waker(t) == \/ pc[t] \in {"enter", "readNotify", "writeLeave", "writeNotify"}
            \/ pc[t] = "asleep" /\ t \notin sleeping
            \/ pc[t] = "inside" /\ (t \in Readers \/ m_writeCount)

\* Every sleeper that fell asleep while the lock was taken has a waker.
Woken == sleeping \ late # {} => \E t \in Threads : Waker(t)

SleepersAsleep == \A t \in sleeping : pc[t] = "asleep"

SInv == IInv /\ SleepersAsleep /\ Woken

\* m_readCount is above 0 only while a reader is inside.
LEMMA SomeReaderInside ==
  ASSUME LockAssumption, IInv, m_readCount # 0 PROVE \E r \in Readers : pc[r] = "inside"
<1>1. Cardinality(Inside \cap Readers) # 0
  BY DEF IInv, CountsReaders
<1>2. Inside \cap Readers # {}
  BY <1>1, FS_EmptySet
<1> QED
  BY <1>2, InsideReaders DEF ReadersInside, IInv

\* A thread that finds the lock taken can rely on who is inside.
LEMMA BusyHasWaker ==
  ASSUME LockAssumption, IInv, NEW t \in Threads, Busy(t) PROVE \E u \in Threads : Waker(u)
<1>1. CASE m_writeCount
  BY <1>1 DEF IInv, WriterInside, Waker, Threads
<1>2. CASE m_readCount > 0
  BY <1>2, SomeReaderInside DEF Waker, Threads
<1> QED
  BY <1>1, <1>2 DEF Busy

\* A step of t that leaves t a waker keeps the invariant.
LEMMA StillWaker ==
  ASSUME NEW t \in Threads, Waker(t)' PROVE Woken'
  BY DEF Woken, Threads

LEMMA NextSInv == ASSUME LockAssumption, SInv, [Next]_vars PROVE SInv'
<1> USE DEF SInv, SleepersAsleep
<1>1. IInv'
  BY NextIInv
<1> USE DEF Types, PC
<1>2. pc \in [Threads -> PC] /\ sleeping \subseteq Threads /\ late \subseteq sleeping
  BY DEF IInv
<1>3. ASSUME NEW t \in Threads, Test(t) PROVE SleepersAsleep' /\ Woken'
  <2>1. SleepersAsleep'
    BY <1>2, <1>3 DEF Test, Goto
  <2>2. \A u \in Threads : Waker(u) => Waker(u)'
    BY <1>2, <1>3 DEF Test, Goto, Waker
  <2> QED
    BY <1>3, <2>1, <2>2 DEF Test, Woken, Threads
<1>4. ASSUME NEW t \in Threads, Sleep(t) PROVE SleepersAsleep' /\ Woken'
  <2>1. SleepersAsleep'
    BY <1>2, <1>4 DEF Sleep, Goto
  <2>2. \A u \in Threads : Waker(u) => Waker(u)'
    BY <1>2, <1>4 DEF Sleep, Goto, Waker
  <2>3. CASE Busy(t)
    <3>1. \E u \in Threads : Waker(u)
      BY <2>3, BusyHasWaker
    <3> QED
      BY <2>1, <2>2, <3>1 DEF Woken, Threads
  <2>4. CASE ~ Busy(t)
    <3>1. sleeping' \ late' = sleeping \ late
      BY <1>2, <1>4, <2>4 DEF Sleep
    <3> QED
      BY <2>1, <2>2, <3>1 DEF Woken, Threads
  <2> QED
    BY <2>3, <2>4
<1>5. ASSUME NEW t \in Threads, Wake(t) \/ SpuriousWake(t) PROVE SleepersAsleep' /\ Woken'
  <2>1. SleepersAsleep'
    BY <1>2, <1>5 DEF Wake, SpuriousWake, Goto
  <2>2. Waker(t)'
    BY <1>2, <1>5 DEF Wake, SpuriousWake, Goto, Waker
  <2> QED
    BY <2>1, <2>2, StillWaker
<1>6. ASSUME NEW t \in Threads, ReadEnter(t) \/ WriteEnter(t) PROVE SleepersAsleep' /\ Woken'
  <2>1. SleepersAsleep'
    BY <1>2, <1>6 DEF ReadEnter, WriteEnter, Goto
  <2>2. Waker(t)'
    BY <1>2, <1>6 DEF ReadEnter, WriteEnter, Goto, Waker
  <2> QED
    BY <2>1, <2>2, StillWaker
<1>7. ASSUME NEW t \in Threads, ReadLeave(t) \/ WriteLeave(t) PROVE SleepersAsleep' /\ Woken'
  <2>1. SleepersAsleep'
    BY <1>2, <1>7 DEF ReadLeave, WriteLeave, Goto
  <2>2. Waker(t)'
    BY <1>2, <1>7 DEF ReadLeave, WriteLeave, Goto, Waker
  <2> QED
    BY <2>1, <2>2, StillWaker
<1>8. ASSUME NEW t \in Threads, ReadNotify(t) PROVE SleepersAsleep' /\ Woken'
  <2>1. SleepersAsleep'
    BY <1>2, <1>8 DEF ReadNotify, Goto
  <2>2. CASE m_readCount = 0 /\ sleeping # {}
    <3>1. PICK s \in sleeping : sleeping' = sleeping \ {s}
      BY <1>8, <2>2 DEF ReadNotify
    <3>2. Waker(s)'
      BY <1>2, <1>8, <3>1 DEF ReadNotify, Goto, Waker
    <3> QED
      BY <1>2, <2>1, <3>1, <3>2, StillWaker
  <2>3. CASE sleeping = {}
    BY <1>8, <2>1, <2>3 DEF ReadNotify, Woken
  <2>4. CASE m_readCount # 0
    <3>1. PICK r \in Readers : pc[r] = "inside"
      BY <2>4, SomeReaderInside
    <3>2. Waker(r)' /\ r \in Threads
      BY <1>2, <1>8, <3>1 DEF ReadNotify, Goto, Waker, Threads
    <3> QED
      BY <2>1, <3>2, StillWaker
  <2> QED
    BY <2>2, <2>3, <2>4
<1>9. ASSUME NEW t \in Threads, WriteLeaveTest(t) PROVE SleepersAsleep' /\ Woken'
  <2>1. SleepersAsleep'
    BY <1>2, <1>9 DEF WriteLeaveTest, Goto
  <2>2. CASE m_writeCount
    <3>1. Waker(t)'
      BY <1>2, <1>9, <2>2 DEF WriteLeaveTest, Goto, Waker
    <3> QED
      BY <2>1, <3>1, StillWaker
  <2>3. CASE ~ m_writeCount
    <3>1. \A u \in Threads : Waker(u) => Waker(u)'
      BY <1>2, <1>9, <2>3 DEF WriteLeaveTest, Goto, Waker, LockAssumption
    <3> QED
      BY <1>9, <2>1, <3>1 DEF WriteLeaveTest, Woken, Threads
  <2> QED
    BY <2>2, <2>3
<1>10. ASSUME NEW t \in Threads, WriteNotify(t) PROVE SleepersAsleep' /\ Woken'
  BY <1>10 DEF WriteNotify, Woken
<1>11. CASE UNCHANGED vars
  <2>1. \A u \in Threads : Waker(u) => Waker(u)'
    BY <1>11 DEF vars, Waker
  <2>2. SleepersAsleep'
    BY <1>11 DEF vars, SInv, SleepersAsleep
  <2>3. sleeping' = sleeping /\ late' = late
    BY <1>11 DEF vars
  <2>4. Woken'
    BY <2>1, <2>3 DEF SInv, Woken
  <2> QED
    BY <1>1, <2>2, <2>4
<1> QED
  BY <1>1, <1>3, <1>4, <1>5, <1>6, <1>7, <1>8, <1>9, <1>10, <1>11 DEF Next, Step

\* Notifications are sent without the mutex, one of them to a single thread: a
\* thread is left asleep only when it began to wait after the lock was free.
THEOREM ConfigLockLeftAsleep == ASSUME LockAssumption PROVE Spec => []LeftAsleepOnlyLate
<1>1. Init => SInv
  BY InitIInv DEF Init, SInv, SleepersAsleep, Woken
<1>2. SInv /\ [Next]_vars => SInv'
  BY NextSInv
<1>3. SInv => LeftAsleepOnlyLate
  <2> SUFFICES ASSUME SInv, \A t \in Threads : pc[t] = "idle" \/ t \in sleeping
               PROVE  sleeping \subseteq late
    BY DEF LeftAsleepOnlyLate
  <2>1. \A t \in Threads : pc[t] = "idle" \/ (pc[t] = "asleep" /\ t \in sleeping)
    BY DEF SInv, SleepersAsleep
  <2>2. \A t \in Threads : ~ Waker(t)
    BY <2>1 DEF Waker
  <2> QED
    BY <2>2 DEF SInv, Woken
<1> QED
  BY <1>1, <1>2, <1>3, PTL DEF Spec

\* The bound on the calls of each thread, of which the other invariants know nothing.
Locks == locks \in [Threads -> 0..MaxLocks]

LEMMA NextLocks == ASSUME MaxLocks \in Nat, Locks, [Next]_vars PROVE Locks'
<1>1. ASSUME NEW t \in Threads, Test(t) PROVE Locks'
  BY <1>1 DEF Test, Locks
<1>2. ASSUME UNCHANGED locks PROVE Locks'
  BY <1>2 DEF Locks
<1>3. ASSUME NEW t \in Threads, SpuriousWake(t) \/ Step(t) PROVE UNCHANGED locks
  BY <1>3 DEF SpuriousWake, Step, Sleep, Wake, ReadEnter, WriteEnter, ReadLeave, ReadNotify,
              WriteLeaveTest, WriteLeave, WriteNotify
<1> QED
  BY <1>1, <1>2, <1>3 DEF Next, vars

\* The readers inside are no more than there are readers.
LEMMA CountInRange ==
  ASSUME LockAssumption, CountsReaders PROVE m_readCount \in 0..Cardinality(Readers)
<1>1. /\ Cardinality(Inside \cap Readers) \in Nat
      /\ Cardinality(Inside \cap Readers) <= Cardinality(Readers)
  BY FS_Subset, FS_CardinalityType DEF LockAssumption
<1>2. Cardinality(Readers) \in Nat
  BY FS_CardinalityType DEF LockAssumption
<1> QED
  BY <1>1, <1>2 DEF CountsReaders

\* The variables of the lock keep their types.
THEOREM ConfigLockType == ASSUME LockAssumption, MaxLocks \in Nat PROVE Spec => []TypeOK
<1>1. Init => Locks
  BY DEF Init, Locks
<1>2. Locks /\ [Next]_vars => Locks'
  BY NextLocks
<1>3. IInv /\ Locks => TypeOK
  BY CountInRange DEF IInv, Types, PC, Locks, TypeOK
<1> QED
  BY <1>1, <1>2, <1>3, ConfigLockInv, PTL DEF Spec

\* The lock is given back, and those who wait for it are woken.
THEOREM ConfigLockIsSafe == ASSUME LockAssumption, MaxLocks \in Nat PROVE Spec => []LockSafe
  BY ConfigLockType, ConfigLockCounts, ConfigLockReleased, ConfigLockLeftAsleep, PTL DEF LockSafe

-----------------------------------------------------------------------------
(* MySqlConn *)

\* mSqlInit is only set with an open handle.
InitIsOpen == mSqlInit => mSqlHandle = "open"

\* The names kept are those of the result that waits, unless something failed.
NamesFit == ~ uncertain /\ pending # NoColumns => mFieldMap = pending

ConnInv == InitIsOpen /\ NamesFit

LEMMA InitConn == MySqlInit => ConnInv
  BY DEF MySqlInit, ConnInv, InitIsOpen, NamesFit

LEMMA NextConn == ConnInv /\ [MySqlNext]_mysqlVars => ConnInv'
<1> SUFFICES ASSUME ConnInv, [MySqlNext]_mysqlVars PROVE ConnInv'
  OBVIOUS
<1> USE DEF ConnInv, InitIsOpen, NamesFit
<1>1. CASE Construct \/ ConnectSql \/ ConnectionLost
  BY <1>1 DEF Construct, ConnectSql, ConnectionLost, Connected
<1>2. CASE CloseConn \/ Destroy
  BY <1>2 DEF CloseConn, Destroy
<1>3. CASE GetSqlRes
  BY <1>3 DEF GetSqlRes
<1>4. ASSUME NEW c \in Columns \cup {NoColumns}, Statement(c) PROVE ConnInv'
  <2>1. UNCHANGED <<mSqlHandle, mSqlInit, mFieldMap>>
    BY <1>4 DEF Statement
  <2>2. CASE UNCHANGED <<pending, uncertain>>
    BY <2>1, <2>2
  <2>3. CASE pending' = c /\ uncertain' = (uncertain \/ c # NoColumns)
    <3>1. c # NoColumns => uncertain'
      BY <2>3
    <3> QED
      BY <2>1, <2>3, <3>1
  <2> QED
    BY <1>4, <2>2, <2>3 DEF Statement
<1>5. ASSUME NEW c \in Columns, NEW named \in BOOLEAN, NEW long \in BOOLEAN,
             SelectSql(c, named, long)
      PROVE  ConnInv'
  <2>1. PICK kept \in KeepField(c, named) :
           /\ mFieldMap' = kept
           /\ \/ pending' = c /\ uncertain' = (kept = NoColumns)
              \/ pending' = pending /\ uncertain' = TRUE
    BY <1>5 DEF SelectSql
  <2>2. kept \in {NoColumns, c}
    BY DEF KeepField
  <2>3. UNCHANGED <<mSqlHandle, mSqlInit>>
    BY <1>5 DEF SelectSql
  <2> QED
    BY <2>1, <2>2, <2>3
<1>6. CASE UNCHANGED mysqlVars
  BY <1>6 DEF mysqlVars
<1> QED
  BY <1>1, <1>2, <1>3, <1>4, <1>5, <1>6 DEF MySqlNext

\* The handle and the names follow the connection and its results, whichever call
\* fails and whenever the server closes the connection.
THEOREM MySqlIsSound == MySqlSpec => MySqlSound
<1>1. ConnInv /\ [MySqlNext]_mysqlVars =>
         [GetSqlRes /\ taken' # NoColumns /\ ~ uncertain => mFieldMap = taken']_mysqlVars
  BY DEF ConnInv, NamesFit, GetSqlRes
<1>2. ConnInv /\ [MySqlNext]_mysqlVars =>
         [unchecked' => ~ \E c \in Columns, n, l \in BOOLEAN : SelectSql(c, n, l)]_mysqlVars
  BY DEF ConnInv, InitIsOpen, SelectSql, Dies
<1> QED
  BY <1>1, <1>2, InitConn, NextConn, PTL
     DEF MySqlSpec, MySqlSound, FieldsNameColumns, SelectIsGuarded
-----------------------------------------------------------------------------
(* BiMap *)

\* 0 stands for no object, and keys have an order.
BiAssumption == NoNode \notin BiMaps /\ BiKeys \subseteq Int

NodeKinds == {FreeNode} \cup [owner : BiMaps, key : BiKeys, val : BiValues]

BiKinds == /\ node \in [1..MaxNodes -> NodeKinds]
           /\ DOMAIN m_indexMap = BiMaps /\ \A m \in BiMaps : DOMAIN m_indexMap[m] = Hashes
           /\ spoiled \in [BiMaps -> BOOLEAN]

\* The two maps of m are inverse, and the index points at nodes.
IndexFits(m) ==
    ~ spoiled[m] =>
        /\ \A x \in Hashes : m_indexMap[m][x] # NoNode =>
              /\ m_indexMap[m][x] \in 1..MaxNodes
              /\ node[m_indexMap[m][x]].owner = m /\ HashV[node[m_indexMap[m][x]].val] = x
        /\ \A n \in NodesOf(m) : m_indexMap[m][HashV[node[n].val]] = n

BiInv == BiKinds /\ (\A m \in BiMaps : IndexFits(m)) /\ DangledOnlyWhenSpoiled

\* What a step does to the pairs of m.
FewPairs(m) == /\ Cardinality(Pairs(m) \ Pairs(m)') <= 1
               /\ Cardinality(Pairs(m)' \ Pairs(m)) <= 1
Kept(m) == FewPairs(m) \/ Pairs(m)' = {} \/ \E o \in BiMaps \ {m} : Pairs(m)' = Pairs(o)
AllKept == \A m \in BiMaps : Kept(m)

LEMMA AtMostOne == ASSUME NEW S, NEW a, S \subseteq {a} PROVE Cardinality(S) <= 1
<1>1. S = {} \/ S = {a}
  OBVIOUS
<1>2. Cardinality({}) = 0 /\ Cardinality({a}) = 1
  BY FS_EmptySet, FS_Singleton
<1> QED
  BY <1>1, <1>2

\* The step takes node p from m and gives it node n, at most.
Moves(m, p, n) == /\ \A i \in 1..MaxNodes : i # p /\ i # n => node'[i] = node[i]
                  /\ p # n /\ p \in 1..MaxNodes => node'[p].owner # m
                  /\ p # n /\ n \in 1..MaxNodes => node[n].owner # m

\* It changes two pairs at most.
LEMMA FewNodes == ASSUME NEW m, NEW p, NEW n, Moves(m, p, n) PROVE FewPairs(m)
<1> USE DEF Moves
<1> DEFINE Pair(i) == <<node[i].key, node[i].val>>
           Pair2(i) == <<node'[i].key, node'[i].val>>
<1>1. Pairs(m) = {Pair(i) : i \in {j \in 1..MaxNodes : node[j].owner = m}}
  BY DEF Pairs, NodesOf
<1>2. Pairs(m)' = {Pair2(i) : i \in {j \in 1..MaxNodes : node'[j].owner = m}}
  BY DEF Pairs, NodesOf
<1>3. Pairs(m) \ Pairs(m)' \subseteq {Pair(p)}
  <2> SUFFICES ASSUME NEW i \in 1..MaxNodes, node[i].owner = m, i # p, Pair(i) \notin Pairs(m)'
               PROVE  FALSE
    BY <1>1
  <2>1. i # n
    OBVIOUS
  <2>2. node'[i] = node[i]
    BY <2>1
  <2> QED
    BY <1>2, <2>2
<1>4. Pairs(m)' \ Pairs(m) \subseteq {Pair2(n)}
  <2> SUFFICES ASSUME NEW i \in 1..MaxNodes, node'[i].owner = m, i # n, Pair2(i) \notin Pairs(m)
               PROVE  FALSE
    BY <1>2
  <2>1. i # p
    OBVIOUS
  <2>2. node'[i] = node[i]
    BY <2>1
  <2> QED
    BY <1>1, <2>2
<1> QED
  BY <1>3, <1>4, AtMostOne DEF FewPairs

\* An object that a step does not touch.
LEMMA OthersFit ==
    ASSUME NEW m \in BiMaps, IndexFits(m), spoiled'[m] = spoiled[m], m_indexMap'[m] = m_indexMap[m],
           \A n \in 1..MaxNodes : node[n].owner = m \/ node'[n].owner = m => node'[n] = node[n]
    PROVE  IndexFits(m)'
  BY DEF IndexFits, NodesOf

\* A pointer of the index that leads elsewhere is one of a spoiled object.
LEMMA DanglesWhenSpoiled ==
    ASSUME BiInv, NEW m \in BiMaps, NEW v \in BiValues,
           Indexed(m, v) # NoNode, node[Indexed(m, v)].owner # m
    PROVE  spoiled[m]
  BY DEF BiInv, IndexFits, Indexed, Hashes

\* A new pair, in the place of the node that the index has for its value.
LEMMA NewPairKeeps ==
    ASSUME BiAssumption, BiInv, ~ dangled, NEW m \in BiMaps, NEW k \in BiKeys, NEW v \in BiValues,
           NEW nodes \in [1..MaxNodes -> NodeKinds],
           \A n \in 1..MaxNodes : n # Indexed(m, v) => nodes[n] = node[n],
           Indexed(m, v) \in 1..MaxNodes =>
              node[Indexed(m, v)].owner = m /\ nodes[Indexed(m, v)] = FreeNode,
           NewPair(nodes, m, m_indexMap[m], k, v)
    PROVE  BiInv' /\ AllKept
<1> DEFINE p == Indexed(m, v)
           x == HashV[v]
           new == [owner |-> m, key |-> k, val |-> v]
           index == m_indexMap[m]
<1>1. PICK n \in 1..MaxNodes :
         /\ nodes[n] = FreeNode /\ node' = [nodes EXCEPT ![n] = new]
         /\ m_indexMap' = [m_indexMap EXCEPT ![m] = [index EXCEPT ![x] = n]]
         /\ spoiled' = [spoiled EXCEPT ![m] = spoiled[m]] /\ dangled' = dangled
  BY DEF NewPair, Becomes
<1>2. BiKinds /\ (\A m2 \in BiMaps : IndexFits(m2)) /\ x \in Hashes /\ NoNode \notin BiMaps
  BY DEF BiInv, Hashes, BiAssumption
<1>3. new \in NodeKinds /\ new.owner = m /\ new.val = v /\ FreeNode.owner = NoNode
  BY DEF NodeKinds, FreeNode
<1> HIDE DEF p, x, new
<1>4. node'[n] = new /\ \A i \in 1..MaxNodes : i # n /\ i # p => node'[i] = node[i]
  BY <1>1 DEF p
<1>5. p \in 1..MaxNodes => node[p].owner = m /\ (p # n => node'[p] = FreeNode)
  BY <1>1 DEF p
<1>6. n # p => node[n] = FreeNode
  BY <1>1 DEF p
<1>7. BiKinds'
  <2>1. node' \in [1..MaxNodes -> NodeKinds]
    BY <1>1, <1>3
  <2>2. DOMAIN m_indexMap' = BiMaps /\ \A m2 \in BiMaps : DOMAIN m_indexMap'[m2] = Hashes
    BY <1>1, <1>2 DEF BiKinds
  <2>3. spoiled' \in [BiMaps -> BOOLEAN]
    BY <1>1, <1>2 DEF BiKinds
  <2> QED
    BY <2>1, <2>2, <2>3 DEF BiKinds
<1>8. m_indexMap'[m] = [index EXCEPT ![x] = n] /\ spoiled'[m] = spoiled[m]
  BY <1>1, <1>2 DEF BiKinds
<1>9. ASSUME NEW m2 \in BiMaps, m2 # m PROVE IndexFits(m2)'
  <2>1. m_indexMap'[m2] = m_indexMap[m2] /\ spoiled'[m2] = spoiled[m2]
    BY <1>1, <1>2, <1>9 DEF BiKinds
  <2>2. \A i \in 1..MaxNodes : node[i].owner = m2 \/ node'[i].owner = m2 => node'[i] = node[i]
    BY <1>2, <1>3, <1>4, <1>5, <1>6, <1>9
  <2> QED
    BY <1>2, <2>1, <2>2, OthersFit
<1>10. IndexFits(m)'
  <2> SUFFICES ASSUME ~ spoiled[m]
               PROVE  /\ \A y \in Hashes : m_indexMap'[m][y] # NoNode =>
                            /\ m_indexMap'[m][y] \in 1..MaxNodes
                            /\ node'[m_indexMap'[m][y]].owner = m
                            /\ HashV[node'[m_indexMap'[m][y]].val] = y
                      /\ \A i \in 1..MaxNodes : node'[i].owner = m =>
                            m_indexMap'[m][HashV[node'[i].val]] = i
    BY <1>8 DEF IndexFits, NodesOf
  <2>1. /\ \A y \in Hashes : index[y] # NoNode =>
              /\ index[y] \in 1..MaxNodes
              /\ node[index[y]].owner = m /\ HashV[node[index[y]].val] = y
        /\ \A i \in 1..MaxNodes : node[i].owner = m => index[HashV[node[i].val]] = i
    BY <1>2 DEF IndexFits, NodesOf
  <2>2. DOMAIN index = Hashes /\ index[x] = p /\ m_indexMap'[m][x] = n
    BY <1>2, <1>8 DEF BiKinds, p, x, Indexed
  <2>3. \A i \in 1..MaxNodes : node[i].owner = m => HashV[node[i].val] \in Hashes
    BY <1>2, <1>3 DEF BiKinds, NodeKinds, Hashes
  <2>4. ASSUME NEW y \in Hashes, y # x, index[y] # NoNode
        PROVE  m_indexMap'[m][y] = index[y] /\ node'[index[y]] = node[index[y]]
    <3>1. index[y] # p
      BY <2>1, <2>2, <2>4, <1>2
    <3>2. index[y] # n
      BY <2>1, <2>4, <3>1, <1>2, <1>3, <1>6
    <3> QED
      BY <1>4, <1>8, <2>1, <2>2, <2>4, <3>1, <3>2
  <2>5. ASSUME NEW i \in 1..MaxNodes, node'[i].owner = m, i # n
        PROVE  node'[i] = node[i] /\ HashV[node[i].val] # x
    <3>1. i # p
      BY <1>2, <1>3, <1>5, <2>5
    <3> QED
      BY <1>4, <2>1, <2>2, <2>5, <3>1
  <2>6. HashV[node'[n].val] = x /\ node'[n].owner = m
    BY <1>3, <1>4 DEF x
  <2>7. ASSUME NEW y \in Hashes, m_indexMap'[m][y] # NoNode
        PROVE  /\ m_indexMap'[m][y] \in 1..MaxNodes
               /\ node'[m_indexMap'[m][y]].owner = m
               /\ HashV[node'[m_indexMap'[m][y]].val] = y
    <3>1. CASE y = x
      BY <2>2, <2>6, <3>1
    <3>2. CASE y # x
      BY <1>8, <2>1, <2>2, <2>4, <2>7, <3>2
    <3> QED
      BY <3>1, <3>2
  <2>8. ASSUME NEW i \in 1..MaxNodes, node'[i].owner = m
        PROVE  m_indexMap'[m][HashV[node'[i].val]] = i
    <3>1. CASE i = n
      BY <2>2, <2>6, <3>1
    <3>2. CASE i # n
      BY <1>8, <2>1, <2>2, <2>3, <2>5, <2>8, <3>2
    <3> QED
      BY <3>1, <3>2
  <2> QED
    BY <2>7, <2>8
<1>11. AllKept
  <2> SUFFICES ASSUME NEW m2 \in BiMaps PROVE FewPairs(m2)
    BY DEF AllKept, Kept
  <2>1. p # n /\ p \in 1..MaxNodes => node'[p].owner # m2
    BY <1>2, <1>3, <1>5
  <2>2. p # n /\ n \in 1..MaxNodes => node[n].owner # m2
    BY <1>2, <1>3, <1>6
  <2>3. \A i \in 1..MaxNodes : i # p /\ i # n => node'[i] = node[i]
    BY <1>4
  <2>4. Moves(m2, p, n)
    BY <2>1, <2>2, <2>3 DEF Moves
  <2> QED
    BY <2>4, FewNodes
<1> QED
  BY <1>1, <1>7, <1>9, <1>10, <1>11 DEF BiInv, DangledOnlyWhenSpoiled

\* A pair goes, and the entry of its value.
LEMMA ErasedKeeps ==
    ASSUME BiAssumption, BiInv, ~ dangled, NEW m \in BiMaps, NEW n \in 1..MaxNodes, NEW x \in Hashes,
           node[n].owner = m, ~ spoiled[m] => HashV[node[n].val] = x,
           node' = [node EXCEPT ![n] = FreeNode],
           m_indexMap' = [m_indexMap EXCEPT ![m] = [m_indexMap[m] EXCEPT ![x] = NoNode]],
           spoiled' = [spoiled EXCEPT ![m] = spoiled[m]], ~ dangled'
    PROVE  BiInv' /\ AllKept
<1> DEFINE index == m_indexMap[m]
<1>1. BiKinds /\ (\A m2 \in BiMaps : IndexFits(m2)) /\ NoNode \notin BiMaps /\ FreeNode.owner = NoNode
  BY DEF BiInv, BiAssumption, FreeNode
<1>2. node'[n] = FreeNode /\ \A i \in 1..MaxNodes : i # n => node'[i] = node[i]
  BY <1>1 DEF BiKinds
<1>3. BiKinds'
  <2>1. node' \in [1..MaxNodes -> NodeKinds]
    BY <1>1 DEF BiKinds, NodeKinds
  <2>2. DOMAIN m_indexMap' = BiMaps /\ \A m2 \in BiMaps : DOMAIN m_indexMap'[m2] = Hashes
    BY <1>1 DEF BiKinds
  <2>3. spoiled' \in [BiMaps -> BOOLEAN]
    BY <1>1 DEF BiKinds
  <2> QED
    BY <2>1, <2>2, <2>3 DEF BiKinds
<1>4. ASSUME NEW m2 \in BiMaps, m2 # m PROVE IndexFits(m2)'
  <2>1. m_indexMap'[m2] = m_indexMap[m2] /\ spoiled'[m2] = spoiled[m2]
    BY <1>1, <1>4 DEF BiKinds
  <2>2. \A i \in 1..MaxNodes : node[i].owner = m2 \/ node'[i].owner = m2 => node'[i] = node[i]
    BY <1>1, <1>2, <1>4
  <2> QED
    BY <1>1, <2>1, <2>2, OthersFit
<1>5. IndexFits(m)'
  <2>1. m_indexMap'[m] = [index EXCEPT ![x] = NoNode] /\ spoiled'[m] = spoiled[m]
        /\ DOMAIN index = Hashes
    BY <1>1 DEF BiKinds
  <2> SUFFICES ASSUME ~ spoiled[m]
               PROVE  /\ \A y \in Hashes : m_indexMap'[m][y] # NoNode =>
                            /\ m_indexMap'[m][y] \in 1..MaxNodes
                            /\ node'[m_indexMap'[m][y]].owner = m
                            /\ HashV[node'[m_indexMap'[m][y]].val] = y
                      /\ \A i \in 1..MaxNodes : node'[i].owner = m =>
                            m_indexMap'[m][HashV[node'[i].val]] = i
    BY <2>1 DEF IndexFits, NodesOf
  <2>2. /\ \A y \in Hashes : index[y] # NoNode =>
              /\ index[y] \in 1..MaxNodes
              /\ node[index[y]].owner = m /\ HashV[node[index[y]].val] = y
        /\ \A i \in 1..MaxNodes : node[i].owner = m => index[HashV[node[i].val]] = i
    BY <1>1 DEF IndexFits, NodesOf
  <2>3. \A i \in 1..MaxNodes : node[i].owner = m => HashV[node[i].val] \in Hashes
    BY <1>1 DEF BiKinds, NodeKinds, Hashes
  <2>4. HashV[node[n].val] = x /\ index[x] = n
    BY <2>2
  <2>5. ASSUME NEW y \in Hashes, m_indexMap'[m][y] # NoNode
        PROVE  /\ m_indexMap'[m][y] = index[y] /\ index[y] \in 1..MaxNodes
               /\ node'[index[y]].owner = m /\ HashV[node'[index[y]].val] = y
    <3>1. y # x /\ m_indexMap'[m][y] = index[y]
      BY <2>1, <2>5
    <3>2. index[y] # n
      BY <2>2, <2>4, <2>5, <3>1
    <3> QED
      BY <1>2, <2>2, <2>5, <3>1, <3>2
  <2>6. ASSUME NEW i \in 1..MaxNodes, node'[i].owner = m
        PROVE  m_indexMap'[m][HashV[node'[i].val]] = i
    <3>1. i # n /\ node'[i] = node[i]
      BY <1>1, <1>2, <2>6
    <3>2. HashV[node[i].val] # x /\ HashV[node[i].val] \in Hashes
      BY <2>2, <2>3, <2>4, <2>6, <3>1
    <3> QED
      BY <2>1, <2>2, <2>6, <3>1, <3>2
  <2> QED
    BY <2>5, <2>6
<1>6. AllKept
  <2> SUFFICES ASSUME NEW m2 \in BiMaps PROVE FewPairs(m2)
    BY DEF AllKept, Kept
  <2>1. Moves(m2, n, n)
    BY <1>2 DEF Moves
  <2> QED
    BY <2>1, FewNodes
<1> QED
  BY <1>3, <1>4, <1>5, <1>6 DEF BiInv, DangledOnlyWhenSpoiled

\* The values of the nodes of an object are values.
LEMMA NodesHash ==
    ASSUME BiAssumption, BiInv, NEW m \in BiMaps
    PROVE  \A i \in NodesOf(m) : /\ node[i] \in [owner : BiMaps, key : BiKeys, val : BiValues]
                                 /\ HashV[node[i].val] \in Hashes
  BY DEF BiAssumption, BiInv, BiKinds, NodeKinds, FreeNode, NodesOf, Hashes

\* An object whose nodes a step leaves keeps its pairs.
LEMMA SamePairs ==
    ASSUME NEW m,
           \A i \in 1..MaxNodes : node[i].owner = m \/ node'[i].owner = m => node'[i] = node[i]
    PROVE  FewPairs(m)
<1>1. NodesOf(m)' = NodesOf(m)
  BY DEF NodesOf
<1>2. Pairs(m)' = Pairs(m)
  BY <1>1 DEF Pairs, NodesOf
<1>3. Pairs(m) \ Pairs(m)' = {} /\ Pairs(m)' \ Pairs(m) = {}
  BY <1>2
<1> QED
  BY <1>3, FS_EmptySet DEF FewPairs

\* A step that leaves the nodes; what it does to an index it does to a spoiled one.
LEMMA SameNodes ==
    ASSUME BiAssumption, BiInv, node' = node,
           DOMAIN m_indexMap' = BiMaps, \A m \in BiMaps : DOMAIN m_indexMap'[m] = Hashes,
           spoiled' \in [BiMaps -> BOOLEAN],
           \A m \in BiMaps : ~ spoiled'[m] =>
              ~ spoiled[m] /\ \A x \in Hashes : m_indexMap'[m][x] = m_indexMap[m][x],
           dangled' => \E m \in BiMaps : spoiled'[m]
    PROVE  BiInv' /\ AllKept
<1>1. BiKinds'
  BY DEF BiInv, BiKinds
<1>2. ASSUME NEW m \in BiMaps PROVE IndexFits(m)'
  <2> SUFFICES ASSUME ~ spoiled'[m]
               PROVE  /\ \A x \in Hashes : m_indexMap'[m][x] # NoNode =>
                            /\ m_indexMap'[m][x] \in 1..MaxNodes
                            /\ node[m_indexMap'[m][x]].owner = m
                            /\ HashV[node[m_indexMap'[m][x]].val] = x
                      /\ \A i \in NodesOf(m) : m_indexMap'[m][HashV[node[i].val]] = i
    BY DEF IndexFits, NodesOf
  <2>1. IndexFits(m) /\ ~ spoiled[m] /\ \A x \in Hashes : m_indexMap'[m][x] = m_indexMap[m][x]
    BY DEF BiInv
  <2>2. \A i \in NodesOf(m) : HashV[node[i].val] \in Hashes
    BY NodesHash
  <2> QED
    BY <2>1, <2>2 DEF IndexFits
<1>3. AllKept
  <2> SUFFICES ASSUME NEW m \in BiMaps PROVE FewPairs(m)
    BY DEF AllKept, Kept
  <2>1. Moves(m, NoNode, NoNode)
    BY DEF Moves
  <2> QED
    BY <2>1, FewNodes
<1> QED
  BY <1>1, <1>2, <1>3 DEF BiInv, DangledOnlyWhenSpoiled

LEMMA InsertKeeps ==
    ASSUME BiAssumption, BiInv, ~ dangled, NEW m \in BiMaps, NEW k \in BiKeys, NEW v \in BiValues,
           Insert(m, k, v)
    PROVE  BiInv' /\ AllKept
<1>1. CASE Fails
  BY <1>1, SameNodes DEF Fails, biVars, BiInv, BiKinds
<1>2. CASE Indexed(m, v) = NoNode /\ NewPair(node, m, m_indexMap[m], k, v)
  <2>1. Indexed(m, v) \notin 1..MaxNodes
    BY <1>2 DEF NoNode
  <2>2. node \in [1..MaxNodes -> NodeKinds]
    BY DEF BiInv, BiKinds
  <2> QED
    BY <1>2, <2>1, <2>2, NewPairKeeps
<1> QED
  BY <1>1, <1>2 DEF Insert

LEMMA ReplaceValueKeeps ==
    ASSUME BiAssumption, BiInv, ~ dangled, NEW m \in BiMaps, NEW k \in BiKeys, NEW v \in BiValues,
           ReplaceValue(m, k, v)
    PROVE  BiInv' /\ AllKept
<1>1. CASE Fails
  BY <1>1, SameNodes DEF Fails, biVars, BiInv, BiKinds
<1>2. CASE Insert(m, k, v)
  BY <1>2, InsertKeeps
<1>3. CASE \E n \in Stored(m, k) :
             /\ Becomes(m, [m_indexMap[m] EXCEPT ![HashV[node[n].val]] = NoNode, ![HashV[v]] = n], TRUE)
             /\ UNCHANGED <<node, dangled>>
  <2>1. PICK n \in Stored(m, k) :
           /\ m_indexMap' = [m_indexMap EXCEPT ![m] =
                               [m_indexMap[m] EXCEPT ![HashV[node[n].val]] = NoNode, ![HashV[v]] = n]]
           /\ spoiled' = [spoiled EXCEPT ![m] = TRUE]
           /\ UNCHANGED <<node, dangled>>
    BY <1>3 DEF Becomes
  <2>2. BiKinds
    BY DEF BiInv
  <2>3. DOMAIN m_indexMap' = BiMaps /\ \A m2 \in BiMaps : DOMAIN m_indexMap'[m2] = Hashes
    BY <2>1, <2>2 DEF BiKinds
  <2>4. /\ spoiled' \in [BiMaps -> BOOLEAN] /\ spoiled'[m]
        /\ \A m2 \in BiMaps : m2 # m => spoiled'[m2] = spoiled[m2] /\ m_indexMap'[m2] = m_indexMap[m2]
    BY <2>1, <2>2 DEF BiKinds
  <2> QED
    BY <2>1, <2>3, <2>4, SameNodes
<1> QED
  BY <1>1, <1>2, <1>3 DEF ReplaceValue

LEMMA ReplaceKeyKeeps ==
    ASSUME BiAssumption, BiInv, ~ dangled, NEW m \in BiMaps, NEW k \in BiKeys, NEW v \in BiValues,
           ReplaceKey(m, v, k)
    PROVE  BiInv' /\ AllKept
<1> DEFINE p == Indexed(m, v)
<1>1. CASE Fails
  BY <1>1, SameNodes DEF Fails, biVars, BiInv, BiKinds
<1>2. CASE Insert(m, k, v)
  BY <1>2, InsertKeeps
<1>3. CASE /\ p # NoNode /\ node[p].owner # m
           /\ UNCHANGED <<node, m_indexMap, spoiled>>
  <2>1. spoiled[m]
    BY <1>3, DanglesWhenSpoiled
  <2> QED
    BY <1>3, <2>1, SameNodes DEF BiInv, BiKinds
<1>4. CASE /\ p # NoNode /\ node[p].owner = m
           /\ NewPair([node EXCEPT ![p] = FreeNode], m, m_indexMap[m], k, v)
  <2> DEFINE nodes == [node EXCEPT ![p] = FreeNode]
  <2>1. nodes \in [1..MaxNodes -> NodeKinds]
    BY DEF BiInv, BiKinds, NodeKinds
  <2>2. \A n \in 1..MaxNodes : n # p => nodes[n] = node[n]
    BY DEF BiInv, BiKinds
  <2>3. p \in 1..MaxNodes => node[p].owner = m /\ nodes[p] = FreeNode
    BY <1>4 DEF BiInv, BiKinds
  <2>4. NewPair(nodes, m, m_indexMap[m], k, v)
    BY <1>4
  <2> HIDE DEF nodes
  <2> QED
    BY <2>1, <2>2, <2>3, <2>4, NewPairKeeps
<1> QED
  BY <1>1, <1>2, <1>3, <1>4 DEF ReplaceKey

LEMMA UpdateKeeps ==
    ASSUME BiAssumption, BiInv, ~ dangled, NEW m \in BiMaps, NEW k \in BiKeys, NEW v \in BiValues,
           Update(m, k, v)
    PROVE  BiInv' /\ AllKept
<1>1. PICK n \in Stored(m, k) :
         m_indexMap' = [m_indexMap EXCEPT ![m][HashV[node[n].val]] = n]
  BY DEF Update
<1>2. UNCHANGED <<node, spoiled, dangled>>
  BY DEF Update
<1>3. BiKinds /\ IndexFits(m) /\ n \in NodesOf(m)
  BY DEF BiInv, Stored
<1>4. DOMAIN m_indexMap' = BiMaps /\ \A m2 \in BiMaps : DOMAIN m_indexMap'[m2] = Hashes
  BY <1>1, <1>3 DEF BiKinds
<1>5. \A m2 \in BiMaps : ~ spoiled[m2] => \A x \in Hashes : m_indexMap'[m2][x] = m_indexMap[m2][x]
  BY <1>1, <1>3 DEF BiKinds, IndexFits
<1> QED
  BY <1>2, <1>3, <1>4, <1>5, SameNodes DEF BiKinds

LEMMA EraseKeyKeeps ==
    ASSUME BiAssumption, BiInv, ~ dangled, NEW m \in BiMaps, NEW k \in BiKeys, EraseKey(m, k)
    PROVE  BiInv' /\ AllKept
<1>1. CASE Fails
  BY <1>1, SameNodes DEF Fails, biVars, BiInv, BiKinds
<1>2. ASSUME NEW n \in Stored(m, k), Erase(m, n) PROVE BiInv' /\ AllKept
  <2>1. n \in 1..MaxNodes /\ node[n].owner = m /\ HashV[node[n].val] \in Hashes
    BY NodesHash DEF Stored, NodesOf
  <2>2. /\ node' = [node EXCEPT ![n] = FreeNode]
        /\ m_indexMap' = [m_indexMap EXCEPT ![m] = [m_indexMap[m] EXCEPT ![HashV[node[n].val]] = NoNode]]
        /\ spoiled' = [spoiled EXCEPT ![m] = spoiled[m]] /\ ~ dangled'
    BY <1>2 DEF Erase, Becomes
  <2> QED
    BY <2>1, <2>2, ErasedKeeps
<1> QED
  BY <1>1, <1>2 DEF EraseKey

LEMMA EraseValueKeeps ==
    ASSUME BiAssumption, BiInv, ~ dangled, NEW m \in BiMaps, NEW v \in BiValues, EraseValue(m, v)
    PROVE  BiInv' /\ AllKept
<1> DEFINE p == Indexed(m, v)
           x == HashV[v]
<1>1. CASE Fails
  BY <1>1, SameNodes DEF Fails, biVars, BiInv, BiKinds
<1>2. CASE /\ p # NoNode
           /\ m_indexMap' = [m_indexMap EXCEPT ![m] = [m_indexMap[m] EXCEPT ![x] = NoNode]]
           /\ spoiled' = [spoiled EXCEPT ![m] = spoiled[m]]
           /\ node' = IF node[p].owner = m THEN [node EXCEPT ![p] = FreeNode] ELSE node
           /\ dangled' = (node[p].owner # m)
  <2>1. BiKinds /\ IndexFits(m) /\ x \in Hashes /\ p = m_indexMap[m][x]
    BY DEF BiInv, Hashes, Indexed
  <2>2. /\ DOMAIN m_indexMap' = BiMaps /\ \A m2 \in BiMaps : DOMAIN m_indexMap'[m2] = Hashes
        /\ \A m2 \in BiMaps : m2 # m => m_indexMap'[m2] = m_indexMap[m2]
        /\ spoiled' = spoiled
    BY <1>2, <2>1 DEF BiKinds
  <2>3. CASE node[p].owner = m /\ p \in 1..MaxNodes
    <3>1. ~ spoiled[m] => HashV[node[p].val] = x
      BY <1>2, <2>1 DEF IndexFits
    <3> HIDE DEF p, x
    <3> QED
      BY <1>2, <2>1, <2>3, <3>1, ErasedKeeps
  <2>4. CASE ~ (node[p].owner = m /\ p \in 1..MaxNodes)
    <3>1. spoiled[m]
      BY <1>2, <2>1, <2>4 DEF IndexFits
    <3>2. node' = node
      <4>1. p \notin 1..MaxNodes => [node EXCEPT ![p] = FreeNode] = node
        BY <2>1 DEF BiKinds
      <4> QED
        BY <1>2, <2>4, <4>1
    <3>3. spoiled \in [BiMaps -> BOOLEAN]
      BY <2>1 DEF BiKinds
    <3> QED
      BY <2>2, <3>1, <3>2, <3>3, SameNodes
  <2> QED
    BY <2>3, <2>4
<1> QED
  BY <1>1, <1>2 DEF EraseValue, Becomes

LEMMA FindKeeps ==
    ASSUME BiAssumption, BiInv, ~ dangled, NEW m \in BiMaps, NEW v \in BiValues, Find(m, v)
    PROVE  BiInv' /\ AllKept
<1>1. UNCHANGED <<node, m_indexMap, spoiled>>
      /\ (dangled' => Indexed(m, v) # NoNode /\ node[Indexed(m, v)].owner # m)
  BY DEF Find
<1>2. dangled' => spoiled[m]
  BY <1>1, DanglesWhenSpoiled
<1> QED
  BY <1>1, <1>2, SameNodes DEF BiInv, BiKinds

LEMMA ClearKeeps ==
    ASSUME BiAssumption, BiInv, ~ dangled, NEW m \in BiMaps, Clear(m)
    PROVE  BiInv' /\ AllKept
<1>1. /\ node' = [n \in 1..MaxNodes |-> IF node[n].owner = m THEN FreeNode ELSE node[n]]
      /\ m_indexMap' = [m_indexMap EXCEPT ![m] = NoIndex]
      /\ spoiled' = [spoiled EXCEPT ![m] = FALSE] /\ ~ dangled'
  BY DEF Clear, Emptied, Becomes
<1>2. BiKinds /\ (\A m2 \in BiMaps : IndexFits(m2)) /\ NoNode \notin BiMaps /\ FreeNode.owner = NoNode
  BY DEF BiInv, BiAssumption, FreeNode
<1>3. BiKinds'
  <2>1. node' \in [1..MaxNodes -> NodeKinds]
    BY <1>1, <1>2 DEF BiKinds, NodeKinds
  <2>2. DOMAIN m_indexMap' = BiMaps /\ \A m2 \in BiMaps : DOMAIN m_indexMap'[m2] = Hashes
    BY <1>1, <1>2 DEF BiKinds, NoIndex
  <2>3. spoiled' \in [BiMaps -> BOOLEAN]
    BY <1>1, <1>2 DEF BiKinds
  <2> QED
    BY <2>1, <2>2, <2>3 DEF BiKinds
<1>4. \A i \in 1..MaxNodes : node'[i].owner # m
  BY <1>1, <1>2
<1>5. ASSUME NEW m2 \in BiMaps, m2 # m
      PROVE  \A i \in 1..MaxNodes : node[i].owner = m2 \/ node'[i].owner = m2 => node'[i] = node[i]
  BY <1>1, <1>2, <1>5
<1>6. ASSUME NEW m2 \in BiMaps, m2 # m PROVE IndexFits(m2)'
  <2>1. m_indexMap'[m2] = m_indexMap[m2] /\ spoiled'[m2] = spoiled[m2]
    BY <1>1, <1>2, <1>6 DEF BiKinds
  <2> QED
    BY <1>2, <1>5, <1>6, <2>1, OthersFit
<1>7. IndexFits(m)'
  <2>1. m_indexMap'[m] = NoIndex
    BY <1>1, <1>2 DEF BiKinds
  <2>2. \A x \in Hashes : m_indexMap'[m][x] = NoNode
    BY <2>1 DEF NoIndex
  <2>3. NodesOf(m)' = {}
    BY <1>4 DEF NodesOf
  <2> QED
    BY <2>2, <2>3 DEF IndexFits
<1>8. AllKept
  <2> SUFFICES ASSUME NEW m2 \in BiMaps PROVE Kept(m2)
    BY DEF AllKept
  <2>1. CASE m2 = m
    <3>1. Pairs(m)' = {}
      BY <1>4 DEF Pairs, NodesOf
    <3> QED
      BY <2>1, <3>1 DEF Kept
  <2>2. CASE m2 # m
    BY <1>5, <2>2, SamePairs DEF Kept
  <2> QED
    BY <2>1, <2>2
<1> QED
  BY <1>1, <1>3, <1>6, <1>7, <1>8 DEF BiInv, DangledOnlyWhenSpoiled

\* Where the nodes of o are copied to, and what the copy does to the nodes.
CopyNode(o, m, at) ==
    /\ at \in [NodesOf(o) -> {n \in 1..MaxNodes : Emptied(node, m)[n] = FreeNode}]
    /\ \A n1, n2 \in NodesOf(o) : n1 < n2 => at[n1] < at[n2]
    /\ node' = [n \in 1..MaxNodes |->
                  IF \E s \in NodesOf(o) : at[s] = n
                  THEN [node[CHOOSE s \in NodesOf(o) : at[s] = n] EXCEPT !.owner = m]
                  ELSE Emptied(node, m)[n]]

\* m has a copy at[s] of each node s of o and no other node; the rest stay.
Copied(o, m, at) ==
    /\ node' \in [1..MaxNodes -> NodeKinds]
    /\ \A s \in NodesOf(o) : /\ at[s] \in 1..MaxNodes
                             /\ node'[at[s]].owner = m
                             /\ node'[at[s]].key = node[s].key /\ node'[at[s]].val = node[s].val
    /\ \A i \in 1..MaxNodes : node'[i].owner = m => \E s \in NodesOf(o) : i = at[s]
    /\ \A i \in 1..MaxNodes : node[i].owner # m /\ node'[i].owner # m => node'[i] = node[i]
    /\ \A i \in 1..MaxNodes : node[i].owner \in BiMaps \ {m} => node'[i] = node[i]
    /\ \A i \in 1..MaxNodes : node[i].owner = m =>
          node'[i] = FreeNode \/ \E s \in NodesOf(o) : at[s] = i

LEMMA CopiedNodes ==
    ASSUME BiAssumption, BiInv, NEW o \in BiMaps, NEW m \in BiMaps, o # m, NEW at, CopyNode(o, m, at)
    PROVE  Copied(o, m, at)
<1> USE DEF CopyNode
<1>1. BiKinds /\ NoNode \notin BiMaps /\ FreeNode.owner = NoNode
  BY DEF BiInv, BiAssumption, FreeNode
<1>2. \A s \in NodesOf(o) :
         /\ at[s] \in 1..MaxNodes /\ Emptied(node, m)[at[s]] = FreeNode
         /\ node[s] \in [owner : BiMaps, key : BiKeys, val : BiValues]
  BY NodesHash
<1>3. \A i \in 1..MaxNodes : Emptied(node, m)[i] = IF node[i].owner = m THEN FreeNode ELSE node[i]
  BY DEF Emptied
<1>4. ASSUME NEW s \in NodesOf(o)
      PROVE  /\ node'[at[s]] \in NodeKinds /\ node'[at[s]].owner = m
             /\ node'[at[s]].key = node[s].key /\ node'[at[s]].val = node[s].val
  <2>1. (CHOOSE z \in NodesOf(o) : at[z] = at[s]) \in NodesOf(o)
        /\ at[CHOOSE z \in NodesOf(o) : at[z] = at[s]] = at[s]
    OBVIOUS
  <2>2. \A z \in NodesOf(o) : at[z] = at[s] => z = s
    BY <1>2 DEF NodesOf
  <2>3. node'[at[s]] = [node[s] EXCEPT !.owner = m]
    BY <1>2, <2>1, <2>2
  <2> QED
    BY <1>2, <2>3 DEF NodeKinds
<1>5. \A i \in 1..MaxNodes : (~ \E s \in NodesOf(o) : at[s] = i) => node'[i] = Emptied(node, m)[i]
  OBVIOUS
<1>6. node' \in [1..MaxNodes -> NodeKinds]
  <2> SUFFICES ASSUME NEW i \in 1..MaxNodes PROVE node'[i] \in NodeKinds
    OBVIOUS
  <2>1. CASE \E s \in NodesOf(o) : at[s] = i
    <3>1. PICK s \in NodesOf(o) : at[s] = i
      BY <2>1
    <3> QED
      BY <1>2, <1>4, <3>1 DEF NodeKinds
  <2>2. CASE ~ \E s \in NodesOf(o) : at[s] = i
    BY <1>1, <1>3, <1>5, <2>2 DEF BiKinds, NodeKinds
  <2> QED
    BY <2>1, <2>2
<1>7. ASSUME NEW i \in 1..MaxNodes, node'[i].owner = m PROVE \E s \in NodesOf(o) : i = at[s]
  BY <1>1, <1>3, <1>5, <1>7
<1>8. ASSUME NEW i \in 1..MaxNodes, node[i].owner \in BiMaps \ {m} PROVE node'[i] = node[i]
  <2>1. ~ \E s \in NodesOf(o) : at[s] = i
    BY <1>1, <1>2, <1>3, <1>8
  <2> QED
    BY <1>3, <1>5, <1>8, <2>1
<1>9. ASSUME NEW i \in 1..MaxNodes, node[i].owner # m, node'[i].owner # m PROVE node'[i] = node[i]
  <2>1. ~ \E s \in NodesOf(o) : at[s] = i
    BY <1>4, <1>9
  <2> QED
    BY <1>3, <1>5, <1>9, <2>1
<1>10. ASSUME NEW i \in 1..MaxNodes, node[i].owner = m
       PROVE  node'[i] = FreeNode \/ \E s \in NodesOf(o) : at[s] = i
  BY <1>3, <1>5, <1>10
<1> HIDE DEF CopyNode
<1>11. \A s \in NodesOf(o) : at[s] \in 1..MaxNodes
  BY <1>2
<1>12. \A s \in NodesOf(o) : /\ at[s] \in 1..MaxNodes /\ node'[at[s]].owner = m
                             /\ node'[at[s]].key = node[s].key /\ node'[at[s]].val = node[s].val
  BY <1>4, <1>11
<1> QED
  BY <1>6, <1>7, <1>8, <1>9, <1>10, <1>12 DEF Copied

\* Without twins a hash of the copy leads to the copy of its only node.
LEMMA OnlyEntry ==
    ASSUME BiAssumption, BiInv, NEW o \in BiMaps, ~ Twins(o), NEW index, NEW at, NEW s \in NodesOf(o)
    PROVE  EntryFor(o, HashV[node[s].val], index, at) = at[s]
<1> DEFINE same == {z \in NodesOf(o) : HashV[node[z].val] = HashV[node[s].val]}
<1>1. same = {s}
  BY DEF Twins
<1>2. node[s].key \in Int
  BY NodesHash DEF BiAssumption
<1>3. s = CHOOSE n \in same : \A n2 \in same : node[n].key >= node[n2].key
  BY <1>1, <1>2
<1> QED
  BY <1>1, <1>3 DEF EntryFor

\* A copy into m, whose index keeps the entries of index for the other hashes.
LEMMA CopyNodesKeeps ==
    ASSUME BiAssumption, BiInv, ~ dangled, NEW o \in BiMaps, NEW m \in BiMaps, o # m,
           NEW index, NEW spoils \in BOOLEAN,
           ~ spoils => /\ ~ Twins(o)
                       /\ \A x \in Hashes : (\A n \in NodesOf(o) : HashV[node[n].val] # x) => index[x] = NoNode,
           CopyNodes(o, m, index, spoils)
    PROVE  BiInv' /\ AllKept
<1>1. PICK at : /\ CopyNode(o, m, at)
               /\ Becomes(m, [x \in Hashes |-> EntryFor(o, x, index, at)], spoils)
               /\ UNCHANGED dangled
  BY DEF CopyNodes, CopyNode
<1> DEFINE entry == [x \in Hashes |-> EntryFor(o, x, index, at)]
<1>2. BiKinds /\ (\A m2 \in BiMaps : IndexFits(m2)) /\ NoNode \notin BiMaps
  BY DEF BiInv, BiAssumption
<1>3. Copied(o, m, at)
  BY <1>1, CopiedNodes
<1>4. /\ \A s \in NodesOf(o) : /\ at[s] \in 1..MaxNodes
                               /\ node'[at[s]].owner = m
                               /\ node'[at[s]].key = node[s].key /\ node'[at[s]].val = node[s].val
      /\ \A i \in 1..MaxNodes : node'[i].owner = m => \E s \in NodesOf(o) : i = at[s]
  BY <1>3 DEF Copied
<1>5. \A i \in 1..MaxNodes :
         /\ node[i].owner # m /\ node'[i].owner # m => node'[i] = node[i]
         /\ node[i].owner \in BiMaps \ {m} => node'[i] = node[i]
         /\ node[i].owner = m => node'[i] = FreeNode \/ \E s \in NodesOf(o) : at[s] = i
  BY <1>3 DEF Copied
<1>6. m_indexMap' = [m_indexMap EXCEPT ![m] = entry] /\ spoiled' = [spoiled EXCEPT ![m] = spoils]
  BY <1>1 DEF Becomes
<1>7. DOMAIN entry = Hashes /\ \A x \in Hashes : entry[x] = EntryFor(o, x, index, at)
  OBVIOUS
<1> HIDE DEF entry
<1>8. BiKinds'
  <2>1. DOMAIN m_indexMap' = BiMaps /\ \A m2 \in BiMaps : DOMAIN m_indexMap'[m2] = Hashes
    BY <1>2, <1>6, <1>7 DEF BiKinds
  <2>2. spoiled' \in [BiMaps -> BOOLEAN]
    BY <1>2, <1>6 DEF BiKinds
  <2> QED
    BY <1>3, <2>1, <2>2 DEF BiKinds, Copied
<1>9. ASSUME NEW m2 \in BiMaps, m2 # m
      PROVE  \A i \in 1..MaxNodes : node[i].owner = m2 \/ node'[i].owner = m2 => node'[i] = node[i]
  <2> SUFFICES ASSUME NEW i \in 1..MaxNodes, node[i].owner = m2 \/ node'[i].owner = m2
               PROVE  node'[i] = node[i]
    OBVIOUS
  <2>1. CASE node[i].owner = m2
    BY <1>5, <1>9, <2>1
  <2>2. CASE node[i].owner # m2 /\ node'[i].owner = m2
    <3>1. node[i].owner # m => node'[i] = node[i]
      BY <1>5, <1>9, <2>2
    <3>2. CASE node[i].owner = m
      <4>1. node'[i] = FreeNode \/ \E s \in NodesOf(o) : at[s] = i
        BY <1>5, <3>2
      <4> QED
        BY <1>2, <1>4, <1>9, <2>2, <4>1 DEF FreeNode
    <3> QED
      BY <3>1, <3>2
  <2> QED
    BY <2>1, <2>2
<1>10. ASSUME NEW m2 \in BiMaps, m2 # m PROVE IndexFits(m2)'
  <2>1. m_indexMap'[m2] = m_indexMap[m2] /\ spoiled'[m2] = spoiled[m2]
    BY <1>2, <1>6, <1>10 DEF BiKinds
  <2> QED
    BY <1>2, <1>9, <1>10, <2>1, OthersFit
<1>11. IndexFits(m)'
  <2>1. m_indexMap'[m] = entry /\ spoiled'[m] = spoils
    BY <1>2, <1>6 DEF BiKinds
  <2> SUFFICES ASSUME ~ spoils
               PROVE  /\ \A x \in Hashes : entry[x] # NoNode =>
                            /\ entry[x] \in 1..MaxNodes
                            /\ node'[entry[x]].owner = m /\ HashV[node'[entry[x]].val] = x
                      /\ \A i \in 1..MaxNodes : node'[i].owner = m => entry[HashV[node'[i].val]] = i
    BY <2>1 DEF IndexFits, NodesOf
  <2>2. \A s \in NodesOf(o) : HashV[node[s].val] \in Hashes
    BY NodesHash
  <2>3. \A s \in NodesOf(o) : entry[HashV[node[s].val]] = at[s]
    BY <1>7, <2>2, OnlyEntry
  <2>4. ASSUME NEW x \in Hashes, entry[x] # NoNode
        PROVE  \E s \in NodesOf(o) : HashV[node[s].val] = x
    BY <1>7, <2>4 DEF EntryFor
  <2>5. ASSUME NEW x \in Hashes, entry[x] # NoNode
        PROVE  /\ entry[x] \in 1..MaxNodes
               /\ node'[entry[x]].owner = m /\ HashV[node'[entry[x]].val] = x
    BY <1>4, <2>3, <2>4, <2>5
  <2>6. ASSUME NEW i \in 1..MaxNodes, node'[i].owner = m PROVE entry[HashV[node'[i].val]] = i
    BY <1>4, <2>3, <2>6
  <2> QED
    BY <2>5, <2>6
<1>12. Pairs(m)' = Pairs(o)
  <2>1. \A i \in 1..MaxNodes : node'[i].owner = m =>
           \E s \in NodesOf(o) : <<node'[i].key, node'[i].val>> = <<node[s].key, node[s].val>>
    BY <1>4
  <2>2. \A s \in NodesOf(o) : at[s] \in NodesOf(m)'
                              /\ <<node'[at[s]].key, node'[at[s]].val>> = <<node[s].key, node[s].val>>
    BY <1>4 DEF NodesOf
  <2>3. Pairs(m)' \subseteq Pairs(o)
    BY <2>1 DEF Pairs, NodesOf
  <2>4. Pairs(o) \subseteq Pairs(m)'
    BY <2>2 DEF Pairs
  <2> QED
    BY <2>3, <2>4
<1>13. AllKept
  <2> SUFFICES ASSUME NEW m2 \in BiMaps PROVE Kept(m2)
    BY DEF AllKept
  <2>1. CASE m2 = m
    BY <1>12, <2>1 DEF Kept
  <2>2. CASE m2 # m
    BY <1>9, <2>2, SamePairs DEF Kept
  <2> QED
    BY <2>1, <2>2
<1> QED
  BY <1>1, <1>8, <1>10, <1>11, <1>13 DEF BiInv, DangledOnlyWhenSpoiled

\* A swap gives b the nodes of a.
Given(a, b) == \A i \in 1..MaxNodes :
                  /\ node'[i].owner = b <=> node[i].owner = a
                  /\ node[i].owner = a => node'[i].key = node[i].key /\ node'[i].val = node[i].val

LEMMA SwapHalf ==
    ASSUME BiAssumption, BiInv, NEW a \in BiMaps, NEW b \in BiMaps, Given(a, b),
           m_indexMap'[b] = m_indexMap[a], spoiled'[b] = spoiled[a]
    PROVE  IndexFits(b)' /\ Pairs(b)' = Pairs(a)
<1>1. NodesOf(b)' = NodesOf(a)
  BY DEF NodesOf, Given
<1>2. \A i \in NodesOf(a) : node'[i].key = node[i].key /\ node'[i].val = node[i].val
  BY DEF NodesOf, Given
<1>3. Pairs(b)' = Pairs(a)
  BY <1>1, <1>2 DEF Pairs
<1>4. IndexFits(a)
  BY DEF BiInv
<1>5. \A i \in NodesOf(a) : i \in 1..MaxNodes
  BY DEF NodesOf
<1>6. IndexFits(b)'
  <2> SUFFICES ASSUME ~ spoiled[a]
               PROVE  /\ \A x \in Hashes : m_indexMap[a][x] # NoNode =>
                            /\ m_indexMap[a][x] \in 1..MaxNodes
                            /\ node'[m_indexMap[a][x]].owner = b
                            /\ HashV[node'[m_indexMap[a][x]].val] = x
                      /\ \A i \in NodesOf(a) : m_indexMap[a][HashV[node'[i].val]] = i
    BY <1>1 DEF IndexFits
  <2>1. \A x \in Hashes : m_indexMap[a][x] # NoNode =>
           /\ m_indexMap[a][x] \in 1..MaxNodes
           /\ node[m_indexMap[a][x]].owner = a /\ HashV[node[m_indexMap[a][x]].val] = x
    BY <1>4 DEF IndexFits
  <2>2. \A i \in NodesOf(a) : m_indexMap[a][HashV[node[i].val]] = i
    BY <1>4 DEF IndexFits
  <2> QED
    BY <1>2, <2>1, <2>2 DEF Given
<1> QED
  BY <1>3, <1>6

LEMMA SwapKeeps ==
    ASSUME BiAssumption, BiInv, ~ dangled, NEW o \in BiMaps, NEW m \in BiMaps, Swap(o, m)
    PROVE  BiInv' /\ AllKept
<1>1. BiKinds /\ (\A m2 \in BiMaps : IndexFits(m2)) /\ o # m
  BY DEF BiInv, Swap
<1>2. ASSUME NEW i \in 1..MaxNodes
      PROVE  node'[i] = CASE node[i].owner = o -> [node[i] EXCEPT !.owner = m]
                          [] node[i].owner = m -> [node[i] EXCEPT !.owner = o]
                          [] OTHER -> node[i]
  BY DEF Swap
<1>3. ASSUME NEW i \in 1..MaxNodes, node[i].owner = o
      PROVE  /\ node'[i] \in NodeKinds /\ node'[i].owner = m
             /\ node'[i].key = node[i].key /\ node'[i].val = node[i].val
  <2>1. node[i] \in [owner : BiMaps, key : BiKeys, val : BiValues]
    BY <1>3, NodesHash DEF NodesOf
  <2> QED
    BY <1>2, <1>3, <2>1 DEF NodeKinds
<1>4. ASSUME NEW i \in 1..MaxNodes, node[i].owner = m
      PROVE  /\ node'[i] \in NodeKinds /\ node'[i].owner = o
             /\ node'[i].key = node[i].key /\ node'[i].val = node[i].val
  <2>1. node[i] \in [owner : BiMaps, key : BiKeys, val : BiValues]
    BY <1>4, NodesHash DEF NodesOf
  <2> QED
    BY <1>1, <1>2, <1>4, <2>1 DEF NodeKinds
<1>5. ASSUME NEW i \in 1..MaxNodes, node[i].owner # o, node[i].owner # m PROVE node'[i] = node[i]
  BY <1>2, <1>5
<1>6. BiKinds'
  <2>1. node' = [i \in 1..MaxNodes |-> node'[i]]
    BY DEF Swap
  <2>2. \A i \in 1..MaxNodes : node'[i] \in NodeKinds
    BY <1>1, <1>3, <1>4, <1>5 DEF BiKinds
  <2>3. node' \in [1..MaxNodes -> NodeKinds]
    BY <2>1, <2>2
  <2>4. DOMAIN m_indexMap' = BiMaps /\ \A m2 \in BiMaps : DOMAIN m_indexMap'[m2] = Hashes
    BY <1>1 DEF BiKinds, Swap
  <2>5. spoiled' \in [BiMaps -> BOOLEAN]
    BY <1>1 DEF BiKinds, Swap
  <2> QED
    BY <2>3, <2>4, <2>5 DEF BiKinds
<1>7. Given(o, m) /\ Given(m, o)
  BY <1>1, <1>3, <1>4, <1>5 DEF Given
<1>8. /\ m_indexMap'[m] = m_indexMap[o] /\ spoiled'[m] = spoiled[o]
      /\ m_indexMap'[o] = m_indexMap[m] /\ spoiled'[o] = spoiled[m]
  BY <1>1 DEF BiKinds, Swap
<1>9. IndexFits(m)' /\ Pairs(m)' = Pairs(o)
  BY <1>7, <1>8, SwapHalf
<1>10. IndexFits(o)' /\ Pairs(o)' = Pairs(m)
  BY <1>7, <1>8, SwapHalf
<1>11. ASSUME NEW m2 \in BiMaps, m2 # m, m2 # o
       PROVE  \A i \in 1..MaxNodes : node[i].owner = m2 \/ node'[i].owner = m2 => node'[i] = node[i]
  BY <1>3, <1>4, <1>5, <1>11
<1>12. ASSUME NEW m2 \in BiMaps, m2 # m, m2 # o PROVE IndexFits(m2)'
  <2>1. m_indexMap'[m2] = m_indexMap[m2] /\ spoiled'[m2] = spoiled[m2]
    BY <1>1, <1>12 DEF BiKinds, Swap
  <2> QED
    BY <1>1, <1>11, <1>12, <2>1, OthersFit
<1>13. AllKept
  <2> SUFFICES ASSUME NEW m2 \in BiMaps PROVE Kept(m2)
    BY DEF AllKept
  <2>1. CASE m2 = m \/ m2 = o
    BY <1>1, <1>9, <1>10, <2>1 DEF Kept
  <2>2. CASE m2 # m /\ m2 # o
    BY <1>11, <2>2, SamePairs DEF Kept
  <2> QED
    BY <2>1, <2>2
<1>14. \A m2 \in BiMaps : IndexFits(m2)'
  BY <1>9, <1>10, <1>12
<1>15. ~ dangled'
  BY DEF Swap
<1> QED
  BY <1>6, <1>13, <1>14, <1>15 DEF BiInv, DangledOnlyWhenSpoiled

LEMMA CopyConstructKeeps ==
    ASSUME BiAssumption, BiInv, ~ dangled, NEW o \in BiMaps, NEW m \in BiMaps, CopyConstruct(o, m)
    PROVE  BiInv' /\ AllKept
<1>1. o # m /\ CopyNodes(o, m, NoIndex, Twins(o))
  BY DEF CopyConstruct
<1>2. \A x \in Hashes : NoIndex[x] = NoNode
  BY DEF NoIndex
<1>3. Twins(o) \in BOOLEAN
  BY DEF Twins
<1> QED
  BY <1>1, <1>2, <1>3, CopyNodesKeeps

LEMMA AssignKeeps ==
    ASSUME BiAssumption, BiInv, ~ dangled, NEW o \in BiMaps, NEW m \in BiMaps, Assign(o, m)
    PROVE  BiInv' /\ AllKept
<1> DEFINE spoils == Twins(o) \/ \E x \in Hashes : /\ m_indexMap[m][x] # NoNode
                                                    /\ \A n \in NodesOf(o) : HashV[node[n].val] # x
<1>1. o # m /\ CopyNodes(o, m, m_indexMap[m], spoils)
  BY DEF Assign
<1>2. ~ spoils => /\ ~ Twins(o)
                  /\ \A x \in Hashes : (\A n \in NodesOf(o) : HashV[node[n].val] # x) =>
                        m_indexMap[m][x] = NoNode
  OBVIOUS
<1>3. spoils \in BOOLEAN
  BY DEF Twins
<1> HIDE DEF spoils
<1> QED
  BY <1>1, <1>2, <1>3, CopyNodesKeeps

LEMMA InitBi == BiAssumption /\ BiInit => BiInv
<1> SUFFICES ASSUME BiAssumption, BiInit PROVE BiInv
  OBVIOUS
<1>1. BiKinds
  BY DEF BiInit, BiKinds, NodeKinds, NoIndex
<1>2. \A m \in BiMaps : IndexFits(m)
  BY DEF BiInit, BiAssumption, IndexFits, NodesOf, NoIndex, FreeNode
<1> QED
  BY <1>1, <1>2 DEF BiInit, BiInv, DangledOnlyWhenSpoiled

LEMMA NextBi == ASSUME BiAssumption, BiInv, [BiNext]_biVars PROVE BiInv' /\ AllKept
<1>1. CASE UNCHANGED biVars
  <2>1. node' = node /\ m_indexMap' = m_indexMap /\ spoiled' = spoiled /\ dangled' = dangled
    BY <1>1 DEF biVars
  <2> QED
    BY <2>1, SameNodes DEF BiInv, BiKinds, DangledOnlyWhenSpoiled
<1>2. CASE BiNext
  <2>1. PICK m \in BiMaps :
          \/ Clear(m)
          \/ \E k \in BiKeys : EraseKey(m, k)
          \/ \E v \in BiValues : EraseValue(m, v) \/ Find(m, v)
          \/ \E k \in BiKeys, v \in BiValues :
                Insert(m, k, v) \/ ReplaceValue(m, k, v) \/ ReplaceKey(m, v, k) \/ Update(m, k, v)
          \/ \E o \in BiMaps : CopyConstruct(o, m) \/ Assign(o, m) \/ Swap(o, m)
    BY <1>2 DEF BiNext
  <2>2. ~ dangled
    BY <1>2 DEF BiNext
  <2>3. CASE Clear(m)
    BY <2>2, <2>3, ClearKeeps
  <2>4. ASSUME NEW k \in BiKeys, EraseKey(m, k) PROVE BiInv' /\ AllKept
    BY <2>2, <2>4, EraseKeyKeeps
  <2>5. ASSUME NEW v \in BiValues, EraseValue(m, v) PROVE BiInv' /\ AllKept
    BY <2>2, <2>5, EraseValueKeeps
  <2>6. ASSUME NEW v \in BiValues, Find(m, v) PROVE BiInv' /\ AllKept
    BY <2>2, <2>6, FindKeeps
  <2>7. ASSUME NEW k \in BiKeys, NEW v \in BiValues, Insert(m, k, v) PROVE BiInv' /\ AllKept
    BY <2>2, <2>7, InsertKeeps
  <2>8. ASSUME NEW k \in BiKeys, NEW v \in BiValues, ReplaceValue(m, k, v) PROVE BiInv' /\ AllKept
    BY <2>2, <2>8, ReplaceValueKeeps
  <2>9. ASSUME NEW k \in BiKeys, NEW v \in BiValues, ReplaceKey(m, v, k) PROVE BiInv' /\ AllKept
    BY <2>2, <2>9, ReplaceKeyKeeps
  <2>10. ASSUME NEW k \in BiKeys, NEW v \in BiValues, Update(m, k, v) PROVE BiInv' /\ AllKept
    BY <2>2, <2>10, UpdateKeeps
  <2>11. ASSUME NEW o \in BiMaps, CopyConstruct(o, m) PROVE BiInv' /\ AllKept
    BY <2>2, <2>11, CopyConstructKeeps
  <2>12. ASSUME NEW o \in BiMaps, Assign(o, m) PROVE BiInv' /\ AllKept
    BY <2>2, <2>12, AssignKeeps
  <2>13. ASSUME NEW o \in BiMaps, Swap(o, m) PROVE BiInv' /\ AllKept
    BY <2>2, <2>13, SwapKeeps
  <2> QED
    BY <2>1, <2>3, <2>4, <2>5, <2>6, <2>7, <2>8, <2>9, <2>10, <2>11, <2>12, <2>13
<1> QED
  BY <1>1, <1>2

\* The index of an object that no call has spoiled leads to its own nodes and back.
THEOREM BiMapIInv == ASSUME BiAssumption PROVE BiSpec => []BiInv
<1>1. BiInit => BiInv
  BY InitBi
<1>2. BiInv /\ [BiNext]_biVars => BiInv'
  BY NextBi
<1> QED
  BY <1>1, <1>2, PTL DEF BiSpec

\* Keys and values find each other in whatever order the calls come, a pointer
\* dangles in a spoiled object only, and a call leaves the other pairs alone.
THEOREM BiMapIsSound == ASSUME BiAssumption PROVE BiSpec => BiMapsSound
<1>1. BiInv => MapsInverse /\ DangledOnlyWhenSpoiled
  BY DEF BiInv, IndexFits, MapsInverse, Indexed, NodesOf
<1>2. AllKept => \A m \in BiMaps : Pairs(m)' # Pairs(m) /\ ~ spoiled[m] =>
           \/ Cardinality(Pairs(m) \ Pairs(m)') <= 1 /\ Cardinality(Pairs(m)' \ Pairs(m)) <= 1
           \/ Pairs(m)' = {}
           \/ \E o \in BiMaps \ {m} : Pairs(m)' = Pairs(o)
  BY DEF AllKept, Kept, FewPairs
<1>3. BiInv /\ [BiNext]_biVars =>
        [UNCHANGED biVars \/ \A m \in BiMaps : Pairs(m)' # Pairs(m) /\ ~ spoiled[m] =>
           \/ Cardinality(Pairs(m) \ Pairs(m)') <= 1 /\ Cardinality(Pairs(m)' \ Pairs(m)) <= 1
           \/ Pairs(m)' = {}
           \/ \E o \in BiMaps \ {m} : Pairs(m)' = Pairs(o)]_biVars
  BY <1>2, NextBi
<1>4. BiSpec => []BiInv
  BY BiMapIInv
<1> QED
  BY <1>1, <1>3, <1>4, PTL DEF BiSpec, BiMapsSound, OtherPairsKept

-----------------------------------------------------------------------------
(* ConfigTrees: what the loop over the nodes of a document leaves           *)

\* A map after each of the first n nodes, as the loop makes them.
MapsAfter(f, m, doc, numbers, n) ==
    f = [i \in 0..n |->
           IF i = 0 THEN m
           ELSE IF i \in numbers THEN Inserted(f[i - 1], Key(doc[i].path), doc[i].value)
           ELSE f[i - 1]]

\* There are such maps, for a document of any length.
LEMMA MapsAreMade ==
  ASSUME NEW m, NEW doc, NEW numbers, NEW n \in Nat
  PROVE  \E f : MapsAfter(f, m, doc, numbers, n)
<1> DEFINE Missing == {k \in Nat : ~ \E f : MapsAfter(f, m, doc, numbers, k)}
<1> SUFFICES ASSUME Missing # {} PROVE FALSE
  OBVIOUS
<1>1. PICK k \in Missing : \A y \in Missing : ~ (<<y, k>> \in OpToRel(<, Nat))
  <2>1. Missing # {} /\ Missing \subseteq Nat
    OBVIOUS
  <2> HIDE DEF Missing
  <2> QED
    BY <2>1, WFMin, NatLessThanWellFounded
<1>2. k \in Nat /\ ~ \E f : MapsAfter(f, m, doc, numbers, k)
  OBVIOUS
<1>3. k # 0
  <2>1. MapsAfter([i \in 0..0 |-> m], m, doc, numbers, 0)
    BY DEF MapsAfter
  <2> QED
    BY <1>2, <2>1
<1>4. k - 1 \in Nat /\ k - 1 \notin Missing
  <2>1. k - 1 \in Nat /\ k - 1 < k
    BY <1>2, <1>3
  <2>2. <<k - 1, k>> \in OpToRel(<, Nat)
    BY <1>2, <2>1 DEF OpToRel
  <2> HIDE DEF Missing
  <2> QED
    BY <1>1, <2>1, <2>2
<1>5. PICK f : MapsAfter(f, m, doc, numbers, k - 1)
  BY <1>4
<1> DEFINE g == [i \in 0..k |->
             IF i < k THEN f[i]
             ELSE IF i \in numbers THEN Inserted(f[i - 1], Key(doc[i].path), doc[i].value) ELSE f[i - 1]]
<1>6. MapsAfter(g, m, doc, numbers, k)
  <2>1. ASSUME NEW i \in 0..k
        PROVE  g[i] = IF i = 0 THEN m
                      ELSE IF i \in numbers THEN Inserted(g[i - 1], Key(doc[i].path), doc[i].value)
                      ELSE g[i - 1]
    <3>1. CASE i = 0
      <4>1. g[0] = f[0] /\ f[0] = m
        BY <1>2, <1>3, <1>4, <1>5 DEF MapsAfter
      <4> QED
        BY <3>1, <4>1
    <3>2. CASE i # 0
      <4>1. i - 1 \in 0..k /\ i - 1 < k /\ g[i - 1] = f[i - 1]
        BY <1>2, <3>2
      <4>2. i < k => f[i] = IF i \in numbers THEN Inserted(f[i - 1], Key(doc[i].path), doc[i].value) ELSE f[i - 1]
        BY <1>2, <1>4, <1>5, <3>2 DEF MapsAfter
      <4>3. g[i] = IF i < k THEN f[i]
                   ELSE IF i \in numbers THEN Inserted(f[i - 1], Key(doc[i].path), doc[i].value) ELSE f[i - 1]
        OBVIOUS
      <4> HIDE DEF g
      <4> QED
        BY <3>2, <4>1, <4>2, <4>3
    <3> QED
      BY <3>1, <3>2
  <2>2. g = [i \in 0..k |-> g[i]]
    OBVIOUS
  <2> HIDE DEF g
  <2> QED
    BY <2>1, <2>2 DEF MapsAfter
<1> QED
  BY <1>2, <1>6

LEMMA InsertedAllIs ==
  ASSUME NEW m, NEW doc, Len(doc) \in Nat, NEW numbers
  PROVE  \E f : MapsAfter(f, m, doc, numbers, Len(doc)) /\ InsertedAll(m, doc, numbers) = f[Len(doc)]
<1> DEFINE f == CHOOSE f : MapsAfter(f, m, doc, numbers, Len(doc))
<1>1. MapsAfter(f, m, doc, numbers, Len(doc))
  BY MapsAreMade
<1>2. InsertedAll(m, doc, numbers) = f[Len(doc)]
  BY DEF InsertedAll, MapsAfter
<1> QED
  BY <1>1, <1>2

\* Map r is map m with the nodes of these numbers: a key keeps its first value.
FirstStays(r, m, doc, numbers) ==
    /\ \A k \in DOMAIN m : k \in DOMAIN r /\ r[k] = m[k]
    /\ \A k \in DOMAIN r \ DOMAIN m :
          \E i \in WithKey(doc, numbers, k) :
              /\ r[k] = doc[i].value
              /\ \A j \in WithKey(doc, numbers, k) : i <= j
    /\ \A i \in numbers : Key(doc[i].path) \in DOMAIN r

\* One more node.
LEMMA OneMoreNode ==
  ASSUME NEW a, NEW m, NEW doc, NEW numbers, NEW n \in Nat, n > 0,
         FirstStays(a, m, doc, numbers \cap (1..(n - 1)))
  PROVE  FirstStays(IF n \in numbers THEN Inserted(a, Key(doc[n].path), doc[n].value) ELSE a,
                    m, doc, numbers \cap (1..n))
<1>1. CASE n \notin numbers
  <2>1. numbers \cap (1..n) = numbers \cap (1..(n - 1))
    BY <1>1
  <2> QED
    BY <1>1, <2>1
<1>2. CASE n \in numbers
  <2> DEFINE k0 == Key(doc[n].path)
             r == Inserted(a, k0, doc[n].value)
             before == numbers \cap (1..(n - 1))
             now == numbers \cap (1..n)
  <2>1. now = before \cup {n} /\ \A i \in before : i \in Int /\ i < n
    BY <1>2
  <2>2. DOMAIN r = DOMAIN a \cup {k0} /\ \A k \in DOMAIN a : r[k] = a[k]
    BY DEF Inserted
  <2>3. k0 \notin DOMAIN a => r[k0] = doc[n].value
    BY DEF Inserted
  <2>4. FirstStays(a, m, doc, before)
    OBVIOUS
  <2>5. \A k \in DOMAIN m : k \in DOMAIN r /\ r[k] = m[k]
    BY <2>2, <2>4 DEF FirstStays
  <2>6. \A i \in now : Key(doc[i].path) \in DOMAIN r
    BY <2>1, <2>2, <2>4 DEF FirstStays
  <2>7. ASSUME NEW k \in DOMAIN r \ DOMAIN m
        PROVE  \E i \in WithKey(doc, now, k) :
                   r[k] = doc[i].value /\ \A j \in WithKey(doc, now, k) : i <= j
    <3>1. CASE k \in DOMAIN a
      <4>1. PICK i \in WithKey(doc, before, k) :
                a[k] = doc[i].value /\ \A j \in WithKey(doc, before, k) : i <= j
        BY <2>4, <3>1 DEF FirstStays
      <4>2. i \in WithKey(doc, now, k) /\ i < n /\ i \in Int
        BY <2>1 DEF WithKey
      <4>3. \A j \in WithKey(doc, now, k) : j = n \/ j \in WithKey(doc, before, k)
        BY <2>1 DEF WithKey
      <4>4. \A j \in WithKey(doc, now, k) : i <= j
        <5> HIDE DEF now, before
        <5> QED
          BY <4>1, <4>2, <4>3
      <4>5. r[k] = doc[i].value
        BY <2>2, <3>1, <4>1
      <4> QED
        BY <4>2, <4>4, <4>5
    <3>2. CASE k \notin DOMAIN a
      <4>1. k = k0 /\ r[k] = doc[n].value
        BY <2>2, <2>3, <3>2
      <4>2. \A i \in before : Key(doc[i].path) # k
        BY <2>4, <3>2 DEF FirstStays
      <4>3. WithKey(doc, now, k) = {n}
        BY <2>1, <4>1, <4>2 DEF WithKey
      <4> HIDE DEF now, r
      <4> QED
        BY <4>1, <4>3
    <3> QED
      BY <3>1, <3>2
  <2>8. FirstStays(r, m, doc, now)
    <3> HIDE DEF r, now
    <3> QED
      BY <2>5, <2>6, <2>7 DEF FirstStays
  <2> QED
    BY <1>2, <2>8
<1> QED
  BY <1>1, <1>2

\* The loop to the end of a document of any length.
LEMMA FirstNodeStays ==
  ASSUME NEW m, NEW doc, Len(doc) \in Nat, NEW numbers, numbers \subseteq 1..Len(doc)
  PROVE  FirstStays(InsertedAll(m, doc, numbers), m, doc, numbers)
<1>1. PICK f : MapsAfter(f, m, doc, numbers, Len(doc)) /\ InsertedAll(m, doc, numbers) = f[Len(doc)]
  BY InsertedAllIs
<1> DEFINE Stays(k) == FirstStays(f[k], m, doc, numbers \cap (1..k))
           Wrong == {k \in 0..Len(doc) : ~ Stays(k)}
<1>2. Stays(0)
  <2>1. f[0] = m /\ numbers \cap (1..0) = {}
    BY <1>1 DEF MapsAfter
  <2>2. FirstStays(m, m, doc, {})
    BY DEF FirstStays
  <2> QED
    BY <2>1, <2>2
<1>3. ASSUME NEW k \in 1..Len(doc), Stays(k - 1) PROVE Stays(k)
  <2>1. f[k] = IF k \in numbers THEN Inserted(f[k - 1], Key(doc[k].path), doc[k].value) ELSE f[k - 1]
    BY <1>1 DEF MapsAfter
  <2>2. k \in Nat /\ k > 0
    OBVIOUS
  <2>3. FirstStays(IF k \in numbers THEN Inserted(f[k - 1], Key(doc[k].path), doc[k].value) ELSE f[k - 1],
                   m, doc, numbers \cap (1..k))
    BY <1>3, <2>2, OneMoreNode
  <2> QED
    BY <2>1, <2>3
<1>4. Wrong = {}
  <2> SUFFICES ASSUME Wrong # {} PROVE FALSE
    OBVIOUS
  <2>1. Wrong \subseteq Nat
    OBVIOUS
  <2>2. PICK k \in Wrong : \A y \in Wrong : ~ (<<y, k>> \in OpToRel(<, Nat))
    <3> HIDE DEF Wrong
    <3> QED
      BY <2>1, WFMin, NatLessThanWellFounded
  <2>3. k \in 0..Len(doc) /\ ~ Stays(k) /\ k # 0
    <3>1. k \in 0..Len(doc) /\ ~ Stays(k)
      OBVIOUS
    <3> HIDE DEF Stays
    <3> QED
      BY <1>2, <3>1
  <2>4. k - 1 \notin Wrong
    <3>1. k - 1 \in Nat /\ k \in Nat /\ k - 1 < k
      BY <2>3
    <3>2. <<k - 1, k>> \in OpToRel(<, Nat)
      BY <3>1 DEF OpToRel
    <3> HIDE DEF Wrong
    <3> QED
      BY <2>2, <3>2
  <2>5. Stays(k - 1) /\ k \in 1..Len(doc)
    <3>1. k - 1 \in 0..Len(doc) /\ k \in 1..Len(doc)
      BY <2>3
    <3> HIDE DEF Stays
    <3> QED
      BY <2>4, <3>1
  <2> HIDE DEF Stays
  <2> QED
    BY <1>3, <2>3, <2>5
<1>5. Stays(Len(doc))
  <2> HIDE DEF Stays
  <2> QED
    BY <1>4
<1>6. numbers \cap (1..Len(doc)) = numbers
  OBVIOUS
<1> QED
  BY <1>1, <1>5, <1>6

-----------------------------------------------------------------------------
(* ConfigTrees: what is shown is in the documents loaded                    *)

TreesKinds == /\ mYamlPath \in Documents \cup {Nothing}
              /\ xmlLoads \in Seq(Documents)

TreesIInv == TreesKinds /\ YamlShowsLastLoad /\ XmlShowsFirstLoad

\* A document has the numbers of its nodes.
LEMMA NodesAreNumbered ==
  ASSUME NEW doc \in Documents
  PROVE  /\ Len(doc) \in Nat /\ doc # Nothing
         /\ YamlNodes(doc) \subseteq 1..Len(doc) /\ XmlNodes(doc) \subseteq 1..Len(doc)
  BY TreesAssumption DEF YamlNodes, XmlNodes

\* root() enters nothing but the empty key.
LEMMA RootKeeps == ASSUME TreesIInv, Root PROVE TreesIInv'
<1>1. /\ DOMAIN mYamlConfigMap' = DOMAIN mYamlConfigMap \cup {<<>>}
      /\ \A k \in DOMAIN mYamlConfigMap : mYamlConfigMap'[k] = mYamlConfigMap[k]
  BY DEF Root, Inserted
<1>2. mYamlPath' = mYamlPath /\ xmlLoads' = xmlLoads /\ m_xmlMap' = m_xmlMap
  BY DEF Root
<1>3. YamlShowsLastLoad'
  BY <1>1, <1>2 DEF TreesIInv, YamlShowsLastLoad, WithKey, YamlNodes, Accepts
<1>4. XmlShowsFirstLoad'
  BY <1>2 DEF TreesIInv, XmlShowsFirstLoad
<1>5. TreesKinds'
  BY <1>2 DEF TreesIInv, TreesKinds
<1> QED
  BY <1>3, <1>4, <1>5 DEF TreesIInv

\* A load of YamlReader, whether there is a document or not.
LEMMA LoadYamlKeeps ==
  ASSUME TreesIInv, NEW d \in Documents \cup {Nothing}, LoadYaml(d)
  PROVE  TreesIInv'
<1>1. mYamlPath' = d /\ xmlLoads' = xmlLoads /\ m_xmlMap' = m_xmlMap
  BY DEF LoadYaml
<1>2. CASE d = Nothing
  <2>1. DOMAIN mYamlConfigMap' = {}
    BY <1>2 DEF LoadYaml, NoNodes
  <2> QED
    BY <1>1, <1>2, <2>1 DEF TreesIInv, TreesKinds, YamlShowsLastLoad, XmlShowsFirstLoad
<1>3. CASE d # Nothing
  <2> DEFINE empty == Inserted(NoNodes, <<>>, Nothing)
  <2>1. d \in Documents /\ Len(d) \in Nat /\ YamlNodes(d) \subseteq 1..Len(d)
    BY <1>3, NodesAreNumbered
  <2>2. mYamlConfigMap' = InsertedAll(empty, d, YamlNodes(d))
    BY <1>3 DEF LoadYaml, LoadYamlNodes
  <2>3. DOMAIN empty = {<<>>}
    BY DEF Inserted, NoNodes
  <2>4. FirstStays(mYamlConfigMap', empty, d, YamlNodes(d))
    <3> HIDE DEF empty
    <3> QED
      BY <2>1, <2>2, FirstNodeStays
  <2>5. YamlShowsLastLoad'
    <3>1. \A k \in DOMAIN mYamlConfigMap' \ {<<>>} :
             \E i \in WithKey(d, YamlNodes(d), k) :
                /\ mYamlConfigMap'[k] = d[i].value
                /\ \A j \in WithKey(d, YamlNodes(d), k) : i <= j
      BY <2>3, <2>4 DEF FirstStays
    <3>2. \A i \in YamlNodes(d) : Key(d[i].path) \in DOMAIN mYamlConfigMap'
      BY <2>4 DEF FirstStays
    <3> QED
      BY <1>1, <1>3, <3>1, <3>2 DEF YamlShowsLastLoad, WithKey, YamlNodes, Accepts
  <2>6. XmlShowsFirstLoad' /\ TreesKinds'
    BY <1>1 DEF TreesIInv, TreesKinds, XmlShowsFirstLoad
  <2> QED
    BY <2>5, <2>6 DEF TreesIInv
<1> QED
  BY <1>2, <1>3

\* A load of XmlConfig: a key that was in the map was in a document before; one that
\* was not was in none of them.
LEMMA LoadXmlKeeps ==
  ASSUME TreesIInv, NEW d \in Documents \cup {Nothing}, LoadXml(d)
  PROVE  TreesIInv'
<1> DEFINE last == Len(xmlLoads) + 1
           Of(loads, n, k) == WithKey(loads[n], XmlNodes(loads[n]), k)
<1>1. /\ d \in Documents /\ Len(d) \in Nat /\ XmlNodes(d) \subseteq 1..Len(d)
      /\ mYamlConfigMap' = mYamlConfigMap /\ mYamlPath' = mYamlPath
      /\ m_xmlMap' = InsertedAll(m_xmlMap, d, XmlNodes(d)) /\ xmlLoads' = Append(xmlLoads, d)
  BY NodesAreNumbered DEF LoadXml, LoadXmlNodes
<1>2. /\ xmlLoads \in Seq(Documents) /\ Len(xmlLoads) \in Nat /\ DOMAIN xmlLoads = 1..Len(xmlLoads)
      /\ xmlLoads' \in Seq(Documents)
      /\ DOMAIN xmlLoads' = 1..last /\ last \in Nat
      /\ xmlLoads'[last] = d /\ \A n \in 1..Len(xmlLoads) : xmlLoads'[n] = xmlLoads[n]
  BY <1>1 DEF TreesIInv, TreesKinds
<1>3. FirstStays(m_xmlMap', m_xmlMap, d, XmlNodes(d))
  BY <1>1, FirstNodeStays
<1>4. /\ \A k \in DOMAIN m_xmlMap :
            \E n \in DOMAIN xmlLoads : \E i \in Of(xmlLoads, n, k) :
               /\ m_xmlMap[k] = xmlLoads[n][i].value
               /\ \A j \in Of(xmlLoads, n, k) : i <= j
               /\ \A e \in 1..(n - 1) : Of(xmlLoads, e, k) = {}
      /\ \A n \in DOMAIN xmlLoads : \A i \in XmlNodes(xmlLoads[n]) :
            Key(xmlLoads[n][i].path) \in DOMAIN m_xmlMap
  BY DEF TreesIInv, XmlShowsFirstLoad
<1>6. \A k : Of(xmlLoads', last, k) = WithKey(d, XmlNodes(d), k)
  BY <1>2
<1>7. \A n \in 1..Len(xmlLoads) : \A k : Of(xmlLoads', n, k) = Of(xmlLoads, n, k)
  BY <1>2
<1>8. ASSUME NEW k \in DOMAIN m_xmlMap'
      PROVE  \E n \in DOMAIN xmlLoads' : \E i \in Of(xmlLoads', n, k) :
                /\ m_xmlMap'[k] = xmlLoads'[n][i].value
                /\ \A j \in Of(xmlLoads', n, k) : i <= j
                /\ \A e \in 1..(n - 1) : Of(xmlLoads', e, k) = {}
  <2>1. CASE k \in DOMAIN m_xmlMap
    <3>1. PICK n \in DOMAIN xmlLoads : \E i \in Of(xmlLoads, n, k) :
               /\ m_xmlMap[k] = xmlLoads[n][i].value
               /\ \A j \in Of(xmlLoads, n, k) : i <= j
               /\ \A e \in 1..(n - 1) : Of(xmlLoads, e, k) = {}
      <4> HIDE DEF Of
      <4> QED
        BY <1>4, <2>1
    <3>2. PICK i \in Of(xmlLoads, n, k) :
               /\ m_xmlMap[k] = xmlLoads[n][i].value
               /\ \A j \in Of(xmlLoads, n, k) : i <= j
               /\ \A e \in 1..(n - 1) : Of(xmlLoads, e, k) = {}
      BY <3>1
    <3>3. m_xmlMap'[k] = m_xmlMap[k]
      BY <1>3, <2>1 DEF FirstStays
    <3>4. n \in 1..Len(xmlLoads) /\ n \in DOMAIN xmlLoads' /\ xmlLoads'[n] = xmlLoads[n]
      BY <1>2
    <3>5. \A e \in 1..(n - 1) : e \in 1..Len(xmlLoads)
      BY <1>2
    <3> HIDE DEF Of
    <3>6. Of(xmlLoads', n, k) = Of(xmlLoads, n, k)
      BY <1>7, <3>4
    <3>7. \A e \in 1..(n - 1) : Of(xmlLoads', e, k) = {}
      BY <1>7, <3>2, <3>5
    <3> QED
      BY <3>2, <3>3, <3>4, <3>6, <3>7
  <2>2. CASE k \notin DOMAIN m_xmlMap
    <3>1. PICK i \in WithKey(d, XmlNodes(d), k) :
               m_xmlMap'[k] = d[i].value /\ \A j \in WithKey(d, XmlNodes(d), k) : i <= j
      BY <1>3, <2>2 DEF FirstStays
    <3>2. ASSUME NEW e \in 1..Len(xmlLoads) PROVE Of(xmlLoads, e, k) = {}
      BY <1>2, <1>4, <2>2 DEF WithKey
    <3>3. \A e \in 1..(last - 1) : e \in 1..Len(xmlLoads)
      BY <1>2
    <3>4. last \in DOMAIN xmlLoads' /\ xmlLoads'[last] = d
      BY <1>2
    <3> HIDE DEF Of, last
    <3>5. \A e \in 1..(last - 1) : Of(xmlLoads', e, k) = {}
      BY <1>7, <3>2, <3>3
    <3> QED
      BY <1>6, <3>1, <3>4, <3>5
  <2> QED
    BY <2>1, <2>2
<1>9. ASSUME NEW n \in DOMAIN xmlLoads', NEW i \in XmlNodes(xmlLoads'[n])
      PROVE  Key(xmlLoads'[n][i].path) \in DOMAIN m_xmlMap'
  <2>1. CASE n = last
    BY <1>2, <1>3, <2>1 DEF FirstStays
  <2>2. CASE n # last
    <3>1. n \in DOMAIN xmlLoads /\ xmlLoads'[n] = xmlLoads[n]
      BY <1>2, <2>2
    <3>2. Key(xmlLoads[n][i].path) \in DOMAIN m_xmlMap
      BY <1>4, <3>1
    <3> QED
      BY <1>3, <3>1, <3>2 DEF FirstStays
  <2> QED
    BY <2>1, <2>2
<1>10. XmlShowsFirstLoad'
  BY <1>8, <1>9 DEF XmlShowsFirstLoad, WithKey, XmlNodes
<1>11. YamlShowsLastLoad' /\ TreesKinds'
  BY <1>1, <1>2 DEF TreesIInv, TreesKinds, YamlShowsLastLoad
<1> QED
  BY <1>10, <1>11 DEF TreesIInv

\* What a YamlReader and an XmlConfig give, for documents of any length and loads
\* in any order and number: the first value of a key in the last YAML document, and
\* in the first XML document that had the key; nothing else, and nothing missing.
THEOREM ConfigIsShown == TreesSpec => []ConfigShown
<1>1. TreesInit => TreesIInv
  <2> SUFFICES ASSUME TreesInit PROVE TreesIInv
    OBVIOUS
  <2>1. DOMAIN NoNodes = {}
    BY DEF NoNodes
  <2>2. YamlShowsLastLoad
    BY <2>1 DEF TreesInit, YamlShowsLastLoad
  <2>3. XmlShowsFirstLoad
    <3>1. DOMAIN m_xmlMap = {} /\ DOMAIN xmlLoads = {}
      BY <2>1 DEF TreesInit
    <3> QED
      BY <3>1 DEF XmlShowsFirstLoad
  <2> QED
    BY <2>2, <2>3 DEF TreesInit, TreesIInv, TreesKinds
<1>2. TreesIInv /\ [TreesNext]_treesVars => TreesIInv'
  <2> SUFFICES ASSUME TreesIInv, [TreesNext]_treesVars PROVE TreesIInv'
    OBVIOUS
  <2>1. CASE Root
    BY <2>1, RootKeeps
  <2>2. ASSUME NEW d \in Documents \cup {Nothing}, LoadYaml(d) PROVE TreesIInv'
    BY <2>2, LoadYamlKeeps
  <2>3. ASSUME NEW d \in Documents \cup {Nothing}, LoadXml(d) PROVE TreesIInv'
    BY <2>3, LoadXmlKeeps
  <2>4. CASE UNCHANGED treesVars
    BY <2>4 DEF treesVars, TreesIInv, TreesKinds, YamlShowsLastLoad, XmlShowsFirstLoad
  <2> QED
    BY <2>1, <2>2, <2>3, <2>4 DEF TreesNext
<1>3. TreesIInv => ConfigShown
  BY DEF TreesIInv, ConfigShown
<1> QED
  BY <1>1, <1>2, <1>3, PTL DEF TreesSpec
=============================================================================
