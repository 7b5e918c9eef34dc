----------------------------- MODULE SyncProof -----------------------------
(***************************************************************************)
(* The locks, the threads and the singletons of utils.                      *)
(* SpinLock gives mutual exclusion and implements the abstract lock, for   *)
(* every set of threads.  The robust mutex, for any tasks, deaths and       *)
(* rounds, lets one task inside, is lost only by trylock(), and has no      *)
(* owner that does not know it is one.  The deadlines of Sem and Condition  *)
(* are exact for any resolution of the clock, but for one of Sem's.         *)
(* Thread: the constructor, join(), detach() and the destructor against the *)
(* entrance of its pthread.  ThreadBase: rounds are paid for, none starts   *)
(* after a stop(), and a worker that waits is seen to wait unless run() has *)
(* written over its status.  Singleton<T>: the one instance and its         *)
(* handles, any finite set of them.  All for any number of calls.           *)
(***************************************************************************)
EXTENDS SpinLock, Mutex, Sem, Thread, ThreadBase, Singleton,
        FiniteSetTheorems, TLAPS

\* SpinLock::m_locked is false and no thread has called lock() yet.
LEMMA InitInv == Init => Inv
  BY DEF Init, Inv, TypeOK, PC, MutualExclusion, FlagIffHeld

\* No step of lock(), try_lock(), LockSlow() or unlock() disturbs the invariant.
LEMMA NextInv == Inv /\ [Next]_vars => Inv'
<1> SUFFICES ASSUME Inv, [Next]_vars PROVE Inv'
  OBVIOUS
<1> USE DEF Inv, TypeOK, PC, MutualExclusion, FlagIffHeld
<1>1. ASSUME NEW t \in Threads, LockFast(t) PROVE Inv'
  BY <1>1 DEF LockFast, Exchange
<1>2. ASSUME NEW t \in Threads, TryLock(t) PROVE Inv'
  BY <1>2 DEF TryLock, Exchange
<1>3. ASSUME NEW t \in Threads, SpinLoad(t) PROVE Inv'
  BY <1>3 DEF SpinLoad
<1>4. ASSUME NEW t \in Threads, SpinExchange(t) PROVE Inv'
  BY <1>4 DEF SpinExchange, Exchange
<1>5. ASSUME NEW t \in Threads, Unlock(t) PROVE Inv'
  BY <1>5 DEF Unlock
<1>6. CASE UNCHANGED vars
  BY <1>6 DEF vars
<1> QED
  BY <1>1, <1>2, <1>3, <1>4, <1>5, <1>6 DEF Next

\* The state of the lock, whatever the interleaving: the flag, the threads in
\* LockSlow and the holder are consistent.
THEOREM SpinLockInv == Spec => []Inv
  BY InitInv, NextInv, PTL DEF Spec

\* The flag is set exactly while a thread holds the lock: a failed try_lock()
\* neither frees it nor keeps it.
THEOREM SpinLockFlag == Spec => []FlagIffHeld
<1>1. Inv => FlagIffHeld
  BY DEF Inv
<1> QED
  BY <1>1, SpinLockInv, PTL

\* SpinLock::lock lets one thread at a time through.
THEOREM SpinLockMutualExclusion == Spec => []MutualExclusion
<1>1. Inv => MutualExclusion
  BY DEF Inv
<1> QED
  BY <1>1, SpinLockInv, PTL

-----------------------------------------------------------------------------
\* With mutual exclusion, the abstract holder is the thread that holds.
LEMMA HolderIs == ASSUME Inv, NEW t \in Threads, Held(t) PROVE holder = t
  BY DEF Inv, MutualExclusion, Held, holder

LEMMA HolderNone == ASSUME Inv, ~ m_locked PROVE holder = NoThread
  BY DEF Inv, FlagIffHeld, Held, holder

\* A step of an exchange is an Acquire when it finds the flag free, and a
\* stutter otherwise.
LEMMA ExchangeImplements ==
  ASSUME Inv, Inv', NEW t \in Threads, NEW o \in {"load", "idle"},
         ~ Held(t), Exchange(t, o)
  PROVE  AbstractLock!Next \/ UNCHANGED holder
<1>1. CASE ~ m_locked
  <2>1. holder = NoThread
    BY <1>1, HolderNone
  <2>2. Held(t)'
    BY <1>1 DEF Exchange, Held, Inv, TypeOK
  <2>3. holder' = t
    BY <2>2 DEF Inv, MutualExclusion, Held, holder
  <2> QED
    BY <2>1, <2>3 DEF AbstractLock!Next, AbstractLock!Acquire
<1>2. CASE m_locked
  <2>1. \A s \in Threads : Held(s)' <=> Held(s)
    BY <1>2 DEF Exchange, Held, Inv, TypeOK
  <2>2. PICK s \in Threads : Held(s)
    BY <1>2 DEF Inv, FlagIffHeld, Held
  <2>3. holder = s
    BY <2>2, HolderIs
  <2>4. holder' = s
    BY <2>1, <2>2 DEF Inv, MutualExclusion, Held, holder
  <2> QED
    BY <2>3, <2>4
<1> QED
  BY <1>1, <1>2 DEF Inv, TypeOK

LEMMA StepImplements ==
  Inv /\ Inv' /\ [Next]_vars => [AbstractLock!Next]_holder
<1> SUFFICES ASSUME Inv, Inv', [Next]_vars
             PROVE AbstractLock!Next \/ UNCHANGED holder
  OBVIOUS
<1>1. ASSUME NEW t \in Threads, LockFast(t)
      PROVE AbstractLock!Next \/ UNCHANGED holder
  BY <1>1, ExchangeImplements DEF LockFast, Held
<1>2. ASSUME NEW t \in Threads, TryLock(t)
      PROVE AbstractLock!Next \/ UNCHANGED holder
  BY <1>2, ExchangeImplements DEF TryLock, Held
<1>3. ASSUME NEW t \in Threads, SpinExchange(t)
      PROVE AbstractLock!Next \/ UNCHANGED holder
  BY <1>3, ExchangeImplements DEF SpinExchange, Held
<1>4. ASSUME NEW t \in Threads, SpinLoad(t)
      PROVE AbstractLock!Next \/ UNCHANGED holder
  <2>1. holder' = NoThread
    BY <1>4 DEF SpinLoad, Inv, FlagIffHeld, Held, holder
  <2> QED
    BY <1>4, <2>1, HolderNone DEF SpinLoad
<1>5. ASSUME NEW t \in Threads, Unlock(t)
      PROVE AbstractLock!Next \/ UNCHANGED holder
  <2>1. holder = t
    BY <1>5, HolderIs DEF Unlock, Held
  <2>2. holder' = NoThread
    BY <1>5 DEF Unlock, Inv, FlagIffHeld, Held, holder
  <2> QED
    BY <2>1, <2>2 DEF AbstractLock!Next, AbstractLock!Release
<1>6. CASE UNCHANGED vars
  BY <1>6 DEF vars, Held, holder
<1> QED
  BY <1>1, <1>2, <1>3, <1>4, <1>5, <1>6 DEF Next

\* SpinLock is a lock: every behaviour of its atomic operations, seen through
\* the thread that holds it, is a behaviour of the abstract lock.
THEOREM SpinLockImplements == Spec => Implements
<1>1. Init => AbstractLock!Init
  BY InitInv, HolderNone DEF Init, AbstractLock!Init
<1> QED
  BY <1>1, SpinLockInv, StepImplements, PTL
     DEF Spec, Implements, AbstractLock!Spec

-----------------------------------------------------------------------------
(* Mutex *)

\* Nobody stands for the absence of a task.
MutexAssumption == Nobody \notin Tasks

Within == {"inside", "unlock"}

TaskKinds == /\ recursive \in BOOLEAN
         /\ owner \in Tasks \cup {Nobody}
         /\ condition \in {"clean", "ownerDead", "notRecoverable"}
         /\ at \in [Tasks -> {"outside", "lock", "consistent", "inside", "unlock", "dead"}]
         /\ takenOver \in BOOLEAN

\* The count of the pthread mutex covers the locks that its owner will undo.
Depths == /\ scopes \in [Tasks -> Int]
          /\ depth \in Nat
          /\ owner # Nobody => depth > 0 /\ scopes[owner] <= depth
          /\ \A t \in Tasks : at[t] \in Within => scopes[t] > 0
          /\ \A t \in Tasks : at[t] \in {"outside", "lock"} => scopes[t] = 0

\* Who is inside has the mutex, as long as it is of use.
WithinOwns == \A t \in Tasks : at[t] \in Within => owner = t \/ condition = "notRecoverable"

\* A mutex that is of no use belongs to nobody.
LostIsFree == condition = "notRecoverable" => owner = Nobody

\* Who is about to declare the mutex consistent has it.
Declares == \A t \in Tasks : at[t] = "consistent" =>
               owner = t /\ condition = "ownerDead" /\ scopes[t] = 1

\* Without a trylock() that took over, an owner knows that it is the owner, has
\* a lock to undo for every count, and does not get inside before it has
\* declared the mutex consistent.
KnownOwner == owner # Nobody /\ ~ takenOver =>
                 /\ at[owner] \in Within \cup {"consistent"}
                 /\ scopes[owner] = depth
                 /\ condition = "ownerDead" => at[owner] = "consistent"

MInv == TaskKinds /\ Depths /\ WithinOwns /\ LostIsFree /\ Declares /\ KnownOwner /\ LockRecovers

\* All of them hold of a new mutex.
LEMMA InitMInv == MutexInit => MInv
<1> SUFFICES ASSUME MutexInit PROVE MInv
  OBVIOUS
<1>1. TaskKinds
  BY DEF MutexInit, TaskKinds
<1>2. Depths
  BY DEF MutexInit, Depths, Within
<1>3. WithinOwns /\ LostIsFree /\ Declares /\ KnownOwner /\ LockRecovers
  BY DEF MutexInit, WithinOwns, LostIsFree, Declares, KnownOwner, LockRecovers, Within
<1> QED
  BY <1>1, <1>2, <1>3 DEF MInv

\* What each step does to the mutex and to the places of the tasks.
LEMMA NextKinds == ASSUME MutexAssumption, MInv, [MutexNext]_mutexVars PROVE TaskKinds'
<1> USE DEF MutexAssumption, MInv, TaskKinds, Goto, Scopes
<1>1. ASSUME NEW t \in Tasks, Enter(t) PROVE TaskKinds'
  BY <1>1 DEF Enter
<1>2. ASSUME NEW t \in Tasks, TryLockMutex(t) PROVE TaskKinds'
  BY <1>2 DEF TryLockMutex, Take
<1>3. ASSUME NEW t \in Tasks, Lock(t) PROVE TaskKinds'
  BY <1>3 DEF Lock, Take
<1>4. ASSUME NEW t \in Tasks, Consistent(t) PROVE TaskKinds'
  BY <1>4 DEF Consistent
<1>5. ASSUME NEW t \in Tasks, LockUnusable(t) PROVE TaskKinds'
  BY <1>5 DEF LockUnusable
<1>6. ASSUME NEW t \in Tasks, Leave(t) PROVE TaskKinds'
  BY <1>6 DEF Leave
<1>7. ASSUME NEW t \in Tasks, UnlockMutex(t) PROVE TaskKinds'
  BY <1>7 DEF UnlockMutex, Undone, Drop
<1>8. ASSUME NEW t \in Tasks, Relock(t) PROVE TaskKinds'
  BY <1>8 DEF Relock
<1>9. ASSUME NEW t \in Tasks, Die(t) PROVE TaskKinds'
  BY <1>9 DEF Die
<1>10. CASE UNCHANGED mutexVars
  BY <1>10 DEF mutexVars
<1> QED
  BY <1>1, <1>2, <1>3, <1>4, <1>5, <1>6, <1>7, <1>8, <1>9, <1>10 DEF MutexNext, Proceed

\* Counts and locks to undo stay in step.
LEMMA NextDepths == ASSUME MutexAssumption, MInv, [MutexNext]_mutexVars PROVE Depths'
<1> USE DEF MutexAssumption, MInv, TaskKinds, Depths, WithinOwns, LostIsFree, Declares, Within,
        Goto, Scopes
<1>1. ASSUME NEW t \in Tasks, Enter(t) PROVE Depths'
  BY <1>1 DEF Enter
<1>2. ASSUME NEW t \in Tasks, TryLockMutex(t) PROVE Depths'
  BY <1>2 DEF TryLockMutex, Take
<1>3. ASSUME NEW t \in Tasks, Lock(t) PROVE Depths'
  BY <1>3 DEF Lock, Take
<1>4. ASSUME NEW t \in Tasks, Consistent(t) PROVE Depths'
  BY <1>4 DEF Consistent
<1>5. ASSUME NEW t \in Tasks, LockUnusable(t) PROVE Depths'
  BY <1>5 DEF LockUnusable
<1>6. ASSUME NEW t \in Tasks, Leave(t) PROVE Depths'
  BY <1>6 DEF Leave
<1>7. ASSUME NEW t \in Tasks, UnlockMutex(t) PROVE Depths'
  BY <1>7 DEF UnlockMutex, Undone, Drop
<1>8. ASSUME NEW t \in Tasks, Relock(t) PROVE Depths'
  BY <1>8 DEF Relock
<1>9. ASSUME NEW t \in Tasks, Die(t) PROVE Depths'
  BY <1>9 DEF Die
<1>10. CASE UNCHANGED mutexVars
  BY <1>10 DEF mutexVars
<1> QED
  BY <1>1, <1>2, <1>3, <1>4, <1>5, <1>6, <1>7, <1>8, <1>9, <1>10 DEF MutexNext, Proceed

\* Who is inside and who has the mutex stay in step.
LEMMA NextOwners ==
  ASSUME MutexAssumption, MInv, [MutexNext]_mutexVars
  PROVE  (WithinOwns /\ LostIsFree /\ Declares)'
<1> USE DEF MutexAssumption, MInv, TaskKinds, Depths, WithinOwns, LostIsFree, Declares, Within,
        Goto, Scopes
<1>1. ASSUME NEW t \in Tasks, Enter(t) PROVE (WithinOwns /\ LostIsFree /\ Declares)'
  BY <1>1 DEF Enter
<1>2. ASSUME NEW t \in Tasks, TryLockMutex(t) PROVE (WithinOwns /\ LostIsFree /\ Declares)'
  BY <1>2 DEF TryLockMutex, Take
<1>3. ASSUME NEW t \in Tasks, Lock(t) PROVE (WithinOwns /\ LostIsFree /\ Declares)'
  BY <1>3 DEF Lock, Take
<1>4. ASSUME NEW t \in Tasks, Consistent(t) PROVE (WithinOwns /\ LostIsFree /\ Declares)'
  BY <1>4 DEF Consistent
<1>5. ASSUME NEW t \in Tasks, LockUnusable(t) PROVE (WithinOwns /\ LostIsFree /\ Declares)'
  BY <1>5 DEF LockUnusable
<1>6. ASSUME NEW t \in Tasks, Leave(t) PROVE (WithinOwns /\ LostIsFree /\ Declares)'
  BY <1>6 DEF Leave
<1>7. ASSUME NEW t \in Tasks, UnlockMutex(t) PROVE (WithinOwns /\ LostIsFree /\ Declares)'
  BY <1>7 DEF UnlockMutex, Undone, Drop
<1>8. ASSUME NEW t \in Tasks, Relock(t) PROVE (WithinOwns /\ LostIsFree /\ Declares)'
  BY <1>8 DEF Relock
<1>9. ASSUME NEW t \in Tasks, Die(t) PROVE (WithinOwns /\ LostIsFree /\ Declares)'
  BY <1>9 DEF Die
<1>10. CASE UNCHANGED mutexVars
  BY <1>10 DEF mutexVars
<1> QED
  BY <1>1, <1>2, <1>3, <1>4, <1>5, <1>6, <1>7, <1>8, <1>9, <1>10 DEF MutexNext, Proceed

\* Only trylock() makes an owner that does not know, or loses the mutex.
LEMMA NextKnown ==
  ASSUME MutexAssumption, MInv, [MutexNext]_mutexVars
  PROVE  (KnownOwner /\ LockRecovers)'
<1> USE DEF MutexAssumption, MInv, TaskKinds, Depths, WithinOwns, LostIsFree, Declares,
        KnownOwner, LockRecovers, Within, Goto, Scopes
<1>1. ASSUME NEW t \in Tasks, Enter(t) PROVE (KnownOwner /\ LockRecovers)'
  BY <1>1 DEF Enter
<1>2. ASSUME NEW t \in Tasks, TryLockMutex(t) PROVE (KnownOwner /\ LockRecovers)'
  BY <1>2 DEF TryLockMutex, Take
<1>3. ASSUME NEW t \in Tasks, Lock(t) PROVE (KnownOwner /\ LockRecovers)'
  BY <1>3 DEF Lock, Take
<1>4. ASSUME NEW t \in Tasks, Consistent(t) PROVE (KnownOwner /\ LockRecovers)'
  BY <1>4 DEF Consistent
<1>5. ASSUME NEW t \in Tasks, LockUnusable(t) PROVE (KnownOwner /\ LockRecovers)'
  BY <1>5 DEF LockUnusable
<1>6. ASSUME NEW t \in Tasks, Leave(t) PROVE (KnownOwner /\ LockRecovers)'
  BY <1>6 DEF Leave
<1>7. ASSUME NEW t \in Tasks, UnlockMutex(t) PROVE (KnownOwner /\ LockRecovers)'
  BY <1>7 DEF UnlockMutex, Undone, Drop
<1>8. ASSUME NEW t \in Tasks, Relock(t) PROVE (KnownOwner /\ LockRecovers)'
  BY <1>8 DEF Relock
<1>9. ASSUME NEW t \in Tasks, Die(t) PROVE (KnownOwner /\ LockRecovers)'
  BY <1>9 DEF Die
<1>10. CASE UNCHANGED mutexVars
  BY <1>10 DEF mutexVars
<1> QED
  BY <1>1, <1>2, <1>3, <1>4, <1>5, <1>6, <1>7, <1>8, <1>9, <1>10 DEF MutexNext, Proceed

\* No step of a task breaks any part.
LEMMA NextMInv == ASSUME MutexAssumption, MInv, [MutexNext]_mutexVars PROVE MInv'
  BY NextKinds, NextDepths, NextOwners, NextKnown DEF MInv

\* The inductive invariant of the robust mutex.
THEOREM MutexIInv == ASSUME MutexAssumption PROVE MutexSpec => []MInv
  BY InitMInv, NextMInv, PTL DEF MutexSpec

\* At most one task is inside, as long as the mutex is of use.
THEOREM MutexOneInside == ASSUME MutexAssumption PROVE MutexSpec => []OneInside
<1>1. MInv => OneInside
  <2> SUFFICES ASSUME MInv, condition # "notRecoverable"
               PROVE  Cardinality({t \in Tasks : at[t] \in {"inside", "unlock"}}) <= 1
    BY DEF OneInside
  <2> DEFINE S == {t \in Tasks : at[t] \in {"inside", "unlock"}}
  <2>1. S \subseteq {owner}
    BY DEF MInv, WithinOwns, Within
  <2>2. IsFiniteSet({owner}) /\ Cardinality({owner}) = 1
    BY FS_Singleton
  <2>3. Cardinality(S) <= Cardinality({owner})
    BY <2>1, <2>2, FS_Subset
  <2> QED
    BY <2>2, <2>3
<1> QED
  BY <1>1, MutexIInv, PTL

\* Only a trylock() that took the mutex over can lose it, whoever dies where.
THEOREM MutexRecovers == ASSUME MutexAssumption PROVE MutexSpec => []LockRecovers
<1>1. MInv => LockRecovers
  BY DEF MInv
<1> QED
  BY <1>1, MutexIInv, PTL

\* Every owner knows that it has the mutex.
THEOREM MutexOwnerKnows == ASSUME MutexAssumption PROVE MutexSpec => []OwnerKnows
<1>1. MInv => OwnerKnows
  BY DEF MInv, KnownOwner, OwnerKnows, Within
<1> QED
  BY <1>1, MutexIInv, PTL

\* Exclusion survives the deaths of the tasks, all of it in one invariant.
THEOREM MutexIsSafe == ASSUME MutexAssumption PROVE MutexSpec => []MutexSafe
  BY MutexOneInside, MutexRecovers, MutexOwnerKnows, PTL DEF MutexSafe

-----------------------------------------------------------------------------
(* Sem *)

\* A second has steps, and the time-outs are natural numbers.
SemAssumption == Second \in Nat \ {0} /\ Timeouts \subseteq Nat

\* What clock and deadlines are made of.
SemKinds == /\ clock \in Nat
            /\ call \in [Waiters -> {"none", "wait", "timedwait"}]
            /\ begun \in [Waiters -> Nat] /\ timeout \in [Waiters -> Nat]
            /\ expire \in [Waiters -> [sec : Nat, nsec : Nat]]

\* A deadline that was handed over is the time asked for from the call on, with
\* nanoseconds of a second at most.
DeadlinesHandedOver == \A w \in Waiters : call[w] = "timedwait" =>
                          /\ expire[w].sec * Second + expire[w].nsec = begun[w] + timeout[w]
                          /\ expire[w].nsec <= Second

SemIInv == SemKinds /\ DeadlinesHandedOver /\ EarlyOnlyAtSecond

\* Whole seconds and the rest make up the time.
LEMMA Seconds ==
    ASSUME SemAssumption, NEW n \in Nat
    PROVE  /\ n \div Second \in Nat /\ n % Second \in Nat
           /\ n % Second < Second
           /\ (n \div Second) * Second + (n % Second) = n
<1>1. Second \in Nat /\ Second > 0
  BY DEF SemAssumption
<1> DEFINE q == n \div Second
           r == n % Second
<1>2. q \in Nat /\ r \in Nat /\ r < Second
  BY <1>1
<1>3. n = Second * q + r
  BY <1>1, SMTT(30)
<1> HIDE DEF q, r
<1>4. q * Second + r = n
  BY <1>1, <1>2, <1>3
<1> QED
  BY <1>2, <1>4 DEF q, r

\* The sum of a time and a time-out before it is carried.
LEMMA AfterNow ==
    ASSUME SemAssumption, NEW ms \in Nat, clock \in Nat
    PROVE  /\ After(Now, ms).sec \in Nat /\ After(Now, ms).nsec \in Nat
           /\ After(Now, ms).nsec <= Second + Second - 2
           /\ After(Now, ms).sec * Second + After(Now, ms).nsec = clock + ms
           /\ After(Now, ms) \in [sec : Nat, nsec : Nat]
<1> DEFINE a == clock \div Second
           b == clock % Second
           c == ms \div Second
           d == ms % Second
<1>1. /\ a \in Nat /\ b \in Nat /\ c \in Nat /\ d \in Nat /\ b < Second /\ d < Second
      /\ a * Second + b = clock /\ c * Second + d = ms
  <2>1. a \in Nat /\ b \in Nat /\ b < Second /\ a * Second + b = clock
    BY Seconds
  <2>2. c \in Nat /\ d \in Nat /\ d < Second /\ c * Second + d = ms
    BY Seconds
  <2> QED
    BY <2>1, <2>2
<1>2. After(Now, ms) = [sec |-> a + c, nsec |-> b + d]
  BY DEF After, Now
<1> HIDE DEF a, b, c, d
<1>3. (a + c) * Second = a * Second + c * Second
  BY <1>1 DEF SemAssumption
<1>4. a * Second \in Int /\ c * Second \in Int
  BY <1>1 DEF SemAssumption
<1> QED
  BY <1>1, <1>2, <1>3, <1>4 DEF SemAssumption

\* A carry moves a second, and keeps the time.
LEMMA CarriedKeeps ==
    ASSUME SemAssumption, NEW ts \in [sec : Nat, nsec : Nat], ts.nsec >= Second
    PROVE  /\ Carried(ts) \in [sec : Nat, nsec : Nat]
           /\ Carried(ts).nsec = ts.nsec - Second
           /\ Carried(ts).sec * Second + Carried(ts).nsec = ts.sec * Second + ts.nsec
<1>1. (ts.sec + 1) * Second = ts.sec * Second + Second
  BY DEF SemAssumption
<1>2. ts.sec * Second \in Int
  BY DEF SemAssumption
<1> QED
  BY <1>1, <1>2 DEF Carried, SemAssumption

\* Sem::timedwait() computes the time asked for, with a whole second left in the
\* nanoseconds at most.
LEMMA SemDeadlineIs ==
    ASSUME SemAssumption, NEW ms \in Nat, clock \in Nat
    PROVE  /\ SemDeadline(ms) \in [sec : Nat, nsec : Nat]
           /\ SemDeadline(ms).nsec <= Second
           /\ SemDeadline(ms).sec * Second + SemDeadline(ms).nsec = clock + ms
<1> DEFINE ts == After(Now, ms)
<1>1. CASE ts.nsec > Second
  <2>1. SemDeadline(ms) = Carried(ts)
    BY <1>1 DEF SemDeadline
  <2>2. /\ ts \in [sec : Nat, nsec : Nat] /\ ts.nsec <= Second + Second - 2
        /\ ts.sec * Second + ts.nsec = clock + ms
    BY AfterNow
  <2> HIDE DEF ts
  <2>3. ts.nsec >= Second
    BY <1>1, <2>2 DEF SemAssumption
  <2>4. /\ Carried(ts) \in [sec : Nat, nsec : Nat] /\ Carried(ts).nsec = ts.nsec - Second
        /\ Carried(ts).sec * Second + Carried(ts).nsec = ts.sec * Second + ts.nsec
    BY <2>2, <2>3, CarriedKeeps
  <2> QED
    BY <2>1, <2>2, <2>4 DEF SemAssumption
<1>2. CASE ~ (ts.nsec > Second)
  BY <1>2, AfterNow DEF SemDeadline, SemAssumption
<1> QED
  BY <1>1, <1>2

\* Condition::timedWait() computes a deadline that is one: the time asked for.
THEOREM ConditionDeadlineIs ==
    ASSUME SemAssumption, clock \in Nat PROVE ConditionDeadlineSound
<1> SUFFICES ASSUME NEW ms \in Timeouts
             PROVE  /\ ConditionDeadline(ms).nsec < Second
                    /\ ConditionDeadline(ms).sec * Second + ConditionDeadline(ms).nsec = clock + ms
  BY DEF ConditionDeadlineSound, Valid
<1> DEFINE ts == After(Now, ms)
<1>1. ms \in Nat
  BY DEF SemAssumption
<1>2. CASE ts.nsec >= Second
  <2>1. ConditionDeadline(ms) = Carried(ts)
    BY <1>2 DEF ConditionDeadline
  <2>2. /\ ts \in [sec : Nat, nsec : Nat] /\ ts.nsec <= Second + Second - 2
        /\ ts.sec * Second + ts.nsec = clock + ms
    BY <1>1, AfterNow
  <2> HIDE DEF ts
  <2>3. /\ Carried(ts) \in [sec : Nat, nsec : Nat] /\ Carried(ts).nsec = ts.nsec - Second
        /\ Carried(ts).sec * Second + Carried(ts).nsec = ts.sec * Second + ts.nsec
    BY <1>2, <2>2, CarriedKeeps
  <2> QED
    BY <2>1, <2>2, <2>3 DEF SemAssumption
<1>3. CASE ~ (ts.nsec >= Second)
  BY <1>1, <1>3, AfterNow DEF ConditionDeadline, SemAssumption
<1> QED
  BY <1>2, <1>3

LEMMA NextSemIInv == ASSUME SemAssumption, SemIInv, [SemNext]_semVars PROVE SemIInv'
<1> USE DEF SemIInv, SemKinds, DeadlinesHandedOver, EarlyOnlyAtSecond
<1>1. CASE Tick
  BY <1>1 DEF Tick
<1>2. CASE SemPost
  BY <1>2 DEF SemPost
<1>3. ASSUME NEW w \in Waiters, SemWait(w) PROVE SemIInv'
  BY <1>3 DEF SemWait, Called
<1>4. ASSUME NEW w \in Waiters, SemGet(w) PROVE SemIInv'
  BY <1>4 DEF SemGet, Returned, NoDeadline
<1>5. ASSUME NEW w \in Waiters, TryWait(w) PROVE SemIInv'
  BY <1>5 DEF TryWait
<1>6. ASSUME NEW w \in Waiters, Fail(w) PROVE SemIInv'
  <2>1. early' \subseteq {Second}
    <3> DEFINE ts == expire[w]
    <3>1. /\ ts.sec \in Nat /\ ts.nsec \in Nat /\ ts.nsec <= Second
          /\ ts.sec * Second + ts.nsec = begun[w] + timeout[w]
      BY <1>6 DEF Fail
    <3>2. CASE Reached(ts)
      BY <1>6, <3>1, <3>2 DEF Fail, Reached
    <3>3. CASE ~ Valid(ts)
      <4> HIDE DEF SemIInv, ts
      <4>1. ts.nsec = Second
        BY <3>1, <3>3 DEF Valid, SemAssumption
      <4> QED
        BY <1>6, <4>1 DEF Fail, SemIInv, ts
    <3> QED
      BY <1>6, <3>2, <3>3 DEF Fail
  <2> QED
    BY <1>6, <2>1 DEF Fail, Returned, NoDeadline
<1>7. ASSUME NEW w \in Waiters, NEW ms \in Timeouts, TimedWait(w, ms) PROVE SemIInv'
  <2>1. ms \in Nat
    BY DEF SemAssumption
  <2>2. /\ SemDeadline(ms) \in [sec : Nat, nsec : Nat]
        /\ SemDeadline(ms).nsec <= Second
        /\ SemDeadline(ms).sec * Second + SemDeadline(ms).nsec = clock + ms
    BY <2>1, SemDeadlineIs
  <2> QED
    BY <1>7, <2>1, <2>2 DEF TimedWait, Called
<1>8. CASE UNCHANGED semVars
  BY <1>8 DEF semVars
<1> QED
  BY <1>1, <1>2, <1>3, <1>4, <1>5, <1>6, <1>7, <1>8 DEF SemNext

\* The deadlines that waiters have handed over stay the times they asked for.
THEOREM SemDeadlines == ASSUME SemAssumption PROVE SemSpec => []SemIInv
<1>1. SemInit => SemIInv
  BY DEF SemInit, NoDeadline, SemIInv, SemKinds, DeadlinesHandedOver, EarlyOnlyAtSecond
<1> QED
  BY <1>1, NextSemIInv, PTL DEF SemSpec

\* Sem::timedwait() gives up before its time only where it does not carry a whole
\* second, and Condition::timedWait() never hands over a deadline that is none.
THEOREM SemIsSound == ASSUME SemAssumption PROVE SemSpec => []DeadlinesSound
<1>1. SemIInv => DeadlinesSound
  BY ConditionDeadlineIs DEF SemIInv, SemKinds, DeadlinesSound
<1> QED
  BY <1>1, SemDeadlines, PTL

-----------------------------------------------------------------------------
ThreadKinds == /\ exists \in BOOLEAN /\ mShouldJoin \in BOOLEAN /\ kernalTid \in BOOLEAN
         /\ ran \in BOOLEAN /\ misused \in BOOLEAN /\ badTid \in BOOLEAN
         /\ tid \in {"none", "pthread"}
         /\ pthread \in {"none", "joinable", "joined", "detached"}
         /\ creator \in {"start", "wait", "idle", "join", "destroyed"}
         /\ body \in {"none", "enter", "post", "name", "swap", "callback", "ended"}

ThreadCounts == permits \in Nat /\ detaches \in Nat

\* The object is there for the owner, and as long as it is, nothing is misused.
ObjectThere == /\ creator = "start" => body = "none" /\ ~ misused
               /\ creator \in {"wait", "idle", "join"} => exists
               /\ exists => ~ misused

\* A callback taken out of the object is the one that it was given.
CallbackRuns == body = "ended" => ran \/ misused

\* Past the constructor the pthread has left its id.
IdWritten == /\ creator \in {"idle", "join"} => kernalTid
             /\ permits > 0 => kernalTid
             /\ body = "post" => kernalTid

\* What mTid and mShouldJoin say of the pthread.
TidKnown == /\ creator = "start" => pthread = "none" /\ tid = "none" /\ ~ badTid
            /\ creator = "join" => mShouldJoin /\ tid # "none"
            /\ pthread = "joined" => tid = "none" /\ ran /\ body = "ended" /\ ~ misused
            /\ creator \in {"wait", "idle", "join"} /\ tid # "none" =>
                  /\ pthread = "joinable" \/ (pthread = "detached" /\ detaches > 0)
                  /\ mShouldJoin => pthread = "joinable"

TInv == /\ ThreadKinds /\ ThreadCounts
        /\ ObjectThere /\ CallbackRuns /\ IdWritten /\ TidKnown /\ GivenUpOnce

\* The parts hold at the start.
LEMMA InitTInv == ThreadInit => TInv
<1> SUFFICES ASSUME ThreadInit PROVE TInv
  OBVIOUS
<1>1. ThreadKinds
  BY DEF ThreadInit, ThreadKinds
<1>2. ThreadCounts /\ IdWritten
  BY DEF ThreadInit, ThreadCounts, IdWritten
<1>3. ObjectThere /\ CallbackRuns /\ TidKnown /\ GivenUpOnce
  BY DEF ThreadInit, ObjectThere, CallbackRuns, TidKnown, GivenUpOnce
<1> QED
  BY <1>1, <1>2, <1>3 DEF TInv

\* What each step leaves of the fields and the places.
LEMMA NextThreadKinds == ASSUME TInv, [ThreadNext]_threadVars PROVE ThreadKinds'
<1> USE DEF TInv, ThreadKinds
<1>1. CASE Create
  BY <1>1 DEF Create
<1>2. CASE CreateFails
  BY <1>2 DEF CreateFails
<1>3. CASE Created
  BY <1>3 DEF Created
<1>4. CASE Detach
  BY <1>4 DEF Detach, GiveUp
<1>5. CASE Join
  BY <1>5, ZenonT(30) DEF Join
<1>6. CASE Joined
  BY <1>6 DEF Joined
<1>7. CASE Destroy
  BY <1>7 DEF Destroy, GiveUp
<1>8. CASE EnterThread
  BY <1>8 DEF EnterThread, Uses
<1>9. CASE PostPermit
  BY <1>9 DEF PostPermit, Uses
<1>10. CASE UseObject
  BY <1>10 DEF UseObject, Uses
<1>11. CASE RunCallback
  BY <1>11 DEF RunCallback
<1>12. CASE UNCHANGED threadVars
  BY <1>12 DEF threadVars
<1> QED
  BY <1>1, <1>2, <1>3, <1>4, <1>5, <1>6, <1>7, <1>8, <1>9, <1>10, <1>11, <1>12
     DEF ThreadNext, OwnerStep, BodyStep

\* Permits and calls are counted.
LEMMA NextThreadCounts == ASSUME TInv, [ThreadNext]_threadVars PROVE ThreadCounts'
<1> USE DEF TInv, ThreadKinds, ThreadCounts
<1>1. CASE Create
  BY <1>1 DEF Create
<1>2. CASE CreateFails
  BY <1>2 DEF CreateFails
<1>3. CASE Created
  BY <1>3 DEF Created
<1>4. CASE Detach
  BY <1>4 DEF Detach, GiveUp
<1>5. CASE Join
  BY <1>5 DEF Join
<1>6. CASE Joined
  BY <1>6 DEF Joined
<1>7. CASE Destroy
  BY <1>7 DEF Destroy, GiveUp
<1>8. CASE EnterThread
  BY <1>8 DEF EnterThread, Uses
<1>9. CASE PostPermit
  BY <1>9 DEF PostPermit, Uses
<1>10. CASE UseObject
  BY <1>10 DEF UseObject, Uses
<1>11. CASE RunCallback
  BY <1>11 DEF RunCallback
<1>12. CASE UNCHANGED threadVars
  BY <1>12 DEF threadVars
<1> QED
  BY <1>1, <1>2, <1>3, <1>4, <1>5, <1>6, <1>7, <1>8, <1>9, <1>10, <1>11, <1>12
     DEF ThreadNext, OwnerStep, BodyStep

\* The object is used as long as it exists, or the misuse is recorded.
LEMMA NextObject == ASSUME TInv, [ThreadNext]_threadVars PROVE (ObjectThere /\ CallbackRuns)'
<1> USE DEF TInv, ThreadKinds, ObjectThere, CallbackRuns
<1>1. CASE Create
  BY <1>1 DEF Create
<1>2. CASE CreateFails
  BY <1>2 DEF CreateFails
<1>3. CASE Created
  BY <1>3 DEF Created
<1>4. CASE Detach
  BY <1>4 DEF Detach, GiveUp
<1>5. CASE Join
  BY <1>5 DEF Join
<1>6. CASE Joined
  BY <1>6 DEF Joined
<1>7. CASE Destroy
  BY <1>7 DEF Destroy, GiveUp
<1>8. CASE EnterThread
  BY <1>8 DEF EnterThread, Uses
<1>9. CASE PostPermit
  BY <1>9 DEF PostPermit, Uses
<1>10. CASE UseObject
  BY <1>10 DEF UseObject, Uses
<1>11. CASE RunCallback
  BY <1>11 DEF RunCallback
<1>12. CASE UNCHANGED threadVars
  BY <1>12 DEF threadVars
<1> QED
  BY <1>1, <1>2, <1>3, <1>4, <1>5, <1>6, <1>7, <1>8, <1>9, <1>10, <1>11, <1>12
     DEF ThreadNext, OwnerStep, BodyStep

\* The id is written before the constructor goes on.
LEMMA NextId == ASSUME TInv, [ThreadNext]_threadVars PROVE IdWritten'
<1> USE DEF TInv, ThreadKinds, ThreadCounts, IdWritten
<1>1. CASE Create
  BY <1>1 DEF Create
<1>2. CASE CreateFails
  BY <1>2 DEF CreateFails
<1>3. CASE Created
  BY <1>3 DEF Created
<1>4. CASE Detach
  BY <1>4 DEF Detach, GiveUp
<1>5. CASE Join
  BY <1>5 DEF Join
<1>6. CASE Joined
  BY <1>6 DEF Joined
<1>7. CASE Destroy
  BY <1>7 DEF Destroy, GiveUp
<1>8. CASE EnterThread
  BY <1>8 DEF EnterThread, Uses
<1>9. CASE PostPermit
  BY <1>9 DEF PostPermit, Uses
<1>10. CASE UseObject
  BY <1>10 DEF UseObject, Uses
<1>11. CASE RunCallback
  BY <1>11 DEF RunCallback
<1>12. CASE UNCHANGED threadVars
  BY <1>12 DEF threadVars
<1> QED
  BY <1>1, <1>2, <1>3, <1>4, <1>5, <1>6, <1>7, <1>8, <1>9, <1>10, <1>11, <1>12
     DEF ThreadNext, OwnerStep, BodyStep

\* The pthread is given up once.
LEMMA NextTid == ASSUME TInv, [ThreadNext]_threadVars PROVE (TidKnown /\ GivenUpOnce)'
<1> USE DEF TInv, ThreadKinds, ThreadCounts, ObjectThere, CallbackRuns, TidKnown, GivenUpOnce
<1>1. CASE Create
  BY <1>1 DEF Create
<1>2. CASE CreateFails
  BY <1>2 DEF CreateFails
<1>3. CASE Created
  BY <1>3 DEF Created
<1>4. CASE Detach
  BY <1>4 DEF Detach, GiveUp
<1>5. CASE Join
  BY <1>5 DEF Join
<1>6. CASE Joined
  BY <1>6 DEF Joined
<1>7. CASE Destroy
  BY <1>7 DEF Destroy, GiveUp
<1>8. CASE EnterThread
  BY <1>8 DEF EnterThread, Uses
<1>9. CASE PostPermit
  BY <1>9 DEF PostPermit, Uses
<1>10. CASE UseObject
  BY <1>10 DEF UseObject, Uses
<1>11. CASE RunCallback
  BY <1>11 DEF RunCallback
<1>12. CASE UNCHANGED threadVars
  BY <1>12 DEF threadVars
<1> QED
  BY <1>1, <1>2, <1>3, <1>4, <1>5, <1>6, <1>7, <1>8, <1>9, <1>10, <1>11, <1>12
     DEF ThreadNext, OwnerStep, BodyStep

\* No step of the owner or of the pthread breaks any part.
LEMMA NextTInv == ASSUME TInv, [ThreadNext]_threadVars PROVE TInv'
  BY NextThreadKinds, NextThreadCounts, NextObject, NextId, NextTid DEF TInv

\* The inductive invariant of a Thread and its pthread.
THEOREM ThreadIInv == ThreadSpec => []TInv
  BY InitTInv, NextTInv, PTL DEF ThreadSpec

\* A joined thread has run its callback and did not touch a destroyed object.
THEOREM ThreadJoinedIsSafe == ThreadSpec => []JoinedIsSafe
<1>1. TInv => JoinedIsSafe
  BY DEF TInv, TidKnown, JoinedIsSafe
<1> QED
  BY <1>1, ThreadIInv, PTL

\* The kernel's id is there when the constructor has returned.
THEOREM ThreadHasTid == ThreadSpec => []ConstructedHasTid
<1>1. TInv => ConstructedHasTid
  BY DEF TInv, IdWritten, ConstructedHasTid
<1> QED
  BY <1>1, ThreadIInv, PTL

\* The pthread is joined or detached once, but for a second detach().
THEOREM ThreadGivenUpOnce == ThreadSpec => []GivenUpOnce
<1>1. TInv => GivenUpOnce
  BY DEF TInv
<1> QED
  BY <1>1, ThreadIInv, PTL

\* Owner and pthread agree on what is left of a Thread.
THEOREM ThreadIsSafe == ThreadSpec => []ThreadSafe
  BY ThreadJoinedIsSafe, ThreadHasTid, ThreadGivenUpOnce, PTL DEF ThreadSafe

-----------------------------------------------------------------------------
(* ThreadBase *)

\* Every call posts once at most, when it ends.
PostsPaidFor == posts + (IF baseOwner \in {"idle", "destroyed"} THEN 0 ELSE 1) <= baseCalls

\* The first round is free: a thread that may start a round has a credit.
Credit == IF worker \in {"none", "shouldExit", "setRunning"} THEN 1 ELSE 0
RoundsCredited == baseRounds + mSem + Credit <= posts + 1

\* The status leaves THREAD_EXIT with the first run() and for good; until then
\* there is no worker, and nobody has set the flag or written over a status.
NoWorkerYet == mThreadStatus = "THREAD_EXIT" /\ baseOwner # "runStatus" => worker = "none"
StartedOnce == (mThreadStatus = "THREAD_EXIT"
                   => ~ stopped /\ ~ overwritten /\ baseOwner \notin {"stopFlag", "destroyFlag"})

\* The flag of stop() stands until the worker has come to its end.
FlagStands == stopped => mExitStatus \/ worker \in Gone

\* The late write of run() is its only one.
OneLateWrite == baseOwner = "runStatus" => ~ overwritten

\* The type invariant in parts, the bounds being those of the posts.
BaseKinds == /\ mThreadStatus \in Status
         /\ mExitStatus \in BOOLEAN /\ stopped \in BOOLEAN
         /\ overwritten \in BOOLEAN /\ missed \in BOOLEAN

BasePlaces == /\ baseOwner \in {"idle", "runStatus", "post", "stopFlag", "stopWaiting",
                            "forceFlag", "destroyStop", "destroyFlag",
                            "destroyWaiting", "destroyPost", "destroyed"} \cup Operations
          /\ worker \in Gone \cup {"shouldExit", "work", "setWaiting", "wait",
                                   "setRunning", "end"}

BaseCounts == /\ baseCalls \in 0..MaxBaseCalls
          /\ mSem \in Nat /\ posts \in Nat /\ baseRounds \in Nat
          /\ mSem <= posts
          /\ NoRoundAfterStop
          /\ PostsPaidFor /\ RoundsCredited

\* Statuses and flags against the places of owner and worker.
BaseFlags == NoWorkerYet /\ StartedOnce /\ FlagStands /\ OneLateWrite /\ WaitingIsVisible

BInv == BaseKinds /\ BasePlaces /\ BaseCounts /\ BaseFlags

\* The parts hold at the start.
LEMMA InitBInv == ASSUME MaxBaseCalls \in Nat, BaseInit PROVE BInv
<1>1. BaseKinds
  BY DEF BaseInit, BaseKinds, Status
<1>2. BasePlaces
  BY DEF BaseInit, BasePlaces, Gone
<1>3. BaseCounts
  BY DEF BaseInit, BaseCounts, NoRoundAfterStop, PostsPaidFor, RoundsCredited, Credit
<1>4. BaseFlags
  BY DEF BaseInit, BaseFlags, NoWorkerYet, StartedOnce, FlagStands, OneLateWrite, WaitingIsVisible, Gone
<1> QED
  BY <1>1, <1>2, <1>3, <1>4 DEF BInv

\* What each step leaves of the statuses and flags.
LEMMA NextBaseKinds ==
  ASSUME MaxBaseCalls \in Nat, BInv, [BaseNext]_baseVars PROVE BaseKinds'
<1> USE DEF BInv, BaseKinds, Status, shared, baseHistory, races
<1>1. CASE OwnerCalls
  BY <1>1 DEF OwnerCalls, Call, Operations
<1>2. CASE Run
  BY <1>2 DEF Run
<1>3. CASE RunStatus
  BY <1>3 DEF RunStatus
<1>4. CASE Start
  BY <1>4 DEF Start
<1>5. CASE Post
  BY <1>5 DEF Post
<1>6. CASE StopTest
  BY <1>6 DEF StopTest
<1>7. CASE StopFlag
  BY <1>7 DEF StopFlag
<1>8. CASE StopWaiting
  BY <1>8 DEF StopWaiting, AfterStop
<1>9. CASE ForceExit
  BY <1>9 DEF ForceExit
<1>10. CASE ForceFlag
  BY <1>10 DEF ForceFlag
<1>11. CASE ShouldExit
  BY <1>11 DEF ShouldExit
<1>12. CASE Work
  BY <1>12 DEF Work
<1>13. CASE SetWaiting
  BY <1>13 DEF SetWaiting
<1>14. CASE Wait
  BY <1>14 DEF Wait
<1>15. CASE SetRunning
  BY <1>15 DEF SetRunning
<1>16. CASE End
  BY <1>16 DEF End
<1>17. CASE UNCHANGED baseVars
  BY <1>17 DEF baseVars, shared, baseHistory, races
<1> QED
  BY <1>1, <1>2, <1>3, <1>4, <1>5, <1>6, <1>7, <1>8, <1>9,
     <1>10, <1>11, <1>12, <1>13, <1>14, <1>15, <1>16, <1>17 DEF BaseNext, OwnerMoves, WorkerStep

\* Where each step takes the owner and the worker.
LEMMA NextBasePlaces ==
  ASSUME MaxBaseCalls \in Nat, BInv, [BaseNext]_baseVars PROVE BasePlaces'
<1> USE DEF BInv, BasePlaces, Gone, Operations, shared, baseHistory, races
<1>1. CASE OwnerCalls
  BY <1>1 DEF OwnerCalls, Call, Operations
<1>2. CASE Run
  BY <1>2 DEF Run
<1>3. CASE RunStatus
  BY <1>3 DEF RunStatus
<1>4. CASE Start
  BY <1>4 DEF Start, BaseKinds, Status
<1>5. CASE Post
  BY <1>5 DEF Post
<1>6. CASE StopTest
  BY <1>6 DEF StopTest
<1>7. CASE StopFlag
  BY <1>7 DEF StopFlag
<1>8. CASE StopWaiting
  BY <1>8 DEF StopWaiting, AfterStop
<1>9. CASE ForceExit
  BY <1>9 DEF ForceExit
<1>10. CASE ForceFlag
  BY <1>10 DEF ForceFlag
<1>11. CASE ShouldExit
  BY <1>11 DEF ShouldExit
<1>12. CASE Work
  BY <1>12 DEF Work
<1>13. CASE SetWaiting
  BY <1>13 DEF SetWaiting
<1>14. CASE Wait
  BY <1>14 DEF Wait
<1>15. CASE SetRunning
  BY <1>15 DEF SetRunning
<1>16. CASE End
  BY <1>16 DEF End
<1>17. CASE UNCHANGED baseVars
  BY <1>17 DEF baseVars, shared, baseHistory, races
<1> QED
  BY <1>1, <1>2, <1>3, <1>4, <1>5, <1>6, <1>7, <1>8, <1>9,
     <1>10, <1>11, <1>12, <1>13, <1>14, <1>15, <1>16, <1>17 DEF BaseNext, OwnerMoves, WorkerStep

\* Permits, rounds and calls stay in step.
LEMMA NextBaseCounts ==
  ASSUME MaxBaseCalls \in Nat, BInv, [BaseNext]_baseVars PROVE BaseCounts'
<1> USE DEF BInv, BaseKinds, BaseCounts, NoRoundAfterStop, PostsPaidFor, RoundsCredited, Credit,
        BaseFlags, StartedOnce, FlagStands, NoWorkerYet, Gone, shared, baseHistory, races
<1>1. CASE OwnerCalls
  BY <1>1 DEF OwnerCalls, Call, Operations
<1>2. CASE Run
  BY <1>2 DEF Run
<1>3. CASE RunStatus
  <2>1. /\ baseOwner = "runStatus" /\ baseOwner' = "idle"
        /\ UNCHANGED <<mSem, worker, baseCalls, posts, baseRounds, lateRounds>>
    BY <1>3 DEF RunStatus
  <2> QED
    BY <2>1
<1>4. CASE Start
  BY <1>4 DEF Start
<1>5. CASE Post
  BY <1>5 DEF Post
<1>6. CASE StopTest
  BY <1>6 DEF StopTest
<1>7. CASE StopFlag
  BY <1>7 DEF StopFlag
<1>8. CASE StopWaiting
  BY <1>8 DEF StopWaiting, AfterStop
<1>9. CASE ForceExit
  BY <1>9 DEF ForceExit
<1>10. CASE ForceFlag
  BY <1>10 DEF ForceFlag
<1>11. CASE ShouldExit
  BY <1>11 DEF ShouldExit
<1>12. CASE Work
  BY <1>12 DEF Work
<1>13. CASE SetWaiting
  BY <1>13 DEF SetWaiting
<1>14. CASE Wait
  BY <1>14 DEF Wait
<1>15. CASE SetRunning
  BY <1>15 DEF SetRunning
<1>16. CASE End
  BY <1>16 DEF End
<1>17. CASE UNCHANGED baseVars
  BY <1>17 DEF baseVars, shared, baseHistory, races
<1> QED
  BY <1>1, <1>2, <1>3, <1>4, <1>5, <1>6, <1>7, <1>8, <1>9,
     <1>10, <1>11, <1>12, <1>13, <1>14, <1>15, <1>16, <1>17 DEF BaseNext, OwnerMoves, WorkerStep

\* The status, the flag and the places of owner and worker stay in step.
LEMMA NextBaseFlags ==
  ASSUME MaxBaseCalls \in Nat, BInv, [BaseNext]_baseVars PROVE BaseFlags'
<1> USE DEF BInv, BaseKinds, BaseFlags, NoWorkerYet, StartedOnce, FlagStands, OneLateWrite,
        WaitingIsVisible, Gone, Status, shared, baseHistory, races
<1>1. CASE OwnerCalls
  BY <1>1 DEF OwnerCalls, Call, Operations
<1>2. CASE Run
  BY <1>2 DEF Run
<1>3. CASE RunStatus
  BY <1>3 DEF RunStatus
<1>4. CASE Start
  BY <1>4 DEF Start
<1>5. CASE Post
  BY <1>5 DEF Post
<1>6. CASE StopTest
  BY <1>6 DEF StopTest
<1>7. CASE StopFlag
  BY <1>7 DEF StopFlag
<1>8. CASE StopWaiting
  BY <1>8 DEF StopWaiting, AfterStop
<1>9. CASE ForceExit
  BY <1>9 DEF ForceExit
<1>10. CASE ForceFlag
  BY <1>10 DEF ForceFlag
<1>11. CASE ShouldExit
  BY <1>11 DEF ShouldExit
<1>12. CASE Work
  BY <1>12 DEF Work
<1>13. CASE SetWaiting
  BY <1>13 DEF SetWaiting
<1>14. CASE Wait
  BY <1>14 DEF Wait
<1>15. CASE SetRunning
  BY <1>15 DEF SetRunning
<1>16. CASE End
  BY <1>16 DEF End
<1>17. CASE UNCHANGED baseVars
  BY <1>17 DEF baseVars, shared, baseHistory, races
<1> QED
  BY <1>1, <1>2, <1>3, <1>4, <1>5, <1>6, <1>7, <1>8, <1>9,
     <1>10, <1>11, <1>12, <1>13, <1>14, <1>15, <1>16, <1>17 DEF BaseNext, OwnerMoves, WorkerStep

\* No step of the owner or of the worker breaks any part.
LEMMA NextBInv == ASSUME MaxBaseCalls \in Nat, BInv, [BaseNext]_baseVars PROVE BInv'
  BY NextBaseKinds, NextBasePlaces, NextBaseCounts, NextBaseFlags DEF BInv

\* The inductive invariant: the statuses, the places, the counts and the flags.
THEOREM ThreadBaseIInv == ASSUME MaxBaseCalls \in Nat PROVE BaseSpec => []BInv
  BY InitBInv, NextBInv, PTL DEF BaseSpec

\* The type invariant, with the bounds that the calls set on permits and rounds.
THEOREM ThreadBaseType == ASSUME MaxBaseCalls \in Nat PROVE BaseSpec => []BaseTypeOK
<1>1. BInv => BaseTypeOK
  <2> SUFFICES ASSUME BInv PROVE BaseTypeOK
    OBVIOUS
  <2>1. posts \in 0..MaxBaseCalls
    BY DEF BInv, BaseCounts, PostsPaidFor
  <2>2. Credit \in {0, 1}
    BY DEF Credit
  <2>3. mSem + baseRounds <= posts + 1
    BY <2>2 DEF BInv, BaseCounts, RoundsCredited
  <2>4. baseRounds \in 0..(MaxBaseCalls + 1)
    BY <2>1, <2>3 DEF BInv, BaseCounts
  <2>5. mSem \in 0..MaxBaseCalls
    BY <2>1 DEF BInv, BaseCounts
  <2> QED
    BY <2>1, <2>4, <2>5 DEF BInv, BaseTypeOK, BaseKinds, BasePlaces, BaseCounts, NoRoundAfterStop
<1> QED
  BY <1>1, ThreadBaseIInv, PTL

\* A round costs a permit, but for the first.
THEOREM ThreadBaseRounds == ASSUME MaxBaseCalls \in Nat PROVE BaseSpec => []RoundsPaidFor
<1>1. BInv => RoundsPaidFor
  BY DEF BInv, BaseCounts, RoundsCredited, Credit, RoundsPaidFor
<1> QED
  BY <1>1, ThreadBaseIInv, PTL

\* No round starts once stop() has set mExitStatus.
THEOREM ThreadBaseNoLateRound == ASSUME MaxBaseCalls \in Nat PROVE BaseSpec => []NoRoundAfterStop
<1>1. BInv => NoRoundAfterStop
  BY DEF BInv, BaseCounts
<1> QED
  BY <1>1, ThreadBaseIInv, PTL

\* The status of a worker that waits is THREAD_WAITING, or run() wrote over it.
THEOREM ThreadBaseWaiting == ASSUME MaxBaseCalls \in Nat PROVE BaseSpec => []WaitingIsVisible
<1>1. BInv => WaitingIsVisible
  BY DEF BInv, BaseFlags
<1> QED
  BY <1>1, ThreadBaseIInv, PTL

\* Owner and worker of a ThreadBase agree on the rounds, the end and who waits.
THEOREM ThreadBaseIsSafe == ASSUME MaxBaseCalls \in Nat PROVE BaseSpec => []BaseSafe
  BY ThreadBaseType, ThreadBaseRounds, ThreadBaseNoLateRound, ThreadBaseWaiting, PTL DEF BaseSafe

-----------------------------------------------------------------------------
(* Singleton<T> and its handles *)

SingletonAssumption == IsFiniteSet(Handles) /\ MaxInstances \in Nat

Kinds == /\ handlePc \in [Handles -> {"idle", "deref"}]
         /\ freer \in {"idle", "free"}
         /\ assigned \in BOOLEAN /\ freedUnder \in BOOLEAN

Instances == /\ created \in 0..MaxInstances
             /\ mInstance \in 0..created
             /\ OneInstance
             /\ obj \in [Handles -> Absent..MaxInstances]

\* Every handle is counted, and without assignments nothing else is.
Counted == /\ mRef \in Nat
           /\ Cardinality(HeldHandles) <= mRef
           /\ CountReturns
           /\ \A h \in Handles : handlePc[h] = "deref" => h \in HeldHandles

\* The instance of a handle is the one there is, unless Free() came between.
Current == ~ freedUnder => \A h \in HeldHandles : obj[h] \in {mInstance, None}

IInv == Kinds /\ Instances /\ Counted /\ Current

\* There is a number of handles, none exactly if the count of them is 0.
LEMMA HeldFinite ==
  ASSUME SingletonAssumption
  PROVE  /\ IsFiniteSet(HeldHandles) /\ Cardinality(HeldHandles) \in Nat
         /\ Cardinality(HeldHandles) = 0 <=> HeldHandles = {}
<1>1. HeldHandles \subseteq Handles
  BY DEF HeldHandles
<1>2. IsFiniteSet(HeldHandles)
  BY <1>1, FS_Subset DEF SingletonAssumption
<1> QED
  BY <1>2, FS_CardinalityType, FS_EmptySet

\* A new handle is one more.
LEMMA OneMore ==
  ASSUME SingletonAssumption, IInv, NEW h \in Handles, obj[h] = Absent, NEW x \in 0..MaxInstances,
         obj' = [obj EXCEPT ![h] = x]
  PROVE  HeldHandles' = HeldHandles \cup {h} /\ Cardinality(HeldHandles') = Cardinality(HeldHandles) + 1
<1>1. Absent # x
  BY DEF Absent
<1>2. HeldHandles' = HeldHandles \cup {h} /\ h \notin HeldHandles
  BY <1>1 DEF HeldHandles, IInv, Instances
<1> QED
  BY <1>2, HeldFinite, FS_AddElement

\* A handle that is destroyed is one less.
LEMMA OneLess ==
  ASSUME SingletonAssumption, IInv, NEW h \in HeldHandles,
         obj' = [obj EXCEPT ![h] = Absent]
  PROVE  HeldHandles' = HeldHandles \ {h} /\ Cardinality(HeldHandles') = Cardinality(HeldHandles) - 1
<1>1. HeldHandles' = HeldHandles \ {h}
  BY DEF HeldHandles, IInv, Instances
<1> QED
  BY <1>1, HeldFinite, FS_RemoveElement

\* The parts hold at the start.
LEMMA InitIInv == ASSUME SingletonAssumption, SingletonInit PROVE IInv
<1>1. HeldHandles = {}
  BY DEF SingletonInit, HeldHandles
<1>2. Cardinality(HeldHandles) = 0
  BY <1>1, HeldFinite
<1>3. Kinds
  BY DEF SingletonInit, Kinds
<1>4. Instances
  BY DEF SingletonInit, Instances, OneInstance, SingletonAssumption, Absent, None
<1>5. Counted /\ Current
  BY <1>1, <1>2 DEF SingletonInit, Counted, CountReturns, Current
<1> QED
  BY <1>3, <1>4, <1>5 DEF IInv

\* A new instance takes the place of the one that mInstance was.
LEMMA NewIsOne ==
  ASSUME SingletonAssumption, IInv, NEW old \in {None, mInstance}, NewInstance(old),
         old = None => mInstance = None
  PROVE  /\ created' \in 0..MaxInstances /\ mInstance' \in 0..created'
         /\ OneInstance'
<1>1. created + 1 # None
  BY DEF IInv, Instances, None
<1>2. created' \in 0..MaxInstances /\ mInstance' \in 0..created'
  BY DEF NewInstance, IInv, Instances, SingletonAssumption
<1>3. alive \ {old} = {}
  BY DEF IInv, Instances, OneInstance
<1>4. alive' = {created + 1} /\ mInstance' = created + 1
  BY <1>3 DEF NewInstance
<1> QED
  BY <1>1, <1>2, <1>4 DEF OneInstance

\* A handle to the instance that is there then.
LEMMA HandKeeps ==
  ASSUME SingletonAssumption, IInv, NEW h \in Handles, obj[h] = Absent, Hand(h),
         created' \in 0..MaxInstances, mInstance' \in 0..created', OneInstance',
         mInstance' = mInstance \/ mInstance = None \/ HeldHandles = {}
  PROVE  IInv'
<1>1. mInstance' \in 0..MaxInstances
  BY DEF SingletonAssumption
<1>2. obj' = [obj EXCEPT ![h] = mInstance'] /\ mRef' = mRef + 1
      /\ UNCHANGED <<handlePc, freer, assigned, freedUnder>>
  BY DEF Hand, singletonHistory
<1>3. HeldHandles' = HeldHandles \cup {h} /\ Cardinality(HeldHandles') = Cardinality(HeldHandles) + 1
  BY <1>1, <1>2, OneMore
<1>4. Kinds'
  BY <1>2 DEF IInv, Kinds
<1>5. obj' \in [Handles -> Absent..MaxInstances]
  BY <1>1, <1>2 DEF IInv, Instances, Absent
<1>6. mRef' \in Nat /\ Cardinality(HeldHandles') <= mRef'
  BY <1>2, <1>3, HeldFinite DEF IInv, Counted
<1>7. CountReturns'
  BY <1>2, <1>3 DEF IInv, Counted, CountReturns
<1>8. \A g \in Handles : handlePc'[g] = "deref" => g \in HeldHandles'
  BY <1>2, <1>3 DEF IInv, Counted
<1>9. Current'
  BY <1>2, <1>3 DEF IInv, Instances, Current, HeldHandles
<1> QED
  BY <1>4, <1>5, <1>6, <1>7, <1>8, <1>9 DEF IInv, Instances, Counted

\* Copies and assignments hand out the object of another handle.
LEMMA CopyKeeps ==
  ASSUME SingletonAssumption, IInv, NEW g \in Handles, NEW h \in Handles,
         CopyHandle(g, h) \/ Assign(g, h)
  PROVE  IInv'
<1>1. g \in HeldHandles /\ obj[g] \in 0..MaxInstances
  BY DEF CopyHandle, Assign, HeldHandles, IInv, Instances, Absent
<1>2. obj' = [obj EXCEPT ![h] = obj[g]] /\ mRef' = mRef + 1
      /\ UNCHANGED <<mInstance, created, alive, handlePc, freer, freedUnder>>
  BY DEF CopyHandle, Assign, singletonHistory
<1>3. Kinds'
  BY <1>2 DEF IInv, Kinds, CopyHandle, Assign, singletonHistory
<1>4. Instances'
  BY <1>1, <1>2 DEF IInv, Instances, OneInstance, Absent
<1>5. HeldHandles' = HeldHandles \cup {h}
  BY <1>1, <1>2 DEF HeldHandles, IInv, Instances, Absent
<1>6. Current'
  BY <1>1, <1>2, <1>5 DEF IInv, Instances, Current, HeldHandles
<1>7. Counted'
  <2>1. CASE CopyHandle(g, h)
    <3>1. Cardinality(HeldHandles') = Cardinality(HeldHandles) + 1
      BY <1>1, <1>2, <2>1, OneMore DEF CopyHandle
    <3>2. assigned' = assigned
      BY <2>1 DEF CopyHandle, singletonHistory
    <3> QED
      BY <1>2, <1>5, <3>1, <3>2, HeldFinite DEF IInv, Counted, CountReturns
  <2>2. CASE Assign(g, h)
    <3>1. HeldHandles' = HeldHandles /\ assigned'
      BY <1>5, <2>2 DEF Assign, HeldHandles
    <3> QED
      BY <1>2, <3>1, HeldFinite DEF IInv, Counted, CountReturns
  <2> QED
    BY <2>1, <2>2
<1> QED
  BY <1>3, <1>4, <1>6, <1>7 DEF IInv

\* A destructor: a handle that exists is counted, so that the test of deref()
\* never finds 0 and the decrement never goes below it.
LEMMA DerefKeeps ==
  ASSUME SingletonAssumption, IInv, NEW h \in Handles, DerefTest(h) \/ Deref(h)
  PROVE  IInv'
<1>1. CASE DerefTest(h)
  <2>1. h \in HeldHandles
    BY <1>1 DEF DerefTest, HeldHandles
  <2>2. mRef # 0
    BY <2>1, HeldFinite DEF IInv, Counted
  <2>3. handlePc' = [handlePc EXCEPT ![h] = "deref"]
        /\ UNCHANGED <<obj, mInstance, mRef, created, alive, freer, assigned, freedUnder>>
    BY <1>1, <2>2 DEF DerefTest, singletonHistory
  <2>4. HeldHandles' = HeldHandles
    BY <2>3 DEF HeldHandles
  <2>5. Kinds'
    BY <2>3 DEF IInv, Kinds
  <2>6. Instances'
    BY <2>3 DEF IInv, Instances, OneInstance
  <2>7. Counted'
    BY <2>1, <2>3, <2>4 DEF IInv, Kinds, Counted, CountReturns
  <2>8. Current'
    BY <2>3, <2>4 DEF IInv, Current
  <2> QED
    BY <2>5, <2>6, <2>7, <2>8 DEF IInv
<1>2. CASE Deref(h)
  <2>1. obj' = [obj EXCEPT ![h] = Absent] /\ handlePc' = [handlePc EXCEPT ![h] = "idle"] /\ mRef' = mRef - 1
        /\ UNCHANGED <<mInstance, created, alive, freer, assigned, freedUnder>>
    BY <1>2 DEF Deref, singletonHistory
  <2>2. h \in HeldHandles
    BY <1>2 DEF Deref, IInv, Counted
  <2>3. HeldHandles' = HeldHandles \ {h} /\ Cardinality(HeldHandles') = Cardinality(HeldHandles) - 1
    BY <2>1, <2>2, OneLess
  <2>4. Cardinality(HeldHandles) # 0
    BY <2>2, HeldFinite
  <2>5. Kinds'
    BY <2>1 DEF IInv, Kinds
  <2>6. Instances'
    BY <2>1 DEF IInv, Instances, OneInstance, Absent, SingletonAssumption
  <2>7. mRef' \in Nat /\ Cardinality(HeldHandles') <= mRef'
    BY <2>1, <2>3, <2>4, HeldFinite DEF IInv, Counted
  <2>8. CountReturns'
    BY <2>1, <2>3 DEF IInv, Counted, CountReturns
  <2>9. \A g \in Handles : handlePc'[g] = "deref" => g \in HeldHandles'
    BY <2>1, <2>3 DEF IInv, Kinds, Counted
  <2>10. Current'
    BY <2>1, <2>3 DEF IInv, Instances, Current, HeldHandles
  <2> QED
    BY <2>5, <2>6, <2>7, <2>8, <2>9, <2>10 DEF IInv, Counted
<1> QED
  BY <1>1, <1>2

\* Free(): its delete is noticed when handles have come since its test.
LEMMA FreeKeeps ==
  ASSUME SingletonAssumption, IInv, FreeTest \/ FreeDelete
  PROVE  IInv'
<1>1. UNCHANGED <<mRef, created, obj, handlePc, assigned>> /\ freer' \in {"idle", "free"}
  BY DEF FreeTest, FreeDelete, singletonHistory
<1>2. HeldHandles' = HeldHandles
  BY <1>1 DEF HeldHandles
<1>3. Kinds'
  <2>1. freedUnder' \in BOOLEAN
    BY DEF FreeTest, FreeDelete, singletonHistory, IInv, Kinds
  <2> QED
    BY <1>1, <2>1 DEF IInv, Kinds
<1>4. Instances'
  <2>1. mInstance' \in 0..created' /\ OneInstance'
    BY <1>1 DEF FreeTest, FreeDelete, IInv, Instances, OneInstance, None
  <2> QED
    BY <1>1, <2>1 DEF IInv, Instances
<1>5. Counted'
  BY <1>1, <1>2 DEF IInv, Counted, CountReturns
<1>6. Current'
  <2>1. CASE FreeTest
    BY <1>2, <2>1 DEF FreeTest, singletonHistory, IInv, Current
  <2>2. CASE FreeDelete /\ HeldHandles = {}
    BY <1>2, <2>2 DEF Current
  <2>3. CASE FreeDelete /\ HeldHandles # {}
    BY <2>3 DEF FreeDelete, HeldHandles, Current
  <2> QED
    BY <2>1, <2>2, <2>3
<1> QED
  BY <1>3, <1>4, <1>5, <1>6 DEF IInv

\* No step breaks any part.
LEMMA NextIInv == ASSUME SingletonAssumption, IInv, [SingletonNext]_singletonVars PROVE IInv'
<1>1. ASSUME NEW h \in Handles, Get(h) PROVE IInv'
  <2>1. CASE mInstance = None
    <3>1. NewInstance(None) /\ Hand(h) /\ obj[h] = Absent
      BY <1>1, <2>1 DEF Get
    <3>2. created' \in 0..MaxInstances /\ mInstance' \in 0..created' /\ OneInstance'
      BY <2>1, <3>1, NewIsOne
    <3> QED
      BY <2>1, <3>1, <3>2, HandKeeps
  <2>2. CASE mInstance # None
    <3>1. UNCHANGED <<mInstance, created, alive>> /\ Hand(h) /\ obj[h] = Absent
      BY <1>1, <2>2 DEF Get
    <3>2. created' \in 0..MaxInstances /\ mInstance' \in 0..created' /\ OneInstance'
      BY <3>1 DEF IInv, Instances, OneInstance
    <3> QED
      BY <3>1, <3>2, HandKeeps
  <2> QED
    BY <2>1, <2>2
<1>2. ASSUME NEW h \in Handles, Reset(h) PROVE IInv'
  <2>1. CASE mRef = 0
    <3>1. NewInstance(mInstance) /\ Hand(h) /\ obj[h] = Absent
      BY <1>2, <2>1 DEF Reset
    <3>2. created' \in 0..MaxInstances /\ mInstance' \in 0..created' /\ OneInstance'
      BY <3>1, NewIsOne
    <3>3. HeldHandles = {}
      BY <2>1, HeldFinite DEF IInv, Counted
    <3> QED
      BY <3>1, <3>2, <3>3, HandKeeps
  <2>2. CASE mRef # 0
    <3>1. UNCHANGED <<mInstance, created, alive>> /\ Hand(h) /\ obj[h] = Absent
      BY <1>2, <2>2 DEF Reset
    <3>2. created' \in 0..MaxInstances /\ mInstance' \in 0..created' /\ OneInstance'
      BY <3>1 DEF IInv, Instances, OneInstance
    <3> QED
      BY <3>1, <3>2, HandKeeps
  <2> QED
    BY <2>1, <2>2
<1>3. ASSUME NEW g \in Handles, NEW h \in Handles, CopyHandle(g, h) \/ Assign(g, h) PROVE IInv'
  BY <1>3, CopyKeeps
<1>4. ASSUME NEW h \in Handles, DerefTest(h) \/ Deref(h) PROVE IInv'
  BY <1>4, DerefKeeps
<1>5. CASE FreeTest \/ FreeDelete
  BY <1>5, FreeKeeps
<1>6. CASE UNCHANGED singletonVars
  <2>1. HeldHandles' = HeldHandles
    BY <1>6 DEF singletonVars, HeldHandles
  <2>2. Kinds' /\ Instances'
    BY <1>6 DEF singletonVars, singletonHistory, IInv, Kinds, Instances, OneInstance
  <2>3. Counted' /\ Current'
    BY <1>6, <2>1 DEF singletonVars, singletonHistory, IInv, Counted, CountReturns, Current
  <2> QED
    BY <2>2, <2>3 DEF IInv
<1> QED
  BY <1>1, <1>2, <1>3, <1>4, <1>5, <1>6 DEF SingletonNext, Handling

\* The inductive invariant of a Singleton and its handles.
THEOREM SingletonIInv == ASSUME SingletonAssumption PROVE SingletonSpec => []IInv
  BY InitIInv, NextIInv, PTL DEF SingletonSpec

\* There is one instance at a time.
THEOREM SingletonOneInstance == ASSUME SingletonAssumption PROVE SingletonSpec => []OneInstance
<1>1. IInv => OneInstance
  BY DEF IInv, Instances
<1> QED
  BY <1>1, SingletonIInv, PTL

\* A handle refers to a live instance, unless Free() met a new handle.
THEOREM SingletonHandleValid == ASSUME SingletonAssumption PROVE SingletonSpec => []HandleValid
<1>1. IInv => HandleValid
  BY DEF IInv, Instances, OneInstance, Current, HandleValid
<1> QED
  BY <1>1, SingletonIInv, PTL

\* Without assignments the count is the number of handles.
THEOREM SingletonCountReturns == ASSUME SingletonAssumption PROVE SingletonSpec => []CountReturns
<1>1. IInv => CountReturns
  BY DEF IInv, Counted
<1> QED
  BY <1>1, SingletonIInv, PTL

\* The variables of a singleton keep their types, and the instances their bound.
THEOREM SingletonType == ASSUME SingletonAssumption PROVE SingletonSpec => []SingletonTypeOK
<1>1. IInv => SingletonTypeOK
  <2> SUFFICES ASSUME IInv PROVE SingletonTypeOK
    OBVIOUS
  <2>1. mInstance \in 0..MaxInstances /\ created \in 0..MaxInstances
    BY DEF IInv, Instances, SingletonAssumption
  <2>2. alive \in SUBSET (1..MaxInstances)
    BY <2>1 DEF IInv, Instances, OneInstance, None, SingletonAssumption
  <2> QED
    BY <2>1, <2>2 DEF IInv, Kinds, Instances, Counted, SingletonTypeOK
<1> QED
  BY <1>1, SingletonIInv, PTL

\* A singleton and its handles are sound, whatever Get(), Reset() and Free() do.
THEOREM SingletonIsSafe == ASSUME SingletonAssumption PROVE SingletonSpec => []SingletonSafe
  BY SingletonType, SingletonOneInstance, SingletonHandleValid, SingletonCountReturns, PTL
     DEF SingletonSafe
=============================================================================
