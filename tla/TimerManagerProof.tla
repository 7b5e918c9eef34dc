------------------------- MODULE TimerManagerProof -------------------------
(***************************************************************************)
(* The timers of a TimerManager for any number of timers, any delays and   *)
(* periods, and any interleaving of clients and worker: no Timer is lost   *)
(* or touched after its delete, and callbacks keep their order, their grid *)
(* and their time.                                                         *)
(***************************************************************************)
EXTENDS TimerManager, FiniteSetTheorems, SequenceTheorems, WellFoundedInduction, TLAPS

Running == {"callback", "reschedule"}

\* What is in the set or the vector, freed or deleted was added.
KnownIds == /\ mTimers \cup Pending \cup freed \subseteq 1..added
            /\ \A i \in Ids : i > added => mTime[i] = 0 /\ first[i] = 0 /\ fired[i] = 0

\* Every permit stands for a timer or for stopTimer().
PermitsCounted == mSignal <= added + (IF stopper = "no" THEN 0 ELSE 1)

\* The worker holds expired timers while it runs callbacks, and only then.
VecInUse == /\ pc \in Running => mExpireTimerVec # <<>>
            /\ pc \notin Running \cup {"undefined"} => mExpireTimerVec = <<>>

\* What the worker holds was due when it read the clock.
HeldWasDue == /\ expireNow <= now
              /\ \A i \in Pending : mTime[i] < expireNow

\* The destructor leaves no worker that goes on.
NoWorkerLeft == stopper = "destroyed" => pc \in {"ended", "undefined"}

\* As long as no timer has gone and nobody has stopped the manager, a permit
\* that is there, or that the worker has taken, stands for a timer.
Undisturbed == deleted = {} /\ freed = {} /\ stopper = "no"
WokenByTimer == Undisturbed =>
                  /\ mSignal > 0 \/ pc = "relock" => added > 0
                  /\ pc = "deref" => it # End

IInv == /\ TypeOK /\ KnownIds /\ PermitsCounted /\ VecInUse /\ HeldWasDue
        /\ NoWorkerLeft /\ WokenByTimer
        /\ NoUseOfFreed /\ NoneLost /\ DestroyFreesAll
        /\ FiresInOrder /\ OnGrid

-----------------------------------------------------------------------------
(* The vector of expired timers *)

\* A sorted vector holds no timer twice.
LEMMA SortedOnce ==
    ASSUME NEW vec \in Seq(Ids), mTime \in [Ids -> Nat], Sorted(vec),
           NEW m \in 1..Len(vec), NEW n \in 1..Len(vec), vec[m] = vec[n]
    PROVE  m = n
<1>1. vec[m] \in Ids
  BY ElementOfSeq
<1>2. vec[m] \in Int /\ mTime[vec[m]] \in Int
  BY <1>1 DEF Ids
<1>3. m \in Nat /\ n \in Nat /\ (m < n \/ n < m \/ m = n)
  BY LenProperties
<1>4. ~ Before(vec[m], vec[n]) /\ ~ Before(vec[n], vec[m])
  BY <1>2 DEF Before
<1> QED
  BY <1>3, <1>4 DEF Sorted

\* With its head done, the others of the vector remain, in order.
LEMMA TailKeeps ==
    ASSUME NEW vec \in Seq(Ids), vec # <<>>, mTime \in [Ids -> Nat], Sorted(vec)
    PROVE  /\ Head(vec) \in Members(vec) /\ Head(vec) \in Ids
           /\ Tail(vec) \in Seq(Ids)
           /\ Members(Tail(vec)) = Members(vec) \ {Head(vec)}
           /\ Sorted(Tail(vec))
           /\ Len(vec) = 1 <=> Tail(vec) = <<>>
<1>1. /\ Len(vec) \in Nat /\ Len(vec) > 0
      /\ Head(vec) = vec[1] /\ Head(vec) \in Ids
      /\ Tail(vec) \in Seq(Ids) /\ Len(Tail(vec)) = Len(vec) - 1
      /\ \A n \in 1..(Len(vec) - 1) : Tail(vec)[n] = vec[n + 1]
  BY EmptySeq, LenProperties, HeadTailProperties
<1>2. \A n \in 2..Len(vec) : vec[n] # vec[1]
  BY <1>1, SortedOnce
<1>3. Members(Tail(vec)) \subseteq Members(vec) \ {Head(vec)}
  <2> SUFFICES ASSUME NEW n \in 1..(Len(vec) - 1) PROVE vec[n + 1] \in Members(vec) \ {vec[1]}
    BY <1>1 DEF Members
  <2> QED
    BY <1>1, <1>2 DEF Members
<1>4. Members(vec) \ {Head(vec)} \subseteq Members(Tail(vec))
  <2> SUFFICES ASSUME NEW n \in 1..Len(vec), vec[n] # vec[1] PROVE vec[n] \in Members(Tail(vec))
    BY <1>1 DEF Members
  <2>1. n - 1 \in 1..(Len(vec) - 1) /\ n = (n - 1) + 1
    BY <1>1
  <2> QED
    BY <1>1, <2>1 DEF Members
<1>5. Sorted(Tail(vec))
  <2> SUFFICES ASSUME NEW m \in 1..(Len(vec) - 1), NEW n \in 1..(Len(vec) - 1), m < n
               PROVE  Before(vec[m + 1], vec[n + 1])
    BY <1>1 DEF Sorted
  <2> QED
    BY <1>1 DEF Sorted
<1>6. Len(vec) = 1 <=> Tail(vec) = <<>>
  <2>1. Tail(vec) # <<>> => Len(Tail(vec)) > 0
    BY <1>1, EmptySeq
  <2>2. Tail(vec) = <<>> => Len(Tail(vec)) = 0
    BY EmptySeq
  <2>3. Len(Tail(vec)) = Len(vec) - 1 /\ Len(vec) \in Nat
    BY <1>1
  <2> QED
    BY <2>1, <2>2, <2>3
<1>7. Head(vec) \in Members(vec)
  BY <1>1 DEF Members
<1> QED
  BY <1>1, <1>3, <1>4, <1>5, <1>6, <1>7

\* What the loop of ListExpireTimer() pushes is what was due, in order.
LEMMA PushedProperties ==
    ASSUME MaxTimers \in Nat, NEW due \in SUBSET Ids, NEW vec \in Pushed(due)
    PROVE  vec \in Seq(Ids) /\ Members(vec) = due /\ Sorted(vec) /\ (due = {} <=> vec = <<>>)
<1>1. IsFiniteSet(due) /\ Cardinality(due) \in Nat
  <2>1. IsFiniteSet(1..MaxTimers)
    BY FS_Interval
  <2>2. IsFiniteSet(due)
    BY <2>1, FS_Subset DEF Ids
  <2> QED
    BY <2>2, FS_CardinalityType
<1>2. vec \in Seq(due) /\ Len(vec) = Cardinality(due) /\ Members(vec) = due /\ Sorted(vec)
  BY <1>1 DEF Pushed
<1>3. vec \in Seq(Ids)
  BY <1>2, SeqMonotonic
<1>4. due = {} <=> vec = <<>>
  <2>1. CASE due = {}
    BY <2>1, <1>1, <1>2, FS_EmptySet, EmptySeq
  <2>2. CASE due # {}
    BY <2>2, <1>2, EmptySeq DEF Members
  <2> QED
    BY <2>1, <2>2
<1> QED
  BY <1>2, <1>3, <1>4

\* mTimers.begin() is the timer that comes first.
LEMMA BeginFirst ==
    ASSUME MaxTimers \in Nat, mTimers \in SUBSET Ids, mTime \in [Ids -> Nat], mTimers # {}
    PROVE  Begin \in mTimers
<1> DEFINE Least(S) == \E x \in S : \A y \in S : x <= y
<1>1. ASSUME NEW S, S \subseteq Nat, S # {} PROVE Least(S)
  <2>1. PICK x \in S : \A y \in S : ~ (<<y, x>> \in OpToRel(<, Nat))
    BY <1>1, WFMin, NatLessThanWellFounded
  <2> QED
    <3>1. ASSUME NEW y \in S, y < x PROVE FALSE
      <4>1. <<y, x>> \in OpToRel(<, Nat)
        BY <1>1, <3>1 DEF OpToRel
      <4> QED
        BY <2>1, <4>1
    <3>2. x \in Nat /\ \A y \in S : y \in Nat
      BY <1>1
    <3> QED
      BY <3>1, <3>2
<1>2. PICK i \in mTimers : \A j \in mTimers : mTime[i] <= mTime[j]
  <2> DEFINE Times == {mTime[j] : j \in mTimers}
  <2>1. Times \subseteq Nat /\ Times # {}
    OBVIOUS
  <2>2. Least(Times)
    BY <1>1, <2>1
  <2> QED
    BY <2>2
<1>3. PICK k \in {j \in mTimers : mTime[j] = mTime[i]} :
            \A j \in {j \in mTimers : mTime[j] = mTime[i]} : k <= j
  <2> DEFINE Same == {j \in mTimers : mTime[j] = mTime[i]}
  <2>1. i \in Same /\ Same \subseteq Ids
    OBVIOUS
  <2>2. Ids \subseteq Nat
    BY DEF Ids
  <2>3. Least(Same)
    BY <1>1, <2>1, <2>2
  <2> QED
    BY <2>3
<1>4. \A j \in mTimers \ {k} : Before(k, j)
  BY <1>2, <1>3 DEF Before, Ids
<1> QED
  BY <1>4 DEF Begin

-----------------------------------------------------------------------------
(* The parts of the invariant hold at the start *)

LEMMA InitIInv == ASSUME TimerAssumption, Init PROVE IInv
<1> USE DEF Init, TimerAssumption
<1>1. TypeOK
  <2>1. mExpireTimerVec \in Seq(Ids)
    BY EmptySeq
  <2>2. /\ now \in 0..MaxTime /\ added \in 0..MaxTimers /\ expireNow \in 0..MaxTime
        /\ mSignal \in 0..(MaxTimers + 1)
    OBVIOUS
  <2>3. /\ mTime \in [Ids -> Nat] /\ mRecycleTime \in [Ids -> Periods \cup {0}]
        /\ fired \in [Ids -> Nat] /\ first \in [Ids -> Nat]
    OBVIOUS
  <2>4. mTimers \in SUBSET Ids /\ freed \in SUBSET Ids /\ deleted \in SUBSET Ids
    OBVIOUS
  <2>5. it \in Ids \cup {End} /\ mShouldExit \in BOOLEAN
    OBVIOUS
  <2> QED
    BY <2>1, <2>2, <2>3, <2>4, <2>5 DEF TypeOK
<1>2. Pending = {} /\ FiresInOrder
  BY EmptySeq DEF Pending, Members, FiresInOrder, Sorted
<1>3. KnownIds /\ PermitsCounted /\ VecInUse /\ HeldWasDue
  BY <1>2 DEF KnownIds, PermitsCounted, VecInUse, HeldWasDue, Ids, Running
<1>4. NoWorkerLeft /\ WokenByTimer /\ NoUseOfFreed /\ NoneLost /\ DestroyFreesAll
  BY <1>2 DEF NoWorkerLeft, WokenByTimer, NoUseOfFreed, NoneLost, DestroyFreesAll
<1>5. OnGrid
  BY DEF OnGrid, Ids
<1> QED
  BY <1>1, <1>2, <1>3, <1>4, <1>5 DEF IInv

-----------------------------------------------------------------------------
(* The steps *)

\* The steps of the worker that only move it: the timers, the vector, the counts
\* and the permits stay.
Moves == WhileTest \/ Lookup \/ Relock \/ Deref \/ EpollTimeout \/ EpollInterrupted

Others == <<now, timerVars, mSignal, mShouldExit, stopper, expireNow, mExpireTimerVec,
            fired, first, deleted>>

\* A move goes from one place without a vector to another.
LEMMA MoveProperties ==
    ASSUME TimerAssumption, IInv, Moves
    PROVE  /\ UNCHANGED Others
           /\ pc \notin Running \cup {"undefined", "ended", "aborted", "terminated", "wait"}
           /\ pc' \in {"lookup", "ended", "wait", "relock", "deref", "aborted", "undefined",
                       "epoll", "listExpire", "terminated"}
           /\ pc' # "relock"
           /\ it' \in Ids \cup {End}
           /\ pc' = "ended" => mShouldExit
           /\ pc' = "deref" => it' = Begin /\ (pc = "lookup" => mTimers # {})
           /\ pc' = "deref" => pc \in {"lookup", "relock"}
<1> USE DEF TimerAssumption, Others, Running, timerVars
<1>1. it \in Ids \cup {End} /\ Begin \in Ids \cup {End}
  BY BeginFirst DEF IInv, TypeOK, Begin
<1>2. CASE WhileTest
  BY <1>1, <1>2 DEF WhileTest
<1>3. CASE Lookup
  BY <1>1, <1>3 DEF Lookup
<1>4. CASE Relock
  BY <1>1, <1>4 DEF Relock
<1>5. CASE Deref
  BY <1>1, <1>5 DEF Deref
<1>6. CASE EpollTimeout
  BY <1>1, <1>6 DEF EpollTimeout
<1>7. CASE EpollInterrupted
  BY <1>1, <1>7 DEF EpollInterrupted
<1> QED
  BY <1>2, <1>3, <1>4, <1>5, <1>6, <1>7 DEF Moves

LEMMA MovesKeep == ASSUME TimerAssumption, IInv, Moves PROVE IInv'
<1> USE MoveProperties DEF IInv
<1>1. TypeOK'
  BY DEF TypeOK, Others, timerVars
<1>2. Pending' = Pending /\ FiresInOrder' /\ UNCHANGED Others
  BY DEF Pending, Members, FiresInOrder, Sorted, Before, Others, timerVars
<1>3. (KnownIds /\ PermitsCounted /\ HeldWasDue /\ NoUseOfFreed /\ NoneLost)'
  BY <1>2 DEF KnownIds, PermitsCounted, HeldWasDue, NoUseOfFreed, NoneLost, Others, timerVars
<1>4. (VecInUse /\ NoWorkerLeft /\ DestroyFreesAll)'
  BY <1>2 DEF VecInUse, NoWorkerLeft, DestroyFreesAll, Running, Others, timerVars
<1>5. OnGrid'
  BY <1>2 DEF OnGrid, Running, Others, timerVars
<1>6. WokenByTimer'
  <2> SUFFICES ASSUME Undisturbed PROVE WokenByTimer'
    BY <1>2 DEF WokenByTimer, Undisturbed, Others, timerVars
  <2>1. mSignal' > 0 => added' > 0
    BY DEF WokenByTimer, Others, timerVars
  <2>2. ASSUME pc' = "deref" PROVE it' # End
    <3>1. mExpireTimerVec = <<>>
      BY <2>2 DEF VecInUse
    <3>2. Pending = {}
      BY <3>1, EmptySeq DEF Pending, Members
    <3>3. mTimers # {}
      <4>1. CASE pc = "lookup"
        BY <2>2, <4>1
      <4>2. CASE pc = "relock"
        <5>1. added \in Nat /\ added > 0
          BY <4>2 DEF WokenByTimer, TypeOK
        <5>2. 1 \in 1..added
          BY <5>1
        <5> QED
          BY <3>2, <5>2 DEF Undisturbed, NoneLost
      <4> QED
        BY <2>2, <4>1, <4>2
    <3>4. Begin \in Ids
      BY <3>3, BeginFirst DEF TypeOK, TimerAssumption
    <3> QED
      BY <2>2, <3>4 DEF Ids, End
  <2> QED
    BY <2>1, <2>2 DEF WokenByTimer
<1> QED
  BY <1>1, <1>2, <1>3, <1>4, <1>5, <1>6

\* A vector that stays as it is, with the deadlines of its timers, stays in order.
LEMMA VecKept ==
    ASSUME IInv, UNCHANGED mExpireTimerVec, \A i \in Pending : mTime'[i] = mTime[i]
    PROVE  Pending' = Pending /\ FiresInOrder'
<1>1. Pending' = Pending
  BY DEF Pending, Members
<1>2. \A n \in 1..Len(mExpireTimerVec) : mTime'[mExpireTimerVec[n]] = mTime[mExpireTimerVec[n]]
  BY DEF Pending, Members
<1>3. FiresInOrder'
  BY <1>2 DEF IInv, FiresInOrder, Sorted, Before
<1> QED
  BY <1>1, <1>3

\* An empty vector holds nothing.
LEMMA NoVec == ASSUME mExpireTimerVec = <<>> PROVE Pending = {}
  BY EmptySeq DEF Pending, Members

\* The steps that neither touch a timer nor move the worker.
LEMMA SignalsKeep ==
    ASSUME TimerAssumption, IInv, StopPost \/ StopFlag \/ Tick \/ UNCHANGED vars
    PROVE  IInv'
<1> USE DEF IInv
<1>1. UNCHANGED <<timerVars, workerVars, first, deleted>>
  BY DEF StopPost, StopFlag, Tick, vars
<1>2. /\ now' \in 0..MaxTime /\ now <= now'
      /\ stopper # "no" => stopper' # "no" /\ mSignal' = mSignal
      /\ stopper' \in {"no", "posted", "stopped", "destroyed"} /\ mShouldExit' \in BOOLEAN
      /\ mSignal' \in Nat /\ (stopper' = "no" => mSignal' = mSignal)
      /\ (stopper' = "destroyed" <=> stopper = "destroyed")
      /\ mSignal' <= added + (IF stopper' = "no" THEN 0 ELSE 1)
  <2>1. CASE StopPost
    BY <2>1 DEF StopPost, TypeOK, PermitsCounted, timerVars
  <2>2. CASE StopFlag
    BY <2>2 DEF StopFlag, TypeOK, PermitsCounted, timerVars
  <2>3. CASE Tick
    BY <2>3 DEF Tick, TypeOK, PermitsCounted, TimerAssumption
  <2>4. CASE UNCHANGED vars
    BY <2>4 DEF vars, TypeOK, PermitsCounted
  <2> QED
    BY <2>1, <2>2, <2>3, <2>4
<1>3. Pending' = Pending /\ FiresInOrder'
  BY <1>1, VecKept DEF timerVars, workerVars
<1>4. PermitsCounted'
  BY <1>1, <1>2 DEF PermitsCounted, timerVars
<1>5. TypeOK'
  <2>1. mSignal' \in 0..(MaxTimers + 1)
    BY <1>1, <1>2 DEF TypeOK, TimerAssumption
  <2> QED
    BY <1>1, <1>2, <2>1 DEF TypeOK, timerVars, workerVars
<1>6. (KnownIds /\ VecInUse /\ NoUseOfFreed /\ NoneLost)'
  BY <1>1, <1>3 DEF KnownIds, VecInUse, NoUseOfFreed, NoneLost, timerVars, workerVars
<1>7. HeldWasDue'
  BY <1>1, <1>2, <1>3 DEF HeldWasDue, TypeOK, timerVars, workerVars
<1>8. (NoWorkerLeft /\ WokenByTimer /\ DestroyFreesAll)'
  BY <1>1, <1>2 DEF NoWorkerLeft, WokenByTimer, DestroyFreesAll, Undisturbed, timerVars, workerVars
<1>9. OnGrid'
  BY <1>1, <1>2 DEF OnGrid, timerVars, workerVars
<1> QED
  BY <1>3, <1>4, <1>5, <1>6, <1>7, <1>8, <1>9

\* mSignal.wait() takes a permit, ListExpireTimer() reads the clock.
LEMMA WaitsKeep == ASSUME TimerAssumption, IInv, WaitSignal \/ ReadClock PROVE IInv'
<1> USE DEF IInv
<1>1. UNCHANGED <<now, timerVars, mShouldExit, stopper, it, mExpireTimerVec, fired, first, deleted>>
  BY DEF WaitSignal, ReadClock
<1>2. /\ pc \in {"wait", "listExpire"} /\ pc' \in {"relock", "takeExpired"}
      /\ mSignal' \in Nat /\ mSignal' <= mSignal
      /\ pc' = "relock" => mSignal > 0
      /\ expireNow' \in {now, expireNow}
  BY DEF WaitSignal, ReadClock, TypeOK
<1>3. Pending' = Pending /\ FiresInOrder' /\ Pending = {}
  BY <1>1, <1>2, VecKept, NoVec DEF timerVars, VecInUse, Running
<1>4. (TypeOK /\ PermitsCounted)'
  BY <1>1, <1>2 DEF TypeOK, PermitsCounted, timerVars
<1>5. (KnownIds /\ VecInUse /\ HeldWasDue /\ NoUseOfFreed /\ NoneLost)'
  BY <1>1, <1>2, <1>3 DEF KnownIds, VecInUse, HeldWasDue, NoUseOfFreed, NoneLost, Running,
                          TypeOK, timerVars
<1>6. (NoWorkerLeft /\ WokenByTimer /\ DestroyFreesAll)'
  BY <1>1, <1>2 DEF NoWorkerLeft, WokenByTimer, DestroyFreesAll, Undisturbed, TypeOK, timerVars
<1>7. OnGrid'
  BY <1>1, <1>2 DEF OnGrid, timerVars
<1> QED
  BY <1>3, <1>4, <1>5, <1>6, <1>7

\* addTimer() puts a new timer into the set.
LEMMA AddKeeps ==
    ASSUME TimerAssumption, IInv, NEW ms \in Delays, NEW recycle \in Periods, AddTimer(ms, recycle)
    PROVE  IInv'
<1> USE DEF IInv
<1> DEFINE new == added + 1
<1>1. /\ new \in Ids /\ added \in Nat /\ added < MaxTimers /\ added' = new /\ stopper # "destroyed"
      /\ now + ms \in Nat /\ recycle \in Periods
  BY DEF AddTimer, TypeOK, TimerAssumption, Ids
<1>2. UNCHANGED <<now, freed, mShouldExit, stopper, pc, it, expireNow, mExpireTimerVec, fired, deleted>>
  BY DEF AddTimer, workerVars
<1>3. /\ mTime' = [mTime EXCEPT ![new] = now + ms]
      /\ mRecycleTime' = [mRecycleTime EXCEPT ![new] = recycle]
      /\ first' = [first EXCEPT ![new] = now + ms]
      /\ mTimers' = mTimers \cup {new}
      /\ mSignal' \in {mSignal, mSignal + 1}
  BY DEF AddTimer
<1>4. new \notin mTimers \cup Pending \cup freed
  BY <1>1 DEF KnownIds
<1>5. Pending \subseteq Ids /\ \A i \in Pending : mTime'[i] = mTime[i]
  BY <1>1, <1>3, <1>4 DEF KnownIds, TypeOK, Ids
<1>6. Pending' = Pending /\ FiresInOrder'
  BY <1>2, <1>5, VecKept
<1>7. TypeOK'
  <2>1. mTime' \in [Ids -> Nat] /\ mRecycleTime' \in [Ids -> Periods \cup {0}] /\ first' \in [Ids -> Nat]
    BY <1>1, <1>3 DEF TypeOK
  <2>2. mSignal' \in 0..(MaxTimers + 1) /\ added' \in 0..MaxTimers
    BY <1>1, <1>3 DEF TypeOK, PermitsCounted, TimerAssumption
  <2>3. mTimers' \in SUBSET Ids
    BY <1>1, <1>3 DEF TypeOK
  <2> QED
    BY <1>2, <2>1, <2>2, <2>3 DEF TypeOK
<1>8. PermitsCounted'
  BY <1>1, <1>2, <1>3 DEF PermitsCounted, TypeOK
<1>9. KnownIds'
  <2>1. mTimers' \cup Pending' \cup freed' \subseteq 1..new
    BY <1>1, <1>2, <1>3, <1>6 DEF KnownIds
  <2>2. ASSUME NEW i \in Ids, i > new PROVE mTime'[i] = 0 /\ first'[i] = 0 /\ fired'[i] = 0
    BY <1>1, <1>2, <1>3, <2>2 DEF KnownIds, TypeOK, Ids
  <2> QED
    BY <1>1, <2>1, <2>2 DEF KnownIds
<1>10. (VecInUse /\ HeldWasDue /\ NoWorkerLeft)'
  BY <1>2, <1>5, <1>6 DEF VecInUse, HeldWasDue, NoWorkerLeft
<1>11. (NoUseOfFreed /\ NoneLost /\ DestroyFreesAll)'
  BY <1>1, <1>2, <1>3, <1>4, <1>6 DEF NoUseOfFreed, NoneLost, DestroyFreesAll
<1>12. WokenByTimer'
  BY <1>1, <1>2 DEF WokenByTimer, Undisturbed
<1>13. OnGrid'
  <2> SUFFICES ASSUME NEW i \in Ids
               PROVE  mTime'[i] = first'[i] + (IF pc = "reschedule" /\ Head(mExpireTimerVec) = i
                                                 THEN fired[i] - 1 ELSE fired[i]) * mRecycleTime'[i]
    BY <1>2 DEF OnGrid
  <2>1. CASE i = new
    <3>1. ~ (pc = "reschedule" /\ Head(mExpireTimerVec) = i)
      BY <1>4, <2>1, TailKeeps DEF VecInUse, Running, TypeOK, FiresInOrder, Pending
    <3>2. fired[i] = 0 /\ mRecycleTime'[i] = recycle /\ recycle \in Nat
      BY <1>1, <1>3, <2>1 DEF KnownIds, TypeOK, Ids, TimerAssumption
    <3>3. mTime'[i] = now + ms /\ first'[i] = now + ms
      BY <1>1, <1>3, <2>1 DEF TypeOK
    <3> QED
      BY <1>1, <3>1, <3>2, <3>3
  <2>2. CASE i # new
    BY <1>1, <1>3, <2>2 DEF OnGrid, TypeOK
  <2> QED
    BY <2>1, <2>2
<1> QED
  BY <1>6, <1>7, <1>8, <1>9, <1>10, <1>11, <1>12, <1>13

\* delTimer() takes a timer out of the set and leaves it alone.
LEMMA DelKeeps == ASSUME TimerAssumption, IInv, NEW i \in Ids, DelTimer(i) PROVE IInv'
<1> USE DEF IInv
<1>1. /\ UNCHANGED <<now, added, mTime, mRecycleTime, freed, mSignal, mShouldExit, stopper,
                     workerVars, first>>
      /\ mTimers' = mTimers \ {i} /\ deleted' = deleted \cup {i} /\ stopper # "destroyed"
  BY DEF DelTimer
<1>2. Pending' = Pending /\ FiresInOrder'
  BY <1>1, VecKept DEF workerVars
<1>3. (TypeOK /\ PermitsCounted)'
  BY <1>1 DEF TypeOK, PermitsCounted, workerVars
<1>4. (KnownIds /\ VecInUse /\ HeldWasDue /\ NoWorkerLeft)'
  BY <1>1, <1>2 DEF KnownIds, VecInUse, HeldWasDue, NoWorkerLeft, workerVars
<1>5. (NoUseOfFreed /\ NoneLost /\ DestroyFreesAll)'
  BY <1>1, <1>2 DEF NoUseOfFreed, NoneLost, DestroyFreesAll, workerVars
<1>6. WokenByTimer'
  BY <1>1 DEF WokenByTimer, Undisturbed, workerVars
<1>7. OnGrid'
  BY <1>1 DEF OnGrid, workerVars
<1> QED
  BY <1>2, <1>3, <1>4, <1>5, <1>6, <1>7

\* The destructor frees what is in the set, and the worker's next step is undefined.
LEMMA DestroyKeeps == ASSUME TimerAssumption, IInv, Destroy PROVE IInv'
<1> USE DEF IInv
<1>1. /\ UNCHANGED <<now, added, mTime, mRecycleTime, mSignal, mShouldExit, it, expireNow,
                     mExpireTimerVec, fired, first, deleted>>
      /\ freed' = freed \cup mTimers /\ mTimers' = {} /\ stopper' = "destroyed"
      /\ stopper = "stopped"
      /\ pc' = IF pc = "ended" THEN "ended" ELSE "undefined"
  BY DEF Destroy
<1>2. Pending' = Pending /\ FiresInOrder'
  BY <1>1, VecKept
<1>3. (TypeOK /\ PermitsCounted)'
  BY <1>1 DEF TypeOK, PermitsCounted
<1>4. (KnownIds /\ VecInUse /\ HeldWasDue /\ NoWorkerLeft)'
  BY <1>1, <1>2 DEF KnownIds, VecInUse, HeldWasDue, NoWorkerLeft, Running
<1>5. (NoUseOfFreed /\ NoneLost)'
  BY <1>1, <1>2 DEF NoUseOfFreed, NoneLost
<1>6. DestroyFreesAll'
  <2> SUFFICES ASSUME pc = "ended" PROVE (1..added) \ deleted \subseteq freed \cup mTimers
    BY <1>1 DEF DestroyFreesAll
  <2>1. Pending = {}
    BY NoVec DEF VecInUse, Running
  <2> QED
    BY <2>1 DEF NoneLost
<1>7. WokenByTimer'
  BY <1>1 DEF WokenByTimer, Undisturbed
<1>8. OnGrid'
  BY <1>1 DEF OnGrid
<1> QED
  BY <1>2, <1>3, <1>4, <1>5, <1>6, <1>7, <1>8

\* ListExpireTimer() moves what is due from the set into the vector.
LEMMA TakeKeeps == ASSUME TimerAssumption, IInv, TakeExpired PROVE IInv'
<1> USE DEF IInv
<1> DEFINE due == {i \in mTimers : mTime[i] < expireNow}
<1>1. /\ UNCHANGED <<now, added, mTime, mRecycleTime, freed, mSignal, mShouldExit, stopper, it,
                     expireNow, fired, first, deleted>>
      /\ pc = "takeExpired" /\ pc' = IF due = {} THEN "while" ELSE "callback"
      /\ mTimers' = mTimers \ due /\ mExpireTimerVec' \in Pushed(due)
  BY DEF TakeExpired, Taken
<1>2. due \in SUBSET Ids
  BY DEF TypeOK
<1> HIDE DEF due
<1>3. /\ mExpireTimerVec' \in Seq(Ids) /\ Members(mExpireTimerVec') = due
      /\ Sorted(mExpireTimerVec') /\ (due = {} <=> mExpireTimerVec' = <<>>)
  BY <1>1, <1>2, PushedProperties DEF TimerAssumption
<1>4. Pending = {} /\ Pending' = due
  BY <1>1, <1>3, NoVec DEF VecInUse, Running, Pending, Members
<1>5. FiresInOrder'
  BY <1>1, <1>3 DEF FiresInOrder, Sorted, Before
<1>6. (TypeOK /\ PermitsCounted)'
  BY <1>1, <1>3 DEF TypeOK, PermitsCounted
<1>7. (VecInUse /\ NoWorkerLeft /\ DestroyFreesAll)'
  BY <1>1, <1>3 DEF VecInUse, Running, NoWorkerLeft, DestroyFreesAll
<1>8. (KnownIds /\ HeldWasDue /\ NoUseOfFreed /\ NoneLost)'
  BY <1>1, <1>4 DEF KnownIds, HeldWasDue, NoUseOfFreed, NoneLost, due
<1>9. WokenByTimer'
  BY <1>1 DEF WokenByTimer, Undisturbed
<1>10. OnGrid'
  BY <1>1 DEF OnGrid
<1> QED
  BY <1>5, <1>6, <1>7, <1>8, <1>9, <1>10

\* The callback of the head has run; its deadline moves with the next step.
LEMMA CallbackKeeps == ASSUME TimerAssumption, IInv, Callback PROVE IInv'
<1> USE DEF IInv
<1> DEFINE h == Head(mExpireTimerVec)
<1>1. /\ UNCHANGED <<now, timerVars, mSignal, mShouldExit, stopper, it, expireNow,
                     mExpireTimerVec, first, deleted>>
      /\ pc = "callback" /\ pc' = "reschedule"
      /\ fired' = [fired EXCEPT ![h] = @ + 1]
  BY DEF Callback
<1>2. h \in Pending /\ h \in Ids /\ mExpireTimerVec # <<>>
  BY <1>1, TailKeeps DEF VecInUse, Running, TypeOK, FiresInOrder, Pending
<1>3. Pending' = Pending /\ FiresInOrder'
  BY <1>1, VecKept DEF timerVars
<1>4. (TypeOK /\ PermitsCounted)'
  BY <1>1, <1>2 DEF TypeOK, PermitsCounted, timerVars
<1>5. (KnownIds /\ VecInUse /\ HeldWasDue /\ NoWorkerLeft)'
  <2>1. h <= added
    BY <1>2 DEF KnownIds
  <2>2. \A i \in Ids : i > added => fired'[i] = 0
    BY <1>1, <2>1 DEF KnownIds, TypeOK, Ids
  <2> QED
    BY <1>1, <1>2, <1>3, <2>2 DEF KnownIds, VecInUse, Running, HeldWasDue, NoWorkerLeft, timerVars
<1>6. (NoUseOfFreed /\ NoneLost /\ DestroyFreesAll /\ WokenByTimer)'
  BY <1>1, <1>3 DEF NoUseOfFreed, NoneLost, DestroyFreesAll, WokenByTimer, Undisturbed, timerVars
<1>7. OnGrid'
  <2> SUFFICES ASSUME stopper # "destroyed", NEW i \in Ids
               PROVE  mTime[i] = first[i] + (IF h = i THEN fired'[i] - 1 ELSE fired'[i]) * mRecycleTime[i]
    BY <1>1 DEF OnGrid, timerVars
  <2>1. mTime[i] = first[i] + fired[i] * mRecycleTime[i]
    BY <1>1 DEF OnGrid
  <2>2. fired[i] = IF h = i THEN fired'[i] - 1 ELSE fired'[i]
    BY <1>1, <1>2 DEF TypeOK
  <2> QED
    BY <2>1, <2>2
<1> QED
  BY <1>3, <1>4, <1>5, <1>6, <1>7

\* After its callback the head of the vector goes back into the set, a period
\* later, or is deleted.
LEMMA HeadDoneKeeps == ASSUME TimerAssumption, IInv, Reschedule \/ Delete PROVE IInv'
<1> USE DEF IInv
<1> DEFINE h == Head(mExpireTimerVec)
<1>1. /\ UNCHANGED <<now, added, mRecycleTime, mSignal, mShouldExit, stopper, it, expireNow,
                     fired, first, deleted>>
      /\ pc = "reschedule" /\ mExpireTimerVec' = Tail(mExpireTimerVec)
      /\ pc' = IF Len(mExpireTimerVec) = 1 THEN "while" ELSE "callback"
  BY DEF Reschedule, Delete, NextOfVec
<1>2. /\ mExpireTimerVec # <<>>
      /\ h \in Pending /\ h \in Ids
      /\ mExpireTimerVec' \in Seq(Ids)
      /\ Pending' = Pending \ {h}
      /\ Sorted(Tail(mExpireTimerVec))
      /\ Len(mExpireTimerVec) = 1 <=> mExpireTimerVec' = <<>>
  BY <1>1, TailKeeps DEF VecInUse, Running, TypeOK, FiresInOrder, Pending, Members
<1>3. /\ mRecycleTime[h] \in Nat
      /\ mTime' = [mTime EXCEPT ![h] = @ + mRecycleTime[h]]
      /\ \/ mTimers' = mTimers \cup {h} /\ freed' = freed
         \/ mTimers' = mTimers /\ freed' = freed \cup {h}
  <2> HIDE DEF h
  <2>0. mRecycleTime[h] \in Periods \cup {0}
    BY <1>2 DEF TypeOK
  <2>1. mRecycleTime[h] \in Nat
    <3>1. Periods \subseteq Nat
      BY TimerAssumption
    <3>2. Periods \cup {0} \subseteq Nat
      BY <3>1
    <3> QED
      BY <2>0, <3>2
  <2> USE DEF h
  <2>2. CASE Reschedule
    BY <2>1, <2>2 DEF Reschedule
  <2>3. CASE Delete
    <3>1. mTime' = mTime /\ mRecycleTime[h] = 0 /\ mTimers' = mTimers /\ freed' = freed \cup {h}
      BY <2>3 DEF Delete
    <3>2. mTime = [mTime EXCEPT ![h] = @ + 0]
      BY <1>2 DEF TypeOK
    <3> QED
      BY <2>1, <3>1, <3>2
  <2> QED
    BY <2>2, <2>3
<1>4. FiresInOrder'
  <2>1. \A m \in 1..Len(Tail(mExpireTimerVec)) :
           /\ Tail(mExpireTimerVec)[m] \in Ids
           /\ mTime'[Tail(mExpireTimerVec)[m]] = mTime[Tail(mExpireTimerVec)[m]]
    <3> SUFFICES ASSUME NEW m \in 1..Len(Tail(mExpireTimerVec))
                 PROVE  /\ Tail(mExpireTimerVec)[m] \in Ids
                        /\ mTime'[Tail(mExpireTimerVec)[m]] = mTime[Tail(mExpireTimerVec)[m]]
      OBVIOUS
    <3>1. Tail(mExpireTimerVec)[m] \in Ids
      BY <1>1, <1>2, ElementOfSeq
    <3>2. Tail(mExpireTimerVec)[m] \in Pending'
      BY <1>1 DEF Pending, Members
    <3> QED
      BY <1>2, <1>3, <3>1, <3>2 DEF TypeOK
  <2> QED
    BY <1>1, <1>2, <2>1 DEF FiresInOrder, Sorted, Before
<1>5. TypeOK'
  <2>1. mTime' \in [Ids -> Nat]
    BY <1>2, <1>3, SMTT(30) DEF TypeOK
  <2>2. mTimers' \in SUBSET Ids /\ freed' \in SUBSET Ids
    BY <1>2, <1>3 DEF TypeOK
  <2> QED
    BY <1>1, <1>2, <2>1, <2>2 DEF TypeOK
<1>6. h <= added /\ h \notin freed /\ h \notin mTimers
  BY <1>2 DEF KnownIds, NoUseOfFreed
<1>7. KnownIds'
  <2>1. (mTimers \cup Pending \cup freed \subseteq 1..added)'
    BY <1>1, <1>2, <1>3 DEF KnownIds
  <2>2. \A i \in Ids : i > added => mTime'[i] = 0
    BY <1>3, <1>6 DEF KnownIds, TypeOK, Ids
  <2> QED
    BY <1>1, <2>1, <2>2 DEF KnownIds
<1>8. (PermitsCounted /\ VecInUse /\ NoWorkerLeft /\ DestroyFreesAll)'
  BY <1>1, <1>2 DEF PermitsCounted, VecInUse, Running, NoWorkerLeft, DestroyFreesAll
<1>9. HeldWasDue'
  <2>1. Pending \subseteq Ids
    BY DEF Pending, Members, TypeOK, KnownIds, Ids
  <2> QED
    BY <1>1, <1>2, <1>3, <2>1 DEF HeldWasDue, TypeOK
<1>10. (NoUseOfFreed /\ NoneLost)'
  BY <1>1, <1>2, <1>3, <1>6 DEF NoUseOfFreed, NoneLost
<1>11. WokenByTimer'
  BY <1>1, <1>3 DEF WokenByTimer, Undisturbed
<1>12. OnGrid'
  <2> SUFFICES ASSUME stopper # "destroyed", NEW i \in Ids
               PROVE  mTime'[i] = first[i] + fired[i] * mRecycleTime[i]
    BY <1>1 DEF OnGrid
  <2>1. CASE i = h
    <3>1. mTime[h] = first[h] + (fired[h] - 1) * mRecycleTime[h]
      BY <1>1, <1>2 DEF OnGrid
    <3>2. mTime'[h] = mTime[h] + mRecycleTime[h]
      BY <1>2, <1>3 DEF TypeOK
    <3>3. /\ first[h] \in Int /\ fired[h] \in Int /\ mRecycleTime[h] \in Int
      BY <1>2, <1>3 DEF TypeOK
    <3>4. \A f, c, r \in Int : f + (c - 1) * r + r = f + c * r
      OBVIOUS
    <3> QED
      BY <2>1, <3>1, <3>2, <3>3, <3>4
  <2>2. CASE i # h
    BY <1>1, <1>2, <1>3, <2>2 DEF OnGrid, TypeOK
  <2> QED
    BY <2>1, <2>2
<1> QED
  BY <1>4, <1>5, <1>7, <1>8, <1>9, <1>10, <1>11, <1>12

-----------------------------------------------------------------------------
(* The theorems *)

LEMMA NextIInv == ASSUME TimerAssumption, IInv, [Next]_vars PROVE IInv'
<1>1. ASSUME NEW ms \in Delays, NEW recycle \in Periods, AddTimer(ms, recycle) PROVE IInv'
  BY <1>1, AddKeeps
<1>2. ASSUME NEW i \in Ids, DelTimer(i) PROVE IInv'
  BY <1>2, DelKeeps
<1>3. CASE StopPost \/ StopFlag \/ Tick \/ UNCHANGED vars
  BY <1>3, SignalsKeep
<1>4. CASE Destroy
  BY <1>4, DestroyKeeps
<1>5. CASE Moves
  BY <1>5, MovesKeep
<1>6. CASE WaitSignal \/ ReadClock
  BY <1>6, WaitsKeep
<1>7. CASE TakeExpired
  BY <1>7, TakeKeeps
<1>8. CASE Callback
  BY <1>8, CallbackKeeps
<1>9. CASE Reschedule \/ Delete
  BY <1>9, HeadDoneKeeps
<1> QED
  BY <1>1, <1>2, <1>3, <1>4, <1>5, <1>6, <1>7, <1>8, <1>9 DEF Next, WorkerStep, Moves

\* The inductive invariant: between the set, the vector, the delete and the
\* worker's place every timer is accounted for, with its deadline on its grid.
THEOREM TimerIInv == Spec => []IInv
<1>1. Init => IInv
  BY InitIInv, TimerAssumption
<1>2. IInv /\ [Next]_vars => IInv'
  BY NextIInv, TimerAssumption
<1> QED
  BY <1>1, <1>2, PTL DEF Spec

\* threadWorkFunction() and the destructor neither touch a Timer they have deleted
\* nor lose one, and the assertion of timer.cpp:227 fails only after a timer has
\* gone or the manager was stopped.
THEOREM TimerIsSafe == Spec => []TimersSafe
<1>1. IInv => TimersSafe
  <2> SUFFICES ASSUME IInv PROVE AssertHolds
    BY DEF IInv, TimersSafe
  <2> QED
    BY DEF IInv, AssertHolds, WokenByTimer, Undisturbed
<1> QED
  BY <1>1, TimerIInv, PTL

\* A callback runs only when its deadline has passed.
THEOREM TimerNeverEarly == Spec => NeverEarly
<1>1. IInv /\ [Next]_vars => [\A i \in Ids : fired'[i] # fired[i] => mTime[i] < now]_vars
  <2> SUFFICES ASSUME IInv, Next, NEW i \in Ids, fired'[i] # fired[i] PROVE mTime[i] < now
    OBVIOUS
  <2>1. Callback
    BY DEF Next, WorkerStep, AddTimer, DelTimer, StopPost, StopFlag, Destroy, Tick, WhileTest, Lookup,
           WaitSignal, Relock, Deref, EpollTimeout, EpollInterrupted, ReadClock, TakeExpired, Taken,
           Reschedule, Delete, NextOfVec, workerVars
  <2>2. i = Head(mExpireTimerVec) /\ mExpireTimerVec # <<>>
    BY <2>1 DEF Callback, IInv, TypeOK, VecInUse, Running
  <2>3. i \in Pending
    BY <2>2, TailKeeps DEF IInv, TypeOK, FiresInOrder, Pending
  <2> QED
    BY <2>3 DEF IInv, HeldWasDue, TypeOK
<1> QED
  BY <1>1, TimerIInv, PTL DEF Spec, NeverEarly

\* Callbacks run in the order of their deadlines, on the grid of their periods and
\* not before their time, whatever clients and clock do meanwhile.
THEOREM TimerIsOnTime == Spec => TimersOnTime
<1>1. IInv => FiresInOrder /\ OnGrid
  BY DEF IInv
<1> QED
  BY <1>1, TimerIInv, TimerNeverEarly, PTL DEF TimersOnTime
=============================================================================
