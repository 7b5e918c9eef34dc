---------------------------- MODULE TimerManager ----------------------------
(***************************************************************************)
(* eular::TimerManager: a set of timers ordered by deadline, a worker that *)
(* sleeps until the nearest deadline and runs the callbacks that are due,  *)
(* and clients (callbacks among them) that add and delete timers and stop  *)
(* the manager at any moment.                                              *)
(*                                                                         *)
(* A section under mRWMutex is one step.  Between two sections the worker  *)
(* keeps what it read: the iterator `it`, the clock value of               *)
(* ListExpireTimer and the vector of expired timers.                       *)
(***************************************************************************)
EXTENDS Integers, FiniteSets, Sequences

CONSTANTS MaxTimers,    \* bound: timers ever added
          MaxTime,      \* bound: the last value of the clock, in ms
          Delays,       \* the delays (ms) addTimer is called with
          Periods       \* the recycle times (ms); 0 is a timer that fires once

ASSUME TimerAssumption == /\ MaxTimers \in Nat /\ MaxTime \in Nat
                          /\ Delays \subseteq Nat /\ Periods \subseteq Nat

Ids == 1..MaxTimers     \* mUniqueId, counted up by gTimerCount

VARIABLES now,          \* CLOCK_MONOTONIC
          added,        \* how many timers were added: gTimerCount
          mTime,        \* mTime[i]: absolute deadline
          mRecycleTime,
          mTimers,      \* the set
          freed,        \* the Timer objects the worker deleted
          mSignal,      \* permits of the semaphore
          mShouldExit,
          stopper,      \* progress of stopTimer() and of the destructor
          pc,           \* the worker
          it,           \* its iterator into mTimers
          expireNow,    \* currTimeMs of ListExpireTimer
          mExpireTimerVec,
          fired,        \* history: callbacks run per timer
          first,        \* history: the deadline each timer was added with
          deleted       \* history: timers delTimer() was called for

timerVars == <<added, mTime, mRecycleTime, mTimers, freed>>
workerVars == <<pc, it, expireNow, mExpireTimerVec, fired>>
vars == <<now, timerVars, mSignal, mShouldExit, stopper, workerVars, first, deleted>>

End == 0                \* mTimers.end()

\* Timer::Comparator: by deadline, then by id.
Before(i, j) == \/ mTime[i] < mTime[j]
                \/ mTime[i] = mTime[j] /\ i < j

\* mTimers.begin()
Begin == IF mTimers = {} THEN End
         ELSE CHOOSE i \in mTimers : \A j \in mTimers \ {i} : Before(i, j)

Init == /\ now = 0
        /\ added = 0
        /\ mTime = [i \in Ids |-> 0]
        /\ mRecycleTime = [i \in Ids |-> 0]
        /\ mTimers = {}
        /\ freed = {}
        /\ mSignal = 0
        /\ mShouldExit = FALSE
        /\ stopper = "no"
        /\ pc = "while"
        /\ it = End
        /\ expireNow = 0
        /\ mExpireTimerVec = <<>>
        /\ fired = [i \in Ids |-> 0]
        /\ first = [i \in Ids |-> 0]
        /\ deleted = {}

-----------------------------------------------------------------------------
(* Clients and the clock *)

\* Faulty variant: addTimer() wakes nobody.
AddTimerSilently(ms, recycle) ==
    /\ added < MaxTimers /\ stopper # "destroyed"
    /\ added' = added + 1
    /\ mTime' = [mTime EXCEPT ![added + 1] = now + ms]
    /\ mRecycleTime' = [mRecycleTime EXCEPT ![added + 1] = recycle]
    /\ first' = [first EXCEPT ![added + 1] = now + ms]
    /\ mTimers' = mTimers \cup {added + 1}
    /\ UNCHANGED <<now, freed, mSignal, mShouldExit, stopper, workerVars, deleted>>

\* addTimer(ms, cb, recycle): wakes the worker when the set was empty.
AddTimer(ms, recycle) ==
    /\ added < MaxTimers /\ stopper # "destroyed"
    /\ added' = added + 1
    /\ mTime' = [mTime EXCEPT ![added + 1] = now + ms]
    /\ mRecycleTime' = [mRecycleTime EXCEPT ![added + 1] = recycle]
    /\ first' = [first EXCEPT ![added + 1] = now + ms]
    /\ mTimers' = mTimers \cup {added + 1}
    /\ mSignal' = IF mTimers = {} THEN mSignal + 1 ELSE mSignal
    /\ UNCHANGED <<now, freed, mShouldExit, stopper, workerVars, deleted>>

\* delTimer(uniqueId): looks in mTimers only; the Timer object is not freed.
DelTimer(i) ==
    /\ i <= added /\ i \notin deleted /\ stopper # "destroyed"
    /\ mTimers' = mTimers \ {i}
    /\ deleted' = deleted \cup {i}
    /\ UNCHANGED <<now, added, mTime, mRecycleTime, freed, mSignal, mShouldExit,
                   stopper, workerVars, first>>

\* stopTimer() posts first and sets the flag second.
StopPost == /\ stopper = "no"
            /\ mSignal' = mSignal + 1
            /\ stopper' = "posted"
            /\ UNCHANGED <<now, timerVars, mShouldExit, workerVars, first, deleted>>

\* Faulty variant: stopTimer() forgets the flag.
StopFlagMissing == /\ stopper = "posted"
                   /\ stopper' = "stopped"
                   /\ UNCHANGED <<now, timerVars, mSignal, mShouldExit, workerVars, first, deleted>>

StopFlag == /\ stopper = "posted"
            /\ mShouldExit' = TRUE
            /\ stopper' = "stopped"
            /\ UNCHANGED <<now, timerVars, mSignal, workerVars, first, deleted>>

\* ~TimerManager() calls stopTimer(), does not wait for the worker, and deletes
\* the timers in mTimers.  A worker that has not ended goes on in an object
\* that is gone.
Destroy == /\ stopper = "stopped" /\ pc \notin {"aborted", "terminated"}
           /\ freed' = freed \cup mTimers
           /\ mTimers' = {}
           /\ stopper' = "destroyed"
           /\ pc' = IF pc = "ended" THEN "ended" ELSE "undefined"
           /\ UNCHANGED <<now, added, mTime, mRecycleTime, mSignal, mShouldExit, it,
                          expireNow, mExpireTimerVec, fired, first, deleted>>

Tick == /\ now < MaxTime
        /\ now' = now + 1
        /\ UNCHANGED <<timerVars, mSignal, mShouldExit, stopper, workerVars, first, deleted>>

-----------------------------------------------------------------------------
(* The worker: threadWorkFunction() *)

WhileTest == /\ pc = "while"
             /\ pc' = IF mShouldExit THEN "ended" ELSE "lookup"
             /\ UNCHANGED <<now, timerVars, mSignal, mShouldExit, stopper, it,
                            expireNow, mExpireTimerVec, fired, first, deleted>>

\* The section under RDAutoLock, up to the wait.
Lookup == /\ pc = "lookup"
          /\ pc' = IF mTimers = {} THEN "wait" ELSE "deref"
          /\ it' = Begin
          /\ UNCHANGED <<now, timerVars, mSignal, mShouldExit, stopper,
                         expireNow, mExpireTimerVec, fired, first, deleted>>

\* mSignal.wait(), with the lock released.
WaitSignal == /\ pc = "wait"
              /\ mSignal > 0
              /\ mSignal' = mSignal - 1
              /\ pc' = "relock"
              /\ UNCHANGED <<now, timerVars, mShouldExit, stopper, it,
                             expireNow, mExpireTimerVec, fired, first, deleted>>

\* The rest of the section: the set is not tested again.
Relock == /\ pc = "relock"
          /\ it' = Begin
          /\ pc' = "deref"
          /\ UNCHANGED <<now, timerVars, mSignal, mShouldExit, stopper,
                         expireNow, mExpireTimerVec, fired, first, deleted>>

\* The assert and (*it)->mTime, after the lock is released.  The assert aborts
\* the process on end(); a node that delTimer() erased meanwhile cannot be
\* dereferenced: what follows is undefined, and the model ends there.
Deref == /\ pc = "deref"
         /\ pc' = CASE it = End           -> "aborted"
                    [] it \in Ids \ mTimers -> "undefined"
                    [] OTHER -> IF mTime[it] > now THEN "epoll" ELSE "listExpire"
         /\ UNCHANGED <<now, timerVars, mSignal, mShouldExit, stopper, it,
                        expireNow, mExpireTimerVec, fired, first, deleted>>

\* epoll_wait() times out after nextTime ms: at the deadline that was read.
\* (No descriptor is registered; adding a timer does not interrupt it.)
EpollTimeout == /\ pc = "epoll"
                /\ now >= mTime[it]
                /\ pc' = "listExpire"
                /\ UNCHANGED <<now, timerVars, mSignal, mShouldExit, stopper, it,
                               expireNow, mExpireTimerVec, fired, first, deleted>>

\* epoll_wait() is interrupted by a signal: n < 0 and the worker throws, which
\* nobody catches.
EpollInterrupted ==
    /\ pc = "epoll"
    /\ pc' = "terminated"
    /\ UNCHANGED <<now, timerVars, mSignal, mShouldExit, stopper, it,
                   expireNow, mExpireTimerVec, fired, first, deleted>>

\* ListExpireTimer() reads the clock before it takes the lock.
ReadClock == /\ pc = "listExpire"
             /\ expireNow' = now
             /\ pc' = "takeExpired"
             /\ UNCHANGED <<now, timerVars, mSignal, mShouldExit, stopper, it,
                            mExpireTimerVec, fired, first, deleted>>

\* The loop pushes the timers that are due in the order of the set.
Members(vec) == {vec[n] : n \in 1..Len(vec)}

Sorted(vec) == \A m, n \in 1..Len(vec) : m < n => Before(vec[m], vec[n])

Pushed(due) == {vec \in [1..Cardinality(due) -> due] : Members(vec) = due /\ Sorted(vec)}

\* The loop of ListExpireTimer(), under the lock.
Taken(due) == /\ mTimers' = mTimers \ due
              /\ mExpireTimerVec' \in Pushed(due)
              /\ pc' = IF due = {} THEN "while" ELSE "callback"
              /\ UNCHANGED <<now, added, mTime, mRecycleTime, freed, mSignal,
                             mShouldExit, stopper, it, expireNow, fired, first, deleted>>

\* Faulty variant: a timer that is due within a millisecond is taken.
TakeAlmostExpired == /\ pc = "takeExpired"
                     /\ Taken({i \in mTimers : mTime[i] <= expireNow + 1})

TakeExpired == /\ pc = "takeExpired"
               /\ Taken({i \in mTimers : mTime[i] < expireNow})

Callback == /\ pc = "callback"
            /\ fired' = [fired EXCEPT ![Head(mExpireTimerVec)] = @ + 1]
            /\ pc' = "reschedule"
            /\ UNCHANGED <<now, timerVars, mSignal, mShouldExit, stopper, it,
                           expireNow, mExpireTimerVec, first, deleted>>

\* What follows the callback: addTimer(Timer *) of a timer that recycles, which
\* wakes nobody, or its delete; then the next of the vector.
NextOfVec == /\ mExpireTimerVec' = Tail(mExpireTimerVec)
             /\ pc' = IF Len(mExpireTimerVec) = 1 THEN "while" ELSE "callback"
             /\ UNCHANGED <<now, added, mRecycleTime, mSignal, mShouldExit,
                            stopper, it, expireNow, fired, first, deleted>>

\* Faulty variant: the timer does not get back into the set.
RescheduleLost ==
    LET i == Head(mExpireTimerVec)
    IN  /\ pc = "reschedule"
        /\ mRecycleTime[i] > 0
        /\ mTime' = [mTime EXCEPT ![i] = @ + mRecycleTime[i]]
        /\ UNCHANGED <<mTimers, freed>>
        /\ NextOfVec

Reschedule ==
    LET i == Head(mExpireTimerVec)
    IN  /\ pc = "reschedule"
        /\ mRecycleTime[i] > 0
        /\ mTime' = [mTime EXCEPT ![i] = @ + mRecycleTime[i]]
        /\ mTimers' = mTimers \cup {i}
        /\ UNCHANGED freed
        /\ NextOfVec

Delete ==
    LET i == Head(mExpireTimerVec)
    IN  /\ pc = "reschedule"
        /\ mRecycleTime[i] = 0
        /\ freed' = freed \cup {i}
        /\ UNCHANGED <<mTime, mTimers>>
        /\ NextOfVec

WorkerStep == \/ WhileTest \/ Lookup \/ WaitSignal \/ Relock \/ Deref
              \/ EpollTimeout \/ ReadClock \/ TakeExpired \/ Callback
              \/ Reschedule \/ Delete

-----------------------------------------------------------------------------
Next == \/ \E ms \in Delays, recycle \in Periods : AddTimer(ms, recycle)
        \/ \E i \in Ids : DelTimer(i)
        \/ StopPost
        \/ StopFlag
        \/ Destroy
        \/ Tick
        \/ WorkerStep
        \/ EpollInterrupted

Spec == Init /\ [][Next]_vars

\* The worker thread is scheduled, time passes and stopTimer() returns.
Fairness == WF_vars(WorkerStep) /\ WF_vars(Tick) /\ WF_vars(StopFlag)

FairSpec == Spec /\ Fairness

-----------------------------------------------------------------------------
Pending == Members(mExpireTimerVec)

TypeOK == /\ now \in 0..MaxTime
          /\ added \in 0..MaxTimers
          /\ mTime \in [Ids -> Nat]
          /\ mRecycleTime \in [Ids -> Periods \cup {0}]
          /\ mTimers \in SUBSET Ids
          /\ freed \in SUBSET Ids
          /\ mSignal \in 0..(MaxTimers + 1)
          /\ mShouldExit \in BOOLEAN
          /\ stopper \in {"no", "posted", "stopped", "destroyed"}
          /\ pc \in {"while", "lookup", "wait", "relock", "deref", "epoll", "listExpire",
                     "takeExpired", "callback", "reschedule", "ended", "aborted", "undefined",
                     "terminated"}
          /\ it \in Ids \cup {End}
          /\ expireNow \in 0..MaxTime
          /\ mExpireTimerVec \in Seq(Ids)
          /\ fired \in [Ids -> Nat]
          /\ first \in [Ids -> Nat]
          /\ deleted \in SUBSET Ids

\* A timer the worker has deleted is neither in the set nor waiting for its
\* callback, and none is in both: no step touches a freed Timer.
NoUseOfFreed == /\ freed \cap (mTimers \cup Pending) = {}
                /\ mTimers \cap Pending = {}

\* No timer gets lost between the set, the vector and the set again: one that
\* was added and neither deleted nor freed is where the worker will find it.
NoneLost == (1..added) \ (mTimers \cup Pending \cup freed) \subseteq deleted

\* A manager that is destroyed after its worker has ended leaves no Timer behind:
\* the worker does not stop in the middle of a batch, and what it has put back
\* by then the destructor finds.  (delTimer() leaves its Timer for good.)
DestroyFreesAll == stopper = "destroyed" /\ pc = "ended" => (1..added) \ deleted \subseteq freed

\* The callbacks of one batch run in the order of the deadlines.
FiresInOrder == Sorted(mExpireTimerVec)

\* No callback runs before its deadline, although the clock is read before the
\* lock is taken and a timer that recycles is rescheduled from its deadline.
NeverEarly == [][\A i \in Ids : fired'[i] # fired[i] => mTime[i] < now]_vars

\* A timer that recycles keeps to its grid: a callback that runs late does not
\* shift the later ones, none is skipped and none runs twice for a period
\* (mTime += mRecycleTime, timer.cpp:244).
OnGrid == stopper # "destroyed" => \A i \in Ids :
    LET done == IF pc = "reschedule" /\ Head(mExpireTimerVec) = i
                  THEN fired[i] - 1 ELSE fired[i]
    IN  mTime[i] = first[i] + done * mRecycleTime[i]

\* The assert of timer.cpp:227, evaluated without the lock: the set is empty there
\* only after a timer has gone for good (a permit of mSignal has outlived it) or
\* stopTimer() has posted.  With recycling timers alone it holds.
AssertHolds == pc = "deref" /\ it = End => \/ deleted # {} \/ freed # {}
                                           \/ stopper # "no"

\* The timers are where the worker and the destructor look for them.
TimersSafe == TypeOK /\ NoUseOfFreed /\ NoneLost /\ DestroyFreesAll /\ AssertHolds

\* Callbacks run in order, on their grid, and not before their time.
TimersOnTime == [](FiresInOrder /\ OnGrid) /\ NeverEarly

\* addTimer() returns the id so that the timer can be deleted (timer.cpp:148):
\* once delTimer() has returned, the callback does not run any more.
DeletedNeverFires == [][\A i \in deleted : fired'[i] = fired[i]]_vars

\* The model's clock stops while the worker sleeps on.
ClockOut == pc = "epoll" /\ mTime[it] > MaxTime

\* Every timer fires, unless it is deleted, the manager is stopped or the worker
\* is gone: no wake-up is lost on the way from addTimer() to the callback.
EveryTimerFires == \A i \in Ids :
    (i \in mTimers /\ mTime[i] < MaxTime) ~>
        \/ i \notin mTimers \/ mTime[i] >= MaxTime
        \/ mShouldExit \/ pc \in {"aborted", "undefined", "terminated"} \/ ClockOut

\* The worker is on its way to the test of mShouldExit.
Working == pc \in {"while", "epoll", "listExpire", "takeExpired", "callback", "reschedule"}

\* The worker's end is not stopTimer()'s: a signal has interrupted epoll_wait(),
\* the destructor has run, or the model's clock has stopped.
EndedOtherwise == pc = "terminated" \/ stopper = "destroyed" \/ ClockOut

\* stopTimer() ends the worker through the test of its flag and nothing else,
\* within the sleep it is in, once the flag is set while the worker works on
\* timers.  A worker that is past the test, or waits, does not stay there: it
\* ends so, too, if it finds a timer; if it has found none, the permit of
\* stopTimer() itself takes it into the assert of timer.cpp:227, which aborts,
\* and if delTimer() takes away the timer it has found, it reads what is freed.
StopEnds == /\ (stopper = "stopped" /\ Working) ~> (pc = "ended" \/ EndedOtherwise)
            /\ stopper = "stopped" ~> \/ pc = "ended" \/ EndedOtherwise
                                     \/ (pc = "aborted" /\ it = End)
                                     \/ (pc = "undefined" /\ it \in deleted)
=============================================================================
