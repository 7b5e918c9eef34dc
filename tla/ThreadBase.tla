----------------------------- MODULE ThreadBase -----------------------------
(***************************************************************************)
(* eular::ThreadBase: a detached worker thread that runs                   *)
(* threadWorkFunction() in rounds.  After a round that did not ask for the *)
(* end the worker waits on a semaphore for the next start() or stop().     *)
(*                                                                         *)
(* One owner thread calls the public operations and destroys the object;   *)
(* the worker runs threadloop().  The two share mThreadStatus, mExitStatus *)
(* and mSem, and every access to them is a step of its own.                *)
(***************************************************************************)
EXTENDS Naturals

CONSTANT MaxBaseCalls       \* bound: how many operations the owner calls

VARIABLES mThreadStatus, mExitStatus,
          mSem,           \* the permits of the semaphore
          baseOwner,      \* what the owner is about to do
          worker,         \* what the worker is about to do
          baseCalls,      \* history: the operations called
          posts,          \* history: the permits given
          baseRounds,     \* history: the rounds started
          stopped,        \* history: stop() has set mExitStatus
          lateRounds,     \* history: the rounds started since
          overwritten,    \* history: run() wrote over THREAD_WAITING
          missed          \* history: stop() tested the status just before the
                          \* worker set THREAD_WAITING

shared == <<mThreadStatus, mExitStatus, mSem>>
races == <<overwritten, missed>>
baseHistory == <<baseCalls, posts, baseRounds, stopped, lateRounds, races>>
baseVars == <<shared, baseOwner, worker, baseHistory>>

Status == {"THREAD_EXIT", "THREAD_RUNNING", "THREAD_WAITING"}

Gone == {"none", "done", "cancelled"}

BaseInit == /\ mThreadStatus = "THREAD_EXIT"
            /\ mExitStatus = FALSE
            /\ mSem = 0
            /\ baseOwner = "idle"
            /\ worker = "none"
            /\ baseCalls = 0 /\ posts = 0 /\ baseRounds = 0
            /\ stopped = FALSE /\ lateRounds = 0
            /\ overwritten = FALSE /\ missed = FALSE

-----------------------------------------------------------------------------
(* The owner *)

Call(first) == /\ baseOwner = "idle"
               /\ baseCalls < MaxBaseCalls
               /\ baseCalls' = baseCalls + 1
               /\ baseOwner' = first
               /\ UNCHANGED <<shared, worker, posts, baseRounds, stopped, lateRounds, races>>

\* run(): INVALID_OPERATION unless the status is THREAD_EXIT; otherwise
\* pthread_create starts the worker.  (start() of a thread whose status is
\* THREAD_EXIT calls run(), which tests the status again.)
Run == /\ baseOwner = "run"
       /\ IF mThreadStatus = "THREAD_EXIT"
            THEN /\ worker' = "shouldExit"
                 /\ baseOwner' = "runStatus"
            ELSE /\ baseOwner' = "idle"
                 /\ UNCHANGED worker
       /\ UNCHANGED <<shared, baseHistory>>

\* The worker is running since pthread_create; only now run() says so.
RunStatus == /\ baseOwner = "runStatus"
             /\ mThreadStatus' = "THREAD_RUNNING"
             /\ overwritten' = (mThreadStatus = "THREAD_WAITING")
             /\ baseOwner' = "idle"
             /\ UNCHANGED <<mExitStatus, mSem, worker, baseCalls, posts, baseRounds, stopped,
                            lateRounds, missed>>

\* start(): the switch on mThreadStatus.
Start == /\ baseOwner = "start"
         /\ baseOwner' = CASE mThreadStatus = "THREAD_WAITING" -> "post"
                           [] mThreadStatus = "THREAD_RUNNING" -> "idle"
                           [] mThreadStatus = "THREAD_EXIT"    -> "run"
         /\ UNCHANGED <<shared, worker, baseHistory>>

\* mSem.post() of start() and stop(); the destructor goes on after stop().
Post == /\ baseOwner \in {"post", "destroyPost"}
        /\ mSem' = mSem + 1
        /\ posts' = posts + 1
        /\ baseOwner' = IF baseOwner = "post" THEN "idle" ELSE "destroyed"
        /\ UNCHANGED <<mThreadStatus, mExitStatus, worker, baseCalls, baseRounds, stopped, lateRounds, races>>

\* stop() and the destructor: nothing to do in status THREAD_EXIT.  (The
\* destructor tests the status and stop() tests it again.)
StopTest == /\ baseOwner \in {"stop", "destroy", "destroyStop"}
            /\ baseOwner' = IF mThreadStatus = "THREAD_EXIT"
                              THEN IF baseOwner = "stop" THEN "idle" ELSE "destroyed"
                              ELSE CASE baseOwner = "stop"        -> "stopFlag"
                                     [] baseOwner = "destroy"     -> "destroyStop"
                                     [] baseOwner = "destroyStop" -> "destroyFlag"
            /\ UNCHANGED <<shared, worker, baseHistory>>

StopFlag == /\ baseOwner \in {"stopFlag", "destroyFlag"}
            /\ mExitStatus' = TRUE
            /\ stopped' = TRUE
            /\ baseOwner' = IF baseOwner = "stopFlag" THEN "stopWaiting" ELSE "destroyWaiting"
            /\ UNCHANGED <<mThreadStatus, mSem, worker, baseCalls, posts, baseRounds, lateRounds, races>>

AfterStop == IF baseOwner = "stopWaiting" THEN "idle" ELSE "destroyed"

\* Faulty variant: stop() relies on the flag and wakes nobody.
StopWaitingSilent == /\ baseOwner \in {"stopWaiting", "destroyWaiting"}
                     /\ baseOwner' = AfterStop
                     /\ UNCHANGED <<shared, worker, baseHistory>>

\* A worker that waits for the user has to be told.
StopWaiting ==
    /\ baseOwner \in {"stopWaiting", "destroyWaiting"}
    /\ IF mThreadStatus = "THREAD_WAITING"
         THEN /\ baseOwner' = IF baseOwner = "stopWaiting" THEN "post" ELSE "destroyPost"
              /\ UNCHANGED missed
         ELSE /\ baseOwner' = AfterStop
              /\ missed' = (missed \/ worker = "setWaiting")
    /\ UNCHANGED <<shared, worker, baseCalls, posts, baseRounds, stopped, lateRounds, overwritten>>

\* forceExit(): pthread_cancel, asynchronous, ends the worker wherever it is;
\* a worker that is gone already stays gone.
ForceExit == /\ baseOwner = "forceExit"
             /\ IF mThreadStatus = "THREAD_EXIT"
                  THEN /\ baseOwner' = "idle"
                       /\ UNCHANGED worker
                  ELSE /\ baseOwner' = "forceFlag"
                       /\ worker' = IF worker \in Gone THEN worker ELSE "cancelled"
             /\ UNCHANGED <<shared, baseHistory>>

\* mExitStatus = THREAD_EXIT, which is false: the flag is withdrawn.
ForceFlag == /\ baseOwner = "forceFlag"
             /\ mExitStatus' = FALSE
             /\ stopped' = FALSE
             /\ baseOwner' = "idle"
             /\ UNCHANGED <<mThreadStatus, mSem, worker, baseCalls, posts, baseRounds, lateRounds, races>>

OwnerMoves == \/ Run \/ RunStatus \/ Start \/ Post \/ StopTest \/ StopFlag
              \/ StopWaiting \/ ForceExit \/ ForceFlag

Operations == {"run", "start", "stop", "forceExit", "destroy"}

OwnerCalls == \E first \in Operations : Call(first)

-----------------------------------------------------------------------------
(* The worker: threadloop() *)

\* The condition of the while: a new round, or the end.
ShouldExit == /\ worker = "shouldExit"
              /\ IF mExitStatus
                   THEN /\ worker' = "end"
                        /\ UNCHANGED <<baseRounds, lateRounds, races>>
                   ELSE /\ worker' = "work"
                        /\ baseRounds' = baseRounds + 1
                        /\ lateRounds' = IF stopped THEN lateRounds + 1 ELSE 0
              /\ UNCHANGED <<shared, baseOwner, baseCalls, posts, stopped, races>>

\* threadWorkFunction() returns THREAD_EXIT or another value, and then the
\* worker tests mExitStatus.
Work == /\ worker = "work"
        /\ worker' \in IF mExitStatus THEN {"end"} ELSE {"end", "setWaiting"}
        /\ UNCHANGED <<shared, baseOwner, baseHistory>>

SetWaiting == /\ worker = "setWaiting"
              /\ mThreadStatus' = "THREAD_WAITING"
              /\ overwritten' = FALSE
              /\ worker' = "wait"
              /\ UNCHANGED <<mExitStatus, mSem, baseOwner, baseCalls, posts, baseRounds, stopped,
                             lateRounds, missed>>

\* mSem.wait()
Wait == /\ worker = "wait"
        /\ mSem > 0
        /\ mSem' = mSem - 1
        /\ worker' = "setRunning"
        /\ UNCHANGED <<mThreadStatus, mExitStatus, baseOwner, baseHistory>>

\* Faulty variant: a worker that wakes takes the flag as consumed.
SetRunningClearing == /\ worker = "setRunning"
                      /\ mThreadStatus' = "THREAD_RUNNING"
                      /\ mExitStatus' = FALSE
                      /\ worker' = "shouldExit"
                      /\ UNCHANGED <<mSem, baseOwner, baseHistory>>

SetRunning == /\ worker = "setRunning"
              /\ mThreadStatus' = "THREAD_RUNNING"
              /\ worker' = "shouldExit"
              /\ UNCHANGED <<mExitStatus, mSem, baseOwner, baseHistory>>

\* mExitStatus = THREAD_EXIT; mThreadStatus stays as it is.
End == /\ worker = "end"
       /\ mExitStatus' = FALSE
       /\ worker' = "done"
       /\ UNCHANGED <<mThreadStatus, mSem, baseOwner, baseHistory>>

WorkerStep == ShouldExit \/ Work \/ SetWaiting \/ Wait \/ SetRunning \/ End

-----------------------------------------------------------------------------
\* After the destructor the object is gone and nothing more is modelled.
Alive == baseOwner # "destroyed"

BaseNext == Alive /\ (OwnerCalls \/ OwnerMoves \/ WorkerStep)

BaseSpec == BaseInit /\ [][BaseNext]_baseVars

\* Operations that were called return, and the worker thread is scheduled.
BaseFairness == WF_baseVars(Alive /\ OwnerMoves) /\ WF_baseVars(Alive /\ WorkerStep)

BaseFairSpec == BaseSpec /\ BaseFairness

\* An owner that lets the worker come to rest before each call, as
\* test_thread.cc does with sleep(1).
Settled == worker \in Gone \/ (worker = "wait" /\ mSem = 0)

SettledNext == Alive /\ ((Settled /\ OwnerCalls) \/ OwnerMoves \/ WorkerStep)

SettledSpec == BaseInit /\ [][SettledNext]_baseVars /\ BaseFairness

-----------------------------------------------------------------------------
BaseTypeOK == /\ mThreadStatus \in Status
              /\ mExitStatus \in BOOLEAN
              /\ mSem \in 0..MaxBaseCalls
              /\ baseOwner \in {"idle", "runStatus", "post", "stopFlag", "stopWaiting",
                                "forceFlag", "destroyStop", "destroyFlag",
                                "destroyWaiting", "destroyPost", "destroyed"} \cup Operations
              /\ worker \in Gone \cup {"shouldExit", "work", "setWaiting", "wait",
                                       "setRunning", "end"}
              /\ baseCalls \in 0..MaxBaseCalls
              /\ posts \in 0..MaxBaseCalls
              /\ baseRounds \in 0..(MaxBaseCalls + 1)
              /\ stopped \in BOOLEAN
              /\ lateRounds \in Nat
              /\ overwritten \in BOOLEAN /\ missed \in BOOLEAN

\* The user decides when the next round runs (thread.cpp:125): whatever the
\* race between the status writes, every round after the first was paid for by
\* one permit, and no permit pays twice.
RoundsPaidFor ==
    baseRounds + mSem + (IF worker = "setRunning" THEN 1 ELSE 0)
            <= posts + 1

\* Once stop() has set mExitStatus the worker starts no round at all: the test
\* of the while and the wake-up both see the flag, which only the end of the
\* thread and forceExit() withdraw.
NoRoundAfterStop == lateRounds = 0

\* A worker that waits is known to wait, and only run() can hide it, by writing
\* its THREAD_RUNNING (thread.cpp:85) late: start() and stop() see the status
\* THREAD_WAITING exactly when the worker waits and that did not happen.
WaitingIsVisible == worker = "wait" => (mThreadStatus = "THREAD_WAITING" <=> ~ overwritten)

\* stop() ends the thread: there are two ways only to lose its wake-up, the late
\* write of run() and a stop() that tests the status between the worker's own
\* test (thread.cpp:119) and its write of THREAD_WAITING (:123).
StopWakesThread == stopped ~> (worker \in Gone \/ ~ Alive \/ overwritten \/ missed)

\* start() on a waiting thread starts a round, unless a stop() or forceExit()
\* comes in between or run() has hidden that the thread waits.
StartRuns == \A n \in 1..MaxBaseCalls :
    (baseOwner = "start" /\ worker = "wait" /\ baseRounds = n)
            ~> (baseRounds > n \/ worker \in Gone \/ stopped \/ ~ Alive \/ overwritten)

\* Owner and worker agree on the rounds, on the end and on who waits.
BaseSafe == BaseTypeOK /\ RoundsPaidFor /\ NoRoundAfterStop /\ WaitingIsVisible

\* What the owner asks of the worker is done.
BaseAnswers == StopWakesThread /\ StartRuns

\* "如果线程处于等待用户状态，则需要通知线程" (thread.cpp:49): after stop() the thread
\* comes to its end, which test_thread.cc:66 relies on.
StopEndsThread == stopped ~> (worker \in Gone \/ ~ Alive)
=============================================================================
