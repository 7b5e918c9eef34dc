------------------------------- MODULE Thread -------------------------------
(***************************************************************************)
(* Thread of thread.cpp: the constructor starts a pthread and waits on a    *)
(* semaphore until the pthread has entered; the pthread goes on to use the  *)
(* object.  One owner joins, detaches and destroys the object.             *)
(***************************************************************************)
EXTENDS Naturals

CONSTANT MaxCalls       \* bound: the calls of join() and detach()

VARIABLES exists,       \* the object is constructed and not destroyed
          tid,          \* mTid: "none" or the pthread
          mShouldJoin,
          permits,      \* mSemaphore
          kernalTid,    \* mKernalTid is set
          pthread,      \* "none", "joinable", "joined" or "detached"
          creator,      \* where the owner is
          body,         \* where the pthread is
          ran,          \* the callback was run
          detaches,     \* history: the calls of detach()
          calls,        \* history: the calls
          misused,      \* the pthread used a destroyed object
          badTid        \* join or detach of a pthread that was given up

threadVars == <<exists, tid, mShouldJoin, permits, kernalTid, pthread, creator, body,
                ran, detaches, calls, misused, badTid>>

ThreadInit ==
    /\ exists = FALSE /\ tid = "none" /\ mShouldJoin = TRUE
    /\ permits = 0 /\ kernalTid = FALSE
    /\ pthread = "none" /\ creator = "start" /\ body = "none" /\ ran = FALSE
    /\ detaches = 0 /\ calls = 0
    /\ misused = FALSE /\ badTid = FALSE

-----------------------------------------------------------------------------
(* The owner *)

\* Thread(): pthread_create(); when it fails the constructor throws.
Create == /\ creator = "start"
          /\ exists' = TRUE
          /\ tid' = "pthread" /\ pthread' = "joinable"
          /\ creator' = "wait" /\ body' = "enter"
          /\ UNCHANGED <<mShouldJoin, permits, kernalTid, ran, detaches, calls, misused, badTid>>

CreateFails == /\ creator = "start"
               /\ creator' = "destroyed"
               /\ UNCHANGED <<exists, tid, mShouldJoin, permits, kernalTid, pthread, body, ran,
                              detaches, calls, misused, badTid>>

\* mSemaphore.wait()
Created == /\ creator = "wait" /\ permits > 0
           /\ permits' = permits - 1
           /\ creator' = "idle"
           /\ UNCHANGED <<exists, tid, mShouldJoin, kernalTid, pthread, body, ran, detaches,
                          calls, misused, badTid>>

\* pthread_detach(mTid), which may be given up already.
GiveUp == /\ pthread' = "detached"
          /\ badTid' = (badTid \/ pthread # "joinable")

Detach == /\ creator = "idle" /\ calls < MaxCalls
          /\ calls' = calls + 1
          /\ detaches' = detaches + 1
          /\ IF tid = "none" THEN UNCHANGED <<pthread, badTid, mShouldJoin>>
             ELSE GiveUp /\ mShouldJoin' = FALSE
          /\ UNCHANGED <<exists, tid, permits, kernalTid, creator, body, ran, misused>>

\* join(): waits if there is something to wait for.
Join == /\ creator = "idle" /\ calls < MaxCalls
        /\ calls' = calls + 1
        /\ IF mShouldJoin /\ tid # "none" THEN creator' = "join" /\ UNCHANGED mShouldJoin
           ELSE mShouldJoin' = FALSE /\ UNCHANGED creator
        /\ UNCHANGED <<exists, tid, permits, kernalTid, pthread, body, ran, detaches, misused, badTid>>

\* Faulty variant: the pthread is not waited for.
JoinedAtOnce == /\ creator = "join"
                /\ pthread' = "joined" /\ tid' = "none" /\ mShouldJoin' = FALSE
                /\ creator' = "idle"
                /\ UNCHANGED <<exists, permits, kernalTid, body, ran, detaches, calls, misused, badTid>>

Joined == /\ creator = "join"
          /\ body = "ended"
          /\ badTid' = (badTid \/ pthread # "joinable")
          /\ pthread' = "joined"
          /\ tid' = "none" /\ mShouldJoin' = FALSE
          /\ creator' = "idle"
          /\ UNCHANGED <<exists, permits, kernalTid, body, ran, detaches, calls, misused>>

\* ~Thread()
Destroy == /\ creator = "idle"
           /\ IF mShouldJoin /\ tid # "none" THEN GiveUp ELSE UNCHANGED <<pthread, badTid>>
           /\ exists' = FALSE /\ creator' = "destroyed"
           /\ UNCHANGED <<tid, mShouldJoin, permits, kernalTid, body, ran, detaches, calls, misused>>

-----------------------------------------------------------------------------
(* entrance() *)

\* Every step up to the swap uses the object.
Uses == misused' = (misused \/ ~ exists)

EnterThread == /\ body = "enter"
               /\ Uses
               /\ kernalTid' = TRUE
               /\ body' = "post"
               /\ UNCHANGED <<exists, tid, mShouldJoin, permits, pthread, creator, ran, detaches, calls, badTid>>

\* Faulty variant: the constructor is not told.
PostNot == /\ body = "post"
           /\ Uses
           /\ body' = "name"
           /\ UNCHANGED <<exists, tid, mShouldJoin, permits, kernalTid, pthread, creator, ran, detaches,
                          calls, badTid>>

PostPermit == /\ body = "post"
              /\ Uses
              /\ permits' = permits + 1
              /\ body' = "name"
              /\ UNCHANGED <<exists, tid, mShouldJoin, kernalTid, pthread, creator, ran, detaches,
                             calls, badTid>>

\* mThreadName for pthread_setname_np(), then mCallback.
UseObject == /\ body \in {"name", "swap"}
             /\ Uses
             /\ body' = IF body = "name" THEN "swap" ELSE "callback"
             /\ UNCHANGED <<exists, tid, mShouldJoin, permits, kernalTid, pthread, creator, ran,
                            detaches, calls, badTid>>

\* cb(): what was swapped out of a destroyed object is no callback.
RunCallback == /\ body = "callback"
               /\ ran' = ~ misused
               /\ body' = "ended"
               /\ UNCHANGED <<exists, tid, mShouldJoin, permits, kernalTid, pthread, creator, detaches,
                              calls, misused, badTid>>

OwnerStep == \/ Create \/ CreateFails \/ Created \/ Detach \/ Join \/ Joined \/ Destroy
BodyStep == \/ EnterThread \/ PostPermit \/ UseObject \/ RunCallback

ThreadNext == OwnerStep \/ BodyStep

\* The pthread is scheduled and its callback ends; the owner goes on when it
\* can.
ThreadFairness == WF_threadVars(BodyStep) /\ WF_threadVars(Created \/ Joined)

ThreadSpec == ThreadInit /\ [][ThreadNext]_threadVars /\ ThreadFairness

-----------------------------------------------------------------------------
(* Properties *)

\* A thread that was joined has run its callback, and its pthread has not
\* touched the object after its destruction; the others may have: the
\* semaphore is posted before the name and the callback are taken.
JoinedIsSafe == pthread = "joined" => ran /\ body = "ended" /\ ~ misused

\* The kernel's id is there when the constructor returns.
ConstructedHasTid == creator = "idle" /\ tid # "none" => kernalTid

\* The pthread is joined or detached once, by whichever of join(), detach()
\* and ~Thread() comes first; only a second detach() names it again.
GivenUpOnce == badTid => detaches > 1

\* The constructor and join() return.
OwnerReturns == creator \in {"wait", "join"} ~> creator \in {"idle", "destroyed"}

\* A Thread, its pthread and the task that owns it agree on what is left of it.
ThreadSafe == JoinedIsSafe /\ ConstructedHasTid /\ GivenUpOnce
=============================================================================
