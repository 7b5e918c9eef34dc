------------------------------- MODULE Mutex -------------------------------
(***************************************************************************)
(* Mutex and RecursiveMutex of mutex.cpp: robust pthread mutexes that       *)
(* processes may share.  A task that dies while it has the mutex leaves it   *)
(* to the next one, who is told by EOWNERDEAD and has to declare it         *)
(* consistent.  The tasks use AutoLock, which ignores what lock() returns,  *)
(* or trylock().                                                           *)
(***************************************************************************)
EXTENDS Naturals, FiniteSets

CONSTANTS Tasks, Nobody,
          MaxDeaths,        \* bound: the tasks that die
          MaxRounds         \* bound: how often each task enters

VARIABLES recursive,        \* a RecursiveMutex, chosen at the start
          owner, depth,     \* what the pthread mutex records
          condition,        \* "clean", "ownerDead", or "notRecoverable"
          at,               \* where each task is
          scopes,           \* how many locks it has to undo
          rounds,
          takenOver         \* trylock() returned EOWNERDEAD

mutexVars == <<recursive, owner, depth, condition, at, scopes, rounds, takenOver>>

MutexInit == /\ recursive \in BOOLEAN
             /\ owner = Nobody /\ depth = 0 /\ condition = "clean"
             /\ at = [t \in Tasks |-> "outside"]
             /\ scopes = [t \in Tasks |-> 0]
             /\ rounds = [t \in Tasks |-> 0]
             /\ takenOver = FALSE

Goto(t, l) == at' = [at EXCEPT ![t] = l]
Scopes(t, n) == scopes' = [scopes EXCEPT ![t] = n]

-----------------------------------------------------------------------------
(* pthread_mutex_lock() and the like, with the attributes of the constructor *)

Take(t) == owner' = t /\ depth' = 1 /\ UNCHANGED condition

\* The mutex is given up; not declared consistent, it is of no use any more.
Drop == /\ owner' = Nobody /\ depth' = 0
        /\ condition' = IF condition = "ownerDead" THEN "notRecoverable" ELSE condition

-----------------------------------------------------------------------------
(* lock(), trylock(), unlock() *)

Enter(t) == /\ at[t] = "outside" /\ rounds[t] < MaxRounds
            /\ rounds' = [rounds EXCEPT ![t] = @ + 1]
            /\ Goto(t, "lock")
            /\ UNCHANGED <<recursive, owner, depth, condition, scopes, takenOver>>

\* lock() gets the mutex; when its owner has died it goes on to declare it
\* consistent.
Lock(t) == /\ at[t] = "lock"
           /\ owner = Nobody /\ condition # "notRecoverable"
           /\ Take(t)
           /\ Goto(t, IF condition = "ownerDead" THEN "consistent" ELSE "inside")
           /\ Scopes(t, 1)
           /\ UNCHANGED <<recursive, rounds, takenOver>>

\* Faulty variant: EOWNERDEAD is not looked at.
ConsistentNot(t) == /\ at[t] = "consistent"
                    /\ Goto(t, "inside")
                    /\ UNCHANGED <<recursive, owner, depth, condition, scopes, rounds, takenOver>>

Consistent(t) == /\ at[t] = "consistent"
                 /\ condition' = "clean"
                 /\ Goto(t, "inside")
                 /\ UNCHANGED <<recursive, owner, depth, scopes, rounds, takenOver>>

\* ENOTRECOVERABLE is returned to AutoLock, which goes on without the mutex.
LockUnusable(t) == /\ at[t] = "lock"
                   /\ condition = "notRecoverable"
                   /\ Goto(t, "inside") /\ Scopes(t, 1)
                   /\ UNCHANGED <<recursive, owner, depth, condition, rounds, takenOver>>

\* lock() by the owner: counted, or EDEADLK, which lock() throws; then the
\* AutoLock around it unlocks.  Who has the mutex without knowing has no such
\* AutoLock.
Relock(t) == /\ at[t] \in {"inside", "lock"}
             /\ owner = t /\ depth < 2
             /\ IF recursive
                THEN depth' = depth + 1 /\ Goto(t, "inside") /\ Scopes(t, scopes[t] + 1)
                ELSE /\ Goto(t, IF at[t] = "inside" THEN "unlock" ELSE "outside")
                     /\ UNCHANGED <<depth, scopes>>
             /\ UNCHANGED <<recursive, owner, condition, rounds, takenOver>>

Leave(t) == /\ at[t] = "inside"
            /\ Goto(t, "unlock")
            /\ UNCHANGED <<recursive, owner, depth, condition, scopes, rounds, takenOver>>

\* The end of an AutoLock.
Undone(t) == /\ Scopes(t, scopes[t] - 1)
             /\ Goto(t, IF scopes[t] = 1 THEN "outside" ELSE "unlock")
             /\ UNCHANGED <<recursive, rounds, takenOver>>

\* Faulty variant: the mutex is not given back.
UnlockNothing(t) == at[t] = "unlock" /\ UNCHANGED <<owner, depth, condition>> /\ Undone(t)

\* unlock(): EPERM, for a caller that does not have the mutex, is ignored.
UnlockMutex(t) == /\ at[t] = "unlock"
                  /\ CASE owner # t -> UNCHANGED <<owner, depth, condition>>
                       [] owner = t /\ depth > 1 -> depth' = depth - 1 /\ UNCHANGED <<owner, condition>>
                       [] OTHER -> Drop
                  /\ Undone(t)

\* trylock() returns what pthread_mutex_trylock() does.  For EOWNERDEAD the
\* task has the mutex; it may know that, or take every error for a failure.
TryLockMutex(t) == /\ at[t] = "outside" /\ rounds[t] < MaxRounds
                   /\ owner = Nobody /\ condition # "notRecoverable"
                   /\ rounds' = [rounds EXCEPT ![t] = @ + 1]
                   /\ Take(t)
                   /\ takenOver' = (takenOver \/ condition = "ownerDead")
                   /\ \/ Goto(t, "inside") /\ Scopes(t, 1)
                      \/ condition = "ownerDead" /\ UNCHANGED <<at, scopes>>
                   /\ UNCHANGED recursive

Die(t) == /\ at[t] # "dead"
          /\ Cardinality({u \in Tasks : at[u] = "dead"}) < MaxDeaths
          /\ Goto(t, "dead")
          /\ IF owner = t THEN owner' = Nobody /\ depth' = 0 /\ condition' = "ownerDead"
             ELSE UNCHANGED <<owner, depth, condition>>
          /\ UNCHANGED <<recursive, scopes, rounds, takenOver>>

Proceed(t) == \/ Lock(t) \/ Consistent(t) \/ LockUnusable(t) \/ Leave(t) \/ UnlockMutex(t)

MutexNext == \E t \in Tasks : Enter(t) \/ TryLockMutex(t) \/ Proceed(t) \/ Relock(t) \/ Die(t)

\* A task inside leaves, and one that waits for a free mutex gets it, as the
\* rounds of the others are bounded.
MutexFairness == \A t \in Tasks : WF_mutexVars(Proceed(t))

MutexSpec == MutexInit /\ [][MutexNext]_mutexVars /\ MutexFairness

-----------------------------------------------------------------------------
(* Properties *)

\* Two tasks are inside at a time only if the mutex is past recovery.
OneInside == condition # "notRecoverable" =>
                 Cardinality({t \in Tasks : at[t] \in {"inside", "unlock"}}) <= 1

\* lock() and unlock() recover from every death, also from one between
\* EOWNERDEAD and the declaration, and between the locks of a recursive
\* mutex; only trylock(), which declares nothing, loses the mutex.
LockRecovers == condition = "notRecoverable" => takenOver

\* Nobody has the mutex without knowing it.
OwnerKnows == owner # Nobody /\ ~ takenOver => at[owner] \in {"consistent", "inside", "unlock"}

\* A task that waits for the mutex gets it whoever dies in between (or dies
\* itself), unless a trylock() took it over.
WaiterEnters == \A t \in Tasks : at[t] = "lock" ~> (at[t] # "lock" \/ takenOver)

\* Exclusion that survives the deaths of the tasks.
MutexSafe == OneInside /\ LockRecovers /\ OwnerKnows
=============================================================================
