------------------------------- MODULE MCSync -------------------------------
(***************************************************************************)
(* The synchronisation classes and the singleton, none of which uses        *)
(* another: one run checks one of them at a time, the part chosen at the    *)
(* start.  The others keep their initial state.                            *)
(***************************************************************************)
EXTENDS SpinLock, Singleton, Mutex, Thread, ThreadBase, Sem

VARIABLE part

syncVars == <<part, vars, singletonVars, mutexVars, threadVars, baseVars, semVars>>

SyncInit ==
    /\ part \in {"SpinLock", "Singleton", "Mutex", "Thread", "ThreadBase", "Sem"}
    /\ Init /\ SingletonInit /\ MutexInit /\ ThreadInit /\ BaseInit /\ SemInit

SyncNext ==
    /\ UNCHANGED part
    /\ \/ /\ part = "SpinLock" /\ Next
          /\ UNCHANGED <<singletonVars, mutexVars, threadVars, baseVars, semVars>>
       \/ /\ part = "Singleton" /\ SingletonNext
          /\ UNCHANGED <<vars, mutexVars, threadVars, baseVars, semVars>>
       \/ /\ part = "Mutex" /\ MutexNext
          /\ UNCHANGED <<vars, singletonVars, threadVars, baseVars, semVars>>
       \/ /\ part = "Thread" /\ ThreadNext
          /\ UNCHANGED <<vars, singletonVars, mutexVars, baseVars, semVars>>
       \/ /\ part = "ThreadBase" /\ BaseNext
          /\ UNCHANGED <<vars, singletonVars, mutexVars, threadVars, semVars>>
       \/ /\ part = "Sem" /\ SemNext
          /\ UNCHANGED <<vars, singletonVars, mutexVars, threadVars, baseVars>>

\* None of the fair actions is enabled in a part's initial state.
SyncSpec == /\ SyncInit /\ [][SyncNext]_syncVars
            /\ Fairness /\ MutexFairness /\ ThreadFairness /\ BaseFairness /\ SemFairness
=============================================================================
