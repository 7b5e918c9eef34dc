-------------------------------- MODULE Lock --------------------------------
(***************************************************************************)
(* What every lock of utils/mutex.h promises to the code that uses it      *)
(* through AutoLock: at most one thread is between lock() and unlock().    *)
(***************************************************************************)
CONSTANTS Threads,      \* the threads that use the lock
          NoThread      \* the holder of a lock nobody holds

VARIABLE holder

Init == holder = NoThread

Acquire(t) == /\ holder = NoThread
              /\ holder' = t

Release(t) == /\ holder = t
              /\ holder' = NoThread

Next == \E t \in Threads : Acquire(t) \/ Release(t)

Spec == Init /\ [][Next]_holder
=============================================================================
