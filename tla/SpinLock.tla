------------------------------ MODULE SpinLock ------------------------------
(***************************************************************************)
(* eular::SpinLock: one atomic flag, a fast path that exchanges it and a   *)
(* slow path that first waits, with plain loads, until the flag looks free *)
(* and then exchanges it.  Every atomic operation is a step of its own;    *)
(* the operations are taken as sequentially consistent, which their        *)
(* acquire/release orders give on a single atomic variable.                *)
(***************************************************************************)
CONSTANTS Threads, NoThread

ASSUME SpinLockAssumption == NoThread \notin Threads

VARIABLES m_locked,     \* the flag
          pc            \* what each thread is about to do

vars == <<m_locked, pc>>

PC == {"idle",          \* outside lock()
       "load",          \* in LockSlow, about to load the flag
       "exchange",      \* in LockSlow, saw the flag free, about to exchange it
       "held"}          \* lock() or try_lock() succeeded, unlock() not called

Init == /\ m_locked = FALSE
        /\ pc = [t \in Threads |-> "idle"]

\* Faulty variant: the old value of the flag is not looked at.
ExchangeUnchecked(t, otherwise) ==
    /\ m_locked' = TRUE
    /\ pc' = [pc EXCEPT ![t] = "held"]

\* m_locked.exchange(true): the thread holds the lock if the flag was free,
\* otherwise it goes on at "otherwise".
Exchange(t, otherwise) ==
    /\ m_locked' = TRUE
    /\ pc' = [pc EXCEPT ![t] = IF m_locked THEN otherwise ELSE "held"]

\* lock(): its call to try_lock().
LockFast(t) == /\ pc[t] = "idle"
               /\ Exchange(t, "load")

\* try_lock() called by a client: it returns false and gives up.
TryLock(t) == /\ pc[t] = "idle"
              /\ Exchange(t, "idle")

\* The inner while of LockSlow: loads until the flag looks free.
SpinLoad(t) == /\ pc[t] = "load"
               /\ ~m_locked
               /\ pc' = [pc EXCEPT ![t] = "exchange"]
               /\ UNCHANGED m_locked

\* Faulty variant: LockSlow trusts its load and stores instead of exchanging.
SpinStore(t) == /\ pc[t] = "exchange"
                /\ m_locked' = TRUE
                /\ pc' = [pc EXCEPT ![t] = "held"]

\* The condition of the outer do-while of LockSlow.
SpinExchange(t) == /\ pc[t] = "exchange"
                   /\ Exchange(t, "load")

\* Faulty variant: unlock() leaves the flag set.
UnlockKeepingFlag(t) == /\ pc[t] = "held"
                        /\ pc' = [pc EXCEPT ![t] = "idle"]
                        /\ UNCHANGED m_locked

\* unlock(): stores false.
Unlock(t) == /\ pc[t] = "held"
             /\ m_locked' = FALSE
             /\ pc' = [pc EXCEPT ![t] = "idle"]

Next == \E t \in Threads : \/ LockFast(t)
                           \/ TryLock(t)
                           \/ SpinLoad(t)
                           \/ SpinExchange(t)
                           \/ Unlock(t)

\* A thread inside lock() or holding the lock keeps running; nobody has to
\* call lock().
Fairness == \A t \in Threads : WF_vars(SpinLoad(t) \/ SpinExchange(t) \/ Unlock(t))

Spec == Init /\ [][Next]_vars

FairSpec == Spec /\ Fairness

-----------------------------------------------------------------------------
TypeOK == /\ m_locked \in BOOLEAN
          /\ pc \in [Threads -> PC]

\* SpinLock::lock (mutex.h:57) lets one thread at a time into the section that
\* unlock() ends, whatever the interleaving of the loads and exchanges of
\* LockSlow.
MutualExclusion == \A s, t \in Threads :
                      pc[s] = "held" /\ pc[t] = "held" => s = t

\* The flag is set exactly while somebody holds the lock: a failed exchange
\* writes true over true, and no interleaving loses an unlock().
FlagIffHeld == m_locked <=> \E t \in Threads : pc[t] = "held"

Inv == TypeOK /\ MutualExclusion /\ FlagIffHeld

\* The spin lock implements the abstract lock: the holder is the thread that
\* lock() or try_lock() let through, and a failed attempt is a stutter.
Held(t) == pc[t] = "held"

holder == IF \E t \in Threads : Held(t)
          THEN CHOOSE t \in Threads : Held(t)
          ELSE NoThread

AbstractLock == INSTANCE Lock

Implements == AbstractLock!Spec

\* LockSlow (mutex.cpp:23) makes progress: when threads wait in it and the
\* lock is free, one of the contenders gets it.  (No single waiter is promised
\* the lock: the code has no queue.)
Waiting == \E t \in Threads : pc[t] \in {"load", "exchange"}

Free == \A t \in Threads : ~Held(t)

Progress == (Waiting /\ Free) ~> ~Free
=============================================================================
