--------------------------- MODULE ConfigRWMutex ---------------------------
(***************************************************************************)
(* The RWMutex of config/rwmutex.cpp, which guards the trees of YamlConfig *)
(* and XmlConfig: two atomics that say who is inside, and a mutex with a   *)
(* condition variable that is used only to sleep.  The atomics are tested  *)
(* and changed without the mutex, a sleeper does not test again, and the   *)
(* notifications are sent without the mutex.                               *)
(***************************************************************************)
EXTENDS Integers, FiniteSets

CONSTANTS Readers,      \* threads that call rlock() and runlock()
          Writers,      \* threads that call wlock() and wunlock()
          MaxLocks      \* bound: how often each thread takes the lock

Threads == Readers \cup Writers

VARIABLES m_readCount, m_writeCount,
          sleeping,     \* the threads in m_cond.wait(), not yet notified
          pc,
          locks,        \* history: how often each thread called lock
          late          \* history: the sleepers that began to wait when the lock was free

vars == <<m_readCount, m_writeCount, sleeping, pc, locks, late>>

Init == /\ m_readCount = 0
        /\ m_writeCount = FALSE
        /\ sleeping = {}
        /\ pc = [t \in Threads |-> "idle"]
        /\ locks = [t \in Threads |-> 0]
        /\ late = {}

Goto(t, l) == pc' = [pc EXCEPT ![t] = l]

-----------------------------------------------------------------------------
(* rlock() and wlock() *)

Busy(t) == m_writeCount \/ (t \in Writers /\ m_readCount > 0)

\* The test of the atomics, without the mutex.
Test(t) == /\ pc[t] = "idle"
           /\ locks[t] < MaxLocks
           /\ locks' = [locks EXCEPT ![t] = @ + 1]
           /\ Goto(t, IF Busy(t) THEN "sleep" ELSE "enter")
           /\ UNCHANGED <<m_readCount, m_writeCount, sleeping, late>>

\* The mutex is taken and m_cond.wait() releases it.
Sleep(t) == /\ pc[t] = "sleep"
            /\ sleeping' = sleeping \cup {t}
            /\ Goto(t, "asleep")
            /\ late' = IF Busy(t) THEN late ELSE late \cup {t}
            /\ UNCHANGED <<m_readCount, m_writeCount, locks>>

\* m_cond.wait() returns, notified; nothing is tested again.
Wake(t) == /\ pc[t] = "asleep"
           /\ t \notin sleeping
           /\ Goto(t, "enter")
           /\ UNCHANGED <<m_readCount, m_writeCount, sleeping, locks, late>>

\* m_cond.wait() may return although nobody has notified.
SpuriousWake(t) == /\ pc[t] = "asleep"
                   /\ t \in sleeping
                   /\ sleeping' = sleeping \ {t} /\ late' = late \ {t}
                   /\ Goto(t, "enter")
                   /\ UNCHANGED <<m_readCount, m_writeCount, locks>>

ReadEnter(t) == /\ pc[t] = "enter" /\ t \in Readers
                /\ m_readCount' = m_readCount + 1
                /\ Goto(t, "inside")
                /\ UNCHANGED <<m_writeCount, sleeping, locks, late>>

WriteEnter(t) == /\ pc[t] = "enter" /\ t \in Writers
                 /\ m_writeCount' = TRUE
                 /\ Goto(t, "inside")
                 /\ UNCHANGED <<m_readCount, sleeping, locks, late>>

-----------------------------------------------------------------------------
(* runlock() and wunlock() *)

ReadLeave(t) == /\ pc[t] = "inside" /\ t \in Readers
                /\ m_readCount' = m_readCount - 1
                /\ Goto(t, "readNotify")
                /\ UNCHANGED <<m_writeCount, sleeping, locks, late>>

\* Faulty variant: a reader that leaves wakes nobody.
ReadNotifyNobody(t) == /\ pc[t] = "readNotify"
                       /\ Goto(t, "idle")
                       /\ UNCHANGED <<m_readCount, m_writeCount, sleeping, locks, late>>

\* notify_one() wakes one sleeper, if there is one.
ReadNotify(t) == /\ pc[t] = "readNotify"
                 /\ Goto(t, "idle")
                 /\ IF m_readCount = 0 /\ sleeping # {}
                      THEN \E s \in sleeping : sleeping' = sleeping \ {s} /\ late' = late \ {s}
                      ELSE UNCHANGED <<sleeping, late>>
                 /\ UNCHANGED <<m_readCount, m_writeCount, locks>>

\* The test of wunlock(), true unless another writer was inside and has left.
WriteLeaveTest(t) == /\ pc[t] = "inside" /\ t \in Writers
                     /\ Goto(t, IF m_writeCount THEN "writeLeave" ELSE "idle")
                     /\ UNCHANGED <<m_readCount, m_writeCount, sleeping, locks, late>>

WriteLeave(t) == /\ pc[t] = "writeLeave"
                 /\ m_writeCount' = FALSE
                 /\ Goto(t, "writeNotify")
                 /\ UNCHANGED <<m_readCount, sleeping, locks, late>>

WriteNotify(t) == /\ pc[t] = "writeNotify"
                  /\ sleeping' = {} /\ late' = {}
                  /\ Goto(t, "idle")
                  /\ UNCHANGED <<m_readCount, m_writeCount, locks>>

-----------------------------------------------------------------------------
Step(t) == \/ Sleep(t) \/ Wake(t) \/ ReadEnter(t) \/ WriteEnter(t)
           \/ ReadLeave(t) \/ ReadNotify(t) \/ WriteLeaveTest(t) \/ WriteLeave(t) \/ WriteNotify(t)

Next == \E t \in Threads : Test(t) \/ SpuriousWake(t) \/ Step(t)

Spec == Init /\ [][Next]_vars

-----------------------------------------------------------------------------
Inside == {t \in Threads : pc[t] \in {"inside", "writeLeave"}}

TypeOK == /\ m_readCount \in 0..Cardinality(Readers)
          /\ m_writeCount \in BOOLEAN
          /\ sleeping \in SUBSET Threads
          /\ pc \in [Threads -> {"idle", "sleep", "asleep", "enter", "inside",
                                 "readNotify", "writeLeave", "writeNotify"}]
          /\ locks \in [Threads -> 0..MaxLocks]
          /\ late \in SUBSET sleeping

\* m_readCount is the number of readers inside, whoever was let in wrongly.
CountsReaders == m_readCount = Cardinality(Inside \cap Readers)

\* "unreleased locks exist" (rwmutex.cpp:20): when all threads have unlocked,
\* the destructor finds no lock, also after two writers were inside at once.
AllReleased == (\A t \in Threads : pc[t] \in {"idle", "sleep", "asleep", "enter"}) =>
                   m_readCount = 0 /\ ~ m_writeCount

\* Nobody is left asleep but by one race: a thread that begins to wait after
\* the lock it waits for has been given up.  All else wakes up in the end, two
\* writers inside at once, wake-ups without cause and notify_one() included.
LeftAsleepOnlyLate == (\A t \in Threads : pc[t] = "idle" \/ t \in sleeping) => sleeping \subseteq late

\* The lock is given back and those who wait for it are woken.
LockSafe == TypeOK /\ CountsReaders /\ AllReleased /\ LeftAsleepOnlyLate
=============================================================================
