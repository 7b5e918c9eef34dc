-------------------------------- MODULE Sem --------------------------------
(***************************************************************************)
(* Sem of mutex.cpp, and the deadlines of Sem::timedwait() and              *)
(* Condition::timedWait().  The clock runs in steps of the resolution of a   *)
(* deadline, of which Second are a second.                                 *)
(***************************************************************************)
EXTENDS Naturals

CONSTANTS Waiters,
          Second,           \* the clock's steps in a second
          MaxTime,          \* bound: the clock, and the ends of the timed waits
          MaxPosts,         \* bound: the calls of post()
          Timeouts          \* the times the waiters are willing to wait

VARIABLES clock, semPermits,
          semPosts,         \* history: the permits given
          call,             \* what each waiter is in: "none", "wait", "timedwait"
          begun, timeout,   \* of the timed wait: when it was called, with what
          expire,           \* the deadline handed to sem_timedwait()
          early             \* a timed wait returned false before its time was over

semVars == <<clock, semPermits, semPosts, call, begun, timeout, expire, early>>

NoDeadline == [sec |-> 0, nsec |-> 0]

SemInit == /\ clock = 0 /\ semPermits = 0 /\ semPosts = 0
           /\ call = [w \in Waiters |-> "none"]
           /\ begun = [w \in Waiters |-> 0]
           /\ timeout = [w \in Waiters |-> 0]
           /\ expire = [w \in Waiters |-> NoDeadline]
           /\ early = {}

-----------------------------------------------------------------------------
(* Deadlines *)

Now == [sec |-> clock \div Second, nsec |-> clock % Second]

After(ts, ms) == [sec |-> ts.sec + (ms \div Second), nsec |-> ts.nsec + (ms % Second)]

Carried(ts) == [sec |-> ts.sec + 1, nsec |-> ts.nsec - Second]

\* Faulty variant: no carry at all.
NeverCarried(ms) == After(Now, ms)

\* Sem::timedwait() carries when tv_nsec is more than a second.
SemDeadline(ms) == LET ts == After(Now, ms) IN IF ts.nsec > Second THEN Carried(ts) ELSE ts

\* Condition::timedWait() carries when it is a second, too.
ConditionDeadline(ms) == LET ts == After(Now, ms) IN IF ts.nsec >= Second THEN Carried(ts) ELSE ts

\* What sem_timedwait() and pthread_cond_timedwait() accept.
Valid(ts) == ts.nsec < Second

Reached(ts) == ts.sec * Second + ts.nsec <= clock

-----------------------------------------------------------------------------

Tick == /\ clock < MaxTime
        /\ clock' = clock + 1
        /\ UNCHANGED <<semPermits, semPosts, call, begun, timeout, expire, early>>

SemPost == /\ semPosts < MaxPosts
           /\ semPermits' = semPermits + 1 /\ semPosts' = semPosts + 1
           /\ UNCHANGED <<clock, call, begun, timeout, expire, early>>

Called(w, name) == call[w] = "none" /\ call' = [call EXCEPT ![w] = name]

SemWait(w) == /\ Called(w, "wait")
              /\ UNCHANGED <<clock, semPermits, semPosts, begun, timeout, expire, early>>

TimedWait(w, ms) ==
    /\ Called(w, "timedwait")
    /\ clock + ms <= MaxTime
    /\ begun' = [begun EXCEPT ![w] = clock]
    /\ timeout' = [timeout EXCEPT ![w] = ms]
    /\ expire' = [expire EXCEPT ![w] = SemDeadline(ms)]
    /\ UNCHANGED <<clock, semPermits, semPosts, early>>

\* Nothing of the call is kept.
Returned(w) == /\ call' = [call EXCEPT ![w] = "none"]
               /\ begun' = [begun EXCEPT ![w] = 0]
               /\ timeout' = [timeout EXCEPT ![w] = 0]
               /\ expire' = [expire EXCEPT ![w] = NoDeadline]

\* A permit is there, also after the deadline; EINTR only leads to the same
\* call with the same deadline again.
SemGet(w) == /\ call[w] # "none" /\ semPermits > 0
             /\ semPermits' = semPermits - 1
             /\ Returned(w)
             /\ UNCHANGED <<clock, semPosts, early>>

\* trywait() finds none, or takes one.
TryWait(w) == /\ call[w] = "none" /\ semPermits > 0
              /\ semPermits' = semPermits - 1
              /\ UNCHANGED <<clock, semPosts, call, begun, timeout, expire, early>>

\* Faulty variant: every error is tried again, not EINTR only.
FailRetried(w) == /\ call[w] = "timedwait" /\ semPermits = 0
                  /\ FALSE
                  /\ UNCHANGED semVars

\* sem_timedwait() fails: the time is over, or EINVAL as it would have to wait
\* until a deadline that is none.
Fail(w) == /\ call[w] = "timedwait" /\ semPermits = 0
           /\ Reached(expire[w]) \/ ~ Valid(expire[w])
           /\ early' = IF clock < begun[w] + timeout[w] THEN early \cup {expire[w].nsec} ELSE early
           /\ Returned(w)
           /\ UNCHANGED <<clock, semPermits, semPosts>>

SemNext == \/ Tick \/ SemPost
           \/ \E w \in Waiters : \/ SemWait(w) \/ SemGet(w) \/ TryWait(w) \/ Fail(w)
                                 \/ \E ms \in Timeouts : TimedWait(w, ms)

\* Time passes for a waiter, and the kernel returns from a call that can.
SemFairness == /\ WF_semVars(Tick /\ \E w \in Waiters : call[w] = "timedwait")
               /\ \A w \in Waiters : WF_semVars(SemGet(w) \/ Fail(w))

SemSpec == SemInit /\ [][SemNext]_semVars /\ SemFairness

-----------------------------------------------------------------------------
(* Properties *)

\* A timed wait that returns false has waited as long as it was asked to,
\* unless the nanoseconds add up to a second exactly, which is not carried.
EarlyOnlyAtSecond == early \subseteq {Second}

\* Condition::timedWait() hands over a deadline that is one, and that is the
\* time asked for from now.
ConditionDeadlineSound ==
    \A ms \in Timeouts : LET ts == ConditionDeadline(ms)
                         IN  Valid(ts) /\ ts.sec * Second + ts.nsec = clock + ms

\* A timed wait ends: it gets a permit, or it returns by its deadline.
TimedWaitEnds == \A w \in Waiters : call[w] = "timedwait" ~> call[w] # "timedwait"

\* The deadlines that Sem and Condition compute, as the kernel sees them.
DeadlinesSound == EarlyOnlyAtSecond /\ ConditionDeadlineSound
=============================================================================
