\* No symmetry: there are liveness properties.
SPECIFICATION SyncSpec
CONSTANTS
    Threads = {t1, t2, t3, t4}
    NoThread = NoThread
    Handles = {h1, h2, h3}
    MaxInstances = 4
    MaxRefs = 4
    Tasks = {p, q, r}
    Nobody = Nobody
    MaxDeaths = 2
    MaxRounds = 2
    MaxCalls = 3
    MaxBaseCalls = 4
    Waiters = {v, w}
    Second = 3
    MaxTime = 7
    MaxPosts = 2
    Timeouts = {0, 2, 4}
INVARIANTS
    Inv
    SingletonSafe
    MutexSafe
    ThreadSafe
    BaseSafe
    DeadlinesSound
PROPERTIES
    Implements
    Progress
    WaiterEnters
    OwnerReturns
    BaseAnswers
    TimedWaitEnds
\* Tasks die, the calls and the clock are bounded.
CHECK_DEADLOCK FALSE
