# TLA+ models of alias (eular utils, log, config, sqlutils)

This directory holds TLA+ specifications of the parts of the library whose
behaviour depends on order, sharing, failure or accumulated state, TLC
configurations that model-check them on small instances, and TLAPS proofs of
the most important results for every value of the constants. PROJECT.json is
its index: components, runs, the source lines of each definition, the hazards
and the theorems.

## The system

The repository is a C++ base library. Its parts, their state, and what connects
them:

| Part | State | Operations | Uses | Module |
|---|---|---|---|---|
| `SpinLock`, `AutoLock` | one atomic flag | lock, try_lock, unlock | | `Lock`, `SpinLock` |
| `Mutex`, `RecursiveMutex` | robust pthread mutex, owner | lock, trylock, unlock | | `Mutex` |
| `Sem`, `Condition` | permits, deadlines | post, wait, timedwait | | `Sem` |
| `Thread` | pthread id, semaphore | constructor, join, detach, entrance | Sem | `Thread` |
| `ThreadBase` | thread status, exit flag, semaphore | run, start, stop, forceExit, threadloop | Sem | `ThreadBase` |
| `Timer`, `TimerManager` | set of timers by deadline, vector of expired ones, semaphore, exit flag | addTimer, delTimer, stopTimer, the worker | ThreadBase, RWMutex, Sem | `TimerManager` |
| `Singleton`, `SObject`, `RefCount` | instance pointer, reference count | Get, Reset, Free, copies of the handle | Mutex | `Singleton` |
| `SharedBuffer` | reference count and bytes behind it | alloc, acquire, release, edit, editResize, attemptEdit, reset | | `ValueStore`, `SharedBuffer`; `Blocks` for its users |
| `ByteBuffer`, `BufferStream` | pointer into a SharedBuffer, size, capacity; read and write position | copy, append, insert, resize; `<<`, `>>` | SharedBuffer | `ByteBuffer`, `BufferStream` |
| `String8` | pointer into a SharedBuffer, capacity | copy, assign, append, format, trim, remove, search | SharedBuffer | `String8` |
| `rbtree_base`, `rbtree_api` | tree with parent pointers and colours | insert, erase, replace, walk, search | | `RBTreeOps`, `RBTree` |
| `Map` | shared tree with a count | copy, detach, insert, erase, iterators | rbtree, RefCount | `Dictionaries`, `Map` |
| `HashMap`, `BiMap`, `BitMap` | buckets with a shared count; two indices; bits | insert, rehash, update, replace, set, reserve | RefCount | `HashMap`, `BiMap`, `BitMap` |
| `log_write` | per-thread buffer | format, terminate, hand on | LogManager | `LogBuffer` |
| `LogManager` | list of writers | WriteLog, add and delete writers, end | writers | `LogManager` |
| `FileLogWrite` | descriptor and size shared by processes | WriteToFile, rotation | ProcessMutex | `FileLogWrite` |
| `ConsoleLogWrite`, `logcat` | local sockets, stream of JSON, viewers | send, accept, recv, hang up, signals | sockets | `LogConsole` |
| configuration readers | maps of names to values, files; an RWMutex of two atomics and a condition variable | load, value, keep, del; rlock, wlock | vendored parsers | `IniConfig`, `ConfigTrees`, `ConfigRWMutex` |
| `RedisInterface`, `MySqlConn` | connection, replies, names of columns | connect, commands, results | client libraries | `RedisClient`, `MySqlConn` |
| crypto, Any, reflection, file, time and conversion helpers | none, or a buffer | | OpenSSL | not modelled |

What makes them hard: threads that share a count, a status word or a buffer and
look at it before they act on it (SharedBuffer, Map, Singleton, ThreadBase,
ConfigRWMutex); a worker that keeps what it read under a lock after releasing
the lock (TimerManager, LogManager); state that two processes share while its
meaning is per process (FileLogWrite); owners and servers that die or restart
(Mutex, LogConsole, RedisClient, MySqlConn); memory that runs out in the middle
of a call (ByteBuffer, String8, BitMap, LogBuffer); buffers that still hold what
was in them before (LogBuffer, String8, BufferStream); rebalancing, rehashing
and moving (RBTree, HashMap, BufferStream).

## How the models read the code

**Steps.** Where threads meet, a step is one access to what they share: an atomic
operation, a section under a lock, a system call (SpinLock, SharedBuffer,
Thread, ThreadBase, Mutex, ConfigRWMutex, TimerManager, Singleton, LogManager,
FileLogWrite, LogConsole, and Map when it is used from several threads). Objects
the code does not share between threads change call by call (ByteBuffer,
BufferStream, String8, HashMap, BiMap, BitMap, RBTree, IniConfig, ConfigTrees,
and the database clients, whose servers and other clients act between two
calls). Atomics are sequentially consistent.

**Undefined behaviour** ends a behaviour: a state such as `pc = "undefined"` or
`"aborted"` (TimerManager), `misused` (Map, LogManager, HashMap, ByteBuffer,
Thread), `overrun`, `overread`, `crashed` (String8, BitMap) or the status `Crash`
(RedisClient) says that it was reached, and nothing happens after it. The
properties say when it is not reached, and by which call it is. Two cases go on,
as what they do to the data is what matters: bytes that lie behind logcat's
buffer join the stream (`Junk`), and a byte written to a shared block is seen by
all who are on it.

**Data** is what the properties tell apart: a character of a log line is the
number of its message, a byte a small number, a name a short sequence.

Variables commented "history" are not in the code; properties speak of the past
through them.

## Modules

- **SpinLock** has the atomic operations of `lock()`, `LockSlow()`, `try_lock()`
  and `unlock()`; **Lock** says what users of AutoLock rely on.
- **Mutex** is a robust mutex used through AutoLock and `trylock()`: a task may
  die at any step, the next one gets EOWNERDEAD and declares the state
  consistent. `trylock()` does not declare it, and the mutex is lost
  (`takenOver`).
- **Sem** computes the deadlines of `Sem::timedwait()` and
  `Condition::timedWait()` with a clock of a few steps per second, and what the
  kernel makes of them.
- **Thread**: the constructor waits for a semaphore that the new pthread posts
  before it has taken the name and the callback from the object; join, detach
  and the destructor race with it.
- **ThreadBase**: every access to `mThreadStatus`, `mExitStatus` and `mSem` by the
  owner and the worker. `Run` and `RunStatus` are two steps because the worker
  runs between `pthread_create` and the write of THREAD_RUNNING.
- **TimerManager**: a section under `mRWMutex` is one step; between sections the
  worker keeps `it`, `expireNow` (the clock that ListExpireTimer read) and
  `mExpireTimerVec`. Clients act at any moment, those of the callbacks included.
- **Singleton**: `Get` and `Reset` run under the mutex, the count changes outside
  of it; `Free` tests before it locks, and so does a handle's destructor.
- **SharedBuffer**: a handle is a String8 or ByteBuffer object, `buf` its pointer,
  `next` the buffer its operation has obtained; each access to `mRefs` is a step.
  **ValueStore** is the promise of copy-on-write. **Blocks** is the same storage
  with each operation in one step and an alloc() that fails, for **ByteBuffer**,
  **BufferStream** (the stream as a queue of what was written and not read) and
  **String8** (whose bytes behind the NUL matter).
- **RBTreeOps** is the tree as operators on a tree value; the code writes every
  case once per side, here the side is a parameter. **RBTree** is a client.
  **Map** goes through every access to the count of a shared tree.
  **Dictionaries** is what users expect of Map and HashMap: an action for each
  kind of call. Both modules take every call together with its action on the
  variable `dict`, so that insert() is compared with what insert() should do and
  not with any change; the properties say that `dict` is what the objects hold.
- **HashMap** keeps the buckets as sequences of nodes, the shared empty data and
  the walk of the iterators. **BiMap** keeps both indices and the storage.
  **BitMap** keeps the size of its block and `mCapacity`, which counts bits.
- **LogBuffer** is the thread's buffer as a function from cells to contents.
  **LogManager** walks the list of writers without the lock that changing it
  takes; the delete, the nullptr and the removal of the node (log_main.cpp:114-116)
  are steps of their own, and so are the test, the call and the `++` of the walk.
  push_back() is one step: a walk sees only the store that links the finished
  node. log_main.cpp:36 forbids adding a writer while the program logs; the model
  has it, as the code does not prevent it.
  **FileLogWrite** shares the number and the size of the file between
  processes, `table` is the descriptor table of each. **LogConsole** has the
  applications' sockets, their signal handler, logcat's poll loop and viewers.
  A recv() that fills gRecvBuf leaves no NUL in it: what append() takes from
  behind it is `Junk` (or nothing, or the read crashes, which is `Stop`). A recv()
  that fails closes the socket and keeps its number, after which no application
  is accepted (`"deaf"`); what logcat does when a viewer gets that number is left
  out. A send to a viewer may be short or fail, one viewer by one.
- **IniConfig** has the two maps of the parser and the file they are kept in;
  **ConfigTrees** the flattened maps of YamlReader and XmlConfig;
  **ConfigRWMutex** the test of the atomics, the wait, the change of the atomics
  and the notification in separate steps.
- **RedisClient** is the client with a server that other clients use and that
  goes away; a call that hands a null string or an integer to `%s` or to a String8
  ends the program (`Crashes`, and a null password in `Connect`). Errors are
  logged there, as they are unless gLevel was set above them. **MySqlConn** has the
  handle, the pending result and the names.

The **MC modules** put parts together that do not call each other: a run of them
checks one part at a time, which `part` chooses in the initial state, while the
others stay in theirs. So the state space is the sum and not the product.

## Runs

| Run | Shows | Bounds, and why they suffice |
|---|---|---|
| MCSync | SpinLock: exclusion, progress, refinement of Lock; Singleton: one instance, exact count; Mutex: recovery from deaths, waiters enter; Thread: no use after destruction, the owner returns; ThreadBase: permits and rounds, calls return; Sem: deadlines, timed waits end | 4 threads: two in each of two phases of LockSlow; 3 handles and 4 instances; 3 tasks, 2 deaths; 3 and 4 calls of the owners; a clock of 7 with 3 steps a second: sums below, at and above a second |
| MCSharedBuffer | counts, memory safety, copy-on-write as a refinement of ValueStore | 3 handles: one releases between the test and the fetch_sub of a second while a third shares; 4 buffers: one each and one more |
| MCTimerManager | life of a timer, order and times of the callbacks, each fires, the worker stops | 2 timers, clock to 4, delays 0 and 2, periods 0 and 1: equal and different deadlines, a timer due while another runs; an idle worker, one at work and one asleep when it is stopped |
| MCLogConfig | the logger part by part, IniConfig, ConfigTrees | file: 2 threads and a child at the limit; manager: one thread that logs, as walks share nothing but the list, and 4 writers, so that one is added after another went; console: 2 applications, one restart, a queue shorter than the messages, reads of 3 units, so that they end in the middle of a message and full; buffer: 4 cells, texts of 0 to 6; ini: a file with one key in two nodes and no key twice in a node, whose values are all compared, and one with a key twice and a bad line |
| MCStores | red-black tree, HashMap, BiMap, Redis, MySQL, ConfigRWMutex | tree: 10 keys: an insertion that recolours and goes on below a second red parent takes 8, an erasure that goes up past a black node that is not the root takes 10 (with 7 and 9 the trees of the faulty `RepairRedOnce` and `RepairBlackOnce`, which do not go on, are still in balance; with 8 and 10 they are not); walks on trees of up to 5 nodes; 2 objects each, 3 keys of which two share a bucket and another pair does so after a rehash; 2 databases, 2 values, a list of 2, a server with and without a password; 2 readers and 2 writers, 2 locks each |
| MCBufferStream | ByteBuffer and the stream on it | 2 objects, 2 blocks, items of 1 and 2 bytes, 4 calls between stream operations, writes through operator[] among them |
| MCContainers | Map, String8, BitMap | 3 Maps: two share while a third copies or leaves; 2 strings, texts shorter and longer than the smallest block; capacities that wrap at 16 |
| MCThreadBaseStop, MCTimerDelete, MCFileLogRotate, MCLogBufferTail, MCString8Capacity | the five findings | the smallest instance that shows it |

Deadlock is checked in MCSharedBuffer, where the system cannot stop. In the
others it may: tasks die, calls and clocks are bounded, and a behaviour ends
where memory was misused.

Symmetry is used only in runs without liveness properties.

**Fairness.** SpinLock: a thread that spins or holds the lock is scheduled; nobody
has to call. Mutex, Thread, ThreadBase: a call that was made goes on and a worker
is scheduled, dead tasks do not move. Sem: time passes for a waiter, and the
kernel returns from a call that can. TimerManager: the worker is scheduled, time
passes, a stopTimer() that has begun ends. LogConsole: logcat's loop goes on
while it is up. No fairness is assumed of clients, owners, servers, deaths,
failures or time-outs. TimerManager's clock stops at its bound, so its liveness
properties leave out a worker that sleeps beyond it (`ClockOut`).

### What the violation runs show

- **MCThreadBaseStop.** `run()` writes THREAD_RUNNING after `pthread_create`
  (thread.cpp:85). A worker that has finished its first round by then has set
  THREAD_WAITING; that is lost and `stop()` posts nothing, although each call
  waits until the worker rests, as test_thread.cc does.
- **MCTimerDelete.** `delTimer()` does not see a timer in `mExpireTimerVec`; one
  that recycles is put back after that.
- **MCFileLogRotate.** `CloseFile()` leaves the number in `*mFileDesc`, and
  `CreateNewFile()` takes the file for open and not full. Messages go to a closed
  descriptor, or to whatever file of the program got the number.
- **MCLogBufferTail.** The newline replaces the NUL, and the string runs on into an
  earlier, longer message of the thread.
- **MCString8Capacity.** `setTo()` on a shared block swaps the block and not
  `mCapacity`; a later `append()` writes behind the new one.

## Proofs

A proof module extends the modules it is about. Every proof goes the same way: an
inductive invariant made of named parts, the initial states have it, every action
keeps it (one step per action), the property follows from it, and PTL puts the
three together. The assumptions are hypotheses of the theorems or named ASSUMEs of
the modules; none of them bounds a constant from above.

| Module | For every ... | Theorems that state a property of a run | The invariant, and why it is needed |
|---|---|---|---|
| SyncProof | set of threads (`NoThread` not one of them) | `SpinLockInv` (Inv), `SpinLockImplements`: SpinLock refines Lock | exclusion alone is not inductive: the flag is set exactly while somebody holds it |
| | set of tasks, `Nobody` not one | `MutexIsSafe` (MutexSafe) | `WithinOwns`, `Depths`: who is inside owns the mutex and has a lock to undo for every count; `Declares`, `KnownOwner`: nobody gets in before the mutex is declared consistent, unless trylock() took over |
| | clock with `Second > 0`, timeouts in Nat | `SemIsSound` (DeadlinesSound) | `DeadlinesHandedOver`: a waiter is in the kernel with the deadline that the carry gives; the lemma `Seconds` on `\div` and `%` |
| | detach, join and destruction in any order | `ThreadIsSafe` (ThreadSafe) | `TidKnown`: mTid and mShouldJoin against the state of the pthread; `ObjectThere`, `IdWritten` |
| | number of calls of the owner | `ThreadBaseIsSafe` (BaseSafe) | permits are posts not yet waited for; `NoWorkerYet`, `StartedOnce`, `FlagStands`, `OneLateWrite` relate the status word to the places of owner and worker |
| | finite set of handles, number of instances | `SingletonIsSafe` (SingletonSafe) | held handles are no more than mRef, equal to it without assignments; `Current` |
| TimerManagerProof | number of timers, delays, periods and clock | `TimerIsSafe` (TimersSafe), `TimerIsOnTime` (TimersOnTime) | `KnownIds`, `VecInUse`; `HeldWasDue`: what the worker holds was due when it read the clock; `PermitsCounted`, `WokenByTimer`: a permit stands for a timer as long as none went away |
| SharedBufferProof | finite set of handles, any number of buffers | `SharedBufferInv` (Inv), `SharedBufferImplementsStore` (CopyOnWrite): SharedBuffer refines ValueStore; `SharedBufferOnlyWrites` (OnlyWritesChange) | the count of a buffer is that of its owners, the buffer an operation has obtained is its own (`NextPrivate`), so who sees a count of 1 is alone (`SoleOwner`); from memcpy() until release() has returned the new buffer has the data of the old one (`CopyIsThere`) |
| StoresProof | finite set of readers, other writers, number of locks | `ConfigLockIsSafe` (LockSafe) | the count is that of the readers between enter and leave; for those left asleep, a second invariant with a `Waker`: somebody is about to notify, or the sleeper began to wait after the lock was free |
| | set of columns | `MySqlIsSound` (MySqlSound) | `InitIsOpen`, `NamesFit` |
| | maps, keys, values, hash function and nodes; integer keys, `0` not a map | `BiMapIsSound` (BiMapsSound) | `IndexFits`: an index entry leads to a node of the object, and every node is found under its hash, until a call spoils the object; the pairs a step changes from `FewNodes`, `SamePairs`, `CopiedNodes`, `SwapHalf` |
| | documents of any length, any number of loads; a document is a sequence and not `Nothing` | `ConfigIsShown` (ConfigShown) | `FirstStays`: after every node of a document, what was in the map stays and a new key has its first value; that the maps after each node exist, and that they all do this, is shown by the least number for which it would fail |
| LogProof | threads, types of writers, events | `ManagerIsSound` (WritersSound) | `WalkInOrder`: what a walk has given its event to is in front of its iterator, what it still has to is at it or behind; `ListInOrder`: the list is in the order of creation with one writer of each type; `DyingIsListed`: the writer being deleted is in it until its node goes, so a walk that comes to it has not passed it, which `MisusedOnlyAfterDelete` needs |
| | buffer of at least one cell and two of room (log.cpp:14 has 8), length of messages | `BufferIsSound` (MessageWhole) | `OwnBuffer`: a buffer holds text of its thread only; `LastIsNul`: its last cell ends every string, until a malloc() failed |
| | finite set of writers, limit, number of messages | `FileLogIsSafe` (FileLogSafe) | `LimitKept`: the size and the writers past the test together stay within the limit and one message per writer; `FileThere`, `NoneYet`: the number stands for the file in every process that opened or inherited it |
| | applications (`"none"` not one), viewers, sizes of the queues and of a read, restarts, with full reads and reads that fail | `LogcatIsSound` (LogcatSound) | lanes: what logcat holds with the rest of the connection it reads, then the connections behind it. `OnTheWay`: the lanes are in the order of sending, behind what was shown; `OneOpen`: only the last connection of an application is open; until a stream is torn `WholeOnes`, `NoticeAhead` and `NoticeShown`; `SpoiltLanes`: junk and lost data leave the order as it is |
| BufferStreamProof | finite set of objects, blocks, byte strings, sizes | `BuffersCounted` (RefsCountOwners and SizesFit) | `BlocksFit`, `Good`: every block is counted by its owners and those references that were dropped without one, a free block has no bytes |
| | the same | `BuffersAreSound` (ByteBuffersSound), `StreamInOrder` (StreamIsFifo) | `ByteStep`: what a call on one object may do to the others, nothing unless it writes through `operator[]`, and then to those on its block; `Positions`: both are within the size, and what lies between them is what was written and not yet read |
| StringProof | finite set of strings, set of C strings, blocks, sizes | `StringsAreSound` (StringsSound): counted blocks, mCapacity, no overrun, other strings untouched, the assigned text | `FitsWith`: every block is counted by the strings on it, by the reference a call holds and has not given to its string yet, and the empty block by itself; `CapsFit`: mCapacity is one less than the block of a string unless it is `unsure`, the two cases the model marks (no memory, a shared block replaced); an overrun has such a string |
| BlocksProof | number of blocks, bytes | none of its own: what each operation of Blocks leaves, for the two above | |

The theorems without a property (`ThreadGivenUpOnce`, `ConditionDeadlineIs`,
`TimerNeverEarly` ...) are parts of the above, and most inductive invariants are
theorems of their own, so that later proofs can cite them.

Bounds such as `MaxBaseCalls`, `MaxLocks`, `MaxSends` and `MaxInstances` are
natural numbers of any size. What the theorems do not remove are the
abstractions: the limit of FileLogWrite holds until the first rotation (after it
MCFileLogRotate has its counterexample), a ThreadBase has one owner.

**Only model-checked**, and why:

- Liveness (progress of SpinLock, waiters of Mutex, Thread and ThreadBase calls that
  return, timers that fire, logcat's deliveries): it needs fairness and ENABLED,
  which the proof system does not reason about here.
- What rests on recursive definitions, folds or filters of sequences, whose values
  for every argument need an induction over data: the red-black tree and Map
  (RBTreeOps), RedisClient, IniConfig (the order of lines), the buckets and the walk
  of HashMap.
- BitMap, which counts its bits with a fold, and the searches of String8
  (`SearchesFind`, evaluated on every short text): an induction over data again.

## Where the code does something else than one would think

The models do what the code does. Where that is surprising, the properties
except it by name. None of these has a run of its own.

- **RBTree.** rbtree_api.h:24 says that a positive result of the comparison goes
  right; rbtree_insert goes right for a negative one (rbtree_api.cpp:47), and the
  callback of rbtree_search has the opposite sign (:147). rbtree_api.h:42 doubts
  that a walk survives an erasure; the comment at rbtree_api.cpp:123 is right.
- **Map.** `erase(iterator)` on a map that was copied after the iterator was got
  takes the node out of the tree of the others (map.h:260), mixing the pointers of
  two trees unless the node is a red leaf, and counts it in the new one; a write
  through such an iterator changes the others too. The model has both, and no call
  after them; `MapsAreDictionaries` excepts the maps on that tree (`crossed`). Two
  threads that drop their copies at once may leak the tree, or free it under a
  copy in progress.
- **HashMap.** Copying an empty one wraps the count of the shared empty data; a list
  of 18 pairs rehashes that shared data (hash.h:90) and later detaches write past
  the buckets (hash.cpp:161); `++` goes astray at an empty bucket (:322);
  `rehash` reads behind the end marker (:250); `erase` does not compile (:427).
- **BiMap.** `replaceValue` leaves the old value in the storage (bimap.h:171);
  an assignment keeps entries of the old index.
- **ByteBuffer, BufferStream.** `operator=` drops a reference; `operator[]` writes
  into a shared block, where all copies see it (buffer.cpp:120; the properties name
  it and say that nothing else does); the constructor from uint8_t tests the data()
  of a block that alloc() did not return and clears the bytes there
  (buffer.cpp:319), a misuse that ends the model; `insert` whose malloc fails has
  already grown the size (buffer.cpp:215); a write on a drained stream leaves the
  old bytes in front (buffer_stream.cpp:265); `>>` consumes before it throws.
- **String8.** `trim()` of a text whose only visible character is the first empties
  it (string8.cpp:639); `replaceAll`, `toLower` and `toUpper` write into a shared
  block; `= ""` keeps the old text (:591); `resize` and `left` read past the block
  (:675); `getBuffer` sets the capacity before alloc fails.
- **BitMap.** Copies give memcpy the number of bits; an assignment leaks the old
  block; the capacity becomes 0 for sizes within a byte of 2^32.
- **Singleton.** The assignment of a handle keeps the old reference, after which
  Reset() and Free() never work again.
- **Mutex.** `trylock()` after the death of an owner makes the mutex unusable
  (mutex.cpp:86, :138); **Sem::timedwait()** does not carry exactly a second (:274).
- **TimerManager.** stopTimer() of an idle worker does not end it but aborts the
  program: its own permit passes `mSignal.wait()`, the set is empty, and the assert
  of timer.cpp:227 fails. As it posts before it sets the flag (timer.cpp:138), a
  worker that runs out of timers between the two aborts as well, and so does one
  past its test of the flag. `StopEnds` therefore says two things: a worker that is
  at work or asleep over a timer when the flag is set ends by the flag and in no
  other way, and any other one does not stay where it is, but ends so, or by that
  assert with an empty set, or by reading a timer that was deleted. Elsewhere the
  assert fails when a permit outlives its timer; a timer with an earlier deadline
  does not shorten the sleep; delTimer() leaks the Timer; the destructor does not
  wait for the worker.
- **Logger.** A child forked before the first message writes to a number it has
  not opened; after the first rotation the file of a process that has not rotated
  is not bounded; a failed malloc puts the newline outside of g_buf or leaves it
  there; an event given to STDOUT after another writer has no colours; logcat
  serves one application at a time, takes one recv() for one message, reads behind
  its buffer when recv() has filled it (logcat.cc:305, :319), accepts nobody after
  a recv() that failed, and loops for ever on a byte from a viewer. A walk over the
  writers that comes to one between its delete and its nullptr uses freed memory
  (log_main.cpp:114), as does one whose node is removed; `MisusedOnlyAfterDelete`
  says that a walk which is past the writer, or begins after, does not.
- **IniConfig.** In `k=v` the character in front of `=` is dropped (IniConfig.cpp:110),
  operator[] and del() drop the last one of the node's name (:148, :177); operator[]
  throws on a name that begins with the dot; a key that two lines of a node name
  has its last value in one map and its first in the other (the only exception of
  `MapsAgreeWhenRead`, entry by entry).
  **ConfigTrees**: a reload of XmlConfig keeps old values; dotted names collide with
  nested ones.
- **ConfigRWMutex.** Writers are not exclusive, and a thread that tests before and
  sleeps after the lock is given up is left asleep.
- **Redis.** connect() after a failed authentication returns 0, and with its null
  default password it crashes (redis.cpp:109); push compares the length of the list
  with the number pushed, and where they differ, on any list that had elements,
  crashes as it logs the number with `%s` (:781, :826, :856, :901), having pushed;
  mget crashes on a key that is not a string (:360). listDeleteAll returns 0, not a
  negative number as redis.cpp:976 says of a failure, when its first question was
  not answered or not allowed (:985): `DeleteAllDeletes` and `BrokenStaysBroken`
  except that case by name. **MySQL**: mSqlInit stays true after the server has closed
  the connection; the names are changed before the statement's length is tested.

## Not modelled, and why

- Vendored code, which is most of the lines under src/: nlohmann json, jsoncpp,
  tinyxml2, yaml-cpp, catch, the digest implementations, the CRC tables. Parsers
  are external to ConfigTrees.
- Formatting, layout and conversions: LogFormat, the number conversions of
  String8, hex, base64, time strings.
- Wrappers without state of their own: files, call stack, call_once, RWMutex over
  pthread_rwlock, AES and RSA over OpenSSL; templates without run-time state:
  Any, reflection; JsonConfig, an alias; sqlite.cpp, which is empty.
- In the modelled parts: partial writes of FileLogWrite, the failure of
  pthread_create in ThreadBase, getNearTimer() and Timer's own methods (no caller
  reaches them through a manager), the eKeepStorage flag (no caller), the rows of
  MySqlRes, showKeys() (not implemented in the code), memory orders weaker than
  sequential consistency.
