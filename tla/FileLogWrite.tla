---------------------------- MODULE FileLogWrite ----------------------------
(***************************************************************************)
(* eular::FileLogWrite: the log file shared by the threads of a process    *)
(* and, through MAP_SHARED memory, by a parent and the child it forks.     *)
(* The descriptor number and the file size are in the shared memory; what  *)
(* a number means is in each process's descriptor table.                   *)
(*                                                                         *)
(* WriteToFile() takes the ProcessMutex twice: for maintainFile() and for  *)
(* the write.  Each of the two sections is one step.  A message counts as  *)
(* one unit of size.                                                       *)
(***************************************************************************)
EXTENDS Integers, FiniteSets

CONSTANTS Threads,          \* the threads of the parent
          Child,            \* the thread of the child
          MAX_FILE_SIZE,    \* in messages
          MaxMessages,      \* bound: messages each thread writes
          MaxSecond         \* bound: the clock, in seconds

ASSUME FileLogAssumption ==
    /\ MAX_FILE_SIZE \in Nat \ {0}
    /\ MaxMessages \in Nat /\ MaxSecond \in Nat
    /\ IsFiniteSet(Threads) /\ Child \notin Threads

Procs == {"parent", "child"}
Writers == Threads \cup {Child}
ProcOf(w) == IF w = Child THEN "child" ELSE "parent"
Messages == Writers \X (1..MaxMessages)
Fds == 3..5                 \* the numbers open() may return; 3 is the first free
Closed == -1                \* an unused entry of a descriptor table
Foreign == -2               \* a file or socket of the rest of the program

VARIABLES second,           \* the clock, as far as getFileName() shows it
          forked,
          mFileDesc, mFileSize,
          table,            \* table[p][fd]: Closed, Foreign or a log file
          size,             \* size[f]: the messages in log file f
          pc,               \* what each writer is about to do
          sent,             \* history: messages per writer for which WriteToFile ran
          lost,             \* history: messages that reached no log file
          sharers,          \* history: the processes that opened or inherited the file
          rotated,          \* history: maintainFile() has closed a full file
          openFailed        \* history: an open() has failed

history == <<sharers, rotated, openFailed>>
vars == <<second, forked, mFileDesc, mFileSize, table, size, pc, sent, lost, history>>

\* getFileName() has a resolution of a second: a log file is known by it.
Files == 0..MaxSecond

Init == /\ second = 0
        /\ forked = FALSE
        /\ mFileDesc = 0
        /\ mFileSize = 0
        /\ table = [p \in Procs |-> [fd \in Fds |-> Closed]]
        /\ size = [f \in Files |-> 0]
        /\ pc = [w \in Writers |-> "idle"]
        /\ sent = [w \in Writers |-> 0]
        /\ lost = {}
        /\ sharers = {}
        /\ rotated = FALSE
        /\ openFailed = FALSE

\* open() returns the lowest free number.
LowestFree(t) == CHOOSE fd \in Fds : /\ t[fd] = Closed
                                     /\ \A e \in Fds : t[e] = Closed => fd <= e

HasFree(t) == \E fd \in Fds : t[fd] = Closed

-----------------------------------------------------------------------------
(* The rest of the program: it forks, and opens a file or a socket *)

\* The child begins with a copy of the parent's descriptors.
Fork ==
    /\ ~ forked
    /\ forked' = TRUE
    /\ table' = [table EXCEPT !["child"] = table["parent"]]
    /\ sharers' = IF "parent" \in sharers THEN Procs ELSE sharers
    /\ UNCHANGED <<second, mFileDesc, mFileSize, size, pc, sent, lost, rotated, openFailed>>

ForeignOpen(p) ==
    /\ p = "child" => forked
    /\ HasFree(table[p])
    /\ table' = [table EXCEPT ![p][LowestFree(table[p])] = Foreign]
    /\ UNCHANGED <<second, forked, mFileDesc, mFileSize, size, pc, sent, lost, history>>

Tick == /\ second < MaxSecond
        /\ second' = second + 1
        /\ UNCHANGED <<forked, mFileDesc, mFileSize, table, size, pc, sent, lost, history>>

-----------------------------------------------------------------------------
(* The section of maintainFile() *)

\* There is no file, or it is full.
Due == mFileDesc <= 0 \/ mFileSize > MAX_FILE_SIZE

Enter(w) == /\ w = Child => forked
            /\ pc[w] = "idle"
            /\ sent[w] < MaxMessages
            /\ pc' = [pc EXCEPT ![w] = "write"]
            /\ UNCHANGED <<second, forked, size, sent, lost>>

MaintainNothing(w) ==
    /\ Enter(w)
    /\ ~ Due
    /\ UNCHANGED <<mFileDesc, mFileSize, table, history>>

\* CloseFile() and CreateNewFile() with no file open: open() with O_APPEND.
MaintainOpen(w) ==
    LET p == ProcOf(w) IN
    /\ Enter(w)
    /\ mFileDesc <= 0
    /\ HasFree(table[p])
    /\ mFileDesc' = LowestFree(table[p])
    /\ table' = [table EXCEPT ![p][LowestFree(table[p])] = second]
    /\ mFileSize' = 0
    /\ sharers' = {p}
    /\ UNCHANGED <<rotated, openFailed>>

\* Mkdir() or open() fails: the number stays what it was or becomes -1.
MaintainOpenFails(w) ==
    /\ Enter(w)
    /\ mFileDesc <= 0
    /\ mFileDesc' \in {mFileDesc, -1}
    /\ mFileSize' = 0
    /\ openFailed' = TRUE
    /\ UNCHANGED <<table, sharers, rotated>>

\* Faulty variant: the limit is never looked at.
MaintainNeverFull(w) ==
    /\ Enter(w)
    /\ mFileDesc > 0 /\ mFileSize > MAX_FILE_SIZE
    /\ UNCHANGED <<mFileDesc, mFileSize, table, history>>

\* A full file: CloseFile() closes the number and sets the size to 0, but the
\* number stays in *mFileDesc; CreateNewFile() therefore takes the file for
\* open and not full, and returns.
MaintainFull(w) ==
    /\ Enter(w)
    /\ mFileDesc > 0 /\ mFileSize > MAX_FILE_SIZE
    /\ table' = [table EXCEPT ![ProcOf(w)][mFileDesc] = Closed]
    /\ mFileSize' = 0
    /\ rotated' = TRUE
    /\ UNCHANGED <<mFileDesc, sharers, openFailed>>

-----------------------------------------------------------------------------
(* The section with the write *)

\* What the number means in this process.  0 is the standard input, which may
\* or may not be writable.
Targets(w) == CASE mFileDesc \in Fds -> {table[ProcOf(w)][mFileDesc]}
                [] mFileDesc = 0     -> {Foreign, Closed}
                [] OTHER             -> {Closed}

WriteStep(w) == /\ pc[w] = "write"
                /\ pc' = [pc EXCEPT ![w] = "idle"]
                /\ sent' = [sent EXCEPT ![w] = @ + 1]
                /\ UNCHANGED <<second, forked, mFileDesc, table, history>>

WriteLogFile(w) == /\ WriteStep(w)
                   /\ \E f \in Targets(w) \cap Files : size' = [size EXCEPT ![f] = @ + 1]
                   /\ mFileSize' = mFileSize + 1
                   /\ UNCHANGED lost

\* The number means another file of the program: the message goes there.
WriteForeign(w) == /\ WriteStep(w)
                   /\ Foreign \in Targets(w)
                   /\ mFileSize' = mFileSize + 1
                   /\ lost' = lost \cup {<<w, sent[w] + 1>>}
                   /\ UNCHANGED size

\* EBADF: perror("write error"), and the message is gone.
WriteBadFd(w) == /\ WriteStep(w)
                 /\ Closed \in Targets(w)
                 /\ lost' = lost \cup {<<w, sent[w] + 1>>}
                 /\ UNCHANGED <<size, mFileSize>>

-----------------------------------------------------------------------------
WriteToFile(w) == \/ MaintainNothing(w) \/ MaintainOpen(w) \/ MaintainOpenFails(w)
                  \/ MaintainFull(w) \/ WriteLogFile(w) \/ WriteForeign(w) \/ WriteBadFd(w)

Next == \/ \E w \in Writers : WriteToFile(w)
        \/ \E p \in Procs : ForeignOpen(p)
        \/ Fork
        \/ Tick

Spec == Init /\ [][Next]_vars

-----------------------------------------------------------------------------
TypeOK == /\ second \in 0..MaxSecond
          /\ forked \in BOOLEAN
          /\ mFileDesc \in Fds \cup {-1, 0}
          /\ mFileSize \in Nat
          /\ table \in [Procs -> [Fds -> Files \cup {Closed, Foreign}]]
          /\ size \in [Files -> Nat]
          /\ pc \in [Writers -> {"idle", "write"}]
          /\ sent \in [Writers -> 0..MaxMessages]
          /\ lost \in SUBSET Messages
          /\ sharers \in SUBSET Procs
          /\ rotated \in BOOLEAN /\ openFailed \in BOOLEAN

\* "one file' max size is 5mb" (log_write.h:29): the test is before the write
\* and in another section, so a file outgrows the limit by at most one message
\* of each writer.  That ends with the first rotation: the size it sets to 0 is
\* shared, and a process that has not rotated goes on with the full file.
FileBounded == ~ rotated =>
    \A f \in Files : size[f] <= MAX_FILE_SIZE + Cardinality(Writers)

\* A message is lost in three ways only: the file could not be opened, it was
\* full, or the writer's process has neither opened nor inherited the file
\* whose number is in the shared memory.
LostOnlyAfterFailure == \A m \in lost : \/ rotated \/ openFailed
                                        \/ ProcOf(m[1]) \notin sharers

\* The file keeps the messages and its limit, until something has failed or rotated.
FileLogSafe == TypeOK /\ FileBounded /\ LostOnlyAfterFailure

\* "one file' max size is 5mb" (log_write.h:29): the limit is one of the file,
\* and a full file is no reason to lose the messages that follow.
RotationLosesNothing == \A m \in lost : openFailed \/ ProcOf(m[1]) \notin sharers
=============================================================================
