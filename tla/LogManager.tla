----------------------------- MODULE LogManager -----------------------------
(***************************************************************************)
(* LogManager of log_main.cpp: the list of writers that every logged event  *)
(* goes through.  The threads walk the list without the mutex that adding   *)
(* and deleting writers take, so a walk meets a writer between its deletion *)
(* and the removal of its node; the end of the program deletes all of it.   *)
(* A writer is its number and stands for its node of the list too.  What a  *)
(* writer does with a message is FileLogWrite and LogConsole.               *)
(***************************************************************************)
EXTENDS Naturals, Sequences, FiniteSets, SequencesExt

CONSTANTS Loggers,          \* the threads that log
          MaxEvents,        \* bound: the events each of them logs
          MaxWriters        \* bound: the writers ever made

Types == {"STDOUT", "FILEOUT", "CONSOLEOUT"}

VARIABLES mLogWriteList,    \* the writers, by number
          type,             \* the type of each
          manager,          \* gLogManager: "live", "deleted" or "null"
          gEnableLogoutColor,
          dying,            \* the writer being deleted under the mutex, 0 when none is
          nulled,           \* whether its node already holds nullptr
          it,               \* the writer a logger is at, 0 when at the end
          walkAt,           \* "idle", "call", "look", "give", "next" or "ended"
          enableColor,      \* of its event
          asked,            \* history: enableColor when the event began
          seen,             \* history: the writers its event was given to
          first,            \* history: the list when it began
          events,           \* history: the events it logged
          plain,            \* history: STDOUT writers whose text lost its colours
          gone,             \* history: a writer was deleted that a walk had not passed
          misused           \* a deleted writer or manager was used

managerVars == <<mLogWriteList, type, manager, gEnableLogoutColor, dying, nulled, it, walkAt,
                 enableColor, asked, seen, first, events, plain, gone, misused>>
listVars == <<mLogWriteList, type, manager, gEnableLogoutColor, dying, nulled>>
eventVars == <<enableColor, asked, seen, first, events, plain>>
walkVars == <<it, walkAt, eventVars>>

ManagerInit == /\ mLogWriteList = <<1>> /\ type = <<"STDOUT">>
               /\ manager = "live" /\ gEnableLogoutColor = TRUE
               /\ dying = 0 /\ nulled = FALSE
               /\ it = [t \in Loggers |-> 0]
               /\ walkAt = [t \in Loggers |-> "idle"]
               /\ enableColor = [t \in Loggers |-> TRUE]
               /\ asked = [t \in Loggers |-> TRUE]
               /\ seen = [t \in Loggers |-> <<>>]
               /\ first = [t \in Loggers |-> {}]
               /\ events = [t \in Loggers |-> 0]
               /\ plain = {} /\ gone = FALSE /\ misused = FALSE

OfType(k) == {w \in Range(mLogWriteList) : type[w] = k}
-----------------------------------------------------------------------------
\* The writer after the n-th of the list, 0 behind the last.
Nth(n) == IF n \in DOMAIN mLogWriteList THEN mLogWriteList[n] ELSE 0

Following(t) == Nth(1 + CHOOSE i \in DOMAIN mLogWriteList : mLogWriteList[i] = it[t])

Linked(t) == it[t] \in Range(mLogWriteList)

\* log_write() takes the colours and finds a manager; once the program has ended
\* it finds none.
Log(t) == /\ walkAt[t] = "idle" /\ events[t] < MaxEvents /\ manager # "null"
          /\ events' = [events EXCEPT ![t] = @ + 1]
          /\ enableColor' = [enableColor EXCEPT ![t] = gEnableLogoutColor]
          /\ asked' = [asked EXCEPT ![t] = gEnableLogoutColor]
          /\ walkAt' = [walkAt EXCEPT ![t] = "call"]
          /\ UNCHANGED <<listVars, it, seen, first, plain, gone, misused>>

\* It calls it, whatever has become of it meanwhile.
Call(t) == /\ walkAt[t] = "call"
           /\ walkAt' = [walkAt EXCEPT ![t] = "look"]
           /\ it' = [it EXCEPT ![t] = Nth(1)]
           /\ first' = [first EXCEPT ![t] = Range(mLogWriteList)]
           /\ gone' = (gone \/ dying # 0)
           /\ misused' = (manager # "live")
           /\ UNCHANGED <<listVars, enableColor, asked, seen, events, plain>>

\* *it != nullptr
Look(t) == /\ walkAt[t] = "look" /\ it[t] # 0 /\ Linked(t)
           /\ walkAt' = [walkAt EXCEPT ![t] = IF it[t] = dying /\ nulled THEN "next" ELSE "give"]
           /\ UNCHANGED <<listVars, it, eventVars, gone, misused>>

\* The colours of the event, and the writer.
Give(t) == /\ walkAt[t] = "give" /\ Linked(t) /\ it[t] # dying
           /\ LET w == it[t]
                  color == enableColor[t] /\ type[w] = "STDOUT"
              IN /\ enableColor' = [enableColor EXCEPT ![t] = color]
                 /\ plain' = IF type[w] = "STDOUT" /\ asked[t] /\ ~color THEN plain \cup {w}
                             ELSE plain
                 /\ seen' = [seen EXCEPT ![t] = Append(@, w)]
           /\ walkAt' = [walkAt EXCEPT ![t] = "next"]
           /\ UNCHANGED <<listVars, it, asked, first, events, gone, misused>>

\* ++it
Step(t) == /\ walkAt[t] = "next" /\ Linked(t)
           /\ it' = [it EXCEPT ![t] = Following(t)]
           /\ walkAt' = [walkAt EXCEPT ![t] = "look"]
           /\ UNCHANGED <<listVars, eventVars, gone, misused>>

\* The node was removed, or the writer that the test still found was deleted, alone
\* or with the whole list: undefined.
UseDeleted(t) == /\ walkAt[t] \in {"look", "give", "next"} /\ it[t] # 0
                 /\ ~Linked(t) \/ (walkAt[t] = "give" /\ it[t] = dying)
                 /\ misused' = TRUE
                 /\ UNCHANGED <<listVars, walkVars, gone>>

\* it = end(): WriteLog() returns.
EndWalk(t) == /\ walkAt[t] = "look" /\ it[t] = 0
              /\ walkAt' = [walkAt EXCEPT ![t] = "ended"]
              /\ UNCHANGED <<listVars, it, eventVars, gone, misused>>

Return(t) == /\ walkAt[t] = "ended"
             /\ walkAt' = [walkAt EXCEPT ![t] = "idle"]
             /\ enableColor' = [enableColor EXCEPT ![t] = TRUE]
             /\ asked' = [asked EXCEPT ![t] = TRUE]
             /\ seen' = [seen EXCEPT ![t] = <<>>]
             /\ first' = [first EXCEPT ![t] = {}]
             /\ UNCHANGED <<listVars, it, events, plain, gone, misused>>
-----------------------------------------------------------------------------
EnableLogColor(flag) == /\ gEnableLogoutColor' = flag
                        /\ UNCHANGED <<mLogWriteList, type, manager, dying, nulled, walkVars, gone,
                                       misused>>

\* push_back of a writer unless the list has one of its type.  A walk sees the store
\* that links the finished node.  Under the mutex no node holds nullptr.
Put(w) == mLogWriteList \o <<w>>

AddTest(k) == OfType(k) = {}

AddLogWriteToList(k) == /\ manager = "live" /\ dying = 0 /\ Len(type) < MaxWriters
                        /\ AddTest(k)
                        /\ type' = Append(type, k)
                        /\ mLogWriteList' = Put(Len(type) + 1)
                        /\ UNCHANGED <<manager, gEnableLogoutColor, dying, nulled, walkVars, gone,
                                       misused>>

\* Faulty variant: erase(it, end()).
ErasedToEnd(n) == SubSeq(mLogWriteList, 1, n - 1)

\* erase(it)
Erased(n) == RemoveAt(mLogWriteList, n)

IsOfType(n, k) == type[mLogWriteList[n]] = k

\* A walk at w or before it, which w's deletion has not left behind.
NotPast(t, w) == walkAt[t] \in {"look", "give", "next"} /\ it[t] # 0 /\ it[t] <= w

\* The first writer of the type is deleted while its node still points to it.
DelLogWriteFromList(k) ==
    /\ manager = "live" /\ dying = 0
    /\ \E n \in DOMAIN mLogWriteList :
          /\ IsOfType(n, k) /\ \A i \in 1..(n - 1) : ~ IsOfType(i, k)
          /\ dying' = mLogWriteList[n]
          /\ gone' = (gone \/ \E t \in Loggers : NotPast(t, mLogWriteList[n]))
    /\ UNCHANGED <<mLogWriteList, type, manager, gEnableLogoutColor, nulled, walkVars, misused>>

\* *it = nullptr
SetNull == /\ manager = "live" /\ dying # 0 /\ ~nulled
           /\ nulled' = TRUE
           /\ UNCHANGED <<mLogWriteList, type, manager, gEnableLogoutColor, dying, walkVars, gone,
                          misused>>

\* The node is removed, and the mutex released.
EraseNode == /\ manager = "live" /\ dying # 0 /\ nulled
             /\ \E n \in DOMAIN mLogWriteList : /\ mLogWriteList[n] = dying
                                                /\ mLogWriteList' = Erased(n)
             /\ dying' = 0 /\ nulled' = FALSE
             /\ UNCHANGED <<type, manager, gEnableLogoutColor, walkVars, gone, misused>>

\* deleteInstance() at exit, in its two statements, without the mutex; other threads
\* may go on, and one that is deleting a writer then uses a deleted list.
DeleteManager == /\ manager = "live"
                 /\ manager' = "deleted" /\ mLogWriteList' = <<>>
                 /\ gone' = TRUE /\ misused' = (dying # 0)
                 /\ UNCHANGED <<type, gEnableLogoutColor, dying, nulled, walkVars>>
ForgetManager == /\ manager = "deleted"
                 /\ manager' = "null"
                 /\ UNCHANGED <<mLogWriteList, type, gEnableLogoutColor, dying, nulled, walkVars,
                                gone, misused>>

LoggerStep(t) == Log(t) \/ Call(t) \/ Look(t) \/ Give(t) \/ Step(t) \/ UseDeleted(t)
                    \/ EndWalk(t) \/ Return(t)
EditStep == \/ \E k \in Types : AddLogWriteToList(k) \/ DelLogWriteFromList(k)
            \/ SetNull
            \/ EraseNode

\* After a use of freed memory nothing is said any more.
ManagerNext == /\ ~misused
               /\ \/ \E t \in Loggers : LoggerStep(t)
                  \/ EditStep
                  \/ \E flag \in BOOLEAN : EnableLogColor(flag)
                  \/ DeleteManager
                  \/ ForgetManager

ManagerSpec == ManagerInit /\ [][ManagerNext]_managerVars
-----------------------------------------------------------------------------
\* An event that was logged is given, exactly once and in the order of the
\* list, to every writer that was in the list when it began and neither was
\* deleted since nor is being deleted, whatever was deleted in the meantime.
EachWriterOnce ==
    \A t \in Loggers : (walkAt[t] = "ended" /\ manager = "live") =>
        /\ first[t] \cap (Range(mLogWriteList) \ {dying}) \subseteq Range(seen[t])
        /\ \A i, j \in DOMAIN seen[t] : i < j => seen[t][i] < seen[t][j]

\* Walking without the mutex uses freed memory only where a writer was deleted that
\* a walk had still before it or was at, or the manager itself: a walk that is past
\* a writer, or begins behind the removal of its node, is not hurt by its deletion.
MisusedOnlyAfterDelete == misused => gone

\* The STDOUT writer of the constructor is given every event that began with colours
\* with them, although the writers of one event share and clear its colour flag.
FirstKeepsColours == 1 \notin plain

\* Two threads that add the same type leave one writer of it.
OneOfEachType == \A k \in Types : Cardinality(OfType(k)) <= 1

\* What remains true of the events when writers are deleted while they are given.
WritersSound == EachWriterOnce /\ MisusedOnlyAfterDelete /\ FirstKeepsColours /\ OneOfEachType
=============================================================================
