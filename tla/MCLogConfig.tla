----------------------------- MODULE MCLogConfig -----------------------------
(***************************************************************************)
(* The steps of a message through the logger: the thread's buffer, the list *)
(* of writers, the file and the socket to logcat.  They meet in a text that *)
(* is handed on, so one run checks one of them at a time, the part chosen   *)
(* at the start, and the others keep their initial state.  So do the two    *)
(* kinds of configuration files that the run checks as well.               *)
(***************************************************************************)
EXTENDS FileLogWrite, LogBuffer, LogManager, LogConsole, ConfigTrees

CONSTANTS UserFiles, Arguments, IniValues, MaxValue, NotThere, NotRead      \* IniConfig

VARIABLES part,
          file, mConfigMap, mSourceMap, result, read, kept

iniVars == <<file, mConfigMap, mSourceMap, result, read, kept>>
loggingVars == <<part, vars, bufferVars, managerVars, consoleVars, iniVars, treesVars>>

IC == INSTANCE IniConfig

LoggingInit == /\ part \in {"FileLogWrite", "LogBuffer", "LogManager", "LogConsole", "Ini", "Trees"}
               /\ Init /\ BufferInit /\ ManagerInit /\ ConsoleInit
               /\ IC!IniInit /\ TreesInit

LoggingNext ==
    /\ UNCHANGED part
    /\ \/ /\ part = "FileLogWrite" /\ Next
          /\ UNCHANGED <<bufferVars, managerVars, consoleVars, iniVars, treesVars>>
       \/ /\ part = "LogBuffer" /\ BufferNext
          /\ UNCHANGED <<vars, managerVars, consoleVars, iniVars, treesVars>>
       \/ /\ part = "LogManager" /\ ManagerNext
          /\ UNCHANGED <<vars, bufferVars, consoleVars, iniVars, treesVars>>
       \/ /\ part = "LogConsole" /\ ConsoleNext
          /\ UNCHANGED <<vars, bufferVars, managerVars, iniVars, treesVars>>
       \/ /\ part = "Ini" /\ IC!IniNext
          /\ UNCHANGED <<vars, bufferVars, managerVars, consoleVars, treesVars>>
       \/ /\ part = "Trees" /\ TreesNext
          /\ UNCHANGED <<vars, bufferVars, managerVars, consoleVars, iniVars>>

\* Only LogConsole has properties that need fairness.
LoggingSpec == LoggingInit /\ [][LoggingNext]_loggingVars /\ ConsoleFairness

\* One file has a key in two nodes and no key twice in a node, so that all its
\* values are compared; the other has a pair without a blank in front of '=', a
\* key twice in a node, and a bad line.
APair(key, gap, rest) == [kind |-> "pair", key |-> key, gap |-> gap, rest |-> rest]
ANode(name) == [kind |-> "node", name |-> name]
TwoFiles == {<<APair(<<1>>, 1, <<0, 1>>), ANode(<<1, 1>>), APair(<<1>>, 1, <<0, 1, 1>>)>>,
             <<APair(<<1, 1>>, 0, <<1>>), APair(<<1>>, 1, <<0, 1, 1>>), ANode(<<1>>), [kind |-> "bad"]>>}
FewArguments == {[node |-> n, key |-> <<1>>, dot |-> TRUE] : n \in {<<>>, <<1>>, <<1, 1>>}}
                \cup {[node |-> <<>>, key |-> k, dot |-> FALSE] : k \in {<<>>, <<1>>}}

\* A value that comes back from a file a blank longer.
ShortValue == {<<1>>}

\* The same key on two ways, in both orders; a bad name; a document without either.
Tree(ways) == <<[path |-> <<<<1>>>>, value |-> 0]>> \o [i \in DOMAIN ways |-> [path |-> <<<<1>>>> \o ways[i], value |-> i]]
ThreeDocuments == {Tree(<< <<<<2>>>>, <<<<2>>, <<3>>>>, <<<<2, 3>>>> >>),
                   Tree(<< <<<<2, 3>>>>, <<<<2>>>>, <<<<2>>, <<9>>>>, <<<<2>>, <<3>>>> >>),
                   Tree(<< <<<<3>>>> >>)}

\* IniConfig: what is read, shown and kept is the same.
IniSound == IC!IniSound
=============================================================================
