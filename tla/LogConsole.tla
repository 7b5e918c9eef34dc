----------------------------- MODULE LogConsole -----------------------------
(***************************************************************************)
(* The console of the log: the ConsoleLogWrite of each application          *)
(* (log_write.cpp) sends its messages through a local stream socket to       *)
(* logcat (logcat.cc), which serves one application at a time and forwards  *)
(* to the viewers connected by TCP.  A message is sent as two units, the    *)
(* second of which has the separator, so that a send can be cut between     *)
(* them; the applications have the same parent and so the same socket path. *)
(***************************************************************************)
EXTENDS Integers, Sequences, FiniteSets, SequencesExt

CONSTANTS Apps, Viewers,
          MaxSends,         \* bound: the messages of an application
          MaxQueue,         \* the units a socket holds
          MaxRead,          \* the units a recv() takes: RECV_BUFFER_SIZE
          MaxBacklog,       \* the connections the server socket keeps
          MaxRestarts,      \* bound: how often logcat is started again
          MaxSignals        \* bound: the applications that a signal ends

ASSUME ConsoleAssumption == "none" \notin Apps /\ MaxQueue \in Int /\ MaxRead \in Nat

None == [app |-> "none", n |-> 0]
Notice(a) == [app |-> a, n |-> 0]
Units(m) == <<[msg |-> m, last |-> FALSE], [msg |-> m, last |-> TRUE]>>
Text == [msg |-> None, last |-> FALSE]      \* what signalHandler() writes
Junk == [msg |-> None, last |-> FALSE]      \* what lies in memory behind gRecvBuf
Cut == [app |-> "none", n |-> -1]           \* the begin of a message, for a viewer

VARIABLES fd,           \* mClientFd of each application is open
          at, written,  \* where it is, and how many messages it wrote
          bound,        \* the path of the clients' socket exists
          conns,        \* the connections: the served one, then the backlog
          server,       \* "up", "down", "stuck" or "deaf"
          serving,      \* gLocalClientSocket is the first connection
          jsonContent, gJsonNotice,
          out,          \* what each viewer got, Offline before it connects
          restarts,
          accepted, forwarded,  \* history: messages the socket took, and logcat sent on
          torn          \* history: a stream has ended or gone on inside a message, logcat
                        \* read behind its buffer, or a recv() failed

consoleVars == <<fd, at, written, bound, conns, server, serving, jsonContent, gJsonNotice, out,
                 restarts, accepted, forwarded, torn>>
appVars == <<fd, at, written, bound>>
serverVars == <<server, serving, jsonContent, gJsonNotice, out, restarts, forwarded>>

Offline == <<None>>

ConsoleInit == /\ fd = [a \in Apps |-> FALSE]
               /\ at = [a \in Apps |-> "idle"]
               /\ written = [a \in Apps |-> 0]
               /\ bound = FALSE /\ conns = <<>>
               /\ server = "up" /\ serving = FALSE
               /\ jsonContent = <<>> /\ gJsonNotice = None
               /\ out = [v \in Viewers |-> Offline]
               /\ restarts = 0 /\ accepted = {} /\ forwarded = {} /\ torn = FALSE

-----------------------------------------------------------------------------
(* ConsoleLogWrite *)

Goto(a, l) == at' = [at EXCEPT ![a] = l]
Upto(s, n) == SubSeq(s, 1, IF n < Len(s) THEN n ELSE Len(s))
Mine(a) == {i \in DOMAIN conns : conns[i].app = a /\ ~ conns[i].closed}

\* WriteToFile(): takes mMutex.
Write(a) == /\ at[a] = "idle" /\ written[a] < MaxSends
            /\ Goto(a, "init")
            /\ written' = [written EXCEPT ![a] = @ + 1]
            /\ UNCHANGED <<fd, bound, conns, serverVars, accepted, torn>>

\* Destroy(): the path goes whoever it belongs to.
Destroyed(a) == /\ fd' = [fd EXCEPT ![a] = FALSE]
                /\ bound' = FALSE
                /\ conns' = [i \in DOMAIN conns |->
                               IF i \in Mine(a) THEN [conns[i] EXCEPT !.closed = TRUE] ELSE conns[i]]

\* InitParams(): bind(), connect(), and the notice.  Any failure ends in
\* Destroy(), also that of bind() where another application has the path.
InitParams(a, next) ==
    /\ Goto(a, next)
    /\ IF fd[a] THEN UNCHANGED <<fd, bound, conns>>
       ELSE IF bound \/ server = "down" \/ Len(conns) > MaxBacklog THEN Destroyed(a)
       ELSE /\ fd' = [fd EXCEPT ![a] = TRUE] /\ bound' = TRUE
            /\ conns' = Append(conns, [app |-> a, data |-> Units(Notice(a)), closed |-> FALSE])

Init1(a) == /\ at[a] = "init"
            /\ InitParams(a, "send")
            /\ UNCHANGED <<written, serverVars, accepted, torn>>

\* send(): the socket takes what it has room for.  When it takes nothing, or
\* logcat is gone, the connection is given up and the message with it; what a
\* short send left over is not sent later.
Send(a, units) ==
    CASE ~ fd[a] -> UNCHANGED <<fd, bound, conns, accepted, torn>>
      [] fd[a] /\ Mine(a) = {} -> Destroyed(a) /\ UNCHANGED <<accepted, torn>>
      [] OTHER ->
           LET i == CHOOSE j \in Mine(a) : TRUE
               taken == Upto(units, MaxQueue - Len(conns[i].data))
           IN  IF taken = <<>> THEN Destroyed(a) /\ UNCHANGED <<accepted, torn>>
               ELSE /\ conns' = [conns EXCEPT ![i].data = @ \o taken]
                    /\ accepted' = accepted \cup {u.msg : u \in {x \in ToSet(taken) : x.last}}
                    /\ torn' = (torn \/ ~ Last(taken).last)
                    /\ UNCHANGED <<fd, bound>>

SendMessage(a) == /\ at[a] = "send"
                  /\ Goto(a, "idle")
                  /\ Send(a, Units([app |-> a, n |-> written[a]]))
                  /\ UNCHANGED <<written, serverVars>>

\* A signal: its handler writes text, not a message.  In a thread that is in
\* WriteToFile() it waits for the mutex of that thread.
Signal(a) == /\ Cardinality({b \in Apps : at[b] \notin {"idle", "init", "send"}}) < MaxSignals
             /\ \/ at[a] = "idle" /\ Goto(a, "handlerInit")
                \/ at[a] \in {"init", "send"} /\ Goto(a, "deadlocked")
             /\ UNCHANGED <<fd, written, bound, conns, serverVars, accepted, torn>>

HandlerInit(a) == /\ at[a] = "handlerInit"
                  /\ InitParams(a, "handlerSend")
                  /\ UNCHANGED <<written, serverVars, accepted, torn>>

HandlerSend(a) == /\ at[a] = "handlerSend"
                  /\ Goto(a, "exit")
                  /\ Send(a, <<Text>>)
                  /\ UNCHANGED <<written, serverVars>>

Exit(a) == /\ at[a] = "exit"
           /\ Goto(a, "exited")
           /\ Destroyed(a)
           /\ UNCHANGED <<written, serverVars, accepted, torn>>

-----------------------------------------------------------------------------
(* logcat *)

Accept == /\ server = "up" /\ ~ serving /\ conns # <<>>
          /\ serving' = TRUE
          /\ UNCHANGED <<appVars, conns, server, jsonContent, gJsonNotice, out, restarts, accepted,
                         forwarded, torn>>

Ends(units) == {i \in DOMAIN units : units[i].last}
FirstEnd(units) == CHOOSE i \in Ends(units) : \A j \in Ends(units) : i <= j

\* What JSON can parse: one whole message.
Parses(units) == Len(units) = 2 /\ units = Units(units[1].msg)

\* What a viewer has got after a send(), which does not block: all of the message,
\* its begin, or nothing.  A connection that is still empty has room for a notice.
Sent(got, m, taken) == CASE got = Offline                -> Offline
                         [] got = <<>> /\ m.n = 0        -> <<m>>
                         [] OTHER                        ->
                              CASE taken = "all"  -> Append(got, m)
                                [] taken = "part" -> Append(got, Cut)
                                [] taken = "none" -> got

\* OnLocalSocketReadEvent(): a message that parses is sent to every viewer.
Forward(message) ==
    LET m == message[1].msg
    IN  IF ~ Parses(message) THEN UNCHANGED <<gJsonNotice, out, forwarded>>
        ELSE /\ gJsonNotice' = IF m.n = 0 THEN m ELSE gJsonNotice
             /\ \E taken \in [Viewers -> {"all", "part", "none"}] :
                   out' = [v \in Viewers |-> Sent(out[v], m, taken[v])]
             /\ forwarded' = forwarded \cup {m}

Unfinished(units) == /\ Ends(units) = {}
                     /\ jsonContent' = units
                     /\ UNCHANGED <<gJsonNotice, out, forwarded>>

\* Faulty variant: the bytes after the separator are thrown away.
ReceivedAlone(units) == \/ Unfinished(units)
                        \/ /\ Ends(units) # {}
                           /\ jsonContent' = <<>>
                           /\ Forward(Upto(units, FirstEnd(units)))

\* The first whole message in the content is taken out and forwarded; those
\* behind it stay for the next recv().
Received(units) == \/ Unfinished(units)
                   \/ /\ Ends(units) # {}
                      /\ jsonContent' = SubSeq(units, FirstEnd(units) + 1, Len(units))
                      /\ Forward(Upto(units, FirstEnd(units)))

\* A recv() that fills gRecvBuf leaves no NUL in it, and append() then takes what
\* follows in memory as well, up to the first NUL there.
Recv == /\ server = "up" /\ serving /\ conns[1].data # <<>>
        /\ LET got == Upto(conns[1].data, MaxRead)
           IN  \/ /\ Received(jsonContent \o got)
                  /\ UNCHANGED torn
               \/ /\ Len(got) = MaxRead
                  /\ Received(jsonContent \o got \o <<Junk>>)
                  /\ torn' = TRUE
        /\ conns' = [conns EXCEPT ![1].data = SubSeq(@, MaxRead + 1, Len(@))]
        /\ UNCHANGED <<appVars, server, serving, restarts, accepted>>

\* recv() fails: the socket is closed with what it still holds.  Unless the same
\* event says that the application is gone, gLocalClientSocket keeps its number, so
\* that no application is accepted any more, and a viewer that gets the number is
\* taken for one; what logcat does then is left out.
RecvFails == /\ server = "up" /\ serving
             /\ \/ server' = "deaf"
                \/ conns[1].closed /\ UNCHANGED server
             /\ conns' = Tail(conns) /\ serving' = FALSE /\ torn' = TRUE
             /\ UNCHANGED <<appVars, jsonContent, gJsonNotice, out, restarts, accepted, forwarded>>

\* Faulty variant: the next application is accepted only after a restart.
HangUpKept == /\ server = "up" /\ serving
              /\ conns[1].data = <<>> /\ conns[1].closed
              /\ UNCHANGED consoleVars

\* EPOLLHUP.  What is in jsonContent stays there.
HangUp == /\ server = "up" /\ serving
          /\ conns[1].data = <<>> /\ conns[1].closed
          /\ conns' = Tail(conns) /\ serving' = FALSE
          /\ UNCHANGED <<appVars, server, jsonContent, gJsonNotice, out, restarts, accepted, forwarded, torn>>

\* A viewer is given the notice that is known.
Connect(v) == /\ server = "up" /\ out[v] = Offline
              /\ out' = [out EXCEPT ![v] = IF gJsonNotice = None THEN <<>> ELSE <<gJsonNotice>>]
              /\ UNCHANGED <<appVars, conns, server, serving, jsonContent, gJsonNotice, restarts,
                             accepted, forwarded, torn>>

Disconnect(v) == /\ server = "up" /\ out[v] # Offline
                 /\ out' = [out EXCEPT ![v] = Offline]
                 /\ UNCHANGED <<appVars, conns, server, serving, jsonContent, gJsonNotice, restarts,
                                accepted, forwarded, torn>>

\* A byte from a viewer is looked at with MSG_PEEK again and again.
ViewerTalks(v) == /\ server = "up" /\ out[v] # Offline
                  /\ server' = "stuck"
                  /\ UNCHANGED <<appVars, conns, serving, jsonContent, gJsonNotice, out, restarts,
                                 accepted, forwarded, torn>>

\* logcat ends, by catch_signal() or otherwise, and is started again.
Stop == /\ server # "down" /\ restarts < MaxRestarts
        /\ server' = "down" /\ serving' = FALSE
        /\ conns' = <<>> /\ jsonContent' = <<>> /\ gJsonNotice' = None
        /\ out' = [v \in Viewers |-> Offline]
        /\ UNCHANGED <<appVars, restarts, accepted, forwarded, torn>>

Restart == /\ server = "down"
           /\ server' = "up" /\ restarts' = restarts + 1
           /\ UNCHANGED <<appVars, conns, serving, jsonContent, gJsonNotice, out, accepted, forwarded, torn>>

AppStep(a) == Init1(a) \/ SendMessage(a) \/ HandlerInit(a) \/ HandlerSend(a) \/ Exit(a)
ServerStep == Accept \/ Recv \/ HangUp

ConsoleNext == \/ \E a \in Apps : Write(a) \/ Signal(a) \/ AppStep(a)
               \/ ServerStep \/ RecvFails \/ Stop \/ Restart
               \/ \E v \in Viewers : Connect(v) \/ Disconnect(v) \/ ViewerTalks(v)

\* logcat goes on as long as it is up.
ConsoleFairness == WF_consoleVars(ServerStep)

ConsoleSpec == ConsoleInit /\ [][ConsoleNext]_consoleVars /\ ConsoleFairness

-----------------------------------------------------------------------------
(* Properties *)

\* A message the socket took is on its way or was forwarded, through other
\* applications' messages, reconnections and the bytes that recv() splits,
\* unless a stream broke off inside a message, which takes the next message
\* with it, a recv() filled gRecvBuf and what lies behind it came in between,
\* a recv() failed, or logcat was restarted.
AcceptedKept ==
    ~ torn /\ restarts = 0 /\ server # "down" =>
        \A m \in accepted : \/ m \in forwarded
                            \/ m \in {u.msg : u \in ToSet(jsonContent)}
                            \/ \E i \in DOMAIN conns : m \in {u.msg : u \in ToSet(conns[i].data)}

\* A viewer gets the messages of an application in their order, each at most
\* once, whatever is lost or cut, also when the application connects again
\* while logcat still reads from its old connection.
InOrder == \A v \in Viewers : \A i, j \in DOMAIN out[v] :
              i < j /\ out[v][i].app = out[v][j].app /\ out[v][j].n > 0 => out[v][i].n < out[v][j].n

\* The first that a viewer gets is the notice, which explains the levels, and
\* it gets it whole, whichever of the two connects first, however often logcat
\* is restarted and however slow the viewer reads; unless the notice was lost
\* in one of the ways that AcceptedKept excepts.
NoticeFirst == ~ torn => \A v \in Viewers : out[v] # <<>> => out[v][1].n = 0

\* Connections their applications have closed are read to their end and make
\* room for one that is open, as long as logcat runs and is neither stuck nor
\* deaf; an open one holds up those behind it.
ClosedIsDrained == (conns # <<>> /\ conns[1].closed)
                       ~> (server # "up" \/ conns = <<>> \/ ~ conns[1].closed)

\* Viewers get what the applications said, in order and explained.
LogcatSound == AcceptedKept /\ InOrder /\ NoticeFirst
=============================================================================
