----------------------------- MODULE LogBuffer -----------------------------
(***************************************************************************)
(* eular::log_write: a message is formatted into the thread's g_buf, or    *)
(* into malloc()ed memory when it is long, and what is handed to the log   *)
(* writers is the text up to the first NUL.  g_buf is thread_local and is  *)
(* not cleared between two messages.                                       *)
(*                                                                         *)
(* A cell of a buffer holds NUL, NL or a character, and a character is     *)
(* known by the message it belongs to.                                     *)
(***************************************************************************)
EXTENDS Integers, Sequences, FiniteSets

CONSTANTS BufThreads,
          MSG_BUF_SIZE, EXPAND_SIZE,
          MaxLength,        \* bound: the longest message
          MaxTexts          \* bound: the messages of all threads

NUL == 0
NL == -1
Garbage == -2           \* what malloc() leaves

VARIABLES g_buf,        \* g_buf[t]: the cells 0..MSG_BUF_SIZE + EXPAND_SIZE - 1
          messages,     \* the messages so far: thread, length, final newline, whether
                        \* malloc() failed for it
          shown,        \* the text handed to the writers for the last one
          inBounds      \* history: no access was outside its buffer

bufferVars == <<g_buf, messages, shown, inBounds>>

BufferInit == /\ g_buf = [t \in BufThreads |-> [i \in 0..(MSG_BUF_SIZE + EXPAND_SIZE - 1) |-> NUL]]
              /\ messages = <<>>
              /\ shown = <<>>
              /\ inBounds = TRUE

-----------------------------------------------------------------------------
\* The cell i of message m of length n.
Char(m, n, nl, i) == IF nl /\ i = n - 1 THEN NL ELSE m

\* vsnprintf(out, outSize, ...) of message m.
Vsnprintf(out, outSize, m, n, nl) ==
    [i \in DOMAIN out |->
        IF i < n /\ i < outSize - 1 THEN Char(m, n, nl, i)
        ELSE IF i = outSize - 1 \/ (i = n /\ n < outSize) THEN NUL
        ELSE out[i]]

\* out[outSize - 1] = '\0', and '\n' behind the message: over its NUL.
Terminate(out, outSize, n) ==
    LET closed == [out EXCEPT ![outSize - 1] = NUL]
    IN  IF n > 0 /\ (n - 1 \notin DOMAIN out \/ closed[n - 1] # NL)
          THEN [i \in DOMAIN out |-> IF i = n THEN NL ELSE closed[i]]
          ELSE closed

\* Whether there is a NUL to end the string.
Ended(out) == \E k \in DOMAIN out : out[k] = NUL

\* The C string at the start of a buffer; what is read behind a buffer without
\* a NUL is left out.
CString(out) ==
    LET length == CHOOSE k \in 0..Cardinality(DOMAIN out) :
                      (k \in DOMAIN out => out[k] = NUL) /\ \A j \in 0..(k - 1) : out[j] # NUL
    IN  [i \in 1..length |-> out[i - 1]]

Fresh(n) == [i \in 0..(n + EXPAND_SIZE - 1) |-> Garbage]

\* Faulty variant: one buffer for all threads.
BufferOfProcess(t) == CHOOSE u \in BufThreads : TRUE

\* g_buf is thread_local.
BufferOf(t) == t

Format(t, n, nl, out, outSize, own) ==
    LET m == Len(messages) + 1
        result == Terminate(Vsnprintf(out, outSize, m, n, nl), outSize, n)
    IN  /\ messages' = Append(messages, [thread |-> t, length |-> n, newline |-> nl,
                                         failed |-> n > MSG_BUF_SIZE /\ ~ own])
        /\ shown' = CString(result)
        /\ inBounds' = (inBounds /\ Ended(result) /\ (n > 0 => n - 1 \in DOMAIN out)
                        /\ (n > 0 /\ ~ nl => n \in DOMAIN out))
        /\ g_buf' = IF own THEN g_buf ELSE [g_buf EXCEPT ![BufferOf(t)] = result]

\* A message that fits, or for which malloc() has failed.
LogInBuffer(t, n, nl) == Format(t, n, nl, g_buf[BufferOf(t)], MSG_BUF_SIZE, FALSE)

\* A long message, in memory of its own.
LogInMemory(t, n, nl) ==
    /\ n > MSG_BUF_SIZE
    /\ Format(t, n, nl, Fresh(n), n, TRUE)

BufferNext == /\ Len(messages) < MaxTexts
              /\ \E t \in BufThreads, n \in 0..MaxLength, nl \in BOOLEAN :
                    /\ nl => n > 0
                    /\ LogInBuffer(t, n, nl) \/ LogInMemory(t, n, nl)

BufferSpec == BufferInit /\ [][BufferNext]_bufferVars

-----------------------------------------------------------------------------
Latest == messages[Len(messages)]

\* The message comes first and whole: a message loses its last character only
\* when it needs all of its buffer, and its tail when there was no memory for it.
Complete ==
    messages # <<>> =>
        LET kept == IF Latest.failed THEN MSG_BUF_SIZE - 1
                    ELSE IF Latest.length < MSG_BUF_SIZE THEN Latest.length ELSE Latest.length - 1
        IN  /\ Len(shown) >= kept
            /\ \A i \in 1..kept : shown[i] = Char(Len(messages), Latest.length, Latest.newline, i - 1)

\* A thread never logs text of another thread.
NoForeignText ==
    \A i \in 1..Len(shown) :
        shown[i] \notin {NUL, NL} =>
            shown[i] \in 1..Len(messages) /\ messages[shown[i]].thread = Latest.thread

\* Every access stays inside the buffer it was made for, unless malloc() has
\* failed: then the newline goes where the whole message would have ended, which
\* is outside of g_buf, or inside and there for good: with enough of them no NUL
\* is left to end a later message.
InBounds == inBounds \/ \E m \in DOMAIN messages : messages[m].failed

\* A message is handed on whole, and nothing but messages of its thread.
MessageWhole == Complete /\ NoForeignText /\ InBounds

\* The room of EXPAND_SIZE is "for \n \0" (log.cpp:14): after the newline the
\* text ends, so nothing of an earlier message is logged.
OwnTextOnly == \A i \in 1..Len(shown) : shown[i] \in {NL, Len(messages)}
=============================================================================
