---------------------------- MODULE BufferStream ----------------------------
(***************************************************************************)
(* BufferStream of buffer_stream.cpp over a ByteBuffer: << appends at       *)
(* m_wpos and >> reads from m_rpos; what was read is dropped from the       *)
(* buffer when there is no room.  While a stream is on an object the        *)
(* program changes it through the stream only, but may copy it.             *)
(***************************************************************************)
EXTENDS ByteBuffer

CONSTANTS MaxCalls      \* bound: the calls on the buffers themselves

VARIABLES stream,       \* the object it is on, m_rpos and m_wpos
          pending,      \* the bytes written and not read yet
          lapsed,       \* "memory": a write() found none; "stale": a write() left
                        \* bytes that were read before
          calls         \* the calls on the buffers themselves

streamVars == <<stream, pending, lapsed>>
vars == <<byteVars, streamVars, calls>>

NoStream == [on |-> None, rpos |-> 0, wpos |-> 0]

StreamInit == stream = NoStream /\ pending = <<>> /\ lapsed = "no"
Init == ByteInit /\ StreamInit /\ calls = 0

Streaming == ~ misused /\ stream.on # None

\* BufferStream(ByteBuffer &): what the buffer has can be read.
Attach(h) == /\ ~ misused /\ stream.on = None
             /\ Alive(h) /\ ~ obj[h].shrunk
             /\ stream' = [on |-> h, rpos |-> 0, wpos |-> obj[h].size]
             /\ pending' = Contents(h)
             /\ lapsed' = "no"
             /\ UNCHANGED byteVars

Detach == /\ Streaming
          /\ stream' = NoStream
          /\ pending' = <<>>
          /\ lapsed' = "no"
          /\ UNCHANGED byteVars

\* The bytes of the block from one position up to another.
Between(h, from, to) == LET block == heap[obj[h].buf].bytes
                        IN  [i \in 1..(to - from) |->
                               IF from + i <= Len(block) THEN block[from + i] ELSE Junk]

\* The results of moving the unread bytes to the front.  set() does nothing
\* when there are none, and leaves the buffer its size.
Compacted == LET h == stream.on
             IN  SetBytes(heap, obj[h], Between(h, stream.rpos, stream.wpos), 0, obj[h].buf)

\* The buffer as it is.
Standing == [heap |-> heap, obj |-> obj[stream.on], ret |-> 0, bad |-> FALSE]

NeedsCompaction(n) == stream.rpos # 0 /\ stream.wpos + n > obj[stream.on].cap

\* The data goes to the end of the buffer, wherever m_wpos is; m_wpos advances
\* even if append() could not get the memory.
Appended(c, rpos, wpos, data, stale) ==
    \E r \in SetBytes(c.heap, c.obj, data, c.obj.size, None) :
        /\ Become(stream.on, [r EXCEPT !.bad = c.bad, !.ret = Junk])
        /\ stream' = [stream EXCEPT !.rpos = rpos, !.wpos = wpos + Len(data)]
        /\ lapsed' = IF r.ret = 0 \/ lapsed = "memory" THEN "memory"
                     ELSE IF stale THEN "stale" ELSE lapsed
        /\ pending' = IF lapsed' = "memory" THEN <<>> ELSE pending \o data

\* Faulty variant: the positions stay where they were in the longer buffer.
WriteUnmoved(data) ==
    /\ Streaming
    /\ LET unread == stream.wpos - stream.rpos
       IN  /\ Fits(stream.on, data)
           /\ \E c \in IF NeedsCompaction(Len(data)) THEN Compacted ELSE {Standing} :
                 Appended(c, stream.rpos, stream.wpos, data, c.ret = 0 /\ unread = 0)

\* write(): when the memory for the compaction is missing it throws and nothing
\* has changed.
Write(data) ==
    /\ Streaming
    /\ Fits(stream.on, data) /\ stream.wpos + Len(data) <= MaxSize
    /\ LET unread == stream.wpos - stream.rpos
       IN  IF NeedsCompaction(Len(data))
           THEN \E c \in Compacted : /\ c.ret = unread
                                     /\ Appended(c, 0, unread, data, unread = 0)
           ELSE Appended(Standing, stream.rpos, stream.wpos, data, FALSE)

Advance(n) == /\ stream' = [stream EXCEPT !.rpos = @ + n]
              /\ pending' = SubSeq(pending, n + 1, Len(pending))
              /\ UNCHANGED <<byteVars, lapsed>>

\* read(): all of the bytes asked for, or none.
Read(n) == Streaming /\ stream.rpos + n <= stream.wpos /\ Advance(n)

\* operator>>(std::string &): up to the next NUL; without one it has read
\* everything before it throws.
ReadString ==
    /\ Streaming
    /\ LET unread == Between(stream.on, stream.rpos, stream.wpos)
           ends == {i \in DOMAIN unread : unread[i] = 0}
       IN  Advance(IF ends = {} THEN Len(unread) ELSE CHOOSE i \in ends : \A j \in ends : i <= j)

StreamNext == \/ \E h \in Objects : Attach(h)
              \/ Detach
              \/ \E data \in Items : Write(data) \/ Read(Len(data))
              \/ ReadString

\* A byte written through operator[] of a copy of the stream's buffer that is on
\* the same block is a byte of the stream from then on.
WriteBeside(h, i, byte) ==
    /\ OperateElement(h, i, byte)
    /\ pending' = IF /\ stream.on # None /\ obj[h].buf = obj[stream.on].buf
                     /\ i - stream.rpos \in DOMAIN pending
                  THEN [pending EXCEPT ![i - stream.rpos] = byte] ELSE pending
    /\ UNCHANGED <<stream, lapsed>>

BufferNext == \/ \E h \in Objects \ {stream.on} : Operate(h)
              \/ \E g, h \in Objects \ {stream.on} : OperateBoth(g, h)

Next == \/ StreamNext /\ UNCHANGED calls
        \/ calls < MaxCalls /\ calls' = calls + 1 /\ BufferNext /\ UNCHANGED streamVars
        \/ /\ calls < MaxCalls /\ calls' = calls + 1
           /\ \E h \in Objects \ {stream.on}, i \in 1..MaxSize, data \in Items :
                 WriteBeside(h, i, data[1])

Spec == Init /\ [][Next]_vars

-----------------------------------------------------------------------------
(* Properties *)

\* What can be read is what was written and not read, in that order, and the
\* buffer ends where the stream does: through growth, compaction, and copies
\* of the buffer made and changed in between.  It is lost when append() found
\* no memory, or when write() compacted a buffer with nothing unread.  Only
\* operator[] of a copy on the same block reaches the bytes in the stream, those
\* it is written to and no others.
StreamIsFifo == stream.on # None /\ lapsed = "no" =>
                    /\ Between(stream.on, stream.rpos, stream.wpos) = pending
                    /\ stream.wpos = obj[stream.on].size

FreedReadStep ==
    ~ misused /\ misused' =>
        \/ lapsed = "memory"
        \/ \E h \in Objects, data \in Items : ConstructBytes(h, data)
        \/ \E h \in Objects : /\ Alive(h)
                              /\ heap[obj[h].buf].refs = 1
                              /\ obj'[h].size = 2 * obj[h].size

\* set() and append() may be given bytes of a block that the call itself gives
\* up: a stream compacting its buffer, an object appended to one it shares with.
\* They are read after that only where a sole owner is appended to itself, and
\* by a stream whose m_wpos is past the end since a write() found no memory.
\* Bytes are written outside a block only by the constructor from uint8_t, when
\* alloc() has failed (buffer.cpp:319).
FreedReadOnlyByItself == [][FreedReadStep]_vars

\* Buffers that share blocks behave as if each had its own.
ByteBuffersSound == /\ [](ByteTypeOK /\ SizesFit /\ RefsCountOwners)
                    /\ OthersKeep /\ FailureLosesNothing /\ FreedReadOnlyByItself
=============================================================================
