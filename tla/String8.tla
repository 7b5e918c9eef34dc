------------------------------ MODULE String8 ------------------------------
(***************************************************************************)
(* String8 of utils/string8.cpp: a NUL-terminated string in a SharedBuffer  *)
(* that copies share.  The length is found by strlen() every time, so what  *)
(* is behind the NUL matters, and mCapacity has to be the size of the block *)
(* less 1: append() writes on the strength of it.                           *)
(***************************************************************************)
EXTENDS Blocks, SequencesExt

CONSTANTS Strings,      \* the String8 objects
          Chars,        \* the characters but NUL
          Space,        \* the one that is trimmed
          Texts,        \* the C strings the program passes, none empty
          DefaultLen,   \* DEFAULT_STRING_SIZE, 128 in the code
          MaxLen        \* MAXSIZE, 1 Mb in the code

NUL == 0

\* What the program passes are C strings: none has a NUL in it.
ASSUME StringsAssumption == /\ IsFiniteSet(Strings)
                            /\ Chars \subseteq Int \ {NUL}
                            /\ Texts \subseteq Seq(Chars) \ {<<>>}
                            /\ DefaultLen \in Nat /\ MaxLen \in Nat

Gone == -2              \* the object does not exist

VARIABLES heap,         \* the blocks
          str,          \* the objects: mString (a block, or None), mCapacity; unsure:
                        \* mCapacity was set without its block, when "memory"
                        \* was short, or the block without it, when it was "shared"
          overrun,      \* an object wrote behind the end of its block
          overread,     \* more characters were asked for than there are bytes
          crashed       \* a null pointer was followed

strVars == <<heap, str, overrun, overread, crashed>>

NoString == [buf |-> Gone, cap |-> 0, unsure |-> "no"]
NullString == [NoString EXCEPT !.buf = None]
EmptyString == [NoString EXCEPT !.buf = Empty]

StrInit == /\ heap = [b \in 0..MaxBlocks |->
                        IF b = Empty THEN [bytes |-> <<NUL>>, refs |-> 1] ELSE NoBlock]
           /\ str = [h \in Strings |-> NoString]
           /\ overrun = FALSE /\ overread = FALSE /\ crashed = FALSE

Alive(h) == str[h].buf # Gone
Owns(h) == str[h].buf >= Empty

-----------------------------------------------------------------------------
(* Bytes *)

Zeros(n) == [i \in 1..n |-> NUL]

\* strlen(), and the text; the models of overruns end before a NUL is lost.
CString(bytes) == IF NUL \in ToSet(bytes)
                    THEN SubSeq(bytes, 1, (CHOOSE n \in DOMAIN bytes : /\ bytes[n] = NUL
                                                                       /\ \A i \in 1..(n - 1) : bytes[i] # NUL) - 1)
                    ELSE bytes
TextOf(hp, o) == IF o.buf < Empty THEN <<>> ELSE CString(hp[o.buf].bytes)
Text(h) == TextOf(heap, str[h])

\* Written at a place; the block is as long as it was.
Written(bytes, at, data) == [i \in DOMAIN bytes |-> IF i \in (at + 1)..(at + Len(data)) THEN data[i - at] ELSE bytes[i]]

-----------------------------------------------------------------------------
(* Steps of the operations: the sets of [heap, obj, bad, null] they end in  *)

Outcome(hp, o) == [heap |-> hp, obj |-> o, bad |-> FALSE, null |-> FALSE]
LetGo(hp, o) == IF o.buf = None THEN hp ELSE Release(hp, o.buf)
At(o, b, cap) == [o EXCEPT !.buf = b, !.cap = cap, !.unsure = "no"]

\* getBuffer(): it throws when the text is too long, and when there is no memory,
\* after it has set mCapacity.  `then` says how an object goes on with the block.
GetBuffer(hp, o, n, Then(_, _, _)) ==
    LET cap == IF n < DefaultLen THEN DefaultLen ELSE n
    IN  IF n >= MaxLen THEN {Outcome(hp, o)}
        ELSE {IF r.block = None THEN Outcome(hp, [o EXCEPT !.cap = cap, !.unsure = IF o.buf = None THEN @ ELSE "memory"])
              ELSE Then(r.heap, r.block, cap) : r \in Alloc(hp, Zeros(cap + 1))}

\* detach(): it does not look at the result of editResize().
Detach(hp, o) ==
    IF o.buf = None THEN GetBuffer(hp, o, 0, LAMBDA hp2, b, cap : Outcome(hp2, At(o, b, cap)))
    ELSE IF hp[o.buf].refs = 1 THEN {Outcome(hp, o)}
    ELSE {IF r.block = None THEN [Outcome(hp, o) EXCEPT !.null = TRUE] ELSE Outcome(r.heap, At(o, r.block, o.cap))
            : r \in EditResize(hp, o.buf, o.cap + 1)}

\* Faulty variant: clear() writes into the block as it is.
ClearedShared(hp, o) == {Outcome([hp EXCEPT ![o.buf].bytes = Written(@, 0, Zeros(Len(CString(@))))], o)}

\* clear(): the text is overwritten with NULs, nothing behind it.
Cleared(hp, o) ==
    {IF d.null \/ d.obj.buf = None THEN d
     ELSE [d EXCEPT !.heap[d.obj.buf].bytes = Written(@, 0, Zeros(Len(CString(@))))] : d \in Detach(hp, o)}

\* n bytes written at a place, with what they overrun.
Writes(d, at, data) ==
    [d EXCEPT !.heap[d.obj.buf].bytes = Written(@, at, data),
              !.bad = at + Len(data) > Len(d.heap[d.obj.buf].bytes)]

\* allocFromUTF8(): a block of this size; the code does not survive a failure.
FromChars(hp, data) ==
    IF data = <<>> \/ Len(data) >= MaxLen
      THEN {Outcome(Acquire(hp, Empty), EmptyString)}
      ELSE {Outcome(r.heap, At(NoString, r.block, Len(data))) : r \in {a \in Alloc(hp, Append(data, NUL)) : a.block # None}}

\* setTo(): into a new block when the capacity is too small, into its own, or
\* instead of a shared one into a block of just this size: mCapacity stays.
SetTo(hp, o, t) ==
    CASE o.buf = None ->
           GetBuffer(hp, o, Len(t), LAMBDA hp2, b, cap : Writes(Outcome(hp2, At(o, b, cap)), 0, t))
      [] o.buf # None /\ o.cap < Len(t) ->
           GetBuffer(LetGo(hp, o), NullString, Len(t), LAMBDA hp2, b, cap : Writes(Outcome(hp2, At(o, b, cap)), 0, t))
      [] o.buf # None /\ o.cap >= Len(t) /\ hp[o.buf].refs = 1 ->
           {Writes(c, 0, t) : c \in Cleared(hp, o)}
      [] OTHER -> {Outcome(LetGo(f.heap, o), [o EXCEPT !.buf = f.obj.buf, !.unsure = IF f.obj.cap = o.cap \/ @ = "memory" THEN @ ELSE "shared"])
                     : f \in FromChars(hp, t)}

\* append(): in place while the text stays below mCapacity, else in a new block.
Appended(hp, o, t) ==
    LET len == Len(TextOf(hp, o))
    IN  IF len = 0 THEN SetTo(hp, o, t)
        ELSE IF len + Len(t) < o.cap
          THEN {IF d.null THEN d ELSE Writes(d, len, Append(t, NUL)) : d \in Detach(hp, o)}
          ELSE GetBuffer(hp, o, len + Len(t),
                 LAMBDA hp2, b, cap : Writes(Outcome(LetGo(hp2, o), At(o, b, cap)), 0, TextOf(hp, o) \o t))

\* appendFormat(), detached: the block grows when the capacity is too small.
Formatted(d, t) ==
    LET len == Len(TextOf(d.heap, d.obj))
    IN  IF d.null THEN {d}
        ELSE IF d.obj.cap >= len + Len(t) THEN {Writes(d, len, Append(t, NUL))}
        ELSE {IF r.block = None THEN d
              ELSE Writes(Outcome(r.heap, At(d.obj, r.block, len + Len(t))), len, Append(t, NUL))
                : r \in EditResize(d.heap, d.obj.buf, len + Len(t) + 1)}

-----------------------------------------------------------------------------
(* trim() and the like on the bytes of a string.  findNotChar() does not     *)
(* look at the first character when it searches for the last one.           *)

FirstNot(t) == SelectInSeq(t, LAMBDA c : c # Space)
LastNot(t) == LET n == SelectLastInSeq(t, LAMBDA c : c # Space) IN IF n = 1 THEN 0 ELSE n

Trim(bytes) == LET t == CString(bytes)
               IN  IF LastNot(t) = 0 THEN Written(bytes, 0, <<NUL>>)
                   ELSE Written(bytes, 0, Append(SubSeq(t, FirstNot(t), LastNot(t)), NUL))

TrimLeft(bytes) == LET t == CString(bytes)
                   IN  CASE FirstNot(t) = 0 -> Written(bytes, 0, <<NUL>>)
                         [] FirstNot(t) = 1 -> bytes
                         [] OTHER -> Written(bytes, 0, Append(SubSeq(t, FirstNot(t), Len(t)), NUL))

TrimRight(bytes) == LET t == CString(bytes)
                    IN  IF LastNot(t) # 0 /\ LastNot(t) = Len(t) THEN bytes
                        ELSE Written(bytes, LastNot(t), <<NUL>>)

\* Where a text is in another, from 1, or 0.
Occurrences(t, key) == {i \in 1..(Len(t) - Len(key) + 1) : SubSeq(t, i, i + Len(key) - 1) = key}
Find(t, key) == IF Occurrences(t, key) = {} THEN 0 ELSE CHOOSE i \in Occurrences(t, key) : \A j \in Occurrences(t, key) : i <= j

\* removeOne() until it finds nothing more.
RemoveAll(key, bytes) ==
    LET removed[n \in 0..Len(bytes)] ==
          IF n = 0 THEN bytes
          ELSE LET b == removed[n - 1]
                   t == CString(b)
                   i == Find(t, key)
               IN  IF i = 0 THEN b
                   ELSE Written(b, i - 1, Append(SubSeq(t, i + Len(key), Len(t)), NUL))
    IN  removed[Len(bytes)]

\* getNext(): how much of the first n characters is both their start and their end.
GetNext(key, n) == LET borders == {k \in 1..(n - 1) : SubSeq(key, 1, k) = SubSeq(key, n - k + 1, n)}
                   IN  Max(borders \cup {0})

\* kmp_strstr(), which gives the same as Find: after a partial match it moves on.
KmpStrstr(t, key) ==
    LET from[i \in 0..Len(t)] ==
          LET same == Len(LongestCommonPrefix({SubSeq(t, i + 1, Len(t)), key}))
          IN  CASE i = Len(t) -> 0
                [] i < Len(t) /\ same = Len(key) -> i + 1
                [] OTHER -> from[i + (IF same = 0 THEN 1 ELSE same - GetNext(key, same))]
    IN  from[0]

\* find_last_of(): both texts are searched reversed.
FindLastOf(t, key) == LET i == Find(Reverse(t), Reverse(key))
                      IN  IF i = 0 THEN 0 ELSE Len(t) - i - Len(key) + 2

Replaced(bytes, o, n) == LET len == Len(CString(bytes))
                         IN  [i \in DOMAIN bytes |-> IF i <= len /\ bytes[i] = o THEN n ELSE bytes[i]]

-----------------------------------------------------------------------------
(* The calls *)

Become(h, r) == /\ heap' = r.heap /\ str' = [str EXCEPT ![h] = r.obj]
                /\ overrun' = r.bad /\ crashed' = r.null
                /\ UNCHANGED overread

Construct(h) == ~ Alive(h) /\ Become(h, Outcome(Acquire(heap, Empty), EmptyString))

\* The constructor that throws leaves no object.
ConstructSize(h, n) ==
    /\ ~ Alive(h)
    /\ \E r \in GetBuffer(heap, NoString, n, LAMBDA hp, b, cap : Outcome(hp, At(NoString, b, cap))) :
          r.obj.buf # Gone /\ Become(h, r)

ConstructChars(h, t) == ~ Alive(h) /\ \E r \in FromChars(heap, t) : Become(h, r)

\* Of a String8 without a buffer there is no copy: it throws.
CopyConstruct(g, h) == /\ Owns(g) /\ ~ Alive(h)
                       /\ Become(h, Outcome(Acquire(heap, str[g].buf), str[g]))

Move(g, h) == /\ Owns(g) /\ ~ Alive(h)
              /\ heap' = Acquire(heap, Empty)
              /\ str' = [str EXCEPT ![h] = str[g], ![g] = EmptyString]
              /\ UNCHANGED <<overrun, overread, crashed>>

Destroy(h) == Alive(h) /\ Become(h, Outcome(LetGo(heap, str[h]), NoString))

\* operator=(const String8 &)
Assign(g, h) == /\ Alive(g) /\ Alive(h) /\ g # h
                /\ IF Owns(g) THEN Become(h, Outcome(Acquire(LetGo(heap, str[h]), str[g].buf), str[g]))
                   ELSE Become(h, [Outcome(LetGo(heap, str[h]), str[g]) EXCEPT !.null = TRUE])

MoveAssign(g, h) == /\ Alive(g) /\ Alive(h) /\ g # h
                    /\ str' = [str EXCEPT ![h] = str[g], ![g] = str[h]]
                    /\ UNCHANGED <<heap, overrun, overread, crashed>>

\* operator=(const char *)
AssignChars(h, t) == Alive(h) /\ \E r \in SetTo(heap, str[h], t) : Become(h, r)

AppendChars(h, t) == Alive(h) /\ \E r \in Appended(heap, str[h], t) : Become(h, r)

AppendFormat(h, t) == /\ Alive(h) /\ Len(Text(h)) + Len(t) <= MaxLen - 1
                      /\ \E d \in Detach(heap, str[h]) :
                            IF d.obj.buf = None THEN Become(h, d)
                            ELSE \E r \in Formatted(d, t) : Become(h, r)

Clear(h) == Alive(h) /\ \E r \in Cleared(heap, str[h]) : Become(h, r)

\* The calls that detach and then work on the text.
Edited(h, F(_)) == /\ Owns(h)
                   /\ \E d \in Detach(heap, str[h]) :
                         Become(h, IF d.null THEN d ELSE [d EXCEPT !.heap[d.obj.buf].bytes = F(@)])

TrimText(h) == Edited(h, Trim) \/ Edited(h, TrimLeft) \/ Edited(h, TrimRight)
RemoveText(h, key) == Edited(h, LAMBDA bytes : RemoveAll(key, bytes))

\* h[i] = c through operator[]; behind the capacity it gives the last NUL.
WriteChar(h, i, c) == i < str[h].cap /\ i <= Len(Text(h)) /\ Edited(h, LAMBDA bytes : Written(bytes, i, <<c>>))

\* replaceAll(), toLower() and toUpper() write where the text is.
ReplaceChars(h, o, n) == /\ Owns(h)
                       /\ heap' = [heap EXCEPT ![str[h].buf].bytes = Replaced(@, o, n)]
                       /\ UNCHANGED <<str, overrun, overread, crashed>>

\* resize(n), and left(n) where its result is assigned: n bytes are read,
\* whether the text and its block are as long or not.
Resize(h, n) ==
    /\ Owns(h)
    /\ LET bytes == heap[str[h].buf].bytes
           beyond == n > Len(bytes) /\ n < MaxLen
       IN  /\ overread' = beyond
           /\ \E f \in FromChars(heap, Resized(bytes, n, Junk)) :
                 /\ heap' = LetGo(f.heap, str[h])
                 /\ str' = [str EXCEPT ![h] = f.obj]
           /\ UNCHANGED <<overrun, crashed>>

StrNext ==
    /\ ~ overrun /\ ~ overread /\ ~ crashed
    /\ \E h \in Strings :
         \/ Construct(h) \/ Destroy(h) \/ Clear(h) \/ TrimText(h)
         \/ \E n \in 0..MaxLen : ConstructSize(h, n) \/ Resize(h, n)
         \/ \E t \in Texts : \/ ConstructChars(h, t) \/ AssignChars(h, t) \/ AppendChars(h, t)
                             \/ AppendFormat(h, t) \/ RemoveText(h, t)
         \/ \E i \in 0..(MaxLen - 1), c \in Chars : WriteChar(h, i, c)
         \/ \E o, n \in Chars : o # n /\ ReplaceChars(h, o, n)
         \/ \E g \in Strings : CopyConstruct(g, h) \/ Move(g, h) \/ Assign(g, h) \/ MoveAssign(g, h)

StrSpec == StrInit /\ [][StrNext]_strVars

-----------------------------------------------------------------------------
\* The references of a block are the objects on it: none is freed under a string
\* and none is left behind, when memory runs out in the middle of a call too.
StringsCounted == \A b \in 0..MaxBlocks :
    heap[b].refs = Cardinality({h \in Strings : str[h].buf = b}) + (IF b = Empty THEN 1 ELSE 0)

\* "The actual size of the memory less 1" (string8.h:138): what mCapacity is, as
\* long as there is memory.
CapacityIsSize == \A h \in Strings : Owns(h) /\ str[h].unsure # "memory" => Len(heap[str[h].buf].bytes) = str[h].cap + 1

\* That holds except after a text was assigned to a string that shares its block,
\* and after getBuffer() has failed.
CapacityIsSizeUnlessUnsure ==
    \A h \in Strings : Owns(h) /\ str[h].unsure = "no" => Len(heap[str[h].buf].bytes) = str[h].cap + 1

\* A string writes behind its block only when its mCapacity has been left wrong.
OverrunOnlyWhenUnsure == overrun => \E h \in Strings : str[h].unsure # "no"

\* Copy-on-write: a call changes the text of its own string and of no copy;
\* only replaceAll(), toLower() and toUpper() are seen in the copies, and the
\* move assignment changes two.
CopiesKeepText ==
    [][\A g, h \in Strings :
         g # h /\ Alive(g) /\ Alive(h) /\ Alive(g)' /\ Alive(h)' /\ Text(g)' # Text(g) /\ Text(h)' # Text(h) =>
           \/ overrun'
           \/ MoveAssign(g, h)
           \/ \E o, n \in Chars : ReplaceChars(h, o, n)]_strVars

\* The two searches find the first and the last place, in texts of every shape.
SearchesFind ==
    \A t \in SeqOf(Chars, MaxLen + 2), key \in SeqOf(Chars, MaxLen) \ {<<>>} :
        /\ KmpStrstr(t, key) = Find(t, key)
        /\ FindLastOf(t, key) = Max(Occurrences(t, key) \cup {0})

\* An assigned text is the text of the string afterwards, or the string has
\* none; but a text longer than the last one runs on into what a trim() or a
\* removeAll() has left behind the NUL.
AssignedIsText ==
    [][\A h \in Strings, t \in Texts :
         AssignChars(h, t) /\ str'[h].buf # None /\ ~ overrun' /\ str'[h].unsure = "no" =>
           \/ Text(h)' = t
           \/ \E i \in (Len(Text(h)) + 2)..Len(heap[str[h].buf].bytes) : heap[str[h].buf].bytes[i] # NUL]_strVars

\* Strings keep their texts and their blocks, but where their mCapacity is wrong.
StringsSound == /\ [](StringsCounted /\ CapacityIsSizeUnlessUnsure /\ OverrunOnlyWhenUnsure)
                /\ CopiesKeepText /\ AssignedIsText
=============================================================================
