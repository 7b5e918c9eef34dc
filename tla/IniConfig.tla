----------------------------- MODULE IniConfig -----------------------------
(***************************************************************************)
(* IniConfig of config/IniConfig.cpp: the parser fills two maps, value()    *)
(* reads one, operator[] changes and keep() writes the other, del() deletes *)
(* from both.  Texts are sequences of characters; a line is a node, a pair  *)
(* or a bad one that makes the parser throw; comments and blank lines are   *)
(* left out.  keep() writes no more than 511 characters of a line: lines    *)
(* are shorter here.                                                       *)
(***************************************************************************)
EXTENDS Integers, FiniteSets, SequencesExt

CONSTANTS UserFiles,        \* the files that users write, sequences of lines
          Arguments,        \* [node, key, dot] of the calls; without a dot all is key
          IniValues,        \* the values assigned
          MaxValue,         \* bound: characters of a value that is written
          NotThere, NotRead

Blank == 0
Global == <<>>

VARIABLES file,             \* the lines of the file, or NotThere
          mConfigMap,       \* <<node, key>> to value
          mSourceMap,       \* node to key to value
          result,           \* how the last call ended
          read,             \* the lines parsed, or NotRead when the maps were changed since
          kept              \* the mSourceMap that keep() wrote, or NotRead when users did

iniVars == <<file, mConfigMap, mSourceMap, result, read, kept>>

NoEntries == [x \in {} |-> <<>>]

IniInit == /\ file = NotThere
           /\ mConfigMap = NoEntries /\ mSourceMap = NoEntries
           /\ result = "none" /\ read = NotRead /\ kept = NotRead

-----------------------------------------------------------------------------
(* Texts and lines *)

Visible(t) == {i \in DOMAIN t : t[i] # Blank}
Lowest(S) == CHOOSE i \in S : \A j \in S : i <= j
Highest(S) == CHOOSE i \in S : \A j \in S : j <= i

\* trim(): a text with one visible character is not trimmed.
Trim(t) == IF Cardinality(Visible(t)) = 0 \/ Lowest(Visible(t)) = Highest(Visible(t)) THEN t
           ELSE SubSeq(t, Lowest(Visible(t)), Highest(Visible(t)))

\* A pair as it is in the file: the key, blanks, '=', and the rest.
Pair(key, gap, rest) == [kind |-> "pair", key |-> key, gap |-> gap, rest |-> rest]
Node(name) == [kind |-> "node", name |-> name]
Bad == [kind |-> "bad"]

\* What trim() of the whole line leaves at its ends.
RightTrimmed(t) == IF Visible(t) = {} THEN <<>> ELSE SubSeq(t, 1, Highest(Visible(t)))
TrimLine(l) == [l EXCEPT !.gap = IF l.key = <<>> THEN 0 ELSE @, !.rest = RightTrimmed(@)]

\* A line of which '=' is the only visible character is skipped.
Skipped(l) == l.key = <<>> /\ Visible(l.rest) = {}

\* The characters before '=' but the last, which keep() makes a blank; there may
\* be none to leave out.
KeyText(l) == Trim(Front(l.key \o [i \in 1..l.gap |-> Blank]))
HasKeyText(l) == l.key # <<>> \/ l.gap > 0

-----------------------------------------------------------------------------
(* parser() *)

Put(f, k, v) == [x \in DOMAIN f \cup {k} |-> IF x = k THEN v ELSE f[x]]
PutFirst(f, k, v) == IF k \in DOMAIN f THEN f ELSE Put(f, k, v)
EntriesOf(m, node) == IF node \in DOMAIN m THEN m[node] ELSE NoEntries

\* Faulty variant: the value is moved into the first map.
StoreMoved(s, k, v) == [s EXCEPT !.config = Put(@, <<s.node, k>>, v),
                                 !.source = Put(@, s.node, PutFirst(EntriesOf(@, s.node), k, <<>>))]

\* The last value of a key is kept in one map, the first in the other.
Store(s, k, v) == [s EXCEPT !.config = Put(@, <<s.node, k>>, v),
                            !.source = Put(@, s.node, PutFirst(EntriesOf(@, s.node), k, v))]

ParseLine(s, line) ==
    IF s.threw THEN s
    ELSE CASE line.kind = "node" -> [s EXCEPT !.node = Trim(line.name)]
           [] line.kind = "bad" -> [s EXCEPT !.threw = TRUE]
           [] OTHER -> LET l == TrimLine(line)
                       IN  IF Skipped(l) THEN s
                           ELSE IF ~ HasKeyText(l) THEN [s EXCEPT !.threw = TRUE]
                           ELSE Store(s, KeyText(l), Trim(l.rest))

Parsed(lines) ==
    FoldLeft(ParseLine, [node |-> Global, config |-> NoEntries, source |-> NoEntries, threw |-> FALSE], lines)

\* The stream is not closed, whatever happens.
Parse == /\ IF file = NotThere
              THEN /\ mConfigMap' = NoEntries /\ mSourceMap' = NoEntries
                   /\ result' = "false" /\ read' = NotRead
              ELSE /\ mConfigMap' = Parsed(file).config /\ mSourceMap' = Parsed(file).source
                   /\ result' = (IF Parsed(file).threw THEN "threw" ELSE "true")
                   /\ read' = file
         /\ UNCHANGED <<file, kept>>

-----------------------------------------------------------------------------
(* operator[], del(), keep() *)

\* The name that operator[] and del() make of the node: its last character is
\* left out.  A dot in front of everything makes operator[] throw; del() has
\* looked for the whole name before that, and no entry begins with a dot.
NodeOf(a) == IF a.dot THEN Front(a.node) ELSE Global
Nameless(a) == a.dot /\ a.node = <<>>

Subscript(a, v) ==
    /\ IF Nameless(a) THEN result' = "threw" /\ UNCHANGED <<mSourceMap, read>>
       ELSE /\ mSourceMap' = Put(mSourceMap, NodeOf(a), Put(EntriesOf(mSourceMap, NodeOf(a)), a.key, v))
            /\ result' = "true" /\ read' = NotRead
    /\ UNCHANGED <<file, mConfigMap, kept>>

\* A name that is not there is no error.
Del(a) ==
    LET full == <<IF a.dot THEN a.node ELSE Global, a.key>>
    IN  /\ IF Nameless(a) \/ full \notin DOMAIN mConfigMap THEN UNCHANGED <<mConfigMap, mSourceMap, read>>
           ELSE /\ mConfigMap' = [e \in DOMAIN mConfigMap \ {full} |-> mConfigMap[e]]
                /\ mSourceMap' = IF NodeOf(a) \notin DOMAIN mSourceMap THEN mSourceMap
                                 ELSE [mSourceMap EXCEPT ![NodeOf(a)] = [k \in DOMAIN @ \ {a.key} |-> @[k]]]
                /\ read' = NotRead
        /\ result' = "true"
        /\ UNCHANGED <<file, kept>>

\* "%s = %s"
LineOf(key, value) == Pair(key, 1, <<Blank>> \o value)

LinesOf(entries) == LET keys == SetToSeq(DOMAIN entries)
                    IN  [i \in DOMAIN keys |-> LineOf(keys[i], entries[keys[i]])]
Lines(m) == LET nodes == SetToSeq(DOMAIN m \ {Global})
            IN  LinesOf(EntriesOf(m, Global))
                \o FlattenSeq([i \in DOMAIN nodes |-> <<Node(nodes[i])>> \o LinesOf(m[nodes[i]])])

\* The function ends without a return when the file was written.
Keep == /\ \A n \in DOMAIN mSourceMap : \A k \in DOMAIN mSourceMap[n] : Len(mSourceMap[n][k]) <= MaxValue
        /\ \/ /\ file' = Lines(mSourceMap) /\ kept' = mSourceMap
              /\ result' \in {"true", "false"}
           \/ result' = "false" /\ UNCHANGED <<file, kept>>
        /\ UNCHANGED <<mConfigMap, mSourceMap, read>>

\* External: somebody writes the file, or removes it.
Rewrite(f) == /\ file' = f /\ kept' = NotRead
              /\ UNCHANGED <<mConfigMap, mSourceMap, result, read>>

IniNext == \/ Parse \/ Keep
           \/ \E a \in Arguments : Del(a) \/ \E v \in IniValues : Subscript(a, v)
           \/ \E f \in UserFiles \cup {NotThere} : Rewrite(f)

IniSpec == IniInit /\ [][IniNext]_iniVars

-----------------------------------------------------------------------------
\* The node and the key that a line of the file is about.
NodeAt(lines, i) == LET nodes == {j \in 1..i : lines[j].kind = "node"}
                    IN  IF nodes = {} THEN Global ELSE Trim(lines[Highest(nodes)].name)
Names(lines, i) == lines[i].kind = "pair" /\ HasKeyText(TrimLine(lines[i]))
EntryAt(lines, i) == <<NodeAt(lines, i), KeyText(TrimLine(lines[i]))>>
LinesOn(lines, e) == {i \in DOMAIN lines : Names(lines, i) /\ EntryAt(lines, i) = e}

\* The maps have the same entries, and each the value of its line, unless two
\* lines of the file name the same key in the same node.
MapsAsRead ==
    /\ DOMAIN mConfigMap = UNION {{<<n, k>> : k \in DOMAIN mSourceMap[n]} : n \in DOMAIN mSourceMap}
    /\ \A e \in DOMAIN mConfigMap :
          \/ Cardinality(LinesOn(read, e)) > 1
          \/ \A i \in LinesOn(read, e) : /\ mConfigMap[e] = Trim(TrimLine(read[i]).rest)
                                         /\ mSourceMap[e[1]][e[2]] = mConfigMap[e]

\* What value() gives is what keep() would write, right after parsing: the same
\* entries, and each with the same value, that of its line, unless two lines of
\* the file name the same key in the same node.  A parser that threw leaves both
\* maps at the same line.
MapsAgreeWhenRead == [][read' # NotRead => MapsAsRead']_iniVars

\* How a value comes back after keep() and parser(): a blank longer if it has
\* one visible character.
ComesBack(v) == Trim(RightTrimmed(<<Blank>> \o v))

\* What keep() has written comes back when it is parsed, but for nodes without
\* pairs; only an empty key makes the parser throw, or vanishes with its value.
KeptComesBack ==
    [][Parse /\ kept # NotRead =>
        IF \E n \in DOMAIN kept : <<>> \in DOMAIN kept[n] /\ Visible(kept[n][<<>>]) # {}
          THEN result' = "threw"
          ELSE /\ result' = "true"
               /\ mSourceMap' = [n \in {m \in DOMAIN kept : DOMAIN kept[m] \ {<<>>} # {}} |->
                                   [k \in DOMAIN kept[n] \ {<<>>} |-> ComesBack(kept[n][k])]]]_iniVars

\* What is read, what is shown and what is kept are the same configuration.
IniSound == MapsAgreeWhenRead /\ KeptComesBack
=============================================================================
