------------------------------ MODULE LogProof ------------------------------
(***************************************************************************)
(* The way of a message through the logger, for any threads and bounds.     *)
(* LogManager: the walk without the mutex gives an event once to every      *)
(* writer that stays.  LogBuffer: for buffers of any size a message is      *)
(* handed on whole and without the text of other threads.  FileLogWrite:    *)
(* how large the log file gets, and how a message can be lost.  LogConsole: *)
(* for any applications and viewers, what logcat shows is in order, and     *)
(* nothing a socket took is lost, unless a stream was torn or logcat        *)
(* restarted.                                                              *)
(***************************************************************************)
EXTENDS LogManager, LogBuffer, FileLogWrite, LogConsole,
        FiniteSetTheorems, SequenceTheorems, WellFoundedInduction, TLAPS

Increasing(s) == \A i, j \in 1..Len(s) : i < j => s[i] < s[j]

Numbers == 1..Len(type)

ManagerKinds ==
    /\ mLogWriteList \in Seq(Nat) /\ type \in Seq(Types)
    /\ manager \in {"live", "deleted", "null"} /\ gEnableLogoutColor \in BOOLEAN
    /\ dying \in Nat /\ nulled \in BOOLEAN
    /\ it \in [Loggers -> Nat]
    /\ walkAt \in [Loggers -> {"idle", "call", "look", "give", "next", "ended"}]
    /\ enableColor \in [Loggers -> BOOLEAN] /\ asked \in [Loggers -> BOOLEAN]
    /\ seen \in [Loggers -> Seq(Nat)]
    /\ first \in [Loggers -> SUBSET Nat]
    /\ plain \in SUBSET Nat
    /\ gone \in BOOLEAN /\ misused \in BOOLEAN

\* Writers are numbered in the order of the list, and no two have the same type.
ListInOrder == /\ Increasing(mLogWriteList)
               /\ Range(mLogWriteList) \subseteq Numbers
               /\ \A m, n \in 1..Len(mLogWriteList) :
                     type[mLogWriteList[m]] = type[mLogWriteList[n]] => m = n
               /\ Len(type) > 0 /\ type[1] = "STDOUT"

\* Only the live manager has writers.
DeletedIsEmpty == manager # "live" => gone /\ mLogWriteList = <<>>

\* The writer that is being deleted is still in the list.
DyingIsListed == dying # 0 => dying \in Range(mLogWriteList) \/ misused

\* A walk that is at a writer, and the least writer that it may still give to.
AtWriter(t) == walkAt[t] \in {"look", "give", "next"} /\ it[t] # 0
Left(t) == IF walkAt[t] = "next" THEN it[t] + 1 ELSE it[t]

\* The first writer that is given an event finds its colours as they were.
ColoursOf(t) == /\ walkAt[t] \in {"idle", "call"} => seen[t] = <<>>
                /\ walkAt[t] # "ended" /\ seen[t] = <<>> => enableColor[t] = asked[t]

\* Where it is: at a writer that is deleted, or before one, only if that was noted.
PlaceOf(t) == AtWriter(t) =>
                 /\ it[t] \in Range(mLogWriteList) \/ gone
                 /\ it[t] \in Numbers
                 /\ dying # 0 /\ it[t] <= dying => gone

\* All the writers of its event that it has not given it to are still before it, but
\* for one that is being deleted, and those it has are behind it.
GivenOf(t) ==
    /\ Increasing(seen[t]) /\ \A w \in Range(seen[t]) : w > 0
    /\ first[t] \subseteq Numbers
    /\ walkAt[t] \in {"give", "next"} => it[t] # 0
    /\ AtWriter(t) =>
          /\ \A w \in Range(seen[t]) : w < Left(t)
          /\ \A w \in first[t] \cap Range(mLogWriteList) :
                w \in Range(seen[t]) \/ w = dying \/ w >= Left(t)
    /\ (walkAt[t] = "look" /\ it[t] = 0) \/ walkAt[t] = "ended" =>
          first[t] \cap Range(mLogWriteList) \subseteq Range(seen[t]) \cup {dying}

WalkOf(t) == ColoursOf(t) /\ PlaceOf(t) /\ GivenOf(t)

WalkInOrder == \A t \in Loggers : WalkOf(t)

MgrInv == /\ ManagerKinds /\ ListInOrder /\ DeletedIsEmpty /\ DyingIsListed /\ WalkInOrder
          /\ FirstKeepsColours /\ MisusedOnlyAfterDelete

-----------------------------------------------------------------------------
(* Sequences of numbers *)

\* The elements of a sequence are those at its positions.
LEMMA RangeIs == ASSUME NEW s \in Seq(Nat) PROVE Range(s) = {s[i] : i \in 1..Len(s)}
  BY LenProperties DEF Range

LEMMA RangeOfEmpty == Range(<<>>) = {}
  BY EmptySeq DEF Range

\* A sequence with one more at its end.
LEMMA WithOneMore ==
    ASSUME NEW s \in Seq(Nat), NEW w \in Nat, NEW s2, s2 = Append(s, w)
    PROVE  /\ s2 \in Seq(Nat) /\ Len(s2) = Len(s) + 1
           /\ \A i \in 1..Len(s) : s2[i] = s[i]
           /\ s2[Len(s) + 1] = w
           /\ Range(s2) = Range(s) \cup {w}
<1>1. Len(s) \in Nat /\ s \in [1..Len(s) -> Nat]
  BY LenProperties
<1>2. s2 \in Seq(Nat) /\ Len(s2) = Len(s) + 1
      /\ (\A i \in 1..Len(s) : s2[i] = s[i]) /\ s2[Len(s) + 1] = w
  BY <1>1
<1>3. Range(s2) = {s2[i] : i \in 1..(Len(s) + 1)}
  BY <1>2, RangeIs
<1>4. Range(s2) = Range(s) \cup {w}
  <2>1. \A i \in 1..(Len(s) + 1) : s2[i] \in Range(s) \cup {w}
    BY <1>1, <1>2, RangeIs
  <2>2. \A i \in 1..Len(s) : s[i] \in Range(s2)
    BY <1>1, <1>2, <1>3
  <2>3. w \in Range(s2)
    BY <1>1, <1>2, <1>3
  <2> QED
    BY <1>3, <2>1, <2>2, <2>3, RangeIs
<1> QED
  BY <1>2, <1>4

\* push_back() as it is written in Put.
LEMMA AppendIs == ASSUME NEW s \in Seq(Nat), NEW w \in Nat PROVE s \o <<w>> = Append(s, w)
  OBVIOUS

\* One more that is greater than all keeps the order.
LEMMA IncreasingOneMore ==
    ASSUME NEW s \in Seq(Nat), NEW w \in Nat, NEW s2, s2 = Append(s, w),
           Increasing(s), \A x \in Range(s) : x < w
    PROVE  Increasing(s2)
<1>1. Len(s) \in Nat /\ \A i \in 1..Len(s) : s[i] < w
  BY LenProperties, RangeIs
<1>2. Len(s2) = Len(s) + 1 /\ (\A i \in 1..Len(s) : s2[i] = s[i]) /\ s2[Len(s) + 1] = w
  BY WithOneMore
<1> SUFFICES ASSUME NEW i \in 1..(Len(s) + 1), NEW j \in 1..(Len(s) + 1), i < j
             PROVE  s2[i] < s2[j]
  BY <1>2 DEF Increasing
<1>3. i \in 1..Len(s) /\ (j \in 1..Len(s) \/ j = Len(s) + 1)
  BY <1>1
<1> QED
  BY <1>1, <1>2, <1>3 DEF Increasing

\* A sequence with one less.
LEMMA WithOneLess ==
    ASSUME NEW s \in Seq(Nat), NEW n \in 1..Len(s)
    PROVE  /\ RemoveAt(s, n) \in Seq(Nat) /\ Len(RemoveAt(s, n)) = Len(s) - 1
           /\ \A i \in 1..(Len(s) - 1) : RemoveAt(s, n)[i] = IF i < n THEN s[i] ELSE s[i + 1]
<1> DEFINE a == SubSeq(s, 1, n - 1)
           b == SubSeq(s, n + 1, Len(s))
<1>1. Len(s) \in Nat /\ n \in Nat /\ n >= 1 /\ n <= Len(s) /\ \A i \in 1..Len(s) : s[i] \in Nat
  BY LenProperties
<1>2. a \in Seq(Nat) /\ Len(a) = n - 1 /\ \A i \in 1..(n - 1) : a[i] = s[i]
  BY <1>1, SubSeqProperties
<1>3. b \in Seq(Nat) /\ Len(b) = Len(s) - n /\ \A i \in 1..(Len(s) - n) : b[i] = s[i + n]
  BY <1>1, SubSeqProperties
<1> HIDE DEF a, b
<1>4. /\ a \o b \in Seq(Nat) /\ Len(a \o b) = Len(s) - 1
      /\ \A i \in 1..(Len(s) - 1) : (a \o b)[i] = IF i <= n - 1 THEN a[i] ELSE b[i - (n - 1)]
  <2>1. /\ a \o b \in Seq(Nat) /\ Len(a \o b) = Len(a) + Len(b)
        /\ \A i \in 1..(Len(a) + Len(b)) : (a \o b)[i] = IF i <= Len(a) THEN a[i] ELSE b[i - Len(a)]
    BY <1>2, <1>3, ConcatProperties
  <2>2. Len(a) + Len(b) = Len(s) - 1
    BY <1>1, <1>2, <1>3
  <2> QED
    BY <1>2, <2>1, <2>2
<1>5. ASSUME NEW i \in 1..(Len(s) - 1)
      PROVE  (a \o b)[i] = IF i < n THEN s[i] ELSE s[i + 1]
  <2>1. CASE i < n
    BY <1>1, <1>2, <1>4, <2>1
  <2>2. CASE ~ (i < n)
    <3> DEFINE k == i - (n - 1)
    <3>1. k \in 1..(Len(s) - n) /\ k + n = i + 1 /\ ~ (i <= n - 1)
      BY <1>1, <2>2
    <3>2. (a \o b)[i] = b[k]
      BY <1>4, <3>1
    <3> HIDE DEF k
    <3>3. b[k] = s[i + 1]
      BY <1>3, <3>1
    <3> QED
      BY <2>2, <3>2, <3>3
  <2> QED
    BY <2>1, <2>2
<1> QED
  BY <1>4, <1>5 DEF RemoveAt, a, b

-----------------------------------------------------------------------------
(* The list of writers *)

\* Where an iterator goes: nothing of the list lies between a writer and the next.
LEMMA FollowingIsNext ==
    ASSUME ManagerKinds, ListInOrder, NEW t \in Loggers, it[t] \in Range(mLogWriteList)
    PROVE  /\ Following(t) \in Nat
           /\ Following(t) = 0 => \A w \in Range(mLogWriteList) : w <= it[t]
           /\ Following(t) # 0 =>
                 /\ Following(t) \in Range(mLogWriteList) /\ Following(t) > it[t]
                 /\ \A w \in Range(mLogWriteList) : w <= it[t] \/ w >= Following(t)
<1> USE DEF ManagerKinds, ListInOrder
<1> DEFINE s == mLogWriteList
           i == CHOOSE j \in DOMAIN s : s[j] = it[t]
<1>1. /\ Len(s) \in Nat /\ DOMAIN s = 1..Len(s) /\ \A j \in 1..Len(s) : s[j] \in Nat /\ s[j] > 0
      /\ Range(s) = {s[j] : j \in 1..Len(s)}
  <2>1. Len(s) \in Nat /\ DOMAIN s = 1..Len(s) /\ \A j \in 1..Len(s) : s[j] \in Nat
    BY LenProperties
  <2>2. Range(s) = {s[j] : j \in 1..Len(s)}
    BY RangeIs
  <2>3. \A j \in 1..Len(s) : s[j] > 0
    <3>1. \A j \in 1..Len(s) : s[j] \in Numbers
      BY <2>2
    <3> HIDE DEF ManagerKinds, ListInOrder
    <3> QED
      BY <3>1 DEF Numbers
  <2> QED
    BY <2>1, <2>2, <2>3
<1>2. i \in 1..Len(s) /\ s[i] = it[t]
  <2>1. \E j \in DOMAIN s : s[j] = it[t]
    BY <1>1
  <2> QED
    BY <1>1, <2>1
<1>3. Following(t) = IF 1 + i \in 1..Len(s) THEN s[1 + i] ELSE 0
  BY <1>1 DEF Following, Nth
<1> HIDE DEF i, ManagerKinds
<1>4. \A j \in 1..Len(s) : (j < i => s[j] < s[i]) /\ (j > i => s[j] > s[i])
  BY <1>1, <1>2 DEF Increasing
<1>5. CASE 1 + i \in 1..Len(s)
  <2>1. \A j \in 1..Len(s) : s[j] <= s[i] \/ s[j] >= s[1 + i]
    <3> SUFFICES ASSUME NEW j \in 1..Len(s) PROVE s[j] <= s[i] \/ s[j] >= s[1 + i]
      OBVIOUS
    <3>1. CASE j <= i
      BY <1>1, <1>2, <1>4, <3>1
    <3>2. CASE j > i
      <4>1. j = 1 + i \/ 1 + i < j
        BY <1>1, <1>2, <3>2
      <4>2. 1 + i < j => s[1 + i] < s[j]
        BY <1>5 DEF Increasing
      <4> QED
        BY <1>1, <1>5, <4>1, <4>2
    <3> QED
      BY <1>1, <1>2, <3>1, <3>2
  <2>2. s[1 + i] > s[i] /\ s[1 + i] \in Range(s) /\ s[1 + i] # 0 /\ s[1 + i] \in Nat
    BY <1>1, <1>2, <1>4, <1>5
  <2>3. \A w \in Range(s) : w <= it[t] \/ w >= s[1 + i]
    BY <1>1, <1>2, <2>1
  <2> QED
    BY <1>2, <1>3, <1>5, <2>2, <2>3
<1>6. CASE ~ (1 + i \in 1..Len(s))
  <2>1. \A j \in 1..Len(s) : s[j] <= s[i]
    BY <1>1, <1>2, <1>4, <1>6
  <2>2. \A w \in Range(s) : w <= it[t]
    BY <1>1, <1>2, <2>1
  <2> QED
    BY <1>3, <1>6, <2>2
<1> QED
  BY <1>5, <1>6

\* A walk begins at the smallest number.
LEMMA NthFirst ==
    ASSUME ManagerKinds, ListInOrder
    PROVE  /\ Nth(1) \in Nat
           /\ Nth(1) = 0 => Range(mLogWriteList) = {}
           /\ Nth(1) # 0 => /\ Nth(1) \in Range(mLogWriteList)
                            /\ \A w \in Range(mLogWriteList) : w >= Nth(1)
<1> USE DEF ManagerKinds, ListInOrder
<1> DEFINE s == mLogWriteList
<1>1. /\ Len(s) \in Nat /\ DOMAIN s = 1..Len(s) /\ \A j \in 1..Len(s) : s[j] \in Nat
      /\ Range(s) = {s[j] : j \in 1..Len(s)}
  <2>1. Len(s) \in Nat /\ DOMAIN s = 1..Len(s) /\ \A j \in 1..Len(s) : s[j] \in Nat
    BY LenProperties
  <2> QED
    BY <2>1, RangeIs
<1>2. \A j \in 1..Len(s) : s[j] > 0
  <2>1. \A j \in 1..Len(s) : s[j] \in Numbers
    BY <1>1
  <2> QED
    BY <2>1 DEF Numbers
<1> HIDE DEF ManagerKinds
<1>3. CASE Len(s) = 0
  BY <1>1, <1>3 DEF Nth
<1>4. CASE Len(s) > 0
  <2>1. Nth(1) = s[1] /\ 1 \in 1..Len(s)
    BY <1>1, <1>4 DEF Nth
  <2>2. \A j \in 1..Len(s) : s[j] >= s[1]
    BY <1>1, <2>1 DEF Increasing
  <2> QED
    BY <1>1, <1>2, <2>1, <2>2
<1>5. Len(s) = 0 \/ Len(s) > 0
  BY <1>1
<1> QED
  BY <1>3, <1>4, <1>5

-----------------------------------------------------------------------------
(* The steps of the loggers *)

LEMMA InitMgr == ManagerInit => MgrInv
<1> SUFFICES ASSUME ManagerInit PROVE MgrInv
  OBVIOUS
<1> USE DEF ManagerInit
<1>1. /\ mLogWriteList \in Seq(Nat) /\ Len(mLogWriteList) = 1 /\ mLogWriteList[1] = 1
      /\ type \in Seq(Types) /\ Len(type) = 1 /\ type[1] = "STDOUT"
  BY DEF Types
<1>2. \A t \in Loggers : seen[t] \in Seq(Nat) /\ seen[t] = <<>> /\ Len(seen[t]) = 0
  OBVIOUS
<1>3. ManagerKinds
  BY <1>1, <1>2 DEF ManagerKinds
<1>4. Range(mLogWriteList) = {1}
  <2>1. Range(mLogWriteList) = {mLogWriteList[i] : i \in 1..Len(mLogWriteList)}
    BY <1>1, RangeIs
  <2> QED
    BY <1>1, <2>1
<1>5. ListInOrder
  BY <1>1, <1>4 DEF ListInOrder, Increasing, Numbers
<1>6. DeletedIsEmpty /\ DyingIsListed /\ FirstKeepsColours /\ MisusedOnlyAfterDelete
  BY DEF DeletedIsEmpty, DyingIsListed, FirstKeepsColours, MisusedOnlyAfterDelete
<1>7. WalkInOrder
  <2> SUFFICES ASSUME NEW t \in Loggers PROVE WalkOf(t)
    BY DEF WalkInOrder
  <2>1. Range(seen[t]) = {}
    BY <1>2, RangeOfEmpty
  <2> QED
    BY <1>2, <2>1 DEF WalkOf, ColoursOf, PlaceOf, GivenOf, AtWriter, Increasing
<1> QED
  BY <1>3, <1>5, <1>6, <1>7 DEF MgrInv

\* The list stays in order while nobody edits it.
LEMMA ListKept ==
    ASSUME MgrInv, UNCHANGED listVars, gone => gone', misused => misused'
    PROVE  ListInOrder' /\ DeletedIsEmpty' /\ DyingIsListed'
<1>1. ListInOrder' /\ DeletedIsEmpty'
  BY DEF MgrInv, ListInOrder, DeletedIsEmpty, Increasing, Numbers, listVars
<1>2. DyingIsListed'
  BY DEF MgrInv, DyingIsListed, listVars
<1> QED
  BY <1>1, <1>2

\* A logger that does not move keeps its place in the walk.
LEMMA WalkKept ==
    ASSUME NEW t \in Loggers, WalkOf(t), UNCHANGED <<mLogWriteList, type, dying>>, gone => gone',
           it'[t] = it[t], walkAt'[t] = walkAt[t], enableColor'[t] = enableColor[t],
           asked'[t] = asked[t], seen'[t] = seen[t], first'[t] = first[t]
    PROVE  WalkOf(t)'
<1>1. ColoursOf(t)'
  BY DEF WalkOf, ColoursOf
<1>2. PlaceOf(t)'
  BY DEF WalkOf, PlaceOf, AtWriter, Numbers
<1>3. GivenOf(t)'
  BY DEF WalkOf, GivenOf, AtWriter, Left, Increasing, Numbers
<1> QED
  BY <1>1, <1>2, <1>3 DEF WalkOf

\* One logger moves.
LEMMA OthersKept ==
    ASSUME MgrInv, NEW t \in Loggers, UNCHANGED listVars, gone => gone', WalkOf(t)',
           \A u \in Loggers : u # t =>
              /\ it'[u] = it[u] /\ walkAt'[u] = walkAt[u] /\ enableColor'[u] = enableColor[u]
              /\ asked'[u] = asked[u] /\ seen'[u] = seen[u] /\ first'[u] = first[u]
    PROVE  WalkInOrder'
<1> SUFFICES ASSUME NEW u \in Loggers, u # t PROVE WalkOf(u)'
  BY DEF WalkInOrder
<1>1. WalkOf(u)
  BY DEF MgrInv, WalkInOrder
<1> QED
  BY <1>1, WalkKept DEF listVars

LEMMA LogKeeps == ASSUME MgrInv, NEW t \in Loggers, Log(t) PROVE MgrInv'
<1>1. /\ UNCHANGED <<listVars, it, seen, first, plain, gone, misused>>
      /\ walkAt[t] = "idle" /\ walkAt' = [walkAt EXCEPT ![t] = "call"]
      /\ enableColor' = [enableColor EXCEPT ![t] = gEnableLogoutColor]
      /\ asked' = [asked EXCEPT ![t] = gEnableLogoutColor]
  BY DEF Log
<1>2. ManagerKinds'
  BY <1>1 DEF MgrInv, ManagerKinds, listVars
<1>3. ListInOrder' /\ DeletedIsEmpty' /\ DyingIsListed'
  BY <1>1, ListKept
<1>4. WalkInOrder'
  <2>1. WalkOf(t)
    BY DEF MgrInv, WalkInOrder
  <2>2. /\ walkAt'[t] = "call" /\ enableColor'[t] = gEnableLogoutColor /\ asked'[t] = gEnableLogoutColor
        /\ seen'[t] = seen[t] /\ first'[t] = first[t] /\ type' = type
    BY <1>1 DEF MgrInv, ManagerKinds, listVars
  <2>3. WalkOf(t)'
    BY <1>1, <2>1, <2>2 DEF WalkOf, ColoursOf, PlaceOf, GivenOf, AtWriter, Increasing, Numbers
  <2> QED
    BY <1>1, <2>3, OthersKept DEF MgrInv, ManagerKinds
<1> QED
  BY <1>1, <1>2, <1>3, <1>4 DEF MgrInv, FirstKeepsColours, MisusedOnlyAfterDelete

LEMMA CallKeeps == ASSUME MgrInv, ~ misused, NEW t \in Loggers, Call(t) PROVE MgrInv'
<1>1. /\ UNCHANGED <<listVars, enableColor, asked, seen, plain>>
      /\ walkAt[t] = "call" /\ walkAt' = [walkAt EXCEPT ![t] = "look"]
      /\ it' = [it EXCEPT ![t] = Nth(1)]
      /\ first' = [first EXCEPT ![t] = Range(mLogWriteList)]
      /\ gone' = (gone \/ dying # 0) /\ misused' = (manager # "live")
  BY DEF Call
<1>2. Range(mLogWriteList) \subseteq Numbers /\ Numbers \subseteq Nat
  BY DEF MgrInv, ListInOrder, Numbers
<1>3. /\ Nth(1) \in Nat
      /\ Nth(1) = 0 => Range(mLogWriteList) = {}
      /\ Nth(1) # 0 => Nth(1) \in Range(mLogWriteList) /\ \A w \in Range(mLogWriteList) : w >= Nth(1)
  BY NthFirst DEF MgrInv
<1>4. ManagerKinds'
  BY <1>1, <1>2, <1>3 DEF MgrInv, ManagerKinds, listVars
<1>5. ListInOrder' /\ DeletedIsEmpty' /\ DyingIsListed'
  BY <1>1, ListKept
<1>6. WalkInOrder'
  <2>1. WalkOf(t) /\ seen[t] = <<>> /\ enableColor[t] = asked[t]
    BY <1>1 DEF MgrInv, WalkInOrder, WalkOf, ColoursOf
  <2>2. /\ it'[t] = Nth(1) /\ walkAt'[t] = "look" /\ first'[t] = Range(mLogWriteList)
        /\ seen'[t] = seen[t] /\ enableColor'[t] = enableColor[t] /\ asked'[t] = asked[t]
        /\ mLogWriteList' = mLogWriteList /\ type' = type /\ dying' = dying
    BY <1>1 DEF MgrInv, ManagerKinds, listVars
  <2>3. Range(seen[t]) = {}
    BY <2>1, RangeOfEmpty
  <2>4. ColoursOf(t)'
    BY <2>1, <2>2 DEF ColoursOf
  <2>5. PlaceOf(t)'
    BY <1>1, <1>2, <1>3, <2>2 DEF PlaceOf, AtWriter, Numbers
  <2>6. GivenOf(t)'
    BY <1>2, <1>3, <2>1, <2>2, <2>3 DEF WalkOf, GivenOf, AtWriter, Left, Increasing, Numbers
  <2> QED
    BY <1>1, <2>4, <2>5, <2>6, OthersKept DEF MgrInv, ManagerKinds, WalkOf
<1> QED
  BY <1>1, <1>4, <1>5, <1>6 DEF MgrInv, FirstKeepsColours, MisusedOnlyAfterDelete, DeletedIsEmpty

LEMMA LookKeeps == ASSUME MgrInv, NEW t \in Loggers, Look(t) PROVE MgrInv'
<1>1. /\ UNCHANGED <<listVars, it, enableColor, asked, seen, first, plain, gone, misused>>
      /\ walkAt[t] = "look" /\ it[t] # 0
      /\ walkAt' = [walkAt EXCEPT ![t] = IF it[t] = dying /\ nulled THEN "next" ELSE "give"]
  BY DEF Look, eventVars
<1>2. ManagerKinds'
  BY <1>1 DEF MgrInv, ManagerKinds, listVars
<1>3. ListInOrder' /\ DeletedIsEmpty' /\ DyingIsListed'
  BY <1>1, ListKept
<1>4. WalkInOrder'
  <2>1. WalkOf(t) /\ AtWriter(t) /\ Left(t) = it[t]
    BY <1>1 DEF MgrInv, WalkInOrder, AtWriter, Left
  <2>2. /\ it'[t] = it[t] /\ seen'[t] = seen[t] /\ first'[t] = first[t]
        /\ enableColor'[t] = enableColor[t] /\ asked'[t] = asked[t] /\ gone' = gone
        /\ mLogWriteList' = mLogWriteList /\ type' = type /\ dying' = dying
    BY <1>1 DEF listVars
  <2>3. /\ walkAt'[t] \in {"give", "next"} /\ (walkAt'[t] = "next" => it[t] = dying)
        /\ it[t] \in Nat /\ seen[t] \in Seq(Nat) /\ first[t] \subseteq Nat /\ dying \in Nat
    BY <1>1 DEF MgrInv, ManagerKinds
  <2>4. ColoursOf(t)'
    BY <1>1, <2>1, <2>2, <2>3 DEF WalkOf, ColoursOf
  <2>5. PlaceOf(t)'
    BY <2>1, <2>2, <2>3 DEF WalkOf, PlaceOf, AtWriter, Numbers
  <2>6. GivenOf(t)'
    <3>1. /\ Left(t)' = (IF walkAt'[t] = "next" THEN it[t] + 1 ELSE it[t])
          /\ Range(seen[t]) \subseteq Nat
      BY <2>2, <2>3, RangeIs DEF Left
    <3>2. \A w \in Range(seen[t]) : w < Left(t)'
      BY <2>1, <2>3, <3>1 DEF WalkOf, GivenOf
    <3>3. \A w \in first[t] \cap Range(mLogWriteList) :
             w \in Range(seen[t]) \/ w = dying \/ w >= Left(t)'
      BY <2>1, <2>3, <3>1 DEF WalkOf, GivenOf
    <3> QED
      BY <1>1, <2>1, <2>2, <2>3, <3>2, <3>3 DEF WalkOf, GivenOf, Increasing, Numbers
  <2> QED
    BY <1>1, <2>4, <2>5, <2>6, OthersKept DEF MgrInv, ManagerKinds, WalkOf
<1> QED
  BY <1>1, <1>2, <1>3, <1>4 DEF MgrInv, FirstKeepsColours, MisusedOnlyAfterDelete

LEMMA GiveKeeps == ASSUME MgrInv, NEW t \in Loggers, Give(t) PROVE MgrInv'
<1> DEFINE w == it[t]
           color == enableColor[t] /\ type[w] = "STDOUT"
<1>1. /\ UNCHANGED <<listVars, it, asked, first, gone, misused>>
      /\ walkAt[t] = "give" /\ walkAt' = [walkAt EXCEPT ![t] = "next"]
      /\ enableColor' = [enableColor EXCEPT ![t] = color]
      /\ plain' = IF type[w] = "STDOUT" /\ asked[t] /\ ~color THEN plain \cup {w} ELSE plain
      /\ seen' = [seen EXCEPT ![t] = Append(@, w)]
  BY DEF Give
<1>2. /\ WalkOf(t) /\ AtWriter(t) /\ Left(t) = w /\ w \in Nat /\ w # 0 /\ seen[t] \in Seq(Nat)
      /\ first[t] \subseteq Nat /\ w \in Numbers
  BY <1>1 DEF MgrInv, ManagerKinds, WalkInOrder, WalkOf, GivenOf, PlaceOf, AtWriter, Left
<1>3. /\ seen'[t] = Append(seen[t], w) /\ walkAt'[t] = "next" /\ it'[t] = w /\ first'[t] = first[t]
      /\ mLogWriteList' = mLogWriteList /\ type' = type /\ dying' = dying /\ gone' = gone
  BY <1>1 DEF MgrInv, ManagerKinds, listVars
<1>4. /\ seen'[t] \in Seq(Nat) /\ Range(seen'[t]) = Range(seen[t]) \cup {w}
      /\ seen'[t] # <<>>
  <2> DEFINE s == seen[t]
             s2 == seen'[t]
  <2>1. s \in Seq(Nat) /\ w \in Nat /\ s2 = Append(s, w)
    BY <1>2, <1>3
  <2> HIDE DEF s, s2, w
  <2>2. s2 \in Seq(Nat) /\ Len(s2) = Len(s) + 1 /\ Range(s2) = Range(s) \cup {w}
    BY <2>1, WithOneMore
  <2>3. Len(s) \in Nat
    BY <2>1, LenProperties
  <2>4. s2 # <<>>
    BY <2>2, <2>3, EmptySeq
  <2> QED
    BY <2>2, <2>4 DEF s, s2
<1>5. ManagerKinds'
  BY <1>1, <1>2, <1>4 DEF MgrInv, ManagerKinds, listVars
<1>6. ListInOrder' /\ DeletedIsEmpty' /\ DyingIsListed'
  BY <1>1, ListKept
<1>7. WalkInOrder'
  <2>1. ColoursOf(t)'
    BY <1>3, <1>4 DEF ColoursOf
  <2>2. PlaceOf(t)'
    BY <1>2, <1>3 DEF WalkOf, PlaceOf, AtWriter, Numbers
  <2>3. GivenOf(t)'
    <3>1. Increasing(seen'[t])
      BY <1>2, <1>3, IncreasingOneMore DEF WalkOf, GivenOf
    <3>2. \A x \in Range(seen[t]) \cup {w} : x \in Nat /\ x > 0 /\ x <= w
      <4>1. \A x \in Range(seen[t]) : x \in Nat
        BY <1>2, RangeIs
      <4> QED
        BY <1>2, <4>1 DEF WalkOf, GivenOf
    <3>3. Left(t)' = w + 1
      BY <1>3 DEF Left
    <3>4. \A x \in Range(seen'[t]) : x > 0 /\ x < Left(t)'
      BY <1>2, <1>4, <3>2, <3>3
    <3>5. \A x \in first[t] \cap Range(mLogWriteList) :
             x \in Range(seen'[t]) \/ x = dying \/ x >= Left(t)'
      <4> SUFFICES ASSUME NEW x \in first[t] \cap Range(mLogWriteList), x \notin Range(seen'[t]), x # dying
                   PROVE  x >= w + 1
        BY <3>3
      <4>1. x \in Nat /\ x >= w /\ x # w
        BY <1>2, <1>4 DEF WalkOf, GivenOf
      <4> QED
        BY <1>2, <4>1
    <3> QED
      BY <1>2, <1>3, <3>1, <3>4, <3>5 DEF WalkOf, GivenOf, Numbers
  <2> QED
    BY <1>1, <2>1, <2>2, <2>3, OthersKept DEF MgrInv, ManagerKinds, WalkOf
<1>8. FirstKeepsColours'
  <2> SUFFICES ASSUME w = 1, type[w] = "STDOUT", asked[t], ~ color PROVE FALSE
    BY <1>1 DEF MgrInv, FirstKeepsColours
  <2>1. Range(seen[t]) = {}
    <3>1. \A x \in Range(seen[t]) : x < 1 /\ x > 0 /\ x \in Nat
      BY <1>2, RangeIs DEF WalkOf, GivenOf
    <3> QED
      BY <3>1
  <2>2. seen[t] = <<>>
    <3>1. Len(seen[t]) \in Nat /\ (Len(seen[t]) > 0 => seen[t][1] \in Range(seen[t]))
      BY <1>2, LenProperties, RangeIs
    <3> QED
      BY <1>2, <2>1, <3>1, EmptySeq
  <2>3. enableColor[t] = asked[t]
    BY <1>1, <1>2, <2>2 DEF WalkOf, ColoursOf
  <2> QED
    BY <2>3
<1> QED
  BY <1>1, <1>5, <1>6, <1>7, <1>8 DEF MgrInv, MisusedOnlyAfterDelete

LEMMA StepKeeps == ASSUME MgrInv, NEW t \in Loggers, Step(t) PROVE MgrInv'
<1> DEFINE w == it[t]
<1>1. /\ UNCHANGED <<listVars, enableColor, asked, seen, first, plain, gone, misused>>
      /\ walkAt[t] = "next" /\ w \in Range(mLogWriteList)
      /\ it' = [it EXCEPT ![t] = Following(t)] /\ walkAt' = [walkAt EXCEPT ![t] = "look"]
  BY DEF Step, eventVars, Linked
<1>2. /\ WalkOf(t) /\ AtWriter(t) /\ Left(t) = w + 1 /\ w \in Nat /\ w # 0 /\ seen[t] \in Seq(Nat)
      /\ first[t] \subseteq Nat /\ dying \in Nat
  BY <1>1 DEF MgrInv, ManagerKinds, WalkInOrder, WalkOf, GivenOf, AtWriter, Left
<1>3. /\ Following(t) \in Nat
      /\ Following(t) = 0 => \A x \in Range(mLogWriteList) : x <= w
      /\ Following(t) # 0 => /\ Following(t) \in Range(mLogWriteList) /\ Following(t) > w
                             /\ \A x \in Range(mLogWriteList) : x <= w \/ x >= Following(t)
  BY <1>1, FollowingIsNext DEF MgrInv
<1>4. /\ it'[t] = Following(t) /\ walkAt'[t] = "look" /\ seen'[t] = seen[t] /\ first'[t] = first[t]
      /\ enableColor'[t] = enableColor[t] /\ asked'[t] = asked[t]
      /\ mLogWriteList' = mLogWriteList /\ type' = type /\ dying' = dying /\ gone' = gone
  BY <1>1 DEF MgrInv, ManagerKinds, listVars
<1>5. ManagerKinds'
  BY <1>1, <1>3 DEF MgrInv, ManagerKinds, listVars
<1>6. ListInOrder' /\ DeletedIsEmpty' /\ DyingIsListed'
  BY <1>1, ListKept
<1>7. WalkInOrder'
  <2>1. ColoursOf(t)'
    BY <1>1, <1>2, <1>4 DEF WalkOf, ColoursOf
  <2>2. PlaceOf(t)'
    <3>1. Range(mLogWriteList) \subseteq Numbers
      BY DEF MgrInv, ListInOrder
    <3>2. Following(t) # 0 /\ dying # 0 /\ Following(t) <= dying => gone
      BY <1>2, <1>3 DEF WalkOf, PlaceOf
    <3> QED
      BY <1>3, <1>4, <3>1, <3>2 DEF PlaceOf, AtWriter, Numbers
  <2>3. GivenOf(t)'
    <3>1. \A x \in Range(seen[t]) : x \in Nat /\ x <= w
      <4>1. \A x \in Range(seen[t]) : x \in Nat
        BY <1>2, RangeIs
      <4> QED
        BY <1>2, <4>1 DEF WalkOf, GivenOf
    <3>2. \A x \in first[t] \cap Range(mLogWriteList) :
             x \in Nat /\ (x \in Range(seen[t]) \/ x = dying \/ ~ x <= w)
      <4> SUFFICES ASSUME NEW x \in first[t] \cap Range(mLogWriteList), x \notin Range(seen[t]), x # dying
                   PROVE  ~ x <= w
        BY <1>2
      <4>1. x \in Nat /\ x >= w + 1
        BY <1>2 DEF WalkOf, GivenOf
      <4> QED
        BY <1>2, <4>1
    <3>3. Left(t)' = Following(t)
      BY <1>4 DEF Left
    <3>4. Following(t) # 0 => /\ \A x \in Range(seen[t]) : x < Following(t)
                              /\ \A x \in first[t] \cap Range(mLogWriteList) :
                                    x \in Range(seen[t]) \/ x = dying \/ x >= Following(t)
      BY <1>2, <1>3, <3>1, <3>2
    <3>5. Following(t) = 0 => first[t] \cap Range(mLogWriteList) \subseteq Range(seen[t]) \cup {dying}
      BY <1>3, <3>2
    <3> QED
      BY <1>2, <1>4, <3>3, <3>4, <3>5 DEF WalkOf, GivenOf, AtWriter, Increasing, Numbers
  <2> QED
    BY <1>1, <2>1, <2>2, <2>3, OthersKept DEF MgrInv, ManagerKinds, WalkOf
<1> QED
  BY <1>1, <1>5, <1>6, <1>7 DEF MgrInv, FirstKeepsColours, MisusedOnlyAfterDelete

LEMMA UseDeletedKeeps == ASSUME MgrInv, NEW t \in Loggers, UseDeleted(t) PROVE MgrInv'
<1>1. /\ UNCHANGED <<listVars, it, walkAt, enableColor, asked, seen, first, plain, gone>>
      /\ AtWriter(t) /\ (it[t] \notin Range(mLogWriteList) \/ it[t] = dying) /\ misused' = TRUE
  BY DEF UseDeleted, walkVars, eventVars, AtWriter, Linked
<1>2. ManagerKinds'
  BY <1>1 DEF MgrInv, ManagerKinds, listVars
<1>3. ListInOrder' /\ DeletedIsEmpty' /\ DyingIsListed'
  BY <1>1, ListKept
<1>4. WalkInOrder'
  <2> SUFFICES ASSUME NEW u \in Loggers PROVE WalkOf(u)'
    BY DEF WalkInOrder
  <2> QED
    BY <1>1, WalkKept DEF MgrInv, WalkInOrder, listVars
<1>5. gone
  <2>1. PlaceOf(t) /\ it[t] # 0 /\ it[t] \in Nat
    BY <1>1 DEF MgrInv, ManagerKinds, WalkInOrder, WalkOf, AtWriter
  <2> QED
    BY <1>1, <2>1 DEF PlaceOf
<1> QED
  BY <1>1, <1>2, <1>3, <1>4, <1>5 DEF MgrInv, FirstKeepsColours, MisusedOnlyAfterDelete

LEMMA EndWalkKeeps == ASSUME MgrInv, NEW t \in Loggers, EndWalk(t) PROVE MgrInv'
<1>1. /\ UNCHANGED <<listVars, it, enableColor, asked, seen, first, plain, gone, misused>>
      /\ walkAt[t] = "look" /\ it[t] = 0 /\ walkAt' = [walkAt EXCEPT ![t] = "ended"]
  BY DEF EndWalk, eventVars
<1>2. ManagerKinds' /\ walkAt'[t] = "ended"
  BY <1>1 DEF MgrInv, ManagerKinds, listVars
<1>3. ListInOrder' /\ DeletedIsEmpty' /\ DyingIsListed'
  BY <1>1, ListKept
<1>4. WalkInOrder'
  <2>1. WalkOf(t)
    BY DEF MgrInv, WalkInOrder
  <2>2. WalkOf(t)'
    BY <1>1, <1>2, <2>1 DEF WalkOf, ColoursOf, PlaceOf, GivenOf, AtWriter, Increasing, Numbers, listVars
  <2> QED
    BY <1>1, <2>2, OthersKept DEF MgrInv, ManagerKinds
<1> QED
  BY <1>1, <1>2, <1>3, <1>4 DEF MgrInv, FirstKeepsColours, MisusedOnlyAfterDelete

LEMMA ReturnKeeps == ASSUME MgrInv, NEW t \in Loggers, Return(t) PROVE MgrInv'
<1>1. /\ UNCHANGED <<listVars, it, plain, gone, misused>>
      /\ walkAt[t] = "ended" /\ walkAt' = [walkAt EXCEPT ![t] = "idle"]
      /\ enableColor' = [enableColor EXCEPT ![t] = TRUE]
      /\ asked' = [asked EXCEPT ![t] = TRUE]
      /\ seen' = [seen EXCEPT ![t] = <<>>] /\ first' = [first EXCEPT ![t] = {}]
  BY DEF Return
<1>2. ManagerKinds'
  <2>1. <<>> \in Seq(Nat)
    BY EmptySeq
  <2> QED
    BY <1>1, <2>1 DEF MgrInv, ManagerKinds, listVars
<1>3. ListInOrder' /\ DeletedIsEmpty' /\ DyingIsListed'
  BY <1>1, ListKept
<1>4. WalkInOrder'
  <2>1. /\ walkAt'[t] = "idle" /\ enableColor'[t] = asked'[t] /\ seen'[t] = <<>> /\ first'[t] = {}
    BY <1>1 DEF MgrInv, ManagerKinds
  <2>2. Range(seen'[t]) = {} /\ Len(seen'[t]) = 0
    BY <2>1, RangeOfEmpty
  <2>3. WalkOf(t)'
    BY <2>1, <2>2 DEF WalkOf, ColoursOf, PlaceOf, GivenOf, AtWriter, Increasing
  <2> QED
    BY <1>1, <2>3, OthersKept DEF MgrInv, ManagerKinds
<1> QED
  BY <1>1, <1>2, <1>3, <1>4 DEF MgrInv, FirstKeepsColours, MisusedOnlyAfterDelete

-----------------------------------------------------------------------------
(* The steps that edit the list *)

LEMMA AddKeeps == ASSUME MgrInv, NEW k \in Types, AddLogWriteToList(k) PROVE MgrInv'
<1> DEFINE s == mLogWriteList
           s2 == mLogWriteList'
           w == Len(type) + 1
<1>1. /\ UNCHANGED <<manager, gEnableLogoutColor, dying, nulled, walkVars, gone, misused>>
      /\ manager = "live" /\ dying = 0 /\ AddTest(k)
      /\ type' = Append(type, k) /\ s2 = s \o <<w>>
  BY DEF AddLogWriteToList, Put
<1>2. /\ s \in Seq(Nat) /\ type \in Seq(Types) /\ Len(type) \in Nat /\ Len(s) \in Nat /\ w \in Nat
      /\ Len(type) > 0 /\ type[1] = "STDOUT" /\ Range(s) \subseteq 1..Len(type) /\ Increasing(s)
      /\ \A m, n \in 1..Len(s) : type[s[m]] = type[s[n]] => m = n
  BY LenProperties DEF MgrInv, ManagerKinds, ListInOrder, Numbers
<1>3. /\ type' \in Seq(Types) /\ Len(type') = Len(type) + 1 /\ type'[w] = k
      /\ \A n \in 1..Len(type) : type'[n] = type[n]
  BY <1>1, <1>2
<1>4. \A i \in 1..Len(s) : s[i] \in 1..Len(type)
  BY <1>2, RangeIs
<1> HIDE DEF s, s2, w
<1>5. /\ s2 \in Seq(Nat) /\ Len(s2) = Len(s) + 1 /\ s2[Len(s) + 1] = w
      /\ \A i \in 1..Len(s) : s2[i] = s[i]
      /\ Range(s2) = Range(s) \cup {w}
  <2>1. s \in Seq(Nat) /\ w \in Nat /\ s2 = Append(s, w)
    BY <1>1, <1>2, AppendIs
  <2>2. s2 \in Seq(Nat) /\ Len(s2) = Len(s) + 1 /\ s2[Len(s) + 1] = w
    BY <2>1, WithOneMore
  <2>3. \A i \in 1..Len(s) : s2[i] = s[i]
    BY <2>1, WithOneMore
  <2>4. Range(s2) = Range(s) \cup {w}
    BY <2>1, WithOneMore
  <2> QED
    BY <2>2, <2>3, <2>4
<1>6. Increasing(s2)
  <2>1. \A x \in Range(s) : x < w
    BY <1>2 DEF w
  <2>2. s2 = Append(s, w)
    BY <1>1, <1>2, AppendIs
  <2> QED
    BY <1>2, <2>1, <2>2, IncreasingOneMore
<1>7. \A i \in 1..Len(s) : type[s[i]] # k
  <2>1. \A x \in Range(s) : type[x] # k
    BY <1>1 DEF AddTest, OfType, s
  <2> QED
    BY <1>2, <2>1, RangeIs
<1>8. ManagerKinds'
  BY <1>1, <1>3, <1>5 DEF MgrInv, ManagerKinds, walkVars, eventVars, s, s2
<1>9. ListInOrder'
  <2>1. Range(s2) \subseteq 1..Len(type')
    BY <1>2, <1>3, <1>5 DEF w
  <2>2. \A i \in 1..Len(s) : type'[s2[i]] = type[s[i]]
    BY <1>3, <1>4, <1>5
  <2>3. type'[s2[Len(s) + 1]] = k
    BY <1>3, <1>5
  <2>4. ASSUME NEW m \in 1..(Len(s) + 1), NEW n \in 1..(Len(s) + 1),
               type'[s2[m]] = type'[s2[n]]
        PROVE  m = n
    <3>1. (m \in 1..Len(s) \/ m = Len(s) + 1) /\ (n \in 1..Len(s) \/ n = Len(s) + 1)
      BY <1>2
    <3> QED
      BY <1>2, <1>7, <2>2, <2>3, <2>4, <3>1
  <2>5. Len(type') > 0 /\ type'[1] = "STDOUT"
    BY <1>2, <1>3
  <2> QED
    BY <1>5, <1>6, <2>1, <2>4, <2>5 DEF ListInOrder, Numbers, s, s2
<1>10. WalkInOrder'
  <2> SUFFICES ASSUME NEW t \in Loggers PROVE WalkOf(t)'
    BY DEF WalkInOrder
  <2>1. WalkOf(t)
    BY DEF MgrInv, WalkInOrder
  <2>2. Numbers \subseteq Numbers' /\ w \notin Numbers
    BY <1>2, <1>3 DEF Numbers, w
  <2>3. /\ it'[t] = it[t] /\ walkAt'[t] = walkAt[t] /\ enableColor'[t] = enableColor[t]
        /\ asked'[t] = asked[t] /\ seen'[t] = seen[t] /\ first'[t] = first[t] /\ gone' = gone
        /\ dying' = dying
    BY <1>1 DEF walkVars, eventVars
  <2>4. first[t] \subseteq Numbers
    BY <2>1 DEF WalkOf, GivenOf
  <2>5. first[t] \cap Range(s2) = first[t] \cap Range(s)
    BY <1>5, <2>2, <2>4
  <2>6. ColoursOf(t)'
    BY <2>1, <2>3 DEF WalkOf, ColoursOf
  <2>7. PlaceOf(t)'
    BY <1>5, <2>1, <2>2, <2>3 DEF WalkOf, PlaceOf, AtWriter, s, s2
  <2>8. GivenOf(t)'
    BY <2>1, <2>2, <2>3, <2>4, <2>5 DEF WalkOf, GivenOf, AtWriter, Left, Increasing, s, s2
  <2> QED
    BY <2>6, <2>7, <2>8 DEF WalkOf
<1>11. /\ DeletedIsEmpty' /\ DyingIsListed' /\ FirstKeepsColours' /\ MisusedOnlyAfterDelete'
  BY <1>1 DEF MgrInv, DeletedIsEmpty, DyingIsListed, FirstKeepsColours, MisusedOnlyAfterDelete,
              walkVars, eventVars
<1> QED
  BY <1>8, <1>9, <1>10, <1>11 DEF MgrInv

\* A writer is deleted, and nothing else happens.
LEMMA DelKeeps == ASSUME MgrInv, NEW k \in Types, DelLogWriteFromList(k) PROVE MgrInv'
<1>1. PICK n \in DOMAIN mLogWriteList :
         /\ dying' = mLogWriteList[n]
         /\ gone' = (gone \/ \E t \in Loggers : NotPast(t, mLogWriteList[n]))
  BY DEF DelLogWriteFromList
<1>2. /\ UNCHANGED <<mLogWriteList, type, manager, gEnableLogoutColor, nulled, walkVars, misused>>
      /\ dying = 0
  BY DEF DelLogWriteFromList
<1>3. dying' \in Nat /\ dying' \in Range(mLogWriteList)
  <2>1. /\ DOMAIN mLogWriteList = 1..Len(mLogWriteList)
        /\ \A i \in 1..Len(mLogWriteList) : mLogWriteList[i] \in Nat
        /\ Range(mLogWriteList) = {mLogWriteList[i] : i \in 1..Len(mLogWriteList)}
    BY LenProperties, RangeIs DEF MgrInv, ManagerKinds
  <2> QED
    BY <1>1, <2>1
<1>4. ManagerKinds'
  BY <1>1, <1>2, <1>3 DEF MgrInv, ManagerKinds, walkVars, eventVars
<1>5. ListInOrder' /\ DeletedIsEmpty' /\ DyingIsListed'
  BY <1>1, <1>2, <1>3 DEF MgrInv, ListInOrder, DeletedIsEmpty, DyingIsListed, Increasing, Numbers
<1>6. WalkInOrder'
  <2> SUFFICES ASSUME NEW t \in Loggers PROVE WalkOf(t)'
    BY DEF WalkInOrder
  <2>1. WalkOf(t)
    BY DEF MgrInv, WalkInOrder
  <2>2. /\ it'[t] = it[t] /\ walkAt'[t] = walkAt[t] /\ enableColor'[t] = enableColor[t]
        /\ asked'[t] = asked[t] /\ seen'[t] = seen[t] /\ first'[t] = first[t]
        /\ mLogWriteList' = mLogWriteList /\ type' = type
    BY <1>2 DEF walkVars, eventVars
  <2>3. AtWriter(t) /\ it[t] <= dying' => gone'
    BY <1>1 DEF AtWriter, NotPast
  <2>4. gone => gone'
    BY <1>1
  <2>5. ColoursOf(t)'
    BY <2>1, <2>2 DEF WalkOf, ColoursOf
  <2>6. PlaceOf(t)'
    BY <2>1, <2>2, <2>3, <2>4 DEF WalkOf, PlaceOf, AtWriter, Numbers
  <2>7. GivenOf(t)'
    <3>1. \A w \in first[t] : w # dying
      BY <1>2, <2>1 DEF WalkOf, GivenOf, Numbers
    <3>2. AtWriter(t) => \A w \in first[t] \cap Range(mLogWriteList) :
                            w \in Range(seen[t]) \/ w >= Left(t)
      BY <2>1, <3>1 DEF WalkOf, GivenOf
    <3>3. (walkAt[t] = "look" /\ it[t] = 0) \/ walkAt[t] = "ended" =>
             first[t] \cap Range(mLogWriteList) \subseteq Range(seen[t])
      BY <2>1, <3>1 DEF WalkOf, GivenOf
    <3>4. (AtWriter(t)' <=> AtWriter(t)) /\ Left(t)' = Left(t) /\ Numbers' = Numbers
      BY <2>2 DEF AtWriter, Left, Numbers
    <3> QED
      BY <2>1, <2>2, <3>2, <3>3, <3>4 DEF WalkOf, GivenOf, Increasing
  <2> QED
    BY <2>5, <2>6, <2>7 DEF WalkOf
<1>7. FirstKeepsColours' /\ MisusedOnlyAfterDelete'
  BY <1>1, <1>2 DEF MgrInv, FirstKeepsColours, MisusedOnlyAfterDelete, walkVars, eventVars
<1> QED
  BY <1>4, <1>5, <1>6, <1>7 DEF MgrInv

LEMMA EraseKeeps == ASSUME MgrInv, EraseNode PROVE MgrInv'
<1> DEFINE s == mLogWriteList
           s2 == mLogWriteList'
<1>1. PICK n \in DOMAIN s : s[n] = dying /\ s2 = RemoveAt(s, n)
  BY DEF EraseNode, Erased
<1>2. /\ UNCHANGED <<type, manager, gEnableLogoutColor, walkVars, gone, misused>>
      /\ manager = "live" /\ dying # 0 /\ dying' = 0 /\ nulled' = FALSE
  BY DEF EraseNode
<1>3. /\ s \in Seq(Nat) /\ Len(s) \in Nat /\ n \in 1..Len(s) /\ Range(s) \subseteq Numbers
      /\ Increasing(s)
      /\ \A i, j \in 1..Len(s) : type[s[i]] = type[s[j]] => i = j
  BY <1>1, LenProperties DEF MgrInv, ManagerKinds, ListInOrder
<1> HIDE DEF s, s2
<1>4. /\ s2 \in Seq(Nat) /\ Len(s2) = Len(s) - 1
      /\ \A i \in 1..(Len(s) - 1) : s2[i] = IF i < n THEN s[i] ELSE s[i + 1]
  BY <1>1, <1>3, WithOneLess
<1>5. /\ Range(s) = {s[i] : i \in 1..Len(s)}
      /\ Range(s2) = {s2[i] : i \in 1..(Len(s) - 1)}
  BY <1>3, <1>4, RangeIs
<1>6. \A i \in 1..(Len(s) - 1) : \E j \in 1..Len(s) :
         s2[i] = s[j] /\ j = (IF i < n THEN i ELSE i + 1)
  BY <1>3, <1>4, SMTT(30)
<1>7. Range(s2) \subseteq Range(s)
  BY <1>5, <1>6
<1>8. \A x \in Range(s) : x = s[n] \/ x \in Range(s2)
  <2> SUFFICES ASSUME NEW j \in 1..Len(s), j # n PROVE s[j] \in Range(s2)
    BY <1>5
  <2>1. CASE j < n
    <3>1. j \in 1..(Len(s) - 1)
      BY <1>3, <2>1
    <3>2. s2[j] = s[j]
      BY <1>4, <2>1, <3>1
    <3> QED
      BY <1>5, <3>1, <3>2
  <2>2. CASE j > n
    <3> DEFINE i == j - 1
    <3>1. i \in 1..(Len(s) - 1) /\ ~ (i < n) /\ i + 1 = j
      BY <1>3, <2>2
    <3> HIDE DEF i
    <3> QED
      BY <1>4, <1>5, <3>1
  <2> QED
    BY <1>3, <2>1, <2>2
<1>9. ManagerKinds'
  BY <1>1, <1>2, <1>4 DEF MgrInv, ManagerKinds, walkVars, eventVars, s, s2
<1>10. ListInOrder'
  <2>1. Increasing(s2)
    <3> SUFFICES ASSUME NEW i \in 1..(Len(s) - 1), NEW j \in 1..(Len(s) - 1), i < j
                 PROVE  s2[i] < s2[j]
      BY <1>4 DEF Increasing
    <3>1. PICK a \in 1..Len(s) : s2[i] = s[a] /\ a = (IF i < n THEN i ELSE i + 1)
      BY <1>6
    <3>2. PICK b \in 1..Len(s) : s2[j] = s[b] /\ b = (IF j < n THEN j ELSE j + 1)
      BY <1>6
    <3>3. a < b
      BY <1>3, <3>1, <3>2
    <3> QED
      BY <1>3, <3>1, <3>2, <3>3 DEF Increasing
  <2>2. ASSUME NEW i \in 1..(Len(s) - 1), NEW j \in 1..(Len(s) - 1), type[s2[i]] = type[s2[j]]
        PROVE  i = j
    <3>1. PICK a \in 1..Len(s) : s2[i] = s[a] /\ a = (IF i < n THEN i ELSE i + 1)
      BY <1>6
    <3>2. PICK b \in 1..Len(s) : s2[j] = s[b] /\ b = (IF j < n THEN j ELSE j + 1)
      BY <1>6
    <3>3. a = b
      BY <1>3, <2>2, <3>1, <3>2
    <3> QED
      BY <1>3, <3>1, <3>2, <3>3
  <2>3. Numbers' = Numbers /\ type' = type /\ Len(type) > 0 /\ type[1] = "STDOUT"
    BY <1>2 DEF Numbers, MgrInv, ListInOrder
  <2> QED
    BY <1>3, <1>4, <1>7, <2>1, <2>2, <2>3 DEF ListInOrder, s, s2
<1>11. dying \notin Range(s2)
  <2> SUFFICES ASSUME NEW i \in 1..(Len(s) - 1), s2[i] = s[n] PROVE FALSE
    BY <1>1, <1>5
  <2>1. PICK j \in 1..Len(s) : s2[i] = s[j] /\ j = (IF i < n THEN i ELSE i + 1)
    BY <1>6
  <2>2. j = n
    BY <1>3, <2>1
  <2> QED
    BY <1>3, <2>1, <2>2
<1>12. WalkInOrder'
  <2> SUFFICES ASSUME NEW t \in Loggers PROVE WalkOf(t)'
    BY DEF WalkInOrder
  <2>1. WalkOf(t)
    BY DEF MgrInv, WalkInOrder
  <2>2. Numbers' = Numbers
    BY <1>2 DEF Numbers
  <2>3. /\ it'[t] = it[t] /\ walkAt'[t] = walkAt[t] /\ enableColor'[t] = enableColor[t]
        /\ asked'[t] = asked[t] /\ seen'[t] = seen[t] /\ first'[t] = first[t] /\ gone' = gone
    BY <1>2 DEF walkVars, eventVars
  <2>4. it[t] \in Nat /\ dying \in Nat
    BY DEF MgrInv, ManagerKinds
  <2>5. ColoursOf(t)'
    BY <2>1, <2>3 DEF WalkOf, ColoursOf
  <2>6. PlaceOf(t)'
    <3> SUFFICES ASSUME AtWriter(t) PROVE (it[t] \in Range(s2) \/ gone) /\ it[t] \in Numbers
      BY <1>2, <2>2, <2>3 DEF PlaceOf, AtWriter, s2
    <3>1. it[t] \in Range(s) \/ gone
      BY <2>1 DEF WalkOf, PlaceOf, s
    <3>2. it[t] = dying => gone
      BY <1>2, <2>1, <2>4 DEF WalkOf, PlaceOf
    <3> QED
      BY <1>1, <1>8, <2>1, <3>1, <3>2 DEF WalkOf, PlaceOf
  <2>7. GivenOf(t)'
    <3>1. \A w \in first[t] \cap Range(s2) : w \in first[t] \cap Range(s) /\ w # dying
      BY <1>7, <1>11
    <3>2. AtWriter(t) => \A w \in first[t] \cap Range(s2) : w \in Range(seen[t]) \/ w >= Left(t)
      BY <2>1, <3>1 DEF WalkOf, GivenOf, s
    <3>3. (walkAt[t] = "look" /\ it[t] = 0) \/ walkAt[t] = "ended" =>
             first[t] \cap Range(s2) \subseteq Range(seen[t])
      BY <2>1, <3>1 DEF WalkOf, GivenOf, s
    <3>4. (AtWriter(t)' <=> AtWriter(t)) /\ Left(t)' = Left(t)
      BY <2>3 DEF AtWriter, Left
    <3> QED
      BY <2>1, <2>2, <2>3, <3>2, <3>3, <3>4 DEF WalkOf, GivenOf, Increasing, s2
  <2> QED
    BY <2>5, <2>6, <2>7 DEF WalkOf
<1>13. /\ DeletedIsEmpty' /\ DyingIsListed' /\ FirstKeepsColours' /\ MisusedOnlyAfterDelete'
  BY <1>1, <1>2 DEF MgrInv, DeletedIsEmpty, DyingIsListed, FirstKeepsColours,
                    MisusedOnlyAfterDelete, walkVars, eventVars
<1> QED
  BY <1>9, <1>10, <1>12, <1>13 DEF MgrInv

LEMMA DeleteManagerKeeps == ASSUME MgrInv, DeleteManager PROVE MgrInv'
<1>1. /\ UNCHANGED <<type, gEnableLogoutColor, dying, nulled, walkVars>>
      /\ manager' = "deleted" /\ mLogWriteList' = <<>>
      /\ gone' = TRUE /\ misused' = (dying # 0)
  BY DEF DeleteManager
<1>2. mLogWriteList' \in Seq(Nat) /\ Len(mLogWriteList') = 0 /\ Range(mLogWriteList') = {}
  BY <1>1, RangeOfEmpty, EmptySeq
<1>3. ManagerKinds'
  BY <1>1, <1>2 DEF MgrInv, ManagerKinds, walkVars, eventVars
<1>4. ListInOrder'
  BY <1>1, <1>2 DEF MgrInv, ListInOrder, Increasing, Numbers
<1>5. WalkInOrder'
  <2> SUFFICES ASSUME NEW t \in Loggers PROVE WalkOf(t)'
    BY DEF WalkInOrder
  <2>1. WalkOf(t)
    BY DEF MgrInv, WalkInOrder
  <2>2. /\ it'[t] = it[t] /\ walkAt'[t] = walkAt[t] /\ enableColor'[t] = enableColor[t]
        /\ asked'[t] = asked[t] /\ seen'[t] = seen[t] /\ first'[t] = first[t]
    BY <1>1 DEF walkVars, eventVars
  <2>3. ColoursOf(t)'
    BY <2>1, <2>2 DEF WalkOf, ColoursOf
  <2>4. PlaceOf(t)'
    BY <1>1, <2>1, <2>2 DEF WalkOf, PlaceOf, AtWriter, Numbers
  <2>5. GivenOf(t)'
    BY <1>1, <1>2, <2>1, <2>2 DEF WalkOf, GivenOf, AtWriter, Left, Increasing, Numbers
  <2> QED
    BY <2>3, <2>4, <2>5 DEF WalkOf
<1>6. /\ DeletedIsEmpty' /\ DyingIsListed' /\ FirstKeepsColours' /\ MisusedOnlyAfterDelete'
  BY <1>1 DEF MgrInv, DeletedIsEmpty, DyingIsListed, FirstKeepsColours, MisusedOnlyAfterDelete,
              walkVars, eventVars
<1> QED
  BY <1>3, <1>4, <1>5, <1>6 DEF MgrInv

\* Only gLogManager, its colours or what a node holds changes, or nothing at all.
LEMMA PointerKeeps ==
    ASSUME MgrInv, UNCHANGED <<mLogWriteList, type, dying, walkVars, gone, misused>>,
           gEnableLogoutColor' \in BOOLEAN, nulled' \in BOOLEAN,
           manager' = manager \/ ForgetManager
    PROVE  MgrInv'
<1>1. ManagerKinds'
  BY DEF MgrInv, ManagerKinds, walkVars, eventVars, ForgetManager
<1>2. ListInOrder' /\ DyingIsListed'
  BY DEF MgrInv, ListInOrder, DyingIsListed, Increasing, Numbers
<1>3. WalkInOrder'
  <2> SUFFICES ASSUME NEW t \in Loggers PROVE WalkOf(t)'
    BY DEF WalkInOrder
  <2> QED
    BY WalkKept DEF MgrInv, WalkInOrder, walkVars, eventVars
<1>4. DeletedIsEmpty' /\ FirstKeepsColours' /\ MisusedOnlyAfterDelete'
  BY DEF MgrInv, DeletedIsEmpty, FirstKeepsColours, MisusedOnlyAfterDelete, walkVars, eventVars,
         ForgetManager
<1> QED
  BY <1>1, <1>2, <1>3, <1>4 DEF MgrInv

LEMMA NextMgr == MgrInv /\ [ManagerNext]_managerVars => MgrInv'
<1> SUFFICES ASSUME MgrInv, [ManagerNext]_managerVars PROVE MgrInv'
  OBVIOUS
<1>1. ASSUME ~ misused, NEW t \in Loggers, LoggerStep(t) PROVE MgrInv'
  BY <1>1, LogKeeps, CallKeeps, LookKeeps, GiveKeeps, StepKeeps, UseDeletedKeeps, EndWalkKeeps,
     ReturnKeeps DEF LoggerStep
<1>2. gEnableLogoutColor \in BOOLEAN /\ nulled \in BOOLEAN
  BY DEF MgrInv, ManagerKinds
<1>3. CASE EditStep
  <2>1. CASE SetNull
    BY <1>2, <2>1, PointerKeeps DEF SetNull
  <2> QED
    BY <1>3, <2>1, AddKeeps, DelKeeps, EraseKeeps DEF EditStep
<1>4. ASSUME NEW flag \in BOOLEAN, EnableLogColor(flag) PROVE MgrInv'
  BY <1>2, <1>4, PointerKeeps DEF EnableLogColor
<1>5. CASE DeleteManager
  BY <1>5, DeleteManagerKeeps
<1>6. CASE ForgetManager
  BY <1>2, <1>6, PointerKeeps DEF ForgetManager
<1>7. CASE UNCHANGED managerVars
  BY <1>2, <1>7, PointerKeeps DEF managerVars, walkVars, eventVars
<1> QED
  BY <1>1, <1>3, <1>4, <1>5, <1>6, <1>7 DEF ManagerNext

\* The list is ordered by the numbers of its writers and has one of each type, and
\* every walk has given its event to all the writers behind its iterator, whatever the
\* deletion of a writer and of its node have come to.
THEOREM ManagerIInv == ManagerSpec => []MgrInv
BY InitMgr, NextMgr, PTL DEF ManagerSpec

LEMMA MgrSound == MgrInv => WritersSound
<1> SUFFICES ASSUME MgrInv PROVE WritersSound
  OBVIOUS
<1>1. EachWriterOnce
  <2> SUFFICES ASSUME NEW t \in Loggers, walkAt[t] = "ended"
               PROVE  /\ \A w \in first[t] \cap Range(mLogWriteList) : w = dying \/ w \in Range(seen[t])
                      /\ \A i, j \in DOMAIN seen[t] : i < j => seen[t][i] < seen[t][j]
    BY DEF EachWriterOnce
  <2>1. WalkOf(t) /\ DOMAIN seen[t] = 1..Len(seen[t])
    BY LenProperties DEF MgrInv, WalkInOrder, ManagerKinds
  <2> QED
    BY <2>1 DEF WalkOf, GivenOf, Increasing
<1>2. OneOfEachType
  <2> SUFFICES ASSUME NEW k \in Types PROVE Cardinality(OfType(k)) <= 1
    BY DEF OneOfEachType
  <2>1. Range(mLogWriteList) = {mLogWriteList[i] : i \in 1..Len(mLogWriteList)}
    BY RangeIs DEF MgrInv, ManagerKinds
  <2>2. ASSUME NEW v \in OfType(k), NEW w \in OfType(k) PROVE v = w
    <3>1. PICK m \in 1..Len(mLogWriteList) : v = mLogWriteList[m]
      BY <2>1 DEF OfType
    <3>2. PICK n \in 1..Len(mLogWriteList) : w = mLogWriteList[n]
      BY <2>1 DEF OfType
    <3> QED
      BY <3>1, <3>2 DEF MgrInv, ListInOrder, OfType
  <2>3. CASE OfType(k) = {}
    BY <2>3, FS_EmptySet
  <2>4. CASE OfType(k) # {}
    <3>1. PICK v \in OfType(k) : OfType(k) = {v}
      BY <2>2, <2>4
    <3>2. Cardinality({v}) = 1
      BY FS_Singleton
    <3> QED
      BY <3>1, <3>2
  <2> QED
    BY <2>3, <2>4
<1> QED
  BY <1>1, <1>2 DEF MgrInv, WritersSound

\* Whatever threads log while others add and delete writers, an event is given once
\* and in order to every writer that stays, and freed memory is used only once a writer
\* was deleted that a walk had still before it or was at, or the manager was.
THEOREM ManagerIsSound == ManagerSpec => []WritersSound
BY ManagerIInv, MgrSound, PTL
-----------------------------------------------------------------------------
(* Formatting a message into a buffer *)

\* The newline that log_write adds and the NUL behind it need two cells: EXPAND_SIZE
\* is 8 of them, "for \n \0" (log.cpp:14).
BufferAssumption == /\ MSG_BUF_SIZE \in Nat \ {0}
                    /\ EXPAND_SIZE \in Nat /\ EXPAND_SIZE >= 2
                    /\ MaxLength \in Nat

BufferSize == MSG_BUF_SIZE + EXPAND_SIZE
Message == [thread : BufThreads, length : Nat, newline : BOOLEAN, failed : BOOLEAN]
NoneFailed == \A k \in 1..Len(messages) : ~ messages[k].failed

\* Of the messages ms, x is NUL, the newline or text of thread t.
TextOf(ms, t, x) == \/ x \in {NUL, NL}
                    \/ x \in 1..Len(ms) /\ ms[x].thread = t

BufferKinds == /\ g_buf \in [BufThreads -> [0..(BufferSize - 1) -> Int]]
               /\ messages \in Seq(Message)
               /\ inBounds \in BOOLEAN

\* Nothing but the thread's own messages is ever in its buffer.
OwnBuffer == \A t \in BufThreads, i \in 0..(BufferSize - 1) : TextOf(messages, t, g_buf[t][i])

\* The last cell of a buffer ends every string, until a malloc() has failed.
LastIsNul == NoneFailed => \A t \in BufThreads : g_buf[t][BufferSize - 1] = NUL

BufInv == BufferKinds /\ OwnBuffer /\ LastIsNul /\ MessageWhole

\* The first NUL of a buffer, or its end.
LEMMA StringEnds ==
    ASSUME NEW span \in Nat, NEW buf \in [0..(span - 1) -> Int]
    PROVE  \E l \in 0..span : /\ CString(buf) = [i \in 1..l |-> buf[i - 1]]
                              /\ l < span => buf[l] = NUL
                              /\ \A j \in 0..(l - 1) : buf[j] # NUL
<1> DEFINE Stops == {k \in 0..span : k < span => buf[k] = NUL}
           Is(k) == (k \in DOMAIN buf => buf[k] = NUL) /\ \A j \in 0..(k - 1) : buf[j] # NUL
           l == CHOOSE k \in 0..span : Is(k)
<1>1. DOMAIN buf = 0..(span - 1) /\ Cardinality(DOMAIN buf) = span
  <2>1. Cardinality(0..(span - 1)) = IF 0 > span - 1 THEN 0 ELSE (span - 1) - 0 + 1
    BY FS_Interval
  <2> QED
    BY <2>1
<1>2. PICK x \in Stops : \A y \in Stops : ~ (<<y, x>> \in OpToRel(<, Nat))
  <2>1. span \in Stops /\ Stops \subseteq Nat
    OBVIOUS
  <2> QED
    BY <2>1, WFMin, NatLessThanWellFounded
<1>3. \A y \in Stops : ~ (y < x)
  <2> SUFFICES ASSUME NEW y \in Stops, y < x PROVE FALSE
    OBVIOUS
  <2>1. <<y, x>> \in OpToRel(<, Nat)
    BY DEF OpToRel
  <2> QED
    BY <1>2, <2>1
<1>4. x \in 0..span /\ Is(x)
  <2>1. x \in 0..span /\ (x < span => buf[x] = NUL)
    OBVIOUS
  <2>2. ASSUME NEW j \in 0..(x - 1) PROVE buf[j] # NUL
    <3>1. j \in 0..span /\ j < x /\ j < span
      BY <2>1
    <3> QED
      BY <1>3, <3>1
  <2> QED
    BY <1>1, <2>1, <2>2
<1>5. l \in 0..span /\ Is(l)
  BY <1>4
<1>6. CString(buf) = [i \in 1..l |-> buf[i - 1]]
  BY <1>1 DEF CString
<1> HIDE DEF l
<1>7. l < span => buf[l] = NUL
  BY <1>1, <1>5
<1> QED
  BY <1>5, <1>6, <1>7

\* What a formatted buffer holds: the message, a NUL at the end of what may be used,
\* the newline behind the message, and what was there before.
Formatted(r, span, outSize, buf, m, n, nl) ==
    /\ r \in [0..(span - 1) -> Int]
    /\ \A i \in 0..(span - 1) : /\ i < n /\ i < outSize - 1 => r[i] = Char(m, n, nl, i)
                                /\ i >= outSize /\ i # n => r[i] = buf[i]
                                /\ r[i] \in {NUL, NL, m, buf[i]}
    /\ n # outSize - 1 => r[outSize - 1] = NUL

LEMMA FormattedIs ==
    ASSUME NEW span \in Nat, NEW outSize \in 1..span, NEW buf \in [0..(span - 1) -> Int],
           NEW m \in Nat \ {0}, NEW n \in Nat, NEW nl \in BOOLEAN,
           NEW r, r = Terminate(Vsnprintf(buf, outSize, m, n, nl), outSize, n)
    PROVE  Formatted(r, span, outSize, buf, m, n, nl)
<1> DEFINE v == Vsnprintf(buf, outSize, m, n, nl)
           closed == [v EXCEPT ![outSize - 1] = NUL]
           ended == [i \in DOMAIN v |-> IF i = n THEN NL ELSE closed[i]]
           Cells == 0..(span - 1)
<1>1. \A i : Char(m, n, nl, i) \in {NL, m}
  BY DEF Char
<1>2. /\ NUL \in Int /\ NL \in Int /\ outSize - 1 \in Cells /\ outSize \in Nat /\ outSize >= 1
      /\ DOMAIN buf = Cells
  BY DEF NUL, NL
<1>3. /\ v \in [Cells -> Int]
      /\ \A i \in Cells : v[i] = IF i < n /\ i < outSize - 1 THEN Char(m, n, nl, i)
                                 ELSE IF i = outSize - 1 \/ (i = n /\ n < outSize) THEN NUL
                                 ELSE buf[i]
  BY <1>1, <1>2 DEF Vsnprintf
<1> HIDE DEF v
<1>4. /\ closed \in [Cells -> Int] /\ DOMAIN v = Cells
      /\ \A i \in Cells : closed[i] = IF i = outSize - 1 THEN NUL ELSE v[i]
  BY <1>2, <1>3
<1> HIDE DEF closed
<1>5. /\ ended \in [Cells -> Int]
      /\ \A i \in Cells : ended[i] = IF i = n THEN NL ELSE closed[i]
  BY <1>2, <1>4
<1>6. r = closed \/ r = ended
  BY DEF Terminate, v, closed
<1> HIDE DEF ended
<1>7. r \in [Cells -> Int] /\ \A i \in Cells : r[i] = closed[i] \/ (i = n /\ r[i] = NL)
  BY <1>4, <1>5, <1>6
<1>8. ASSUME NEW i \in Cells
      PROVE  /\ i < n /\ i < outSize - 1 => r[i] = Char(m, n, nl, i)
             /\ i >= outSize /\ i # n => r[i] = buf[i]
             /\ r[i] \in {NUL, NL, m, buf[i]}
  <2>1. closed[i] = IF i = outSize - 1 THEN NUL ELSE v[i]
    BY <1>4
  <2>2. v[i] = IF i < n /\ i < outSize - 1 THEN Char(m, n, nl, i)
               ELSE IF i = outSize - 1 \/ (i = n /\ n < outSize) THEN NUL ELSE buf[i]
    BY <1>3
  <2>3. r[i] = closed[i] \/ (i = n /\ r[i] = NL)
    BY <1>7
  <2>4. i < n /\ i < outSize - 1 => r[i] = Char(m, n, nl, i)
    BY <1>2, <2>1, <2>2, <2>3
  <2>5. i >= outSize /\ i # n => r[i] = buf[i]
    BY <1>2, <2>1, <2>2, <2>3
  <2>6. r[i] \in {NUL, NL, m, buf[i]}
    BY <1>1, <2>1, <2>2, <2>3
  <2> QED
    BY <2>4, <2>5, <2>6
<1>9. n # outSize - 1 => r[outSize - 1] = NUL
  BY <1>2, <1>4, <1>7
<1> QED
  BY <1>7, <1>8, <1>9 DEF Formatted
\* The length of a text that is given by its positions.
LEMMA TextLength ==
    ASSUME NEW l \in Nat, NEW f, \A i \in 1..l : f[i - 1] \in Int,
           NEW text, text = [i \in 1..l |-> f[i - 1]]
    PROVE  text \in Seq(Int) /\ Len(text) = l /\ \A i \in 1..l : text[i] = f[i - 1]
<1>1. text \in [1..l -> Int]
  OBVIOUS
<1>2. text \in Seq(Int)
  BY <1>1, SeqDef
<1>3. Len(text) \in Nat /\ DOMAIN text = 1..Len(text) /\ DOMAIN text = 1..l
  BY <1>1, <1>2, LenProperties
<1>4. Len(text) = l
  <2>1. 1..Len(text) = 1..l
    BY <1>3
  <2>2. l > 0 => l \in 1..Len(text)
    BY <2>1
  <2>3. Len(text) > 0 => Len(text) \in 1..l
    BY <1>3, <2>1
  <2> QED
    BY <1>3, <2>2, <2>3
<1> QED
  BY <1>2, <1>4

\* A message keeps what BufInv says, in the thread's buffer and in memory of its own.
LEMMA FormatKeeps ==
    ASSUME BufferAssumption, BufInv, NEW t \in BufThreads, NEW n \in Nat, NEW nl \in BOOLEAN,
           nl => n > 0, NEW own \in BOOLEAN,
           NEW span \in Nat, NEW outSize \in 1..span, NEW buf \in [0..(span - 1) -> Int],
           Format(t, n, nl, buf, outSize, own),
           \/ ~ own /\ span = BufferSize /\ outSize = MSG_BUF_SIZE /\ buf = g_buf[t]
           \/ own /\ n > MSG_BUF_SIZE /\ span = n + EXPAND_SIZE /\ outSize = n
    PROVE  BufInv'
<1> DEFINE m == Len(messages) + 1
           r == Terminate(Vsnprintf(buf, outSize, m, n, nl), outSize, n)
           failed == n > MSG_BUF_SIZE /\ ~ own
           new == [thread |-> t, length |-> n, newline |-> nl, failed |-> failed]
           kept == IF failed THEN MSG_BUF_SIZE - 1 ELSE IF n < MSG_BUF_SIZE THEN n ELSE n - 1
<1>1. /\ MSG_BUF_SIZE \in Nat /\ MSG_BUF_SIZE > 0 /\ EXPAND_SIZE \in Nat /\ EXPAND_SIZE >= 2
      /\ BufferSize = MSG_BUF_SIZE + EXPAND_SIZE
  BY DEF BufferAssumption, BufferSize
<1>2. /\ messages' = Append(messages, new) /\ shown' = CString(r)
      /\ inBounds' = (inBounds /\ Ended(r) /\ (n > 0 => n - 1 \in DOMAIN buf)
                      /\ (n > 0 /\ ~ nl => n \in DOMAIN buf))
      /\ g_buf' = IF own THEN g_buf ELSE [g_buf EXCEPT ![t] = r]
  BY DEF Format, BufferOf
<1>3. /\ messages \in Seq(Message) /\ Len(messages) \in Nat /\ m \in Nat \ {0}
      /\ DOMAIN messages = 1..Len(messages)
      /\ g_buf \in [BufThreads -> [0..(BufferSize - 1) -> Int]] /\ inBounds \in BOOLEAN
  BY LenProperties DEF BufInv, BufferKinds
<1>0. r = Terminate(Vsnprintf(buf, outSize, m, n, nl), outSize, n)
  OBVIOUS
<1> HIDE DEF r
<1>4. /\ r \in [0..(span - 1) -> Int]
      /\ \A i \in 0..(span - 1) : /\ i < n /\ i < outSize - 1 => r[i] = Char(m, n, nl, i)
                                  /\ i >= outSize /\ i # n => r[i] = buf[i]
                                  /\ r[i] \in {NUL, NL, m, buf[i]}
      /\ n # outSize - 1 => r[outSize - 1] = NUL
  <2> HIDE DEF m, failed, new, kept
  <2>1. Formatted(r, span, outSize, buf, m, n, nl)
    BY <1>0, <1>3, FormattedIs
  <2> QED
    BY <2>1 DEF Formatted
<1>5. PICK l \in 0..span : /\ shown' = [i \in 1..l |-> r[i - 1]]
                           /\ l < span => r[l] = NUL
                           /\ \A j \in 0..(l - 1) : r[j] # NUL
  BY <1>2, <1>4, StringEnds
<1>6. shown' \in Seq(Int) /\ Len(shown') = l /\ \A i \in 1..l : shown'[i] = r[i - 1]
  <2>1. \A i \in 1..l : i - 1 \in 0..(span - 1)
    BY <1>5
  <2>2. \A i \in 1..l : r[i - 1] \in Int
    BY <1>4, <2>1
  <2>3. l \in Nat /\ shown' = [i \in 1..l |-> r[i - 1]]
    BY <1>5
  <2> QED
    BY <2>2, <2>3, TextLength
<1>7. new \in Message
  BY DEF Message
<1> HIDE DEF new
<1>8. /\ messages' \in Seq(Message) /\ Len(messages') = m /\ messages'[m] = new
      /\ \A k \in 1..Len(messages) : messages'[k] = messages[k]
      /\ DOMAIN messages' = 1..m
  <2>1. messages' \in Seq(Message) /\ Len(messages') = m
    BY <1>2, <1>3, <1>7
  <2> QED
    BY <1>2, <1>3, <1>7, <2>1, LenProperties
<1>9. new.thread = t /\ new.length = n /\ new.newline = nl /\ new.failed = failed
  BY DEF new
<1>10. \A i : Char(m, n, nl, i) \in {NL, m} /\ Char(m, n, nl, i) # NUL
  BY <1>3 DEF Char, NL, NUL
<1>11. kept \in Nat /\ kept <= n /\ kept <= outSize - 1
  BY <1>1
<1>12. l >= kept
  <2> SUFFICES ASSUME l < kept PROVE FALSE
    BY <1>5, <1>11
  <2>1. l \in 0..(span - 1) /\ l < n /\ l < outSize - 1
    BY <1>5, <1>11
  <2> QED
    BY <1>4, <1>5, <1>10, <2>1
<1>13. Complete'
  <2>1. \A i \in 1..kept : shown'[i] = Char(m, n, nl, i - 1)
    <3> SUFFICES ASSUME NEW i \in 1..kept PROVE shown'[i] = Char(m, n, nl, i - 1)
      OBVIOUS
    <3>1. i \in 1..l /\ i - 1 \in 0..(span - 1) /\ i - 1 < n /\ i - 1 < outSize - 1
      BY <1>5, <1>11, <1>12
    <3> QED
      BY <1>4, <1>6, <3>1
  <2>2. Latest' = new
    BY <1>8 DEF Latest
  <2> HIDE DEF m, failed
  <2> QED
    BY <1>6, <1>8, <1>9, <1>12, <2>1, <2>2 DEF Complete
<1>14. \A u \in BufThreads : \A x : TextOf(messages, u, x) => TextOf(messages', u, x)
  BY <1>3, <1>8 DEF TextOf
<1>15. TextOf(messages', t, NUL) /\ TextOf(messages', t, NL) /\ TextOf(messages', t, m)
  BY <1>3, <1>8, <1>9 DEF TextOf
<1>16. ~ own => \A i \in 0..(span - 1) : TextOf(messages', t, r[i])
  <2> SUFFICES ASSUME ~ own, NEW i \in 0..(span - 1) PROVE TextOf(messages', t, r[i])
    OBVIOUS
  <2>1. TextOf(messages, t, buf[i])
    BY DEF BufInv, OwnBuffer
  <2> QED
    BY <1>4, <1>14, <1>15, <2>1
<1>17. NoForeignText'
  <2> SUFFICES ASSUME NEW i \in 1..l PROVE TextOf(messages', t, shown'[i])
    <3>1. Latest' = new
      BY <1>8 DEF Latest
    <3> QED
      BY <1>6, <1>9, <3>1 DEF NoForeignText, TextOf
  <2>1. i - 1 \in 0..(span - 1) /\ shown'[i] = r[i - 1]
    BY <1>5, <1>6
  <2>2. CASE ~ own
    BY <1>16, <2>1, <2>2
  <2>3. CASE own
    <3>1. outSize = n /\ outSize - 1 \in 0..(span - 1) /\ r[outSize - 1] = NUL
      BY <1>1, <1>4, <2>3
    <3>2. i - 1 < outSize - 1
      <4>1. outSize - 1 \notin 0..(l - 1)
        BY <1>5, <3>1
      <4> QED
        BY <1>5, <4>1
    <3>3. shown'[i] \in {NL, m}
      BY <1>4, <1>10, <2>1, <3>1, <3>2
    <3> QED
      BY <1>15, <3>3
  <2> QED
    BY <2>2, <2>3
<1>18. BufferKinds'
  <2>1. g_buf' \in [BufThreads -> [0..(BufferSize - 1) -> Int]]
    BY <1>2, <1>3, <1>4
  <2>2. inBounds' \in BOOLEAN
    BY <1>2
  <2> QED
    BY <1>8, <2>1, <2>2 DEF BufferKinds, BufferSize
<1>19. OwnBuffer'
  <2> SUFFICES ASSUME NEW u \in BufThreads, NEW i \in 0..(BufferSize - 1)
               PROVE  TextOf(messages', u, g_buf'[u][i])
    BY DEF OwnBuffer, BufferSize
  <2>1. TextOf(messages, u, g_buf[u][i])
    BY DEF BufInv, OwnBuffer
  <2>2. CASE own \/ u # t
    <3>1. g_buf'[u] = g_buf[u]
      BY <1>2, <1>3, <2>2
    <3> QED
      BY <1>14, <2>1, <3>1
  <2>3. CASE ~ own /\ u = t
    <3>1. g_buf'[u] = r /\ span = BufferSize
      BY <1>2, <1>3, <2>3
    <3> QED
      BY <1>16, <2>3, <3>1
  <2> QED
    BY <2>2, <2>3
<1>20. NoneFailed' => NoneFailed /\ ~ failed
  <2> HIDE DEF m, failed
  <2>1. NoneFailed' => \A k \in 1..m : ~ messages'[k].failed
    BY <1>8 DEF NoneFailed
  <2>2. m \in 1..m /\ \A k \in 1..Len(messages) : k \in 1..m
    BY <1>3 DEF m
  <2> QED
    BY <1>8, <1>9, <2>1, <2>2 DEF NoneFailed
<1>21. ~ failed /\ ~ own /\ NoneFailed => r[BufferSize - 1] = NUL
  <2> SUFFICES ASSUME ~ failed, ~ own, NoneFailed PROVE r[BufferSize - 1] = NUL
    OBVIOUS
  <2>1. /\ BufferSize - 1 \in 0..(span - 1) /\ BufferSize - 1 >= outSize
        /\ BufferSize - 1 # n
    BY <1>1
  <2>2. buf[BufferSize - 1] = NUL
    BY DEF BufInv, LastIsNul
  <2> QED
    BY <1>4, <2>1, <2>2
<1>22. LastIsNul'
  <2> SUFFICES ASSUME NoneFailed', NEW u \in BufThreads PROVE g_buf'[u][BufferSize - 1] = NUL
    BY DEF LastIsNul, BufferSize
  <2>1. g_buf[u][BufferSize - 1] = NUL /\ NoneFailed /\ ~ failed
    BY <1>20 DEF BufInv, LastIsNul
  <2>2. CASE own \/ u # t
    BY <1>2, <1>3, <2>1, <2>2
  <2>3. CASE ~ own /\ u = t
    <3>1. g_buf'[u] = r
      BY <1>2, <1>3, <2>3
    <3> QED
      BY <1>21, <2>1, <2>3, <3>1
  <2> QED
    BY <2>2, <2>3
<1>23. InBounds'
  <2>1. CASE ~ NoneFailed'
    BY <1>8, <2>1 DEF NoneFailed, InBounds
  <2>2. CASE NoneFailed'
    <3>1. NoneFailed /\ ~ failed
      BY <1>20, <2>2
    <3>2. inBounds
      BY <1>3, <3>1 DEF BufInv, MessageWhole, InBounds, NoneFailed
    <3>3. Ended(r)
      <4>1. CASE own
        <5>1. outSize - 1 \in 0..(span - 1) /\ r[outSize - 1] = NUL
          BY <1>1, <1>4, <4>1
        <5> QED
          BY <1>4, <5>1 DEF Ended
      <4>2. CASE ~ own
        <5>1. BufferSize - 1 \in 0..(span - 1) /\ r[BufferSize - 1] = NUL
          BY <1>1, <1>21, <3>1, <4>2
        <5> QED
          BY <1>4, <5>1 DEF Ended
      <4> QED
        BY <4>1, <4>2
    <3>4. n < span
      BY <1>1, <3>1
    <3>5. n \in DOMAIN buf /\ (n > 0 => n - 1 \in DOMAIN buf)
      BY <3>4
    <3> QED
      BY <1>2, <3>2, <3>3, <3>5 DEF InBounds
  <2> QED
    BY <2>1, <2>2
<1> QED
  BY <1>13, <1>17, <1>18, <1>19, <1>22, <1>23 DEF BufInv, MessageWhole

LEMMA InitBuf == BufferAssumption /\ BufferInit => BufInv
<1> SUFFICES ASSUME BufferAssumption, BufferInit PROVE BufInv
  OBVIOUS
<1>1. /\ MSG_BUF_SIZE \in Nat /\ EXPAND_SIZE \in Nat /\ EXPAND_SIZE >= 2
      /\ BufferSize = MSG_BUF_SIZE + EXPAND_SIZE /\ BufferSize - 1 \in 0..(BufferSize - 1)
  BY DEF BufferAssumption, BufferSize
<1>2. g_buf = [t \in BufThreads |-> [i \in 0..(BufferSize - 1) |-> NUL]] /\ NUL \in Int
  BY <1>1 DEF BufferInit, NUL
<1>3. messages = <<>> /\ messages \in Seq(Message) /\ shown = <<>> /\ Len(shown) = 0 /\ inBounds
  BY DEF BufferInit
<1>4. BufferKinds
  BY <1>2, <1>3 DEF BufferKinds, BufferInit
<1>5. OwnBuffer /\ LastIsNul
  BY <1>1, <1>2 DEF OwnBuffer, LastIsNul, TextOf
<1>6. MessageWhole
  BY <1>3 DEF MessageWhole, Complete, NoForeignText, InBounds
<1> QED
  BY <1>4, <1>5, <1>6 DEF BufInv

LEMMA NextBuf == BufferAssumption /\ BufInv /\ [BufferNext]_bufferVars => BufInv'
<1> SUFFICES ASSUME BufferAssumption, BufInv, [BufferNext]_bufferVars PROVE BufInv'
  OBVIOUS
<1>1. /\ MSG_BUF_SIZE \in Nat /\ MSG_BUF_SIZE > 0 /\ EXPAND_SIZE \in Nat /\ EXPAND_SIZE >= 2
      /\ MaxLength \in Nat /\ BufferSize = MSG_BUF_SIZE + EXPAND_SIZE
  BY DEF BufferAssumption, BufferSize
<1>2. ASSUME NEW t \in BufThreads, NEW n \in Nat, NEW nl \in BOOLEAN, nl => n > 0,
             LogInBuffer(t, n, nl)
      PROVE  BufInv'
  <2>1. g_buf[t] \in [0..(BufferSize - 1) -> Int] /\ BufferSize \in Nat
        /\ MSG_BUF_SIZE \in 1..BufferSize
    BY <1>1 DEF BufInv, BufferKinds
  <2>2. Format(t, n, nl, g_buf[t], MSG_BUF_SIZE, FALSE)
    BY <1>2 DEF LogInBuffer, BufferOf
  <2> QED
    BY <1>2, <2>1, <2>2, FormatKeeps
<1>3. ASSUME NEW t \in BufThreads, NEW n \in Nat, NEW nl \in BOOLEAN, nl => n > 0,
             LogInMemory(t, n, nl)
      PROVE  BufInv'
  <2> DEFINE span == n + EXPAND_SIZE
  <2>1. n > MSG_BUF_SIZE /\ Format(t, n, nl, Fresh(n), n, TRUE)
    BY <1>3 DEF LogInMemory
  <2>2. span \in Nat /\ n \in 1..span
    BY <1>1, <2>1
  <2>4. Fresh(n) \in [0..(span - 1) -> Int]
    <3>1. Garbage \in Int
      BY DEF Garbage
    <3> QED
      BY <1>1, <3>1 DEF Fresh
  <2> HIDE DEF span
  <2>3. span = n + EXPAND_SIZE
    BY DEF span
  <2> QED
    BY <1>3, <2>1, <2>2, <2>3, <2>4, FormatKeeps
<1>4. CASE UNCHANGED bufferVars
  BY <1>4 DEF bufferVars, BufInv, BufferKinds, OwnBuffer, LastIsNul, NoneFailed, TextOf, MessageWhole,
              Complete, Latest, NoForeignText, InBounds
<1>5. 0..MaxLength \subseteq Nat
  BY <1>1
<1> QED
  BY <1>2, <1>3, <1>4, <1>5 DEF BufferNext

\* Whatever the sizes of the buffers and the messages, with room for the newline and
\* a NUL: a message is handed on whole, with no text of another thread, and inside
\* its buffer until a malloc() fails.
THEOREM BufferIsSound ==
    ASSUME BufferAssumption
    PROVE  BufferSpec => []MessageWhole
<1>1. BufferInit => BufInv
  BY InitBuf
<1>2. BufInv /\ [BufferNext]_bufferVars => BufInv'
  BY NextBuf
<1>3. BufInv => MessageWhole
  BY DEF BufInv
<1> QED
  BY <1>1, <1>2, <1>3, PTL DEF BufferSpec

-----------------------------------------------------------------------------
(* LogConsole: what is between the applications and the viewers, in lanes.  *)
(* The first is what logcat holds and what is left of the connection it     *)
(* reads, the others are the connections behind that one.                   *)

ConsoleMsg == [app : Apps, n : Nat] \cup {None}
Packet == [msg : ConsoleMsg, last : BOOLEAN]

\* Units of an application's messages, in the order in which it sent them; w may be
\* anything that is part of a notice or of no message.
Earlier(u, w) == u.msg.app = w.msg.app /\ w.msg.n # 0 =>
                     u.msg.n < w.msg.n \/ (u.msg.n = w.msg.n /\ ~ u.last /\ w.last)

InOneLane(s) == \A p, q \in 1..Len(s) : p < q => Earlier(s[p], s[q])
BetweenLanes(s, t) == \A p \in 1..Len(s), q \in 1..Len(t) : Earlier(s[p], t[q])
LanesOrdered(L) == /\ \A i \in 1..Len(L) : InOneLane(L[i])
                   /\ \A i, j \in 1..Len(L) : i < j => BetweenLanes(L[i], L[j])

Waiting(L) == {u \in Packet : \E i \in 1..Len(L) : \E p \in 1..Len(L[i]) : L[i][p] = u}

\* Whole messages, one after the other.
Paired(s) == \A i \in 1..Len(s) :
                 IF s[i].last THEN i > 1 /\ ~ s[i - 1].last /\ s[i - 1].msg = s[i].msg
                              ELSE i < Len(s) /\ s[i + 1].last

LanesPaired(L) == \A i \in 1..Len(L) : Paired(L[i])

\* s is sent on lane k, which may be a new one.
LaneAt(L, k) == IF k \in 1..Len(L) THEN L[k] ELSE <<>>
AddedTo(L, M, k, s) == /\ L \in Seq(Seq(Packet)) /\ M \in Seq(Seq(Packet)) /\ s \in Seq(Packet)
                       /\ k \in 1..Len(M)
                       /\ 1..Len(L) \subseteq 1..Len(M) /\ 1..Len(M) \subseteq 1..Len(L) \cup {k}
                       /\ \A j \in 1..Len(M) : M[j] = IF j = k THEN LaneAt(L, k) \o s ELSE L[j]

\* The connection of the first lane is gone, and the next one is read.
JoinedLanes(L, M) == /\ L \in Seq(Seq(Packet)) /\ M \in Seq(Seq(Packet))
                     /\ Len(L) = Len(M) + 1 /\ Len(M) > 0
                     /\ M[1] = L[1] \o L[2]
                     /\ \A j \in 2..Len(M) : M[j] = L[j + 1]

\* The first e units of the first lane are taken out.
TakenOut(L, M, e) == /\ L \in Seq(Seq(Packet)) /\ M \in Seq(Seq(Packet))
                     /\ Len(L) = Len(M) /\ Len(M) > 0
                     /\ e \in 0..Len(L[1])
                     /\ M[1] = SubSeq(L[1], e + 1, Len(L[1]))
                     /\ \A j \in 2..Len(M) : M[j] = L[j]

LEMMA LaneIs ==
  ASSUME NEW L \in Seq(Seq(Packet)), NEW i \in 1..Len(L)
  PROVE  /\ Len(L) \in Nat /\ L[i] \in Seq(Packet) /\ Len(L[i]) \in Nat
         /\ \A p \in 1..Len(L[i]) : L[i][p] \in Packet /\ L[i][p] \in Waiting(L)
<1>1. Len(L) \in Nat /\ L[i] \in Seq(Packet)
  BY LenProperties, ElementOfSeq
<1>2. Len(L[i]) \in Nat
  BY <1>1, LenProperties
<1>3. \A p \in 1..Len(L[i]) : L[i][p] \in Packet
  BY <1>1, ElementOfSeq
<1> QED
  BY <1>1, <1>2, <1>3 DEF Waiting

\* Two pieces in order, in one lane.
LEMMA OrderedConcat ==
  ASSUME NEW s \in Seq(Packet), NEW t \in Seq(Packet),
         InOneLane(s), InOneLane(t), BetweenLanes(s, t)
  PROVE  InOneLane(s \o t)
<1>1. Len(s) \in Nat /\ Len(t) \in Nat
  BY LenProperties
<1>2. /\ Len(s \o t) = Len(s) + Len(t)
      /\ \A i \in 1..(Len(s) + Len(t)) : (s \o t)[i] = IF i <= Len(s) THEN s[i] ELSE t[i - Len(s)]
  BY ConcatProperties
<1> SUFFICES ASSUME NEW p \in 1..(Len(s) + Len(t)), NEW q \in 1..(Len(s) + Len(t)), p < q
             PROVE  Earlier((s \o t)[p], (s \o t)[q])
  BY <1>2 DEF InOneLane
<1>3. CASE q <= Len(s)
  BY <1>1, <1>2, <1>3 DEF InOneLane
<1>4. CASE p <= Len(s) /\ q > Len(s)
  <2>1. q - Len(s) \in 1..Len(t) /\ p \in 1..Len(s)
    BY <1>1, <1>4
  <2>2. (s \o t)[p] = s[p] /\ (s \o t)[q] = t[q - Len(s)]
    BY <1>1, <1>2, <1>4
  <2> QED
    BY <2>1, <2>2 DEF BetweenLanes
<1>5. CASE p > Len(s)
  <2>1. q - Len(s) \in 1..Len(t) /\ p - Len(s) \in 1..Len(t) /\ p - Len(s) < q - Len(s)
    BY <1>1, <1>5
  <2>2. (s \o t)[p] = t[p - Len(s)] /\ (s \o t)[q] = t[q - Len(s)]
    BY <1>1, <1>2, <1>5
  <2> QED
    BY <2>1, <2>2 DEF InOneLane
<1> QED
  BY <1>1, <1>3, <1>4, <1>5

LEMMA BetweenConcat ==
  ASSUME NEW s \in Seq(Packet), NEW t \in Seq(Packet), NEW r \in Seq(Packet)
  PROVE  /\ BetweenLanes(s, r) /\ BetweenLanes(t, r) => BetweenLanes(s \o t, r)
         /\ BetweenLanes(r, s) /\ BetweenLanes(r, t) => BetweenLanes(r, s \o t)
<1>1. Len(s) \in Nat /\ Len(t) \in Nat
  BY LenProperties
<1>2. /\ Len(s \o t) = Len(s) + Len(t)
      /\ \A i \in 1..(Len(s) + Len(t)) : (s \o t)[i] = IF i <= Len(s) THEN s[i] ELSE t[i - Len(s)]
  BY ConcatProperties
<1>3. \A i \in 1..(Len(s) + Len(t)) : ~ i <= Len(s) => i - Len(s) \in 1..Len(t)
  BY <1>1
<1>4. \A i \in 1..(Len(s) + Len(t)) : i <= Len(s) => i \in 1..Len(s)
  BY <1>1
<1> QED
  BY <1>2, <1>3, <1>4 DEF BetweenLanes

LEMMA PairedConcat ==
  ASSUME NEW s \in Seq(Packet), NEW t \in Seq(Packet), Paired(s), Paired(t)
  PROVE  Paired(s \o t)
<1>1. Len(s) \in Nat /\ Len(t) \in Nat
  BY LenProperties
<1>2. /\ Len(s \o t) = Len(s) + Len(t)
      /\ \A i \in 1..(Len(s) + Len(t)) : (s \o t)[i] = IF i <= Len(s) THEN s[i] ELSE t[i - Len(s)]
  BY ConcatProperties
<1> SUFFICES ASSUME NEW i \in 1..(Len(s) + Len(t))
             PROVE  IF (s \o t)[i].last
                    THEN i > 1 /\ ~ (s \o t)[i - 1].last /\ (s \o t)[i - 1].msg = (s \o t)[i].msg
                    ELSE i < Len(s) + Len(t) /\ (s \o t)[i + 1].last
  BY <1>2 DEF Paired
<1>3. CASE i <= Len(s)
  <2>1. i \in 1..Len(s)
    BY <1>1, <1>3
  <2>2. IF s[i].last THEN i > 1 /\ ~ s[i - 1].last /\ s[i - 1].msg = s[i].msg
                     ELSE i < Len(s) /\ s[i + 1].last
    BY <2>1 DEF Paired
  <2>3. (s \o t)[i] = s[i] /\ (i > 1 => (s \o t)[i - 1] = s[i - 1])
        /\ (i < Len(s) => (s \o t)[i + 1] = s[i + 1])
    BY <1>1, <1>2, <1>3
  <2> QED
    BY <1>1, <2>1, <2>2, <2>3
<1>4. CASE i > Len(s)
  <2> DEFINE k == i - Len(s)
  <2>1. k \in 1..Len(t)
    BY <1>1, <1>4
  <2>2. IF t[k].last THEN k > 1 /\ ~ t[k - 1].last /\ t[k - 1].msg = t[k].msg
                     ELSE k < Len(t) /\ t[k + 1].last
    BY <2>1 DEF Paired
  <2>3. (s \o t)[i] = t[k] /\ (k > 1 => (s \o t)[i - 1] = t[k - 1])
        /\ (k < Len(t) => (s \o t)[i + 1] = t[k + 1])
    <3>1. (s \o t)[i] = t[k]
      BY <1>1, <1>2, <1>4
    <3>2. ASSUME k > 1 PROVE (s \o t)[i - 1] = t[k - 1]
      <4>1. i - 1 \in 1..(Len(s) + Len(t)) /\ ~ (i - 1 <= Len(s)) /\ (i - 1) - Len(s) = k - 1
        BY <1>1, <1>4, <3>2
      <4> QED
        BY <1>2, <4>1
    <3>3. ASSUME k < Len(t) PROVE (s \o t)[i + 1] = t[k + 1]
      <4>1. i + 1 \in 1..(Len(s) + Len(t)) /\ ~ (i + 1 <= Len(s)) /\ (i + 1) - Len(s) = k + 1
        BY <1>1, <1>4, <3>3
      <4> QED
        BY <1>2, <4>1
    <3> QED
      BY <3>1, <3>2, <3>3
  <2> QED
    BY <1>1, <1>4, <2>1, <2>2, <2>3
<1> QED
  BY <1>1, <1>3, <1>4

LEMMA AddedLane ==
  ASSUME NEW L, NEW M, NEW k, NEW s, AddedTo(L, M, k, s)
  PROVE  /\ LaneAt(L, k) \in Seq(Packet)
         /\ M[k] = LaneAt(L, k) \o s
         /\ \A i \in 1..Len(M) : i # k => i \in 1..Len(L) /\ M[i] = L[i]
         /\ \A i \in 1..Len(L) : i # k => i \in 1..Len(M) /\ M[i] = L[i]
         /\ \A i \in 1..Len(L) : i = k => LaneAt(L, k) = L[i]
         /\ k \in 1..Len(L) \/ LaneAt(L, k) = <<>>
<1>1. LaneAt(L, k) \in Seq(Packet)
  <2>1. <<>> \in Seq(Packet)
    OBVIOUS
  <2>2. k \in 1..Len(L) => L[k] \in Seq(Packet)
    BY ElementOfSeq DEF AddedTo
  <2> QED
    BY <2>1, <2>2 DEF LaneAt
<1>2. /\ k \in 1..Len(M)
      /\ 1..Len(L) \subseteq 1..Len(M) /\ 1..Len(M) \subseteq 1..Len(L) \cup {k}
      /\ \A j \in 1..Len(M) : M[j] = IF j = k THEN LaneAt(L, k) \o s ELSE L[j]
  BY DEF AddedTo
<1>3. \A i \in 1..Len(L) : i = k => LaneAt(L, k) = L[i]
  BY DEF LaneAt
<1>4. k \in 1..Len(L) \/ LaneAt(L, k) = <<>>
  BY DEF LaneAt
<1> QED
  BY <1>1, <1>2, <1>3, <1>4

LEMMA AddedWaits ==
  ASSUME NEW L, NEW M, NEW k, NEW s, AddedTo(L, M, k, s)
  PROVE  Waiting(M) = Waiting(L) \cup Range(s)
<1> DEFINE old == LaneAt(L, k)
<1>1. old \in Seq(Packet) /\ s \in Seq(Packet) /\ k \in 1..Len(M) /\ M \in Seq(Seq(Packet))
      /\ L \in Seq(Seq(Packet))
  BY AddedLane DEF AddedTo
<1>2. /\ \A i \in 1..Len(M) : i # k => i \in 1..Len(L) /\ M[i] = L[i]
      /\ \A i \in 1..Len(L) : i # k => i \in 1..Len(M) /\ M[i] = L[i]
      /\ \A i \in 1..Len(L) : i = k => old = L[i]
      /\ k \in 1..Len(L) \/ old = <<>>
      /\ M[k] = old \o s
  BY AddedLane
<1> HIDE DEF old
<1>3. Range(old \o s) = Range(old) \cup Range(s)
  BY <1>1, RangeConcatenation
<1>4. Range(old \o s) = {(old \o s)[i] : i \in 1..Len(old \o s)} /\ Range(old) = {old[i] : i \in 1..Len(old)}
      /\ Range(s) \subseteq Packet
  BY <1>1, RangeEquality, RangeOfSeq, ConcatProperties
<1>5. ASSUME NEW u \in Waiting(M) PROVE u \in Waiting(L) \cup Range(s)
  <2>1. PICK i \in 1..Len(M) : \E p \in 1..Len(M[i]) : M[i][p] = u
    BY <1>5 DEF Waiting
  <2>2. PICK p \in 1..Len(M[i]) : M[i][p] = u
    BY <2>1
  <2>3. u \in Packet
    BY DEF Waiting
  <2>4. CASE i # k
    BY <1>2, <2>2, <2>3, <2>4 DEF Waiting
  <2>5. CASE i = k
    <3>1. u \in Range(old) \cup Range(s)
      BY <1>2, <1>3, <1>4, <2>2, <2>5
    <3>2. ASSUME u \in Range(old) PROVE u \in Waiting(L)
      <4>1. PICK r \in 1..Len(old) : old[r] = u
        BY <1>4, <3>2
      <4>2. k \in 1..Len(L)
        <5>1. old # <<>>
          BY <4>1
        <5> QED
          BY <1>2, <5>1
      <4> QED
        BY <1>2, <2>3, <4>1, <4>2 DEF Waiting
    <3> QED
      BY <3>1, <3>2
  <2> QED
    BY <2>4, <2>5
<1>6. ASSUME NEW u \in Waiting(L) PROVE u \in Waiting(M)
  <2>1. PICK i \in 1..Len(L) : \E p \in 1..Len(L[i]) : L[i][p] = u
    BY <1>6 DEF Waiting
  <2>3. u \in Packet
    BY DEF Waiting
  <2>4. CASE i # k
    BY <1>2, <2>1, <2>3, <2>4 DEF Waiting
  <2>5. CASE i = k
    <3>1. u \in Range(old)
      BY <1>2, <1>4, <2>1, <2>5
    <3>2. PICK r \in 1..Len(old \o s) : (old \o s)[r] = u
      BY <1>3, <1>4, <3>1
    <3> QED
      BY <1>1, <1>2, <2>3, <3>2 DEF Waiting
  <2> QED
    BY <2>4, <2>5
<1>7. ASSUME NEW u \in Range(s) PROVE u \in Waiting(M)
  <2>1. PICK r \in 1..Len(old \o s) : (old \o s)[r] = u
    BY <1>3, <1>4
  <2> QED
    BY <1>1, <1>2, <1>4, <2>1 DEF Waiting
<1> QED
  BY <1>5, <1>6, <1>7

LEMMA AddedInOrder ==
  ASSUME NEW L, NEW M, NEW k, NEW s, AddedTo(L, M, k, s),
         LanesOrdered(L), InOneLane(s),
         \A u \in Waiting(L), q \in 1..Len(s) : Earlier(u, s[q]),
         \A j \in 1..Len(L) : k < j => BetweenLanes(s, L[j])
  PROVE  LanesOrdered(M)
<1> DEFINE old == LaneAt(L, k)
<1>1. old \in Seq(Packet) /\ s \in Seq(Packet) /\ k \in 1..Len(M) /\ M \in Seq(Seq(Packet))
      /\ L \in Seq(Seq(Packet))
  BY AddedLane DEF AddedTo
<1>2. /\ \A i \in 1..Len(M) : i # k => i \in 1..Len(L) /\ M[i] = L[i]
      /\ \A i \in 1..Len(L) : i = k => old = L[i]
      /\ k \in 1..Len(L) \/ old = <<>>
      /\ M[k] = old \o s
  BY AddedLane
<1>a. Len(M) \in Nat
  BY <1>1, LenProperties
<1> HIDE DEF old
<1>3. ASSUME NEW i \in 1..Len(L) PROVE BetweenLanes(L[i], s) /\ L[i] \in Seq(Packet)
  BY <1>1, LaneIs DEF BetweenLanes
<1>4. BetweenLanes(old, s) /\ InOneLane(old)
  <2>1. CASE k \in 1..Len(L)
    BY <1>2, <1>3, <2>1 DEF LanesOrdered
  <2>2. CASE old = <<>>
    BY <2>2 DEF BetweenLanes, InOneLane
  <2> QED
    BY <1>2, <2>1, <2>2
<1>5. InOneLane(old \o s)
  BY <1>1, <1>4, OrderedConcat
<1>6. ASSUME NEW i \in 1..Len(L), i < k PROVE BetweenLanes(L[i], old)
  <2>1. CASE k \in 1..Len(L)
    BY <1>2, <1>6, <2>1 DEF LanesOrdered
  <2>2. CASE old = <<>>
    BY <2>2 DEF BetweenLanes
  <2> QED
    BY <1>2, <2>1, <2>2
<1>7. ASSUME NEW i \in 1..Len(L), i > k PROVE BetweenLanes(old, L[i])
  <2>1. CASE k \in 1..Len(L)
    BY <1>2, <1>7, <2>1 DEF LanesOrdered
  <2>2. CASE old = <<>>
    BY <2>2 DEF BetweenLanes
  <2> QED
    BY <1>2, <2>1, <2>2
<1>8. ASSUME NEW i \in 1..Len(M) PROVE InOneLane(M[i])
  BY <1>2, <1>5 DEF LanesOrdered
<1>9. ASSUME NEW i \in 1..Len(M), NEW j \in 1..Len(M), i < j PROVE BetweenLanes(M[i], M[j])
  <2>1. CASE i # k /\ j # k
    BY <1>2, <1>9, <2>1 DEF LanesOrdered
  <2>2. CASE j = k
    <3>1. i # k /\ i < k
      BY <1>a, <1>9, <2>2
    <3>2. i \in 1..Len(L) /\ M[i] = L[i] /\ M[j] = old \o s
      BY <1>2, <2>2, <3>1
    <3>3. BetweenLanes(L[i], old) /\ BetweenLanes(L[i], s) /\ L[i] \in Seq(Packet)
      BY <1>3, <1>6, <3>1, <3>2
    <3> QED
      BY <1>1, <3>2, <3>3, BetweenConcat
  <2>3. CASE i = k
    <3>1. j # k /\ j > k
      BY <1>a, <1>9, <2>3
    <3>2. j \in 1..Len(L) /\ M[j] = L[j] /\ M[i] = old \o s
      BY <1>2, <2>3, <3>1
    <3>3. BetweenLanes(old, L[j]) /\ BetweenLanes(s, L[j]) /\ L[j] \in Seq(Packet)
      BY <1>a, <1>3, <1>7, <3>1, <3>2
    <3> QED
      BY <1>1, <3>2, <3>3, BetweenConcat
  <2> QED
    BY <2>1, <2>2, <2>3
<1> QED
  BY <1>8, <1>9 DEF LanesOrdered

LEMMA AddedPairs ==
  ASSUME NEW L, NEW M, NEW k, NEW s, AddedTo(L, M, k, s), LanesPaired(L), Paired(s)
  PROVE  LanesPaired(M)
<1>1. LaneAt(L, k) \in Seq(Packet) /\ s \in Seq(Packet) /\ M[k] = LaneAt(L, k) \o s
      /\ \A i \in 1..Len(M) : i # k => i \in 1..Len(L) /\ M[i] = L[i]
  BY AddedLane DEF AddedTo
<1>2. Paired(LaneAt(L, k))
  <2>1. Paired(<<>>)
    BY DEF Paired
  <2> QED
    BY <2>1 DEF LaneAt, LanesPaired
<1>3. Paired(M[k])
  BY <1>1, <1>2, PairedConcat
<1> QED
  BY <1>1, <1>3 DEF LanesPaired

LEMMA JoinedWaits ==
  ASSUME NEW L, NEW M, JoinedLanes(L, M)
  PROVE  Waiting(M) = Waiting(L)
<1>1. /\ L \in Seq(Seq(Packet)) /\ M \in Seq(Seq(Packet)) /\ Len(L) \in Nat /\ Len(M) \in Nat
      /\ Len(L) = Len(M) + 1 /\ Len(M) > 0
      /\ M[1] = L[1] \o L[2]
      /\ \A j \in 2..Len(M) : M[j] = L[j + 1]
  BY LenProperties DEF JoinedLanes
<1>2. L[1] \in Seq(Packet) /\ L[2] \in Seq(Packet)
  BY <1>1, ElementOfSeq
<1>3. Range(M[1]) = Range(L[1]) \cup Range(L[2])
  BY <1>1, <1>2, RangeConcatenation
<1>4. /\ Range(M[1]) = {M[1][p] : p \in 1..Len(M[1])} /\ Range(L[1]) = {L[1][p] : p \in 1..Len(L[1])}
      /\ Range(L[2]) = {L[2][p] : p \in 1..Len(L[2])}
  <2>1. M[1] \in Seq(Packet)
    BY <1>1, <1>2, ConcatProperties
  <2> QED
    BY <1>2, <2>1, RangeEquality
<1>5. ASSUME NEW u \in Waiting(M) PROVE u \in Waiting(L)
  <2>1. PICK i \in 1..Len(M) : \E p \in 1..Len(M[i]) : M[i][p] = u
    BY <1>5 DEF Waiting
  <2>2. u \in Packet
    BY DEF Waiting
  <2>3. CASE i = 1
    <3>1. \/ \E p \in 1..Len(L[1]) : L[1][p] = u
          \/ \E p \in 1..Len(L[2]) : L[2][p] = u
      BY <1>3, <1>4, <2>1, <2>3, SMTT(30)
    <3>2. 1 \in 1..Len(L) /\ 2 \in 1..Len(L)
      BY <1>1
    <3> QED
      BY <2>2, <3>1, <3>2 DEF Waiting
  <2>4. CASE i # 1
    <3>1. i \in 2..Len(M) /\ i + 1 \in 1..Len(L)
      BY <1>1, <2>4
    <3>2. M[i] = L[i + 1]
      BY <1>1, <3>1
    <3> QED
      BY <2>1, <2>2, <3>1, <3>2 DEF Waiting
  <2> QED
    BY <2>3, <2>4
<1>6. ASSUME NEW u \in Waiting(L) PROVE u \in Waiting(M)
  <2>1. PICK i \in 1..Len(L) : \E p \in 1..Len(L[i]) : L[i][p] = u
    BY <1>6 DEF Waiting
  <2>2. u \in Packet
    BY DEF Waiting
  <2>3. CASE i \in {1, 2}
    <3>1. \E p \in 1..Len(M[1]) : M[1][p] = u
      BY <1>3, <1>4, <2>1, <2>3
    <3>2. 1 \in 1..Len(M)
      BY <1>1
    <3> QED
      BY <2>2, <3>1, <3>2 DEF Waiting
  <2>4. CASE i \notin {1, 2}
    <3> DEFINE j == i - 1
    <3>1. j \in 2..Len(M) /\ j \in 1..Len(M) /\ i = j + 1
      BY <1>1, <2>4
    <3>2. M[j] = L[i]
      BY <1>1, <3>1
    <3> QED
      BY <2>1, <2>2, <3>1, <3>2 DEF Waiting
  <2> QED
    BY <2>3, <2>4
<1> QED
  BY <1>5, <1>6

LEMMA JoinedInOrder ==
  ASSUME NEW L, NEW M, JoinedLanes(L, M)
  PROVE  /\ LanesOrdered(L) => LanesOrdered(M)
         /\ LanesPaired(L) => LanesPaired(M)
<1>1. /\ L \in Seq(Seq(Packet)) /\ M \in Seq(Seq(Packet)) /\ Len(L) \in Nat /\ Len(M) \in Nat
      /\ Len(L) = Len(M) + 1 /\ Len(M) > 0
      /\ M[1] = L[1] \o L[2]
      /\ \A j \in 2..Len(M) : M[j] = L[j + 1]
  BY LenProperties DEF JoinedLanes
<1>2. L[1] \in Seq(Packet) /\ L[2] \in Seq(Packet) /\ 1 \in 1..Len(L) /\ 2 \in 1..Len(L)
  BY <1>1, ElementOfSeq
<1>3. \A i \in 1..Len(M) : i = 1 \/ (i \in 2..Len(M) /\ i + 1 \in 1..Len(L) /\ M[i] = L[i + 1] /\ i + 1 > 2)
  BY <1>1, SMTT(30)
<1>4. ASSUME LanesPaired(L) PROVE LanesPaired(M)
  <2>1. Paired(M[1])
    BY <1>1, <1>2, <1>4, PairedConcat DEF LanesPaired
  <2> QED
    BY <1>3, <1>4, <2>1 DEF LanesPaired
<1>5. ASSUME LanesOrdered(L) PROVE LanesOrdered(M)
  <2>1. InOneLane(L[1]) /\ InOneLane(L[2]) /\ BetweenLanes(L[1], L[2])
    BY <1>2, <1>5 DEF LanesOrdered
  <2>2. InOneLane(M[1])
    BY <1>1, <1>2, <2>1, OrderedConcat
  <2>3. \A i \in 1..Len(M) : InOneLane(M[i])
    BY <1>3, <1>5, <2>2 DEF LanesOrdered
  <2>4. ASSUME NEW i \in 1..Len(M), NEW j \in 1..Len(M), i < j PROVE BetweenLanes(M[i], M[j])
    <3>1. j # 1 /\ j + 1 \in 1..Len(L) /\ M[j] = L[j + 1] /\ j + 1 > 2
      BY <1>1, <1>3, <2>4
    <3>2. CASE i = 1
      <4>1. BetweenLanes(L[1], L[j + 1]) /\ BetweenLanes(L[2], L[j + 1]) /\ L[j + 1] \in Seq(Packet)
        <5>1. 1 < j + 1 /\ 2 < j + 1
          BY <3>1
        <5> QED
          BY <1>1, <1>2, <1>5, <3>1, <5>1, ElementOfSeq DEF LanesOrdered
      <4>2. M[i] = L[1] \o L[2]
        BY <1>1, <3>2
      <4>3. BetweenLanes(L[1] \o L[2], L[j + 1])
        BY <1>2, <4>1, BetweenConcat
      <4> QED
        BY <3>1, <4>2, <4>3
    <3>3. CASE i # 1
      <4>1. i + 1 \in 1..Len(L) /\ M[i] = L[i + 1] /\ i + 1 < j + 1
        <5>1. i + 1 < j + 1
          BY <1>1, <2>4
        <5> QED
          BY <1>3, <3>3, <5>1
      <4> QED
        BY <1>5, <3>1, <4>1 DEF LanesOrdered
    <3> QED
      BY <3>2, <3>3
  <2> QED
    BY <2>3, <2>4 DEF LanesOrdered
<1> QED
  BY <1>4, <1>5

\* What stays behind the units that are taken out.
LEMMA TakenLane ==
  ASSUME NEW L, NEW M, NEW e, TakenOut(L, M, e)
  PROVE  /\ L[1] \in Seq(Packet) /\ M[1] \in Seq(Packet)
         /\ Len(L) \in Nat /\ Len(M) = Len(L) /\ Len(L[1]) \in Nat /\ Len(L) > 0
         /\ Len(M[1]) = Len(L[1]) - e
         /\ \A p \in 1..Len(M[1]) : p + e \in 1..Len(L[1]) /\ M[1][p] = L[1][p + e]
         /\ \A j \in 1..Len(L) : j # 1 => M[j] = L[j]
<1>1. /\ L \in Seq(Seq(Packet)) /\ M \in Seq(Seq(Packet)) /\ Len(L) \in Nat
      /\ Len(L) = Len(M) /\ Len(M) > 0
      /\ e \in 0..Len(L[1])
      /\ M[1] = SubSeq(L[1], e + 1, Len(L[1]))
      /\ \A j \in 2..Len(M) : M[j] = L[j]
  BY LenProperties DEF TakenOut
<1>2. L[1] \in Seq(Packet) /\ M[1] \in Seq(Packet)
  BY <1>1, ElementOfSeq
<1>3. Len(L[1]) \in Nat /\ \A i \in 1..Len(L[1]) : L[1][i] \in Packet
  BY <1>2, LenProperties, ElementOfSeq
<1>4. e \in Nat /\ e <= Len(L[1])
  BY <1>1, <1>3
<1>5. \A i \in (e + 1)..Len(L[1]) : L[1][i] \in Packet
  BY <1>3, <1>4
<1>6. /\ Len(SubSeq(L[1], e + 1, Len(L[1]))) =
             IF e + 1 <= Len(L[1]) THEN Len(L[1]) - (e + 1) + 1 ELSE 0
      /\ \A p \in 1..(Len(L[1]) - (e + 1) + 1) :
             SubSeq(L[1], e + 1, Len(L[1]))[p] = L[1][(e + 1) + p - 1]
  <2>1. e + 1 \in Int /\ Len(L[1]) \in Int
    BY <1>3, <1>4
  <2> QED
    BY <1>5, <2>1, SubSeqProperties
<1>7. Len(M[1]) = Len(L[1]) - e
  BY <1>1, <1>3, <1>4, <1>6
<1>8. ASSUME NEW p \in 1..Len(M[1]) PROVE p + e \in 1..Len(L[1]) /\ M[1][p] = L[1][p + e]
  <2>1. p + e \in 1..Len(L[1]) /\ p \in 1..(Len(L[1]) - (e + 1) + 1) /\ (e + 1) + p - 1 = p + e
    BY <1>3, <1>4, <1>7
  <2> QED
    BY <1>1, <1>6, <2>1
<1>9. \A j \in 1..Len(L) : j # 1 => M[j] = L[j]
  <2> SUFFICES ASSUME NEW j \in 1..Len(L), j # 1 PROVE M[j] = L[j]
    OBVIOUS
  <2>1. j \in 2..Len(M)
    BY <1>1
  <2> QED
    BY <1>1, <2>1
<1> QED
  BY <1>1, <1>2, <1>3, <1>7, <1>8, <1>9

LEMMA TakenWaits ==
  ASSUME NEW L, NEW M, NEW e, TakenOut(L, M, e)
  PROVE  /\ Waiting(M) \subseteq Waiting(L)
         /\ \A u \in Waiting(L) : u \in Waiting(M) \/ \E p \in 1..e : L[1][p] = u
<1>1. /\ L[1] \in Seq(Packet) /\ M[1] \in Seq(Packet)
      /\ Len(L) \in Nat /\ Len(M) = Len(L) /\ Len(L[1]) \in Nat /\ Len(L) > 0
      /\ Len(M[1]) = Len(L[1]) - e
      /\ \A p \in 1..Len(M[1]) : p + e \in 1..Len(L[1]) /\ M[1][p] = L[1][p + e]
      /\ \A j \in 1..Len(L) : j # 1 => M[j] = L[j]
  BY TakenLane
<1>2. e \in Nat /\ e <= Len(L[1])
  BY <1>1 DEF TakenOut
<1>3. ASSUME NEW u \in Waiting(M) PROVE u \in Waiting(L)
  <2>1. PICK i \in 1..Len(M) : \E p \in 1..Len(M[i]) : M[i][p] = u
    BY <1>3 DEF Waiting
  <2>2. \E p \in 1..Len(L[i]) : L[i][p] = u
    BY <1>1, <2>1
  <2> QED
    BY <1>1, <2>2 DEF Waiting
<1>4. ASSUME NEW u \in Waiting(L), ~ \E p \in 1..e : L[1][p] = u PROVE u \in Waiting(M)
  <2>a. PICK i \in 1..Len(L) : \E p \in 1..Len(L[i]) : L[i][p] = u
    BY <1>4 DEF Waiting
  <2>1. PICK p \in 1..Len(L[i]) : L[i][p] = u
    BY <2>a
  <2>2. u \in Packet
    BY DEF Waiting
  <2>3. CASE i = 1
    <3>1. p \in Nat /\ ~ (p <= e)
      BY <1>1, <1>2, <1>4, <2>1, <2>3
    <3>2. p - e \in 1..Len(M[1]) /\ (p - e) + e = p
      BY <1>1, <1>2, <2>3, <3>1
    <3>3. M[1][p - e] = u
      BY <1>1, <2>1, <2>3, <3>2
    <3> QED
      BY <1>1, <2>2, <2>3, <3>2, <3>3 DEF Waiting
  <2>4. CASE i # 1
    BY <1>1, <2>1, <2>2, <2>4 DEF Waiting
  <2> QED
    BY <2>3, <2>4
<1> QED
  BY <1>3, <1>4

LEMMA TakenInOrder ==
  ASSUME NEW L, NEW M, NEW e, TakenOut(L, M, e), LanesOrdered(L)
  PROVE  /\ LanesOrdered(M)
         /\ \A p \in 1..e, w \in Waiting(M) : Earlier(L[1][p], w)
<1>1. /\ L[1] \in Seq(Packet) /\ M[1] \in Seq(Packet)
      /\ Len(L) \in Nat /\ Len(M) = Len(L) /\ Len(L[1]) \in Nat /\ Len(L) > 0
      /\ Len(M[1]) = Len(L[1]) - e
      /\ \A p \in 1..Len(M[1]) : p + e \in 1..Len(L[1]) /\ M[1][p] = L[1][p + e]
      /\ \A j \in 1..Len(L) : j # 1 => M[j] = L[j]
  BY TakenLane
<1>2. e \in Nat /\ e <= Len(L[1]) /\ 1 \in 1..Len(L)
  BY <1>1 DEF TakenOut
<1>3. InOneLane(L[1])
  BY <1>2 DEF LanesOrdered
<1>4. InOneLane(M[1])
  <2> SUFFICES ASSUME NEW p \in 1..Len(M[1]), NEW q \in 1..Len(M[1]), p < q
               PROVE  Earlier(M[1][p], M[1][q])
    BY DEF InOneLane
  <2>1. p + e < q + e
    BY <1>1, <1>2
  <2> QED
    BY <1>1, <1>3, <2>1 DEF InOneLane
<1>5. ASSUME NEW j \in 1..Len(L), 1 < j PROVE BetweenLanes(L[1], L[j]) /\ BetweenLanes(M[1], L[j])
  <2>1. BetweenLanes(L[1], L[j])
    BY <1>2, <1>5 DEF LanesOrdered
  <2> QED
    BY <1>1, <2>1 DEF BetweenLanes
<1>6. LanesOrdered(M)
  <2>1. \A i \in 1..Len(M) : InOneLane(M[i])
    BY <1>1, <1>4 DEF LanesOrdered
  <2>2. ASSUME NEW i \in 1..Len(M), NEW j \in 1..Len(M), i < j PROVE BetweenLanes(M[i], M[j])
    <3>1. j # 1 /\ M[j] = L[j]
      BY <1>1, <2>2
    <3>2. CASE i = 1
      BY <1>1, <1>5, <2>2, <3>1, <3>2
    <3>3. CASE i # 1
      BY <1>1, <2>2, <3>1, <3>3 DEF LanesOrdered
    <3> QED
      BY <3>2, <3>3
  <2> QED
    BY <2>1, <2>2 DEF LanesOrdered
<1>7. ASSUME NEW p \in 1..e, NEW w \in Waiting(M) PROVE Earlier(L[1][p], w)
  <2>a. PICK i \in 1..Len(M) : \E q \in 1..Len(M[i]) : M[i][q] = w
    BY <1>7 DEF Waiting
  <2>1. PICK q \in 1..Len(M[i]) : M[i][q] = w
    BY <2>a
  <2>2. p \in 1..Len(L[1])
    BY <1>1, <1>2
  <2>3. CASE i = 1
    <3>1. q + e \in 1..Len(L[1]) /\ p < q + e /\ L[1][q + e] = w
      BY <1>1, <1>2, <2>1, <2>3
    <3> QED
      BY <1>3, <2>2, <3>1 DEF InOneLane
  <2>4. CASE i # 1
    <3>1. i \in 1..Len(L) /\ 1 < i /\ M[i] = L[i]
      BY <1>1, <2>4
    <3> QED
      BY <1>5, <2>1, <2>2, <3>1 DEF BetweenLanes
  <2> QED
    BY <2>3, <2>4
<1> QED
  BY <1>6, <1>7

LEMMA TakenPairs ==
  ASSUME NEW L, NEW M, NEW e, TakenOut(L, M, e), LanesPaired(L), e # 0, L[1][e].last
  PROVE  LanesPaired(M)
<1>1. /\ L[1] \in Seq(Packet) /\ M[1] \in Seq(Packet)
      /\ Len(L) \in Nat /\ Len(M) = Len(L) /\ Len(L[1]) \in Nat /\ Len(L) > 0
      /\ Len(M[1]) = Len(L[1]) - e
      /\ \A p \in 1..Len(M[1]) : p + e \in 1..Len(L[1]) /\ M[1][p] = L[1][p + e]
      /\ \A j \in 1..Len(L) : j # 1 => M[j] = L[j]
  BY TakenLane
<1>2. e \in Nat /\ e <= Len(L[1]) /\ 1 \in 1..Len(L) /\ e \in 1..Len(L[1])
  BY <1>1 DEF TakenOut
<1>3. Paired(L[1])
  BY <1>2 DEF LanesPaired
<1>4. Paired(M[1])
  <2> SUFFICES ASSUME NEW i \in 1..Len(M[1])
               PROVE  IF M[1][i].last
                      THEN i > 1 /\ ~ M[1][i - 1].last /\ M[1][i - 1].msg = M[1][i].msg
                      ELSE i < Len(M[1]) /\ M[1][i + 1].last
    BY DEF Paired
  <2>1. i + e \in 1..Len(L[1]) /\ M[1][i] = L[1][i + e]
    BY <1>1
  <2>2. IF L[1][i + e].last
        THEN ~ L[1][(i + e) - 1].last /\ L[1][(i + e) - 1].msg = L[1][i + e].msg
        ELSE i + e < Len(L[1]) /\ L[1][(i + e) + 1].last
    BY <1>3, <2>1 DEF Paired
  <2>3. CASE M[1][i].last
    <3>1. i # 1
      <4> SUFFICES ASSUME i = 1 PROVE FALSE
        OBVIOUS
      <4>1. (i + e) - 1 = e
        BY <1>2
      <4> QED
        BY <2>1, <2>2, <2>3, <4>1
    <3>2. i > 1 /\ i - 1 \in 1..Len(M[1]) /\ (i - 1) + e = (i + e) - 1
      BY <1>1, <1>2, <3>1
    <3>3. M[1][i - 1] = L[1][(i + e) - 1]
      BY <1>1, <3>2
    <3> QED
      BY <2>1, <2>2, <2>3, <3>2, <3>3
  <2>4. CASE ~ M[1][i].last
    <3>1. i + e < Len(L[1]) /\ L[1][(i + e) + 1].last
      BY <2>1, <2>2, <2>4
    <3>2. i < Len(M[1]) /\ i + 1 \in 1..Len(M[1]) /\ (i + 1) + e = (i + e) + 1
      BY <1>1, <1>2, <3>1
    <3>3. M[1][i + 1] = L[1][(i + e) + 1]
      BY <1>1, <3>2
    <3> QED
      BY <2>4, <3>1, <3>2, <3>3
  <2> QED
    BY <2>3, <2>4
<1> QED
  BY <1>1, <1>4 DEF LanesPaired

-----------------------------------------------------------------------------
(* LogConsole: the invariant *)

Connection == [app : Apps, data : Seq(Packet), closed : BOOLEAN]
ViewerMsg == ConsoleMsg \cup {Cut}

Lanes(cs, held) == [i \in 1..(IF cs = <<>> THEN 1 ELSE Len(cs)) |->
                       IF i # 1 THEN cs[i].data
                       ELSE IF cs = <<>> THEN held ELSE held \o cs[1].data]
Line == Lanes(conns, jsonContent)

ConsoleKinds ==
    /\ fd \in [Apps -> BOOLEAN] /\ written \in [Apps -> Nat]
    /\ at \in [Apps -> {"idle", "init", "send", "handlerInit", "handlerSend", "exit", "exited",
                        "deadlocked"}]
    /\ conns \in Seq(Connection) /\ jsonContent \in Seq(Packet)
    /\ gJsonNotice \in {None} \cup {Notice(a) : a \in Apps}
    /\ out \in [Viewers -> Seq(ViewerMsg)]
    /\ restarts \in Nat /\ torn \in BOOLEAN

\* An application has at most one connection open, the last of its connections, and
\* knows of it; a connection has the messages of its application only.
OneOpen == /\ \A i \in 1..Len(conns) : conns[i].closed \/ fd[conns[i].app]
           /\ \A i, j \in 1..Len(conns) : i < j /\ conns[i].app = conns[j].app => conns[i].closed
           /\ \A i \in 1..Len(conns) : \A p \in 1..Len(conns[i].data) :
                 conns[i].data[p].msg.app \in {conns[i].app, "none"}
           /\ serving => conns # <<>>

\* The messages an application has tried to send.
Tried(a) == IF at[a] \in {"init", "send"} THEN written[a] - 1 ELSE written[a]
WasTried(m) == m.n > 0 => m.app \in Apps /\ m.n <= Tried(m.app)

\* A message that was shown is in front of what waits.
ShownBefore(m, w) == m.app = w.msg.app /\ w.msg.n # 0 => m.n < w.msg.n

OnTheWay == /\ LanesOrdered(Line)
            /\ \A u \in Waiting(Line) : WasTried(u.msg)
            /\ \A v \in Viewers : \A k \in 1..Len(out[v]) :
                  /\ WasTried(out[v][k])
                  /\ \A w \in Waiting(Line) : ShownBefore(out[v][k], w)

\* The same, of lanes that are on no connections: while a step of logcat goes on.
OnLanes(L) == /\ LanesOrdered(L)
              /\ \A u \in Waiting(L) : WasTried(u.msg)
              /\ \A v \in Viewers : \A k \in 1..Len(out[v]) :
                    /\ WasTried(out[v][k])
                    /\ \A w \in Waiting(L) : ShownBefore(out[v][k], w)

\* As long as no stream was torn: whole messages, in front of them a notice, if not
\* logcat has one and has given it to every viewer.
WholeOnes == ~ torn => LanesPaired(Line) /\ \A u \in Waiting(Line) : u.msg # None
NoticeAhead ==
    /\ \A i \in 1..Len(Line) : i # 1 => Line[i] # <<>> /\ Line[i][1].msg.n = 0
    /\ ~ torn /\ gJsonNotice = None =>
           /\ conns # <<>> => Line[1] # <<>>
           /\ Line[1] # <<>> => Line[1][1].msg.n = 0
NoticeShown == ~ torn => \A v \in Viewers :
                   /\ out[v] # <<>> => out[v][1].n = 0
                   /\ out[v] # Offline /\ gJsonNotice # None => out[v] # <<>>

\* AcceptedKept, of the lanes.
StillThere == ~ torn /\ restarts = 0 /\ server # "down" =>
                  \A m \in accepted : m \in forwarded \/ \E u \in Waiting(Line) : u.msg = m

ConInv == /\ ConsoleKinds /\ OneOpen /\ OnTheWay /\ InOrder
          /\ WholeOnes /\ NoticeAhead /\ NoticeShown /\ StillThere

LEMMA MsgKinds ==
  /\ None \in ConsoleMsg /\ None.n = 0 /\ None.app = "none"
  /\ \A m \in ConsoleMsg : m.n \in Nat /\ (m.n # 0 => m.app \in Apps)
  /\ \A a \in Apps : /\ Notice(a) \in ConsoleMsg /\ Notice(a).n = 0 /\ Notice(a).app = a
                     /\ \A n \in Nat : [app |-> a, n |-> n] \in ConsoleMsg
  /\ \A u \in Packet : u.msg \in ConsoleMsg /\ u.last \in BOOLEAN
  /\ ConsoleMsg \subseteq ViewerMsg /\ Cut \in ViewerMsg /\ Cut.n = -1
  /\ \A m \in ViewerMsg : m.n \in Int /\ (m.n > 0 => m.app \in Apps)
  /\ Junk \in Packet /\ Junk.msg = None /\ Junk.last = FALSE
  BY DEF ConsoleMsg, None, Notice, Packet, ViewerMsg, Cut, Junk

LEMMA LanesAre ==
  ASSUME NEW cs \in Seq(Connection), NEW held \in Seq(Packet)
  PROVE  /\ Len(cs) \in Nat /\ (cs = <<>> <=> Len(cs) = 0)
         /\ \A i \in 1..Len(cs) : cs[i] \in Connection
         /\ Lanes(cs, held) \in Seq(Seq(Packet))
         /\ Len(Lanes(cs, held)) = IF cs = <<>> THEN 1 ELSE Len(cs)
         /\ Lanes(cs, held)[1] = IF cs = <<>> THEN held ELSE held \o cs[1].data
         /\ \A i \in 2..Len(cs) : Lanes(cs, held)[i] = cs[i].data
<1> DEFINE n == IF cs = <<>> THEN 1 ELSE Len(cs)
<1>1. Len(cs) \in Nat /\ (cs = <<>> <=> Len(cs) = 0)
  BY LenProperties, EmptySeq
<1>2. \A i \in 1..Len(cs) : cs[i] \in Connection
  BY ElementOfSeq
<1>3. n \in Nat /\ n > 0 /\ (n # 1 => n = Len(cs))
  BY <1>1
<1>4. cs # <<>> => held \o cs[1].data \in Seq(Packet)
  <2> SUFFICES ASSUME cs # <<>> PROVE held \o cs[1].data \in Seq(Packet)
    OBVIOUS
  <2>1. cs[1].data \in Seq(Packet)
    BY <1>1, <1>2 DEF Connection
  <2> QED
    BY <2>1, ConcatProperties
<1>5. \A i \in 1..n : i # 1 => cs[i].data \in Seq(Packet)
  BY <1>1, <1>2 DEF Connection
<1>6. Lanes(cs, held) \in [1..n -> Seq(Packet)]
  BY <1>4, <1>5 DEF Lanes
<1>7. Lanes(cs, held) \in Seq(Seq(Packet)) /\ Len(Lanes(cs, held)) = n
  <2> DEFINE L == Lanes(cs, held)
  <2> HIDE DEF L, n
  <2>1. L \in Seq(Seq(Packet))
    BY <1>3, <1>6, SeqDef DEF L
  <2> QED
    BY <1>3, <1>6, <2>1, LenProperties DEF L
<1>8. Lanes(cs, held)[1] = IF cs = <<>> THEN held ELSE held \o cs[1].data
  BY <1>3 DEF Lanes
<1>9. \A i \in 2..Len(cs) : Lanes(cs, held)[i] = cs[i].data
  BY <1>1 DEF Lanes
<1> QED
  BY <1>1, <1>2, <1>7, <1>8, <1>9

LEMMA LanesOfSome ==
  ASSUME NEW cs \in Seq(Connection), NEW held \in Seq(Packet), cs # <<>>
  PROVE  /\ Len(cs) \in Nat /\ Len(cs) > 0
         /\ Lanes(cs, held) \in Seq(Seq(Packet))
         /\ Len(Lanes(cs, held)) = Len(cs)
         /\ Lanes(cs, held)[1] = held \o cs[1].data
         /\ \A i \in 2..Len(cs) : Lanes(cs, held)[i] = cs[i].data
<1>1. Len(cs) \in Nat /\ Len(cs) > 0
  BY LenProperties, EmptySeq
<1> DEFINE L == Lanes(cs, held)
<1>2. /\ L \in Seq(Seq(Packet))
      /\ Len(L) = IF cs = <<>> THEN 1 ELSE Len(cs)
      /\ L[1] = IF cs = <<>> THEN held ELSE held \o cs[1].data
      /\ \A i \in 2..Len(cs) : L[i] = cs[i].data
  BY LanesAre
<1> HIDE DEF L
<1>3. Len(L) = Len(cs) /\ L[1] = held \o cs[1].data
  BY <1>2
<1> QED
  BY <1>1, <1>2, <1>3 DEF L

LEMMA LanesOfNone ==
  ASSUME NEW held \in Seq(Packet)
  PROVE  /\ Lanes(<<>>, held) \in Seq(Seq(Packet))
         /\ Len(Lanes(<<>>, held)) = 1
         /\ Lanes(<<>>, held)[1] = held
<1> DEFINE L == Lanes(<<>>, held)
<1>1. <<>> \in Seq(Connection)
  OBVIOUS
<1>2. /\ L \in Seq(Seq(Packet))
      /\ Len(L) = IF <<>> = <<>> THEN 1 ELSE Len(<<>>)
      /\ L[1] = IF <<>> = <<>> THEN held ELSE held \o (<<>>)[1].data
  <2> DEFINE cs == <<>>
  <2>1. cs \in Seq(Connection)
    BY <1>1
  <2> HIDE DEF cs
  <2>2. /\ Lanes(cs, held) \in Seq(Seq(Packet))
        /\ Len(Lanes(cs, held)) = IF cs = <<>> THEN 1 ELSE Len(cs)
        /\ Lanes(cs, held)[1] = IF cs = <<>> THEN held ELSE held \o cs[1].data
    BY <2>1, LanesAre
  <2> QED
    BY <2>2 DEF cs
<1> HIDE DEF L
<1> QED
  BY <1>2 DEF L

\* What the steps do to the lanes.
LEMMA LaneOpened ==
  ASSUME NEW cs \in Seq(Connection), NEW held \in Seq(Packet), NEW c \in Connection
  PROVE  AddedTo(Lanes(cs, held), Lanes(Append(cs, c), held),
                 IF cs = <<>> THEN 1 ELSE Len(cs) + 1, c.data)
<1> DEFINE ds == Append(cs, c)
           k == IF cs = <<>> THEN 1 ELSE Len(cs) + 1
           L == Lanes(cs, held)
           M == Lanes(ds, held)
<1>1. ds \in Seq(Connection) /\ ds # <<>> /\ Len(ds) = Len(cs) + 1
      /\ (\A i \in 1..Len(cs) : ds[i] = cs[i]) /\ ds[Len(cs) + 1] = c
  BY AppendProperties
<1>2. /\ Len(cs) \in Nat /\ (cs = <<>> <=> Len(cs) = 0)
      /\ \A i \in 1..Len(cs) : cs[i] \in Connection
  BY LanesAre
<1> HIDE DEF ds
<1>3. /\ M \in Seq(Seq(Packet)) /\ Len(M) = Len(cs) + 1
      /\ M[1] = held \o ds[1].data
      /\ \A i \in 2..(Len(cs) + 1) : M[i] = ds[i].data
  BY <1>1, LanesOfSome
<1>4. c.data \in Seq(Packet)
  BY DEF Connection
<1> HIDE DEF L, M
<1>5. CASE cs = <<>>
  <2>1. L \in Seq(Seq(Packet)) /\ Len(L) = 1 /\ L[1] = held
    BY <1>5, LanesOfNone DEF L
  <2>2. Len(M) = 1 /\ ds[1] = c /\ k = 1
    BY <1>1, <1>2, <1>3, <1>5
  <2>3. M[1] = L[1] \o c.data
    BY <1>3, <2>1, <2>2
  <2> HIDE DEF k
  <2>4. LaneAt(L, k) = L[1] /\ 1..Len(L) = {1} /\ 1..Len(M) = {1}
    BY <2>1, <2>2 DEF LaneAt
  <2>5. AddedTo(L, M, k, c.data)
    BY <1>3, <1>4, <2>1, <2>2, <2>3, <2>4 DEF AddedTo
  <2> QED
    BY <2>5 DEF L, M, ds, k
<1>6. CASE cs # <<>>
  <2>a. /\ L \in Seq(Seq(Packet)) /\ Len(L) = Len(cs)
        /\ L[1] = held \o cs[1].data
        /\ \A i \in 2..Len(cs) : L[i] = cs[i].data
    BY <1>6, LanesOfSome DEF L
  <2>1. Len(L) = Len(cs) /\ k = Len(cs) + 1 /\ Len(M) = Len(L) + 1 /\ Len(cs) > 0 /\ k \notin 1..Len(L)
        /\ k \in 2..(Len(cs) + 1)
    BY <1>2, <1>3, <1>6, <2>a
  <2>2. ASSUME NEW j \in 1..Len(M), j # k PROVE M[j] = L[j]
    <3>1. j \in 1..Len(cs) /\ ds[j] = cs[j]
      BY <1>1, <1>2, <2>1, <2>2
    <3>2. CASE j = 1
      BY <1>2, <1>3, <2>a, <3>1, <3>2
    <3>3. CASE j # 1
      <4>1. j \in 2..Len(cs) /\ j \in 2..(Len(cs) + 1)
        BY <1>2, <3>1, <3>3
      <4> QED
        BY <1>2, <1>3, <2>a, <3>1, <4>1
    <3> QED
      BY <3>2, <3>3
  <2>3. M[k] = <<>> \o c.data
    <3>1. M[k] = c.data
      BY <1>1, <1>3, <2>1
    <3> QED
      BY <1>4, <3>1, ConcatEmptySeq
  <2>4. 1..Len(L) \subseteq 1..Len(M) /\ 1..Len(M) \subseteq 1..Len(L) \cup {k} /\ k \in 1..Len(M)
    BY <1>2, <2>1
  <2> HIDE DEF k
  <2> QED
    BY <1>2, <1>3, <1>4, <2>a, <2>1, <2>2, <2>3, <2>4 DEF AddedTo, LaneAt, L, M, ds, k
<1> QED
  BY <1>5, <1>6

SentOn(cs, i, s) == [cs EXCEPT ![i] = [cs[i] EXCEPT !.data = cs[i].data \o s]]

LEMMA LaneSent ==
  ASSUME NEW cs \in Seq(Connection), NEW held \in Seq(Packet), NEW i \in 1..Len(cs),
         NEW s \in Seq(Packet), NEW ds, ds = SentOn(cs, i, s)
  PROVE  /\ ds \in Seq(Connection) /\ Len(ds) = Len(cs)
         /\ AddedTo(Lanes(cs, held), Lanes(ds, held), i, s)
<1> DEFINE L == Lanes(cs, held)
           M == Lanes(ds, held)
<1>2. /\ Len(cs) \in Nat /\ (cs = <<>> <=> Len(cs) = 0)
      /\ \A j \in 1..Len(cs) : cs[j] \in Connection
  BY LanesAre
<1>6. /\ cs # <<>>
      /\ L \in Seq(Seq(Packet)) /\ Len(L) = Len(cs)
      /\ L[1] = held \o cs[1].data
      /\ \A j \in 2..Len(cs) : L[j] = cs[j].data
  <2>1. cs # <<>>
    BY <1>2
  <2> QED
    BY <2>1, LanesOfSome
<1>1. cs[i].data \in Seq(Packet) /\ cs[i].data \o s \in Seq(Packet)
  <2>1. cs[i].data \in Seq(Packet)
    BY <1>2 DEF Connection
  <2> QED
    BY <2>1, ConcatProperties
<1>3. ds \in Seq(Connection) /\ Len(ds) = Len(cs)
      /\ \A j \in 1..Len(cs) : ds[j] = IF j = i THEN [cs[i] EXCEPT !.data = cs[i].data \o s] ELSE cs[j]
  <2>1. [cs[i] EXCEPT !.data = cs[i].data \o s] \in Connection
    BY <1>1, <1>2 DEF Connection
  <2> QED
    BY <2>1, ExceptSeq DEF SentOn
<1>4. \A j \in 1..Len(cs) : ds[j].data = IF j = i THEN cs[i].data \o s ELSE cs[j].data
  <2>1. [cs[i] EXCEPT !.data = cs[i].data \o s].data = cs[i].data \o s
    BY <1>2 DEF Connection
  <2> QED
    BY <1>3, <2>1
<1>5. /\ M \in Seq(Seq(Packet)) /\ Len(M) = Len(cs)
      /\ M[1] = held \o ds[1].data
      /\ \A j \in 2..Len(cs) : M[j] = ds[j].data
  <2>1. ds # <<>>
    BY <1>2, <1>3, <1>6, EmptySeq
  <2> QED
    BY <1>3, <2>1, LanesOfSome
<1> HIDE DEF L, M
<1>7. ASSUME NEW j \in 1..Len(M) PROVE M[j] = IF j = i THEN L[i] \o s ELSE L[j]
  <2>1. CASE j = 1
    <3>1. CASE i = 1
      <4>1. (held \o cs[1].data) \o s = held \o (cs[1].data \o s)
        <5> DEFINE d == cs[1].data
        <5>1. d \in Seq(Packet)
          BY <1>1, <3>1
        <5> HIDE DEF d
        <5>2. (held \o d) \o s = held \o (d \o s)
          BY ONLY <5>1, held \in Seq(Packet), s \in Seq(Packet), ConcatAssociative, SMTT(30)
        <5> QED
          BY <5>2 DEF d
      <4> QED
        BY <1>2, <1>4, <1>5, <1>6, <2>1, <3>1, <4>1
    <3>2. CASE i # 1
      BY <1>2, <1>4, <1>5, <1>6, <2>1, <3>2
    <3> QED
      BY <3>1, <3>2
  <2>2. CASE j # 1
    <3>1. j \in 2..Len(cs) /\ j \in 1..Len(cs)
      BY <1>2, <1>5, <2>2
    <3> QED
      BY <1>2, <1>4, <1>5, <1>6, <3>1
  <2> QED
    BY <2>1, <2>2
<1>8. AddedTo(L, M, i, s)
  BY <1>2, <1>5, <1>6, <1>7 DEF AddedTo, LaneAt
<1> QED
  BY <1>3, <1>8 DEF L, M

LEMMA LaneClosed ==
  ASSUME NEW cs \in Seq(Connection), NEW held \in Seq(Packet), NEW ds \in Seq(Connection),
         Len(ds) = Len(cs), \A i \in 1..Len(cs) : ds[i].data = cs[i].data
  PROVE  Lanes(ds, held) = Lanes(cs, held) /\ (ds = <<>> <=> cs = <<>>)
<1>1. Len(cs) \in Nat /\ (cs = <<>> <=> Len(cs) = 0) /\ (ds = <<>> <=> Len(ds) = 0)
  BY LanesAre
<1> DEFINE n == IF cs = <<>> THEN 1 ELSE Len(cs)
<1>2. Lanes(ds, held) = [i \in 1..n |-> IF i # 1 THEN ds[i].data
                           ELSE IF cs = <<>> THEN held ELSE held \o ds[1].data]
  BY <1>1 DEF Lanes
<1>3. Lanes(cs, held) = [i \in 1..n |-> IF i # 1 THEN cs[i].data
                           ELSE IF cs = <<>> THEN held ELSE held \o cs[1].data]
  BY DEF Lanes
<1>4. \A i \in 1..n : i # 1 \/ cs # <<>> => i \in 1..Len(cs)
  BY <1>1
<1>5. cs # <<>> => ds[1].data = cs[1].data
  BY <1>1
<1> HIDE DEF n
<1> QED
  BY <1>1, <1>2, <1>3, <1>4, <1>5

LEMMA LaneHungUp ==
  ASSUME NEW cs \in Seq(Connection), NEW held \in Seq(Packet), cs # <<>>, cs[1].data = <<>>
  PROVE  /\ Tail(cs) \in Seq(Connection)
         /\ \/ Tail(cs) = <<>> /\ Lanes(Tail(cs), held) = Lanes(cs, held)
            \/ Tail(cs) # <<>> /\ JoinedLanes(Lanes(cs, held), Lanes(Tail(cs), held))
<1> DEFINE ds == Tail(cs)
           L == Lanes(cs, held)
           M == Lanes(ds, held)
<1>1. ds \in Seq(Connection) /\ Len(ds) = Len(cs) - 1
      /\ \A i \in 1..Len(ds) : ds[i] = cs[i + 1]
  BY HeadTailProperties
<1>2. /\ Len(cs) \in Nat /\ Len(cs) > 0
      /\ L \in Seq(Seq(Packet))
      /\ Len(L) = Len(cs)
      /\ L[1] = held \o cs[1].data
      /\ \A j \in 2..Len(cs) : L[j] = cs[j].data
  BY LanesOfSome
<1> HIDE DEF ds
<1>3. /\ (ds = <<>> <=> Len(ds) = 0)
      /\ M \in Seq(Seq(Packet))
      /\ Len(M) = IF ds = <<>> THEN 1 ELSE Len(ds)
      /\ M[1] = IF ds = <<>> THEN held ELSE held \o ds[1].data
      /\ \A j \in 2..Len(ds) : M[j] = ds[j].data
  BY <1>1, LanesAre
<1>4. L[1] = held
  BY <1>2, ConcatEmptySeq
<1> HIDE DEF L, M
<1>5. CASE ds = <<>>
  <2>1. Len(L) = 1 /\ Len(M) = 1
    BY <1>1, <1>2, <1>3, <1>5
  <2>2. \A j \in 1..Len(L) : L[j] = M[j]
    BY <1>3, <1>4, <1>5, <2>1
  <2>3. L = M
    BY <1>2, <1>3, <2>1, <2>2, SeqEqual
  <2> QED
    BY <1>1, <1>5, <2>3 DEF L, M, ds
<1>6. CASE ds # <<>>
  <2>1. Len(L) = Len(M) + 1 /\ Len(M) > 0 /\ Len(M) = Len(ds)
    BY <1>1, <1>2, <1>3, <1>6
  <2>2. M[1] = L[1] \o L[2]
    <3>1. 2 \in 2..Len(cs) /\ ds[1] = cs[2]
      <4>1. 1 \in 1..Len(ds) /\ 2 \in 2..Len(cs)
        BY <1>1, <1>2, <2>1
      <4> QED
        BY <1>1, <4>1
    <3> QED
      BY <1>2, <1>3, <1>4, <1>6, <3>1
  <2>3. ASSUME NEW j \in 2..Len(M) PROVE M[j] = L[j + 1]
    <3>1. j \in 2..Len(ds) /\ j \in 1..Len(ds) /\ j + 1 \in 2..Len(cs)
      BY <1>1, <1>2, <2>1
    <3> QED
      BY <1>1, <1>2, <1>3, <3>1
  <2>4. JoinedLanes(L, M)
    BY <1>2, <1>3, <2>1, <2>2, <2>3 DEF JoinedLanes
  <2> QED
    BY <1>1, <1>6, <2>4 DEF L, M, ds
<1> QED
  BY <1>5, <1>6

LEMMA UptoIs ==
  ASSUME NEW s \in Seq(Packet), NEW n \in Int
  PROVE  /\ Upto(s, n) \in Seq(Packet)
         /\ n < 0 => Len(Upto(s, n)) = 0
         /\ n \in 0..Len(s) => Len(Upto(s, n)) = n
         /\ n >= Len(s) => Len(Upto(s, n)) = Len(s)
         /\ \A i \in 1..Len(Upto(s, n)) : i \in 1..Len(s) /\ Upto(s, n)[i] = s[i]
<1> DEFINE m == IF n < Len(s) THEN n ELSE Len(s)
<1>1. Len(s) \in Nat /\ \A i \in 1..Len(s) : s[i] \in Packet
  BY LenProperties, ElementOfSeq
<1>2. m \in Int /\ m <= Len(s) /\ (m < 0 <=> n < 0)
  BY <1>1
<1>3. Upto(s, n) = SubSeq(s, 1, m)
  BY DEF Upto
<1> HIDE DEF m
<1>4. \A i \in 1..m : s[i] \in Packet
  BY <1>1, <1>2
<1>5. /\ SubSeq(s, 1, m) \in Seq(Packet)
      /\ Len(SubSeq(s, 1, m)) = IF 1 <= m THEN m - 1 + 1 ELSE 0
      /\ \A i \in 1..(m - 1 + 1) : SubSeq(s, 1, m)[i] = s[1 + i - 1]
  BY <1>2, <1>4, SubSeqProperties
<1>6. /\ n < 0 => Len(Upto(s, n)) = 0
      /\ n \in 0..Len(s) => Len(Upto(s, n)) = n
      /\ n >= Len(s) => Len(Upto(s, n)) = Len(s)
  BY <1>1, <1>2, <1>3, <1>5 DEF m
<1>7. ASSUME NEW i \in 1..Len(Upto(s, n)) PROVE i \in 1..Len(s) /\ Upto(s, n)[i] = s[i]
  <2>1. i \in 1..(m - 1 + 1) /\ 1 + i - 1 = i /\ i \in 1..Len(s)
    BY <1>1, <1>2, <1>3, <1>5
  <2> QED
    BY <1>3, <1>5, <2>1
<1> QED
  BY <1>3, <1>5, <1>6, <1>7

\* What lies behind the first n elements.
LEMMA BehindIs ==
  ASSUME NEW s \in Seq(Packet), NEW n \in Nat
  PROVE  /\ SubSeq(s, n + 1, Len(s)) \in Seq(Packet)
         /\ n <= Len(s) => Len(SubSeq(s, n + 1, Len(s))) = Len(s) - n
         /\ n >= Len(s) => Len(SubSeq(s, n + 1, Len(s))) = 0
         /\ \A i \in 1..Len(SubSeq(s, n + 1, Len(s))) :
               i + n \in 1..Len(s) /\ SubSeq(s, n + 1, Len(s))[i] = s[i + n]
<1>1. Len(s) \in Nat /\ \A i \in 1..Len(s) : s[i] \in Packet
  BY LenProperties, ElementOfSeq
<1>2. n + 1 \in Int /\ Len(s) \in Int /\ \A i \in (n + 1)..Len(s) : s[i] \in Packet
  BY <1>1
<1> DEFINE r == SubSeq(s, n + 1, Len(s))
<1>3. /\ r \in Seq(Packet)
      /\ Len(r) = IF n + 1 <= Len(s) THEN Len(s) - (n + 1) + 1 ELSE 0
      /\ \A i \in 1..(Len(s) - (n + 1) + 1) : r[i] = s[(n + 1) + i - 1]
  BY <1>2, SubSeqProperties
<1> HIDE DEF r
<1>4. /\ n <= Len(s) => Len(r) = Len(s) - n
      /\ n >= Len(s) => Len(r) = 0
  BY <1>1, <1>3
<1>5. ASSUME NEW i \in 1..Len(r) PROVE i + n \in 1..Len(s) /\ r[i] = s[i + n]
  <2>1. i \in 1..(Len(s) - (n + 1) + 1) /\ (n + 1) + i - 1 = i + n /\ i + n \in 1..Len(s)
    BY <1>1, <1>4
  <2> QED
    BY <1>3, <2>1
<1> QED
  BY <1>3, <1>4, <1>5 DEF r

\* A sequence is its first n elements and the others.
LEMMA CutInTwo ==
  ASSUME NEW s \in Seq(Packet), NEW n \in Nat
  PROVE  Upto(s, n) \o SubSeq(s, n + 1, Len(s)) = s
<1> DEFINE u == Upto(s, n)
           r == SubSeq(s, n + 1, Len(s))
<1>1. Len(s) \in Nat /\ n \in Int
  BY LenProperties
<1>2. /\ u \in Seq(Packet)
      /\ n <= Len(s) => Len(u) = n
      /\ n >= Len(s) => Len(u) = Len(s)
      /\ \A i \in 1..Len(u) : u[i] = s[i]
  BY <1>1, UptoIs
<1>3. /\ r \in Seq(Packet)
      /\ n <= Len(s) => Len(r) = Len(s) - n
      /\ n >= Len(s) => Len(r) = 0
      /\ \A i \in 1..Len(r) : r[i] = s[i + n]
  BY BehindIs
<1> HIDE DEF u, r
<1>a. u \in Seq(Packet) /\ r \in Seq(Packet)
  BY <1>2, <1>3
<1>4. /\ u \o r \in Seq(Packet) /\ Len(u \o r) = Len(u) + Len(r)
      /\ \A i \in 1..(Len(u) + Len(r)) : (u \o r)[i] = IF i <= Len(u) THEN u[i] ELSE r[i - Len(u)]
  BY <1>a, ConcatProperties
<1>5. Len(u) + Len(r) = Len(s) /\ Len(u) \in Nat
  BY <1>1, <1>2, <1>3
<1>6. ASSUME NEW i \in 1..Len(s) PROVE (u \o r)[i] = s[i]
  <2>1. CASE i <= Len(u)
    BY <1>2, <1>4, <1>5, <2>1
  <2>2. CASE ~ i <= Len(u)
    <3>1. n < Len(s) /\ Len(u) = n
      BY <1>1, <1>2, <2>2
    <3>2. i - n \in 1..Len(r) /\ (i - n) + n = i
      BY <1>1, <1>3, <2>2, <3>1
    <3> QED
      BY <1>3, <1>4, <1>5, <2>2, <3>1, <3>2
  <2> QED
    BY <2>1, <2>2
<1>7. u \o r = s
  BY <1>4, <1>5, <1>6, SeqEqual
<1> QED
  BY <1>7 DEF u, r

\* The first elements of a sequence that goes on.
LEMMA BehindConcat ==
  ASSUME NEW s \in Seq(Packet), NEW r \in Seq(Packet), NEW e \in 1..Len(s)
  PROVE  SubSeq(s, e + 1, Len(s)) \o r = SubSeq(s \o r, e + 1, Len(s \o r))
<1> DEFINE l == s \o r
           h == SubSeq(s, e + 1, Len(s))
           t == SubSeq(l, e + 1, Len(l))
<1>1. Len(s) \in Nat /\ Len(r) \in Nat /\ e \in Nat /\ e <= Len(s)
  BY LenProperties
<1>2. /\ l \in Seq(Packet) /\ Len(l) = Len(s) + Len(r)
      /\ \A i \in 1..(Len(s) + Len(r)) : l[i] = IF i <= Len(s) THEN s[i] ELSE r[i - Len(s)]
  BY ConcatProperties
<1> HIDE DEF l
<1>3. /\ h \in Seq(Packet) /\ Len(h) = Len(s) - e
      /\ \A i \in 1..Len(h) : h[i] = s[i + e]
  BY <1>1, BehindIs
<1>4. e <= Len(l)
  BY <1>1, <1>2
<1>5. /\ t \in Seq(Packet) /\ Len(t) = Len(l) - e
      /\ \A i \in 1..Len(t) : t[i] = l[i + e]
  BY <1>1, <1>2, <1>4, BehindIs
<1> HIDE DEF h, t
<1>6. /\ h \o r \in Seq(Packet) /\ Len(h \o r) = Len(h) + Len(r)
      /\ \A i \in 1..(Len(h) + Len(r)) : (h \o r)[i] = IF i <= Len(h) THEN h[i] ELSE r[i - Len(h)]
  BY <1>3, ConcatProperties
<1>7. Len(h) \in Nat /\ Len(t) = Len(h) + Len(r)
  BY <1>1, <1>2, <1>3, <1>5
<1>8. ASSUME NEW i \in 1..Len(t) PROVE (h \o r)[i] = t[i]
  <2>1. CASE i <= Len(h)
    <3>1. i \in 1..Len(h) /\ i + e \in 1..(Len(s) + Len(r)) /\ i + e <= Len(s)
      BY <1>1, <1>3, <1>7, <2>1
    <3> QED
      BY <1>2, <1>3, <1>5, <1>6, <1>7, <2>1, <3>1
  <2>2. CASE ~ i <= Len(h)
    <3>1. i + e \in 1..(Len(s) + Len(r)) /\ ~ (i + e <= Len(s)) /\ (i + e) - Len(s) = i - Len(h)
      BY <1>1, <1>3, <1>7, <2>2
    <3> QED
      BY <1>2, <1>5, <1>6, <1>7, <2>2, <3>1
  <2> QED
    BY <2>1, <2>2
<1>9. h \o r = t
  BY <1>5, <1>6, <1>7, <1>8, SeqEqual
<1> QED
  BY <1>9 DEF h, t, l

\* Reading moves what was read to what logcat holds; then the first e units of that
\* are taken out, or nothing.
ReadLanes(L, ds, units) ==
    /\ units \in Seq(Packet)
    /\ Lanes(ds, units) = L
    /\ Len(units) <= Len(L[1])
    /\ \A p \in 1..Len(units) : L[1][p] = units[p]
    /\ \A e \in 1..Len(units) :
          /\ SubSeq(units, e + 1, Len(units)) \in Seq(Packet)
          /\ TakenOut(L, Lanes(ds, SubSeq(units, e + 1, Len(units))), e)

LEMMA LaneRead ==
  ASSUME NEW cs \in Seq(Connection), NEW held \in Seq(Packet), cs # <<>>, NEW n \in Nat,
         NEW ds \in Seq(Connection), Len(ds) = Len(cs),
         ds[1].data = SubSeq(cs[1].data, n + 1, Len(cs[1].data)),
         \A i \in 2..Len(cs) : ds[i].data = cs[i].data,
         NEW units, units = held \o Upto(cs[1].data, n)
  PROVE  ReadLanes(Lanes(cs, held), ds, units)
<1> DEFINE L == Lanes(cs, held)
<1>1. PICK data : data = cs[1].data
  OBVIOUS
<1>2. PICK rest : rest = SubSeq(data, n + 1, Len(data))
  OBVIOUS
<1>3. PICK up : up = Upto(data, n)
  OBVIOUS
<1>4. /\ Len(cs) \in Nat /\ Len(cs) > 0
      /\ L \in Seq(Seq(Packet)) /\ Len(L) = Len(cs) /\ L[1] = held \o data
      /\ \A i \in 2..Len(cs) : L[i] = cs[i].data
  BY <1>1, LanesOfSome
<1> HIDE DEF L
<1>5. data \in Seq(Packet)
  <2>1. cs[1] \in Connection
    BY <1>4, ElementOfSeq
  <2> QED
    BY <1>1, <2>1 DEF Connection
<1>6. up \in Seq(Packet) /\ rest \in Seq(Packet) /\ up \o rest = data
  <2>1. n \in Int
    OBVIOUS
  <2> QED
    BY <1>2, <1>3, <1>5, <2>1, UptoIs, BehindIs, CutInTwo
<1>7. units = held \o up /\ ds[1].data = rest
  BY <1>1, <1>2, <1>3
<1>8. units \in Seq(Packet)
  BY <1>6, <1>7, ConcatProperties
<1>9. L[1] = units \o rest
  <2>1. (held \o up) \o rest = held \o (up \o rest)
    <3>1. up \in Seq(Packet) /\ rest \in Seq(Packet)
      BY <1>6
    <3> QED
      BY ONLY <3>1, held \in Seq(Packet), ConcatAssociative
  <2> QED
    BY <1>4, <1>6, <1>7, <2>1
<1>10. Len(units) \in Nat /\ Len(rest) \in Nat /\ Len(L[1]) = Len(units) + Len(rest)
       /\ \A i \in 1..(Len(units) + Len(rest)) :
             L[1][i] = IF i <= Len(units) THEN units[i] ELSE rest[i - Len(units)]
  BY <1>6, <1>8, <1>9, ConcatProperties, LenProperties
<1>11. ASSUME NEW h \in Seq(Packet)
       PROVE  /\ Lanes(ds, h) \in Seq(Seq(Packet)) /\ Len(Lanes(ds, h)) = Len(cs)
              /\ Lanes(ds, h)[1] = h \o rest
              /\ \A i \in 2..Len(cs) : Lanes(ds, h)[i] = L[i]
  <2>1. PICK N : N = Lanes(ds, h)
    OBVIOUS
  <2>2. ds # <<>>
    BY <1>4, EmptySeq
  <2>3. /\ N \in Seq(Seq(Packet)) /\ Len(N) = Len(ds)
        /\ N[1] = h \o ds[1].data
        /\ \A i \in 2..Len(ds) : N[i] = ds[i].data
    BY <2>1, <2>2, LanesOfSome
  <2>4. /\ N \in Seq(Seq(Packet)) /\ Len(N) = Len(cs) /\ N[1] = h \o rest
        /\ \A i \in 2..Len(cs) : N[i] = L[i]
    BY <1>4, <1>7, <2>3
  <2> QED
    BY <2>1, <2>4
<1>12. Lanes(ds, units) = L
  <2>1. PICK M : M = Lanes(ds, units)
    OBVIOUS
  <2>2. /\ M \in Seq(Seq(Packet)) /\ Len(M) = Len(cs) /\ M[1] = L[1]
        /\ \A i \in 2..Len(cs) : M[i] = L[i]
    BY <1>8, <1>9, <1>11, <2>1
  <2>3. ASSUME NEW i \in 1..Len(M) PROVE M[i] = L[i]
    <3>1. i = 1 \/ i \in 2..Len(cs)
      BY <1>4, <2>2
    <3> QED
      BY <2>2, <3>1
  <2> QED
    BY <1>4, <2>1, <2>2, <2>3, SeqEqual
<1>13. ASSUME NEW e \in 1..Len(units)
       PROVE  /\ SubSeq(units, e + 1, Len(units)) \in Seq(Packet)
              /\ TakenOut(L, Lanes(ds, SubSeq(units, e + 1, Len(units))), e)
  <2>1. PICK h : h = SubSeq(units, e + 1, Len(units))
    OBVIOUS
  <2>2. PICK M : M = Lanes(ds, h)
    OBVIOUS
  <2>3. e \in Nat /\ e <= Len(L[1]) /\ e \in 0..Len(L[1])
    BY <1>10
  <2>4. h \in Seq(Packet)
    BY <1>8, <2>1, <2>3, BehindIs
  <2>5. /\ M \in Seq(Seq(Packet)) /\ Len(M) = Len(cs) /\ M[1] = h \o rest
        /\ \A i \in 2..Len(cs) : M[i] = L[i]
    BY <1>11, <2>2, <2>4
  <2>6. M[1] = SubSeq(L[1], e + 1, Len(L[1]))
    <3>1. SubSeq(units, e + 1, Len(units)) \o rest = SubSeq(units \o rest, e + 1, Len(units \o rest))
      BY <1>6, <1>8, BehindConcat
    <3> QED
      BY <1>9, <2>1, <2>5, <3>1
  <2>7. TakenOut(L, M, e)
    BY <1>4, <2>3, <2>5, <2>6 DEF TakenOut
  <2> QED
    BY <2>1, <2>2, <2>4, <2>7
<1>14. ASSUME NEW p \in 1..Len(units) PROVE L[1][p] = units[p]
  <2>1. p \in 1..(Len(units) + Len(rest)) /\ p <= Len(units)
    BY <1>10
  <2> QED
    BY <1>10, <2>1
<1>15. Len(units) <= Len(L[1])
  BY <1>10
<1> QED
  BY <1>8, <1>12, <1>13, <1>14, <1>15 DEF L, ReadLanes

-----------------------------------------------------------------------------
(* LogConsole: bytes that come between, and bytes that are lost *)

\* In M the first lane of L has gaps, or Junk between its units.
SpoiltLanes(L, M) ==
    /\ L \in Seq(Seq(Packet)) /\ M \in Seq(Seq(Packet)) /\ Len(L) = Len(M) /\ Len(M) > 0
    /\ \A j \in 2..Len(M) : M[j] = L[j]
    /\ \E f \in [1..Len(M[1]) -> Int] : \A p \in 1..Len(M[1]) :
          \/ M[1][p] = Junk
          \/ /\ f[p] \in 1..Len(L[1]) /\ M[1][p] = L[1][f[p]]
             /\ \A q \in 1..Len(M[1]) : p < q /\ M[1][q] # Junk => f[p] < f[q]

LEMMA SpoiltInOrder ==
  ASSUME NEW L, NEW M, SpoiltLanes(L, M), LanesOrdered(L)
  PROVE  /\ LanesOrdered(M)
         /\ Waiting(M) \subseteq Waiting(L) \cup {Junk}
<1>1. /\ L \in Seq(Seq(Packet)) /\ M \in Seq(Seq(Packet)) /\ Len(L) \in Nat /\ Len(M) = Len(L)
      /\ 1 \in 1..Len(L)
      /\ \A j \in 1..Len(M) : j # 1 => M[j] = L[j]
  <2>1. /\ L \in Seq(Seq(Packet)) /\ M \in Seq(Seq(Packet)) /\ Len(L) \in Nat /\ Len(M) = Len(L)
        /\ Len(M) > 0 /\ \A j \in 2..Len(M) : M[j] = L[j]
    BY LenProperties DEF SpoiltLanes
  <2> QED
    BY <2>1
<1>2. PICK f \in [1..Len(M[1]) -> Int] : \A p \in 1..Len(M[1]) :
          \/ M[1][p] = Junk
          \/ /\ f[p] \in 1..Len(L[1]) /\ M[1][p] = L[1][f[p]]
             /\ \A q \in 1..Len(M[1]) : p < q /\ M[1][q] # Junk => f[p] < f[q]
  BY DEF SpoiltLanes
<1>3. /\ L[1] \in Seq(Packet) /\ M[1] \in Seq(Packet)
      /\ \A i \in 1..Len(L) : \A p \in 1..Len(L[i]) : L[i][p] \in Packet
      /\ \A i \in 1..Len(M) : \A p \in 1..Len(M[i]) : M[i][p] \in Packet
  BY <1>1, LaneIs
<1>4. \A u \in Packet : Earlier(u, Junk) /\ Earlier(Junk, u)
  BY MsgKinds DEF Earlier
<1>5. InOneLane(M[1])
  <2> SUFFICES ASSUME NEW p \in 1..Len(M[1]), NEW q \in 1..Len(M[1]), p < q
               PROVE  Earlier(M[1][p], M[1][q])
    BY DEF InOneLane
  <2>1. M[1][p] \in Packet /\ M[1][q] \in Packet
    BY <1>1, <1>3
  <2>2. CASE M[1][p] = Junk \/ M[1][q] = Junk
    BY <1>4, <2>1, <2>2
  <2>3. CASE M[1][p] # Junk /\ M[1][q] # Junk
    <3>1. /\ f[p] \in 1..Len(L[1]) /\ f[q] \in 1..Len(L[1]) /\ f[p] < f[q]
          /\ M[1][p] = L[1][f[p]] /\ M[1][q] = L[1][f[q]]
      BY <1>2, <2>3
    <3>2. InOneLane(L[1])
      BY <1>1 DEF LanesOrdered
    <3> QED
      BY <3>1, <3>2 DEF InOneLane
  <2> QED
    BY <2>2, <2>3
<1>6. ASSUME NEW j \in 1..Len(M), 1 < j PROVE BetweenLanes(M[1], M[j])
  <2> SUFFICES ASSUME NEW p \in 1..Len(M[1]), NEW q \in 1..Len(M[j])
               PROVE  Earlier(M[1][p], M[j][q])
    BY DEF BetweenLanes
  <2>1. M[j] = L[j] /\ M[j][q] \in Packet /\ BetweenLanes(L[1], L[j])
    BY <1>1, <1>3, <1>6 DEF LanesOrdered
  <2>2. CASE M[1][p] = Junk
    BY <1>4, <2>1, <2>2
  <2>3. CASE M[1][p] # Junk
    BY <1>2, <2>1, <2>3 DEF BetweenLanes
  <2> QED
    BY <2>2, <2>3
<1>7. LanesOrdered(M)
  <2>1. \A i \in 1..Len(M) : InOneLane(M[i])
    BY <1>1, <1>5 DEF LanesOrdered
  <2>2. ASSUME NEW i \in 1..Len(M), NEW j \in 1..Len(M), i < j PROVE BetweenLanes(M[i], M[j])
    <3>1. CASE i = 1
      BY <1>6, <2>2, <3>1
    <3>2. CASE i # 1
      <4>1. j # 1 /\ M[i] = L[i] /\ M[j] = L[j]
        BY <1>1, <2>2, <3>2
      <4> QED
        BY <1>1, <2>2, <4>1 DEF LanesOrdered
    <3> QED
      BY <3>1, <3>2
  <2> QED
    BY <2>1, <2>2 DEF LanesOrdered
<1>8. ASSUME NEW u \in Waiting(M), u # Junk PROVE u \in Waiting(L)
  <2>a. PICK i \in 1..Len(M) : \E p \in 1..Len(M[i]) : M[i][p] = u
    BY <1>8 DEF Waiting
  <2>1. PICK p \in 1..Len(M[i]) : M[i][p] = u
    BY <2>a
  <2>2. u \in Packet /\ i \in 1..Len(L)
    BY <1>1 DEF Waiting
  <2>3. \E q \in 1..Len(L[i]) : L[i][q] = u
    <3>1. CASE i = 1
      BY <1>2, <1>8, <2>1, <3>1
    <3>2. CASE i # 1
      BY <1>1, <2>1, <3>2
    <3> QED
      BY <3>1, <3>2
  <2> QED
    BY <2>2, <2>3 DEF Waiting
<1> QED
  BY <1>7, <1>8

LEMMA SpoiltOnLanes ==
  ASSUME ConsoleKinds, NEW L, NEW M, SpoiltLanes(L, M), OnLanes(L)
  PROVE  OnLanes(M)
<1>1. LanesOrdered(M) /\ Waiting(M) \subseteq Waiting(L) \cup {Junk}
  BY SpoiltInOrder DEF OnLanes
<1>2. WasTried(Junk.msg) /\ \A m : ShownBefore(m, Junk)
  BY MsgKinds DEF WasTried, ShownBefore
<1> QED
  BY <1>1, <1>2 DEF OnLanes

\* Junk behind what logcat holds.
LEMMA JunkSpoils ==
  ASSUME NEW cs \in Seq(Connection), NEW held \in Seq(Packet), cs # <<>>
  PROVE  /\ held \o <<Junk>> \in Seq(Packet)
         /\ SpoiltLanes(Lanes(cs, held), Lanes(cs, held \o <<Junk>>))
<1>1. PICK data : data = cs[1].data
  OBVIOUS
<1>2. PICK more : more = held \o <<Junk>>
  OBVIOUS
<1>3. PICK L : L = Lanes(cs, held)
  OBVIOUS
<1>4. PICK M : M = Lanes(cs, more)
  OBVIOUS
<1>5. /\ more \in Seq(Packet) /\ Len(held) \in Nat /\ Len(more) = Len(held) + 1
      /\ \A p \in 1..Len(held) : more[p] = held[p]
      /\ more[Len(held) + 1] = Junk
  <2>1. Junk \in Packet /\ Len(held) \in Nat
    BY MsgKinds, LenProperties
  <2>2. more = Append(held, Junk)
    BY <1>2, <2>1
  <2> QED
    BY <2>1, <2>2, AppendProperties
<1>6. /\ Len(cs) \in Nat /\ Len(cs) > 0
      /\ L \in Seq(Seq(Packet)) /\ Len(L) = Len(cs) /\ L[1] = held \o data
      /\ M \in Seq(Seq(Packet)) /\ Len(M) = Len(cs) /\ M[1] = more \o data
      /\ \A j \in 2..Len(cs) : L[j] = cs[j].data /\ M[j] = cs[j].data
  BY <1>1, <1>3, <1>4, <1>5, LanesOfSome
<1>7. data \in Seq(Packet) /\ Len(data) \in Nat
  <2>1. cs[1] \in Connection
    BY <1>6, ElementOfSeq
  <2> QED
    BY <1>1, <2>1, LenProperties DEF Connection
<1>8. /\ Len(L[1]) = Len(held) + Len(data)
      /\ \A p \in 1..(Len(held) + Len(data)) :
            L[1][p] = IF p <= Len(held) THEN held[p] ELSE data[p - Len(held)]
  BY <1>6, <1>7, ConcatProperties
<1>9. /\ Len(M[1]) = Len(held) + 1 + Len(data)
      /\ \A p \in 1..(Len(held) + 1 + Len(data)) :
            M[1][p] = IF p <= Len(held) + 1 THEN more[p] ELSE data[p - (Len(held) + 1)]
  <2>1. /\ Len(more \o data) = Len(more) + Len(data)
        /\ \A p \in 1..(Len(more) + Len(data)) :
              (more \o data)[p] = IF p <= Len(more) THEN more[p] ELSE data[p - Len(more)]
    BY <1>5, <1>7, ConcatProperties
  <2> QED
    BY <1>5, <1>6, <1>7, <2>1
<1>10. PICK f : f = [p \in 1..Len(M[1]) |-> IF p <= Len(held) THEN p ELSE p - 1]
  OBVIOUS
<1>11. \A p \in 1..Len(M[1]) : p \in Nat /\ f[p] = IF p <= Len(held) THEN p ELSE p - 1
  BY <1>5, <1>7, <1>9, <1>10
<1>12. ASSUME NEW p \in 1..Len(M[1]), p # Len(held) + 1
       PROVE  /\ f[p] \in 1..Len(L[1]) /\ M[1][p] = L[1][f[p]]
              /\ \A q \in 1..Len(M[1]) : p < q /\ q # Len(held) + 1 => f[p] < f[q]
  <2>1. CASE p <= Len(held)
    <3>1. f[p] = p /\ p \in 1..Len(held) /\ p \in 1..(Len(held) + Len(data))
          /\ p \in 1..(Len(held) + 1 + Len(data)) /\ p <= Len(held) + 1
      BY <1>5, <1>7, <1>9, <1>11, <1>12, <2>1
    <3>2. M[1][p] = L[1][f[p]]
      BY <1>5, <1>8, <1>9, <2>1, <3>1
    <3> QED
      BY <1>5, <1>8, <1>11, <2>1, <3>1, <3>2
  <2>2. CASE ~ p <= Len(held)
    <3>1. /\ f[p] = p - 1 /\ ~ p <= Len(held) + 1 /\ ~ p - 1 <= Len(held)
          /\ p - 1 \in 1..(Len(held) + Len(data))
          /\ p \in 1..(Len(held) + 1 + Len(data))
          /\ (p - 1) - Len(held) = p - (Len(held) + 1)
      BY <1>5, <1>7, <1>9, <1>11, <1>12, <2>2
    <3>2. M[1][p] = L[1][f[p]]
      BY <1>8, <1>9, <3>1
    <3> QED
      BY <1>5, <1>8, <1>11, <2>2, <3>1, <3>2
  <2> QED
    BY <2>1, <2>2
<1>13. Len(held) + 1 \in 1..Len(M[1]) /\ M[1][Len(held) + 1] = Junk
  <2>1. Len(held) + 1 \in 1..(Len(held) + 1 + Len(data))
    BY <1>5, <1>7
  <2> QED
    BY <1>5, <1>9, <2>1
<1>14. f \in [1..Len(M[1]) -> Int]
  BY <1>5, <1>10, <1>11
<1>15. \A p \in 1..Len(M[1]) :
          \/ M[1][p] = Junk
          \/ /\ f[p] \in 1..Len(L[1]) /\ M[1][p] = L[1][f[p]]
             /\ \A q \in 1..Len(M[1]) : p < q /\ M[1][q] # Junk => f[p] < f[q]
  BY <1>12, <1>13
<1>16. \A j \in 2..Len(M) : M[j] = L[j]
  BY <1>6
<1>17. SpoiltLanes(L, M)
  BY <1>6, <1>14, <1>15, <1>16 DEF SpoiltLanes
<1> QED
  BY <1>2, <1>3, <1>4, <1>5, <1>17

\* The rest of the first connection is lost.
LEMMA LossSpoils ==
  ASSUME NEW cs \in Seq(Connection), NEW held \in Seq(Packet), cs # <<>>,
         NEW ds, ds = [cs EXCEPT ![1] = [cs[1] EXCEPT !.data = <<>>]]
  PROVE  /\ ds \in Seq(Connection) /\ ds # <<>> /\ ds[1].data = <<>> /\ Tail(ds) = Tail(cs)
         /\ SpoiltLanes(Lanes(cs, held), Lanes(ds, held))
<1>1. Len(cs) \in Nat /\ Len(cs) > 0 /\ 1 \in 1..Len(cs) /\ \A j \in 1..Len(cs) : cs[j] \in Connection
  <2>1. Len(cs) \in Nat /\ Len(cs) > 0
    BY LanesOfSome
  <2> QED
    BY <2>1, ElementOfSeq
<1>2. PICK c : c = [cs[1] EXCEPT !.data = <<>>]
  OBVIOUS
<1>3. c \in Connection /\ c.data = <<>>
  <2>1. <<>> \in Seq(Packet)
    BY EmptySeq
  <2> QED
    BY <1>1, <1>2, <2>1 DEF Connection
<1>4. /\ ds \in Seq(Connection) /\ Len(ds) = Len(cs)
      /\ \A j \in 1..Len(cs) : ds[j] = IF j = 1 THEN c ELSE cs[j]
  BY <1>1, <1>2, <1>3, ExceptSeq
<1>5. ds # <<>> /\ ds[1].data = <<>>
  BY <1>1, <1>3, <1>4, EmptySeq
<1>6. Tail(ds) = Tail(cs)
  <2>1. PICK t : t = Tail(ds)
    OBVIOUS
  <2>2. PICK r : r = Tail(cs)
    OBVIOUS
  <2>3. /\ t \in Seq(Connection) /\ Len(t) = Len(cs) - 1 /\ \A i \in 1..Len(t) : t[i] = ds[i + 1]
        /\ r \in Seq(Connection) /\ Len(r) = Len(cs) - 1 /\ \A i \in 1..Len(r) : r[i] = cs[i + 1]
    BY <1>4, <1>5, <2>1, <2>2, HeadTailProperties
  <2>4. \A i \in 1..Len(t) : t[i] = r[i]
    <3>1. \A i \in 1..Len(t) : i + 1 \in 1..Len(cs) /\ i + 1 # 1
      BY <1>1, <2>3
    <3> QED
      BY <1>4, <2>3, <3>1
  <2> QED
    BY <2>1, <2>2, <2>3, <2>4, SeqEqual
<1>7. PICK L : L = Lanes(cs, held)
  OBVIOUS
<1>8. PICK M : M = Lanes(ds, held)
  OBVIOUS
<1>9. /\ L \in Seq(Seq(Packet)) /\ Len(L) = Len(cs) /\ L[1] = held \o cs[1].data
      /\ M \in Seq(Seq(Packet)) /\ Len(M) = Len(ds) /\ M[1] = held \o ds[1].data
      /\ \A j \in 2..Len(cs) : L[j] = cs[j].data
      /\ \A j \in 2..Len(ds) : M[j] = ds[j].data
  <2>1. ds # <<>> /\ ds \in Seq(Connection)
    BY <1>4, <1>5
  <2>2. /\ M \in Seq(Seq(Packet)) /\ Len(M) = Len(ds) /\ M[1] = held \o ds[1].data
        /\ \A j \in 2..Len(ds) : M[j] = ds[j].data
    BY <1>8, <2>1, LanesOfSome
  <2>3. /\ L \in Seq(Seq(Packet)) /\ Len(L) = Len(cs) /\ L[1] = held \o cs[1].data
        /\ \A j \in 2..Len(cs) : L[j] = cs[j].data
    BY <1>7, LanesOfSome
  <2> QED
    BY <2>2, <2>3
<1>10. M[1] = held
  BY <1>5, <1>9, ConcatEmptySeq
<1>11. \A j \in 2..Len(M) : M[j] = L[j]
  <2>1. \A j \in 2..Len(cs) : j \in 1..Len(cs) /\ j # 1
    BY <1>1
  <2> QED
    BY <1>4, <1>9, <2>1
<1>12. PICK data : data = cs[1].data
  OBVIOUS
<1>13. data \in Seq(Packet) /\ Len(data) \in Nat /\ Len(held) \in Nat
  BY <1>1, <1>12, LenProperties DEF Connection
<1>14. /\ Len(L[1]) = Len(held) + Len(data)
       /\ \A p \in 1..(Len(held) + Len(data)) :
             L[1][p] = IF p <= Len(held) THEN held[p] ELSE data[p - Len(held)]
  BY <1>9, <1>12, <1>13, ConcatProperties
<1>15. PICK f : f = [p \in 1..Len(M[1]) |-> p]
  OBVIOUS
<1>16. ASSUME NEW p \in 1..Len(M[1])
       PROVE  /\ f[p] = p /\ p \in 1..Len(L[1]) /\ M[1][p] = L[1][p] /\ p \in Int
  <2>1. p \in 1..(Len(held) + Len(data)) /\ p <= Len(held)
    BY <1>10, <1>13
  <2> QED
    BY <1>10, <1>14, <1>15, <2>1
<1>17. f \in [1..Len(M[1]) -> Int]
  BY <1>15, <1>16
<1>18. \A p \in 1..Len(M[1]) :
          /\ f[p] \in 1..Len(L[1]) /\ M[1][p] = L[1][f[p]]
          /\ \A q \in 1..Len(M[1]) : p < q => f[p] < f[q]
  BY <1>16
<1>19. SpoiltLanes(L, M)
  BY <1>1, <1>4, <1>9, <1>11, <1>17, <1>18 DEF SpoiltLanes
<1> QED
  BY <1>4, <1>5, <1>6, <1>7, <1>8, <1>19

-----------------------------------------------------------------------------
(* LogConsole: what keeps the invariant *)

LEMMA LineIs ==
  ASSUME ConsoleKinds
  PROVE  /\ Line \in Seq(Seq(Packet)) /\ Len(Line) \in Nat /\ Len(Line) > 0
         /\ Len(conns) \in Nat /\ (conns = <<>> <=> Len(conns) = 0)
         /\ conns = <<>> => Len(Line) = 1
         /\ conns # <<>> => Len(Line) = Len(conns)
         /\ \A i \in 1..Len(conns) : i # 1 => Line[i] = conns[i].data
         /\ \A i \in 1..Len(conns) : /\ conns[i] \in Connection /\ conns[i].app \in Apps
                                     /\ conns[i].data \in Seq(Packet) /\ conns[i].closed \in BOOLEAN
<1>1. conns \in Seq(Connection) /\ jsonContent \in Seq(Packet)
  BY DEF ConsoleKinds
<1>2. /\ Line \in Seq(Seq(Packet))
      /\ Len(conns) \in Nat /\ (conns = <<>> <=> Len(conns) = 0)
      /\ Len(Line) = IF conns = <<>> THEN 1 ELSE Len(conns)
      /\ \A i \in 2..Len(conns) : Line[i] = conns[i].data
      /\ \A i \in 1..Len(conns) : conns[i] \in Connection
  BY <1>1, LanesAre DEF Line
<1>3. \A i \in 1..Len(conns) : i # 1 => Line[i] = conns[i].data
  BY <1>2
<1>4. \A i \in 1..Len(conns) : /\ conns[i].app \in Apps
                               /\ conns[i].data \in Seq(Packet) /\ conns[i].closed \in BOOLEAN
  BY <1>2 DEF Connection
<1>5. Len(Line) \in Nat /\ Len(Line) > 0
  BY <1>2
<1> QED
  BY <1>2, <1>3, <1>4, <1>5

TriedGrows == \A a \in Apps : Tried(a)' >= Tried(a)

LEMMA TriedIs == ASSUME ConsoleKinds PROVE \A a \in Apps : Tried(a) \in Int
  BY DEF ConsoleKinds, Tried

LEMMA TriedBefore ==
  ASSUME ConsoleKinds, ConsoleKinds', TriedGrows
  PROVE  \A m \in ViewerMsg : WasTried(m) => WasTried(m)'
<1> SUFFICES ASSUME NEW m \in ViewerMsg, WasTried(m), m.n > 0
             PROVE  m.app \in Apps /\ m.n <= Tried(m.app)'
  BY DEF WasTried
<1>1. m.app \in Apps /\ m.n <= Tried(m.app) /\ m.n \in Int
  BY MsgKinds DEF WasTried
<1>2. Tried(m.app) \in Int /\ Tried(m.app)' \in Int /\ Tried(m.app)' >= Tried(m.app)
  BY <1>1, TriedIs DEF TriedGrows, ConsoleKinds, Tried
<1> QED
  BY <1>1, <1>2

\* Neither the lanes nor what the viewers got change.
LEMMA SameLine ==
  ASSUME ConInv, ConsoleKinds', OneOpen', TriedGrows,
         Line' = Line, conns' # <<>> => conns # <<>>,
         server' # "down" /\ restarts' = 0 => server # "down" /\ restarts = 0,
         UNCHANGED <<gJsonNotice, out, accepted, forwarded, torn>>
  PROVE  ConInv'
<1>1. \A m \in ViewerMsg : WasTried(m) => WasTried(m)'
  BY TriedBefore DEF ConInv
<1>2. OnTheWay'
  <2>1. LanesOrdered(Line)'
    BY DEF ConInv, OnTheWay
  <2>2. \A u \in Waiting(Line)' : WasTried(u.msg)'
    <3>1. \A u \in Waiting(Line) : WasTried(u.msg) /\ u.msg \in ViewerMsg
      BY MsgKinds DEF ConInv, OnTheWay, Waiting
    <3> QED
      BY <1>1, <3>1
  <2>3. \A v \in Viewers : \A k \in 1..Len(out[v]) : WasTried(out[v][k])'
    <3> SUFFICES ASSUME NEW v \in Viewers, NEW k \in 1..Len(out[v]) PROVE WasTried(out[v][k])'
      OBVIOUS
    <3>1. WasTried(out[v][k])
      BY DEF ConInv, OnTheWay
    <3>2. out[v] \in Seq(ViewerMsg)
      BY DEF ConInv, ConsoleKinds
    <3>3. PICK m : m = out[v][k]
      OBVIOUS
    <3>4. m \in ViewerMsg /\ WasTried(m)
      BY <3>1, <3>2, <3>3, ElementOfSeq
    <3>5. WasTried(m)'
      BY <1>1, <3>4
    <3>6. out[v][k]' = m
      BY <3>3
    <3> QED
      BY <3>5, <3>6 DEF WasTried, Tried
  <2>4. \A v \in Viewers : \A k \in 1..Len(out[v]) : \A w \in Waiting(Line) : ShownBefore(out[v][k], w)
    BY DEF ConInv, OnTheWay
  <2> QED
    BY <2>1, <2>2, <2>3, <2>4 DEF OnTheWay
<1>3. InOrder'
  BY DEF ConInv, InOrder
<1>4. WholeOnes'
  BY DEF ConInv, WholeOnes
<1>5. NoticeAhead'
  BY DEF ConInv, NoticeAhead
<1>6. NoticeShown'
  BY DEF ConInv, NoticeShown
<1>7. StillThere'
  BY DEF ConInv, StillThere
<1> QED
  BY <1>2, <1>3, <1>4, <1>5, <1>6, <1>7 DEF ConInv

\* An application has sent s.
LEMMA MoreSent ==
  ASSUME ConInv, ConsoleKinds', OneOpen', TriedGrows,
         NEW k, NEW s, AddedTo(Line, Line', k, s),
         InOneLane(s),
         \A u \in Waiting(Line), q \in 1..Len(s) : Earlier(u, s[q]),
         \A j \in 1..Len(Line) : k < j => BetweenLanes(s, Line[j]),
         \A q \in 1..Len(s) : WasTried(s[q].msg)',
         \A v \in Viewers : \A i \in 1..Len(out[v]) : \A q \in 1..Len(s) : ShownBefore(out[v][i], s[q]),
         ~ torn' => ~ torn /\ Paired(s) /\ \A q \in 1..Len(s) : s[q].msg # None,
         accepted' \subseteq accepted \cup {s[q].msg : q \in 1..Len(s)},
         conns' # <<>>, conns = <<>> => k = 1,
         conns = <<>> \/ k \notin 1..Len(Line) => s # <<>> /\ s[1].msg.n = 0,
         UNCHANGED <<server, gJsonNotice, out, restarts, forwarded>>
  PROVE  ConInv'
<1>1. \A m \in ViewerMsg : WasTried(m) => WasTried(m)'
  BY TriedBefore DEF ConInv
<1>2. PICK L : L = Line
  OBVIOUS
<1>3. PICK M : M = Line'
  OBVIOUS
<1>4. /\ AddedTo(L, M, k, s) /\ s \in Seq(Packet) /\ L \in Seq(Seq(Packet)) /\ M \in Seq(Seq(Packet))
      /\ Range(s) = {s[q] : q \in 1..Len(s)}
      /\ Waiting(M) = Waiting(L) \cup Range(s)
  <2>1. AddedTo(L, M, k, s)
    BY <1>2, <1>3
  <2>2. s \in Seq(Packet) /\ L \in Seq(Seq(Packet)) /\ M \in Seq(Seq(Packet))
    BY <2>1 DEF AddedTo
  <2> QED
    BY <2>1, <2>2, AddedWaits, RangeEquality
<1>5. LanesOrdered(M)
  <2>1. LanesOrdered(L)
    BY <1>2 DEF ConInv, OnTheWay
  <2> QED
    BY <1>2, <1>4, <2>1, AddedInOrder
<1>6. ASSUME NEW u \in Waiting(M) PROVE u \in Waiting(L) \/ \E q \in 1..Len(s) : u = s[q]
  BY <1>4
<1>7. OnTheWay'
  <2>1. ASSUME NEW u \in Waiting(M) PROVE WasTried(u.msg)'
    <3>1. ASSUME u \in Waiting(L) PROVE WasTried(u.msg)'
      <4>1. WasTried(u.msg)
        BY <1>2, <3>1 DEF ConInv, OnTheWay
      <4>2. u.msg \in ViewerMsg
        BY <3>1, MsgKinds DEF Waiting
      <4> QED
        BY <1>1, <4>1, <4>2
    <3> QED
      BY <1>6, <3>1
  <2>2. ASSUME NEW v \in Viewers, NEW i \in 1..Len(out[v])
        PROVE  /\ WasTried(out[v][i])'
               /\ \A w \in Waiting(M) : ShownBefore(out[v][i], w)
    <3>1. WasTried(out[v][i]) /\ \A w \in Waiting(L) : ShownBefore(out[v][i], w)
      BY <1>2 DEF ConInv, OnTheWay
    <3>2. out[v] \in Seq(ViewerMsg)
      BY DEF ConInv, ConsoleKinds
    <3>3. PICK m : m = out[v][i]
      OBVIOUS
    <3>4. m \in ViewerMsg /\ WasTried(m)
      BY <3>1, <3>2, <3>3, ElementOfSeq
    <3>5. WasTried(m)'
      BY <1>1, <3>4
    <3>6. out[v][i]' = m
      BY <3>3
    <3>7. WasTried(out[v][i])'
      BY <3>5, <3>6 DEF WasTried, Tried
    <3>8. \A w \in Waiting(M) : ShownBefore(out[v][i], w)
      BY <1>6, <3>1
    <3> QED
      BY <3>7, <3>8
  <2>3. LanesOrdered(Line)' /\ Waiting(Line)' = Waiting(M)
    BY <1>3, <1>5
  <2> QED
    BY <2>1, <2>2, <2>3 DEF OnTheWay
<1>8. InOrder'
  BY DEF ConInv, InOrder
<1>9. WholeOnes'
  <2> SUFFICES ASSUME ~ torn' PROVE LanesPaired(M) /\ \A u \in Waiting(M) : u.msg # None
    BY <1>3 DEF WholeOnes
  <2>1. LanesPaired(L) /\ \A u \in Waiting(L) : u.msg # None
    BY <1>2 DEF ConInv, WholeOnes
  <2> QED
    BY <1>4, <1>6, <2>1, AddedPairs
<1>10. NoticeAhead'
  <2>1. /\ LaneAt(L, k) \in Seq(Packet)
        /\ M[k] = LaneAt(L, k) \o s
        /\ \A i \in 1..Len(M) : i # k => i \in 1..Len(L) /\ M[i] = L[i]
        /\ \A i \in 1..Len(L) : i = k => LaneAt(L, k) = L[i]
        /\ k \in 1..Len(L) \/ LaneAt(L, k) = <<>>
    BY <1>4, AddedLane
  <2>2. /\ \A i \in 1..Len(L) : i # 1 => L[i] # <<>> /\ L[i][1].msg.n = 0
        /\ ~ torn /\ gJsonNotice = None =>
               /\ conns # <<>> => L[1] # <<>>
               /\ L[1] # <<>> => L[1][1].msg.n = 0
    BY <1>2 DEF ConInv, NoticeAhead
  <2>3. PICK old : old = LaneAt(L, k)
    OBVIOUS
  <2>4. old \in Seq(Packet) /\ Len(old) \in Nat /\ Len(s) \in Nat
        /\ (old # <<>> => Len(old) > 0) /\ (s # <<>> => Len(s) > 0)
    BY <1>4, <2>1, <2>3, LenProperties, EmptySeq
  <2>5. Len(old \o s) = Len(old) + Len(s)
        /\ \A i \in 1..(Len(old) + Len(s)) : (old \o s)[i] = IF i <= Len(old) THEN old[i] ELSE s[i - Len(old)]
    BY <1>4, <2>4, ConcatProperties
  <2>6. old # <<>> => old \o s # <<>> /\ (old \o s)[1] = old[1]
    <3> SUFFICES ASSUME old # <<>> PROVE old \o s # <<>> /\ (old \o s)[1] = old[1]
      OBVIOUS
    <3>1. 1 \in 1..(Len(old) + Len(s)) /\ 1 <= Len(old) /\ Len(old \o s) > 0
      BY <2>4, <2>5
    <3> QED
      BY <2>5, <3>1
  <2>7. old = <<>> => old \o s = s
    BY <1>4, ConcatEmptySeq
  <2>8. ASSUME NEW i \in 1..Len(M), i # 1 PROVE M[i] # <<>> /\ M[i][1].msg.n = 0
    <3>1. CASE i # k
      BY <2>1, <2>2, <2>8, <3>1
    <3>2. CASE i = k /\ k \in 1..Len(L)
      <4>1. old # <<>> /\ old[1].msg.n = 0 /\ M[i] = old \o s
        BY <2>1, <2>2, <2>3, <2>8, <3>2
      <4> QED
        BY <2>6, <4>1
    <3>3. CASE i = k /\ k \notin 1..Len(L)
      <4>1. s # <<>> /\ s[1].msg.n = 0 /\ M[i] = old \o s /\ old = <<>>
        BY <1>2, <2>1, <2>3, <3>3
      <4> QED
        BY <2>7, <4>1
    <3> QED
      BY <3>1, <3>2, <3>3
  <2>9. ASSUME ~ torn, gJsonNotice = None PROVE M[1] # <<>> /\ M[1][1].msg.n = 0
    <3>1. (conns # <<>> => L[1] # <<>>) /\ (L[1] # <<>> => L[1][1].msg.n = 0)
      BY <2>2, <2>9
    <3>2. 1 \in 1..Len(L) /\ 1 \in 1..Len(M)
      <4>1. Len(L) \in Nat /\ Len(L) > 0
        BY <1>2, LineIs DEF ConInv
      <4>2. 1 \in 1..Len(L)
        BY <4>1
      <4> QED
        BY <1>4, <4>2 DEF AddedTo
    <3>3. CASE k # 1
      BY <2>1, <3>1, <3>2, <3>3
    <3>4. CASE k = 1
      <4>1. old = L[1] /\ M[1] = old \o s
        BY <2>1, <2>3, <3>2, <3>4
      <4>2. CASE old # <<>>
        BY <2>6, <3>1, <4>1, <4>2
      <4>3. CASE old = <<>>
        BY <2>7, <3>1, <4>1, <4>3
      <4> QED
        BY <4>2, <4>3
    <3> QED
      BY <3>3, <3>4
  <2>10. ~ torn' => ~ torn
    OBVIOUS
  <2> QED
    BY <1>3, <2>8, <2>9, <2>10 DEF NoticeAhead
<1>11. NoticeShown'
  BY DEF ConInv, NoticeShown
<1>12. StillThere'
  <2> SUFFICES ASSUME ~ torn', restarts = 0, server # "down", NEW m \in accepted'
               PROVE  m \in forwarded \/ \E u \in Waiting(M) : u.msg = m
    BY <1>3 DEF StillThere
  <2>1. CASE m \in accepted
    <3>1. m \in forwarded \/ \E u \in Waiting(L) : u.msg = m
      BY <1>2, <2>1 DEF ConInv, StillThere
    <3> QED
      BY <1>4, <3>1
  <2>2. CASE m \notin accepted
    <3>1. PICK q \in 1..Len(s) : m = s[q].msg
      BY <2>2
    <3> QED
      BY <1>4, <3>1
  <2> QED
    BY <2>1, <2>2
<1> QED
  BY <1>7, <1>8, <1>9, <1>10, <1>11, <1>12 DEF ConInv

-----------------------------------------------------------------------------
(* LogConsole: the applications *)

AppStates == {"idle", "init", "send", "handlerInit", "handlerSend", "exit", "exited", "deadlocked"}

LEMMA GoesOn ==
  ASSUME ConsoleKinds, NEW a \in Apps, NEW l \in AppStates, Goto(a, l), written' = written,
         at[a] \in {"init", "send"} \/ l \notin {"init", "send"}
  PROVE  TriedGrows /\ at' \in [Apps -> AppStates]
<1>1. at \in [Apps -> AppStates] /\ written \in [Apps -> Nat] /\ at' = [at EXCEPT ![a] = l]
  BY DEF ConsoleKinds, AppStates, Goto
<1>2. ASSUME NEW b \in Apps PROVE Tried(b)' >= Tried(b)
  <2>1. at'[b] = IF b = a THEN l ELSE at[b]
    BY <1>1
  <2>2. written[b] \in Nat
    BY <1>1
  <2>3. CASE b = a
    BY <2>1, <2>2, <2>3 DEF Tried
  <2>4. CASE b # a
    BY <2>1, <2>2, <2>4 DEF Tried
  <2> QED
    BY <2>3, <2>4
<1> QED
  BY <1>1, <1>2 DEF TriedGrows

\* The connections stay in order when an application closes its own, or opens one
\* while it has none.
ConnectionsKept == /\ conns' \in Seq(Connection) /\ fd' \in [Apps -> BOOLEAN]
                   /\ OneOpen'

LEMMA CloseKeeps ==
  ASSUME ConsoleKinds, OneOpen, NEW a \in Apps, Destroyed(a), serving' = serving,
         jsonContent' = jsonContent
  PROVE  ConnectionsKept /\ Line' = Line /\ (conns' = <<>> <=> conns = <<>>)
<1>1. /\ Len(conns) \in Nat
      /\ conns \in Seq(Connection) /\ jsonContent \in Seq(Packet) /\ DOMAIN conns = 1..Len(conns)
      /\ \A i \in 1..Len(conns) : /\ conns[i] \in Connection /\ conns[i].app \in Apps
                                  /\ conns[i].data \in Seq(Packet) /\ conns[i].closed \in BOOLEAN
  BY LineIs, LenProperties DEF ConsoleKinds
<1>2. PICK n : n = Len(conns)
  OBVIOUS
<1>3. PICK ds : ds = [i \in 1..n |-> IF i \in Mine(a) THEN [conns[i] EXCEPT !.closed = TRUE] ELSE conns[i]]
  OBVIOUS
<1>4. conns' = ds
  BY <1>1, <1>2, <1>3 DEF Destroyed
<1>5. ASSUME NEW i \in 1..n
      PROVE  /\ ds[i] \in Connection /\ ds[i].data = conns[i].data /\ ds[i].app = conns[i].app
             /\ conns[i].closed => ds[i].closed
             /\ conns[i].app = a => ds[i].closed
             /\ conns[i].app # a => ds[i] = conns[i]
  <2>1. conns[i] \in Connection
    BY <1>1, <1>2
  <2>2. i \in Mine(a) <=> conns[i].app = a /\ ~ conns[i].closed
    BY <1>1, <1>2 DEF Mine
  <2>3. CASE i \in Mine(a)
    <3>1. ds[i] = [conns[i] EXCEPT !.closed = TRUE]
      BY <1>3, <2>3
    <3>2. /\ ds[i] \in Connection /\ ds[i].data = conns[i].data /\ ds[i].app = conns[i].app
          /\ ds[i].closed
      BY <2>1, <3>1 DEF Connection
    <3> QED
      BY <2>2, <2>3, <3>2
  <2>4. CASE i \notin Mine(a)
    <3>1. ds[i] = conns[i]
      BY <1>3, <2>4
    <3>2. conns[i].closed \in BOOLEAN
      BY <2>1 DEF Connection
    <3> QED
      BY <2>1, <2>2, <2>4, <3>1, <3>2
  <2> QED
    BY <2>3, <2>4
<1>6. ds \in Seq(Connection) /\ Len(ds) = n
  <2>1. ds \in [1..n -> Connection] /\ n \in Nat
    BY <1>1, <1>2, <1>3, <1>5
  <2>2. ds \in Seq(Connection)
    BY <2>1, SeqDef
  <2> QED
    BY <2>1, <2>2, LenProperties
<1>7. fd' = [fd EXCEPT ![a] = FALSE] /\ fd \in [Apps -> BOOLEAN]
  BY DEF Destroyed, ConsoleKinds
<1>8. OneOpen'
  <2>1. ASSUME NEW i \in 1..n PROVE ds[i].closed \/ fd'[ds[i].app]
    <3>1. conns[i].closed \/ fd[conns[i].app]
      BY <1>2 DEF OneOpen
    <3>2. CASE conns[i].app = a
      BY <1>5, <3>2
    <3>3. CASE conns[i].app # a
      BY <1>1, <1>2, <1>5, <1>7, <3>1, <3>3
    <3> QED
      BY <3>2, <3>3
  <2>2. ASSUME NEW i \in 1..n, NEW j \in 1..n, i < j, ds[i].app = ds[j].app PROVE ds[i].closed
    BY <1>2, <1>5, <2>2 DEF OneOpen
  <2>3. ASSUME NEW i \in 1..n, NEW p \in 1..Len(ds[i].data)
        PROVE  ds[i].data[p].msg.app \in {ds[i].app, "none"}
    BY <1>2, <1>5, <2>3 DEF OneOpen
  <2>4. serving => ds # <<>>
    <3>1. serving => n > 0
      BY <1>1, <1>2, LineIs DEF OneOpen
    <3>2. ds = <<>> => n = 0
      BY <1>6, EmptySeq
    <3> QED
      BY <1>1, <1>2, <3>1, <3>2
  <2> QED
    BY <1>4, <1>6, <2>1, <2>2, <2>3, <2>4 DEF OneOpen
<1>9. Lanes(ds, jsonContent) = Line /\ (ds = <<>> <=> conns = <<>>)
  BY <1>1, <1>2, <1>5, <1>6, LaneClosed DEF Line
<1> QED
  BY <1>4, <1>6, <1>7, <1>8, <1>9 DEF ConnectionsKept, Line

LEMMA OpenKeeps ==
  ASSUME ConsoleKinds, OneOpen, NEW a \in Apps, ~ fd[a],
         NEW c, c = [app |-> a, data |-> Units(Notice(a)), closed |-> FALSE],
         fd' = [fd EXCEPT ![a] = TRUE], conns' = Append(conns, c), serving' = serving
  PROVE  c \in Connection /\ ConnectionsKept /\ conns' # <<>>
<1>1. /\ Len(conns) \in Nat
      /\ conns \in Seq(Connection) /\ fd \in [Apps -> BOOLEAN]
      /\ \A i \in 1..Len(conns) : /\ conns[i] \in Connection /\ conns[i].app \in Apps
                                  /\ conns[i].data \in Seq(Packet) /\ conns[i].closed \in BOOLEAN
  BY LineIs DEF ConsoleKinds
<1>2. /\ Units(Notice(a)) \in Seq(Packet) /\ Len(Units(Notice(a))) = 2
      /\ \A p \in 1..2 : Units(Notice(a))[p].msg = Notice(a)
  <2>1. [msg |-> Notice(a), last |-> FALSE] \in Packet /\ [msg |-> Notice(a), last |-> TRUE] \in Packet
    BY MsgKinds DEF Packet
  <2> QED
    BY <2>1 DEF Units
<1>3. c \in Connection
  BY <1>2 DEF Connection
<1>4. PICK ds : ds = Append(conns, c)
  OBVIOUS
<1>5. PICK n : n = Len(conns)
  OBVIOUS
<1>6. ds \in Seq(Connection) /\ ds # <<>> /\ Len(ds) = n + 1
      /\ (\A i \in 1..n : ds[i] = conns[i]) /\ ds[n + 1] = c
  BY <1>1, <1>3, <1>4, <1>5, AppendProperties
<1>7. \A i \in 1..(n + 1) : i \in 1..n \/ i = n + 1
  BY <1>1, <1>5
<1>8. OneOpen'
  <2>1. ASSUME NEW i \in 1..(n + 1) PROVE ds[i].closed \/ fd'[ds[i].app]
    <3>1. CASE i \in 1..n
      BY <1>1, <1>5, <1>6, <3>1 DEF OneOpen
    <3>2. CASE i = n + 1
      <4>1. ds[i].app = a /\ fd'[a]
        BY <1>1, <1>6, <3>2
      <4> QED
        BY <4>1
    <3> QED
      BY <1>7, <3>1, <3>2
  <2>2. ASSUME NEW i \in 1..(n + 1), NEW j \in 1..(n + 1), i < j, ds[i].app = ds[j].app
        PROVE  ds[i].closed
    <3>1. i \in 1..n /\ ds[i] = conns[i]
      BY <1>1, <1>5, <1>6, <2>2
    <3>2. CASE j \in 1..n
      BY <1>5, <1>6, <2>2, <3>1, <3>2 DEF OneOpen
    <3>3. CASE j = n + 1
      <4>1. ds[j].app = a
        BY <1>6, <3>3
      <4> QED
        BY <1>5, <2>2, <3>1, <4>1 DEF OneOpen
    <3> QED
      BY <1>7, <3>2, <3>3
  <2>3. ASSUME NEW i \in 1..(n + 1), NEW p \in 1..Len(ds[i].data)
        PROVE  ds[i].data[p].msg.app \in {ds[i].app, "none"}
    <3>1. CASE i \in 1..n
      BY <1>5, <1>6, <2>3, <3>1 DEF OneOpen
    <3>2. CASE i = n + 1
      <4>1. ds[i].app = a /\ ds[i].data = Units(Notice(a))
        BY <1>6, <3>2
      <4>2. p \in 1..2
        BY <1>2, <4>1
      <4> QED
        BY <1>2, <4>1, <4>2, MsgKinds
    <3> QED
      BY <1>7, <3>1, <3>2
  <2> QED
    BY <1>4, <1>6, <2>1, <2>2, <2>3 DEF OneOpen
<1> QED
  BY <1>1, <1>3, <1>4, <1>6, <1>8 DEF ConnectionsKept

LEMMA InitKeeps ==
  ASSUME ConInv, "none" \notin Apps, NEW a \in Apps, NEW l \in AppStates, InitParams(a, l),
         at[a] \in {"init", "send"} \/ l \notin {"init", "send"},
         UNCHANGED <<written, serverVars, accepted, torn>>
  PROVE  ConInv'
<1>1. /\ ConsoleKinds /\ OneOpen /\ Goto(a, l)
      /\ written' = written /\ server' = server /\ serving' = serving /\ jsonContent' = jsonContent
      /\ gJsonNotice' = gJsonNotice /\ out' = out /\ restarts' = restarts /\ forwarded' = forwarded
      /\ accepted' = accepted /\ torn' = torn
  BY DEF ConInv, InitParams, serverVars
<1>2. TriedGrows /\ at' \in [Apps -> AppStates]
  BY <1>1, GoesOn
<1>3. ConnectionsKept => ConsoleKinds' /\ OneOpen'
  BY <1>1, <1>2 DEF ConnectionsKept, ConsoleKinds, AppStates
<1>4. CASE UNCHANGED <<fd, bound, conns>>
  <2>1. ConnectionsKept /\ Line' = Line
    BY <1>1, <1>4 DEF ConnectionsKept, ConsoleKinds, OneOpen, Line
  <2> QED
    BY <1>1, <1>2, <1>3, <1>4, <2>1, SameLine
<1>5. CASE Destroyed(a)
  <2>1. ConnectionsKept /\ Line' = Line /\ (conns' = <<>> <=> conns = <<>>)
    BY <1>1, <1>5, CloseKeeps
  <2> QED
    BY <1>1, <1>2, <1>3, <2>1, SameLine
<1>6. CASE /\ ~ fd[a] /\ fd' = [fd EXCEPT ![a] = TRUE]
           /\ conns' = Append(conns, [app |-> a, data |-> Units(Notice(a)), closed |-> FALSE])
  <2>1. PICK c : c = [app |-> a, data |-> Units(Notice(a)), closed |-> FALSE]
    OBVIOUS
  <2>2. c \in Connection /\ ConnectionsKept /\ conns' # <<>>
    BY <1>1, <1>6, <2>1, OpenKeeps
  <2>3. PICK s : s = Units(Notice(a))
    OBVIOUS
  <2>4. PICK k : k = IF conns = <<>> THEN 1 ELSE Len(conns) + 1
    OBVIOUS
  <2>5. AddedTo(Line, Line', k, s)
    <3>1. conns \in Seq(Connection) /\ jsonContent \in Seq(Packet)
      BY <1>1 DEF ConsoleKinds
    <3>2. conns' = Append(conns, c) /\ c.data = s
      BY <1>6, <2>1, <2>3
    <3>3. AddedTo(Lanes(conns, jsonContent), Lanes(Append(conns, c), jsonContent), k, c.data)
      BY <2>2, <2>4, <3>1, LaneOpened
    <3> QED
      BY <1>1, <3>2, <3>3 DEF Line
  <2>6. /\ Len(s) = 2 /\ s # <<>> /\ s[1] = [msg |-> Notice(a), last |-> FALSE]
        /\ s[2] = [msg |-> Notice(a), last |-> TRUE]
        /\ \A q \in 1..Len(s) : q = 1 \/ q = 2
    BY <2>3 DEF Units
  <2>7. \A q \in 1..Len(s) : s[q].msg = Notice(a) /\ s[q].msg.n = 0 /\ s[q].msg.app = a
    BY <2>6, MsgKinds
  <2>8. InOneLane(s)
    BY <2>7 DEF InOneLane, Earlier
  <2>9. \A u \in Waiting(Line), q \in 1..Len(s) : Earlier(u, s[q])
    BY <2>7 DEF Earlier
  <2>10. \A j \in 1..Len(Line) : ~ k < j
    <3>1. Len(conns) \in Nat /\ Len(Line) \in Nat /\ (conns = <<>> => Len(Line) = 1)
          /\ (conns # <<>> => Len(Line) = Len(conns))
      BY <1>1, LineIs
    <3>2. CASE conns = <<>>
      <4>1. k = 1 /\ Len(Line) = 1
        BY <2>4, <3>1, <3>2
      <4> QED
        BY <4>1
    <3>3. CASE conns # <<>>
      <4>1. k = Len(conns) + 1 /\ Len(Line) = Len(conns) /\ Len(conns) \in Nat
        BY <2>4, <3>1, <3>3
      <4> QED
        BY <4>1
    <3> QED
      BY <3>2, <3>3
  <2>11. \A q \in 1..Len(s) : WasTried(s[q].msg)'
    BY <2>7 DEF WasTried
  <2>12. \A v \in Viewers : \A i \in 1..Len(out[v]) : \A q \in 1..Len(s) : ShownBefore(out[v][i], s[q])
    BY <2>7 DEF ShownBefore
  <2>13. Paired(s)
    BY <2>6 DEF Paired
  <2>14. \A q \in 1..Len(s) : s[q].msg # None
    BY <2>7, MsgKinds
  <2>15. ConsoleKinds' /\ OneOpen'
    BY <1>3, <2>2
  <2>16. conns = <<>> => k = 1
    BY <2>4
  <2>17. s # <<>> /\ s[1].msg.n = 0
    BY <2>6, <2>7
  <2> QED
    BY <1>1, <1>2, <2>2, <2>5, <2>8, <2>9, <2>10, <2>11, <2>12, <2>13, <2>14, <2>15, <2>16, <2>17,
       MoreSent
<1> QED
  BY <1>4, <1>5, <1>6 DEF InitParams

\* What a send() takes of a message.
LEMMA PartOfMessage ==
  ASSUME NEW m \in ConsoleMsg, NEW s, NEW n \in Int, s = Upto(Units(m), n), s # <<>>
  PROVE  /\ s \in Seq(Packet) /\ Len(s) \in {1, 2}
         /\ s[1] = [msg |-> m, last |-> FALSE]
         /\ Len(s) = 2 => s[2] = [msg |-> m, last |-> TRUE]
         /\ \A q \in 1..Len(s) : s[q].msg = m
<1>1. PICK u : u = Units(m)
  OBVIOUS
<1>2. u \in Seq(Packet) /\ Len(u) = 2 /\ u[1] = [msg |-> m, last |-> FALSE]
      /\ u[2] = [msg |-> m, last |-> TRUE]
  <2>1. [msg |-> m, last |-> FALSE] \in Packet /\ [msg |-> m, last |-> TRUE] \in Packet
    BY DEF Packet
  <2> QED
    BY <1>1, <2>1 DEF Units
<1>3. /\ s \in Seq(Packet)
      /\ n < 0 => Len(s) = 0
      /\ n \in 0..2 => Len(s) = n
      /\ n >= 2 => Len(s) = 2
      /\ \A i \in 1..Len(s) : s[i] = u[i]
  BY <1>1, <1>2, UptoIs
<1>4. Len(s) # 0
  BY <1>3, EmptySeq
<1>5. Len(s) \in {1, 2}
  BY <1>3, <1>4, SMTT(30)
<1>6. s[1] = u[1] /\ (Len(s) = 2 => s[2] = u[2])
  BY <1>3, <1>5
<1>7. ASSUME NEW q \in 1..Len(s) PROVE q = 1 \/ (q = 2 /\ Len(s) = 2)
  <2>1. CASE Len(s) = 1
    BY <2>1
  <2>2. CASE Len(s) = 2
    BY <2>2
  <2> QED
    BY <1>5, <2>1, <2>2
<1>8. \A q \in 1..Len(s) : s[q].msg = m
  BY <1>2, <1>6, <1>7
<1> QED
  BY <1>2, <1>3, <1>5, <1>6, <1>8

\* The open connection of an application.
LEMMA MineIs ==
  ASSUME ConInv, NEW a \in Apps, NEW i \in Mine(a)
  PROVE  /\ i \in 1..Len(conns) /\ conns[i].app = a /\ ~ conns[i].closed /\ conns # <<>>
         /\ i \in 1..Len(Line)
         /\ \A j \in 1..Len(Line) : i < j =>
               \A p \in 1..Len(Line[j]) : Line[j][p].msg.app # a \/ a = "none"
<1>1. ConsoleKinds /\ OneOpen
  BY DEF ConInv
<1>2. conns \in Seq(Connection) /\ Len(conns) \in Nat /\ DOMAIN conns = 1..Len(conns)
      /\ (conns = <<>> <=> Len(conns) = 0)
  BY <1>1, LineIs, LenProperties DEF ConsoleKinds
<1>3. i \in 1..Len(conns) /\ conns[i].app = a /\ ~ conns[i].closed
  BY <1>2 DEF Mine
<1>4. conns # <<>>
  BY <1>2, <1>3
<1>5. Len(Line) = Len(conns) /\ \A j \in 1..Len(conns) : j # 1 => Line[j] = conns[j].data
  BY <1>1, <1>4, LineIs
<1>6. ASSUME NEW j \in 1..Len(conns), i < j, NEW p \in 1..Len(Line[j])
      PROVE  Line[j][p].msg.app # a \/ a = "none"
  <2>1. j # 1 /\ Line[j] = conns[j].data
    BY <1>2, <1>3, <1>5, <1>6
  <2>2. conns[j].data[p].msg.app \in {conns[j].app, "none"}
    BY <1>1, <1>6, <2>1 DEF OneOpen
  <2>3. conns[j].app # a
    BY <1>1, <1>3, <1>6 DEF OneOpen
  <2> QED
    BY <2>1, <2>2, <2>3
<1> QED
  BY <1>3, <1>4, <1>5, <1>6

LEMMA TakenKeeps ==
  ASSUME ConInv, NEW a \in Apps, NEW i \in Mine(a), NEW s \in Seq(Packet),
         \A q \in 1..Len(s) : s[q].msg.app \in {a, "none"},
         conns' = [conns EXCEPT ![i].data = conns[i].data \o s],
         fd' = fd, serving' = serving, jsonContent' = jsonContent
  PROVE  ConnectionsKept /\ conns' # <<>> /\ AddedTo(Line, Line', i, s)
<1>1. /\ ConsoleKinds /\ OneOpen /\ conns \in Seq(Connection) /\ jsonContent \in Seq(Packet)
      /\ Len(conns) \in Nat /\ i \in 1..Len(conns) /\ conns[i].app = a /\ ~ conns[i].closed
      /\ conns # <<>>
  BY MineIs, LineIs DEF ConInv, ConsoleKinds
<1>2. PICK cs : cs = conns
  OBVIOUS
<1>3. PICK ds : ds = conns'
  OBVIOUS
<1>4. ds = [cs EXCEPT ![i] = [cs[i] EXCEPT !.data = cs[i].data \o s]]
  BY <1>2, <1>3
<1>5. cs \in Seq(Connection) /\ i \in 1..Len(cs)
  BY <1>1, <1>2
<1>6. /\ ds \in Seq(Connection) /\ Len(ds) = Len(cs)
      /\ AddedTo(Lanes(cs, jsonContent), Lanes(ds, jsonContent), i, s)
  <2>1. ds = SentOn(cs, i, s)
    BY <1>4 DEF SentOn
  <2> QED
    BY <1>1, <1>5, <2>1, LaneSent
<1>7. /\ cs[i] \in Connection /\ cs[i].data \in Seq(Packet) /\ cs[i].data \o s \in Seq(Packet)
      /\ \A j \in 1..Len(cs) : cs[j] \in Connection
  <2>1. \A j \in 1..Len(cs) : cs[j] \in Connection
    BY <1>5, ElementOfSeq
  <2>2. cs[i] \in Connection /\ cs[i].data \in Seq(Packet)
    BY <1>5, <2>1 DEF Connection
  <2> QED
    BY <2>1, <2>2, ConcatProperties
<1>8. /\ \A j \in 1..Len(cs) : j # i => ds[j] = cs[j]
      /\ ds[i].data = cs[i].data \o s /\ ds[i].app = cs[i].app /\ ds[i].closed = cs[i].closed
  <2>1. \A j \in 1..Len(cs) : ds[j] = IF j = i THEN [cs[i] EXCEPT !.data = cs[i].data \o s] ELSE cs[j]
    <3>1. [cs[i] EXCEPT !.data = cs[i].data \o s] \in Connection
      BY <1>7 DEF Connection
    <3> QED
      BY <1>4, <1>5, <3>1, ExceptSeq
  <2>2. ds[i] = [cs[i] EXCEPT !.data = cs[i].data \o s]
    BY <1>5, <2>1
  <2> QED
    BY <1>7, <2>1, <2>2 DEF Connection
<1>9. OneOpen'
  <2>1. ASSUME NEW j \in 1..Len(ds) PROVE ds[j].closed \/ fd[ds[j].app]
    BY <1>1, <1>2, <1>6, <1>8, <2>1 DEF OneOpen
  <2>2. ASSUME NEW j \in 1..Len(ds), NEW k \in 1..Len(ds), j < k, ds[j].app = ds[k].app
        PROVE  ds[j].closed
    <3>1. cs[j].app = cs[k].app /\ cs[j].closed = ds[j].closed
      BY <1>6, <1>8, <2>2
    <3> QED
      BY <1>1, <1>2, <1>6, <2>2, <3>1 DEF OneOpen
  <2>3. ASSUME NEW j \in 1..Len(ds), NEW p \in 1..Len(ds[j].data)
        PROVE  ds[j].data[p].msg.app \in {ds[j].app, "none"}
    <3>1. CASE j # i
      BY <1>1, <1>2, <1>6, <1>8, <2>3, <3>1 DEF OneOpen
    <3>2. CASE j = i
      <4>1. PICK d : d = cs[i].data
        OBVIOUS
      <4>2. d \in Seq(Packet) /\ Len(d) \in Nat /\ Len(s) \in Nat
        BY <1>7, <4>1, LenProperties
      <4>3. /\ Len(d \o s) = Len(d) + Len(s)
            /\ \A r \in 1..(Len(d) + Len(s)) : (d \o s)[r] = IF r <= Len(d) THEN d[r] ELSE s[r - Len(d)]
        BY <4>2, ConcatProperties
      <4>4. ds[j].data = d \o s /\ ds[j].app = a /\ p \in 1..(Len(d) + Len(s))
        BY <1>1, <1>2, <1>8, <3>2, <4>1, <4>3
      <4>5. CASE p <= Len(d)
        <5>1. p \in 1..Len(d) /\ (d \o s)[p] = d[p]
          BY <4>2, <4>3, <4>4, <4>5
        <5>2. d[p].msg.app \in {a, "none"}
          BY <1>1, <1>2, <4>1, <5>1 DEF OneOpen
        <5> QED
          BY <4>4, <5>1, <5>2
      <4>6. CASE ~ p <= Len(d)
        <5>1. p - Len(d) \in 1..Len(s) /\ (d \o s)[p] = s[p - Len(d)]
          BY <4>2, <4>3, <4>4, <4>6
        <5> QED
          BY <4>4, <5>1
      <4> QED
        BY <4>5, <4>6
    <3> QED
      BY <3>1, <3>2
  <2>4. ds # <<>>
    BY <1>5, <1>6, EmptySeq
  <2> QED
    BY <1>3, <2>1, <2>2, <2>3, <2>4 DEF OneOpen
<1>10. ds # <<>>
  BY <1>5, <1>6, EmptySeq
<1> QED
  BY <1>1, <1>2, <1>3, <1>6, <1>9, <1>10 DEF ConnectionsKept, ConsoleKinds, Line

LEMMA SendKeeps ==
  ASSUME ConInv, ConsoleAssumption, NEW a \in Apps, NEW m \in ConsoleMsg, NEW units,
         \/ units = Units(m) /\ m = [app |-> a, n |-> written[a]] /\ at[a] = "send"
         \/ units = <<Text>> /\ m = None,
         NEW l \in AppStates, Goto(a, l), l \notin {"init", "send"}, Send(a, units),
         UNCHANGED <<written, serverVars>>
  PROVE  ConInv'
<1>1. /\ ConsoleKinds /\ OneOpen
      /\ written' = written /\ server' = server /\ serving' = serving /\ jsonContent' = jsonContent
      /\ gJsonNotice' = gJsonNotice /\ out' = out /\ restarts' = restarts /\ forwarded' = forwarded
  BY DEF ConInv, serverVars
<1>2. TriedGrows /\ at' \in [Apps -> AppStates]
  BY <1>1, GoesOn
<1>3. ConnectionsKept /\ torn' \in BOOLEAN => ConsoleKinds' /\ OneOpen'
  BY <1>1, <1>2 DEF ConnectionsKept, ConsoleKinds, AppStates
<1>4. torn \in BOOLEAN
  BY <1>1 DEF ConsoleKinds
<1>5. CASE UNCHANGED <<fd, bound, conns, accepted, torn>>
  <2>1. ConnectionsKept /\ Line' = Line
    BY <1>1, <1>5 DEF ConnectionsKept, ConsoleKinds, OneOpen, Line
  <2> QED
    BY <1>1, <1>2, <1>3, <1>4, <1>5, <2>1, SameLine
<1>6. CASE Destroyed(a) /\ UNCHANGED <<accepted, torn>>
  <2>1. ConnectionsKept /\ Line' = Line /\ (conns' = <<>> <=> conns = <<>>)
    BY <1>1, <1>6, CloseKeeps
  <2> QED
    BY <1>1, <1>2, <1>3, <1>4, <1>6, <2>1, SameLine
<1>7. ASSUME NEW i \in Mine(a), NEW s, s = Upto(units, MaxQueue - Len(conns[i].data)), s # <<>>,
             conns' = [conns EXCEPT ![i].data = conns[i].data \o s],
             accepted' = accepted \cup {u.msg : u \in {x \in ToSet(s) : x.last}},
             torn' = (torn \/ ~ Last(s).last),
             UNCHANGED <<fd, bound>>
      PROVE  ConInv'
  <2>1. /\ i \in 1..Len(conns) /\ conns[i].app = a /\ ~ conns[i].closed /\ conns # <<>>
        /\ i \in 1..Len(Line)
        /\ \A j \in 1..Len(Line) : i < j =>
              \A p \in 1..Len(Line[j]) : Line[j][p].msg.app # a
        /\ a # "none"
    BY MineIs DEF ConsoleAssumption
  <2>2. PICK n : n = MaxQueue - Len(conns[i].data)
    OBVIOUS
  <2>3. n \in Int
    <3>1. conns[i].data \in Seq(Packet)
      BY <1>1, <2>1, LineIs
    <3> QED
      BY <2>2, <3>1, LenProperties DEF ConsoleAssumption
  <2>4. /\ s \in Seq(Packet)
        /\ \A q \in 1..Len(s) : s[q].msg = m
        /\ \/ Len(s) = 1 /\ ~ s[1].last
           \/ Len(s) = 2 /\ ~ s[1].last /\ s[2].last
        /\ m = None => Len(s) = 1
    <3>1. CASE units = Units(m) /\ m = [app |-> a, n |-> written[a]] /\ at[a] = "send"
      <4>1. /\ s \in Seq(Packet) /\ Len(s) \in {1, 2}
            /\ s[1] = [msg |-> m, last |-> FALSE]
            /\ Len(s) = 2 => s[2] = [msg |-> m, last |-> TRUE]
            /\ \A q \in 1..Len(s) : s[q].msg = m
        BY <1>7, <2>2, <2>3, <3>1, PartOfMessage
      <4>2. m # None
        BY <2>1, <3>1, MsgKinds
      <4> QED
        BY <4>1, <4>2
    <3>2. CASE units = <<Text>> /\ m = None
      <4>1. /\ units \in Seq(Packet) /\ Len(units) = 1 /\ units[1] = Text
            /\ Text.msg = None /\ Text.last = FALSE
        <5>1. Text \in Packet /\ Text.msg = None /\ Text.last = FALSE
          BY MsgKinds DEF Packet, Text
        <5> QED
          BY <3>2, <5>1
      <4>2. /\ s \in Seq(Packet)
            /\ n < 0 => Len(s) = 0
            /\ n \in 0..1 => Len(s) = n
            /\ n >= 1 => Len(s) = 1
            /\ \A q \in 1..Len(s) : s[q] = units[q]
        BY <1>7, <2>2, <2>3, <4>1, UptoIs
      <4>3. Len(s) # 0
        BY <1>7, <4>2, EmptySeq
      <4>4. Len(s) = 1
        BY <2>3, <4>2, <4>3
      <4>5. s[1] = Text /\ \A q \in 1..Len(s) : q = 1
        BY <4>1, <4>2, <4>4
      <4> QED
        BY <3>2, <4>1, <4>2, <4>4, <4>5
    <3> QED
      BY <3>1, <3>2
  <2>5. m.app \in {a, "none"} /\ (m.n # 0 => m = [app |-> a, n |-> written[a]] /\ at[a] = "send")
    BY MsgKinds
  <2>6. ConnectionsKept /\ conns' # <<>> /\ AddedTo(Line, Line', i, s)
    <3>1. \A q \in 1..Len(s) : s[q].msg.app \in {a, "none"}
      BY <2>4, <2>5
    <3> QED
      BY <1>1, <1>7, <2>4, <3>1, TakenKeeps
  <2>7. InOneLane(s)
    <3> SUFFICES ASSUME NEW p \in 1..Len(s), NEW q \in 1..Len(s), p < q PROVE Earlier(s[p], s[q])
      BY DEF InOneLane
    <3>1. Len(s) = 2 /\ p = 1 /\ q = 2
      <4>1. CASE Len(s) = 1
        BY <4>1
      <4>2. CASE Len(s) = 2
        BY <4>2
      <4> QED
        BY <2>4, <4>1, <4>2
    <3> QED
      BY <2>4, <3>1 DEF Earlier
  <2>8. written[a] \in Nat /\ (m.n # 0 => Tried(a) = written[a] - 1 /\ Tried(a)' = written[a])
    <3>1. written[a] \in Nat /\ at' = [at EXCEPT ![a] = l] /\ at \in [Apps -> AppStates]
      BY <1>1 DEF ConsoleKinds, Goto, AppStates
    <3>2. at'[a] = l
      BY <3>1
    <3> QED
      BY <1>1, <2>5, <3>1, <3>2 DEF Tried
  <2>9. ASSUME NEW x \in ViewerMsg, WasTried(x), x.app = a, m.n # 0 PROVE x.n < m.n
    <3>1. x.n \in Int /\ m.n = written[a] /\ m.n \in Nat
      BY <2>5, <2>8, <2>9, MsgKinds
    <3>2. x.n <= 0 \/ x.n <= written[a] - 1
      BY <2>8, <2>9, <3>1 DEF WasTried
    <3> QED
      BY <2>8, <2>9, <3>1, <3>2
  <2>10. ASSUME NEW u \in Waiting(Line), NEW q \in 1..Len(s) PROVE Earlier(u, s[q])
    <3>1. u.msg \in ViewerMsg /\ WasTried(u.msg)
      BY MsgKinds DEF ConInv, OnTheWay, Waiting
    <3>2. s[q].msg = m
      BY <2>4
    <3>3. m.n # 0 => m.app = a
      BY <2>5
    <3> QED
      BY <2>9, <3>1, <3>2, <3>3 DEF Earlier
  <2>11. ASSUME NEW j \in 1..Len(Line), i < j PROVE BetweenLanes(s, Line[j])
    <3> SUFFICES ASSUME NEW q \in 1..Len(s), NEW p \in 1..Len(Line[j]) PROVE Earlier(s[q], Line[j][p])
      BY DEF BetweenLanes
    <3>1. Line[j][p] \in Packet
      BY <1>1, LineIs, LaneIs
    <3>2. Line[j][p].msg.n # 0 => Line[j][p].msg.app \in Apps
      BY <3>1, MsgKinds
    <3>3. Line[j][p].msg.app # a
      BY <2>1, <2>11
    <3>4. s[q].msg.app \in {a, "none"}
      BY <2>4, <2>5
    <3> QED
      BY <3>2, <3>3, <3>4 DEF Earlier, ConsoleAssumption
  <2>12. ASSUME NEW q \in 1..Len(s) PROVE WasTried(s[q].msg)'
    <3>1. s[q].msg = m
      BY <2>4
    <3>2. m.n # 0 => m.app \in Apps /\ m.n <= Tried(m.app)'
      BY <2>5, <2>8
    <3> QED
      BY <3>1, <3>2 DEF WasTried
  <2>13. ASSUME NEW v \in Viewers, NEW k \in 1..Len(out[v]), NEW q \in 1..Len(s)
         PROVE  ShownBefore(out[v][k], s[q])
    <3>1. out[v] \in Seq(ViewerMsg) /\ WasTried(out[v][k])
      BY DEF ConInv, ConsoleKinds, OnTheWay
    <3>2. out[v][k] \in ViewerMsg
      BY <3>1, ElementOfSeq
    <3>3. s[q].msg = m /\ (m.n # 0 => m.app = a)
      BY <2>4, <2>5
    <3> QED
      BY <2>9, <3>1, <3>2, <3>3 DEF ShownBefore
  <2>14. ~ torn' => ~ torn /\ Paired(s) /\ \A q \in 1..Len(s) : s[q].msg # None
    <3> SUFFICES ASSUME ~ torn' PROVE ~ torn /\ Paired(s) /\ \A q \in 1..Len(s) : s[q].msg # None
      OBVIOUS
    <3>1. ~ torn /\ s[Len(s)].last
      BY <1>7 DEF Last
    <3>2. Len(s) = 2 /\ ~ s[1].last /\ s[2].last
      BY <2>4, <3>1
    <3>3. m # None
      BY <2>4, <3>2
    <3>4. Paired(s)
      BY <2>4, <3>2 DEF Paired
    <3> QED
      BY <2>4, <3>1, <3>3, <3>4
  <2>15. accepted' \subseteq accepted \cup {s[q].msg : q \in 1..Len(s)}
    <3>1. ToSet(s) = {s[q] : q \in 1..Len(s)}
      BY <2>4, LenProperties DEF ToSet
    <3> QED
      BY <1>7, <3>1
  <2>16. ConsoleKinds' /\ OneOpen'
    BY <1>3, <1>4, <1>7, <2>6
  <2>17. conns # <<>> /\ i \in 1..Len(Line)
    BY <2>1
  <2> QED
    BY <1>1, <1>2, <2>6, <2>7, <2>10, <2>11, <2>12, <2>13, <2>14, <2>15, <2>16, <2>17, MoreSent
<1>8. ASSUME fd[a], Mine(a) # {} PROVE ConInv'
  <2>1. PICK i : i = CHOOSE j \in Mine(a) : TRUE
    OBVIOUS
  <2>2. i \in Mine(a)
    BY <1>8, <2>1
  <2>3. PICK s : s = Upto(units, MaxQueue - Len(conns[i].data))
    OBVIOUS
  <2>4. \/ Destroyed(a) /\ UNCHANGED <<accepted, torn>>
        \/ /\ s # <<>>
           /\ conns' = [conns EXCEPT ![i].data = conns[i].data \o s]
           /\ accepted' = accepted \cup {u.msg : u \in {x \in ToSet(s) : x.last}}
           /\ torn' = (torn \/ ~ Last(s).last)
           /\ UNCHANGED <<fd, bound>>
    BY <1>8, <2>1, <2>3 DEF Send
  <2> QED
    BY <1>6, <1>7, <2>2, <2>3, <2>4
<1> QED
  BY <1>5, <1>6, <1>8 DEF Send

-----------------------------------------------------------------------------
(* LogConsole: logcat *)

LEMMA FirstEndIs ==
  ASSUME NEW s \in Seq(Packet), Ends(s) # {}
  PROVE  /\ FirstEnd(s) \in 1..Len(s) /\ s[FirstEnd(s)].last
         /\ \A j \in 1..Len(s) : s[j].last => FirstEnd(s) <= j
<1>1. Len(s) \in Nat /\ DOMAIN s = 1..Len(s)
  BY LenProperties
<1>2. PICK E : E = Ends(s)
  OBVIOUS
<1>3. E = {i \in 1..Len(s) : s[i].last} /\ E # {} /\ E \subseteq Nat
  BY <1>1, <1>2 DEF Ends
<1>4. PICK x \in E : \A y \in E : ~ (<<y, x>> \in OpToRel(<, Nat))
  BY <1>3, WFMin, NatLessThanWellFounded
<1>5. ASSUME NEW y \in E PROVE x <= y
  <2>1. x \in Nat /\ y \in Nat
    BY <1>3
  <2>2. ASSUME ~ x <= y PROVE FALSE
    <3>1. y < x
      BY <2>1, <2>2
    <3>2. <<y, x>> \in OpToRel(<, Nat)
      BY <2>1, <3>1 DEF OpToRel
    <3> QED
      BY <1>4, <1>5, <3>2
  <2> QED
    BY <2>2
<1>6. FirstEnd(s) \in E /\ \A j \in E : FirstEnd(s) <= j
  BY <1>2, <1>4, <1>5 DEF FirstEnd
<1> QED
  BY <1>3, <1>6

\* What is taken out of the first lane.  Text that is no message is dropped, which
\* only a torn stream has; a message goes to the viewers.
ShowMessage(m) ==
    /\ gJsonNotice' = IF m.n = 0 THEN m ELSE gJsonNotice
    /\ \E taken \in [Viewers -> {"all", "part", "none"}] :
          out' = [v \in Viewers |-> Sent(out[v], m, taken[v])]
    /\ forwarded' = forwarded \cup {m}

LEMMA TakenOutIs ==
  ASSUME NEW L, NEW M, OnLanes(L), NEW e, TakenOut(L, M, e), UNCHANGED <<at, written>>
  PROVE  /\ LanesOrdered(M) /\ Waiting(M) \subseteq Waiting(L)
         /\ \A u \in Waiting(L) : u.msg \in ConsoleMsg /\ WasTried(u.msg) /\ WasTried(u.msg)'
         /\ \A p \in 1..e : L[1][p] \in Waiting(L) /\ \A w \in Waiting(M) : Earlier(L[1][p], w)
         /\ \A u \in Waiting(L) : u \in Waiting(M) \/ \E p \in 1..e : L[1][p] = u
         /\ \A m : WasTried(m)' <=> WasTried(m)
<1>1. LanesOrdered(L) /\ \A u \in Waiting(L) : WasTried(u.msg)
  BY DEF OnLanes
<1>2. LanesOrdered(M) /\ \A p \in 1..e, w \in Waiting(M) : Earlier(L[1][p], w)
  BY <1>1, TakenInOrder
<1>3. /\ Waiting(M) \subseteq Waiting(L)
      /\ \A u \in Waiting(L) : u \in Waiting(M) \/ \E p \in 1..e : L[1][p] = u
  BY TakenWaits
<1>4. \A u \in Waiting(L) : u.msg \in ConsoleMsg
  BY MsgKinds DEF Waiting
<1>5. \A m : WasTried(m)' <=> WasTried(m)
  BY DEF WasTried, Tried
<1>6. \A p \in 1..e : L[1][p] \in Waiting(L)
  <2>1. L \in Seq(Seq(Packet)) /\ Len(L) \in Nat /\ Len(L) > 0 /\ Len(L[1]) \in Nat
        /\ e \in Nat /\ e <= Len(L[1]) /\ 1 \in 1..Len(L)
    BY TakenLane DEF TakenOut
  <2>2. \A p \in 1..Len(L[1]) : L[1][p] \in Waiting(L)
    BY <2>1, LaneIs
  <2> QED
    BY <2>1, <2>2
<1>7. \A u \in Waiting(L) : WasTried(u.msg)'
  BY <1>1, <1>5
<1> QED
  BY <1>1, <1>2, <1>3, <1>4, <1>5, <1>6, <1>7

\* Nothing that a torn stream has is shown.
LEMMA DroppedOnWay ==
  ASSUME NEW L, OnLanes(L), NEW e, TakenOut(L, Line', e), UNCHANGED <<at, written, out>>
  PROVE  OnTheWay'
<1>1. PICK M : M = Line'
  OBVIOUS
<1>2. /\ LanesOrdered(M) /\ Waiting(M) \subseteq Waiting(L)
      /\ \A u \in Waiting(L) : WasTried(u.msg)'
      /\ \A m : WasTried(m)' <=> WasTried(m)
  BY <1>1, TakenOutIs
<1>3. ASSUME NEW v \in Viewers, NEW k \in 1..Len(out[v])
      PROVE  WasTried(out[v][k])' /\ \A w \in Waiting(M) : ShownBefore(out[v][k], w)
  <2>1. WasTried(out[v][k]) /\ \A w \in Waiting(L) : ShownBefore(out[v][k], w)
    BY DEF OnLanes
  <2>2. WasTried(out[v][k])'
    BY <2>1 DEF WasTried, Tried
  <2> QED
    BY <1>2, <2>1, <2>2
<1>4. LanesOrdered(Line)' /\ Waiting(Line)' = Waiting(M)
  BY <1>1, <1>2
<1>5. \A u \in Waiting(M) : WasTried(u.msg)'
  BY <1>2
<1> QED
  BY <1>3, <1>4, <1>5 DEF OnTheWay

\* What a viewer has got of m.
Got(v, m) ==
    \/ out'[v] = out[v] /\ (out[v] = Offline \/ out[v] # <<>> \/ m.n # 0)
    \/ /\ out[v] # Offline /\ Len(out'[v]) = Len(out[v]) + 1 /\ out'[v] # <<>>
       /\ \A k \in 1..Len(out[v]) : out'[v][k] = out[v][k]
       /\ out'[v][Len(out[v]) + 1] \in {m, Cut}
       /\ out[v] = <<>> /\ m.n = 0 => out'[v][1] = m

LEMMA GotIs ==
  ASSUME ConsoleKinds, NEW m \in ConsoleMsg, ShowMessage(m), NEW v \in Viewers
  PROVE  Got(v, m) /\ out'[v] \in Seq(ViewerMsg)
<1>1. PICK taken \in [Viewers -> {"all", "part", "none"}] :
         out' = [u \in Viewers |-> Sent(out[u], m, taken[u])]
  BY DEF ShowMessage
<1>2. PICK s : s = out[v]
  OBVIOUS
<1>3. out'[v] = Sent(s, m, taken[v]) /\ taken[v] \in {"all", "part", "none"}
  BY <1>1, <1>2
<1>4. s \in Seq(ViewerMsg) /\ Len(s) \in Nat /\ m \in ViewerMsg /\ Cut \in ViewerMsg
      /\ Offline \in Seq(ViewerMsg)
  <2>1. None \in ViewerMsg /\ m \in ViewerMsg /\ Cut \in ViewerMsg
    BY MsgKinds
  <2> QED
    BY <1>2, <2>1, LenProperties DEF ConsoleKinds, Offline
<1>5. ASSUME NEW x \in {m, Cut}
      PROVE  /\ Append(s, x) \in Seq(ViewerMsg) /\ Len(Append(s, x)) = Len(s) + 1
             /\ Append(s, x) # <<>>
             /\ \A k \in 1..Len(s) : Append(s, x)[k] = s[k]
             /\ Append(s, x)[Len(s) + 1] = x
  BY <1>4, AppendProperties
<1>6. CASE s = Offline
  <2>1. out'[v] = Offline
    <3>1. s # <<>>
      BY <1>6 DEF Offline
    <3> QED
      BY <1>3, <1>6, <3>1 DEF Sent
  <2> QED
    BY <1>2, <1>4, <1>6, <2>1 DEF Got
<1>7. CASE s # Offline /\ s = <<>> /\ m.n = 0
  <2>1. out'[v] = <<m>>
    BY <1>3, <1>7 DEF Sent
  <2>2. Len(s) = 0
    BY <1>7
  <2> QED
    BY <1>2, <1>4, <1>7, <2>1, <2>2 DEF Got
<1>8. CASE s # Offline /\ ~ (s = <<>> /\ m.n = 0)
  <2>1. out'[v] \in {Append(s, m), Append(s, Cut), s}
    BY <1>3, <1>8 DEF Sent
  <2>2. CASE out'[v] = s
    BY <1>2, <1>4, <1>8, <2>2 DEF Got
  <2>3. ASSUME NEW x \in {m, Cut}, out'[v] = Append(s, x) PROVE Got(v, m) /\ out'[v] \in Seq(ViewerMsg)
    BY <1>2, <1>5, <1>8, <2>3 DEF Got
  <2> QED
    BY <2>1, <2>2, <2>3
<1> QED
  BY <1>6, <1>7, <1>8

LEMMA ShownKinds ==
  ASSUME ConsoleKinds, NEW m \in ConsoleMsg, ShowMessage(m)
  PROVE  out' \in [Viewers -> Seq(ViewerMsg)]
<1>1. PICK taken \in [Viewers -> {"all", "part", "none"}] :
         out' = [u \in Viewers |-> Sent(out[u], m, taken[u])]
  BY DEF ShowMessage
<1>2. \A v \in Viewers : out'[v] \in Seq(ViewerMsg)
  BY GotIs
<1>3. \A v \in Viewers : Sent(out[v], m, taken[v]) \in Seq(ViewerMsg)
  BY <1>1, <1>2
<1> QED
  BY <1>1, <1>3

LEMMA ShownOnWay ==
  ASSUME ConsoleKinds, ConsoleKinds', InOrder, NEW L, OnLanes(L), TakenOut(L, Line', 2),
         NEW m \in ConsoleMsg,
         L[1][1] = [msg |-> m, last |-> FALSE], L[1][2] = [msg |-> m, last |-> TRUE],
         ShowMessage(m), UNCHANGED <<at, written>>
  PROVE  OnTheWay' /\ InOrder'
<1>2. PICK M : M = Line'
  OBVIOUS
<1>3. /\ LanesOrdered(M) /\ Waiting(M) \subseteq Waiting(L)
      /\ \A u \in Waiting(L) : u.msg \in ConsoleMsg /\ WasTried(u.msg) /\ WasTried(u.msg)'
      /\ \A p \in 1..2 : L[1][p] \in Waiting(L) /\ \A w \in Waiting(M) : Earlier(L[1][p], w)
      /\ \A u \in Waiting(L) : u \in Waiting(M) \/ \E p \in 1..2 : L[1][p] = u
      /\ \A x : WasTried(x)' <=> WasTried(x)
  <2>1. PICK e : e = 2
    OBVIOUS
  <2>2. TakenOut(L, M, e)
    BY <1>2, <2>1
  <2>3. /\ LanesOrdered(M) /\ Waiting(M) \subseteq Waiting(L)
        /\ \A u \in Waiting(L) : u.msg \in ConsoleMsg /\ WasTried(u.msg) /\ WasTried(u.msg)'
        /\ \A p \in 1..e : L[1][p] \in Waiting(L) /\ \A w \in Waiting(M) : Earlier(L[1][p], w)
        /\ \A u \in Waiting(L) : u \in Waiting(M) \/ \E p \in 1..e : L[1][p] = u
        /\ \A x : WasTried(x)' <=> WasTried(x)
    BY <2>2, TakenOutIs
  <2> QED
    BY <2>1, <2>3
<1>4. L[1][1].msg = m /\ L[1][2].msg = m /\ L[1][2].last /\ L[1][1] \in Waiting(L)
      /\ L[1][2] \in Waiting(L)
  BY <1>3
<1>5. WasTried(m) /\ \A w \in Waiting(M) : ShownBefore(m, w)
  <2>1. \A w \in Waiting(M) : Earlier(L[1][2], w)
    BY <1>3
  <2> QED
    BY <1>3, <1>4, <2>1 DEF Earlier, ShownBefore
<1>6. ASSUME NEW v \in Viewers
      PROVE  /\ Got(v, m) /\ out[v] \in Seq(ViewerMsg) /\ Len(out[v]) \in Nat
             /\ \A k \in 1..Len(out[v]) : /\ WasTried(out[v][k])
                                         /\ \A w \in Waiting(L) : ShownBefore(out[v][k], w)
  BY GotIs, LenProperties DEF ConsoleKinds, OnLanes
<1>a. WasTried(Cut) /\ \A w \in Waiting(M) : ShownBefore(Cut, w)
  <2>1. \A w \in Waiting(M) : w.msg.n \in Nat
    BY MsgKinds DEF Waiting
  <2> QED
    BY <2>1, MsgKinds DEF WasTried, ShownBefore
<1>7. ASSUME NEW v \in Viewers, NEW k \in 1..Len(out'[v])
      PROVE  /\ WasTried(out'[v][k]) /\ \A w \in Waiting(M) : ShownBefore(out'[v][k], w)
             /\ \/ k \in 1..Len(out[v]) /\ out'[v][k] = out[v][k]
                \/ k = Len(out[v]) + 1 /\ out'[v][k] \in {m, Cut}
  <2>1. CASE out'[v] = out[v]
    BY <1>3, <1>6, <2>1
  <2>2. CASE out'[v] # out[v]
    <3>1. /\ Len(out'[v]) = Len(out[v]) + 1 /\ Len(out[v]) \in Nat
          /\ \A j \in 1..Len(out[v]) : out'[v][j] = out[v][j]
          /\ out'[v][Len(out[v]) + 1] \in {m, Cut}
      BY <1>6, <2>2 DEF Got
    <3>2. k \in 1..Len(out[v]) \/ k = Len(out[v]) + 1
      BY <3>1
    <3>3. CASE k \in 1..Len(out[v])
      BY <1>3, <1>6, <3>1, <3>3
    <3>4. CASE k = Len(out[v]) + 1
      BY <1>5, <1>a, <3>1, <3>4
    <3> QED
      BY <3>2, <3>3, <3>4
  <2> QED
    BY <2>1, <2>2
<1>8. OnTheWay'
  <2>1. ASSUME NEW v \in Viewers, NEW k \in 1..Len(out'[v])
        PROVE  WasTried(out[v][k])' /\ \A w \in Waiting(M) : ShownBefore(out'[v][k], w)
    <3>1. WasTried(out'[v][k]) /\ \A w \in Waiting(M) : ShownBefore(out'[v][k], w)
      BY <1>7
    <3>2. WasTried(out[v][k])'
      BY <3>1 DEF WasTried, Tried
    <3> QED
      BY <3>1, <3>2
  <2>2. LanesOrdered(Line)' /\ Waiting(Line)' = Waiting(M)
    BY <1>2, <1>3
  <2>3. \A u \in Waiting(M) : WasTried(u.msg)'
    BY <1>3
  <2> QED
    BY <2>1, <2>2, <2>3 DEF OnTheWay
<1>9. InOrder'
  <2> SUFFICES ASSUME NEW v \in Viewers, NEW i \in 1..Len(out'[v]), NEW j \in 1..Len(out'[v]), i < j,
                      out'[v][i].app = out'[v][j].app, out'[v][j].n > 0
               PROVE  out'[v][i].n < out'[v][j].n
    <3>1. \A v \in Viewers : DOMAIN (out'[v]) = 1..Len(out'[v])
      BY LenProperties DEF ConsoleKinds
    <3> QED
      BY <3>1 DEF InOrder
  <2>1. Len(out[v]) \in Nat /\ DOMAIN (out[v]) = 1..Len(out[v])
    BY <1>6, LenProperties
  <2>2. i \in 1..Len(out[v]) /\ out'[v][i] = out[v][i]
    <3>1. Len(out'[v]) \in Nat
      BY LenProperties DEF ConsoleKinds
    <3>2. Len(out'[v]) = Len(out[v]) \/ Len(out'[v]) = Len(out[v]) + 1
      BY <1>6 DEF Got
    <3> QED
      BY <1>7, <2>1, <3>1, <3>2
  <2>3. CASE j \in 1..Len(out[v]) /\ out'[v][j] = out[v][j]
    BY <2>1, <2>2, <2>3 DEF InOrder
  <2>4. out'[v][j] # Cut
    BY MsgKinds
  <2>5. CASE out'[v][j] = m
    <3>1. ShownBefore(out[v][i], L[1][1])
      BY <1>4, <1>6, <2>2
    <3> QED
      BY <1>4, <2>2, <2>5, <3>1, MsgKinds DEF ShownBefore
  <2> QED
    BY <1>7, <2>3, <2>4, <2>5
<1> QED
  BY <1>8, <1>9

LEMMA DroppedKeeps ==
  ASSUME ConInv, ConsoleKinds', OneOpen', NEW e, TakenOut(Line, Line', e), torn,
         UNCHANGED <<at, written, gJsonNotice, out, accepted, forwarded, torn>>
  PROVE  ConInv'
<1>1. PICK L : L = Line
  OBVIOUS
<1>2. PICK M : M = Line'
  OBVIOUS
<1>4. OnTheWay'
  BY DroppedOnWay DEF ConInv, OnTheWay, OnLanes
<1>5. InOrder'
  BY DEF ConInv, InOrder
<1>6. WholeOnes' /\ NoticeShown' /\ StillThere'
  BY DEF WholeOnes, NoticeShown, StillThere
<1>7. NoticeAhead'
  <2>1. Len(M) = Len(L) /\ \A i \in 1..Len(L) : i # 1 => M[i] = L[i]
    BY <1>1, <1>2, TakenLane
  <2>2. \A i \in 1..Len(L) : i # 1 => L[i] # <<>> /\ L[i][1].msg.n = 0
    BY <1>1 DEF ConInv, NoticeAhead
  <2> QED
    BY <1>2, <2>1, <2>2 DEF NoticeAhead
<1> QED
  BY <1>4, <1>5, <1>6, <1>7 DEF ConInv

LEMMA ShownKeeps ==
  ASSUME ConInv, ConsoleKinds', OneOpen', TakenOut(Line, Line', 2), NEW m \in ConsoleMsg,
         Line[1][1] = [msg |-> m, last |-> FALSE], Line[1][2] = [msg |-> m, last |-> TRUE],
         ShowMessage(m),
         UNCHANGED <<at, written, accepted, torn, server, restarts>>
  PROVE  ConInv'
<1>1. PICK L : L = Line
  OBVIOUS
<1>2. PICK M : M = Line'
  OBVIOUS
<1>3. /\ LanesOrdered(M) /\ Waiting(M) \subseteq Waiting(L)
      /\ \A u \in Waiting(L) : u.msg \in ConsoleMsg /\ WasTried(u.msg) /\ WasTried(u.msg)'
      /\ \A p \in 1..2 : L[1][p] \in Waiting(L) /\ \A w \in Waiting(M) : Earlier(L[1][p], w)
      /\ \A u \in Waiting(L) : u \in Waiting(M) \/ \E p \in 1..2 : L[1][p] = u
      /\ \A x : WasTried(x)' <=> WasTried(x)
  BY <1>1, <1>2, TakenOutIs DEF ConInv, OnTheWay, OnLanes
<1>4. L[1][1].msg = m /\ L[1][2].msg = m /\ L[1][2].last /\ L[1][1] \in Waiting(L)
      /\ L[1][2] \in Waiting(L)
  BY <1>1, <1>3
<1>6. ASSUME NEW v \in Viewers PROVE Got(v, m) /\ out[v] \in Seq(ViewerMsg) /\ Len(out[v]) \in Nat
  BY GotIs, LenProperties DEF ConInv, ConsoleKinds
<1>8. OnTheWay' /\ InOrder'
  <2>1. OnLanes(L) /\ TakenOut(L, Line', 2)
    BY <1>1 DEF ConInv, OnTheWay, OnLanes
  <2> QED
    BY <1>1, <2>1, ShownOnWay DEF ConInv
<1>10. torn' = torn /\ server' = server /\ restarts' = restarts /\ accepted' = accepted
  OBVIOUS
<1>11. WholeOnes'
  <2> SUFFICES ASSUME ~ torn PROVE LanesPaired(M) /\ \A u \in Waiting(M) : u.msg # None
    BY <1>2, <1>10 DEF WholeOnes
  <2>1. LanesPaired(L) /\ \A u \in Waiting(L) : u.msg # None
    BY <1>1 DEF ConInv, WholeOnes
  <2>2. LanesPaired(M)
    BY <1>1, <1>2, <1>4, <2>1, TakenPairs
  <2> QED
    BY <1>3, <2>1, <2>2
<1>12. L[1] # <<>> /\ (~ torn /\ gJsonNotice = None => m.n = 0)
  <2>1. L[1] # <<>>
    <3>1. 2 \in 0..Len(L[1])
      BY <1>1, <1>2 DEF TakenOut
    <3> QED
      BY <3>1
  <2> QED
    BY <1>1, <1>4, <2>1 DEF ConInv, NoticeAhead
<1>13. ~ torn => gJsonNotice' # None
  <2> SUFFICES ASSUME ~ torn PROVE gJsonNotice' # None
    OBVIOUS
  <2>1. m # None
    BY <1>1, <1>4 DEF ConInv, WholeOnes
  <2> QED
    BY <1>12, <2>1 DEF ShowMessage
<1>14. NoticeAhead'
  <2>1. Len(M) = Len(L) /\ \A i \in 1..Len(L) : i # 1 => M[i] = L[i]
    BY <1>1, <1>2, TakenLane
  <2>2. \A i \in 1..Len(L) : i # 1 => L[i] # <<>> /\ L[i][1].msg.n = 0
    BY <1>1 DEF ConInv, NoticeAhead
  <2> QED
    BY <1>2, <1>10, <1>13, <2>1, <2>2 DEF NoticeAhead
<1>15. NoticeShown'
  <2> SUFFICES ASSUME ~ torn, NEW v \in Viewers PROVE out'[v] # <<>> /\ out'[v][1].n = 0
    BY <1>10 DEF NoticeShown
  <2>1. /\ out[v] # <<>> => out[v][1].n = 0
        /\ out[v] # Offline /\ gJsonNotice # None => out[v] # <<>>
    BY DEF ConInv, NoticeShown
  <2>2. CASE out[v] = Offline
    <3>1. Offline # <<>> /\ Offline[1].n = 0
      BY MsgKinds DEF Offline
    <3> QED
      BY <1>6, <2>2, <3>1 DEF Got
  <2>3. CASE out[v] # Offline /\ out[v] = <<>>
    <3>1. Len(out[v]) = 0 /\ gJsonNotice = None
      BY <2>1, <2>3
    <3>2. out'[v][1] = m /\ out'[v] # <<>>
      BY <1>6, <1>12, <2>3, <3>1 DEF Got
    <3> QED
      BY <1>12, <3>1, <3>2
  <2>4. CASE out[v] # Offline /\ out[v] # <<>>
    <3>1. 1 \in 1..Len(out[v])
      BY <1>6, <2>4, EmptySeq
    <3>2. out'[v][1] = out[v][1] /\ out'[v] # <<>>
      BY <1>6, <2>4, <3>1 DEF Got
    <3> QED
      BY <2>1, <2>4, <3>2
  <2> QED
    BY <2>2, <2>3, <2>4
<1>16. StillThere'
  <2> SUFFICES ASSUME ~ torn, restarts = 0, server # "down", NEW x \in accepted
               PROVE  x \in forwarded' \/ \E u \in Waiting(M) : u.msg = x
    BY <1>2, <1>10 DEF StillThere
  <2>1. x \in forwarded \/ \E u \in Waiting(L) : u.msg = x
    BY <1>1 DEF ConInv, StillThere
  <2>2. forwarded' = forwarded \cup {m}
    BY DEF ShowMessage
  <2>3. ASSUME NEW u \in Waiting(L), u.msg = x, u \notin Waiting(M) PROVE x = m
    <3>1. PICK p \in 1..2 : L[1][p] = u
      BY <1>3, <2>3
    <3>2. p = 1 \/ p = 2
      OBVIOUS
    <3> QED
      BY <1>4, <2>3, <3>1, <3>2
  <2> QED
    BY <2>1, <2>2, <2>3
<1> QED
  BY <1>8, <1>11, <1>14, <1>15, <1>16 DEF ConInv

\* What is left of the first connection after a recv().
LEMMA RestKeeps ==
  ASSUME ConsoleKinds, OneOpen, conns # <<>>, MaxRead \in Nat,
         conns' = [conns EXCEPT ![1].data = SubSeq(@, MaxRead + 1, Len(@))],
         fd' = fd, serving' = serving
  PROVE  /\ ConnectionsKept /\ conns' # <<>> /\ Len(conns') = Len(conns)
         /\ conns'[1].data = SubSeq(conns[1].data, MaxRead + 1, Len(conns[1].data))
         /\ \A i \in 2..Len(conns) : conns'[i].data = conns[i].data
<1>1. PICK cs : cs = conns
  OBVIOUS
<1>2. PICK ds : ds = conns'
  OBVIOUS
<1>3. PICK data : data = cs[1].data
  OBVIOUS
<1>4. PICK rest : rest = SubSeq(data, MaxRead + 1, Len(data))
  OBVIOUS
<1>5. /\ cs \in Seq(Connection) /\ Len(cs) \in Nat /\ Len(cs) > 0 /\ 1 \in 1..Len(cs)
      /\ \A i \in 1..Len(cs) : cs[i] \in Connection
  <2>1. cs \in Seq(Connection) /\ Len(cs) \in Nat /\ (cs = <<>> <=> Len(cs) = 0)
    BY <1>1, LineIs DEF ConsoleKinds
  <2>2. \A i \in 1..Len(cs) : cs[i] \in Connection
    BY <1>1, LineIs
  <2> QED
    BY <1>1, <2>1, <2>2
<1>6. /\ data \in Seq(Packet) /\ rest \in Seq(Packet)
      /\ \A p \in 1..Len(rest) : p + MaxRead \in 1..Len(data) /\ rest[p] = data[p + MaxRead]
  <2>1. data \in Seq(Packet)
    BY <1>3, <1>5 DEF Connection
  <2> QED
    BY <1>4, <2>1, BehindIs
<1>7. ds = [cs EXCEPT ![1] = [cs[1] EXCEPT !.data = rest]]
  BY <1>1, <1>2, <1>3, <1>4
<1>8. PICK c : c = [cs[1] EXCEPT !.data = rest]
  OBVIOUS
<1>9. c \in Connection /\ c.data = rest /\ c.app = cs[1].app /\ c.closed = cs[1].closed
  BY <1>5, <1>6, <1>8 DEF Connection
<1>10. /\ ds \in Seq(Connection) /\ Len(ds) = Len(cs)
       /\ \A j \in 1..Len(cs) : ds[j] = IF j = 1 THEN c ELSE cs[j]
  BY <1>5, <1>7, <1>8, <1>9, ExceptSeq
<1>11. /\ ds[1].data = rest
       /\ \A j \in 2..Len(cs) : ds[j] = cs[j]
       /\ \A j \in 1..Len(cs) : ds[j].app = cs[j].app /\ ds[j].closed = cs[j].closed
  BY <1>5, <1>9, <1>10
<1>12. ds # <<>>
  BY <1>5, <1>10, EmptySeq
<1>13. ASSUME NEW i \in 1..Len(ds), NEW p \in 1..Len(ds[i].data)
       PROVE  ds[i].data[p].msg.app \in {ds[i].app, "none"}
  <2>1. \A j \in 1..Len(cs) : \A q \in 1..Len(cs[j].data) : cs[j].data[q].msg.app \in {cs[j].app, "none"}
    BY <1>1 DEF OneOpen
  <2>2. CASE i = 1
    <3>1. p + MaxRead \in 1..Len(data) /\ rest[p] = data[p + MaxRead]
      BY <1>6, <1>11, <1>13, <2>2
    <3>2. data[p + MaxRead].msg.app \in {cs[1].app, "none"}
      BY <1>3, <1>5, <2>1, <3>1
    <3> QED
      BY <1>5, <1>11, <2>2, <3>1, <3>2
  <2>3. CASE i # 1
    <3>1. i \in 2..Len(cs) /\ ds[i] = cs[i]
      BY <1>5, <1>10, <1>11, <2>3
    <3> QED
      BY <1>5, <1>10, <1>13, <2>1, <3>1
  <2> QED
    BY <2>2, <2>3
<1>14. OneOpen'
  <2>1. \A i \in 1..Len(ds) : ds[i].closed \/ fd[ds[i].app]
    BY <1>1, <1>10, <1>11 DEF OneOpen
  <2>2. \A i, j \in 1..Len(ds) : i < j /\ ds[i].app = ds[j].app => ds[i].closed
    BY <1>1, <1>10, <1>11 DEF OneOpen
  <2> QED
    BY <1>2, <1>12, <1>13, <2>1, <2>2 DEF OneOpen
<1>15. fd' \in [Apps -> BOOLEAN]
  BY DEF ConsoleKinds
<1>16. \A j \in 2..Len(cs) : ds[j].data = cs[j].data
  BY <1>11
<1> QED
  BY <1>1, <1>2, <1>3, <1>4, <1>10, <1>11, <1>12, <1>14, <1>15, <1>16 DEF ConnectionsKept

\* The units up to the first end, if they are a message, or no stream was torn.
LEMMA MessageIs ==
  ASSUME NEW units \in Seq(Packet), Ends(units) # {}, NEW e, e = FirstEnd(units),
         NEW message, message = Upto(units, e)
  PROVE  /\ e \in 1..Len(units) /\ units[e].last
         /\ Parses(message) => /\ e = 2 /\ message[1] = units[1]
                               /\ units[1] = [msg |-> units[1].msg, last |-> FALSE]
                               /\ units[2] = [msg |-> units[1].msg, last |-> TRUE]
         /\ ~ units[1].last /\ Len(units) > 1 /\ units[2].last /\ units[2].msg = units[1].msg
               => Parses(message)
<1>1. e \in 1..Len(units) /\ units[e].last /\ \A j \in 1..Len(units) : units[j].last => e <= j
  BY FirstEndIs
<1>2. Len(units) \in Nat /\ \A j \in 1..Len(units) : units[j] \in Packet
  BY LenProperties, ElementOfSeq
<1>3. /\ message \in Seq(Packet) /\ Len(message) = e
      /\ \A i \in 1..Len(message) : message[i] = units[i]
  <2>1. e \in Int /\ e \in 0..Len(units)
    BY <1>1, <1>2
  <2> QED
    BY <2>1, UptoIs
<1>4. message[1] = units[1]
  BY <1>1, <1>2, <1>3
<1>5. ASSUME Parses(message)
      PROVE  /\ e = 2
             /\ units[1] = [msg |-> units[1].msg, last |-> FALSE]
             /\ units[2] = [msg |-> units[1].msg, last |-> TRUE]
  <2>1. e = 2 /\ message = <<[msg |-> units[1].msg, last |-> FALSE], [msg |-> units[1].msg, last |-> TRUE]>>
    BY <1>3, <1>4, <1>5 DEF Parses, Units
  <2>2. message[1] = [msg |-> units[1].msg, last |-> FALSE] /\ message[2] = [msg |-> units[1].msg, last |-> TRUE]
    <3>1. PICK x : x = [msg |-> units[1].msg, last |-> FALSE]
      OBVIOUS
    <3>2. PICK y : y = [msg |-> units[1].msg, last |-> TRUE]
      OBVIOUS
    <3>3. message = <<x, y>>
      BY <2>1, <3>1, <3>2
    <3> QED
      BY <3>1, <3>2, <3>3
  <2>3. 1 \in 1..Len(message) /\ 2 \in 1..Len(message)
    BY <1>3, <2>1
  <2>4. message[1] = units[1] /\ message[2] = units[2]
    BY <1>3, <2>3
  <2> QED
    BY <2>1, <2>2, <2>4
<1>6. ASSUME ~ units[1].last, Len(units) > 1, units[2].last, units[2].msg = units[1].msg
      PROVE  Parses(message)
  <2>1. e = 2
    <3>1. 2 \in 1..Len(units)
      BY <1>2, <1>6
    <3>2. e # 1 /\ e <= 2
      BY <1>1, <1>6, <3>1
    <3> QED
      BY <1>1, <1>2, <3>2
  <2>2. units[1] \in Packet /\ units[2] \in Packet
    BY <1>2, <1>6
  <2>3. units[1] = [msg |-> units[1].msg, last |-> FALSE] /\ units[2] = [msg |-> units[1].msg, last |-> TRUE]
    BY <1>6, <2>2 DEF Packet
  <2>4. message = <<message[1], message[2]>>
    BY <1>3, <2>1
  <2>5. message[2] = units[2]
    BY <1>3, <2>1
  <2> QED
    BY <1>3, <1>4, <2>1, <2>3, <2>4, <2>5 DEF Parses, Units
<1> QED
  BY <1>1, <1>4, <1>5, <1>6

Reads == /\ server = "up" /\ serving
         /\ conns' = [conns EXCEPT ![1].data = SubSeq(@, MaxRead + 1, Len(@))]
         /\ UNCHANGED <<appVars, server, serving, restarts, accepted>>

LEMMA ReadKeeps ==
  ASSUME ConInv, ConsoleAssumption, Reads, Received(jsonContent \o Upto(conns[1].data, MaxRead)),
         UNCHANGED torn
  PROVE  ConInv'
<1>1. /\ ConsoleKinds /\ OneOpen /\ MaxRead \in Nat
      /\ conns \in Seq(Connection) /\ jsonContent \in Seq(Packet)
  BY DEF ConInv, ConsoleKinds, ConsoleAssumption
<1>2. /\ server' = server /\ serving' = serving /\ restarts' = restarts /\ accepted' = accepted
      /\ torn' = torn /\ fd' = fd /\ at' = at /\ written' = written
      /\ conns' = [conns EXCEPT ![1].data = SubSeq(@, MaxRead + 1, Len(@))]
  BY DEF Reads, appVars
<1>3. conns # <<>>
  BY <1>1 DEF OneOpen, Reads
<1>4. /\ ConnectionsKept /\ conns' # <<>> /\ Len(conns') = Len(conns)
      /\ conns'[1].data = SubSeq(conns[1].data, MaxRead + 1, Len(conns[1].data))
      /\ \A i \in 2..Len(conns) : conns'[i].data = conns[i].data
  BY <1>1, <1>2, <1>3, RestKeeps
<1>5. OneOpen' /\ conns' \in Seq(Connection)
  BY <1>4 DEF ConnectionsKept
<1>6. PICK units : units = jsonContent \o Upto(conns[1].data, MaxRead)
  OBVIOUS
<1>7. PICK L : L = Line
  OBVIOUS
<1>8. PICK ds : ds = conns'
  OBVIOUS
<1>9. /\ units \in Seq(Packet)
      /\ Lanes(ds, units) = L
      /\ Len(units) <= Len(L[1])
      /\ \A p \in 1..Len(units) : L[1][p] = units[p]
      /\ \A e \in 1..Len(units) :
            /\ SubSeq(units, e + 1, Len(units)) \in Seq(Packet)
            /\ TakenOut(L, Lanes(ds, SubSeq(units, e + 1, Len(units))), e)
  <2>1. ds \in Seq(Connection)
    BY <1>5, <1>8
  <2>2. /\ Len(ds) = Len(conns)
        /\ ds[1].data = SubSeq(conns[1].data, MaxRead + 1, Len(conns[1].data))
        /\ \A i \in 2..Len(conns) : ds[i].data = conns[i].data
    BY <1>4, <1>8
  <2>3. PICK cs : cs = conns
    OBVIOUS
  <2>4. PICK held : held = jsonContent
    OBVIOUS
  <2>5. L = Lanes(cs, held)
    BY <1>7, <2>3, <2>4 DEF Line
  <2>6. /\ cs \in Seq(Connection) /\ held \in Seq(Packet) /\ cs # <<>> /\ Len(ds) = Len(cs)
        /\ ds[1].data = SubSeq(cs[1].data, MaxRead + 1, Len(cs[1].data))
        /\ \A i \in 2..Len(cs) : ds[i].data = cs[i].data
        /\ units = held \o Upto(cs[1].data, MaxRead)
    BY <1>1, <1>3, <1>6, <2>2, <2>3, <2>4
  <2>7. ReadLanes(Lanes(cs, held), ds, units)
    BY <1>1, <2>1, <2>6, LaneRead
  <2> QED
    BY <2>5, <2>7 DEF ReadLanes
<1>10. TriedGrows
  <2>1. \A a \in Apps : Tried(a) \in Int
    BY <1>1, TriedIs
  <2> QED
    BY <1>2, <2>1 DEF TriedGrows, Tried
<1>11. ASSUME jsonContent' \in Seq(Packet), gJsonNotice' \in {None} \cup {Notice(a) : a \in Apps},
              out' \in [Viewers -> Seq(ViewerMsg)]
       PROVE  ConsoleKinds'
  BY <1>1, <1>2, <1>4, <1>11 DEF ConsoleKinds, ConnectionsKept
<1>12. \/ Unfinished(units)
       \/ /\ Ends(units) # {}
          /\ jsonContent' = SubSeq(units, FirstEnd(units) + 1, Len(units))
          /\ Forward(Upto(units, FirstEnd(units)))
  BY <1>6 DEF Received
<1>13. CASE Unfinished(units)
  <2>1. jsonContent' = units /\ gJsonNotice' = gJsonNotice /\ out' = out /\ forwarded' = forwarded
    BY <1>13 DEF Unfinished
  <2>2. Line' = Line
    BY <1>7, <1>8, <1>9, <2>1 DEF Line
  <2>3. ConsoleKinds'
    BY <1>1, <1>9, <1>11, <2>1 DEF ConsoleKinds
  <2> QED
    BY <1>2, <1>3, <1>5, <1>10, <2>1, <2>2, <2>3, SameLine
<1>14. ASSUME Ends(units) # {}, jsonContent' = SubSeq(units, FirstEnd(units) + 1, Len(units)),
              Forward(Upto(units, FirstEnd(units)))
       PROVE  ConInv'
  <2>1. PICK e : e = FirstEnd(units)
    OBVIOUS
  <2>2. PICK message : message = Upto(units, e)
    OBVIOUS
  <2>3. /\ e \in 1..Len(units) /\ units[e].last
        /\ Parses(message) => /\ e = 2 /\ message[1] = units[1]
                              /\ units[1] = [msg |-> units[1].msg, last |-> FALSE]
                              /\ units[2] = [msg |-> units[1].msg, last |-> TRUE]
        /\ ~ units[1].last /\ Len(units) > 1 /\ units[2].last /\ units[2].msg = units[1].msg
              => Parses(message)
    BY <1>9, <1>14, <2>1, <2>2, MessageIs
  <2>4. jsonContent' = SubSeq(units, e + 1, Len(units)) /\ Forward(message)
    BY <1>14, <2>1, <2>2
  <2>5. jsonContent' \in Seq(Packet) /\ TakenOut(Line, Line', e)
    <3>1. PICK rest : rest = SubSeq(units, e + 1, Len(units))
      OBVIOUS
    <3>2. rest \in Seq(Packet) /\ TakenOut(L, Lanes(ds, rest), e)
      BY <1>9, <2>3, <3>1
    <3>3. jsonContent' = rest
      BY <2>4, <3>1
    <3> QED
      BY <1>7, <1>8, <3>2, <3>3 DEF Line
  <2>6. Len(units) \in Nat /\ 1 \in 1..Len(units) /\ units[1] \in Packet
    <3>1. Len(units) \in Nat /\ 1 \in 1..Len(units)
      BY <1>9, <2>3, LenProperties
    <3> QED
      BY <1>9, <3>1, ElementOfSeq
  <2>7. CASE ~ Parses(message)
    <3>1. gJsonNotice' = gJsonNotice /\ out' = out /\ forwarded' = forwarded
      BY <2>4, <2>7 DEF Forward
    <3>2. ConsoleKinds'
      BY <1>1, <1>11, <2>5, <3>1 DEF ConsoleKinds
    <3>3. ASSUME ~ torn PROVE FALSE
      <4>1. L[1] \in Seq(Packet) /\ Len(L[1]) \in Nat /\ Paired(L[1])
        <5>1. LanesPaired(L) /\ L \in Seq(Seq(Packet)) /\ 1 \in 1..Len(L)
          BY <1>1, <1>7, <3>3, LineIs DEF ConInv, WholeOnes
        <5> QED
          BY <5>1, LaneIs DEF LanesPaired
      <4>2. \A i \in 1..Len(units) :
               IF units[i].last THEN i > 1 /\ ~ L[1][i - 1].last /\ L[1][i - 1].msg = units[i].msg
                                ELSE i < Len(L[1]) /\ L[1][i + 1].last
        <5>1. \A i \in 1..Len(units) : i \in 1..Len(L[1]) /\ L[1][i] = units[i]
          BY <1>9, <2>6, <4>1, SMTT(30)
        <5> QED
          BY <4>1, <5>1 DEF Paired
      <4>3. ~ units[1].last
        BY <2>6, <4>2
      <4>4. L[1][2].last
        BY <2>6, <4>2, <4>3
      <4>5. Len(units) > 1
        BY <2>3, <2>6, <4>3
      <4>6. 2 \in 1..Len(units)
        BY <2>6, <4>5
      <4>7. units[2].last /\ units[2].msg = units[1].msg
        <5>1. L[1][1] = units[1] /\ L[1][2] = units[2]
          BY <1>9, <2>6, <4>6
        <5>2. units[2].last
          BY <4>4, <5>1
        <5>3. L[1][2 - 1].msg = units[2].msg
          BY <4>2, <4>6, <5>2
        <5> QED
          BY <5>1, <5>2, <5>3
      <4> QED
        BY <2>3, <2>7, <4>3, <4>5, <4>7
    <3> QED
      BY <1>2, <1>5, <2>5, <3>1, <3>2, <3>3, DroppedKeeps
  <2>8. CASE Parses(message)
    <3>1. PICK m : m = units[1].msg
      OBVIOUS
    <3>2. m \in ConsoleMsg
      BY <2>6, <3>1, MsgKinds
    <3>3. e = 2 /\ units[1] = [msg |-> m, last |-> FALSE] /\ units[2] = [msg |-> m, last |-> TRUE]
          /\ message[1].msg = m
      BY <2>3, <2>8, <3>1
    <3>4. ShowMessage(m)
      BY <2>4, <2>8, <3>3 DEF Forward, ShowMessage
    <3>5. Line[1][1] = [msg |-> m, last |-> FALSE] /\ Line[1][2] = [msg |-> m, last |-> TRUE]
      BY <1>7, <1>9, <2>3, <2>6, <3>3
    <3>6. gJsonNotice' \in {None} \cup {Notice(a) : a \in Apps}
      <4>1. m.n = 0 => m \in {None} \cup {Notice(a) : a \in Apps}
        BY <3>2 DEF ConsoleMsg, Notice
      <4> QED
        BY <1>1, <3>4, <4>1 DEF ShowMessage, ConsoleKinds
    <3>7. out' \in [Viewers -> Seq(ViewerMsg)]
      BY <1>1, <3>2, <3>4, ShownKinds
    <3>8. ConsoleKinds'
      BY <1>11, <2>5, <3>6, <3>7
    <3>9. TakenOut(Line, Line', 2)
      BY <2>5, <3>3
    <3> QED
      BY <1>2, <1>5, <3>2, <3>4, <3>5, <3>8, <3>9, ShownKeeps
  <2> QED
    BY <2>7, <2>8
<1> QED
  BY <1>12, <1>13, <1>14

\* What is in the lanes behind the first, a notice in front of each.
NoticesBehind(L) == \A i \in 1..Len(L) : i # 1 => L[i] # <<>> /\ L[i][1].msg.n = 0

\* When a stream is torn, only the order has to be shown.
LEMMA TornKeeps ==
  ASSUME ConsoleKinds', OneOpen', OnTheWay', InOrder', NoticesBehind(Line)', torn'
  PROVE  ConInv'
  BY DEF ConInv, NoticesBehind, WholeOnes, NoticeAhead, NoticeShown, StillThere

LEMMA JunkKeeps ==
  ASSUME ConInv, ConsoleAssumption, Reads,
         Received(jsonContent \o Upto(conns[1].data, MaxRead) \o <<Junk>>), torn' = TRUE
  PROVE  ConInv'
<1>1. /\ ConsoleKinds /\ OneOpen /\ MaxRead \in Nat
      /\ conns \in Seq(Connection) /\ jsonContent \in Seq(Packet)
  BY DEF ConInv, ConsoleKinds, ConsoleAssumption
<1>2. /\ server' = server /\ serving' = serving /\ restarts' = restarts /\ accepted' = accepted
      /\ fd' = fd /\ at' = at /\ written' = written
      /\ conns' = [conns EXCEPT ![1].data = SubSeq(@, MaxRead + 1, Len(@))]
  BY DEF Reads, appVars
<1>3. conns # <<>>
  BY <1>1 DEF OneOpen, Reads
<1>4. /\ ConnectionsKept /\ conns' # <<>> /\ Len(conns') = Len(conns)
      /\ conns'[1].data = SubSeq(conns[1].data, MaxRead + 1, Len(conns[1].data))
      /\ \A i \in 2..Len(conns) : conns'[i].data = conns[i].data
  BY <1>1, <1>2, <1>3, RestKeeps
<1>5. PICK units : units = jsonContent \o Upto(conns[1].data, MaxRead)
  OBVIOUS
<1>6. PICK ds : ds = conns'
  OBVIOUS
<1>7. PICK L : L = Line
  OBVIOUS
<1>8. OneOpen' /\ ds \in Seq(Connection) /\ ds # <<>>
  BY <1>4, <1>6 DEF ConnectionsKept
<1>9. units \in Seq(Packet) /\ Lanes(ds, units) = L
  <2>1. PICK cs : cs = conns
    OBVIOUS
  <2>2. PICK held : held = jsonContent
    OBVIOUS
  <2>3. /\ cs \in Seq(Connection) /\ held \in Seq(Packet) /\ cs # <<>> /\ Len(ds) = Len(cs)
        /\ ds[1].data = SubSeq(cs[1].data, MaxRead + 1, Len(cs[1].data))
        /\ \A i \in 2..Len(cs) : ds[i].data = cs[i].data
        /\ units = held \o Upto(cs[1].data, MaxRead)
    BY <1>1, <1>3, <1>4, <1>5, <1>6, <2>1, <2>2
  <2>4. ReadLanes(Lanes(cs, held), ds, units)
    BY <1>1, <1>8, <2>3, LaneRead
  <2> QED
    BY <1>7, <2>1, <2>2, <2>4 DEF ReadLanes, Line
<1>10. PICK spoilt : spoilt = units \o <<Junk>>
  OBVIOUS
<1>11. PICK S : S = Lanes(ds, spoilt)
  OBVIOUS
<1>12. spoilt \in Seq(Packet) /\ SpoiltLanes(L, S)
  BY <1>8, <1>9, <1>10, <1>11, JunkSpoils
<1>13. OnLanes(S)
  <2>1. OnLanes(L)
    BY <1>7 DEF ConInv, OnTheWay, OnLanes
  <2> QED
    BY <1>1, <1>12, <2>1, SpoiltOnLanes
<1>14. /\ Len(spoilt) <= Len(S[1])
       /\ \A p \in 1..Len(spoilt) : S[1][p] = spoilt[p]
       /\ \A e \in 1..Len(spoilt) :
             /\ SubSeq(spoilt, e + 1, Len(spoilt)) \in Seq(Packet)
             /\ TakenOut(S, Lanes(ds, SubSeq(spoilt, e + 1, Len(spoilt))), e)
  <2>1. ds[1].data \in Seq(Packet) /\ Len(ds[1].data) \in Nat /\ Len(ds) \in Nat /\ Len(ds) > 0
    <3>1. Len(ds) \in Nat /\ Len(ds) > 0 /\ ds[1] \in Connection
      BY <1>8, <1>9, LanesOfSome, ElementOfSeq
    <3> QED
      BY <3>1, LenProperties DEF Connection
  <2>2. PICK d : d = ds[1].data
    OBVIOUS
  <2>3. SubSeq(d, 0 + 1, Len(d)) = d /\ Upto(d, 0) = <<>>
    <3>1. /\ SubSeq(d, 0 + 1, Len(d)) \in Seq(Packet)
          /\ Len(SubSeq(d, 0 + 1, Len(d))) = Len(d)
          /\ \A i \in 1..Len(d) : SubSeq(d, 0 + 1, Len(d))[i] = d[i]
      <4>1. PICK z \in Nat : z = 0
        OBVIOUS
      <4>2. PICK r : r = SubSeq(d, z + 1, Len(d))
        OBVIOUS
      <4>3. /\ r \in Seq(Packet) /\ (z <= Len(d) => Len(r) = Len(d) - z)
            /\ \A i \in 1..Len(r) : i + z \in 1..Len(d) /\ r[i] = d[i + z]
        BY <2>1, <2>2, <4>2, BehindIs
      <4>4. Len(r) = Len(d) /\ \A i \in 1..Len(d) : i + z = i
        BY <2>1, <2>2, <4>1, <4>3
      <4>5. \A i \in 1..Len(d) : r[i] = d[i]
        BY <4>3, <4>4
      <4>6. r = SubSeq(d, 0 + 1, Len(d))
        BY <4>1, <4>2
      <4> QED
        BY <4>3, <4>4, <4>5, <4>6
    <3>2. Upto(d, 0) \in Seq(Packet) /\ Len(Upto(d, 0)) = 0
      BY <2>1, <2>2, UptoIs
    <3> QED
      BY <2>1, <2>2, <3>1, <3>2, SeqEqual, EmptySeq
  <2>4. spoilt = spoilt \o Upto(d, 0)
    BY <1>12, <2>3, ConcatEmptySeq
  <2>5. ReadLanes(S, ds, spoilt)
    <3>1. /\ ds \in Seq(Connection) /\ spoilt \in Seq(Packet) /\ ds # <<>> /\ 0 \in Nat
          /\ ds[1].data = SubSeq(ds[1].data, 0 + 1, Len(ds[1].data))
          /\ \A i \in 2..Len(ds) : ds[i].data = ds[i].data
          /\ spoilt = spoilt \o Upto(ds[1].data, 0)
      BY <1>8, <1>12, <2>2, <2>3, <2>4
    <3> QED
      BY <1>11, <3>1, LaneRead
  <2> QED
    BY <2>5 DEF ReadLanes
<1>15. NoticesBehind(S)
  <2>1. \A i \in 1..Len(L) : i # 1 => L[i] # <<>> /\ L[i][1].msg.n = 0
    BY <1>7 DEF ConInv, NoticeAhead
  <2>2. Len(S) = Len(L) /\ Len(S) \in Nat /\ \A j \in 2..Len(S) : S[j] = L[j]
    BY <1>12, LenProperties DEF SpoiltLanes
  <2>3. \A i \in 1..Len(S) : i # 1 => i \in 2..Len(S)
    BY <2>2
  <2> QED
    BY <2>1, <2>2, <2>3 DEF NoticesBehind
<1>16. ASSUME jsonContent' \in Seq(Packet), gJsonNotice' \in {None} \cup {Notice(a) : a \in Apps},
              out' \in [Viewers -> Seq(ViewerMsg)]
       PROVE  ConsoleKinds'
  BY <1>1, <1>2, <1>4, <1>16 DEF ConsoleKinds, ConnectionsKept
<1>17. \/ Unfinished(spoilt)
       \/ /\ Ends(spoilt) # {}
          /\ jsonContent' = SubSeq(spoilt, FirstEnd(spoilt) + 1, Len(spoilt))
          /\ Forward(Upto(spoilt, FirstEnd(spoilt)))
  BY <1>5, <1>10 DEF Received
<1>18. CASE Unfinished(spoilt)
  <2>1. jsonContent' = spoilt /\ gJsonNotice' = gJsonNotice /\ out' = out
    BY <1>18 DEF Unfinished
  <2>2. Line' = S
    BY <1>6, <1>11, <2>1 DEF Line
  <2>3. ConsoleKinds'
    BY <1>1, <1>12, <1>16, <2>1 DEF ConsoleKinds
  <2>4. InOrder'
    BY <2>1 DEF ConInv, InOrder
  <2>5. OnTheWay'
    <3>1. \A u \in Waiting(S) : WasTried(u.msg)'
      BY <1>2, <1>13 DEF OnLanes, WasTried, Tried
    <3>2. \A v \in Viewers : \A k \in 1..Len(out[v]) :
             WasTried(out[v][k])' /\ \A w \in Waiting(S) : ShownBefore(out[v][k], w)
      BY <1>2, <1>13, <2>1 DEF OnLanes, WasTried, Tried
    <3>3. LanesOrdered(Line)' /\ Waiting(Line)' = Waiting(S)
      BY <1>13, <2>2 DEF OnLanes
    <3> QED
      BY <2>1, <3>1, <3>2, <3>3 DEF OnTheWay
  <2>6. NoticesBehind(Line)'
    BY <1>15, <2>2 DEF NoticesBehind
  <2> QED
    BY <1>8, <2>3, <2>4, <2>5, <2>6, TornKeeps
<1>19. ASSUME Ends(spoilt) # {}, jsonContent' = SubSeq(spoilt, FirstEnd(spoilt) + 1, Len(spoilt)),
              Forward(Upto(spoilt, FirstEnd(spoilt)))
       PROVE  ConInv'
  <2>1. PICK e : e = FirstEnd(spoilt)
    OBVIOUS
  <2>2. PICK message : message = Upto(spoilt, e)
    OBVIOUS
  <2>3. /\ e \in 1..Len(spoilt)
        /\ Parses(message) => /\ e = 2 /\ message[1] = spoilt[1]
                              /\ spoilt[1] = [msg |-> spoilt[1].msg, last |-> FALSE]
                              /\ spoilt[2] = [msg |-> spoilt[1].msg, last |-> TRUE]
    BY <1>12, <1>19, <2>1, <2>2, MessageIs
  <2>4. jsonContent' = SubSeq(spoilt, e + 1, Len(spoilt)) /\ Forward(message)
    BY <1>19, <2>1, <2>2
  <2>5. jsonContent' \in Seq(Packet) /\ TakenOut(S, Line', e)
    <3>1. PICK rest : rest = SubSeq(spoilt, e + 1, Len(spoilt))
      OBVIOUS
    <3>2. rest \in Seq(Packet) /\ TakenOut(S, Lanes(ds, rest), e)
      BY <1>14, <2>3, <3>1
    <3>3. jsonContent' = rest
      BY <2>4, <3>1
    <3> QED
      BY <1>6, <3>2, <3>3 DEF Line
  <2>6. NoticesBehind(Line)'
    <3>1. PICK M : M = Line'
      OBVIOUS
    <3>2. Len(M) = Len(S) /\ \A i \in 1..Len(S) : i # 1 => M[i] = S[i]
      BY <2>5, <3>1, TakenLane
    <3>3. NoticesBehind(M)
      BY <1>15, <3>2 DEF NoticesBehind
    <3> QED
      BY <3>1, <3>3 DEF NoticesBehind
  <2>7. CASE ~ Parses(message)
    <3>1. gJsonNotice' = gJsonNotice /\ out' = out
      BY <2>4, <2>7 DEF Forward
    <3>2. ConsoleKinds'
      BY <1>1, <1>16, <2>5, <3>1 DEF ConsoleKinds
    <3>3. OnTheWay'
      BY <1>2, <1>13, <2>5, <3>1, DroppedOnWay
    <3>4. InOrder'
      BY <3>1 DEF ConInv, InOrder
    <3> QED
      BY <1>8, <2>6, <3>2, <3>3, <3>4, TornKeeps
  <2>8. CASE Parses(message)
    <3>1. PICK m : m = spoilt[1].msg
      OBVIOUS
    <3>2. /\ e = 2 /\ spoilt[1] = [msg |-> m, last |-> FALSE] /\ spoilt[2] = [msg |-> m, last |-> TRUE]
          /\ message[1].msg = m
      BY <2>3, <2>8, <3>1
    <3>3. Len(spoilt) \in Nat /\ 1 \in 1..Len(spoilt) /\ 2 \in 1..Len(spoilt) /\ spoilt[1] \in Packet
      <4>1. Len(spoilt) \in Nat
        BY <1>12, LenProperties
      <4>2. 1 \in 1..Len(spoilt) /\ 2 \in 1..Len(spoilt)
        BY <2>3, <3>2, <4>1
      <4> QED
        BY <1>12, <4>1, <4>2, ElementOfSeq
    <3>4. m \in ConsoleMsg
      BY <3>1, <3>3, MsgKinds
    <3>5. ShowMessage(m)
      BY <2>4, <2>8, <3>2 DEF Forward, ShowMessage
    <3>6. S[1][1] = [msg |-> m, last |-> FALSE] /\ S[1][2] = [msg |-> m, last |-> TRUE]
      BY <1>14, <3>2, <3>3
    <3>7. gJsonNotice' \in {None} \cup {Notice(a) : a \in Apps}
      <4>1. m.n = 0 => m \in {None} \cup {Notice(a) : a \in Apps}
        BY <3>4 DEF ConsoleMsg, Notice
      <4> QED
        BY <1>1, <3>5, <4>1 DEF ShowMessage, ConsoleKinds
    <3>8. ConsoleKinds'
      BY <1>1, <1>16, <2>5, <3>4, <3>5, <3>7, ShownKinds
    <3>9. TakenOut(S, Line', 2)
      BY <2>5, <3>2
    <3>10. OnTheWay' /\ InOrder'
      BY <1>1, <1>2, <1>13, <3>4, <3>5, <3>6, <3>8, <3>9, ShownOnWay DEF ConInv
    <3> QED
      BY <1>8, <2>6, <3>8, <3>10, TornKeeps
  <2> QED
    BY <2>7, <2>8
<1> QED
  BY <1>17, <1>18, <1>19

LEMMA RecvKeeps ==
  ASSUME ConInv, ConsoleAssumption, Recv
  PROVE  ConInv'
<1>1. PICK got : got = Upto(conns[1].data, MaxRead)
  OBVIOUS
<1>2. /\ Reads
      /\ \/ Received(jsonContent \o got) /\ UNCHANGED torn
         \/ Received(jsonContent \o got \o <<Junk>>) /\ torn' = TRUE
  BY <1>1 DEF Recv, Reads
<1> QED
  BY <1>1, <1>2, ReadKeeps, JunkKeeps

\* The first connection is gone.
LEMMA TailKeeps ==
  ASSUME ConsoleKinds, OneOpen, conns # <<>>, conns' = Tail(conns), serving' = FALSE, fd' = fd
  PROVE  conns' \in Seq(Connection) /\ OneOpen'
<1>1. conns \in Seq(Connection) /\ Len(conns) \in Nat
  BY LineIs DEF ConsoleKinds
<1>2. PICK ds : ds = conns'
  OBVIOUS
<1>3. /\ ds \in Seq(Connection) /\ Len(ds) = Len(conns) - 1
      /\ \A i \in 1..Len(ds) : ds[i] = conns[i + 1]
  BY <1>1, <1>2, HeadTailProperties
<1>4. \A i \in 1..Len(ds) : i + 1 \in 1..Len(conns) /\ ds[i] = conns[i + 1]
  BY <1>1, <1>3
<1>5. ASSUME NEW i \in 1..Len(ds), NEW j \in 1..Len(ds), i < j, ds[i].app = ds[j].app PROVE ds[i].closed
  <2>1. i + 1 < j + 1 /\ conns[i + 1].app = conns[j + 1].app
    BY <1>1, <1>3, <1>4, <1>5
  <2> QED
    BY <1>1, <1>4, <2>1 DEF OneOpen
<1>6. \A i \in 1..Len(ds) : /\ ds[i].closed \/ fd[ds[i].app]
                            /\ \A p \in 1..Len(ds[i].data) : ds[i].data[p].msg.app \in {ds[i].app, "none"}
  BY <1>1, <1>4 DEF OneOpen
<1> QED
  BY <1>2, <1>3, <1>5, <1>6 DEF OneOpen

LEMMA JoinedNotices ==
  ASSUME NEW L, NEW M, JoinedLanes(L, M), NoticesBehind(L)
  PROVE  NoticesBehind(M)
<1>1. /\ Len(L) \in Nat /\ Len(L) = Len(M) + 1 /\ Len(M) > 0 /\ Len(M) \in Nat
      /\ \A j \in 2..Len(M) : M[j] = L[j + 1]
  BY LenProperties DEF JoinedLanes
<1> SUFFICES ASSUME NEW i \in 1..Len(M), i # 1 PROVE M[i] # <<>> /\ M[i][1].msg.n = 0
  BY DEF NoticesBehind
<1>2. i + 1 \in 1..Len(L) /\ i + 1 # 1 /\ M[i] = L[i + 1]
  BY <1>1
<1> QED
  BY <1>2 DEF NoticesBehind

LEMMA RecvFailsKeeps ==
  ASSUME ConInv, RecvFails
  PROVE  ConInv'
<1>1. /\ ConsoleKinds /\ OneOpen
      /\ conns \in Seq(Connection) /\ jsonContent \in Seq(Packet)
  BY DEF ConInv, ConsoleKinds
<1>2. /\ restarts' = restarts /\ accepted' = accepted /\ torn' = TRUE /\ fd' = fd
      /\ at' = at /\ written' = written /\ jsonContent' = jsonContent /\ gJsonNotice' = gJsonNotice
      /\ out' = out /\ conns' = Tail(conns) /\ serving' = FALSE
  BY DEF RecvFails, appVars
<1>3. conns # <<>>
  BY <1>1 DEF OneOpen, RecvFails
<1>4. conns' \in Seq(Connection) /\ OneOpen'
  BY <1>1, <1>2, <1>3, TailKeeps
<1>5. ConsoleKinds'
  BY <1>1, <1>2, <1>4 DEF ConsoleKinds
<1>6. PICK L : L = Line
  OBVIOUS
<1>7. PICK cs : cs = conns
  OBVIOUS
<1>8. PICK held : held = jsonContent
  OBVIOUS
<1>9. PICK ds : ds = [cs EXCEPT ![1] = [cs[1] EXCEPT !.data = <<>>]]
  OBVIOUS
<1>10. PICK S : S = Lanes(ds, held)
  OBVIOUS
<1>11. PICK M : M = Line'
  OBVIOUS
<1>12. /\ cs \in Seq(Connection) /\ held \in Seq(Packet) /\ cs # <<>> /\ L = Lanes(cs, held)
       /\ M = Lanes(Tail(cs), held)
  BY <1>1, <1>2, <1>3, <1>6, <1>7, <1>8, <1>11 DEF Line
<1>13. /\ ds \in Seq(Connection) /\ ds # <<>> /\ ds[1].data = <<>> /\ Tail(ds) = Tail(cs)
       /\ SpoiltLanes(L, S)
  BY <1>9, <1>10, <1>12, LossSpoils
<1>14. M = S \/ JoinedLanes(S, M)
  BY <1>10, <1>12, <1>13, LaneHungUp
<1>15. OnLanes(S) /\ NoticesBehind(S)
  <2>1. OnLanes(L)
    BY <1>6 DEF ConInv, OnTheWay, OnLanes
  <2>2. OnLanes(S)
    BY <1>1, <1>13, <2>1, SpoiltOnLanes
  <2>3. \A i \in 1..Len(L) : i # 1 => L[i] # <<>> /\ L[i][1].msg.n = 0
    BY <1>6 DEF ConInv, NoticeAhead
  <2>4. Len(S) = Len(L) /\ Len(S) \in Nat /\ \A j \in 2..Len(S) : S[j] = L[j]
    BY <1>13, LenProperties DEF SpoiltLanes
  <2>5. \A i \in 1..Len(S) : i # 1 => i \in 2..Len(S)
    BY <2>4
  <2> QED
    BY <2>2, <2>3, <2>4, <2>5 DEF NoticesBehind
<1>16. LanesOrdered(M) /\ Waiting(M) = Waiting(S)
  <2>1. LanesOrdered(S)
    BY <1>15 DEF OnLanes
  <2>2. CASE JoinedLanes(S, M)
    BY <2>1, <2>2, JoinedWaits, JoinedInOrder
  <2> QED
    BY <1>14, <2>1, <2>2
<1>17. NoticesBehind(M)
  BY <1>14, <1>15, JoinedNotices
<1>18. OnTheWay'
  <2>1. \A u \in Waiting(S) : WasTried(u.msg)'
    BY <1>2, <1>15 DEF OnLanes, WasTried, Tried
  <2>2. \A v \in Viewers : \A k \in 1..Len(out[v]) :
           WasTried(out[v][k])' /\ \A w \in Waiting(S) : ShownBefore(out[v][k], w)
    BY <1>2, <1>15 DEF OnLanes, WasTried, Tried
  <2>3. LanesOrdered(Line)' /\ Waiting(Line)' = Waiting(S)
    BY <1>11, <1>16
  <2> QED
    BY <1>2, <2>1, <2>2, <2>3 DEF OnTheWay
<1>19. InOrder' /\ NoticesBehind(Line)'
  BY <1>2, <1>11, <1>17 DEF ConInv, InOrder, NoticesBehind
<1> QED
  BY <1>2, <1>4, <1>5, <1>18, <1>19, TornKeeps

LEMMA HangUpKeeps ==
  ASSUME ConInv, HangUp
  PROVE  ConInv'
<1>1. /\ ConsoleKinds /\ OneOpen
      /\ conns \in Seq(Connection) /\ jsonContent \in Seq(Packet)
      /\ Len(conns) \in Nat
  BY LineIs DEF ConInv, ConsoleKinds
<1>2. /\ server' = server /\ restarts' = restarts /\ accepted' = accepted /\ torn' = torn /\ fd' = fd
      /\ at' = at /\ written' = written /\ jsonContent' = jsonContent /\ gJsonNotice' = gJsonNotice
      /\ out' = out /\ forwarded' = forwarded
      /\ conns' = Tail(conns) /\ serving' = FALSE
  BY DEF HangUp, appVars
<1>3. conns # <<>> /\ conns[1].data = <<>>
  BY <1>1 DEF OneOpen, HangUp
<1>4. PICK L : L = Line
  OBVIOUS
<1>5. PICK M : M = Line'
  OBVIOUS
<1>6. /\ conns' \in Seq(Connection)
      /\ \/ conns' = <<>> /\ M = L
         \/ conns' # <<>> /\ JoinedLanes(L, M)
  BY <1>1, <1>2, <1>3, <1>4, <1>5, LaneHungUp DEF Line
<1>9. OneOpen'
  BY <1>1, <1>2, <1>3, TailKeeps
<1>10. ConsoleKinds'
  BY <1>1, <1>2, <1>6 DEF ConsoleKinds
<1>11. TriedGrows
  <2>1. \A a \in Apps : Tried(a) \in Int
    BY <1>1, TriedIs
  <2> QED
    BY <1>2, <2>1 DEF TriedGrows, Tried
<1>12. CASE conns' = <<>> /\ M = L
  BY <1>2, <1>4, <1>5, <1>9, <1>10, <1>11, <1>12, SameLine
<1>13. CASE conns' # <<>> /\ JoinedLanes(L, M)
  <2>1. Waiting(M) = Waiting(L) /\ (LanesOrdered(L) => LanesOrdered(M)) /\ (LanesPaired(L) => LanesPaired(M))
    BY <1>13, JoinedWaits, JoinedInOrder
  <2>2. \A m : WasTried(m)' <=> WasTried(m)
    BY <1>2 DEF WasTried, Tried
  <2>3. OnTheWay'
    <3>1. LanesOrdered(Line)' /\ Waiting(Line)' = Waiting(L)
      BY <1>4, <1>5, <2>1 DEF ConInv, OnTheWay
    <3>2. \A u \in Waiting(L) : WasTried(u.msg)'
      BY <1>4, <2>2 DEF ConInv, OnTheWay
    <3>3. ASSUME NEW v \in Viewers, NEW k \in 1..Len(out[v])
          PROVE  WasTried(out[v][k])' /\ \A w \in Waiting(L) : ShownBefore(out[v][k], w)
      <4>1. WasTried(out[v][k]) /\ \A w \in Waiting(L) : ShownBefore(out[v][k], w)
        BY <1>4 DEF ConInv, OnTheWay
      <4>2. WasTried(out[v][k])'
        BY <1>2, <4>1 DEF WasTried, Tried
      <4> QED
        BY <4>1, <4>2
    <3> QED
      BY <1>2, <3>1, <3>2, <3>3 DEF OnTheWay
  <2>4. InOrder'
    BY <1>2 DEF ConInv, InOrder
  <2>5. WholeOnes'
    BY <1>2, <1>4, <1>5, <2>1 DEF ConInv, WholeOnes
  <2>6. NoticeShown'
    BY <1>2 DEF ConInv, NoticeShown
  <2>7. StillThere'
    BY <1>2, <1>4, <1>5, <2>1 DEF ConInv, StillThere
  <2>8. NoticeAhead'
    <3>1. /\ L \in Seq(Seq(Packet)) /\ Len(L) \in Nat /\ Len(L) = Len(M) + 1 /\ Len(M) > 0 /\ Len(M) \in Nat
          /\ M[1] = L[1] \o L[2]
          /\ \A j \in 2..Len(M) : M[j] = L[j + 1]
      BY <1>13, LenProperties DEF JoinedLanes
    <3>2. \A i \in 1..Len(L) : i # 1 => L[i] # <<>> /\ L[i][1].msg.n = 0
      BY <1>4 DEF ConInv, NoticeAhead
    <3>3. ASSUME NEW i \in 1..Len(M), i # 1 PROVE M[i] # <<>> /\ M[i][1].msg.n = 0
      <4>1. i + 1 \in 1..Len(L) /\ i + 1 # 1 /\ M[i] = L[i + 1]
        BY <3>1, <3>3
      <4> QED
        BY <3>2, <4>1
    <3>4. ASSUME ~ torn, gJsonNotice = None PROVE M[1] # <<>> /\ M[1][1].msg.n = 0
      <4>1. PICK s : s = L[1]
        OBVIOUS
      <4>2. PICK t : t = L[2]
        OBVIOUS
      <4>3. 1 \in 1..Len(L) /\ 2 \in 1..Len(L)
        BY <3>1
      <4>4. /\ s \in Seq(Packet) /\ t \in Seq(Packet) /\ M[1] = s \o t
            /\ t # <<>> /\ t[1].msg.n = 0
            /\ s # <<>> => s[1].msg.n = 0
        BY <1>4, <3>1, <3>2, <3>4, <4>1, <4>2, <4>3, LaneIs DEF ConInv, NoticeAhead
      <4>5. Len(s) \in Nat /\ Len(t) \in Nat /\ Len(t) > 0 /\ (s # <<>> <=> Len(s) > 0)
        BY <4>4, LenProperties, EmptySeq
      <4>6. /\ s \o t \in Seq(Packet) /\ Len(s \o t) = Len(s) + Len(t)
            /\ \A r \in 1..(Len(s) + Len(t)) : (s \o t)[r] = IF r <= Len(s) THEN s[r] ELSE t[r - Len(s)]
        BY <4>4, ConcatProperties
      <4>7. s \o t # <<>>
        BY <4>5, <4>6, EmptySeq
      <4>8. CASE s # <<>>
        <5>1. (s \o t)[1] = s[1]
          BY <4>5, <4>6, <4>8
        <5> QED
          BY <4>4, <4>7, <4>8, <5>1
      <4>9. CASE s = <<>>
        <5>1. (s \o t)[1] = t[1]
          BY <4>5, <4>6, <4>9
        <5> QED
          BY <4>4, <4>7, <5>1
      <4> QED
        BY <4>8, <4>9
    <3> QED
      BY <1>2, <1>5, <3>3, <3>4 DEF NoticeAhead
  <2> QED
    BY <1>9, <1>10, <2>3, <2>4, <2>5, <2>6, <2>7, <2>8 DEF ConInv
<1> QED
  BY <1>6, <1>12, <1>13

\* The steps that leave the lanes and what the viewers got alone.
LEMMA StateKeeps ==
  ASSUME ConInv, UNCHANGED <<fd, conns, jsonContent, gJsonNotice, out, accepted, forwarded, torn>>,
         serving' => conns # <<>>,
         TriedGrows, at' \in [Apps -> AppStates], written' \in [Apps -> Nat], restarts' \in Nat,
         server' # "down" /\ restarts' = 0 => server # "down" /\ restarts = 0
  PROVE  ConInv'
<1>1. ConsoleKinds'
  BY DEF ConInv, ConsoleKinds, AppStates
<1>2. OneOpen'
  BY DEF ConInv, OneOpen
<1>3. Line' = Line
  BY DEF Line
<1> QED
  BY <1>1, <1>2, <1>3, SameLine

\* What a viewer has when it comes, and that it goes.
LEMMA ViewerKeeps ==
  ASSUME ConInv, NEW v \in Viewers, NEW s,
         s = Offline \/ (s = IF gJsonNotice = None THEN <<>> ELSE <<gJsonNotice>>),
         out' = [out EXCEPT ![v] = s],
         UNCHANGED <<appVars, conns, server, serving, jsonContent, gJsonNotice, restarts, accepted,
                     forwarded, torn>>
  PROVE  ConInv'
<1>1. /\ fd' = fd /\ at' = at /\ written' = written /\ conns' = conns /\ server' = server
      /\ serving' = serving /\ jsonContent' = jsonContent /\ gJsonNotice' = gJsonNotice
      /\ restarts' = restarts /\ accepted' = accepted /\ forwarded' = forwarded /\ torn' = torn
  BY DEF appVars
<1>2. /\ out \in [Viewers -> Seq(ViewerMsg)]
      /\ gJsonNotice \in ViewerMsg /\ gJsonNotice.n = 0
  BY MsgKinds DEF ConInv, ConsoleKinds
<1>3. /\ s \in Seq(ViewerMsg) /\ Len(s) \in Nat
      /\ \A k \in 1..Len(s) : k = 1 /\ s[k].n = 0 /\ s[k] \in ViewerMsg
      /\ s # <<>> => s[1].n = 0
      /\ s # Offline /\ gJsonNotice # None => s # <<>>
  <2>1. CASE s = Offline
    <3>1. s = <<None>>
      BY <2>1 DEF Offline
    <3>2. None \in ViewerMsg /\ None.n = 0
      BY MsgKinds
    <3> QED
      BY <2>1, <3>1, <3>2
  <2>2. CASE s = <<>>
    <3>1. s \in Seq(ViewerMsg) /\ Len(s) = 0
      BY <2>2
    <3>2. gJsonNotice # None => s = Offline
      BY <2>2
    <3> QED
      BY <2>2, <3>1, <3>2
  <2>3. CASE s = <<gJsonNotice>>
    BY <1>2, <2>3
  <2> QED
    BY <2>1, <2>2, <2>3
<1>4. /\ out'[v] = s /\ \A u \in Viewers : u # v => out'[u] = out[u]
      /\ out' \in [Viewers -> Seq(ViewerMsg)]
  BY <1>2, <1>3
<1>5. ConsoleKinds' /\ OneOpen' /\ Line' = Line
  <2>1. ConsoleKinds'
    BY <1>1, <1>4 DEF ConInv, ConsoleKinds
  <2> QED
    BY <1>1, <2>1 DEF ConInv, OneOpen, Line
<1>6. \A m : WasTried(m)' <=> WasTried(m)
  BY <1>1 DEF WasTried, Tried
<1>7. OnTheWay'
  <2>1. LanesOrdered(Line)' /\ Waiting(Line)' = Waiting(Line)
    BY <1>5 DEF ConInv, OnTheWay
  <2>2. \A u \in Waiting(Line) : WasTried(u.msg)'
    BY <1>6 DEF ConInv, OnTheWay
  <2>3. ASSUME NEW u \in Viewers, NEW k \in 1..Len(out'[u])
        PROVE  WasTried(out[u][k])' /\ \A w \in Waiting(Line) : ShownBefore(out'[u][k], w)
    <3>1. WasTried(out'[u][k]) /\ \A w \in Waiting(Line) : ShownBefore(out'[u][k], w)
      <4>1. CASE u # v
        BY <1>4, <2>3, <4>1 DEF ConInv, OnTheWay
      <4>2. CASE u = v
        <5>1. out'[u][k].n = 0
          BY <1>3, <1>4, <2>3, <4>2
        <5>2. ASSUME NEW w \in Waiting(Line) PROVE ShownBefore(out'[u][k], w)
          <6>1. w.msg.n \in Nat
            BY MsgKinds DEF Waiting
          <6> QED
            BY <5>1, <6>1 DEF ShownBefore
        <5> QED
          BY <5>1, <5>2 DEF WasTried
      <4> QED
        BY <4>1, <4>2
    <3>2. WasTried(out[u][k])'
      BY <1>1, <3>1 DEF WasTried, Tried
    <3> QED
      BY <3>1, <3>2
  <2> QED
    BY <2>1, <2>2, <2>3 DEF OnTheWay
<1>8. InOrder'
  <2> SUFFICES ASSUME NEW u \in Viewers, NEW i \in 1..Len(out'[u]), NEW j \in 1..Len(out'[u]), i < j,
                      out'[u][i].app = out'[u][j].app, out'[u][j].n > 0
               PROVE  out'[u][i].n < out'[u][j].n
    <3>1. \A u \in Viewers : DOMAIN (out'[u]) = 1..Len(out'[u])
      BY <1>4, LenProperties
    <3> QED
      BY <3>1 DEF InOrder
  <2>1. DOMAIN (out[u]) = 1..Len(out[u])
    BY <1>2, LenProperties
  <2>2. u # v
    BY <1>3, <1>4
  <2> QED
    BY <1>4, <2>1, <2>2 DEF ConInv, InOrder
<1>9. WholeOnes' /\ NoticeAhead' /\ StillThere'
  BY <1>1, <1>5 DEF ConInv, WholeOnes, NoticeAhead, StillThere
<1>10. NoticeShown'
  BY <1>1, <1>3, <1>4 DEF ConInv, NoticeShown
<1> QED
  BY <1>5, <1>7, <1>8, <1>9, <1>10 DEF ConInv

\* Nothing is on the way, and no viewer is there.
EmptyConsole == /\ conns = <<>> /\ jsonContent = <<>> /\ gJsonNotice = None /\ ~ serving
                /\ out = [v \in Viewers |-> Offline]
                /\ server = "down" \/ accepted = {}

LEMMA EmptyIs ==
  ASSUME ConsoleKinds, EmptyConsole
  PROVE  ConInv
<1>1. Line \in Seq(Seq(Packet)) /\ Len(Line) = 1 /\ Line[1] = <<>>
  <2>1. <<>> \in Seq(Packet)
    OBVIOUS
  <2>2. Line = Lanes(<<>>, <<>>)
    BY DEF Line, EmptyConsole
  <2> QED
    BY <2>1, <2>2, LanesOfNone
<1>2. \A i \in 1..Len(Line) : Len(Line[i]) = 0 /\ i = 1
  BY <1>1
<1>3. Waiting(Line) = {}
  BY <1>2 DEF Waiting
<1>4. \A v \in Viewers : Len(out[v]) = 1 /\ out[v][1] = None /\ out[v] = Offline /\ out[v] # <<>>
  BY DEF EmptyConsole, Offline
<1>5. LanesOrdered(Line) /\ LanesPaired(Line)
  BY <1>2 DEF LanesOrdered, LanesPaired, InOneLane, BetweenLanes, Paired
<1>6. OnTheWay
  <2>1. WasTried(None)
    BY MsgKinds DEF WasTried
  <2> QED
    BY <1>3, <1>4, <1>5, <2>1 DEF OnTheWay
<1>7. OneOpen
  BY DEF OneOpen, EmptyConsole
<1>8. InOrder
  <2>1. ASSUME NEW v \in Viewers, NEW i \in DOMAIN out[v], NEW j \in DOMAIN out[v] PROVE i = 1 /\ j = 1
    BY <2>1 DEF EmptyConsole, Offline
  <2> QED
    BY <2>1 DEF InOrder
<1>9. WholeOnes /\ NoticeAhead
  BY <1>1, <1>2, <1>3, <1>5 DEF WholeOnes, NoticeAhead, EmptyConsole
<1>10. NoticeShown
  BY <1>4, MsgKinds DEF NoticeShown
<1>11. StillThere
  BY DEF StillThere, EmptyConsole
<1> QED
  BY <1>6, <1>7, <1>8, <1>9, <1>10, <1>11 DEF ConInv

LEMMA ConsoleStarts ==
  ASSUME ConsoleInit
  PROVE  ConInv
<1>1. ConsoleKinds
  <2>1. <<>> \in Seq(Connection) /\ <<>> \in Seq(Packet) /\ Offline \in Seq(ViewerMsg)
    BY MsgKinds DEF Offline
  <2> QED
    BY <2>1 DEF ConsoleInit, ConsoleKinds
<1>2. EmptyConsole
  BY DEF ConsoleInit, EmptyConsole
<1> QED
  BY <1>1, <1>2, EmptyIs

LEMMA StopKeeps ==
  ASSUME ConInv, Stop
  PROVE  ConInv'
<1>1. ConsoleKinds'
  <2>1. <<>> \in Seq(Connection) /\ <<>> \in Seq(Packet) /\ Offline \in Seq(ViewerMsg)
    BY MsgKinds DEF Offline
  <2> QED
    BY <2>1 DEF ConInv, Stop, appVars, ConsoleKinds
<1>2. EmptyConsole'
  BY DEF Stop, EmptyConsole
<1> QED
  BY <1>1, <1>2, EmptyIs, PTL

LEMMA AppKeeps ==
  ASSUME ConInv, ConsoleAssumption, NEW a \in Apps, Write(a) \/ Signal(a) \/ AppStep(a)
  PROVE  ConInv'
<1>1. /\ ConsoleKinds /\ OneOpen
      /\ at \in [Apps -> AppStates] /\ written \in [Apps -> Nat] /\ restarts \in Nat
      /\ serving => conns # <<>>
  BY DEF ConInv, ConsoleKinds, OneOpen, AppStates
<1>2. "none" \notin Apps
  BY DEF ConsoleAssumption
<1>3. CASE Write(a)
  <2>1. /\ UNCHANGED <<fd, conns, server, serving, jsonContent, gJsonNotice, out, restarts, accepted,
                       forwarded, torn>>
        /\ at[a] = "idle" /\ at' = [at EXCEPT ![a] = "init"]
        /\ written' = [written EXCEPT ![a] = written[a] + 1]
    BY <1>3 DEF Write, serverVars, Goto
  <2>2. at' \in [Apps -> AppStates] /\ written' \in [Apps -> Nat]
    BY <1>1, <2>1 DEF AppStates
  <2>3. TriedGrows
    <3> SUFFICES ASSUME NEW b \in Apps PROVE Tried(b)' >= Tried(b)
      BY DEF TriedGrows
    <3>1. CASE b = a
      BY <1>1, <2>1, <3>1 DEF Tried
    <3>2. CASE b # a
      <4>1. at'[b] = at[b] /\ written'[b] = written[b] /\ written[b] \in Nat
        BY <1>1, <2>1, <3>2
      <4> QED
        BY <4>1 DEF Tried
    <3> QED
      BY <3>1, <3>2
  <2> QED
    BY <1>1, <2>1, <2>2, <2>3, StateKeeps
<1>4. CASE Signal(a)
  <2>1. /\ UNCHANGED <<fd, written, conns, server, serving, jsonContent, gJsonNotice, out, restarts,
                       accepted, forwarded, torn>>
        /\ Goto(a, "handlerInit") \/ Goto(a, "deadlocked")
    BY <1>4 DEF Signal, serverVars
  <2>2. TriedGrows /\ at' \in [Apps -> AppStates]
    <3>1. "handlerInit" \in AppStates /\ "deadlocked" \in AppStates
      BY DEF AppStates
    <3>2. "handlerInit" \notin {"init", "send"} /\ "deadlocked" \notin {"init", "send"}
      OBVIOUS
    <3> QED
      BY <1>1, <2>1, <3>1, <3>2, GoesOn
  <2> QED
    BY <1>1, <2>1, <2>2, StateKeeps
<1>5. CASE Init1(a)
  <2>1. /\ at[a] \in {"init", "send"} /\ InitParams(a, "send") /\ "send" \in AppStates
        /\ UNCHANGED <<written, serverVars, accepted, torn>>
    BY <1>5 DEF Init1, AppStates
  <2> QED
    BY <1>2, <2>1, InitKeeps
<1>6. CASE HandlerInit(a)
  <2>1. /\ "handlerSend" \notin {"init", "send"} /\ InitParams(a, "handlerSend")
        /\ "handlerSend" \in AppStates
        /\ UNCHANGED <<written, serverVars, accepted, torn>>
    BY <1>6 DEF HandlerInit, AppStates
  <2> QED
    BY <1>2, <2>1, InitKeeps
<1>7. CASE SendMessage(a)
  <2>1. PICK m : m = [app |-> a, n |-> written[a]]
    OBVIOUS
  <2>2. /\ at[a] = "send" /\ Goto(a, "idle") /\ Send(a, Units(m))
        /\ UNCHANGED <<written, serverVars>> /\ "idle" \in AppStates /\ "idle" \notin {"init", "send"}
    BY <1>7, <2>1 DEF SendMessage, AppStates
  <2>3. m \in ConsoleMsg
    BY <1>1, <2>1, MsgKinds
  <2> QED
    BY <2>1, <2>2, <2>3, SendKeeps
<1>8. CASE HandlerSend(a)
  <2>1. /\ Goto(a, "exit") /\ Send(a, <<Text>>)
        /\ UNCHANGED <<written, serverVars>> /\ "exit" \in AppStates /\ "exit" \notin {"init", "send"}
    BY <1>8 DEF HandlerSend, AppStates
  <2>2. None \in ConsoleMsg
    BY MsgKinds
  <2> QED
    BY <2>1, <2>2, SendKeeps
<1>9. CASE Exit(a)
  <2>1. /\ Goto(a, "exited") /\ Destroyed(a) /\ "exited" \in AppStates /\ "exited" \notin {"init", "send"}
        /\ UNCHANGED <<written, server, serving, jsonContent, gJsonNotice, out, restarts, accepted,
                       forwarded, torn>>
    BY <1>9 DEF Exit, serverVars, AppStates
  <2>2. TriedGrows /\ at' \in [Apps -> AppStates]
    BY <1>1, <2>1, GoesOn
  <2>3. ConnectionsKept /\ Line' = Line /\ (conns' = <<>> <=> conns = <<>>)
    BY <1>1, <2>1, CloseKeeps
  <2>4. ConsoleKinds' /\ OneOpen'
    BY <1>1, <2>1, <2>2, <2>3 DEF ConsoleKinds, ConnectionsKept, AppStates
  <2> QED
    BY <2>1, <2>2, <2>3, <2>4, SameLine
<1> QED
  BY <1>3, <1>4, <1>5, <1>6, <1>7, <1>8, <1>9 DEF AppStep

LEMMA ConsoleSteps ==
  ASSUME ConInv, ConsoleAssumption, [ConsoleNext]_consoleVars
  PROVE  ConInv'
<1>1. /\ at \in [Apps -> AppStates] /\ written \in [Apps -> Nat] /\ restarts \in Nat
      /\ serving => conns # <<>>
  BY DEF ConInv, ConsoleKinds, OneOpen, AppStates
<1>2. ASSUME at' = at, written' = written PROVE TriedGrows
  <2>1. \A a \in Apps : Tried(a) \in Int
    BY TriedIs DEF ConInv
  <2> QED
    BY <1>2, <2>1 DEF TriedGrows, Tried
<1>3. CASE UNCHANGED consoleVars
  BY <1>1, <1>2, <1>3, StateKeeps DEF consoleVars
<1>4. ASSUME NEW a \in Apps, Write(a) \/ Signal(a) \/ AppStep(a) PROVE ConInv'
  BY <1>4, AppKeeps
<1>5. CASE Accept
  BY <1>1, <1>2, <1>5, StateKeeps DEF Accept, appVars
<1>6. CASE Recv
  BY <1>6, RecvKeeps
<1>7. CASE HangUp
  BY <1>7, HangUpKeeps
<1>8. CASE Stop
  BY <1>8, StopKeeps
<1>9. CASE Restart
  <2>1. restarts' = restarts + 1 /\ restarts' \in Nat /\ restarts' # 0
    BY <1>1, <1>9 DEF Restart
  <2> QED
    BY <1>1, <1>2, <1>9, <2>1, StateKeeps DEF Restart, appVars
<1>10. ASSUME NEW v \in Viewers, Connect(v) PROVE ConInv'
  <2>1. PICK s : s = IF gJsonNotice = None THEN <<>> ELSE <<gJsonNotice>>
    OBVIOUS
  <2>2. out' = [out EXCEPT ![v] = s]
    BY <1>10, <2>1 DEF Connect
  <2> QED
    BY <1>10, <2>1, <2>2, ViewerKeeps DEF Connect
<1>11. ASSUME NEW v \in Viewers, Disconnect(v) PROVE ConInv'
  BY <1>11, ViewerKeeps DEF Disconnect
<1>12. ASSUME NEW v \in Viewers, ViewerTalks(v) PROVE ConInv'
  BY <1>1, <1>2, <1>12, StateKeeps DEF ViewerTalks, appVars
<1>13. CASE RecvFails
  BY <1>13, RecvFailsKeeps
<1> QED
  BY <1>3, <1>4, <1>5, <1>6, <1>7, <1>8, <1>9, <1>10, <1>11, <1>12, <1>13 DEF ConsoleNext, ServerStep

\* What waits in the lanes waits in the content or in a connection.
LEMMA LinesShow ==
  ASSUME ConInv
  PROVE  LogcatSound
<1>1. /\ ConsoleKinds /\ conns \in Seq(Connection) /\ jsonContent \in Seq(Packet)
      /\ Len(conns) \in Nat /\ DOMAIN conns = 1..Len(conns)
      /\ Len(Line) = IF conns = <<>> THEN 1 ELSE Len(conns)
      /\ Line[1] = IF conns = <<>> THEN jsonContent ELSE jsonContent \o conns[1].data
      /\ \A i \in 2..Len(conns) : Line[i] = conns[i].data
      /\ \A i \in 1..Len(conns) : conns[i].data \in Seq(Packet)
      /\ conns = <<>> <=> Len(conns) = 0
  <2>1. ConsoleKinds /\ conns \in Seq(Connection) /\ jsonContent \in Seq(Packet)
    BY DEF ConInv, ConsoleKinds
  <2>2. /\ Len(Line) = IF conns = <<>> THEN 1 ELSE Len(conns)
        /\ Line[1] = IF conns = <<>> THEN jsonContent ELSE jsonContent \o conns[1].data
        /\ \A i \in 2..Len(conns) : Line[i] = conns[i].data
    BY <2>1, LanesAre DEF Line
  <2> QED
    BY <2>1, <2>2, LineIs, LenProperties
<1>2. ASSUME NEW u \in Waiting(Line)
      PROVE  u \in Range(jsonContent) \/ \E i \in 1..Len(conns) : u \in Range(conns[i].data)
  <2>1. PICK i \in 1..Len(Line) : \E p \in 1..Len(Line[i]) : Line[i][p] = u
    BY DEF Waiting
  <2>2. PICK p \in 1..Len(Line[i]) : Line[i][p] = u
    BY <2>1
  <2>3. CASE i # 1
    <3>1. i \in 2..Len(conns) /\ i \in 1..Len(conns) /\ Line[i] = conns[i].data
      BY <1>1, <2>3
    <3>2. u \in Range(conns[i].data)
      BY <1>1, <2>2, <3>1, RangeEquality
    <3> QED
      BY <3>1, <3>2
  <2>4. CASE i = 1 /\ conns = <<>>
    <3>1. Line[1] = jsonContent
      BY <1>1, <2>4
    <3> QED
      BY <1>1, <2>2, <2>4, <3>1, RangeEquality
  <2>5. CASE i = 1 /\ conns # <<>>
    <3>1. PICK d : d = conns[1].data
      OBVIOUS
    <3>2. 1 \in 1..Len(conns) /\ d \in Seq(Packet) /\ Line[1] = jsonContent \o d
      BY <1>1, <2>5, <3>1
    <3>3. jsonContent \o d \in Seq(Packet)
      BY <1>1, <3>2, ConcatProperties
    <3>4. u \in Range(jsonContent \o d)
      BY <2>2, <2>5, <3>2, <3>3, RangeEquality
    <3>5. u \in Range(jsonContent) \cup Range(d)
      BY <1>1, <3>2, <3>4, RangeConcatenation
    <3> QED
      BY <3>1, <3>2, <3>5
  <2> QED
    BY <2>3, <2>4, <2>5
<1>3. AcceptedKept
  <2> SUFFICES ASSUME ~ torn, restarts = 0, server # "down", NEW m \in accepted, m \notin forwarded
               PROVE  \/ m \in {u.msg : u \in ToSet(jsonContent)}
                      \/ \E i \in DOMAIN conns : m \in {u.msg : u \in ToSet(conns[i].data)}
    BY DEF AcceptedKept
  <2>1. PICK u \in Waiting(Line) : u.msg = m
    BY DEF ConInv, StillThere
  <2>2. \A s \in Seq(Packet) : ToSet(s) = Range(s)
    BY LenProperties, RangeEquality DEF ToSet
  <2> QED
    BY <1>1, <1>2, <2>1, <2>2
<1>4. NoticeFirst
  BY DEF NoticeFirst, ConInv, NoticeShown
<1> QED
  BY <1>3, <1>4 DEF ConInv, LogcatSound

\* Theorem: what waits between the applications and the viewers is in order, behind
\* what was shown, and complete as long as no stream was torn, spoilt or lost.
THEOREM ConsoleIInv == ASSUME ConsoleAssumption PROVE ConsoleSpec => []ConInv
<1>1. ConsoleInit => ConInv
  BY ConsoleStarts
<1>2. ConInv /\ [ConsoleNext]_consoleVars => ConInv'
  BY ConsoleSteps
<1> QED
  BY <1>1, <1>2, PTL DEF ConsoleSpec

\* Theorem: for any number of applications and viewers and any sizes of the sockets and
\* of a read, viewers get what the applications said, in order and explained
\* (LogConsole!LogcatSound).
THEOREM LogcatIsSound == ASSUME ConsoleAssumption PROVE ConsoleSpec => []LogcatSound
<1>1. ConInv => LogcatSound
  BY LinesShow
<1> QED
  BY <1>1, ConsoleIInv, PTL

-----------------------------------------------------------------------------
InFlight == {w \in Writers : pc[w] = "write"}

Kinds == /\ second \in 0..MaxSecond
         /\ mFileDesc \in Fds \cup {-1, 0}
         /\ mFileSize \in Nat
         /\ size \in [Files -> Nat]

Tables == /\ forked \in BOOLEAN /\ rotated \in BOOLEAN /\ openFailed \in BOOLEAN
          /\ table \in [Procs -> [Fds -> Files \cup {Closed, Foreign}]]
          /\ sharers \in SUBSET Procs

\* A writer between its two sections has a message left to write.
Sending == /\ pc \in [Writers -> {"idle", "write"}]
           /\ sent \in [Writers -> 0..MaxMessages]
           /\ \A w \in InFlight : sent[w] < MaxMessages
           /\ lost \in SUBSET Messages

\* There is one file: it is empty until it is opened, and until a rotation its
\* size is counted, and passes the limit by no more than the writers that have
\* been through the test.
EmptyAtFirst == mFileDesc <= 0 => \A f \in Files : size[f] = 0
SizeCounts == ~ rotated => \A f \in Files : size[f] <= mFileSize
LimitKept == ~ rotated =>
    mFileSize + Cardinality(InFlight) <= MAX_FILE_SIZE + Cardinality(Writers)
Sizes == EmptyAtFirst /\ SizeCounts /\ LimitKept

\* Until a failure the number is that of the file in each process that has
\* opened or inherited it, and nobody writes without one.
Shared == ~ openFailed => \A w \in InFlight : mFileDesc \in Fds
FileThere == ~ rotated /\ mFileDesc \in Fds => \A p \in sharers : table[p][mFileDesc] \in Files
NoneYet == /\ mFileDesc <= 0 /\ ~ openFailed => lost = {}
           /\ mFileDesc <= 0 => sharers = {}
           /\ ~ forked => /\ pc[Child] = "idle" /\ "child" \notin sharers
                          /\ \A m \in lost : m[1] # Child

IInv == Kinds /\ Tables /\ Sending /\ Sizes /\ Shared /\ FileThere /\ NoneYet /\ LostOnlyAfterFailure

-----------------------------------------------------------------------------
\* open() returns a free number.
LEMMA LowestFreeIsFree ==
  ASSUME NEW t, HasFree(t)
  PROVE  LowestFree(t) \in Fds /\ t[LowestFree(t)] = Closed
<1>1. \E d \in Fds : t[d] = Closed /\ \A e \in Fds : t[e] = Closed => d <= e
  <2>1. Fds = {3, 4, 5}
    BY DEF Fds
  <2> QED
    BY <2>1 DEF HasFree
<1> QED
  BY <1>1 DEF LowestFree

\* There are finitely many writers, as many in flight at most.
LEMMA WritersFinite ==
  /\ MAX_FILE_SIZE \in Nat
  /\ IsFiniteSet(Writers) /\ Cardinality(Writers) \in Nat
  /\ IsFiniteSet(InFlight) /\ Cardinality(InFlight) \in Nat
<1>1. IsFiniteSet(Writers)
  BY FileLogAssumption, FS_AddElement DEF Writers
<1>2. InFlight \subseteq Writers
  BY DEF InFlight
<1>3. IsFiniteSet(InFlight)
  BY <1>1, <1>2, FS_Subset
<1> QED
  BY <1>1, <1>3, FS_CardinalityType, FileLogAssumption

\* A writer enters the gap between its sections ...
LEMMA OneEnters ==
  ASSUME Sending, NEW w \in Writers, Enter(w)
  PROVE  /\ InFlight' = InFlight \cup {w}
         /\ Cardinality(InFlight') <= Cardinality(Writers)
         /\ Cardinality(InFlight') = Cardinality(InFlight) + 1
<1>1. pc' = [pc EXCEPT ![w] = "write"] /\ pc[w] = "idle"
  BY DEF Enter
<1>2. InFlight' = InFlight \cup {w} /\ w \notin InFlight
  BY <1>1 DEF InFlight, Sending
<1>3. InFlight' \subseteq Writers
  BY DEF InFlight
<1>4. Cardinality(InFlight') <= Cardinality(Writers)
  BY <1>3, WritersFinite, FS_Subset
<1> QED
  BY <1>2, <1>4, WritersFinite, FS_AddElement

\* ... and leaves it.
LEMMA OneLeaves ==
  ASSUME Sending, NEW w \in Writers, WriteStep(w)
  PROVE  /\ w \in InFlight /\ InFlight' = InFlight \ {w}
         /\ Cardinality(InFlight') = Cardinality(InFlight) - 1
<1>1. pc' = [pc EXCEPT ![w] = "idle"] /\ pc[w] = "write"
  BY DEF WriteStep
<1>2. InFlight' = InFlight \ {w} /\ w \in InFlight
  BY <1>1 DEF InFlight, Sending
<1> QED
  BY <1>2, WritersFinite, FS_RemoveElement

\* Nobody enters or leaves it in the other steps.
LEMMA NoneMoves ==
  ASSUME pc' = pc
  PROVE  InFlight' = InFlight
  BY DEF InFlight

-----------------------------------------------------------------------------
\* The parts hold at the start.
LEMMA InitIInv == ASSUME Init PROVE IInv
<1>1. InFlight = {}
  BY DEF Init, InFlight
<1>2. Cardinality(InFlight) = 0
  BY <1>1, FS_EmptySet
<1>3. Kinds
  BY FileLogAssumption DEF Init, Kinds, Files
<1>4. Tables
  BY DEF Init, Tables
<1>5. Sending
  BY <1>1, FileLogAssumption DEF Init, Sending
<1>6. Sizes
  BY <1>2, WritersFinite, FileLogAssumption DEF Init, Sizes, EmptyAtFirst, SizeCounts, LimitKept
<1>7. Shared /\ FileThere
  BY <1>1 DEF Init, Shared, FileThere, Fds
<1>8. NoneYet /\ LostOnlyAfterFailure
  BY DEF Init, NoneYet, LostOnlyAfterFailure, Writers
<1> QED
  BY <1>3, <1>4, <1>5, <1>6, <1>7, <1>8 DEF IInv

\* Each section leaves the shared words and the sizes in their ranges.
LEMMA NextKinds == ASSUME IInv, [Next]_vars PROVE Kinds'
<1> USE DEF IInv, Kinds, Tables, Fds, history
<1>1. ASSUME NEW w \in Writers, MaintainNothing(w) PROVE Kinds'
  BY <1>1 DEF MaintainNothing, Enter, Due
<1>2. ASSUME NEW w \in Writers, MaintainOpen(w) PROVE Kinds'
  BY <1>2, LowestFreeIsFree DEF MaintainOpen, Enter, ProcOf, Procs
<1>3. ASSUME NEW w \in Writers, MaintainOpenFails(w) PROVE Kinds'
  BY <1>3 DEF MaintainOpenFails, Enter
<1>4. ASSUME NEW w \in Writers, MaintainFull(w) PROVE Kinds'
  BY <1>4 DEF MaintainFull, Enter, ProcOf, Procs
<1>5. ASSUME NEW w \in Writers, WriteLogFile(w) PROVE Kinds'
  BY <1>5 DEF WriteLogFile, WriteStep, ProcOf, Procs
<1>6. ASSUME NEW w \in Writers, WriteForeign(w) PROVE Kinds'
  BY <1>6 DEF WriteForeign, WriteStep
<1>7. ASSUME NEW w \in Writers, WriteBadFd(w) PROVE Kinds'
  BY <1>7 DEF WriteBadFd, WriteStep
<1>8. ASSUME NEW p \in Procs, ForeignOpen(p) PROVE Kinds'
  BY <1>8, LowestFreeIsFree DEF ForeignOpen
<1>9. CASE Fork
  BY <1>9 DEF Fork, Procs
<1>10. CASE Tick
  BY <1>10, FileLogAssumption DEF Tick
<1>11. CASE UNCHANGED vars
  BY <1>11 DEF vars
<1> QED
  BY <1>1, <1>2, <1>3, <1>4, <1>5, <1>6, <1>7, <1>8, <1>9, <1>10, <1>11
     DEF Next, WriteToFile

\* Each process's table keeps files, foreign numbers or nothing.
LEMMA NextTables == ASSUME IInv, [Next]_vars PROVE Tables'
<1> USE DEF IInv, Kinds, Tables, Files, history
<1>1. ASSUME NEW w \in Writers, MaintainNothing(w) PROVE Tables'
  BY <1>1 DEF MaintainNothing, Enter, Due
<1>2. ASSUME NEW w \in Writers, MaintainOpen(w) PROVE Tables'
  BY <1>2, LowestFreeIsFree DEF MaintainOpen, Enter, ProcOf, Procs
<1>3. ASSUME NEW w \in Writers, MaintainOpenFails(w) PROVE Tables'
  BY <1>3 DEF MaintainOpenFails, Enter
<1>4. ASSUME NEW w \in Writers, MaintainFull(w) PROVE Tables'
  BY <1>4 DEF MaintainFull, Enter, ProcOf, Procs
<1>5. ASSUME NEW w \in Writers, WriteLogFile(w) PROVE Tables'
  BY <1>5 DEF WriteLogFile, WriteStep, ProcOf, Procs
<1>6. ASSUME NEW w \in Writers, WriteForeign(w) PROVE Tables'
  BY <1>6 DEF WriteForeign, WriteStep
<1>7. ASSUME NEW w \in Writers, WriteBadFd(w) PROVE Tables'
  BY <1>7 DEF WriteBadFd, WriteStep
<1>8. ASSUME NEW p \in Procs, ForeignOpen(p) PROVE Tables'
  BY <1>8, LowestFreeIsFree DEF ForeignOpen
<1>9. CASE Fork
  BY <1>9 DEF Fork, Procs
<1>10. CASE Tick
  BY <1>10 DEF Tick
<1>11. CASE UNCHANGED vars
  BY <1>11 DEF vars
<1> QED
  BY <1>1, <1>2, <1>3, <1>4, <1>5, <1>6, <1>7, <1>8, <1>9, <1>10, <1>11
     DEF Next, WriteToFile

\* A message is on its way from the first section to the second.
LEMMA NextSending == ASSUME IInv, [Next]_vars PROVE Sending'
<1> USE DEF IInv, Sending, InFlight, Messages, history
<1>1. ASSUME NEW w \in Writers, MaintainNothing(w) PROVE Sending'
  BY <1>1, OneEnters, FileLogAssumption DEF MaintainNothing, Enter, Due
<1>2. ASSUME NEW w \in Writers, MaintainOpen(w) PROVE Sending'
  BY <1>2, LowestFreeIsFree, OneEnters, FileLogAssumption DEF MaintainOpen, Enter, ProcOf, Procs
<1>3. ASSUME NEW w \in Writers, MaintainOpenFails(w) PROVE Sending'
  BY <1>3, OneEnters, FileLogAssumption DEF MaintainOpenFails, Enter
<1>4. ASSUME NEW w \in Writers, MaintainFull(w) PROVE Sending'
  BY <1>4, OneEnters, FileLogAssumption DEF MaintainFull, Enter, ProcOf, Procs
<1>5. ASSUME NEW w \in Writers, WriteLogFile(w) PROVE Sending'
  BY <1>5, OneLeaves, FileLogAssumption DEF WriteLogFile, WriteStep, ProcOf, Procs
<1>6. ASSUME NEW w \in Writers, WriteForeign(w) PROVE Sending'
  BY <1>6, OneLeaves, FileLogAssumption DEF WriteForeign, WriteStep
<1>7. ASSUME NEW w \in Writers, WriteBadFd(w) PROVE Sending'
  BY <1>7, OneLeaves, FileLogAssumption DEF WriteBadFd, WriteStep
<1>8. ASSUME NEW p \in Procs, ForeignOpen(p) PROVE Sending'
  BY <1>8, LowestFreeIsFree DEF ForeignOpen
<1>9. CASE Fork
  BY <1>9 DEF Fork, Procs
<1>10. CASE Tick
  BY <1>10 DEF Tick
<1>11. CASE UNCHANGED vars
  BY <1>11 DEF vars
<1> QED
  BY <1>1, <1>2, <1>3, <1>4, <1>5, <1>6, <1>7, <1>8, <1>9, <1>10, <1>11
     DEF Next, WriteToFile

\* Before there is a number nothing is written.
LEMMA NextEmpty == ASSUME IInv, [Next]_vars PROVE EmptyAtFirst'
<1> USE DEF IInv, Kinds, Sizes, EmptyAtFirst, Fds, Files, Closed, Foreign, Targets, history
<1>1. ASSUME NEW w \in Writers, MaintainNothing(w) PROVE EmptyAtFirst'
  BY <1>1 DEF MaintainNothing, Enter, Due
<1>2. ASSUME NEW w \in Writers, MaintainOpen(w) PROVE EmptyAtFirst'
  BY <1>2, LowestFreeIsFree DEF MaintainOpen, Enter, ProcOf, Procs
<1>3. ASSUME NEW w \in Writers, MaintainOpenFails(w) PROVE EmptyAtFirst'
  BY <1>3 DEF MaintainOpenFails, Enter
<1>4. ASSUME NEW w \in Writers, MaintainFull(w) PROVE EmptyAtFirst'
  BY <1>4 DEF MaintainFull, Enter, ProcOf, Procs
<1>5. ASSUME NEW w \in Writers, WriteLogFile(w) PROVE EmptyAtFirst'
  BY <1>5 DEF WriteLogFile, WriteStep, ProcOf, Procs
<1>6. ASSUME NEW w \in Writers, WriteForeign(w) PROVE EmptyAtFirst'
  BY <1>6 DEF WriteForeign, WriteStep
<1>7. ASSUME NEW w \in Writers, WriteBadFd(w) PROVE EmptyAtFirst'
  BY <1>7 DEF WriteBadFd, WriteStep
<1>8. ASSUME NEW p \in Procs, ForeignOpen(p) PROVE EmptyAtFirst'
  BY <1>8, LowestFreeIsFree DEF ForeignOpen
<1>9. CASE Fork
  BY <1>9 DEF Fork, Procs
<1>10. CASE Tick
  BY <1>10 DEF Tick
<1>11. CASE UNCHANGED vars
  BY <1>11 DEF vars
<1> QED
  BY <1>1, <1>2, <1>3, <1>4, <1>5, <1>6, <1>7, <1>8, <1>9, <1>10, <1>11
     DEF Next, WriteToFile

\* What is written to the file is added to the size.
LEMMA NextCounts == ASSUME IInv, [Next]_vars PROVE SizeCounts'
<1> USE DEF IInv, Kinds, Tables, EmptyAtFirst, SizeCounts, Sizes, history
<1>1. ASSUME NEW w \in Writers, MaintainNothing(w) PROVE SizeCounts'
  BY <1>1 DEF MaintainNothing, Enter, Due
<1>2. ASSUME NEW w \in Writers, MaintainOpen(w) PROVE SizeCounts'
  BY <1>2, LowestFreeIsFree DEF MaintainOpen, Enter, ProcOf, Procs
<1>3. ASSUME NEW w \in Writers, MaintainOpenFails(w) PROVE SizeCounts'
  BY <1>3 DEF MaintainOpenFails, Enter
<1>4. ASSUME NEW w \in Writers, MaintainFull(w) PROVE SizeCounts'
  BY <1>4 DEF MaintainFull, Enter, ProcOf, Procs
<1>5. ASSUME NEW w \in Writers, WriteLogFile(w) PROVE SizeCounts'
  BY <1>5 DEF WriteLogFile, WriteStep, ProcOf, Procs
<1>6. ASSUME NEW w \in Writers, WriteForeign(w) PROVE SizeCounts'
  BY <1>6 DEF WriteForeign, WriteStep
<1>7. ASSUME NEW w \in Writers, WriteBadFd(w) PROVE SizeCounts'
  BY <1>7 DEF WriteBadFd, WriteStep
<1>8. ASSUME NEW p \in Procs, ForeignOpen(p) PROVE SizeCounts'
  BY <1>8, LowestFreeIsFree DEF ForeignOpen
<1>9. CASE Fork
  BY <1>9 DEF Fork, Procs
<1>10. CASE Tick
  BY <1>10 DEF Tick
<1>11. CASE UNCHANGED vars
  BY <1>11 DEF vars
<1> QED
  BY <1>1, <1>2, <1>3, <1>4, <1>5, <1>6, <1>7, <1>8, <1>9, <1>10, <1>11
     DEF Next, WriteToFile

\* Who goes from the test to the write has found the size within the limit.
LEMMA NextLimit == ASSUME IInv, [Next]_vars PROVE LimitKept'
<1> USE DEF IInv, Kinds, Tables, Sending, LimitKept, Sizes, history
<1>1. ASSUME NEW w \in Writers, MaintainNothing(w) PROVE LimitKept'
  <2>1. /\ Cardinality(InFlight') <= Cardinality(Writers)
        /\ Cardinality(InFlight') = Cardinality(InFlight) + 1
    BY <1>1, OneEnters DEF MaintainNothing, Due
  <2>2. mFileSize' \in Nat /\ (rotated' \/ mFileSize' <= MAX_FILE_SIZE)
    BY <1>1, WritersFinite DEF MaintainNothing, Due, Enter
  <2> QED
    BY <2>1, <2>2, WritersFinite
<1>2. ASSUME NEW w \in Writers, MaintainOpen(w) PROVE LimitKept'
  <2>1. /\ Cardinality(InFlight') <= Cardinality(Writers)
        /\ Cardinality(InFlight') = Cardinality(InFlight) + 1
    BY <1>2, OneEnters DEF MaintainOpen
  <2>2. mFileSize' \in Nat /\ (rotated' \/ mFileSize' <= MAX_FILE_SIZE)
    BY <1>2, WritersFinite DEF MaintainOpen, Enter
  <2> QED
    BY <2>1, <2>2, WritersFinite
<1>3. ASSUME NEW w \in Writers, MaintainOpenFails(w) PROVE LimitKept'
  <2>1. /\ Cardinality(InFlight') <= Cardinality(Writers)
        /\ Cardinality(InFlight') = Cardinality(InFlight) + 1
    BY <1>3, OneEnters DEF MaintainOpenFails
  <2>2. mFileSize' \in Nat /\ (rotated' \/ mFileSize' <= MAX_FILE_SIZE)
    BY <1>3, WritersFinite DEF MaintainOpenFails, Enter
  <2> QED
    BY <2>1, <2>2, WritersFinite
<1>4. ASSUME NEW w \in Writers, MaintainFull(w) PROVE LimitKept'
  <2>1. /\ Cardinality(InFlight') <= Cardinality(Writers)
        /\ Cardinality(InFlight') = Cardinality(InFlight) + 1
    BY <1>4, OneEnters DEF MaintainFull
  <2>2. mFileSize' \in Nat /\ (rotated' \/ mFileSize' <= MAX_FILE_SIZE)
    BY <1>4, WritersFinite DEF MaintainFull
  <2> QED
    BY <2>1, <2>2, WritersFinite
<1>5. ASSUME NEW w \in Writers, WriteLogFile(w) PROVE LimitKept'
  <2>1. Cardinality(InFlight') = Cardinality(InFlight) - 1
    BY <1>5, OneLeaves DEF WriteLogFile
  <2>2. mFileSize' \in Nat /\ mFileSize' <= mFileSize + 1 /\ rotated' = rotated
    BY <1>5 DEF WriteLogFile, WriteStep
  <2> QED
    BY <2>1, <2>2, WritersFinite
<1>6. ASSUME NEW w \in Writers, WriteForeign(w) PROVE LimitKept'
  <2>1. Cardinality(InFlight') = Cardinality(InFlight) - 1
    BY <1>6, OneLeaves DEF WriteForeign
  <2>2. mFileSize' \in Nat /\ mFileSize' <= mFileSize + 1 /\ rotated' = rotated
    BY <1>6 DEF WriteForeign, WriteStep
  <2> QED
    BY <2>1, <2>2, WritersFinite
<1>7. ASSUME NEW w \in Writers, WriteBadFd(w) PROVE LimitKept'
  <2>1. Cardinality(InFlight') = Cardinality(InFlight) - 1
    BY <1>7, OneLeaves DEF WriteBadFd
  <2>2. mFileSize' \in Nat /\ mFileSize' <= mFileSize + 1 /\ rotated' = rotated
    BY <1>7 DEF WriteBadFd, WriteStep
  <2> QED
    BY <2>1, <2>2, WritersFinite
<1>8. ASSUME NEW p \in Procs, ForeignOpen(p) PROVE LimitKept'
  BY <1>8, LowestFreeIsFree, NoneMoves DEF ForeignOpen
<1>9. CASE Fork
  BY <1>9, NoneMoves DEF Fork, Procs
<1>10. CASE Tick
  BY <1>10, NoneMoves DEF Tick
<1>11. CASE UNCHANGED vars
  BY <1>11 DEF vars, InFlight
<1> QED
  BY <1>1, <1>2, <1>3, <1>4, <1>5, <1>6, <1>7, <1>8, <1>9, <1>10, <1>11
     DEF Next, WriteToFile

\* Without a failure a writer on its way has a number.
LEMMA NextShared == ASSUME IInv, [Next]_vars PROVE Shared'
<1> USE DEF IInv, Kinds, Tables, Sending, Shared, Due, history
<1>1. ASSUME NEW w \in Writers, MaintainNothing(w) PROVE Shared'
  BY <1>1, OneEnters DEF MaintainNothing, Enter, Due
<1>2. ASSUME NEW w \in Writers, MaintainOpen(w) PROVE Shared'
  BY <1>2, LowestFreeIsFree, OneEnters DEF MaintainOpen, Enter, ProcOf, Procs
<1>3. ASSUME NEW w \in Writers, MaintainOpenFails(w) PROVE Shared'
  BY <1>3, OneEnters DEF MaintainOpenFails, Enter
<1>4. ASSUME NEW w \in Writers, MaintainFull(w) PROVE Shared'
  BY <1>4, OneEnters DEF MaintainFull, Enter, ProcOf, Procs
<1>5. ASSUME NEW w \in Writers, WriteLogFile(w) PROVE Shared'
  BY <1>5, OneLeaves DEF WriteLogFile, WriteStep, ProcOf, Procs
<1>6. ASSUME NEW w \in Writers, WriteForeign(w) PROVE Shared'
  BY <1>6, OneLeaves DEF WriteForeign, WriteStep
<1>7. ASSUME NEW w \in Writers, WriteBadFd(w) PROVE Shared'
  BY <1>7, OneLeaves DEF WriteBadFd, WriteStep
<1>8. ASSUME NEW p \in Procs, ForeignOpen(p) PROVE Shared'
  BY <1>8, LowestFreeIsFree, NoneMoves DEF ForeignOpen
<1>9. CASE Fork
  BY <1>9, NoneMoves DEF Fork, Procs
<1>10. CASE Tick
  BY <1>10, NoneMoves DEF Tick
<1>11. CASE UNCHANGED vars
  BY <1>11 DEF vars, InFlight
<1> QED
  BY <1>1, <1>2, <1>3, <1>4, <1>5, <1>6, <1>7, <1>8, <1>9, <1>10, <1>11
     DEF Next, WriteToFile

\* Only the rotation closes the number.
LEMMA NextThere == ASSUME IInv, [Next]_vars PROVE FileThere'
<1> USE DEF IInv, Kinds, Tables, FileThere, NoneYet, Fds, Closed, Foreign, Files, history
<1>1. ASSUME NEW w \in Writers, MaintainNothing(w) PROVE FileThere'
  BY <1>1 DEF MaintainNothing, Enter, Due
<1>2. ASSUME NEW w \in Writers, MaintainOpen(w) PROVE FileThere'
  BY <1>2, LowestFreeIsFree DEF MaintainOpen, Enter, ProcOf, Procs
<1>3. ASSUME NEW w \in Writers, MaintainOpenFails(w) PROVE FileThere'
  BY <1>3 DEF MaintainOpenFails, Enter
<1>4. ASSUME NEW w \in Writers, MaintainFull(w) PROVE FileThere'
  BY <1>4 DEF MaintainFull, Enter, ProcOf, Procs
<1>5. ASSUME NEW w \in Writers, WriteLogFile(w) PROVE FileThere'
  BY <1>5 DEF WriteLogFile, WriteStep, ProcOf, Procs
<1>6. ASSUME NEW w \in Writers, WriteForeign(w) PROVE FileThere'
  BY <1>6 DEF WriteForeign, WriteStep
<1>7. ASSUME NEW w \in Writers, WriteBadFd(w) PROVE FileThere'
  BY <1>7 DEF WriteBadFd, WriteStep
<1>8. ASSUME NEW p \in Procs, ForeignOpen(p) PROVE FileThere'
  BY <1>8, LowestFreeIsFree DEF ForeignOpen
<1>9. CASE Fork
  <2>1. CASE "parent" \in sharers
    BY <1>9, <2>1 DEF Fork, Procs
  <2>2. CASE "parent" \notin sharers
    <3>1. sharers = {} /\ sharers' = {}
      BY <1>9, <2>2 DEF Fork, Procs
    <3> QED
      BY <3>1
  <2> QED
    BY <2>1, <2>2
<1>10. CASE Tick
  BY <1>10 DEF Tick
<1>11. CASE UNCHANGED vars
  BY <1>11 DEF vars
<1> QED
  BY <1>1, <1>2, <1>3, <1>4, <1>5, <1>6, <1>7, <1>8, <1>9, <1>10, <1>11
     DEF Next, WriteToFile

\* Nothing is lost before there is a number, nor by a child that is not there.
LEMMA NextNone == ASSUME IInv, [Next]_vars PROVE NoneYet'
<1> USE DEF IInv, Kinds, Tables, ProcOf, Procs, Sending, Shared, NoneYet, Writers, Fds, history
<1>1. ASSUME NEW w \in Writers, MaintainNothing(w) PROVE NoneYet'
  BY <1>1, OneEnters DEF MaintainNothing, Enter, Due
<1>2. ASSUME NEW w \in Writers, MaintainOpen(w) PROVE NoneYet'
  BY <1>2, LowestFreeIsFree, OneEnters DEF MaintainOpen, Enter, ProcOf, Procs
<1>3. ASSUME NEW w \in Writers, MaintainOpenFails(w) PROVE NoneYet'
  BY <1>3, OneEnters DEF MaintainOpenFails, Enter
<1>4. ASSUME NEW w \in Writers, MaintainFull(w) PROVE NoneYet'
  BY <1>4, OneEnters DEF MaintainFull, Enter, ProcOf, Procs
<1>5. ASSUME NEW w \in Writers, WriteLogFile(w) PROVE NoneYet'
  BY <1>5, OneLeaves DEF WriteLogFile, WriteStep, ProcOf, Procs
<1>6. ASSUME NEW w \in Writers, WriteForeign(w) PROVE NoneYet'
  <2>1. w \in InFlight /\ (mFileDesc <= 0 => openFailed)
    BY <1>6, OneLeaves DEF WriteForeign
  <2>2. w = Child => forked
    BY <2>1 DEF InFlight
  <2>3. lost' = lost \cup {<<w, sent[w] + 1>>} /\ (w # Child => pc'[Child] = pc[Child])
        /\ UNCHANGED <<mFileDesc, openFailed, sharers, forked>>
    BY <1>6 DEF WriteForeign, WriteStep
  <2> QED
    BY <2>1, <2>2, <2>3
<1>7. ASSUME NEW w \in Writers, WriteBadFd(w) PROVE NoneYet'
  <2>1. w \in InFlight /\ (mFileDesc <= 0 => openFailed)
    BY <1>7, OneLeaves DEF WriteBadFd
  <2>2. w = Child => forked
    BY <2>1 DEF InFlight
  <2>3. lost' = lost \cup {<<w, sent[w] + 1>>} /\ (w # Child => pc'[Child] = pc[Child])
        /\ UNCHANGED <<mFileDesc, openFailed, sharers, forked>>
    BY <1>7 DEF WriteBadFd, WriteStep
  <2> QED
    BY <2>1, <2>2, <2>3
<1>8. ASSUME NEW p \in Procs, ForeignOpen(p) PROVE NoneYet'
  BY <1>8, LowestFreeIsFree DEF ForeignOpen
<1>9. CASE Fork
  BY <1>9 DEF Fork, Procs
<1>10. CASE Tick
  BY <1>10 DEF Tick
<1>11. CASE UNCHANGED vars
  BY <1>11 DEF vars
<1> QED
  BY <1>1, <1>2, <1>3, <1>4, <1>5, <1>6, <1>7, <1>8, <1>9, <1>10, <1>11
     DEF Next, WriteToFile

\* A write goes elsewhere only where the number is not that of the file.
LEMMA NextLost == ASSUME IInv, [Next]_vars PROVE LostOnlyAfterFailure'
<1> USE DEF IInv, Kinds, Tables, Sending, Shared, FileThere, NoneYet, LostOnlyAfterFailure,
        ProcOf, Procs, Files, Closed, Foreign, Targets, history
<1>1. ASSUME NEW w \in Writers, MaintainNothing(w) PROVE LostOnlyAfterFailure'
  BY <1>1, OneEnters DEF MaintainNothing, Enter, Due
<1>2. ASSUME NEW w \in Writers, MaintainOpen(w) PROVE LostOnlyAfterFailure'
  BY <1>2, LowestFreeIsFree, OneEnters DEF MaintainOpen, Enter, ProcOf, Procs
<1>3. ASSUME NEW w \in Writers, MaintainOpenFails(w) PROVE LostOnlyAfterFailure'
  BY <1>3, OneEnters DEF MaintainOpenFails, Enter
<1>4. ASSUME NEW w \in Writers, MaintainFull(w) PROVE LostOnlyAfterFailure'
  BY <1>4, OneEnters DEF MaintainFull, Enter, ProcOf, Procs
<1>5. ASSUME NEW w \in Writers, WriteLogFile(w) PROVE LostOnlyAfterFailure'
  BY <1>5, OneLeaves DEF WriteLogFile, WriteStep, ProcOf, Procs
<1>6. ASSUME NEW w \in Writers, WriteForeign(w) PROVE LostOnlyAfterFailure'
  BY <1>6, OneLeaves DEF WriteForeign, WriteStep
<1>7. ASSUME NEW w \in Writers, WriteBadFd(w) PROVE LostOnlyAfterFailure'
  BY <1>7, OneLeaves DEF WriteBadFd, WriteStep
<1>8. ASSUME NEW p \in Procs, ForeignOpen(p) PROVE LostOnlyAfterFailure'
  BY <1>8, LowestFreeIsFree DEF ForeignOpen
<1>9. CASE Fork
  BY <1>9 DEF Fork, Procs
<1>10. CASE Tick
  BY <1>10 DEF Tick
<1>11. CASE UNCHANGED vars
  BY <1>11 DEF vars
<1> QED
  BY <1>1, <1>2, <1>3, <1>4, <1>5, <1>6, <1>7, <1>8, <1>9, <1>10, <1>11
     DEF Next, WriteToFile

\* No step breaks any part.
LEMMA NextIInv == ASSUME IInv, [Next]_vars PROVE IInv'
  BY NextKinds, NextTables, NextSending, NextEmpty, NextCounts, NextLimit, NextShared, NextThere,
     NextNone, NextLost DEF IInv, Sizes

\* The inductive invariant of the log file.
THEOREM FileLogIInv == Spec => []IInv
  BY InitIInv, NextIInv, PTL DEF Spec

\* The type invariant.
THEOREM FileLogType == Spec => []TypeOK
<1>1. IInv => TypeOK
  BY DEF IInv, Kinds, Tables, Sending, TypeOK
<1> QED
  BY <1>1, FileLogIInv, PTL

\* The file outgrows its limit by a message of each writer, until the first rotation.
THEOREM FileLogBounded == Spec => []FileBounded
<1>1. IInv => FileBounded
  <2> SUFFICES ASSUME IInv, ~ rotated, NEW f \in Files
               PROVE  size[f] <= MAX_FILE_SIZE + Cardinality(Writers)
    BY DEF FileBounded
  <2>1. size[f] \in Nat /\ mFileSize \in Nat
    BY DEF IInv, Kinds
  <2> QED
    BY <2>1, WritersFinite, FileLogAssumption DEF IInv, Sizes, SizeCounts, LimitKept
<1> QED
  BY <1>1, FileLogIInv, PTL

\* A message is lost by a failed open(), a rotation, or in a process that the
\* number does not belong to.
THEOREM FileLogLost == Spec => []LostOnlyAfterFailure
<1>1. IInv => LostOnlyAfterFailure
  BY DEF IInv
<1> QED
  BY <1>1, FileLogIInv, PTL

\* The log file keeps the messages and its limit, until something failed or rotated.
THEOREM FileLogIsSafe == Spec => []FileLogSafe
  BY FileLogType, FileLogBounded, FileLogLost, PTL DEF FileLogSafe
=============================================================================
