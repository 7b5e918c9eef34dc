---------------------------- MODULE RedisClient ----------------------------
(***************************************************************************)
(* RedisInterface of sqlutils/redis.cpp with the server it talks to.  Every *)
(* operation has the same shape: no context, no call; else one command      *)
(* (listDeleteAll has two), whose reply may be missing because the          *)
(* connection broke, is an error, or has a type and a number that the       *)
(* operation accepts or not; then the reply is freed, or should be.         *)
(*                                                                         *)
(* The server is modelled by what its documented commands do to one key of  *)
(* each database; another client uses it too, and the key may expire.       *)
(***************************************************************************)
EXTENDS Integers, Sequences, FiniteSets, SequencesExt, TLC

CONSTANTS Vals,         \* values of strings and list elements
          Fields,       \* fields of hash tables
          DBs,          \* the databases, 0 among them
          MaxLen,       \* bound: the length of a list on the server
          MaxReplies    \* bound: the replies that were not freed

ASSUME RedisAssumption == 0 \in DBs /\ DBs \subseteq 0..15 /\ MaxLen \in Nat

OK == 0
CONNECT_ERROR == -1
AUTH_ERROR == -2
QUERY_ERROR == -3
NOT_CONNECTED == -4
Crash == -99            \* the program ended: it read a string through a null or a small number

VARIABLES mRedisCtx,         \* "null", "open", or "broken": hiredis has set its err
          authed, db,        \* the connection, as the server sees it: may it give commands?
          store,             \* the server's value of the key in each database
          replies,           \* reply objects not freed
          status,            \* what the last operation returned
          clientPc, count    \* listDeleteAll between its commands, and the length it got

redisVars == <<mRedisCtx, authed, db, store, replies, status, clientPc, count>>

NoKey == [kind |-> "none", list |-> <<>>, hash |-> {}, ttl |-> FALSE]

RedisInit == /\ mRedisCtx = "null" /\ authed = FALSE /\ db = 0
             /\ store = [d \in DBs |-> NoKey]
             /\ replies = 0 /\ status = OK /\ clientPc = "idle" /\ count = 0

-----------------------------------------------------------------------------
(* The server *)

NoOp == [name |-> "none", vals |-> <<>>, fields |-> {}, n |-> 0]
Op(name) == [NoOp EXCEPT !.name = name]
Pushes == {[Op(name) EXCEPT !.vals = vs] : name \in {"lpush", "rpush"}, vs \in SeqOf(Vals, 2) \ {<<>>}}

Operations ==
    {Op(name) : name \in {"get", "mget", "exists", "del", "pexpire", "persist", "pttl", "keys",
                          "hgetall", "llen", "lpop", "lrange", "command"}}
    \cup {[Op("set") EXCEPT !.vals = <<v>>] : v \in Vals}
    \cup {[Op("select") EXCEPT !.n = d] : d \in DBs}
    \cup {[Op(name) EXCEPT !.fields = F] : name \in {"hmset", "hdel"}, F \in SUBSET Fields}
    \cup {[Op(name) EXCEPT !.fields = {f}] : name \in {"hset", "hget"}, f \in Fields}
    \cup Pushes
    \cup {[Op("lrem") EXCEPT !.vals = <<v>>, !.n = n] : v \in Vals, n \in {1, -1}}

Reply(type, n) == [type |-> type, integer |-> n]
NoReply == Reply("null", 0)
Same(r, s) == [reply |-> r, store |-> s]
Integer(n, s) == Same(Reply("integer", n), s)
Number(b) == IF b THEN 1 ELSE 0

\* The list without the first n (n < 0: last) elements equal to v.
RECURSIVE Lrem(_, _, _)
Lrem(l, n, v) == IF n < 0 THEN Reverse(Lrem(Reverse(l), - n, v))
                 ELSE IF l = <<>> \/ n = 0 THEN l
                 ELSE IF Head(l) = v THEN Lrem(Tail(l), n - 1, v) ELSE <<Head(l)>> \o Lrem(Tail(l), n, v)

ListOr(l, s) == IF l = <<>> THEN NoKey ELSE [s EXCEPT !.kind = "list", !.list = l]
HashOr(F, s) == IF F = {} THEN NoKey ELSE [s EXCEPT !.kind = "hash", !.hash = F]

KindOf(op) == CASE op.name \in {"lpush", "rpush", "lrem", "llen"} -> "list"
                [] op.name \in {"hmset", "hset", "hget", "hgetall", "hdel"} -> "hash"
                [] op.name \in {"get", "command"} -> "string"
                [] OTHER -> "any"

\* What the server does with a command on value s: its reply and the new value.
\* lpop and lrange arrive as one word and are unknown to it; mget answers nil for
\* a key that is not a string (the number: the elements that are strings).
Executed(op, s) ==
    LET there == s.kind # "none"
        after == IF op.name = "lpush" THEN Reverse(op.vals) \o s.list ELSE s.list \o op.vals
        cut == Lrem(s.list, op.n, op.vals[1])
    IN  CASE op.name \in {"lpop", "lrange"} -> Same(Reply("error", 0), s)
          [] KindOf(op) \notin {"any", s.kind} /\ there -> Same(Reply("error", 0), s)
          [] op.name \in {"hmset", "hdel"} /\ op.fields = {} -> Same(Reply("error", 0), s)
          [] op.name = "set" -> Same(Reply("status", 0), [NoKey EXCEPT !.kind = "string", !.list = op.vals])
          [] op.name \in {"get", "command"} -> Same(Reply(IF there THEN "string" ELSE "nil", 0), s)
          [] op.name = "mget" -> Same(Reply("array", Number(s.kind = "string")), s)
          [] op.name = "hgetall" -> Same(Reply("array", 0), s)
          [] op.name = "keys" -> Same(Reply("array", Number(there)), s)
          [] op.name = "select" -> Same(Reply("status", 0), s)
          [] op.name = "exists" -> Integer(Number(there), s)
          [] op.name = "del" -> Integer(Number(there), NoKey)
          [] op.name = "pexpire" -> Integer(Number(there), [s EXCEPT !.ttl = there])
          [] op.name = "persist" -> Integer(Number(s.ttl), [s EXCEPT !.ttl = FALSE])
          [] op.name = "pttl" -> Integer(IF s.ttl THEN 1 ELSE IF there THEN -1 ELSE -2, s)
          [] op.name = "hmset" -> Same(Reply("status", 0), HashOr(s.hash \cup op.fields, s))
          [] op.name = "hset" -> Integer(Cardinality(op.fields \ s.hash), HashOr(s.hash \cup op.fields, s))
          [] op.name = "hget" -> Same(Reply(IF op.fields \subseteq s.hash THEN "string" ELSE "nil", 0), s)
          [] op.name = "hdel" -> Integer(Cardinality(op.fields \cap s.hash), HashOr(s.hash \ op.fields, s))
          [] op.name \in {"lpush", "rpush"} -> Integer(Len(after), ListOr(after, s))
          [] op.name = "lrem" -> Integer(Len(s.list) - Len(cut), ListOr(cut, s))
          [] op.name = "llen" -> Integer(Len(s.list), s)

\* Other clients push and delete; a key with a time to live expires.
OtherClient == /\ \E d \in DBs, op \in {Op("del")} \cup {o \in Pushes : o.name = "rpush" /\ Len(o.vals) = 1} :
                     LET s == Executed(op, store[d]).store
                     IN  /\ Len(s.list) <= MaxLen
                         /\ store' = [store EXCEPT ![d] = s]
               /\ UNCHANGED <<mRedisCtx, authed, db, replies, status, clientPc, count>>

Expire == /\ \E d \in DBs : store[d].ttl /\ store' = [store EXCEPT ![d] = NoKey]
          /\ UNCHANGED <<mRedisCtx, authed, db, replies, status, clientPc, count>>

-----------------------------------------------------------------------------
(* The connection *)

Ready == clientPc = "idle" /\ status # Crash

\* connect() stores the password before anything else: a null one, the default of
\* its parameter, ends the program.  Else redisConnect() fails, or the context is
\* new and authenticate() is called: the password is right or wrong, the server
\* wants none (it refuses "auth" then and takes commands), or the connection
\* breaks during the command.
Connect == /\ Ready /\ mRedisCtx = "null"
           /\ \/ /\ status' \in {CONNECT_ERROR, Crash}
                 /\ UNCHANGED <<mRedisCtx, authed>>
              \/ /\ mRedisCtx' \in {"open", "broken"}
                 /\ authed' \in BOOLEAN
                 /\ status' \in {AUTH_ERROR} \cup (IF authed' /\ mRedisCtx' = "open" THEN {OK} ELSE {})
           /\ db' = 0
           /\ UNCHANGED <<store, replies, clientPc, count>>

\* "if (mRedisCtx != nullptr) return REDIS_STATUS_OK", whatever state it is in.
ConnectAgain == /\ Ready /\ mRedisCtx # "null"
                /\ status' = OK
                /\ UNCHANGED <<mRedisCtx, authed, db, store, replies, clientPc, count>>

\* authenticate() called by the user; a null or wrong password leaves the
\* connection as it was.
Authenticate == /\ Ready /\ mRedisCtx = "open"
                /\ mRedisCtx' \in {"open", "broken"}
                /\ authed' \in {authed, TRUE}
                /\ UNCHANGED <<db, store, replies, status, clientPc, count>>

Disconnect == /\ Ready /\ mRedisCtx # "null"
              /\ mRedisCtx' = "null"
              /\ authed' = FALSE /\ db' = 0
              /\ UNCHANGED <<store, replies, status, clientPc, count>>

-----------------------------------------------------------------------------
(* One command and what becomes of its reply *)

\* redisCommand(): a broken connection gives no reply; one that breaks now may
\* have carried the command to the server.
Outcomes(op) ==
    LET done == Executed(op, store[db])
        stored == IF authed THEN [store EXCEPT ![db] = done.store] ELSE store
        lost == [reply |-> NoReply, ctx |-> "broken", db |-> db]
    IN  IF mRedisCtx = "open"
          THEN {[reply |-> IF authed THEN done.reply ELSE Reply("error", 0), ctx |-> "open",
                 db |-> IF authed /\ op.name = "select" THEN op.n ELSE db, store |-> stored],
                lost @@ [store |-> store], lost @@ [store |-> stored]}
          ELSE {lost @@ [store |-> store]}

Take(o) == mRedisCtx' = o.ctx /\ db' = o.db /\ store' = o.store /\ UNCHANGED authed

TypeWanted(op) == CASE op.name \in {"set", "select", "hmset"} -> {"status"}
                    [] op.name \in {"get", "hget", "lpop"} -> {"string"}
                    [] op.name \in {"mget", "keys", "hgetall", "lrange"} -> {"array"}
                    [] op.name = "command" -> {"status", "integer", "string", "array", "nil"}
                    [] OTHER -> {"integer"}

\* Faulty variant: the type of the reply is not looked at where a number is wanted.
AcceptedAnyType(op, r) == /\ r.type \in TypeWanted(op) \cup (IF op.name = "lrem" THEN {"error"} ELSE {})
                          /\ op.name \in {"lpush", "rpush"} => r.integer \in 1..Len(op.vals)

\* A reply of the type wanted is success if these agree.
ValueAccepted(op) == op.name \in {"command", "select", "set", "get", "mget"}

KeyAccepted(op, r) == \/ op.name \in {"persist", "pttl"}
                      \/ op.name \in {"exists", "del", "pexpire", "keys"} /\ r.integer > 0

HashAccepted(op, r) == \/ op.name \in {"hmset", "hset", "hget", "hgetall"}
                       \/ op.name = "hdel" /\ r.integer \in 0..Cardinality(op.fields)

\* The new length of the list is compared with the number of values pushed (the
\* calls with one value compare it with 1).
PushAccepted(op, r) == op.name \in {"lpush", "rpush"} /\ r.integer \in 1..Len(op.vals)

RemoveAccepted(op, r) == op.name = "lrem" /\ r.integer \in 0..1

\* The operation returns success.
Accepted(op, r) == /\ r.type \in TypeWanted(op)
                   /\ \/ ValueAccepted(op) \/ KeyAccepted(op, r) \/ HashAccepted(op, r)
                      \/ PushAccepted(op, r) \/ RemoveAccepted(op, r)
                      \/ op.name \in {"lpop", "lrange", "llen"}

\* These log reply->str without a test.
LogsReply(op) == op.name \in {"pexpire", "persist", "pttl", "keys"}

\* The program ends: the reply that is logged is missing; a push onto a list with
\* elements logs its new length with a %s (errors are logged, unless gLevel was
\* set above them); mget makes a string of a nil element.
Crashes(op, r) == \/ r = NoReply /\ LogsReply(op)
                  \/ op.name \in {"lpush", "rpush"} /\ r.type = "integer" /\ ~ Accepted(op, r)
                  \/ op.name = "mget" /\ r.type = "array" /\ r.integer = 0

\* These return success and keep the reply.
Kept(op, r) == op.name \in {"hmset", "hset"} /\ Accepted(op, r)

Do(op) == /\ Ready /\ mRedisCtx # "null"
          /\ \E o \in Outcomes(op) :
                /\ Take(o)
                /\ status' = IF Crashes(op, o.reply) THEN Crash
                             ELSE IF Accepted(op, o.reply) THEN OK ELSE QUERY_ERROR
                /\ replies' = IF Kept(op, o.reply) THEN replies + 1 ELSE replies
          /\ replies' <= MaxReplies
          /\ \A d \in DBs : Len(store'[d].list) <= MaxLen
          /\ UNCHANGED <<clientPc, count>>

NotConnected == /\ Ready /\ mRedisCtx = "null"
                /\ status' = NOT_CONNECTED
                /\ UNCHANGED <<mRedisCtx, authed, db, store, replies, clientPc, count>>

\* listDeleteAll: the length of the list, where a failure counts as an empty list ...
DeleteAllLength == /\ Ready /\ mRedisCtx # "null"
                   /\ \E o \in Outcomes(Op("llen")) :
                         /\ Take(o)
                         /\ LET n == IF Accepted(Op("llen"), o.reply) THEN o.reply.integer ELSE QUERY_ERROR
                            IN  IF n <= 0 THEN status' = OK /\ UNCHANGED <<clientPc, count>>
                                ELSE clientPc' = "lrem" /\ count' = n /\ UNCHANGED status
                   /\ UNCHANGED replies

Removed(v, n) == /\ clientPc = "lrem"
                 /\ \E o \in Outcomes([Op("lrem") EXCEPT !.vals = <<v>>, !.n = n]) :
                       /\ Take(o)
                       /\ status' = IF o.reply.type = "integer" /\ o.reply.integer \in 0..count
                                      THEN o.reply.integer ELSE QUERY_ERROR
                 /\ clientPc' = "idle" /\ count' = 0
                 /\ UNCHANGED replies

\* Faulty variant: one element is removed, as listDeleteFront does.
DeleteAllOne(v) == Removed(v, 1)

\* ... and as many elements are removed, if there still are that many.
DeleteAll(v) == Removed(v, count)

RedisNext == \/ Connect \/ ConnectAgain \/ Authenticate \/ Disconnect \/ NotConnected
             \/ \E op \in Operations : Do(op)
             \/ DeleteAllLength \/ \E v \in Vals : DeleteAll(v)
             \/ OtherClient \/ Expire

RedisSpec == RedisInit /\ [][RedisNext]_redisVars

-----------------------------------------------------------------------------
RedisTypeOK == /\ mRedisCtx \in {"null", "open", "broken"} /\ authed \in BOOLEAN /\ db \in DBs
               /\ \A d \in DBs : /\ store[d].list \in SeqOf(Vals, MaxLen)
                                 /\ store[d].hash \in SUBSET Fields
               /\ replies \in 0..MaxReplies
               /\ status \in {Crash, NOT_CONNECTED, QUERY_ERROR, AUTH_ERROR, CONNECT_ERROR} \cup 0..MaxLen
               /\ clientPc \in {"idle", "lrem"} /\ count \in 0..MaxLen

DoneBy(op) == authed /\ store'[db] = Executed(op, store[db]).store
Undone == store' = store

\* An operation that returns success has been carried out by the server, once:
\* not when the reply was lost, and not by a connection that is not authenticated.
SuccessMeansDone == [][status' = OK => \A op \in Operations : Do(op) => DoneBy(op)]_redisVars

\* An operation that returns failure while the connection stays up has changed
\* nothing, and so has one that ends the program, but for a push onto a list with
\* elements: that is carried out first (a program that is started again and tries
\* again pushes twice).
FailureMeansUndone ==
    [][status' \in {QUERY_ERROR, Crash} /\ mRedisCtx' = "open" /\ ~ Undone =>
           \/ OtherClient \/ Expire
           \/ \E op \in Pushes : Do(op) /\ store[db].kind = "list" /\ status' = Crash]_redisVars

\* Once the connection has broken nothing is changed, no operation succeeds but
\* listDeleteAll, which returns 0 as for an empty list, and connect() keeps
\* returning 0, until disconnect().
BrokenStaysBroken ==
    [][mRedisCtx = "broken" =>
         /\ mRedisCtx' \in {"broken", "null"}
         /\ Undone \/ OtherClient \/ Expire
         /\ \A op \in Operations : Do(op) => status' < 0
         /\ \A v \in Vals : DeleteAll(v) => status' < 0
         /\ ConnectAgain \/ (status' = OK /\ status # OK => DeleteAllLength)]_redisVars

\* How listDeleteAll may return a number without looking at the list: it takes
\* a connection that breaks, or that is not authenticated, for an empty list.
LengthUnknown == mRedisCtx' = "broken" \/ ~ authed

\* listDeleteAll that returns a number has removed so many elements, no others,
\* and has left none behind, also of those that other clients add between its
\* commands: unless the list had become longer by then, or its length was unknown.
DeleteAllDeletes ==
    [][/\ \A v \in Vals : DeleteAll(v) /\ status' >= 0 =>
            /\ status' = Len(store[db].list) - Len(store'[db].list)
            /\ SelectSeq(store[db].list, LAMBDA x : x # v) = SelectSeq(store'[db].list, LAMBDA x : x # v)
            /\ \/ v \notin ToSet(store'[db].list)
               \/ Len(SelectSeq(store[db].list, LAMBDA x : x = v)) > count
       /\ DeleteAllLength /\ clientPc' = "idle" =>
            /\ status' = 0 /\ Undone
            /\ store[db].kind # "list" \/ LengthUnknown]_redisVars

\* A reply is kept by the two hash functions only, and by these when they succeed.
RepliesFreed == [][replies' > replies => \E op \in Operations : /\ op.name \in {"hmset", "hset"}
                                                                /\ Do(op) /\ status' = OK]_redisVars

\* What an operation returns is what has happened.
RedisTellsTheTruth == SuccessMeansDone /\ FailureMeansUndone /\ BrokenStaysBroken

\* Elements and replies are disposed of.
RedisSound == []RedisTypeOK /\ DeleteAllDeletes /\ RepliesFreed
=============================================================================
