----------------------------- MODULE MySqlConn -----------------------------
(***************************************************************************)
(* MySqlConn of sqlutils/mysql.cpp: a handle, mSqlInit, the names of the    *)
(* columns last selected, and the result that waits in the connection until *)
(* getSqlRes() stores it; a query in front of it fails ("commands out of    *)
(* sync").  The client library and the server are external: a query may     *)
(* fail, and the server may close the connection at any moment.            *)
(***************************************************************************)
EXTENDS Integers

CONSTANTS Columns,          \* lists of columns; a table has one of them
          NoColumns         \* no list of columns, or no result



VARIABLES mSqlHandle,       \* "null", "init" or "open"; "gone": there is no object
          mSqlInit,
          mFieldMap,        \* the list of columns, or NoColumns
          pending,          \* the columns of the result that waits
          lost,             \* the server has closed the connection
          taken,            \* the columns of the result stored last
          uncertain,        \* SelectSql() or its question for the columns has failed
                            \* since the pending result was asked for
          unchecked         \* a null handle was given to the library

mysqlVars == <<mSqlHandle, mSqlInit, mFieldMap, pending, lost, taken, uncertain, unchecked>>

MySqlInit == /\ mSqlHandle = "gone" /\ mSqlInit = FALSE
             /\ mFieldMap = NoColumns /\ pending = NoColumns /\ taken = NoColumns
             /\ lost = FALSE /\ uncertain = FALSE /\ unchecked = FALSE

-----------------------------------------------------------------------------
(* External: the library *)

\* mysql_query(): whether it may succeed; it may always fail.
Answers == mSqlHandle = "open" /\ ~ lost /\ pending = NoColumns
\* One that is given a null pointer ends the program.
Dies == unchecked' = (mSqlHandle = "null")

ConnectionLost == /\ mSqlHandle = "open" /\ ~ lost
                  /\ lost' = TRUE
                  /\ UNCHANGED <<mSqlHandle, mSqlInit, mFieldMap, pending, taken, uncertain, unchecked>>

-----------------------------------------------------------------------------
(* The connection *)

Connected(b) == /\ mSqlHandle' = (IF b THEN "open" ELSE "init")
                /\ mSqlInit' = b /\ lost' = FALSE

\* mysql_init() and, with its arguments, mysql_real_connect().
Construct == /\ mSqlHandle = "gone"
             /\ \/ mSqlHandle' = "null" /\ UNCHANGED <<mSqlInit, lost>>
                \/ \E b \in BOOLEAN : Connected(b)
             /\ UNCHANGED <<mFieldMap, pending, taken, uncertain, unchecked>>

\* INVALID_OPERATION on an object that was connected, also if the server has gone.
ConnectSql == /\ mSqlHandle \in {"null", "init", "open"} /\ ~ mSqlInit
              /\ \/ mSqlHandle = "null" /\ UNCHANGED <<mSqlHandle, mSqlInit, lost>>
                 \/ \E b \in BOOLEAN : Connected(b)
              /\ UNCHANGED <<mFieldMap, pending, taken, uncertain, unchecked>>

CloseConn == /\ mSqlHandle # "gone"
             /\ mSqlHandle' = "null" /\ mSqlInit' = FALSE /\ pending' = NoColumns /\ lost' = FALSE
             /\ UNCHANGED <<mFieldMap, taken, uncertain, unchecked>>

Destroy == /\ mSqlHandle # "gone"
           /\ mSqlHandle' = "gone" /\ mSqlInit' = FALSE /\ pending' = NoColumns /\ lost' = FALSE
           /\ mFieldMap' = NoColumns /\ taken' = NoColumns /\ uncertain' = FALSE
           /\ UNCHANGED unchecked

-----------------------------------------------------------------------------
(* Statements *)

\* KeepField(): the names are taken from the text, or from the table with a
\* query of its own, whose result is stored and freed before the next.
KeepField(columns, named) ==
    IF named THEN {columns} ELSE {NoColumns} \cup (IF Answers THEN {columns} ELSE {})

\* Faulty variant: names kept before are not cleared.
SelectSqlOldNames(columns, named, long) ==
    /\ mSqlHandle # "gone" /\ mSqlInit
    /\ ~ long
    /\ Dies
    /\ \/ Answers /\ pending' = columns /\ uncertain' = FALSE
       \/ pending' = pending /\ uncertain' = TRUE
    /\ mFieldMap' = (IF mFieldMap = NoColumns THEN columns ELSE mFieldMap)
    /\ UNCHANGED <<mSqlHandle, mSqlInit, lost, taken>>

\* The columns are kept before the length of the statement is looked at, and
\* whether that has worked is not looked at.
SelectSql(columns, named, long) ==
    /\ mSqlHandle # "gone" /\ mSqlInit
    /\ Dies
    /\ \E kept \in KeepField(columns, named) :
          /\ mFieldMap' = kept
          /\ \/ ~ long /\ Answers /\ pending' = columns /\ uncertain' = (kept = NoColumns)
             \/ pending' = pending /\ uncertain' = TRUE
    /\ UNCHANGED <<mSqlHandle, mSqlInit, lost, taken>>

\* InsertSql(), InsertSqlBin(), UpdateSql(), DeleteSql() and SqlCommond(): they do
\* not look at mSqlInit; SqlCommond() may ask for a result too.
Statement(columns) ==
    /\ mSqlHandle # "gone"
    /\ Dies
    /\ \/ Answers /\ pending' = columns /\ uncertain' = (uncertain \/ columns # NoColumns)
       \/ UNCHANGED <<pending, uncertain>>
    /\ UNCHANGED <<mSqlHandle, mSqlInit, mFieldMap, lost, taken>>

\* mysql_store_result() may fail, and then the result is lost.
GetSqlRes == /\ mSqlHandle # "gone"
             /\ Dies
             /\ taken' \in {pending, NoColumns} /\ pending' = NoColumns
             /\ UNCHANGED <<mSqlHandle, mSqlInit, mFieldMap, lost, uncertain>>

MySqlNext == /\ ~ unchecked
             /\ \/ Construct \/ ConnectSql \/ CloseConn \/ Destroy \/ ConnectionLost \/ GetSqlRes
                \/ \E c \in Columns \cup {NoColumns} : Statement(c)
                \/ \E c \in Columns, named, long \in BOOLEAN : SelectSql(c, named, long)

MySqlSpec == MySqlInit /\ [][MySqlNext]_mysqlVars

-----------------------------------------------------------------------------
\* getFieldByIdx() names the columns of the result that getSqlRes() has given,
\* unless a SelectSql() has failed in between or a result came from elsewhere.
FieldsNameColumns ==
    [][GetSqlRes /\ taken' # NoColumns /\ ~ uncertain => mFieldMap = taken']_mysqlVars

\* A SelectSql() never gives the library a null handle: what guards it is
\* mSqlInit, through failed and repeated connects and closes.
SelectIsGuarded == [][unchecked' => ~ \E c \in Columns, n, l \in BOOLEAN : SelectSql(c, n, l)]_mysqlVars

\* The handle and the names follow the connection and its results.
MySqlSound == FieldsNameColumns /\ SelectIsGuarded
=============================================================================
