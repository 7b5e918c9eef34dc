----------------------------- MODULE Singleton -----------------------------
(***************************************************************************)
(* eular::Singleton<T> and the counted handles SObject<T> it gives out.    *)
(* Get() and Reset() run under mMutex; the count mRef is changed by the    *)
(* copies and destructors of handles, outside of the mutex; Free() reads   *)
(* it before it takes the mutex.                                           *)
(*                                                                         *)
(* A handle is used by one thread at a time.                               *)
(***************************************************************************)
EXTENDS Integers, FiniteSets

CONSTANTS Handles,          \* the SObject<T> objects
          MaxInstances,     \* bound: the objects of type T ever created
          MaxRefs           \* bound: the count up to which handles are assigned

None == 0                   \* nullptr
Absent == -1                \* in obj: there is no such handle

VARIABLES mInstance, mRef,
          created,      \* the instances so far: new T has returned 1..created
          alive,        \* the instances that are not deleted
          obj,          \* the handle's mObj, or Absent
          handlePc,     \* the handle's destructor: "deref" after its test
          freer,        \* Free(): "idle", or "free" after its test
          assigned,     \* history: a handle was assigned
          freedUnder    \* history: Free() deleted the instance under a handle

singletonHistory == <<assigned, freedUnder>>
singletonVars == <<mInstance, mRef, created, alive, obj, handlePc, freer, singletonHistory>>

SingletonInit == /\ mInstance = None
                 /\ mRef = 0
                 /\ created = 0
                 /\ alive = {}
                 /\ obj = [h \in Handles |-> Absent]
                 /\ handlePc = [h \in Handles |-> "idle"]
                 /\ freer = "idle"
                 /\ assigned = FALSE /\ freedUnder = FALSE

-----------------------------------------------------------------------------
NewInstance(old) == /\ created < MaxInstances
                    /\ created' = created + 1
                    /\ mInstance' = created + 1
                    /\ alive' = (alive \ {old}) \cup {created + 1}

\* SObject(mInstance, &mRef), inside the mutex.
Hand(h) == /\ obj' = [obj EXCEPT ![h] = mInstance']
           /\ mRef' = mRef + 1
           /\ UNCHANGED <<handlePc, freer, singletonHistory>>

\* Faulty variant: Get() looks for the instance before it takes the mutex.
GetUnlocked(h) == /\ obj[h] = Absent
                  /\ NewInstance(None)
                  /\ Hand(h)

Get(h) == /\ obj[h] = Absent
          /\ IF mInstance = None THEN NewInstance(None)
             ELSE UNCHANGED <<mInstance, created, alive>>
          /\ Hand(h)

\* Reset(): a new instance only while nobody refers to the old one.
Reset(h) == /\ obj[h] = Absent
            /\ IF mRef = 0 THEN NewInstance(mInstance)
               ELSE UNCHANGED <<mInstance, created, alive>>
            /\ Hand(h)

\* The copy constructor of SObject.
CopyHandle(g, h) == /\ obj[g] # Absent /\ handlePc[g] = "idle"
                    /\ obj[h] = Absent
                    /\ obj' = [obj EXCEPT ![h] = obj[g]]
                    /\ mRef' = mRef + 1
                    /\ UNCHANGED <<mInstance, created, alive, handlePc, freer, singletonHistory>>

\* operator=: a reference more for the new object, none less for the old one.
Assign(g, h) == /\ mRef < MaxRefs
                /\ obj[g] # Absent /\ handlePc[g] = "idle"
                /\ obj[h] # Absent /\ handlePc[h] = "idle"
                /\ obj' = [obj EXCEPT ![h] = obj[g]]
                /\ mRef' = mRef + 1
                /\ assigned' = TRUE
                /\ UNCHANGED <<mInstance, created, alive, handlePc, freer, freedUnder>>

\* ~SObject: deref() tests the count and then decrements it.
DerefTest(h) == /\ obj[h] # Absent /\ handlePc[h] = "idle"
                /\ IF mRef = 0 THEN /\ obj' = [obj EXCEPT ![h] = Absent]
                                    /\ UNCHANGED handlePc
                   ELSE /\ handlePc' = [handlePc EXCEPT ![h] = "deref"]
                        /\ UNCHANGED obj
                /\ UNCHANGED <<mInstance, mRef, created, alive, freer, singletonHistory>>

Deref(h) == /\ handlePc[h] = "deref"
            /\ mRef' = mRef - 1
            /\ obj' = [obj EXCEPT ![h] = Absent]
            /\ handlePc' = [handlePc EXCEPT ![h] = "idle"]
            /\ UNCHANGED <<mInstance, created, alive, freer, singletonHistory>>

\* Free(), at the end of the program: the test, outside of the mutex ...
FreeTest == /\ freer = "idle"
            /\ mRef = 0
            /\ freer' = "free"
            /\ UNCHANGED <<mInstance, mRef, created, alive, obj, handlePc, singletonHistory>>

\* ... and the delete, inside.
FreeDelete == /\ freer = "free"
              /\ alive' = alive \ {mInstance}
              /\ mInstance' = None
              /\ freer' = "idle"
              /\ freedUnder' = (freedUnder \/ \E h \in Handles : obj[h] # Absent)
              /\ UNCHANGED <<mRef, created, obj, handlePc, assigned>>

Handling(h) == \/ Get(h) \/ Reset(h) \/ DerefTest(h) \/ Deref(h)
               \/ \E g \in Handles \ {h} : CopyHandle(g, h)

SingletonNext == \/ \E h \in Handles : Handling(h)
                 \/ \E g \in Handles, h \in Handles : Assign(g, h)
                 \/ FreeTest
                 \/ FreeDelete

SingletonSpec == SingletonInit /\ [][SingletonNext]_singletonVars

-----------------------------------------------------------------------------
HeldHandles == {h \in Handles : obj[h] # Absent}

SingletonTypeOK == /\ mInstance \in 0..MaxInstances
                   /\ mRef \in Nat
                   /\ created \in 0..MaxInstances
                   /\ alive \in SUBSET (1..MaxInstances)
                   /\ obj \in [Handles -> Absent..MaxInstances]
                   /\ handlePc \in [Handles -> {"idle", "deref"}]
                   /\ freer \in {"idle", "free"}

\* There is one instance at a time, whatever Get(), Reset(), Free() and the
\* handles do, and mInstance is it.
OneInstance == alive = {mInstance} \ {None}

\* No handle refers to an instance that Reset() or Free() has deleted, unless
\* Free() found no reference and somebody took a handle before it had the mutex.
\* (A handle may be null: Reset() hands one out after Free() if a reference was
\* left over.  Using it throws.)
HandleValid == ~ freedUnder => \A h \in HeldHandles : obj[h] \in alive \cup {None}

\* The count is exact: without assignments it is 0 as soon as no handle is left,
\* and Reset() and Free() can do their work.
CountReturns == ~ assigned => mRef = Cardinality(HeldHandles)

\* A singleton and its handles, whatever Get(), Reset(), Free() and the handles do.
SingletonSafe == SingletonTypeOK /\ OneInstance /\ HandleValid /\ CountReturns
=============================================================================
