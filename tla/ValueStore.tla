----------------------------- MODULE ValueStore -----------------------------
(***************************************************************************)
(* What a set of String8 or ByteBuffer objects looks like to its users:    *)
(* every object has a value of its own.  Creating, copying, changing or    *)
(* destroying an object changes that object and no other.                  *)
(***************************************************************************)
CONSTANTS Handles,      \* the objects
          Data,         \* the values they hold
          NoBuffer      \* an object that holds nothing

VARIABLE value

Init == value = [h \in Handles |-> NoBuffer]

Put(h, d) == value' = [value EXCEPT ![h] = d]

CopyFrom(g, h) == /\ value[g] # NoBuffer
                  /\ value[h] = NoBuffer
                  /\ value' = [value EXCEPT ![h] = value[g]]

Drop(h) == value' = [value EXCEPT ![h] = NoBuffer]

Next == \E h \in Handles : \/ \E d \in Data : Put(h, d)
                           \/ \E g \in Handles : CopyFrom(g, h)
                           \/ Drop(h)

Spec == Init /\ [][Next]_value
=============================================================================
