------------------------------ MODULE MsgQueue ------------------------------
(***************************************************************************)
(* The System V message queue as msqueue.cpp uses it: the types a message  *)
(* may have, and what msgrcv selects.  A queue is a sequence of records    *)
(* with a field mtype, oldest first.                                       *)
(***************************************************************************)
EXTENDS Integers, Sequences

HEART_TYPE      == 11
OPEN_DOOR_TYPE  == 2
MSG_TYPE        == 3
CLOSE_DOOR_TYPE == 4
IMAGE_TYPE      == 5

(***************************************************************************)
(* msgrcv(.., typ, ..): a positive typ asks for that type, a negative one  *)
(* for any type up to -typ.                                                *)
(***************************************************************************)
Eligible(q, typ) ==
  {i \in 1..Len(q) : IF typ < 0 THEN q[i].mtype <= -typ ELSE q[i].mtype = typ}

(***************************************************************************)
(* The message msgrcv takes: the lowest type first, and the oldest of that *)
(* type.  A set with at most one index; empty means that the call blocks.  *)
(***************************************************************************)
Chosen(q, typ) ==
  {i \in Eligible(q, typ) :
     \A j \in Eligible(q, typ) :
       \/ q[i].mtype < q[j].mtype
       \/ q[i].mtype = q[j].mtype /\ i <= j}

Without(q, i) ==
  [k \in 1..(Len(q) - 1) |-> IF k < i THEN q[k] ELSE q[k + 1]]
=============================================================================
