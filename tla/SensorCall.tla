----------------------------- MODULE SensorCall -----------------------------
(***************************************************************************)
(* What BoxApp takes the door sensor for (SensorPoll, SensorSend,          *)
(* SensorFail): closings of the door wait, one after the other is sent to  *)
(* the queue, and the thread may end between two of them; this as long as  *)
(* the sensor hears every movement.                                        *)
(***************************************************************************)
EXTENDS Naturals

VARIABLES keys, sending, alive, deaf
vars == <<keys, sending, alive, deaf>>

Init == keys = 0 /\ ~sending /\ alive \in BOOLEAN /\ ~deaf

CustomerCloses == keys' = keys + 1 /\ UNCHANGED <<sending, alive>>
SensorPoll ==
  alive /\ ~sending /\ keys > 0 /\ keys' = keys - 1 /\ sending' = TRUE /\ UNCHANGED alive
SensorSend == alive /\ sending /\ sending' = FALSE /\ UNCHANGED <<keys, alive>>
SensorFail == alive /\ ~sending /\ alive' = FALSE /\ sending' = FALSE
\* Nobody reads any more.
Gone == ~alive /\ ~alive' /\ UNCHANGED sending

Hears == /\ ~deaf /\ UNCHANGED deaf
         /\ CustomerCloses \/ SensorPoll \/ SensorSend \/ SensorFail \/ Gone
Next == Hears \/ deaf'
Spec == Init /\ [][Next]_vars
=============================================================================
