----------------------------- MODULE DoorSensor -----------------------------
(***************************************************************************)
(* The door sensor: button::get_key (button.cpp), which reads the kernel's *)
(* input events two at a time, under the sensor thread's loop              *)
(* (image_lock_process.cpp).  The kernel queues a key event with a         *)
(* synchronisation event behind it and, when its buffer is full, throws    *)
(* away all it holds.  The switch of the door is the menu key: the code    *)
(* takes value 0 for opened and any other value for closed.  Assumed of    *)
(* the kernel: the switch reports the values 0 and 1 only.  One that       *)
(* repeats (EV_REP) also reports 2 as long as it is held, each of which    *)
(* the code takes for a closing (button.cpp:201).                          *)
(***************************************************************************)
EXTENDS Naturals, SequencesExt

CONSTANTS
  BufSize,   \* events the kernel's buffer has room for
  MaxMoves,  \* bound: movements of the door
  OtherKeys, \* whether other keys move too
  ReadFails  \* whether a poll or a read may fail

ASSUME SensorConstantsOK ==
  /\ BufSize \in Nat \ 0..2 /\ MaxMoves \in Nat
  /\ OtherKeys \in BOOLEAN /\ ReadFails \in BOOLEAN

VARIABLES
  pc,          \* "open", "poll", "sync", "send" or "gone"
  key_status,  \* key_status: "none", "press", "release" or "other"
  at,          \* history: the movement that key_status tells of
  buffer,      \* the kernel's buffer
  shut,        \* the door is shut
  moved,       \* history: the movements of the door
  told,        \* history: the closings sent to the queue, by number
  overrun      \* history: the kernel threw events away

vars == <<pc, key_status, at, buffer, shut, moved, told, overrun>>

Event(type, n) == [type |-> type, of |-> n]
Syn == Event("syn", 0)

Init ==
  /\ pc = "open" /\ key_status = "none" /\ at = 0
  /\ buffer = <<>> /\ shut = TRUE /\ moved = <<>> /\ told = <<>> /\ overrun = FALSE
-----------------------------------------------------------------------------
(* The kernel and the door.                                                *)

\* evdev: the event that fills the buffer is left alone behind the notice
\* that the others were dropped.
Put(buf, e) == IF Len(buf) + 1 < BufSize THEN Append(buf, e)
               ELSE <<Event("dropped", 0), e>>
Packet(e) ==
  LET with == Put(Put(buffer, e), Syn) IN
  /\ buffer' = with
  /\ overrun' = (overrun \/ Len(with) < Len(buffer) + 2)

\* The device is opened with the thread; what happened before is not queued.  One
\* event for each movement: no autorepeat.
DoorMoves ==
  /\ Len(moved) < MaxMoves /\ shut' = ~shut
  /\ moved' = Append(moved, IF shut THEN "press" ELSE "release")
  /\ IF pc \in {"open", "gone"} THEN UNCHANGED <<buffer, overrun>>
     ELSE Packet(Event(moved'[Len(moved')], Len(moved')))
  /\ UNCHANGED <<pc, key_status, at, told>>

OtherKeyMoves ==
  /\ OtherKeys /\ pc \notin {"open", "gone"} /\ Packet(Event("other", 0))
  /\ UNCHANGED <<pc, key_status, at, shut, moved, told>>
-----------------------------------------------------------------------------
(* The thread.                                                             *)

OpenDevice ==
  /\ pc = "open" /\ pc' \in {"poll", "gone"}
  /\ UNCHANGED <<key_status, at, buffer, shut, moved, told, overrun>>

\* Variant: key_status keeps its value when the event is no key.
ReadKey_Stale ==
  /\ pc = "poll" /\ buffer # <<>> /\ pc' = "sync"
  /\ LET e == Head(buffer) IN
       IF e.type \in {"press", "release"}
       THEN key_status' = e.type /\ at' = e.of
       ELSE UNCHANGED <<key_status, at>>
  /\ buffer' = Tail(buffer)
  /\ UNCHANGED <<shut, moved, told, overrun>>

\* The first read of get_key, once poll says that there is something.
ReadKey ==
  /\ pc = "poll" /\ buffer # <<>> /\ pc' = "sync"
  /\ LET e == Head(buffer) IN
       IF e.type \in {"press", "release"}
       THEN key_status' = e.type /\ at' = e.of
       ELSE key_status' = (IF e.type = "other" THEN "other" ELSE "none") /\ at' = 0
  /\ buffer' = Tail(buffer)
  /\ UNCHANGED <<shut, moved, told, overrun>>

\* Variant: the values of the switch are taken the other way round.
ReadSync_Inverted ==
  /\ pc = "sync"
  /\ buffer' = IF buffer = <<>> THEN buffer ELSE Tail(buffer)
  /\ pc' = IF buffer = <<>> \/ Head(buffer) # Syn THEN "gone"
           ELSE IF key_status = "press" THEN "send" ELSE "poll"
  /\ UNCHANGED <<key_status, at, shut, moved, told, overrun>>

\* The second read must bring the synchronisation: anything else is an error,
\* and an error ends the loop.
ReadSync ==
  /\ pc = "sync"
  /\ buffer' = IF buffer = <<>> THEN buffer ELSE Tail(buffer)
  /\ pc' = IF buffer = <<>> \/ Head(buffer) # Syn THEN "gone"
           ELSE IF key_status = "release" THEN "send" ELSE "poll"
  /\ UNCHANGED <<key_status, at, shut, moved, told, overrun>>

GetKeyFails ==
  /\ pc \in {"poll", "sync"} /\ ReadFails /\ pc' = "gone"
  /\ UNCHANGED <<key_status, at, buffer, shut, moved, told, overrun>>

\* send_queue_msg, as soon as the queue has room.
SendClose ==
  /\ pc = "send" /\ pc' = "poll" /\ told' = Append(told, at)
  /\ UNCHANGED <<key_status, at, buffer, shut, moved, overrun>>

\* Nobody moves the door, and the thread waits or is gone.
Rest == /\ Len(moved) = MaxMoves /\ UNCHANGED vars
        /\ \/ pc = "gone"
           \/ pc = "poll" /\ buffer = <<>>

Thread == OpenDevice \/ ReadKey \/ ReadSync \/ SendClose
World == DoorMoves \/ OtherKeyMoves
Next == Thread \/ GetKeyFails \/ World \/ Rest
Spec == Init /\ [][Next]_vars
\* The thread runs on; the queue always has room again.
LiveSpec == Spec /\ WF_vars(Thread)
-----------------------------------------------------------------------------
(* Properties.                                                             *)

\* Every variable keeps its type; only a release of the switch is sent.
TypeOK ==
  /\ pc \in {"open", "poll", "sync", "send", "gone"}
  /\ key_status \in {"none", "press", "release", "other"}
  /\ at \in 0..Len(moved) /\ Len(buffer) < BufSize
  /\ shut \in BOOLEAN /\ overrun \in BOOLEAN
  /\ pc = "send" => key_status = "release"

\* However many events the kernel throws away, and wherever get_key is then:
\* what is sent are closings of the door, each once and in their order
\* (button.cpp:185-228).
ClosingsInOrder ==
  /\ \A k \in 1..Len(told) : moved[told[k]] = "release"
  /\ \A k \in 2..Len(told) : told[k - 1] < told[k]

\* As long as the kernel throws nothing away the thread is BoxApp's sensor.
Waiting == Cardinality({k \in 1..Len(buffer) : buffer[k].type = "release"})
Call == INSTANCE SensorCall WITH
          keys <- Waiting + (IF pc = "sync" /\ key_status = "release" THEN 1 ELSE 0),
          sending <- (pc = "send"), alive <- (pc # "gone"), deaf <- overrun
SensorCallSpec == Call!Spec

\* A closing that the kernel has queued is sent, unless the thread ends or the
\* kernel throws events away.
ClosingSent ==
  \A n \in 1..MaxMoves :
    (\E k \in 1..Len(buffer) : buffer[k] = Event("release", n))
      ~> ((\E k \in 1..Len(told) : told[k] = n) \/ pc = "gone" \/ overrun)
=============================================================================
