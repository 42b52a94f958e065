----------------------------- MODULE LockDevice -----------------------------
(***************************************************************************)
(* The locks of the application: class lock (lock.cpp) over class GPIO     *)
(* (gpio.cpp) and the kernel's sysfs files, for the door lock and the      *)
(* modem's reset line.  A process may end at any step and be started       *)
(* again; what it exported and the level of the pins outlive it.  The      *)
(* polarity is always 1, and the names of the pins are well formed.        *)
(***************************************************************************)
EXTENDS Naturals

CONSTANTS
  Locks,   \* the lock objects, each with its pin
  MayFail, \* whether opening and writing sysfs files may fail without cause
  Reopens  \* whether a caller closes a lock or opens it again (none does)

ASSUME LockConstantsOK == MayFail \in BOOLEAN /\ Reopens \in BOOLEAN

VARIABLES
  pc,        \* per lock, the step of init under way; "idle": no call
  num,       \* whether num names a pin
  direction, \* "none", "inval" or "out"
  fd,        \* whether fd is an open value file
  gpio_inited, is_on,
  exported, level   \* the kernel: what is exported, the level of the pins

object == <<pc, num, direction, fd, gpio_inited, is_on>>
kernel == <<exported, level>>
vars == <<object, kernel>>

All(v) == [l \in Locks |-> v]

Init ==
  /\ pc = All("idle") /\ num = All(FALSE) /\ direction = All("none")
  /\ fd = All(FALSE) /\ gpio_inited = All(FALSE) /\ is_on = All(FALSE)
  /\ exported \in [Locks -> BOOLEAN] /\ level \in [Locks -> BOOLEAN]

At(l, step) == pc[l] = step
Goto(l, step) == pc' = [pc EXCEPT ![l] = step]
Set(f, l, v) == [f EXCEPT ![l] = v]
-----------------------------------------------------------------------------
(* GPIO::init.                                                             *)

\* init on a new object.  On one whose init failed num is set, and the call
\* only answers -EINVAL.
InitCall(l) ==
  /\ At(l, "idle") /\ ~gpio_inited[l] /\ ~num[l] /\ Goto(l, "export")
  /\ num' = Set(num, l, TRUE) /\ direction' = Set(direction, l, "inval")
  /\ UNCHANGED <<fd, gpio_inited, is_on, kernel>>

\* The kernel refuses to export what is exported.
Exports(l) == ~exported[l] /\ exported' = Set(exported, l, TRUE) /\ Goto(l, "direction")
Refused(l) == (exported[l] \/ MayFail) /\ UNCHANGED exported

Export(l) ==
  /\ At(l, "export")
  /\ \/ Exports(l)
     \/ Refused(l) /\ Goto(l, "unexport")
     \/ MayFail /\ Goto(l, "idle") /\ UNCHANGED exported
  /\ UNCHANGED <<num, direction, fd, gpio_inited, is_on, level>>

\* The kernel takes the pin back and may let it fall.
Unexported(l) ==
  \/ /\ exported[l] /\ exported' = Set(exported, l, FALSE)
     /\ \E v \in {level[l], FALSE} : level' = Set(level, l, v)
  \/ (MayFail \/ ~exported[l]) /\ UNCHANGED kernel

\* Somebody left the pin exported: try to take it back, and export it again.
Unexport(l) ==
  /\ At(l, "unexport")
  /\ \/ Unexported(l) /\ Goto(l, "again")
     \/ MayFail /\ Goto(l, "idle") /\ UNCHANGED kernel
  /\ UNCHANGED <<num, direction, fd, gpio_inited, is_on>>

ExportAgain(l) ==
  /\ At(l, "again")
  /\ \/ Exports(l)
     \/ Refused(l) /\ Goto(l, "idle")
  /\ UNCHANGED <<num, direction, fd, gpio_inited, is_on, level>>
-----------------------------------------------------------------------------
(* The rest of lock::init.                                                 *)

\* Variant: the direction is left as the last process set it.
SetDirection_Kept(l) ==
  /\ At(l, "direction") /\ Goto(l, "value")
  /\ direction' = Set(direction, l, "out")
  /\ UNCHANGED <<num, fd, gpio_inited, is_on, kernel>>

\* set_direction: "out" makes the pin an output that is low.
SetDirection(l) ==
  /\ At(l, "direction")
  /\ \/ /\ direction' = Set(direction, l, "out") /\ level' = Set(level, l, FALSE)
        /\ Goto(l, "value")
     \/ MayFail /\ Goto(l, "idle") /\ UNCHANGED <<direction, level>>
  /\ UNCHANGED <<num, fd, gpio_inited, is_on, exported>>

\* output_open: init succeeds whether the value file could be opened or not.
OpenValue(l) ==
  /\ At(l, "value") /\ Goto(l, "idle")
  /\ \E opened \in {TRUE, ~MayFail} :
       fd' = Set(fd, l, opened /\ direction[l] = "out")
  /\ gpio_inited' = Set(gpio_inited, l, TRUE)
  /\ UNCHANGED <<num, direction, is_on, kernel>>
-----------------------------------------------------------------------------
(* The calls on an open lock, closing it, and the process.                 *)

\* Variant: is_on follows the call, not the write.
DevWrite_Blind(l, on) ==
  /\ At(l, "idle") /\ gpio_inited[l] /\ is_on[l] # on
  /\ is_on' = Set(is_on, l, on)
  /\ level' = IF fd[l] THEN Set(level, l, on) ELSE level
  /\ UNCHANGED <<pc, num, direction, fd, gpio_inited, exported>>

\* dev_unlock and dev_lock, when they write: a failed write changes nothing.
DevWrite(l, on) ==
  /\ At(l, "idle") /\ gpio_inited[l] /\ is_on[l] # on /\ fd[l]
  /\ is_on' = Set(is_on, l, on) /\ level' = Set(level, l, on)
  /\ UNCHANGED <<pc, num, direction, fd, gpio_inited, exported>>

\* Variant: the value file is not closed.
Exit_Leaks(l) ==
  /\ Reopens /\ At(l, "idle") /\ gpio_inited[l]
  /\ Unexported(l) /\ gpio_inited' = Set(gpio_inited, l, FALSE)
  /\ num' = Set(num, l, FALSE) /\ direction' = Set(direction, l, "inval")
  /\ UNCHANGED <<pc, fd, is_on>>

\* lock::exit: the value file is closed and the pin given back; is_on stays.
Exit(l) ==
  /\ Reopens /\ At(l, "idle") /\ gpio_inited[l]
  /\ Unexported(l)
  /\ fd' = Set(fd, l, FALSE) /\ gpio_inited' = Set(gpio_inited, l, FALSE)
  /\ num' = Set(num, l, FALSE) /\ direction' = Set(direction, l, "inval")
  /\ UNCHANGED <<pc, is_on>>

\* The process ends, at any step, and is started again: new objects.
Restart ==
  /\ pc' = All("idle") /\ num' = All(FALSE) /\ direction' = All("none")
  /\ fd' = All(FALSE) /\ gpio_inited' = All(FALSE) /\ is_on' = All(FALSE)
  /\ UNCHANGED kernel

Step(l) == \/ InitCall(l) \/ Export(l) \/ Unexport(l) \/ ExportAgain(l)
           \/ SetDirection(l) \/ OpenValue(l)
           \/ \E on \in BOOLEAN : DevWrite(l, on)
           \/ Exit(l)
Next == Restart \/ \E l \in Locks : Step(l)
Spec == Init /\ [][Next]_vars
-----------------------------------------------------------------------------
(* Properties.                                                             *)

\* Every variable keeps its type; only an open lock has an open value file.
TypeOK ==
  /\ pc \in [Locks -> {"idle", "export", "unexport", "again", "direction", "value"}]
  /\ direction \in [Locks -> {"none", "inval", "out"}]
  /\ num \in [Locks -> BOOLEAN] /\ fd \in [Locks -> BOOLEAN]
  /\ gpio_inited \in [Locks -> BOOLEAN] /\ is_on \in [Locks -> BOOLEAN]
  /\ exported \in [Locks -> BOOLEAN] /\ level \in [Locks -> BOOLEAN]
  /\ \A l \in Locks : fd[l] => gpio_inited[l] /\ num[l] /\ direction[l] = "out"

\* However the process before ended and however its locks were left, and also
\* when a caller closes a lock and opens it again: a lock that is open for use
\* and whose pin is high is one that the program knows to be unlocked, so the
\* next dev_lock will lock it (lock.cpp:106).
OpenKnown == \A l \in Locks : gpio_inited[l] /\ level[l] => is_on[l]

\* gpio.cpp:87-110: with a kernel that obeys, init succeeds in spite of what a
\* process that ended at any step has left exported.
InitRecovers == \A l \in Locks : At(l, "idle") /\ num[l] => gpio_inited[l]

\* The locks are what the program takes them for, over restarts and failures:
\* is_on follows the pin from the moment init succeeds (lock.cpp:48-60, 82-93).
L == INSTANCE Latch WITH usable <- gpio_inited, isOn <- is_on, pin <- level
LatchSpec == L!Spec
=============================================================================
