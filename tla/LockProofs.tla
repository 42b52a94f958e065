----------------------------- MODULE LockProofs -----------------------------
(* Proofs of LockDevice's properties, for any set of locks.                *)
EXTENDS LockDevice, TLAPS

(* What init has done so far: the pin is low when its direction is set, and *)
(* a lock is not usable while init runs.                                    *)
InitAt(l) ==
  /\ pc[l] = "value" => ~level[l]
  /\ pc[l] # "idle" => num[l] /\ ~gpio_inited[l]
  /\ pc[l] = "value" => direction[l] = "out"
InitOK == \A l \in Locks : InitAt(l)
IInv == TypeOK /\ InitOK /\ OpenKnown

LEMMA InitInv == Init => IInv
BY DEF Init, All, IInv, TypeOK, InitOK, InitAt, OpenKnown

(* Giving a pin back can only let it fall, and touches no other pin.        *)
LEMMA Falls ==
  ASSUME TypeOK, NEW l \in Locks, Unexported(l)
  PROVE  /\ exported' \in [Locks -> BOOLEAN] /\ level' \in [Locks -> BOOLEAN]
         /\ \A k \in Locks : level'[k] => level[k]
<1>1. CASE UNCHANGED kernel
  BY <1>1 DEF TypeOK, kernel
<1>2. CASE exported' = Set(exported, l, FALSE) /\ UNCHANGED level
  BY <1>2 DEF TypeOK, Set
<1>3. CASE exported' = Set(exported, l, FALSE) /\ level' = Set(level, l, FALSE)
  BY <1>3 DEF TypeOK, Set
<1>4. level = Set(level, l, level[l])
  BY DEF TypeOK, Set
<1> QED
  BY <1>1, <1>2, <1>3, <1>4 DEF Unexported

LEMMA StepInv == ASSUME IInv, [Next]_vars PROVE IInv'
<1> USE DEF IInv, TypeOK, InitOK, InitAt, OpenKnown, At, Goto, Set
<1>1. CASE Restart
  BY <1>1 DEF Restart, All, kernel
<1>2. ASSUME NEW l \in Locks, InitCall(l) PROVE IInv'
  BY <1>2 DEF InitCall, kernel
<1>3. ASSUME NEW l \in Locks, Export(l) PROVE IInv'
  <2>1. TypeOK'
    BY <1>3 DEF Export, Exports, Refused
  <2>2. InitOK'
    BY <1>3 DEF Export, Exports, Refused
  <2>3. OpenKnown'
    BY <1>3 DEF Export, Exports, Refused
  <2> QED
    BY <2>1, <2>2, <2>3
<1>4. ASSUME NEW l \in Locks, Unexport(l) PROVE IInv'
  <2>1. exported' \in [Locks -> BOOLEAN] /\ level' \in [Locks -> BOOLEAN]
        /\ \A k \in Locks : level'[k] => level[k]
    BY <1>4, Falls DEF Unexport, kernel
  <2>2. UNCHANGED <<num, direction, fd, gpio_inited, is_on>>
        /\ pc[l] = "unexport"
        /\ pc' \in {[pc EXCEPT ![l] = "again"], [pc EXCEPT ![l] = "idle"]}
    BY <1>4 DEF Unexport
  <2> QED
    BY <2>1, <2>2
<1>5. ASSUME NEW l \in Locks, ExportAgain(l) PROVE IInv'
  <2>1. TypeOK'
    BY <1>5 DEF ExportAgain, Exports, Refused
  <2>2. InitOK'
    BY <1>5 DEF ExportAgain, Exports, Refused
  <2>3. OpenKnown'
    BY <1>5 DEF ExportAgain, Exports, Refused
  <2> QED
    BY <2>1, <2>2, <2>3
<1>6. ASSUME NEW l \in Locks, SetDirection(l) PROVE IInv'
  <2>1. TypeOK'
    BY <1>6 DEF SetDirection
  <2>2. InitOK'
    BY <1>6 DEF SetDirection
  <2>3. OpenKnown'
    BY <1>6 DEF SetDirection
  <2> QED
    BY <2>1, <2>2, <2>3
<1>7. ASSUME NEW l \in Locks, OpenValue(l) PROVE IInv'
  BY <1>7 DEF OpenValue, kernel
<1>8. ASSUME NEW l \in Locks, NEW on \in BOOLEAN, DevWrite(l, on) PROVE IInv'
  BY <1>8 DEF DevWrite
<1>9. ASSUME NEW l \in Locks, Exit(l) PROVE IInv'
  <2>1. exported' \in [Locks -> BOOLEAN] /\ level' \in [Locks -> BOOLEAN]
        /\ \A k \in Locks : level'[k] => level[k]
    BY <1>9, Falls DEF Exit
  <2>2. TypeOK' /\ InitOK'
    BY <1>9, <2>1 DEF Exit
  <2>3. OpenKnown'
    BY <1>9, <2>1 DEF Exit
  <2> QED
    BY <2>2, <2>3
<1>10. CASE UNCHANGED vars
  BY <1>10 DEF vars, object, kernel
<1> QED
  BY <1>1, <1>2, <1>3, <1>4, <1>5, <1>6, <1>7, <1>8, <1>9, <1>10 DEF Next, Step

(* Every variable of the locks keeps its type (lock.cpp, gpio.cpp).         *)
THEOREM LockTypes == Spec => []TypeOK
<1>1. Init => IInv
  BY InitInv
<1>2. IInv /\ [Next]_vars => IInv'
  BY StepInv
<1>3. IInv => TypeOK
  BY DEF IInv
<1> QED
  BY <1>1, <1>2, <1>3, PTL DEF Spec

(* A pin that is high under an open lock is known to be high, whatever was *)
(* closed, opened again, restarted or failed before (lock.cpp:74-120).      *)
THEOREM HighIsKnown == Spec => []OpenKnown
<1>1. Init => IInv
  BY InitInv
<1>2. IInv /\ [Next]_vars => IInv'
  BY StepInv
<1>3. IInv => OpenKnown
  BY DEF IInv
<1> QED
  BY <1>1, <1>2, <1>3, PTL DEF Spec

(* When no caller closes a lock, is_on is false as long as it is not usable. *)
ClosedOff == \A l \in Locks : ~gpio_inited[l] => ~is_on[l]

LEMMA StepClosedOff ==
  ASSUME ~Reopens, IInv, ClosedOff, [Next]_vars PROVE ClosedOff'
<1> USE DEF IInv, TypeOK, ClosedOff, At, Goto, Set
<1>1. CASE Restart
  BY <1>1 DEF Restart, All
<1>2. ASSUME NEW l \in Locks, Step(l) PROVE ClosedOff'
  <2>1. ASSUME NEW on \in BOOLEAN, DevWrite(l, on) PROVE ClosedOff'
    BY <2>1 DEF DevWrite
  <2>2. CASE OpenValue(l)
    BY <2>2 DEF OpenValue
  <2> QED
    BY <1>2, <2>1, <2>2 DEF Step, InitCall, Export, Unexport, ExportAgain,
       SetDirection, Exit
<1>3. CASE UNCHANGED vars
  BY <1>3 DEF vars, object
<1> QED
  BY <1>1, <1>2, <1>3 DEF Next

(* While a lock of the program is usable, is_on is the level of its pin.    *)
Agree == \A l \in Locks : gpio_inited[l] => (is_on[l] <=> level[l])

LEMMA StepAgree ==
  ASSUME IInv, ClosedOff, Agree, [Next]_vars PROVE Agree'
<1> USE DEF IInv, TypeOK, InitOK, InitAt, ClosedOff, Agree, At, Goto, Set
<1>1. CASE Restart
  BY <1>1 DEF Restart, All
<1>2. ASSUME NEW l \in Locks, Step(l) PROVE Agree'
  <2>1. ASSUME NEW on \in BOOLEAN, DevWrite(l, on) PROVE Agree'
    BY <2>1 DEF DevWrite
  <2>2. CASE OpenValue(l)
    BY <2>2 DEF OpenValue, kernel
  <2>3. CASE SetDirection(l)
    BY <2>3 DEF SetDirection
  <2>4. CASE Unexport(l)
    BY <2>4 DEF Unexport, Unexported, kernel
  <2>5. CASE Exit(l)
    BY <2>5 DEF Exit, Unexported, kernel
  <2>6. CASE InitCall(l) \/ Export(l) \/ ExportAgain(l)
    BY <2>6 DEF InitCall, Export, ExportAgain, kernel
  <2> QED
    BY <1>2, <2>1, <2>2, <2>3, <2>4, <2>5, <2>6 DEF Step
<1>3. CASE UNCHANGED vars
  BY <1>3 DEF vars, object, kernel
<1> QED
  BY <1>1, <1>2, <1>3 DEF Next

(* Since no caller of the program closes a lock, is_on never differs from   *)
(* the pin of a usable lock: dev_unlock and dev_lock are never skipped      *)
(* wrongly (lock.cpp:82, 106).                                              *)
THEOREM LevelKnown == ASSUME ~Reopens PROVE Spec => []Agree
<1>1. Init => IInv /\ ClosedOff /\ Agree
  BY InitInv DEF Init, All, ClosedOff, Agree
<1>2. IInv /\ ClosedOff /\ Agree /\ [Next]_vars => IInv' /\ ClosedOff' /\ Agree'
  BY StepInv, StepClosedOff, StepAgree
<1> QED
  BY <1>1, <1>2, PTL DEF Spec

(* One step of the locks is a step of every latch.                          *)
LEMMA StepLatch ==
  ASSUME IInv, [Next]_vars
  PROVE  [L!Next]_<<gpio_inited, is_on, level>>
<1> USE DEF IInv, TypeOK, InitOK, InitAt, OpenKnown, At, Goto, Set
<1> USE DEF L!Next, L!Start, L!Write, L!Close, L!Stop, L!Fade, L!Keep
<1>1. CASE Restart
  BY <1>1 DEF Restart, All, kernel
<1>2. ASSUME NEW l \in Locks, SetDirection(l) PROVE L!Next
  BY <1>2 DEF SetDirection
<1>3. ASSUME NEW l \in Locks, OpenValue(l) PROVE L!Next
  BY <1>3 DEF OpenValue, kernel
<1>4. ASSUME NEW l \in Locks, NEW on \in BOOLEAN, DevWrite(l, on) PROVE L!Next
  BY <1>4 DEF DevWrite
<1>5. ASSUME NEW l \in Locks, Unexport(l) PROVE L!Next
  BY <1>5 DEF Unexport, Unexported, kernel
<1>6. ASSUME NEW l \in Locks, InitCall(l) \/ Export(l) \/ ExportAgain(l)
      PROVE  UNCHANGED <<gpio_inited, is_on, level>>
  BY <1>6 DEF InitCall, Export, ExportAgain, kernel
<1>7. ASSUME NEW l \in Locks, Exit(l) PROVE L!Next
  BY <1>7 DEF Exit, Unexported, kernel
<1>8. CASE UNCHANGED vars
  BY <1>8 DEF vars, object, kernel
<1> QED
  BY <1>1, <1>2, <1>3, <1>4, <1>5, <1>6, <1>7, <1>8 DEF Next, Step

(* The locks implement Latch, over any failures, restarts, closings and      *)
(* reopenings (lock.cpp:33-120).                                            *)
THEOREM LocksAreLatches == Spec => LatchSpec
<1>1. Init => IInv /\ L!Init
  BY InitInv DEF Init, All, L!Init
<1>2. IInv /\ [Next]_vars => IInv'
  BY StepInv
<1>3. IInv /\ [Next]_vars => [L!Next]_<<gpio_inited, is_on, level>>
  BY StepLatch
<1> QED
  BY <1>1, <1>2, <1>3, PTL DEF Spec, LatchSpec, L!Spec, L!vars

(* With files that can be opened and written, a pin that is to be exported *)
(* again is free.                                                           *)
Freed == \A l \in Locks : pc[l] = "again" => ~exported[l]

LEMMA StepRecovers ==
  ASSUME ~MayFail, IInv, InitRecovers, Freed, [Next]_vars
  PROVE  InitRecovers' /\ Freed'
<1> USE DEF IInv, TypeOK, InitOK, InitAt, InitRecovers, Freed, At, Goto, Set
<1>1. CASE Restart
  BY <1>1 DEF Restart, All
<1>2. ASSUME NEW l \in Locks, InitCall(l) PROVE InitRecovers' /\ Freed'
  BY <1>2 DEF InitCall, kernel
<1>3. ASSUME NEW l \in Locks, Export(l) PROVE InitRecovers' /\ Freed'
  BY <1>3 DEF Export, Exports, Refused
<1>4. ASSUME NEW l \in Locks, Unexport(l) PROVE InitRecovers' /\ Freed'
  BY <1>4 DEF Unexport, Unexported, kernel
<1>5. ASSUME NEW l \in Locks, ExportAgain(l) PROVE InitRecovers' /\ Freed'
  BY <1>5 DEF ExportAgain, Exports, Refused
<1>6. ASSUME NEW l \in Locks, SetDirection(l) \/ OpenValue(l)
      PROVE  InitRecovers' /\ Freed'
  BY <1>6 DEF SetDirection, OpenValue, kernel
<1>7. ASSUME NEW l \in Locks, NEW on \in BOOLEAN, DevWrite(l, on)
      PROVE  InitRecovers' /\ Freed'
  BY <1>7 DEF DevWrite
<1>8. ASSUME NEW l \in Locks, Exit(l) PROVE InitRecovers' /\ Freed'
  BY <1>8 DEF Exit, Unexported, kernel
<1>9. CASE UNCHANGED vars
  BY <1>9 DEF vars, object, kernel
<1> QED
  BY <1>1, <1>2, <1>3, <1>4, <1>5, <1>6, <1>7, <1>8, <1>9 DEF Next, Step

(* init succeeds whatever the process before left exported, when the files *)
(* can be opened and written (gpio.cpp:87-110).                             *)
THEOREM InitAlwaysRecovers == ASSUME ~MayFail PROVE Spec => []InitRecovers
<1>1. Init => IInv /\ InitRecovers /\ Freed
  BY InitInv DEF Init, All, InitRecovers, Freed, At
<1>2. IInv /\ InitRecovers /\ Freed /\ [Next]_vars
        => IInv' /\ InitRecovers' /\ Freed'
  BY StepInv, StepRecovers
<1> QED
  BY <1>1, <1>2, PTL DEF Spec
=============================================================================
