------------------------------- MODULE Latch -------------------------------
(***************************************************************************)
(* What the program relies on in its locks (BoxApp's LockWrite): while one *)
(* is usable its pin moves only with is_on and to the same value; when it  *)
(* becomes usable the pin is low, whatever it was before; without a user   *)
(* it never rises.  So on an object that is opened once is_on is the pin.  *)
(***************************************************************************)
CONSTANT Locks
VARIABLES usable, isOn, pin
vars == <<usable, isOn, pin>>

Init == \A l \in Locks : ~usable[l] /\ ~isOn[l]

Start(l) == ~usable[l] /\ usable'[l] /\ isOn'[l] = isOn[l] /\ ~pin'[l]
Write(l) == /\ usable[l] /\ usable'[l]
            /\ isOn'[l] = ~isOn[l] /\ pin'[l] = isOn'[l]
\* lock::exit: the pin may fall, is_on stays.
Close(l) == usable[l] /\ ~usable'[l] /\ isOn'[l] = isOn[l] /\ (pin'[l] => pin[l])
\* The process ends, and the pin stays as it is.
Stop(l) == ~usable'[l] /\ ~isOn'[l] /\ pin'[l] = pin[l]
\* Without a process the pin may close, never open.
Fade(l) == ~usable[l] /\ ~usable'[l] /\ isOn'[l] = isOn[l] /\ ~pin'[l]
Keep(l) == <<usable[l], isOn[l], pin[l]>>' = <<usable[l], isOn[l], pin[l]>>

Next == \A l \in Locks :
          Start(l) \/ Write(l) \/ Close(l) \/ Stop(l) \/ Fade(l) \/ Keep(l)
Spec == Init /\ [][Next]_vars
=============================================================================
