----------------------------- MODULE DoorService -----------------------------
(***************************************************************************)
(* What the application promises about the lock: it opens only on a        *)
(* command of the server, and every command serves at most once.  The      *)
(* promise ends when the message thread reads a text that its owner has    *)
(* freed (see BoxApp), from then on nothing is said.                       *)
(***************************************************************************)
EXTENDS Integers

VARIABLES granted, used, unlocked, trusted
vars == <<granted, used, unlocked, trusted>>

\* The lock may have been left open.
Init == granted = 0 /\ used = {} /\ unlocked \in BOOLEAN /\ trusted = TRUE

\* The server issues the next command.
Grant == granted' = granted + 1 /\ UNCHANGED <<used, unlocked, trusted>>

\* A command not used before is used up; the lock opens if the write works.
Use ==
  /\ \E i \in (1..granted) \ used : used' = used \cup {i}
  /\ unlocked' \in {unlocked, TRUE}
  /\ UNCHANGED <<granted, trusted>>

Relock == unlocked' = FALSE /\ UNCHANGED <<granted, used, trusted>>

\* A freed text is read, or has been: anything may follow.
Lapse == trusted' = FALSE /\ granted' \in Nat /\ unlocked' \in BOOLEAN

Next == Grant \/ Use \/ Relock \/ Lapse
Spec == Init /\ [][Next]_vars
=============================================================================
