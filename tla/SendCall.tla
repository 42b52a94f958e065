------------------------------ MODULE SendCall ------------------------------
(***************************************************************************)
(* What a caller of send_tcp_data may rely on: it is told TRUE only when   *)
(* the server was sent the text since the call began, no call sends it     *)
(* more than MaxCopies times, and of the messages of the server that come  *)
(* in meanwhile those that are not lost go to gprs_cache in their order.   *)
(***************************************************************************)
EXTENDS Integers, Sequences

CONSTANT MaxCopies

VARIABLES
  calling,  \* send_tcp_data is running
  result,   \* what the last call answered
  copies,   \* how often the text of the last call was sent to the server
  input,    \* messages of the server in the serial input
  kept      \* messages of the server in gprs_cache
vars == <<calling, result, copies, input, kept>>

Init == /\ calling = FALSE /\ result = FALSE /\ copies = 0
        /\ input = <<>> /\ kept = <<>>

Begin ==
  /\ ~calling /\ calling' = TRUE /\ copies' = 0
  /\ UNCHANGED <<result, input, kept>>

Deliver ==
  /\ calling /\ copies < MaxCopies /\ copies' = copies + 1
  /\ UNCHANGED <<calling, result, input, kept>>

\* One more message of the server.
Arrive ==
  /\ Len(input') = Len(input) + 1 /\ SubSeq(input', 1, Len(input)) = input
  /\ UNCHANGED <<calling, result, copies, kept>>

\* The first n messages are read, and all but the first lost of them kept.
Fate(n, lost) ==
  /\ input' = SubSeq(input, n + 1, Len(input))
  /\ kept' = kept \o SubSeq(input, lost + 1, n)

End ==
  /\ calling /\ calling' = FALSE
  /\ result' \in BOOLEAN /\ (result' => copies > 0)
  /\ UNCHANGED copies

Read ==
  /\ \E n \in 0..Len(input) : \E lost \in 0..n : Fate(n, lost)
  /\ End \/ UNCHANGED <<calling, result, copies>>

\* rec_tcp_data between two calls uses the cache up.
Listen ==
  /\ ~calling /\ kept' = <<>>
  /\ \E n \in 0..Len(input) : input' = SubSeq(input, n + 1, Len(input))
  /\ UNCHANGED <<calling, result, copies>>

Next == Begin \/ Deliver \/ Arrive \/ Read \/ Listen
Spec == Init /\ [][Next]_vars
=============================================================================
