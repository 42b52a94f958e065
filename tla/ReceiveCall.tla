----------------------------- MODULE ReceiveCall -----------------------------
(***************************************************************************)
(* What rec_tcp_data promises its callers, in whole messages: the steps    *)
(* BoxApp takes in one (Receive) and the modem dialogues between them.     *)
(***************************************************************************)
EXTENDS Reception

CONSTANT Messages   \* what the server may send

VARIABLES
  wire,    \* messages on their way, the ones the running call took included
  cache,   \* gprs_cache
  busy,    \* whether a call is reading the serial input
  got      \* what the last call returned

vars == <<wire, cache, busy, got>>

Init == /\ wire = <<>> /\ cache = <<>> /\ busy = FALSE
        /\ got = [ok |-> FALSE, r |-> NoReply]

Arrives ==
  /\ \E tok \in Messages : wire' = Append(wire, tok)
  /\ UNCHANGED <<cache, busy, got>>

\* A dialogue of another thread reads a message in passing.
PassesBy ==
  /\ ~busy /\ wire # <<>>
  /\ wire' = Tail(wire) /\ cache' \in Passed(cache, Head(wire))
  /\ UNCHANGED <<busy, got>>

\* A call answers from gprs_cache, or clears it and turns to the input.
Ask ==
  /\ ~busy /\ cache' = <<>> /\ wire' \in Skips(wire)
  /\ IF CacheHit(cache)
     THEN got' = [ok |-> TRUE, r |-> FromCache(cache)] /\ UNCHANGED busy
     ELSE busy' = TRUE /\ UNCHANGED got

\* It returns, and what it read is gone.
Answer ==
  /\ busy /\ busy' = FALSE /\ UNCHANGED cache
  /\ \E n \in 0..Len(wire), ok \in BOOLEAN, r \in Results(cache, wire) :
       /\ Chunk(wire, n, ok, r) /\ wire' = SubSeq(wire, n + 1, Len(wire))
       /\ got' = [ok |-> ok, r |-> r]

Next == Arrives \/ PassesBy \/ Ask \/ Answer
Spec == Init /\ [][Next]_vars
=============================================================================
