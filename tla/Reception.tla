------------------------------ MODULE Reception ------------------------------
(***************************************************************************)
(* What the program understands of the text it gets: the messages of the   *)
(* server and their categories (hodgepodge.cpp, analysis_type), what is    *)
(* found in gprs_cache, and what one rec_tcp_data (gprs.cpp) may return    *)
(* and take off the serial input.  Texts are sequences of messages here;   *)
(* RecTcpData has the pieces in which they arrive.                         *)
(***************************************************************************)
EXTENDS MsgQueue

Kinds == {"Open", "OpenBad", "Junk", "Heart", "Ack", "Nack"}

\* A server message; of is the number of the command for an Open, of the
\* report it answers for an Ack or a Nack, else 0.
Token   == [kind : Kinds, of : Nat]
Nothing == [kind |-> "Heart", of |-> 0]
Garbled == [kind |-> "Junk", of |-> 0]
Reply   == [obj : Token, heart : BOOLEAN]
NoReply == [obj |-> Nothing, heart |-> FALSE]

\* analysis_type: the category of a JSON text, -1 when it has none.
TypeOf(kind) ==
  CASE kind \in {"Open", "OpenBad"} -> OPEN_DOOR_TYPE
    [] kind \in {"Ack", "Nack"}     -> MSG_TYPE
    [] kind = "Close"               -> CLOSE_DOOR_TYPE
    [] OTHER                        -> -1

IsObject(tok) == tok.kind # "Heart"

\* The place of the first {..} of a text: one index, or none.
FirstObject(s) ==
  {i \in 1..Len(s) : IsObject(s[i]) /\ \A j \in 1..(i - 1) : ~IsObject(s[j])}

\* That object, and whether the word Heart occurs in the text.
Digest(s) ==
  [obj   |-> IF FirstObject(s) = {} THEN Nothing
             ELSE s[CHOOSE i \in FirstObject(s) : TRUE],
   heart |-> \E i \in 1..Len(s) : s[i].kind = "Heart"]

\* What gprs_cache answers: its first object only if that has a category.
FromCache(s) ==
  LET d == Digest(s)
  IN [d EXCEPT !.obj = IF TypeOf(@.kind) > 0 THEN @ ELSE Nothing]
CacheHit(s) == FromCache(s).heart \/ IsObject(FromCache(s).obj)

\* What may be found in a stretch of the input: a message cut by silence, or
\* followed by a read too late, does not count.
Answers(s) == [obj : {Nothing, Digest(s).obj}, heart : {FALSE, Digest(s).heart}]

\* Clearing the cache loses the first message of w if its first pieces were in it.
Skips(w) == {w} \cup (IF w = <<>> THEN {} ELSE {Tail(w)})

\* The serial part of rec_tcp_data: of w it takes the messages up to the n-th.  A
\* success without any is the rest of a message that fills the buffer, with an
\* opening brace behind it.
Chunk(w, n, ok, r) == r \in IF ok THEN Answers(SubSeq(w, 1, n)) ELSE {NoReply}

\* Whatever a call may return that finds c in the cache and w on the input.
Results(c, w) ==
  [obj   : {Nothing, FromCache(c).obj} \cup {w[i] : i \in 1..Len(w)},
   heart : BOOLEAN]

\* What a dialogue that reads a message in passing makes of gprs_cache: the
\* answer it waited for came along and all is dropped, or the text is added,
\* whole or mutilated.
Passed(c, tok) == {c, Append(c, tok), Append(c, Garbled)}
=============================================================================
