----------------------------- MODULE RecTcpData -----------------------------
(***************************************************************************)
(* rec_tcp_data (gprs.cpp) on the text as it comes: messages in pieces,    *)
(* read in chunks, put together or thrown away, with gprs_cache before and *)
(* the dialogues of the other threads in between.                          *)
(***************************************************************************)
EXTENDS Reception, SequencesExt

CONSTANTS
  Reads,       \* reads one call makes (MAX_REC/32 - 1)
  MaxSent,     \* bound: messages the server sends
  SentKinds,   \* their kinds
  MaxPieces,   \* bound: pieces a message comes in
  Talk,        \* whether other threads have dialogues with the modem
  Silence,     \* whether the rest of a message may be late
  LinkMayDrop, \* whether the connection may be lost
  Fills        \* whether a read may fill tmp_buf to its end

ASSUME RecConstantsOK ==
  /\ Reads \in Nat \ {0} /\ MaxSent \in Nat /\ MaxPieces \in Nat \ {0}
  /\ SentKinds \subseteq Kinds
  /\ {Talk, Silence, LinkMayDrop, Fills} \subseteq BOOLEAN

\* The k-th of the n pieces of a message; bare: its brace is its first
\* character.  "CLOSED", which the modem says of the connection, has no pieces.
Piece  == [tok : Token, id : Nat, k : Nat, n : Nat, bare : BOOLEAN]
Closed == [tok |-> Nothing, id |-> 0, k |-> 0, n |-> 9, bare |-> FALSE]
\* A brace that nobody sent: the opening one for k = 1, the closing one for 2.
Stray(k) == [tok |-> Garbled, id |-> 0, k |-> k, n |-> 2, bare |-> FALSE]

VARIABLES
  line,     \* the serial input
  cached,   \* gprs_cache.orig_text
  pc,       \* "idle", or where the call is: "first", "more", "finish"
  text,     \* tmp_str
  times,
  got,      \* what the last call returned
  sent,     \* messages the server has sent
  link,     \* the connection
  calm      \* history: each message came alone and all at once, into a buffer with room

vars == <<line, cached, pc, text, times, got, sent, link, calm>>

Init == /\ line = <<>> /\ cached = <<>> /\ pc = "idle" /\ text = <<>> /\ times = 0
        /\ got = [ok |-> FALSE, r |-> NoReply] /\ sent = 0 /\ link = TRUE /\ calm = TRUE
-----------------------------------------------------------------------------
(* Reading a text.                                                         *)

\* The pieces with an opening brace, and with a closing one.
Opening(s) == {i \in 1..Len(s) : IsObject(s[i].tok) /\ s[i].k = 1}
Closing(s) == {i \in 1..Len(s) : IsObject(s[i].tok) /\ s[i].k = s[i].n}
First(I)   == CHOOSE i \in I : \A j \in I : i <= j

\* All pieces of a message from the i-th of the text on.
Complete(s, i) ==
  /\ s[i].k = 1 /\ i + s[i].n - 1 <= Len(s)
  /\ \A d \in 0..(s[i].n - 1) : s[i + d].id = s[i].id /\ s[i + d].k = d + 1

HasHeart(s)  == \E i \in 1..Len(s) : s[i].tok.kind = "Heart" /\ Complete(s, i)
HasClosed(s) == \E i \in 1..Len(s) : s[i] = Closed
HasBraces(s) == Opening(s) # {} /\ Closing(s) # {}

\* substr(bj, ej-bj+1): with the closing brace behind the opening one, what
\* stands between them; with it before, all the rest, unless they touch:
\* then nothing.
Found(s) ==
  LET bj == First(Opening(s))
      ej == First(Closing(s))
  IN IF ~Complete(s, bj) \/ (ej = bj - 1 /\ s[bj].bare) THEN Nothing ELSE s[bj].tok

\* What gprs_cache answers.
Cached(s) ==
  [obj   |-> IF HasBraces(s) /\ TypeOf(Found(s).kind) > 0 THEN Found(s) ELSE Nothing,
   heart |-> HasHeart(s)]
CachedHit(s) == Cached(s).heart \/ IsObject(Cached(s).obj)

Return(ok, r) ==
  /\ got' = [ok |-> ok, r |-> r] /\ text' = <<>> /\ times' = 0 /\ pc' = "idle"

\* Variant: the cache is not cleared when it was answered from.
Call_KeepsCache ==
  /\ pc = "idle"
  /\ IF CachedHit(cached)
     THEN Return(TRUE, Cached(cached)) /\ UNCHANGED cached
     ELSE cached' = <<>> /\ pc' = "first" /\ UNCHANGED <<text, times, got>>
  /\ UNCHANGED <<line, sent, link, calm>>

\* The call starts: gprs_cache answers or is forgotten.
Call ==
  /\ pc = "idle" /\ cached' = <<>>
  /\ IF CachedHit(cached)
     THEN Return(TRUE, Cached(cached))
     ELSE pc' = "first" /\ UNCHANGED <<text, times, got>>
  /\ UNCHANGED <<line, sent, link, calm>>

\* read_data: what has come so far, whatever that is, or a time-out.
\* A buffer that is full to its end has no zero behind the text, and what
\* lies there in the stack belongs to the string, braces included.
Takes(s) ==
  \E n \in 1..Len(line) :
    LET chunk == SubSeq(line, 1, n)
    IN  /\ line' = SubSeq(line, n + 1, Len(line))
        /\ \/ s = chunk /\ UNCHANGED calm
           \/ Fills /\ s \in {Append(chunk, Stray(k)) : k \in {1, 2}} /\ calm' = FALSE
TimesOut == (Silence \/ line = <<>>) /\ calm' = (calm /\ line = <<>>)
Chunks   == {SubSeq(line, 1, n) : n \in 1..Len(line)}
Strings  == Chunks \cup {Append(c, Stray(k)) : c \in Chunks, k \in {1, 2}}

\* Variant: a text with an opening brace only is judged at once.
FirstRead_Hasty ==
  /\ pc = "first" /\ UNCHANGED <<cached, sent, link>>
  /\ \/ TimesOut /\ Return(FALSE, NoReply) /\ UNCHANGED line
     \/ \E s \in Strings :
          /\ Takes(s)
          /\ IF HasBraces(s)
             THEN Return(TRUE, [obj |-> Found(s), heart |-> HasHeart(s)])
             ELSE Return(HasHeart(s), [obj |-> Nothing, heart |-> HasHeart(s)])

\* The first read: a Heart without braces, a pair of braces, or neither
\* settle the call; an opening brace alone calls for more.
FirstRead ==
  /\ pc = "first" /\ UNCHANGED <<cached, sent, link>>
  /\ \/ TimesOut /\ Return(FALSE, NoReply) /\ UNCHANGED line
     \/ \E s \in Strings :
          /\ Takes(s)
          /\ \/ /\ Opening(s) = {}
                /\ Return(HasHeart(s), [obj |-> Nothing, heart |-> HasHeart(s)])
             \/ /\ HasBraces(s)
                /\ Return(TRUE, [obj |-> Found(s), heart |-> HasHeart(s)])
             \/ /\ Opening(s) # {} /\ Closing(s) = {}
                /\ text' = s /\ times' = 1 /\ pc' = "more" /\ UNCHANGED got

\* Variant: one read too many.
MoreReads_OneMore ==
  /\ pc = "more" /\ UNCHANGED <<cached, got, sent, link>>
  /\ \/ /\ times <= Reads
        /\ \E s \in Strings :
             /\ Takes(s) /\ text' = text \o s /\ times' = times + 1
             /\ pc' = IF Closing(text') # {} THEN "finish" ELSE "more"
     \/ /\ (times > Reads /\ UNCHANGED calm) \/ TimesOut
        /\ pc' = "finish" /\ UNCHANGED <<line, text, times>>

\* The following reads, up to a closing brace, a time-out or the last one.
MoreReads ==
  /\ pc = "more" /\ UNCHANGED <<cached, got, sent, link>>
  /\ \/ /\ times < Reads
        /\ \E s \in Strings :
             /\ Takes(s) /\ text' = text \o s /\ times' = times + 1
             /\ pc' = IF Closing(text') # {} THEN "finish" ELSE "more"
     \/ /\ (times >= Reads /\ UNCHANGED calm) \/ TimesOut
        /\ pc' = "finish" /\ UNCHANGED <<line, text, times>>

\* Variant: an opening brace is taken for a whole object.
Finish_Cut ==
  /\ pc = "finish" /\ UNCHANGED <<line, cached, sent, link, calm>>
  /\ Return(~HasClosed(text), [obj |-> text[First(Opening(text))].tok,
                               heart |-> HasHeart(text)])

\* The judgement: CLOSED anywhere, a pair of braces, or neither, which is a
\* success without data.
Finish ==
  /\ pc = "finish" /\ UNCHANGED <<line, cached, sent, link, calm>>
  /\ \/ HasClosed(text) /\ Return(FALSE, NoReply)
     \/ /\ ~HasClosed(text) /\ HasBraces(text)
        /\ Return(TRUE, [obj |-> Found(text), heart |-> HasHeart(text)])
     \/ ~HasClosed(text) /\ ~HasBraces(text) /\ Return(TRUE, NoReply)

\* send_command_check or tcp_status_check of whoever has the modem reads
\* pieces in passing: they are dropped with the answer it awaits, or cached.
Dialogue ==
  /\ Talk /\ pc = "idle" /\ line # <<>> /\ calm' = FALSE
  /\ line' = Tail(line)
  /\ cached' \in {cached, Append(cached, Head(line))}
  /\ UNCHANGED <<pc, text, times, got, sent, link>>

ServerSends ==
  /\ link /\ sent < MaxSent /\ sent' = sent + 1
  /\ calm' = (calm /\ line = <<>> /\ pc = "idle")
  /\ \E kind \in SentKinds, n \in 1..MaxPieces, bare \in BOOLEAN :
       line' = line \o
         [k \in 1..n |-> [tok |-> [kind |-> kind, of |-> IF kind = "Open" THEN sent' ELSE 0],
                          id |-> sent', k |-> k, n |-> n, bare |-> bare]]
  /\ UNCHANGED <<cached, pc, text, times, got, link>>

\* The modem says that the connection is closed; nothing comes after that.
LinkDrops ==
  /\ LinkMayDrop /\ link /\ link' = FALSE /\ calm' = FALSE
  /\ line' = Append(line, Closed)
  /\ UNCHANGED <<cached, pc, text, times, got, sent>>

RecTcpData == Call \/ FirstRead \/ MoreReads \/ Finish
Next == RecTcpData \/ Dialogue \/ ServerSends \/ LinkDrops

Spec == Init /\ [][Next]_vars
\* The caller polls, as main does, and each read returns.
LiveSpec == Spec /\ WF_vars(RecTcpData)
-----------------------------------------------------------------------------
\* Every variable keeps its type; a text in the making has an opening brace
\* and is not longer than the reads allow.
TypeOK ==
  /\ line \in Seq(Piece) /\ cached \in Seq(Piece) /\ text \in Seq(Piece)
  /\ pc \in {"idle", "first", "more", "finish"} /\ times \in 0..Reads
  /\ got \in [ok : BOOLEAN, r : Reply] /\ sent \in 0..MaxSent
  /\ link \in BOOLEAN /\ calm \in BOOLEAN
  /\ pc \in {"idle", "first"} <=> times = 0
  /\ pc \in {"more", "finish"} <=> Opening(text) # {}

(***************************************************************************)
(* As whole messages.  A message is on the wire until the reader of its    *)
(* first piece is done with it, and one whose pieces so far are at the end *)
(* of the cache until the next of them is read.                            *)
(***************************************************************************)
Begins(p) == p.k = 1 /\ p.id > 0
Begun(s)  == FlattenSeq([i \in 1..Len(s) |-> IF Begins(s[i]) THEN <<s[i].tok>> ELSE <<>>])

\* The pieces c[i..] of a message go on at the front of the input.
HeldFrom(i) ==
  /\ pc = "idle" /\ line # <<>> /\ cached[i].k = 1
  /\ \A j \in i..Len(cached) : cached[j].id = cached[i].id /\ cached[j].k = j - i + 1
  /\ Head(line).id = cached[i].id /\ Head(line).k = Len(cached) - i + 2
Held == {i \in 1..Len(cached) : HeldFrom(i)}

\* A stray closing brace right before an opening one hides the object.
Spoilt(s, i) ==
  /\ s[i].bare /\ i > 1 /\ i = First(Opening(s))
  /\ i - 1 = First(Closing(s) \cup {Len(s) + 1})

Whole(s, i) ==
  IF s[i].k # 1 \/ i \in Held THEN <<>>
  ELSE IF ~IsObject(s[i].tok) THEN (IF Complete(s, i) THEN <<s[i].tok>> ELSE <<>>)
  ELSE <<IF Complete(s, i) /\ ~Spoilt(s, i) THEN s[i].tok ELSE Garbled>>

\* What the server may send.
Messages == {[kind |-> k, of |-> IF k = "Open" THEN i ELSE 0] : k \in SentKinds, i \in 1..MaxSent}

Abs == INSTANCE ReceiveCall WITH
  wire  <- Begun(text) \o [i \in 1..Cardinality(Held) |-> Head(line).tok] \o Begun(line),
  cache <- FlattenSeq([i \in 1..Len(cached) |-> Whole(cached, i)]),
  busy  <- pc # "idle"

\* Piece by piece, rec_tcp_data does what BoxApp takes it to do with whole
\* messages, however they are cut and whatever the dialogues took of them.
ReceiveCallSpec == Abs!Spec

\* A command that comes alone, in no more pieces than one call reads, without
\* a pause and without filling tmp_buf (gprs.cpp:827, 882), is put together
\* again and returned to main.
Reassembled ==
  \A i \in 1..MaxSent :
    (\E j \in 1..Len(line) : line[j].tok = [kind |-> "Open", of |-> i] /\ line[j].n <= Reads)
      ~> (~calm \/ (got.ok /\ got.r.obj = [kind |-> "Open", of |-> i]))
=============================================================================
