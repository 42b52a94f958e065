----------------------------- MODULE GprsProps -----------------------------
(***************************************************************************)
(* What a modem dialogue must keep to: the properties of Gprs.             *)
(***************************************************************************)
EXTENDS Gprs

\* The Boolean variables, and the others but gprs_cache.
FlagsOK == result \in BOOLEAN /\ link \in BOOLEAN
StateOK ==
  /\ pc \in {"idle", "write", "read", "stray", "ask", "told"}
  /\ goal \in {"start", "data"}
  /\ retry \in 0..CmdTries /\ (pc = "read" => retry < CmdTries)
  /\ times \in 0..(StartTries + StatusTries) /\ times_1 \in 0..DataTries
  /\ line \in Seq(Piece) /\ due \in Seq(Said) /\ mode \in {"command", "prompt"}
  /\ calls \in Nat /\ served \in Nat /\ ready \in Nat /\ copies \in Nat

\* Every variable has its type, and no loop counter becomes negative.
TypeOK == StateOK /\ FlagsOK /\ cache \in Seq(Piece)

\* A send_tcp_data is running.
Calling == pc \in {"write", "read"}

\* send_tcp_data says TRUE only if the server was sent the text since the call
\* began, and no call sends it more than DataTries times, however late, mixed
\* or cut the answers come (gprs.cpp:435-504, 555-638).
Delivered == /\ ~Calling /\ result => copies > 0
             /\ copies <= DataTries

\* The messages of the server on a text, as long as a part of them is there,
\* and in gprs_cache those there whole.
Ends(p)     == OfServer(p) /\ p.half = 2
Whole(s, k) == k > 1 /\ s[k - 1].of = s[k].of
OnLine(s) ==
  FlattenSeq([k \in 1..Len(s) |-> IF Ends(s[k]) THEN <<s[k].of>> ELSE <<>>])
InCache(s) ==
  FlattenSeq([k \in 1..Len(s) |-> IF Whole(s, k) THEN <<s[k].of>> ELSE <<>>])

\* The dialogue implements SendCall: besides Delivered, the messages of the
\* server read in it reach gprs_cache in their order or not at all, none twice.
Call == INSTANCE SendCall WITH
  MaxCopies <- DataTries, calling <- Calling, input <- OnLine(line), kept <- InCache(cache)
SendCallSpec == Call!Spec

\* Every call returns, however often answers are late, lost or mixed up with
\* other texts; SMS Ready, which gives a write back, comes finitely often.
Returns == (pc # "idle") ~> (pc = "idle")

\* "Send command main text success, %d times, so break && return true!"
\* (gprs.cpp:604).
SuccessReturned ==
  [][pc = "read" /\ goal = "data" /\ retry > 0 /\ pc' = "idle"
       /\ Occurs("SEND_OK", SubSeq(line, 1, Len(line) - Len(line'))) => result']_vars
-----------------------------------------------------------------------------
(* Why Delivered holds: what is unread, on the line or still due.          *)

Unread(text) == \/ \E i \in 1..Len(line) : line[i].text = text
                \/ \E i \in 1..Len(due)  : due[i].text = text

\* At most one > is unread.
Single ==
  /\ \A i, j \in 1..Len(line) : line[i].text = "Prompt" /\ line[j].text = "Prompt" => i = j
  /\ \A i, j \in 1..Len(due) : due[i].text = "Prompt" /\ due[j].text = "Prompt" => i = j
  /\ \A i \in 1..Len(line), j \in 1..Len(due) :
       ~(line[i].text = "Prompt" /\ due[j].text = "Prompt")

\* None is while the modem takes commands, or the text for an open prompt.
PromptRead ==
  (mode = "command" /\ link) \/ (Calling /\ goal = "data" /\ mode = "prompt")
    => ~Unread("Prompt")

\* A verdict on an earlier text comes before the next >.
VerdictFirst ==
  /\ \A i, j \in 1..Len(line) :
       line[i].text = "Prompt" /\ line[j].text = "SEND_OK" => j < i
  /\ \A i, j \in 1..Len(due) :
       due[i].text = "Prompt" /\ due[j].text = "SEND_OK" => j < i
  /\ \A i \in 1..Len(line), j \in 1..Len(due) :
       ~(line[i].text = "Prompt" /\ due[j].text = "SEND_OK")

\* So no verdict is unread before this text has been taken.
OwnVerdict == Calling /\ goal = "data" /\ copies = 0 => ~Unread("SEND_OK")

\* One text is taken at most once.
TextsTaken ==
  Calling => copies <= DataTries - 1 - times_1
                           + (IF goal = "data" /\ mode = "command" THEN 1 ELSE 0)

DeliveredInv ==
  Delivered /\ Single /\ PromptRead /\ VerdictFirst /\ OwnVerdict /\ TextsTaken
-----------------------------------------------------------------------------
(* Why SendCallSpec holds: how the messages of the server lie on the line. *)

\* The modem has none to write, and those that have come are numbered.
Numbered ==
  /\ \A i \in 1..Len(due)   : ~OfServer(due[i])
  /\ \A i \in 1..Len(line)  : OfServer(line[i]) => line[i].of <= served
  /\ \A i \in 1..Len(cache) : cache[i].of <= served

\* A message begins behind all parts of those before it.
Begins(p) == OfServer(p) /\ p.half = 1
InOrder ==
  /\ \A i, j \in 1..Len(line) :
       i < j /\ OfServer(line[i]) /\ Begins(line[j]) => line[i].of < line[j].of
  /\ \A i \in 1..Len(cache), j \in 1..Len(line) :
       Begins(line[j]) => cache[i].of < line[j].of

\* Nothing comes between its two parts.
Joined ==
  \A i, j \in 1..Len(line) :
    j = i + 1 /\ Ends(line[j]) => Begins(line[i]) /\ line[i].of = line[j].of

MessagesInv == cache \in Seq(Piece) /\ Numbered /\ InOrder /\ Joined
=============================================================================
