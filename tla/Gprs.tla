-------------------------------- MODULE Gprs --------------------------------
(***************************************************************************)
(* gprs.cpp against the modem: send_tcp_data and tcp_status_check, the     *)
(* retry loops of send_command_check, and what happens meanwhile to the    *)
(* messages of the server, which share the serial line with the answers.   *)
(* One call at a time; rec_tcp_data is one step between the calls.         *)
(*                                                                         *)
(* The line carries pieces: read() returns what has arrived (cfmakeraw     *)
(* sets VMIN = 1, VTIME = 0) and may so cut a text in two.                 *)
(***************************************************************************)
EXTENDS Integers, Sequences, SequencesExt

CONSTANTS
  CmdTries,     \* writes of one command (3)
  StartTries,   \* commands AT+CIPSEND for one text (5)
  DataTries,    \* texts for one call (5)
  StatusTries,  \* questions of one status check (100)
  MaxCalls,     \* bound: calls made
  MaxServed,    \* bound: messages the server sends, and times SMS Ready is said
  MaxReady,     \* bound: times SMS Ready is said
  Lateness,     \* bound: answers not yet come when a read times out
  Cuts,         \* whether a read may cut a text in two
  MayFail,      \* whether a write to the serial line may fail or be cut short
  LinkMayDrop   \* whether the TCP connection may be lost

ASSUME GprsConstants ==
  /\ CmdTries \in Nat \ {0} /\ StartTries \in Nat \ {0}
  /\ DataTries \in Nat \ {0} /\ StatusTries \in Nat \ {0}
  /\ MaxCalls \in Nat /\ MaxServed \in Nat /\ MaxReady \in Nat /\ Lateness \in Nat
  /\ Cuts \in BOOLEAN /\ MayFail \in BOOLEAN /\ LinkMayDrop \in BOOLEAN

VARIABLES
  pc,       \* where the caller is
  goal,     \* the command in send_command_check
  retry,    \* send_command_check: writes left
  times,    \* send_tcp_data: AT+CIPSEND left; tcp_status_check: questions left
  times_1,  \* send_tcp_data: texts left
  result,   \* what the last send_tcp_data answered
  cache,    \* gprs_cache.orig_text, without the answers in it
  line,     \* the serial input
  mode,     \* the modem: "command", or "prompt" once it has said >
  due,      \* texts the modem has not written yet
  link,     \* the TCP connection
  calls, served, ready, copies   \* history

loops  == <<goal, retry, times, times_1>>
modem  == <<mode, due, link>>
counts == <<calls, served, ready>>
vars   == <<pc, loops, result, cache, line, modem, counts, copies>>
-----------------------------------------------------------------------------
Answers == {"Prompt", "SEND_OK", "SEND_FAIL", "ERROR", "CONNECT_OK", "CONNECTING",
            "CLOSED"}
Texts   == Answers \cup {"SMS_Ready", "message"}

\* A text of the modem, of = 0, or message number of from the server.
Said  == [text : Texts, of : Nat]
Piece == [text : Texts, of : Nat, half : {1, 2}]
Half(s, h) == [text |-> s.text, of |-> s.of, half |-> h]
Halves(s)  == IF s.text = "Prompt" THEN <<Half(s, 1)>> ELSE <<Half(s, 1), Half(s, 2)>>

\* A part of a message of the server, and those there are in a text.
OfServer(p) == p.text = "message"
Parts(s) ==
  FlattenSeq([i \in 1..Len(s) |-> IF OfServer(s[i]) THEN <<s[i]>> ELSE <<>>])

\* strstr: the text is there as a whole.
Occurs(text, s) ==
  \E i \in 1..Len(s) :
    /\ s[i].text = text /\ s[i].half = 1
    /\ text # "Prompt" => i < Len(s) /\ s[i + 1].text = text /\ s[i + 1].half = 2

\* Variant: any verdict on the text will do.
Awaited_Any(g) == IF g = "start" THEN {"Prompt"} ELSE {"SEND_OK", "SEND_FAIL"}
\* The check text of a command.
Awaited(g) == IF g = "start" THEN {"Prompt"} ELSE {"SEND_OK"}
Answered(s) == \E text \in Awaited(goal) : Occurs(text, s)

\* The lengths of what one read may return.
Reads == {n \in 1..Len(line) : Cuts \/ n = Len(line) \/ line[n + 1].half = 1}
Chunk(n) == SubSeq(line, 1, n)
Taken(n) == line' = SubSeq(line, n + 1, Len(line))

\* select() runs into its time limit.
TimedOut == line = <<>> /\ Len(due) <= Lateness

Init ==
  /\ pc = "idle" /\ goal = "start" /\ retry = 0 /\ times = 0 /\ times_1 = 0
  /\ result = FALSE /\ cache = <<>> /\ line = <<>>
  /\ mode = "command" /\ due = <<>> /\ link = TRUE
  /\ calls = 0 /\ served = 0 /\ ready = 0 /\ copies = 0
-----------------------------------------------------------------------------
(* The modem's side of a write.                                            *)

Says(text) == due' = Append(due, [text |-> text, of |-> 0])

\* AT+CIPSEND opens the prompt.  In an open one it is text, as is any command.
TakesStart ==
  /\ \/ mode = "prompt" /\ UNCHANGED <<mode, due>>
     \/ mode = "command" /\ link /\ mode' = "prompt" /\ Says("Prompt")
     \/ mode = "command" /\ ~link /\ UNCHANGED mode /\ Says("ERROR")
  /\ UNCHANGED copies

\* The text ends with 0x1A and closes the prompt; without one it is noise.
TakesData ==
  \/ /\ mode = "prompt" /\ mode' = "command"
     /\ \/ link /\ Says("SEND_OK") /\ copies' = copies + 1
        \/ Says("SEND_FAIL") /\ UNCHANGED copies
  \/ /\ mode = "command" /\ (UNCHANGED due \/ Says("ERROR"))
     /\ UNCHANGED <<mode, copies>>

\* AT+CIPSTATUS: CONNECT OK, TCP CONNECTING, or one of the words with CLOSED.
TakesStatus ==
  /\ \/ mode = "prompt" /\ UNCHANGED due
     \/ mode = "command" /\ link /\ Says("CONNECT_OK")
     \/ mode = "command" /\ ~link /\ (Says("CONNECTING") \/ Says("CLOSED"))
  /\ UNCHANGED <<mode, copies>>

\* A part of the bytes, the rest of which send_data flushes: no command, but
\* more text for an open prompt.
CutShort == UNCHANGED <<mode, due, copies>>
-----------------------------------------------------------------------------
(* send_command_check, and the loops of send_tcp_data around it.           *)

StartCommand(g) == pc' = "write" /\ goal' = g /\ retry' = CmdTries
Return(r)       == pc' = "idle" /\ result' = r /\ UNCHANGED loops

\* Variant: the loop for the text has no end.
TextFails_Endless ==
  /\ goal = "data" /\ times' = StartTries - 1 /\ StartCommand("start")
  /\ UNCHANGED <<times_1, result>>
TextFails ==
  /\ goal = "data"
  /\ IF times_1 = 0 THEN Return(FALSE)
     ELSE /\ times_1' = times_1 - 1 /\ times' = StartTries - 1
          /\ StartCommand("start") /\ UNCHANGED result

StartFails ==
  /\ goal = "start"
  /\ IF times = 0 THEN Return(FALSE)
     ELSE /\ times' = times - 1 /\ StartCommand("start")
          /\ UNCHANGED <<times_1, result>>

\* send_command_check returns TRUE: the loop counters, already decremented,
\* decide once more (times <= 0, times_1 <= 0).
Succeeds ==
  \/ /\ goal = "start" /\ times > 0 /\ StartCommand("data")
     /\ UNCHANGED <<times, times_1, result>>
  \/ goal = "start" /\ times = 0 /\ Return(FALSE)
  \/ goal = "data" /\ Return(times_1 > 0)

Send ==
  /\ pc = "idle" /\ calls < MaxCalls /\ calls' = calls + 1
  /\ times_1' = DataTries - 1 /\ times' = StartTries - 1 /\ StartCommand("start")
  /\ copies' = 0
  /\ UNCHANGED <<result, cache, line, modem, served, ready>>

Write ==
  /\ pc = "write" /\ retry > 0 /\ retry' = retry - 1
  /\ \/ pc' = "read" /\ (IF goal = "start" THEN TakesStart ELSE TakesData)
     \/ MayFail /\ UNCHANGED <<pc, mode, due, copies>>
     \/ MayFail /\ pc' = "read" /\ CutShort
  /\ UNCHANGED <<goal, times, times_1, result, cache, line, link, counts>>

\* The writes are used up.
GiveUp ==
  /\ pc = "write" /\ retry = 0 /\ (StartFails \/ TextFails)
  /\ UNCHANGED <<cache, line, modem, counts, copies>>

ReadNothing ==
  /\ pc = "read" /\ TimedOut /\ pc' = "write"
  /\ UNCHANGED <<loops, result, cache, line, modem, counts, copies>>

\* SMS Ready is looked for first, and gives the write back.
ReadReady ==
  /\ pc = "read" /\ pc' = "write" /\ retry' = retry + 1
  /\ \E n \in Reads : Occurs("SMS_Ready", Chunk(n)) /\ Taken(n)
  /\ UNCHANGED <<goal, times, times_1, result, cache, modem, counts, copies>>

Keep(s) == cache' = cache \o Parts(s)

ReadOther ==
  /\ pc = "read" /\ pc' = "write"
  /\ \E n \in Reads :
       /\ ~Occurs("SMS_Ready", Chunk(n)) /\ ~Answered(Chunk(n))
       /\ Taken(n) /\ Keep(Chunk(n))
  /\ UNCHANGED <<loops, result, modem, counts, copies>>

\* The answer is there, but counts only with a write left (retry <= 0).
ReadAnswer ==
  /\ pc = "read"
  /\ \E n \in Reads :
       ~Occurs("SMS_Ready", Chunk(n)) /\ Answered(Chunk(n)) /\ Taken(n)
  /\ IF retry > 0 THEN Succeeds ELSE StartFails \/ TextFails
  /\ UNCHANGED <<cache, modem, counts, copies>>

SendTcpData == \/ Send \/ Write \/ GiveUp \/ ReadNothing \/ ReadReady
               \/ ReadOther \/ ReadAnswer
-----------------------------------------------------------------------------
(* tcp_status_check.                                                       *)

Check ==
  /\ pc = "idle" /\ calls < MaxCalls /\ calls' = calls + 1
  /\ times' = StatusTries - 1 /\ pc' = "stray"
  /\ UNCHANGED <<goal, retry, times_1, result, cache, line, modem, served, ready, copies>>

\* What lies about is read first, for the cache.
CheckStray ==
  /\ pc = "stray" /\ pc' = "ask"
  /\ \/ TimedOut /\ UNCHANGED <<cache, line>>
     \/ \E n \in Reads : Taken(n) /\ Keep(Chunk(n))
  /\ UNCHANGED <<loops, result, modem, counts, copies>>

\* The next turn of the loop, or its end.
NextQuestion ==
  IF times > 0 THEN times' = times - 1 /\ pc' = "stray"
               ELSE UNCHANGED times /\ pc' = "idle"

CheckAsk ==
  /\ pc = "ask"
  /\ \/ pc' = "told" /\ TakesStatus /\ UNCHANGED times
     \/ MayFail /\ NextQuestion /\ UNCHANGED <<mode, due, copies>>
     \/ MayFail /\ pc' = "told" /\ CutShort /\ UNCHANGED times
  /\ UNCHANGED <<goal, retry, times_1, result, cache, line, link, counts>>

\* CONNECT OK ends the check well.  CLOSED ends it badly, but is looked for only in an
\* answer that also says TCP CONNECTING.
Decided(s) ==
  \/ Occurs("CONNECT_OK", s)
  \/ Occurs("CONNECTING", s) /\ Occurs("CLOSED", s)
CheckTold ==
  /\ pc = "told"
  /\ \/ TimedOut /\ NextQuestion /\ UNCHANGED line
     \/ \E n \in Reads :
          /\ Taken(n)
          /\ IF Decided(Chunk(n)) THEN pc' = "idle" /\ UNCHANGED times ELSE NextQuestion
  /\ UNCHANGED <<goal, retry, times_1, result, cache, modem, counts, copies>>

TcpStatusCheck == Check \/ CheckStray \/ CheckAsk \/ CheckTold
-----------------------------------------------------------------------------
(* Between the calls, and around them.                                     *)

\* rec_tcp_data, as far as it matters here: the cache is used up or thrown
\* away, and the line is read.
Listen ==
  /\ pc = "idle" /\ cache' = <<>>
  /\ UNCHANGED line \/ \E n \in Reads : Taken(n)
  /\ UNCHANGED <<pc, loops, result, modem, counts, copies>>

ModemWrites ==
  /\ due # <<>> /\ due' = Tail(due) /\ line' = line \o Halves(Head(due))
  /\ UNCHANGED <<pc, loops, result, cache, mode, link, counts, copies>>

ServerWrites ==
  /\ link /\ served + ready < MaxServed /\ served' = served + 1
  /\ line' = line \o Halves([text |-> "message", of |-> served'])
  /\ UNCHANGED <<pc, loops, result, cache, modem, calls, ready, copies>>

ModemReady ==
  /\ ready < MaxReady /\ served + ready < MaxServed /\ ready' = ready + 1
  /\ due' = Append(due, [text |-> "SMS_Ready", of |-> 0])
  /\ UNCHANGED <<pc, loops, result, cache, line, mode, link, calls, served, copies>>

\* The modem says CLOSED, and leaves the prompt.
LinkDrops ==
  /\ LinkMayDrop /\ link /\ link' = FALSE
  /\ mode' = "command" /\ Says("CLOSED")
  /\ UNCHANGED <<pc, loops, result, cache, line, counts, copies>>

Done == pc = "idle" /\ calls = MaxCalls /\ UNCHANGED vars

Caller == SendTcpData \/ TcpStatusCheck
Next == \/ SendTcpData \/ TcpStatusCheck \/ Listen
        \/ ModemWrites \/ ServerWrites \/ ModemReady \/ LinkDrops \/ Done

Spec == Init /\ [][Next]_vars

\* The caller goes on, and the modem writes what it has to say.
LiveSpec == Spec /\ WF_vars(Caller) /\ WF_vars(ModemWrites)
=============================================================================
