----------------------------- MODULE GprsProofs -----------------------------
(***************************************************************************)
(* Proofs about Gprs, for any number of tries, messages and late answers:  *)
(* the types, and what send_tcp_data's TRUE is worth.  The argument        *)
(* follows the > of the prompt: at most one is unread, and a text goes out *)
(* only after it was read, so the verdict that is read is on this text.    *)
(* Then the refinement of SendCall, for which the parts of the server's    *)
(* messages are followed from the line into gprs_cache.                    *)
(***************************************************************************)
EXTENDS GprsProps, SequenceTheorems, WellFoundedInduction, TLAPS

USE DEF Calling

\* What a read leaves on the line.
LEMMA Rest ==
  ASSUME line \in Seq(Piece), NEW n \in Reads, Taken(n)
  PROVE  /\ n \in 1..Len(line) /\ line' \in Seq(Piece) /\ Len(line') = Len(line) - n
         /\ \A i \in 1..Len(line') : line'[i] = line[i + n]
<1>1. n \in 1..Len(line) /\ line' = SubSeq(line, n + 1, Len(line))
  BY DEF Reads, Taken
<1>2. n + 1 \in Int /\ Len(line) \in Int /\ \A i \in (n + 1)..Len(line) : line[i] \in Piece
  BY <1>1
<1> QED BY <1>1, <1>2, SubSeqProperties

LEMMA HalvesType ==
  ASSUME NEW s \in Said
  PROVE  /\ Halves(s) \in Seq(Piece)
         /\ Len(Halves(s)) = IF s.text = "Prompt" THEN 1 ELSE 2
         /\ \A i \in 1..Len(Halves(s)) : Halves(s)[i].text = s.text
<1> DEFINE a == Half(s, 1)
           b == Half(s, 2)
<1>1. a \in Piece /\ b \in Piece /\ a.text = s.text /\ b.text = s.text
  BY DEF Half, Said, Piece
<1>2. Halves(s) = IF s.text = "Prompt" THEN <<a>> ELSE <<a, b>>
  BY DEF Halves
<1> HIDE DEF a, b
<1> QED BY <1>1, <1>2

\* What the modem's writing adds to it.
LEMMA Written ==
  ASSUME line \in Seq(Piece), due \in Seq(Said), due # <<>>,
         line' = line \o Halves(Head(due)), due' = Tail(due)
  PROVE  /\ line' \in Seq(Piece) /\ due' \in Seq(Said)
         /\ Len(line') \in Len(line)..(Len(line) + 2)
         /\ due[1].text = "Prompt" => Len(line') = Len(line) + 1
         /\ \A i \in 1..Len(line) : line'[i] = line[i]
         /\ \A i \in (Len(line) + 1)..Len(line') : line'[i].text = due[1].text
         /\ Len(due') = Len(due) - 1 /\ \A i \in 1..Len(due') : due'[i] = due[i + 1]
<1>1. Head(due) = due[1] /\ due[1] \in Said /\ Len(due) > 0
  OBVIOUS
<1>2. /\ due' \in Seq(Said) /\ Len(due') = Len(due) - 1
      /\ \A i \in 1..Len(due') : due'[i] = due[i + 1]
  BY <1>1
<1>3. /\ Halves(due[1]) \in Seq(Piece)
      /\ Len(Halves(due[1])) = IF due[1].text = "Prompt" THEN 1 ELSE 2
      /\ \A i \in 1..Len(Halves(due[1])) : Halves(due[1])[i].text = due[1].text
  BY <1>1, HalvesType
<1>4. /\ line' \in Seq(Piece) /\ Len(line') = Len(line) + Len(Halves(due[1]))
      /\ \A i \in 1..Len(line') :
           line'[i] = IF i <= Len(line) THEN line[i] ELSE Halves(due[1])[i - Len(line)]
  <2> DEFINE h == Halves(due[1])
  <2>1. line' = line \o h /\ h \in Seq(Piece)
    BY <1>1, <1>3
  <2> HIDE DEF h
  <2> QED BY <2>1 DEF h
<1> QED BY <1>2, <1>3, <1>4

\* What a write makes of the modem.
LEMMA StartEffect ==
  ASSUME TakesStart
  PROVE  /\ UNCHANGED copies
         /\ \/ mode = "prompt" /\ UNCHANGED <<mode, due>>
            \/ mode = "command" /\ link /\ mode' = "prompt" /\ Says("Prompt")
            \/ mode = "command" /\ ~link /\ UNCHANGED mode /\ Says("ERROR")
  BY Zenon DEF TakesStart

LEMMA DataEffect ==
  ASSUME TakesData
  PROVE  \/ mode = "prompt" /\ mode' = "command" /\ link
              /\ Says("SEND_OK") /\ copies' = copies + 1
         \/ mode = "prompt" /\ mode' = "command" /\ Says("SEND_FAIL") /\ UNCHANGED copies
         \/ mode = "command" /\ UNCHANGED <<mode, copies>> /\ (UNCHANGED due \/ Says("ERROR"))
  BY Zenon DEF TakesData

LEMMA StatusEffect ==
  ASSUME TakesStatus
  PROVE  /\ UNCHANGED <<mode, copies>>
         /\ UNCHANGED due \/ Says("CONNECT_OK") \/ Says("CONNECTING") \/ Says("CLOSED")
  BY Zenon DEF TakesStatus

\* A write cut short.
LEMMA CutEffect ==
  ASSUME CutShort
  PROVE  UNCHANGED <<mode, due, copies>>
  BY Zenon DEF CutShort

\* A text more to say.
LEMMA SaysType ==
  ASSUME due \in Seq(Said), NEW text \in Texts, Says(text)
  PROVE  /\ due' \in Seq(Said) /\ Len(due') = Len(due) + 1
         /\ \A i \in 1..Len(due) : due'[i] = due[i]
         /\ due'[Len(due) + 1].text = text
  BY DEF Says, Said

\* Every variable but the cache keeps its type.
THEOREM TypeCorrect == Spec => []StateOK
<1> USE GprsConstants
<1>1. Init => StateOK
  BY DEF Init, StateOK
<1>2. StateOK /\ [Next]_vars => StateOK'
  <2> SUFFICES ASSUME StateOK, [Next]_vars PROVE StateOK'
    OBVIOUS
  <2> USE DEF StateOK, loops, modem, counts
  <2>1. CASE Send
    BY <2>1 DEF Send, StartCommand
  <2>2. CASE Write
    <3>1. CASE TakesStart
      <4>1. due' \in Seq(Said) /\ mode' \in {"command", "prompt"} /\ copies' = copies
        BY <3>1, StartEffect, SaysType DEF Texts, Answers
      <4> QED BY <2>2, <3>1, <4>1 DEF Write
    <3>2. CASE TakesData
      <4>1. due' \in Seq(Said)
        <5>1. UNCHANGED due \/ \E text \in Texts : Says(text)
          BY <3>2, DataEffect, Zenon DEF Texts, Answers
        <5> QED BY <5>1, SaysType
      <4>2. copies' = copies + 1 \/ copies' = copies
        BY <3>2, DataEffect, Zenon
      <4>3. mode' \in {"command", "prompt"}
        BY <3>2, DataEffect, Zenon
      <4>4. copies' \in Nat
        BY <4>2
      <4> QED BY <2>2, <3>2, <4>1, <4>3, <4>4 DEF Write
    <3>3. CASE UNCHANGED <<pc, mode, due, copies>>
      BY <2>2, <3>3 DEF Write
    <3>4. CASE pc' = "read" /\ CutShort
      BY <2>2, <3>4, CutEffect DEF Write
    <3> QED BY <2>2, <3>1, <3>2, <3>3, <3>4 DEF Write
  <2>3. ASSUME StartFails \/ TextFails, UNCHANGED <<modem, counts, copies>>,
               line' \in Seq(Piece)
        PROVE  StateOK'
    BY <2>3 DEF StartFails, TextFails, Return, StartCommand
  <2>4. CASE GiveUp
    BY <2>3, <2>4 DEF GiveUp
  <2>5. CASE ReadNothing
    BY <2>5 DEF ReadNothing
  <2>6. CASE ReadReady
    <3>1. line' \in Seq(Piece)
      BY <2>6, Rest DEF ReadReady
    <3>2. pc' = "write" /\ retry' \in 0..CmdTries
      BY <2>6 DEF ReadReady
    <3>3. UNCHANGED <<goal, times, times_1, due, mode, calls, served, ready, copies>>
      BY <2>6, Zenon DEF ReadReady
    <3> QED BY <3>1, <3>2, <3>3
  <2>7. CASE ReadOther
    BY <2>7, Rest DEF ReadOther
  <2>8. CASE ReadAnswer
    <3>1. line' \in Seq(Piece)
      BY <2>8, Rest DEF ReadAnswer
    <3>2. CASE Succeeds
      <4>1. \/ pc' = "write" /\ goal' = "data" /\ retry' = CmdTries
            \/ pc' = "idle" /\ UNCHANGED <<goal, retry>>
        BY <3>2, Zenon DEF Succeeds, Return, StartCommand, loops
      <4>2. UNCHANGED <<times, times_1>>
        BY <3>2, Zenon DEF Succeeds, Return, StartCommand, loops
      <4>3. UNCHANGED <<due, mode, calls, served, ready, copies>>
        BY <2>8, Zenon DEF ReadAnswer
      <4> QED BY <3>1, <4>1, <4>2, <4>3
    <3> QED BY <2>3, <2>8, <3>1, <3>2 DEF ReadAnswer
  <2>9. CASE TcpStatusCheck
    <3>1. CASE Check
      BY <3>1 DEF Check
    <3>2. CASE CheckStray
      BY <3>2, Rest DEF CheckStray
    <3>3. CASE CheckAsk
      <4>1. CASE TakesStatus
        <5>1. due' \in Seq(Said) /\ mode' = mode /\ copies' = copies
          BY <4>1, StatusEffect, SaysType DEF Texts, Answers
        <5> QED BY <3>3, <4>1, <5>1 DEF CheckAsk, NextQuestion
      <4>2. CASE CutShort
        BY <3>3, <4>2, CutEffect DEF CheckAsk, NextQuestion
      <4> QED BY <3>3, <4>1, <4>2 DEF CheckAsk, NextQuestion
    <3>4. CASE CheckTold
      <4>1. line' \in Seq(Piece)
        BY <3>4, Rest DEF CheckTold
      <4>2. \/ pc' = "idle" /\ UNCHANGED times
            \/ pc' = "stray" /\ times > 0 /\ times' = times - 1
        BY <3>4, Zenon DEF CheckTold, NextQuestion
      <4>3. UNCHANGED <<goal, retry, times_1, due, mode, calls, served, ready, copies>>
        BY <3>4, Zenon DEF CheckTold
      <4> QED BY <4>1, <4>2, <4>3
    <3> QED BY <2>9, <3>1, <3>2, <3>3, <3>4 DEF TcpStatusCheck
  <2>10. CASE Listen
    BY <2>10, Rest DEF Listen
  <2>11. CASE ModemWrites
    BY <2>11, Written DEF ModemWrites
  <2>12. CASE ServerWrites
    <3> DEFINE h == Halves([text |-> "message", of |-> served'])
    <3>1. h \in Seq(Piece)
      <4>1. [text |-> "message", of |-> served'] \in Said
        BY <2>12 DEF ServerWrites, Said, Texts
      <4> QED BY <4>1, HalvesType
    <3>2. line' = line \o h
      BY <2>12 DEF ServerWrites
    <3> HIDE DEF h
    <3>3. line' \in Seq(Piece)
      BY <3>1, <3>2
    <3> QED BY <2>12, <3>3 DEF ServerWrites
  <2>13. CASE ModemReady
    <3>1. [text |-> "SMS_Ready", of |-> 0] \in Said
      BY DEF Said, Texts
    <3>2. due' \in Seq(Said)
      BY <2>13, <3>1 DEF ModemReady
    <3> QED BY <2>13, <3>2 DEF ModemReady
  <2>14. CASE LinkDrops
    BY <2>14, SaysType DEF LinkDrops, Texts, Answers
  <2>15. CASE Done \/ UNCHANGED vars
    BY <2>15 DEF Done, vars
  <2> QED BY <2>1, <2>2, <2>4, <2>5, <2>6, <2>7, <2>8, <2>9, <2>10, <2>11, <2>12,
             <2>13, <2>14, <2>15 DEF Next, SendTcpData
<1> QED BY <1>1, <1>2, PTL DEF Spec
-----------------------------------------------------------------------------
(* What is unread, step by step.                                           *)

\* A read takes texts from the front; with > all verdicts are read too.
LEMMA ReadPipe ==
  ASSUME StateOK, Single, VerdictFirst, NEW n \in Reads, Taken(n), due' = due
  PROVE  /\ Single' /\ VerdictFirst'
         /\ \A text \in Texts : Unread(text)' => Unread(text)
         /\ \A text \in Texts : Occurs(text, Chunk(n)) => Unread(text)
         /\ Occurs("Prompt", Chunk(n)) => ~Unread("Prompt")' /\ ~Unread("SEND_OK")'
<1>1. /\ n \in 1..Len(line) /\ Len(line') = Len(line) - n /\ Len(line) \in Nat
      /\ \A i \in 1..Len(line') : line'[i] = line[i + n] /\ i + n \in 1..Len(line)
  <2>1. line \in Seq(Piece)
    BY DEF StateOK
  <2>2. /\ n \in 1..Len(line) /\ Len(line') = Len(line) - n
        /\ \A i \in 1..Len(line') : line'[i] = line[i + n]
    BY <2>1, Rest
  <2> QED BY <2>1, <2>2
<1>2. Len(Chunk(n)) = n /\ \A i \in 1..n : Chunk(n)[i] = line[i]
  BY <1>1 DEF Chunk, StateOK
<1>3. Single'
  <2>1. \A i, j \in 1..Len(line') :
          line'[i].text = "Prompt" /\ line'[j].text = "Prompt" => i = j
    <3> SUFFICES ASSUME NEW i \in 1..Len(line'), NEW j \in 1..Len(line'),
                        line'[i].text = "Prompt", line'[j].text = "Prompt"
                 PROVE  i = j
      OBVIOUS
    <3>1. i + n = j + n
      BY <1>1 DEF Single
    <3> QED BY <1>1, <3>1
  <2>2. \A i \in 1..Len(line'), j \in 1..Len(due) :
          ~(line'[i].text = "Prompt" /\ due[j].text = "Prompt")
    BY <1>1 DEF Single
  <2> QED BY <2>1, <2>2 DEF Single
<1>4. VerdictFirst'
  <2>1. \A i, j \in 1..Len(line') :
          line'[i].text = "Prompt" /\ line'[j].text = "SEND_OK" => j < i
    <3> SUFFICES ASSUME NEW i \in 1..Len(line'), NEW j \in 1..Len(line'),
                        line'[i].text = "Prompt", line'[j].text = "SEND_OK"
                 PROVE  j < i
      OBVIOUS
    <3>1. j + n < i + n
      BY <1>1 DEF VerdictFirst
    <3> QED BY <1>1, <3>1
  <2>2. \A i \in 1..Len(line'), j \in 1..Len(due) :
          ~(line'[i].text = "Prompt" /\ due[j].text = "SEND_OK")
    BY <1>1 DEF VerdictFirst
  <2> QED BY <2>1, <2>2 DEF VerdictFirst
<1>5. \A text \in Texts : Unread(text)' => Unread(text)
  BY <1>1 DEF Unread
<1>6. \A text : Occurs(text, Chunk(n)) => \E i \in 1..n : line[i].text = text
  BY <1>2 DEF Occurs
<1>7. ASSUME NEW text \in Texts, Occurs(text, Chunk(n)) PROVE Unread(text)
  <2>1. PICK i \in 1..n : line[i].text = text
    BY <1>6, <1>7
  <2>2. i \in 1..Len(line)
    BY <1>1
  <2> QED BY <2>1, <2>2, Zenon DEF Unread
<1>8. ASSUME Occurs("Prompt", Chunk(n)) PROVE ~Unread("Prompt")' /\ ~Unread("SEND_OK")'
  <2>1. PICK i \in 1..n : line[i].text = "Prompt"
    BY <1>6, <1>8
  <2>2. i \in 1..Len(line) /\ i <= n
    BY <1>1
  <2>3. ASSUME NEW j \in 1..Len(line')
        PROVE  line'[j].text # "Prompt" /\ line'[j].text # "SEND_OK"
    <3>1. line'[j] = line[j + n] /\ j + n \in 1..Len(line) /\ i < j + n
      BY <1>1, <2>2
    <3>2. line[j + n].text # "Prompt"
      BY <2>1, <2>2, <3>1 DEF Single
    <3>3. line[j + n].text # "SEND_OK"
      BY <2>1, <2>2, <3>1 DEF VerdictFirst
    <3> QED BY <3>1, <3>2, <3>3
  <2>4. \A j \in 1..Len(due) : due[j].text # "Prompt" /\ due[j].text # "SEND_OK"
    BY <2>1, <2>2 DEF Single, VerdictFirst
  <2> QED BY <2>3, <2>4 DEF Unread
<1> QED BY <1>3, <1>4, <1>5, <1>7, <1>8

\* The modem will say one text more.
LEMMA SaysPipe ==
  ASSUME StateOK, Single, VerdictFirst, NEW text \in Texts, Says(text), line' = line,
         text \in {"Prompt", "SEND_OK"} => ~Unread("Prompt")
  PROVE  /\ Single' /\ VerdictFirst'
         /\ \A t \in Texts : Unread(t)' => Unread(t) \/ t = text
<1>1. /\ Len(due') = Len(due) + 1 /\ Len(due) \in Nat /\ due'[Len(due) + 1].text = text
      /\ \A i \in 1..Len(due) : due'[i] = due[i]
  BY SaysType DEF StateOK
<1>2. Single'
  BY <1>1 DEF Single, Unread
<1>3. VerdictFirst'
  <2>1. \A i, j \in 1..Len(due') :
          due'[i].text = "Prompt" /\ due'[j].text = "SEND_OK" => j < i
    <3> SUFFICES ASSUME NEW i \in 1..Len(due'), NEW j \in 1..Len(due'),
                        due'[i].text = "Prompt", due'[j].text = "SEND_OK"
                 PROVE  j < i
      OBVIOUS
    <3>1. CASE i \in 1..Len(due) /\ j \in 1..Len(due)
      BY <1>1, <3>1 DEF VerdictFirst
    <3>2. CASE i = Len(due) + 1 /\ j \in 1..Len(due)
      BY <1>1, <3>2
    <3>3. CASE j = Len(due) + 1
      <4>1. text = "SEND_OK" /\ i \in 1..Len(due)
        BY <1>1, <3>3
      <4>2. due[i].text = "Prompt"
        BY <1>1, <4>1
      <4> QED BY <4>1, <4>2 DEF Unread
    <3> QED BY <1>1, <3>1, <3>2, <3>3
  <2>2. \A i \in 1..Len(line), j \in 1..Len(due') :
          ~(line[i].text = "Prompt" /\ due'[j].text = "SEND_OK")
    <3> SUFFICES ASSUME NEW i \in 1..Len(line), NEW j \in 1..Len(due'),
                        line[i].text = "Prompt", due'[j].text = "SEND_OK"
                 PROVE  FALSE
      OBVIOUS
    <3>1. CASE j \in 1..Len(due)
      BY <1>1, <3>1 DEF VerdictFirst
    <3>2. CASE j = Len(due) + 1
      BY <1>1, <3>2 DEF Unread
    <3> QED BY <1>1, <3>1, <3>2
  <2> QED BY <2>1, <2>2 DEF VerdictFirst
<1>4. \A t \in Texts : Unread(t)' => Unread(t) \/ t = text
  BY <1>1 DEF Unread
<1> QED BY <1>2, <1>3, <1>4

\* A text moves from due to the line.
LEMMA WritePipe ==
  ASSUME StateOK, Single, VerdictFirst, ModemWrites
  PROVE  /\ Single' /\ VerdictFirst'
         /\ \A t \in Texts : Unread(t)' => Unread(t)
<1>1. /\ Len(line') \in Len(line)..(Len(line) + 2) /\ Len(line) \in Nat
      /\ due[1].text = "Prompt" => Len(line') = Len(line) + 1
      /\ \A i \in 1..Len(line) : line'[i] = line[i]
      /\ \A i \in (Len(line) + 1)..Len(line') : line'[i].text = due[1].text
      /\ Len(due') = Len(due) - 1 /\ \A i \in 1..Len(due') : due'[i] = due[i + 1]
      /\ Len(due) \in Nat /\ Len(due) > 0
  BY Written DEF ModemWrites, StateOK
<1>2. /\ \A i \in 1..Len(line') :
           \/ i \in 1..Len(line) /\ line'[i].text = line[i].text
           \/ i > Len(line) /\ line'[i].text = due[1].text
      /\ \A i \in 1..Len(due') : i + 1 \in 1..Len(due) /\ due'[i].text = due[i + 1].text
      /\ 1 \in 1..Len(due)
  BY <1>1
<1>3. Single'
  <2>1. \A i, j \in 1..Len(line') :
          line'[i].text = "Prompt" /\ line'[j].text = "Prompt" => i = j
    <3> SUFFICES ASSUME NEW i \in 1..Len(line'), NEW j \in 1..Len(line'),
                        line'[i].text = "Prompt", line'[j].text = "Prompt"
                 PROVE  i = j
      OBVIOUS
    <3>1. CASE i \in 1..Len(line) /\ j \in 1..Len(line)
      BY <1>1, <3>1 DEF Single
    <3>2. CASE ~(i \in 1..Len(line) /\ j \in 1..Len(line))
      <4>1. due[1].text = "Prompt" /\ 1 \in 1..Len(due)
        BY <1>2, <3>2, Zenon
      <4>2. \A k \in 1..Len(line) : line[k].text # "Prompt"
        BY <4>1, Zenon DEF Single
      <4>3. i > Len(line) /\ j > Len(line)
        BY <1>1, <1>2, <4>2
      <4>4. Len(line') = Len(line) + 1
        BY <1>1, <4>1
      <4> QED BY <1>1, <4>3, <4>4
    <3> QED BY <3>1, <3>2
  <2>2. \A i, j \in 1..Len(due') :
          due'[i].text = "Prompt" /\ due'[j].text = "Prompt" => i = j
    <3> SUFFICES ASSUME NEW i \in 1..Len(due'), NEW j \in 1..Len(due'),
                        due'[i].text = "Prompt", due'[j].text = "Prompt"
                 PROVE  i = j
      OBVIOUS
    <3>1. i + 1 = j + 1
      BY <1>2 DEF Single
    <3> QED BY <1>1, <3>1
  <2>3. \A i \in 1..Len(line'), j \in 1..Len(due') :
          ~(line'[i].text = "Prompt" /\ due'[j].text = "Prompt")
    <3> SUFFICES ASSUME NEW i \in 1..Len(line'), NEW j \in 1..Len(due'),
                        line'[i].text = "Prompt", due'[j].text = "Prompt"
                 PROVE  FALSE
      OBVIOUS
    <3>1. j + 1 \in 1..Len(due) /\ due[j + 1].text = "Prompt"
      BY <1>2
    <3>2. j + 1 # 1
      OBVIOUS
    <3> QED BY <1>2, <3>1, <3>2 DEF Single
  <2> QED BY <2>1, <2>2, <2>3 DEF Single
<1>4. VerdictFirst'
  <2>1. \A i, j \in 1..Len(line') :
          line'[i].text = "Prompt" /\ line'[j].text = "SEND_OK" => j < i
    <3> SUFFICES ASSUME NEW i \in 1..Len(line'), NEW j \in 1..Len(line'),
                        line'[i].text = "Prompt", line'[j].text = "SEND_OK"
                 PROVE  j < i
      OBVIOUS
    <3>1. CASE i \in 1..Len(line) /\ j \in 1..Len(line)
      BY <1>1, <3>1 DEF VerdictFirst
    <3>2. CASE i > Len(line) /\ j \in 1..Len(line)
      <4>1. i \in Int /\ j \in Int /\ j <= Len(line)
        BY <1>1, <3>2
      <4> QED BY <1>1, <3>2, <4>1
    <3>3. CASE j > Len(line)
      <4>1. ~(j \in 1..Len(line))
        BY <1>1, <3>3
      <4>2. due[1].text = "SEND_OK"
        BY <1>2, <4>1, Zenon
      <4>3. due[1].text # "Prompt"
        BY <4>2
      <4>4. i \in 1..Len(line) /\ line[i].text = "Prompt"
        BY <1>2, <4>3, Zenon
      <4>5. 1 \in 1..Len(due)
        BY <1>2
      <4> QED BY <4>2, <4>4, <4>5, Zenon DEF VerdictFirst
    <3> QED BY <1>2, <3>1, <3>2, <3>3
  <2>2. \A i, j \in 1..Len(due') :
          due'[i].text = "Prompt" /\ due'[j].text = "SEND_OK" => j < i
    <3> SUFFICES ASSUME NEW i \in 1..Len(due'), NEW j \in 1..Len(due'),
                        due'[i].text = "Prompt", due'[j].text = "SEND_OK"
                 PROVE  j < i
      OBVIOUS
    <3>1. j + 1 < i + 1
      BY <1>2 DEF VerdictFirst
    <3> QED BY <1>1, <3>1
  <2>3. \A i \in 1..Len(line'), j \in 1..Len(due') :
          ~(line'[i].text = "Prompt" /\ due'[j].text = "SEND_OK")
    <3> SUFFICES ASSUME NEW i \in 1..Len(line'), NEW j \in 1..Len(due'),
                        line'[i].text = "Prompt", due'[j].text = "SEND_OK"
                 PROVE  FALSE
      OBVIOUS
    <3>1. j + 1 \in 1..Len(due) /\ due[j + 1].text = "SEND_OK"
      BY <1>2
    <3>2. ~(j + 1 < 1)
      OBVIOUS
    <3>3. CASE i \in 1..Len(line)
      <4>1. line[i].text = "Prompt"
        BY <1>1, <3>3
      <4> QED BY <3>1, <3>3, <4>1, Zenon DEF VerdictFirst
    <3>4. CASE ~(i \in 1..Len(line))
      <4>1. due[1].text = "Prompt" /\ 1 \in 1..Len(due)
        BY <1>2, <3>4, Zenon
      <4>2. j + 1 < 1
        BY <3>1, <4>1, Zenon DEF VerdictFirst
      <4> QED BY <3>2, <4>2
    <3> QED BY <3>3, <3>4
  <2> QED BY <2>1, <2>2, <2>3 DEF VerdictFirst
<1>5. ASSUME NEW t \in Texts, Unread(t)' PROVE Unread(t)
  <2>1. CASE \E i \in 1..Len(line') : line'[i].text = t
    <3>1. (\E i \in 1..Len(line) : line[i].text = t) \/ due[1].text = t
      BY <1>2, <2>1
    <3> QED BY <1>2, <3>1 DEF Unread
  <2>2. CASE \E i \in 1..Len(due') : due'[i].text = t
    BY <1>2, <2>2 DEF Unread
  <2> QED BY <1>5, <2>1, <2>2 DEF Unread
<1> QED BY <1>3, <1>4, <1>5

\* A message of the server comes in.
LEMMA ServerPipe ==
  ASSUME StateOK, Single, VerdictFirst, ServerWrites
  PROVE  /\ Single' /\ VerdictFirst'
         /\ \A t \in Texts : Unread(t)' => Unread(t) \/ t = "message"
<1> DEFINE h == Halves([text |-> "message", of |-> served'])
<1>1. [text |-> "message", of |-> served'] \in Said
  BY DEF ServerWrites, StateOK, Said, Texts
<1>2. h \in Seq(Piece) /\ \A i \in 1..Len(h) : h[i].text = "message"
  BY <1>1, HalvesType
<1>3. line' = line \o h /\ due' = due
  BY DEF ServerWrites, modem
<1> HIDE DEF h
<1>4. /\ Len(line') = Len(line) + Len(h) /\ Len(line) \in Nat /\ Len(h) \in Nat
      /\ \A i \in 1..Len(line) : line'[i] = line[i]
      /\ \A i \in (Len(line) + 1)..Len(line') : line'[i].text = "message"
  BY <1>2, <1>3 DEF StateOK
<1>5. /\ 1..Len(due') = 1..Len(due)
      /\ \A i \in 1..Len(line') :
           line'[i].text # "message" => i \in 1..Len(line) /\ line'[i].text = line[i].text
  BY <1>3, <1>4
<1>6. Single' /\ VerdictFirst'
  <2>1. \A i \in 1..Len(line') :
          line'[i].text \in {"Prompt", "SEND_OK"} =>
            i \in 1..Len(line) /\ line'[i].text = line[i].text
    BY <1>5
  <2>2. Single'
    BY <1>3, <2>1 DEF Single
  <2>3. VerdictFirst'
    BY <1>3, <2>1 DEF VerdictFirst
  <2> QED BY <2>2, <2>3
<1>7. \A t \in Texts : Unread(t)' => Unread(t) \/ t = "message"
  BY <1>3, <1>4 DEF Unread
<1> QED BY <1>6, <1>7
-----------------------------------------------------------------------------
(* What TRUE is worth.                                                     *)

\* A step that only lets texts come in or go keeps the invariant.
LEMMA PipeStep ==
  ASSUME DeliveredInv, Single', VerdictFirst',
         Unread("Prompt")' => Unread("Prompt"),
         Unread("SEND_OK")' => Unread("SEND_OK"),
         Calling' <=> Calling, UNCHANGED <<goal, times_1, result, mode, link, copies>>
  PROVE  DeliveredInv'
<1>1. Delivered'
  BY DEF DeliveredInv, Delivered
<1>2. PromptRead'
  BY DEF DeliveredInv, PromptRead
<1>3. OwnVerdict' /\ TextsTaken'
  BY DEF DeliveredInv, OwnVerdict, TextsTaken
<1> QED BY <1>1, <1>2, <1>3 DEF DeliveredInv

\* So does a command that fails.
LEMMA FailStep ==
  ASSUME StateOK, DeliveredInv, Calling, StartFails \/ TextFails, Single', VerdictFirst',
         Unread("Prompt")' => Unread("Prompt"),
         Unread("SEND_OK")' => Unread("SEND_OK"),
         UNCHANGED <<mode, link, copies>>
  PROVE  DeliveredInv'
<1>1. \/ pc' = "idle" /\ ~result' /\ UNCHANGED <<goal, times_1>>
      \/ pc' = "write" /\ goal' = "start" /\ UNCHANGED <<result, times_1>> /\ goal = "start"
      \/ pc' = "write" /\ goal' = "start" /\ UNCHANGED result
           /\ times_1' = times_1 - 1 /\ goal = "data"
  BY Zenon DEF StartFails, TextFails, Return, StartCommand, loops
<1>2. copies <= DataTries
  BY DEF DeliveredInv, Delivered
<1>3. Delivered'
  <2>1. ~Calling' => ~result'
    BY <1>1
  <2> QED BY <1>2, <2>1 DEF Delivered
<1>4. PromptRead'
  <2>1. Calling' => goal' = "start"
    BY <1>1
  <2> QED BY <2>1 DEF DeliveredInv, PromptRead
<1>5. OwnVerdict'
  BY <1>1 DEF OwnVerdict
<1>6. TextsTaken'
  BY <1>1, GprsConstants DEF DeliveredInv, TextsTaken, StateOK
<1> QED BY <1>3, <1>4, <1>5, <1>6 DEF DeliveredInv

LEMMA WriteStep ==
  ASSUME StateOK, DeliveredInv, Write
  PROVE  DeliveredInv'
<1>1. /\ pc = "write" /\ Calling /\ Calling'
      /\ UNCHANGED <<goal, times_1, result, line, link>>
  BY DEF Write
<1>2. CASE UNCHANGED <<mode, due, copies>>
  <2>1. Single' /\ VerdictFirst' /\ (Unread("Prompt")' => Unread("Prompt"))
          /\ (Unread("SEND_OK")' => Unread("SEND_OK"))
    BY <1>1, <1>2 DEF DeliveredInv, Single, VerdictFirst, Unread
  <2> QED BY <1>1, <1>2, <2>1, PipeStep
<1>3. CASE goal = "start" /\ TakesStart
  <2>1. UNCHANGED copies
    BY <1>3, StartEffect
  <2>2. CASE mode = "prompt" /\ UNCHANGED <<mode, due>>
    BY <1>2, <2>1, <2>2
  <2>3. CASE mode = "command" /\ link /\ mode' = "prompt" /\ Says("Prompt")
    <3>1. ~Unread("Prompt")
      BY <2>3 DEF DeliveredInv, PromptRead
    <3>2. /\ Single' /\ VerdictFirst'
          /\ Unread("SEND_OK")' => Unread("SEND_OK")
      BY <1>1, <2>3, <3>1, SaysPipe DEF DeliveredInv, Texts, Answers
    <3>3. Delivered' /\ PromptRead' /\ OwnVerdict'
      BY <1>1, <1>3, <2>1, <2>3 DEF DeliveredInv, Delivered, PromptRead, OwnVerdict
    <3>4. TextsTaken'
      BY <1>1, <1>3, <2>1, <2>3 DEF DeliveredInv, TextsTaken
    <3> QED BY <3>2, <3>3, <3>4 DEF DeliveredInv
  <2>4. CASE mode = "command" /\ ~link /\ UNCHANGED mode /\ Says("ERROR")
    <3>1. /\ Single' /\ VerdictFirst'
          /\ Unread("Prompt")' => Unread("Prompt")
          /\ Unread("SEND_OK")' => Unread("SEND_OK")
      BY <1>1, <2>4, SaysPipe DEF DeliveredInv, Texts, Answers
    <3> QED BY <1>1, <2>1, <2>4, <3>1, PipeStep
  <2> QED BY <1>3, <2>2, <2>3, <2>4, StartEffect
<1>4. CASE goal = "data" /\ TakesData
  <2>1. CASE mode = "prompt" /\ mode' = "command" /\ link
               /\ Says("SEND_OK") /\ copies' = copies + 1
    <3>1. ~Unread("Prompt")
      BY <1>1, <1>4, <2>1 DEF DeliveredInv, PromptRead
    <3>2. /\ Single' /\ VerdictFirst'
          /\ ~Unread("Prompt")'
      BY <1>1, <2>1, <3>1, SaysPipe DEF DeliveredInv, Texts, Answers
    <3>3. copies' > 0
      BY <2>1 DEF StateOK
    <3>4. PromptRead' /\ OwnVerdict'
      BY <3>2, <3>3 DEF PromptRead, OwnVerdict
    <3>5. TextsTaken'
      BY <1>1, <1>4, <2>1, GprsConstants DEF DeliveredInv, TextsTaken, StateOK
    <3>6. copies' <= DataTries
      BY <1>1, <1>4, <2>1, <3>5, GprsConstants DEF TextsTaken, StateOK
    <3>7. Delivered'
      BY <1>1, <3>6 DEF Delivered
    <3> QED BY <3>2, <3>4, <3>5, <3>7 DEF DeliveredInv
  <2>2. CASE mode = "prompt" /\ mode' = "command" /\ Says("SEND_FAIL") /\ UNCHANGED copies
    <3>1. ~Unread("Prompt")
      BY <1>1, <1>4, <2>2 DEF DeliveredInv, PromptRead
    <3>2. /\ Single' /\ VerdictFirst'
          /\ ~Unread("Prompt")' /\ (Unread("SEND_OK")' => Unread("SEND_OK"))
      BY <1>1, <2>2, <3>1, SaysPipe DEF DeliveredInv, Texts, Answers
    <3>3. PromptRead' /\ OwnVerdict'
      BY <1>1, <1>4, <2>2, <3>2 DEF DeliveredInv, PromptRead, OwnVerdict
    <3>4. TextsTaken'
      BY <1>1, <1>4, <2>2, GprsConstants DEF DeliveredInv, TextsTaken, StateOK
    <3>5. Delivered'
      BY <1>1, <2>2 DEF DeliveredInv, Delivered
    <3> QED BY <3>2, <3>3, <3>4, <3>5 DEF DeliveredInv
  <2>3. CASE mode = "command" /\ UNCHANGED <<mode, copies>> /\ Says("ERROR")
    <3>1. /\ Single' /\ VerdictFirst'
          /\ Unread("Prompt")' => Unread("Prompt")
          /\ Unread("SEND_OK")' => Unread("SEND_OK")
      BY <1>1, <2>3, SaysPipe DEF DeliveredInv, Texts, Answers
    <3> QED BY <1>1, <2>3, <3>1, PipeStep
  <2>4. CASE UNCHANGED <<mode, copies, due>>
    BY <1>2, <2>4
  <2> QED BY <1>4, <2>1, <2>2, <2>3, <2>4, DataEffect
<1>5. CASE CutShort
  BY <1>2, <1>5, CutEffect
<1> QED BY <1>1, <1>2, <1>3, <1>4, <1>5 DEF Write, StateOK

\* An answer was found: the prompt, or the verdict on this text.
LEMMA AnswerStep ==
  ASSUME StateOK, DeliveredInv, ReadAnswer
  PROVE  DeliveredInv'
<1>1. PICK n \in Reads : Answered(Chunk(n)) /\ Taken(n)
  BY DEF ReadAnswer
<1>2. Calling /\ UNCHANGED <<due, mode, link, copies>>
  BY Zenon DEF ReadAnswer, modem
<1>3. /\ Single' /\ VerdictFirst'
      /\ Unread("Prompt")' => Unread("Prompt")
      /\ Unread("SEND_OK")' => Unread("SEND_OK")
      /\ Occurs("Prompt", Chunk(n)) => ~Unread("Prompt")' /\ ~Unread("SEND_OK")'
      /\ Occurs("SEND_OK", Chunk(n)) => Unread("SEND_OK")
  BY <1>1, <1>2, ReadPipe DEF DeliveredInv, Texts, Answers
<1>4. CASE StartFails \/ TextFails
  BY <1>2, <1>3, <1>4, FailStep
<1>5. CASE Succeeds
  <2>1. CASE goal = "start" /\ pc' = "write" /\ goal' = "data" /\ UNCHANGED <<times_1, result>>
    <3>1. ~Unread("Prompt")' /\ ~Unread("SEND_OK")'
      BY <1>1, <1>3, <2>1 DEF Answered, Awaited
    <3>2. Delivered' /\ PromptRead' /\ OwnVerdict'
      BY <1>2, <2>1, <3>1 DEF DeliveredInv, Delivered, PromptRead, OwnVerdict
    <3>3. TextsTaken'
      BY <1>2, <2>1, GprsConstants DEF DeliveredInv, TextsTaken, StateOK
    <3> QED BY <1>3, <3>2, <3>3 DEF DeliveredInv
  <2>2. CASE pc' = "idle" /\ (result' => goal = "data")
    <3>1. goal = "data" => copies > 0
      BY <1>1, <1>2, <1>3 DEF Answered, Awaited, DeliveredInv, OwnVerdict, StateOK
    <3>2. result' => copies' > 0
      BY <1>2, <2>2, <3>1
    <3>3. copies' <= DataTries
      BY <1>2 DEF DeliveredInv, Delivered
    <3>4. Delivered'
      BY <3>2, <3>3 DEF Delivered
    <3>5. ~Calling'
      BY <2>2
    <3>6. PromptRead'
      BY <1>2, <1>3, <3>5 DEF DeliveredInv, PromptRead
    <3>7. OwnVerdict' /\ TextsTaken'
      BY <3>5 DEF OwnVerdict, TextsTaken
    <3> QED BY <1>3, <3>4, <3>6, <3>7 DEF DeliveredInv
  <2>3. \/ goal = "start" /\ pc' = "write" /\ goal' = "data" /\ UNCHANGED <<times_1, result>>
        \/ pc' = "idle" /\ (result' => goal = "data")
    BY <1>5, Zenon DEF Succeeds, Return, StartCommand
  <2> QED BY <2>1, <2>2, <2>3
<1> QED BY <1>4, <1>5 DEF ReadAnswer

\* The invariant behind Delivered.
LEMMA DeliveredInvHolds == Spec => []DeliveredInv
<1>1. Init => StateOK /\ DeliveredInv
  BY GprsConstants DEF Init, StateOK, DeliveredInv, Delivered, Single, PromptRead,
     VerdictFirst, OwnVerdict, TextsTaken, Unread
<1>2. StateOK /\ DeliveredInv /\ [Next]_vars => DeliveredInv'
  <2> SUFFICES ASSUME StateOK, DeliveredInv, [Next]_vars PROVE DeliveredInv'
    OBVIOUS
  <2>1. ASSUME UNCHANGED <<line, due>>
        PROVE  /\ Single' /\ VerdictFirst'
               /\ Unread("Prompt")' => Unread("Prompt")
               /\ Unread("SEND_OK")' => Unread("SEND_OK")
    BY <2>1 DEF DeliveredInv, Single, VerdictFirst, Unread
  <2>2. ASSUME NEW n \in Reads, Taken(n), due' = due
        PROVE  /\ Single' /\ VerdictFirst'
               /\ Unread("Prompt")' => Unread("Prompt")
               /\ Unread("SEND_OK")' => Unread("SEND_OK")
    BY <2>2, ReadPipe DEF DeliveredInv, Texts, Answers
  <2>3. ASSUME NEW text \in Texts \ {"Prompt", "SEND_OK"}, Says(text), line' = line
        PROVE  /\ Single' /\ VerdictFirst'
               /\ Unread("Prompt")' => Unread("Prompt")
               /\ Unread("SEND_OK")' => Unread("SEND_OK")
    BY <2>3, SaysPipe DEF DeliveredInv, Texts, Answers
  <2>4. CASE Send
    <3>1. /\ pc' = "write" /\ goal' = "start" /\ copies' = 0 /\ times_1' = DataTries - 1
          /\ UNCHANGED <<line, due, mode, link>>
      BY <2>4, Zenon DEF Send, StartCommand, modem
    <3>2. Delivered' /\ PromptRead' /\ OwnVerdict' /\ TextsTaken'
      BY <2>1, <3>1, GprsConstants DEF DeliveredInv, Delivered, PromptRead, OwnVerdict, TextsTaken
    <3> QED BY <2>1, <3>1, <3>2 DEF DeliveredInv
  <2>5. CASE Write
    BY <2>5, WriteStep
  <2>6. CASE GiveUp
    <3>1. Calling /\ (StartFails \/ TextFails) /\ UNCHANGED <<line, due, mode, link, copies>>
      BY <2>6, Zenon DEF GiveUp, modem
    <3> QED BY <2>1, <3>1, FailStep
  <2>7. CASE ReadNothing
    <3>1. Calling /\ Calling' /\ UNCHANGED <<line, due, goal, times_1, result, mode, link, copies>>
      BY <2>7 DEF ReadNothing, loops, modem
    <3> QED BY <2>1, <3>1, PipeStep
  <2>8. CASE ReadReady \/ ReadOther
    <3>1. Calling /\ Calling' /\ UNCHANGED <<due, goal, times_1, result, mode, link, copies>>
      BY <2>8 DEF ReadReady, ReadOther, loops, modem
    <3>2. \E n \in Reads : Taken(n)
      BY <2>8 DEF ReadReady, ReadOther
    <3> QED BY <2>2, <3>1, <3>2, PipeStep
  <2>9. CASE ReadAnswer
    BY <2>9, AnswerStep
  <2>10. CASE TcpStatusCheck
    <3>1. /\ ~Calling /\ ~Calling'
          /\ UNCHANGED <<goal, times_1, result, mode, link, copies>>
      <4>1. CASE CheckAsk
        <5>1. UNCHANGED <<mode, copies>>
          BY <4>1, StatusEffect, CutEffect DEF CheckAsk
        <5> QED BY <4>1, <5>1 DEF CheckAsk, NextQuestion
      <4>2. CASE Check \/ CheckStray \/ CheckTold
        BY <4>2 DEF Check, CheckStray, CheckTold, NextQuestion, loops, modem
      <4> QED BY <2>10, <4>1, <4>2 DEF TcpStatusCheck
    <3>2. \/ UNCHANGED <<line, due>>
          \/ due' = due /\ \E n \in Reads : Taken(n)
          \/ line' = line /\ (Says("CONNECT_OK") \/ Says("CONNECTING") \/ Says("CLOSED"))
      <4>1. CASE Check
        BY <4>1 DEF Check, modem
      <4>2. CASE CheckStray
        BY <4>2 DEF CheckStray, modem
      <4>3. CASE CheckAsk
        BY <4>3, StatusEffect, CutEffect DEF CheckAsk, NextQuestion
      <4>4. CASE CheckTold
        BY <4>4 DEF CheckTold, modem
      <4> QED BY <2>10, <4>1, <4>2, <4>3, <4>4 DEF TcpStatusCheck
    <3>3. {"CONNECT_OK", "CONNECTING", "CLOSED"} \subseteq Texts \ {"Prompt", "SEND_OK"}
      BY DEF Texts, Answers
    <3> QED BY <2>1, <2>2, <2>3, <3>1, <3>2, <3>3, PipeStep
  <2>11. CASE Listen
    <3>1. /\ UNCHANGED <<pc, due, goal, times_1, result, mode, link, copies>>
          /\ line' = line \/ \E n \in Reads : Taken(n)
      BY <2>11 DEF Listen, loops, modem
    <3> QED BY <2>1, <2>2, <3>1, PipeStep
  <2>12. CASE ModemWrites
    <3>1. UNCHANGED <<pc, goal, times_1, result, mode, link, copies>>
      BY <2>12 DEF ModemWrites, loops
    <3>2. /\ Single' /\ VerdictFirst'
          /\ Unread("Prompt")' => Unread("Prompt")
          /\ Unread("SEND_OK")' => Unread("SEND_OK")
      BY <2>12, WritePipe DEF DeliveredInv, Texts, Answers
    <3> QED BY <3>1, <3>2, PipeStep
  <2>13. CASE ServerWrites
    <3>1. UNCHANGED <<pc, goal, times_1, result, mode, link, copies>>
      BY <2>13 DEF ServerWrites, loops, modem
    <3>2. /\ Single' /\ VerdictFirst'
          /\ Unread("Prompt")' => Unread("Prompt")
          /\ Unread("SEND_OK")' => Unread("SEND_OK")
      BY <2>13, ServerPipe DEF DeliveredInv, Texts, Answers
    <3> QED BY <3>1, <3>2, PipeStep
  <2>14. CASE ModemReady
    <3>1. /\ UNCHANGED <<pc, line, goal, times_1, result, mode, link, copies>>
          /\ Says("SMS_Ready") /\ "SMS_Ready" \in Texts \ {"Prompt", "SEND_OK"}
      BY <2>14 DEF ModemReady, loops, Says, Texts, Answers
    <3> QED BY <2>3, <3>1, PipeStep
  <2>15. CASE LinkDrops
    <3>1. /\ UNCHANGED <<pc, line, goal, times_1, result, copies>>
          /\ ~link' /\ mode' = "command"
          /\ Says("CLOSED") /\ "CLOSED" \in Texts \ {"Prompt", "SEND_OK"}
      BY <2>15, Zenon DEF LinkDrops, loops, Texts, Answers
    <3>2. Delivered' /\ PromptRead' /\ OwnVerdict'
      BY <2>3, <3>1 DEF DeliveredInv, Delivered, PromptRead, OwnVerdict
    <3>3. TextsTaken'
      BY <3>1, GprsConstants DEF DeliveredInv, TextsTaken, StateOK
    <3> QED BY <2>3, <3>1, <3>2, <3>3 DEF DeliveredInv
  <2>16. CASE Done \/ UNCHANGED vars
    <3>1. UNCHANGED <<pc, line, due, goal, times_1, result, mode, link, copies>>
      BY <2>16 DEF Done, vars, loops, modem
    <3> QED BY <2>1, <3>1, PipeStep
  <2> QED BY <2>4, <2>5, <2>6, <2>7, <2>8, <2>9, <2>10, <2>11, <2>12, <2>13, <2>14,
             <2>15, <2>16 DEF Next, SendTcpData
<1> QED BY <1>1, <1>2, TypeCorrect, PTL DEF Spec

\* send_tcp_data answers TRUE only if the server was sent the text in this
\* call, and sends it at most DataTries times: for all numbers of tries,
\* however late, mixed with other texts, or cut the answers are.
THEOREM DeliveredHolds == Spec => []Delivered
<1>1. DeliveredInv => Delivered
  BY DEF DeliveredInv
<1> QED BY <1>1, DeliveredInvHolds, PTL
-----------------------------------------------------------------------------
(* Flattening, by induction: a length for which something fails would be   *)
(* the first one, and fail because of the one before.                      *)

\* The order of the natural numbers, as a relation.
Below == OpToRel(<, Nat)

\* Every set of natural numbers has a least element.
LEMMA NatMin ==
  ASSUME NEW T, T \subseteq Nat, T # {}
  PROVE  \E x \in T : \A y \in T : x <= y
<1>1. IsWellFoundedOn(OpToRel(<,Nat), Nat)
  BY NatLessThanWellFounded
<1>2. IsWellFoundedOn(Below, Nat)
  BY <1>1 DEF Below
<1>3. PICK x \in T : \A y \in T : <<y, x>> \notin Below
  BY <1>2, WFMin
<1>4. \A i, j \in Nat : <<j, i>> \in Below <=> j < i
  BY DEF Below, OpToRel
<1>5. \A y \in T : ~(y < x)
  BY <1>3, <1>4
<1>6. \A y \in T : x <= y
  BY <1>5
<1> QED BY <1>6

\* A set that has 0, and n + 1 with every n below b, has all numbers up to b.
LEMMA UpTo ==
  ASSUME NEW T, NEW b \in Nat, 0 \in T,
         \A n \in 0..(b - 1) : n \in T => n + 1 \in T
  PROVE  \A n \in 0..b : n \in T
<1> DEFINE F == {n \in 0..b : n \notin T}
<1> SUFFICES ASSUME F # {} PROVE FALSE
  OBVIOUS
<1>1. F \subseteq Nat
  OBVIOUS
<1>2. PICK m \in F : \A y \in F : m <= y
  BY <1>1, NatMin
<1>3. m \in 0..b /\ m \notin T /\ m # 0
  OBVIOUS
<1>4. m - 1 \in 0..(b - 1) /\ m - 1 \in 0..b /\ ~(m <= m - 1) /\ (m - 1) + 1 = m
  BY <1>3
<1>5. m - 1 \in T
  BY <1>2, <1>4
<1> QED BY <1>3, <1>4, <1>5

\* The equation by which FlattenSeq defines its function.
Grows(f, ss) == f = [i \in 1..Len(ss) |-> IF i = 1 THEN ss[i] ELSE f[i-1] \o ss[i]]

LEMMA GrowsAt ==
  ASSUME NEW f, NEW ss, Grows(f, ss), NEW i \in 1..Len(ss)
  PROVE  f[i] = IF i = 1 THEN ss[i] ELSE f[i-1] \o ss[i]
BY DEF Grows

\* Some function satisfies it.
LEMMA GrowsSome ==
  ASSUME NEW S, NEW ss \in Seq(Seq(S))
  PROVE  \E f \in [1..Len(ss) -> Seq(S)] : Grows(f, ss)
<1> DEFINE b == Len(ss)
           Equation(f, n) == \A i \in 1..n : f[i] = IF i = 1 THEN ss[i] ELSE f[i-1] \o ss[i]
           T == {n \in 0..b : \E f \in [1..n -> Seq(S)] : Equation(f, n)}
<1>1. b \in Nat /\ \A i \in 1..b : ss[i] \in Seq(S)
  OBVIOUS
<1>2. 0 \in T
  <2>1. [i \in 1..0 |-> <<>>] \in [1..0 -> Seq(S)]
    OBVIOUS
  <2>2. Equation([i \in 1..0 |-> <<>>], 0)
    OBVIOUS
  <2>3. 0 \in 0..b
    BY <1>1
  <2> QED BY <2>1, <2>2, <2>3
<1>3. ASSUME NEW n \in 0..(b - 1), n \in T PROVE n + 1 \in T
  <2>1. PICK f \in [1..n -> Seq(S)] : Equation(f, n)
    BY <1>3
  <2>2. n + 1 \in 1..b /\ n + 1 \in 0..b /\ n \in Nat
    BY <1>1
  <2> DEFINE x == IF n = 0 THEN ss[n + 1] ELSE f[n] \o ss[n + 1]
             g == [i \in 1..(n + 1) |-> IF i = n + 1 THEN x ELSE f[i]]
  <2>3. x \in Seq(S)
    <3>1. ss[n + 1] \in Seq(S)
      BY <1>1, <2>2
    <3>2. CASE n = 0
      BY <3>1, <3>2
    <3>3. CASE n # 0
      <4>1. f[n] \in Seq(S)
        BY <2>2, <3>3
      <4> QED BY <3>1, <3>3, <4>1, ConcatProperties
    <3> QED BY <3>2, <3>3
  <2> HIDE DEF x
  <2>4. \A i \in 1..(n + 1) : i # n + 1 => i \in 1..n
    BY <2>2
  <2>5. g \in [1..(n + 1) -> Seq(S)]
    BY <2>3, <2>4
  <2>6. Equation(g, n + 1)
    <3> SUFFICES ASSUME NEW i \in 1..(n + 1)
                 PROVE  g[i] = IF i = 1 THEN ss[i] ELSE g[i-1] \o ss[i]
      OBVIOUS
    <3>1. CASE i = n + 1
      <4>1. CASE n = 0
        BY <3>1, <4>1 DEF x
      <4>2. CASE n # 0
        <5>1. i # 1 /\ i - 1 = n /\ n \in 1..(n + 1) /\ n # n + 1
          BY <2>2, <3>1, <4>2
        <5> QED BY <3>1, <4>2, <5>1 DEF x
      <4> QED BY <4>1, <4>2
    <3>2. CASE i # n + 1
      <4>1. i \in 1..n
        BY <2>4, <3>2
      <4>2. g[i] = f[i] /\ f[i] = IF i = 1 THEN ss[i] ELSE f[i-1] \o ss[i]
        BY <2>1, <3>2, <4>1
      <4>3. CASE i = 1
        BY <4>2, <4>3
      <4>4. CASE i # 1
        <5>1. i - 1 \in 1..(n + 1) /\ i - 1 # n + 1
          BY <2>2, <4>1, <4>4
        <5> QED BY <4>2, <4>4, <5>1
      <4> QED BY <4>3, <4>4
    <3> QED BY <3>1, <3>2
  <2> QED BY <2>2, <2>5, <2>6
<1> HIDE DEF T
<1>4. b \in T
  <2>1. \A n \in 0..b : n \in T
    BY <1>1, <1>2, <1>3, UpTo
  <2> QED BY <1>1, <2>1
<1>5. PICK f \in [1..b -> Seq(S)] : Equation(f, b)
  BY <1>4 DEF T
<1>6. Grows(f, ss)
  BY <1>5 DEF Grows
<1> QED BY <1>6

\* And no two differ where the sequences begin alike.
LEMMA GrowsAlike ==
  ASSUME NEW ss, NEW tt, NEW f, NEW g, Grows(f, ss), Grows(g, tt),
         Len(ss) \in Nat, Len(tt) \in Nat, Len(ss) <= Len(tt),
         \A i \in 1..Len(ss) : ss[i] = tt[i]
  PROVE  \A i \in 1..Len(ss) : f[i] = g[i]
<1> DEFINE b == Len(ss)
           T == {n \in 0..b : n = 0 \/ f[n] = g[n]}
<1>0. \A i \in 1..b : i \in 1..Len(ss) /\ i \in 1..Len(tt)
  OBVIOUS
<1>1. \A i \in 1..b : f[i] = IF i = 1 THEN ss[i] ELSE f[i-1] \o ss[i]
  BY <1>0, GrowsAt
<1>2. \A i \in 1..b : g[i] = IF i = 1 THEN tt[i] ELSE g[i-1] \o tt[i]
  BY <1>0, GrowsAt
<1>3. 0 \in T
  OBVIOUS
<1>4. ASSUME NEW n \in 0..(b - 1), n \in T PROVE n + 1 \in T
  <2>1. n + 1 \in 1..b /\ n + 1 \in 0..b /\ (n = 0 \/ n + 1 # 1) /\ (n + 1) - 1 = n
    OBVIOUS
  <2>2. ss[n + 1] = tt[n + 1]
    BY <2>1
  <2>3. CASE n = 0
    BY <1>1, <1>2, <2>1, <2>2, <2>3
  <2>4. CASE n # 0
    <3>1. f[n] = g[n]
      BY <1>4, <2>4
    <3> QED BY <1>1, <1>2, <2>1, <2>2, <2>4, <3>1
  <2> QED BY <2>3, <2>4
<1> HIDE DEF T
<1>5. \A n \in 0..b : n \in T
  <2>1. b \in Nat
    OBVIOUS
  <2> HIDE DEF b
  <2> QED BY <1>3, <1>4, <2>1, UpTo
<1> QED BY <1>5 DEF T

\* The function of FlattenSeq.
LEMMA FlattenGrows ==
  ASSUME NEW S, NEW ss \in Seq(Seq(S)), ss # <<>>
  PROVE  \E f \in [1..Len(ss) -> Seq(S)] : Grows(f, ss) /\ FlattenSeq(ss) = f[Len(ss)]
<1> DEFINE flatten == CHOOSE f : Grows(f, ss)
<1>1. Len(ss) \in Nat /\ Len(ss) # 0
  OBVIOUS
<1>2. FlattenSeq(ss) = flatten[Len(ss)]
  BY <1>1 DEF FlattenSeq, Grows
<1>3. PICK f \in [1..Len(ss) -> Seq(S)] : Grows(f, ss)
  BY GrowsSome
<1>4. Grows(flatten, ss)
  BY <1>3
<1> HIDE DEF flatten
<1>5. \A i \in 1..Len(ss) : f[i] = flatten[i]
  BY <1>1, <1>3, <1>4, GrowsAlike
<1>6. f[Len(ss)] = flatten[Len(ss)]
  <2>1. Len(ss) \in 1..Len(ss)
    BY <1>1
  <2> QED BY <1>5, <2>1
<1> QED BY <1>2, <1>3, <1>6

\* FlattenSeq of nothing, its type, and that of one more sequence.
LEMMA FlattenEmpty == FlattenSeq(<<>>) = <<>>
  BY DEF FlattenSeq

LEMMA FlattenType ==
  ASSUME NEW S, NEW ss \in Seq(Seq(S))
  PROVE  FlattenSeq(ss) \in Seq(S)
<1>1. CASE ss = <<>>
  <2>1. FlattenSeq(ss) = <<>>
    BY <1>1, FlattenEmpty, Zenon
  <2>2. <<>> \in Seq(S)
    OBVIOUS
  <2> QED BY <2>1, <2>2, Zenon
<1>2. CASE ss # <<>>
  <2>1. Len(ss) \in 1..Len(ss)
    BY <1>2
  <2>2. PICK f \in [1..Len(ss) -> Seq(S)] : FlattenSeq(ss) = f[Len(ss)]
    BY <1>2, FlattenGrows
  <2> QED BY <2>1, <2>2, Zenon
<1> QED BY <1>1, <1>2

LEMMA FlattenAppend ==
  ASSUME NEW S, NEW ss \in Seq(Seq(S)), NEW x \in Seq(S)
  PROVE  FlattenSeq(Append(ss, x)) = FlattenSeq(ss) \o x
<1> DEFINE tt == Append(ss, x)
           n  == Len(ss)
           m  == Len(tt)
<1>1. /\ tt \in Seq(Seq(S)) /\ tt # <<>> /\ m = n + 1 /\ n \in Nat
      /\ tt[n + 1] = x /\ \A i \in 1..n : ss[i] = tt[i]
  BY AppendProperties
<1> HIDE DEF tt
<1>2. m \in Nat /\ n <= m /\ m \in 1..m /\ tt[m] = x
  BY <1>1
<1>3. PICK g : Grows(g, tt) /\ FlattenSeq(tt) = g[m]
  BY <1>1, FlattenGrows
<1>4. g[m] = IF m = 1 THEN tt[m] ELSE g[m - 1] \o tt[m]
  BY <1>2, <1>3, GrowsAt, Zenon
<1>5. CASE ss = <<>>
  <2>1. m = 1
    BY <1>1, <1>5
  <2>2. FlattenSeq(ss) = <<>> /\ <<>> \o x = x
    BY <1>5, FlattenEmpty
  <2> QED BY <1>2, <1>3, <1>4, <2>1, <2>2 DEF tt
<1>6. CASE ss # <<>>
  <2>1. m # 1 /\ m - 1 = n /\ n \in 1..n
    BY <1>1, <1>6
  <2>2. PICK f : Grows(f, ss) /\ FlattenSeq(ss) = f[n]
    BY <1>6, FlattenGrows
  <2>3. \A i \in 1..n : ss[i] = tt[i]
    BY <1>1
  <2>4. n \in Nat
    BY <1>1
  <2>5. \A i \in 1..n : f[i] = g[i]
    BY <1>2, <1>3, <2>2, <2>3, <2>4, GrowsAlike
  <2>6. f[n] = g[n]
    BY <2>1, <2>5
  <2>7. g[m] = g[n] \o x
    BY <1>2, <1>4, <2>1
  <2> QED BY <1>3, <2>2, <2>6, <2>7, Zenon DEF tt
<1> QED BY <1>5, <1>6

LEMMA FlattenOne ==
  ASSUME NEW S, NEW x \in Seq(S)
  PROVE  FlattenSeq(<<x>>) = x
<1>1. <<>> \in Seq(Seq(S)) /\ <<x>> = Append(<<>>, x)
  OBVIOUS
<1>2. FlattenSeq(<<x>>) = <<>> \o x
  BY <1>1, FlattenAppend, FlattenEmpty
<1> QED BY <1>2

\* Concatenation is associative.
LEMMA ConcatThree ==
  \A S : \A p, q, v \in Seq(S) : (p \o q) \o v = p \o (q \o v)
<1> TAKE S
<1> TAKE p, q, v \in Seq(S)
<1> DEFINE l == (p \o q) \o v
           r == p \o (q \o v)
<1>1. l \in Seq(S) /\ r \in Seq(S)
  OBVIOUS
<1>2. Len(l) = Len(r) /\ \A i \in 1..Len(l) : l[i] = r[i]
  OBVIOUS
<1> HIDE DEF l, r
<1>3. l = r
  BY <1>1, <1>2, SeqEqual
<1> QED BY <1>3 DEF l, r

\* What is flattened in two parts is so as a whole.
LEMMA FlattenConcat ==
  ASSUME NEW S, NEW ss \in Seq(Seq(S)), NEW tt \in Seq(Seq(S))
  PROVE  FlattenSeq(ss \o tt) = FlattenSeq(ss) \o FlattenSeq(tt)
<1> DEFINE First(n) == SubSeq(tt, 1, n)
           T == {n \in 0..Len(tt) :
                   FlattenSeq(ss \o First(n)) = FlattenSeq(ss) \o FlattenSeq(First(n))}
<1>1. Len(tt) \in Nat /\ FlattenSeq(ss) \in Seq(S)
  BY FlattenType
<1>2. 0 \in T
  <2>1. First(0) = <<>>
    BY SubSeqEmpty
  <2>2. ss \o <<>> = ss /\ FlattenSeq(ss) \o <<>> = FlattenSeq(ss)
    BY <1>1, ConcatEmptySeq
  <2>3. 0 \in 0..Len(tt)
    BY <1>1
  <2> QED BY <2>1, <2>2, <2>3, FlattenEmpty, Zenon
<1>3. ASSUME NEW n \in 0..(Len(tt) - 1), n \in T PROVE n + 1 \in T
  <2> DEFINE x == tt[n + 1]
             u == First(n)
  <2>1. n + 1 \in 1..Len(tt) /\ n \in Nat /\ n + 1 \in 0..Len(tt)
    BY <1>1
  <2>2. x \in Seq(S) /\ u \in Seq(Seq(S))
    <3>1. \A i \in 1..n : tt[i] \in Seq(S)
      BY <2>1
    <3> QED BY <2>1, <3>1, SubSeqProperties
  <2>3. First(n + 1) = Append(u, x)
    <3>1. 1 \in 1..Len(tt) /\ n + 1 \in 1..Len(tt) /\ (n + 1) - 1 = n
      BY <2>1
    <3>2. First(n + 1) = u \o <<x>>
      BY <3>1, SubSeqRecursiveSecond
    <3>3. Append(u, x) = u \o <<x>>
      BY <2>2, AppendIsConcat
    <3> QED BY <3>2, <3>3, Zenon
  <2>4. FlattenSeq(ss \o u) = FlattenSeq(ss) \o FlattenSeq(u)
    BY <1>3
  <2> HIDE DEF u, x, First
  <2>5. ss \o Append(u, x) = Append(ss \o u, x) /\ ss \o u \in Seq(Seq(S))
    BY <2>2
  <2>6. FlattenSeq(Append(ss \o u, x)) = FlattenSeq(ss \o u) \o x
    BY <2>2, <2>5, FlattenAppend
  <2>7. FlattenSeq(Append(u, x)) = FlattenSeq(u) \o x /\ FlattenSeq(u) \in Seq(S)
    BY <2>2, FlattenAppend, FlattenType
  <2>8. (FlattenSeq(ss) \o FlattenSeq(u)) \o x = FlattenSeq(ss) \o (FlattenSeq(u) \o x)
    <3>1. \A p, q, v \in Seq(S) : (p \o q) \o v = p \o (q \o v)
      BY ConcatThree, SMTT(60)
    <3>2. FlattenSeq(ss) \in Seq(S) /\ FlattenSeq(u) \in Seq(S) /\ x \in Seq(S)
      BY <1>1, <2>2, <2>7
    <3> QED BY <3>1, <3>2, Zenon
  <2>9. FlattenSeq(ss \o First(n + 1)) = FlattenSeq(ss) \o FlattenSeq(First(n + 1))
    BY <2>3, <2>4, <2>5, <2>6, <2>7, <2>8, Zenon
  <2> QED BY <2>1, <2>9, Zenon
<1>4. Len(tt) \in T
  <2> HIDE DEF T
  <2>1. \A n \in 0..Len(tt) : n \in T
    BY <1>1, <1>2, <1>3, UpTo
  <2> QED BY <1>1, <2>1
<1>5. First(Len(tt)) = tt
  BY SubSeqFull
<1> QED BY <1>4, <1>5
-----------------------------------------------------------------------------
(* The messages in a text.                                                 *)

\* A part of a message is its first or its second half.
LEMMA HalfBegins ==
  ASSUME NEW p \in Piece
  PROVE  /\ Ends(p) \in BOOLEAN /\ OfServer(p) \in BOOLEAN /\ p.of \in Nat
         /\ OfServer(p) /\ ~Ends(p) => Begins(p)
         /\ ~(Ends(p) /\ Begins(p)) /\ (Ends(p) => OfServer(p)) /\ (Begins(p) => OfServer(p))
BY DEF Ends, Begins, OfServer, Piece

\* What is flattened for Parts, and for OnLine.
PartOf(p) == IF OfServer(p) THEN <<p>> ELSE <<>>
EndOf(p)  == IF Ends(p) THEN <<p.of>> ELSE <<>>
PartsOf(s) == [i \in 1..Len(s) |-> PartOf(s[i])]
EndsOf(s)  == [i \in 1..Len(s) |-> EndOf(s[i])]

LEMMA FlatDefs ==
  \A s : Parts(s) = FlattenSeq(PartsOf(s)) /\ OnLine(s) = FlattenSeq(EndsOf(s))
BY DEF Parts, OnLine, PartsOf, EndsOf, PartOf, EndOf

LEMMA PartType ==
  ASSUME NEW p \in Piece
  PROVE  PartOf(p) \in Seq(Piece) /\ EndOf(p) \in Seq(Nat)
BY HalfBegins DEF PartOf, EndOf

LEMMA PartsType ==
  ASSUME NEW s \in Seq(Piece)
  PROVE  PartsOf(s) \in Seq(Seq(Piece)) /\ EndsOf(s) \in Seq(Seq(Nat))
<1>1. \A i \in 1..Len(s) : PartOf(s[i]) \in Seq(Piece) /\ EndOf(s[i]) \in Seq(Nat)
  BY PartType
<1> QED BY <1>1 DEF PartsOf, EndsOf

\* A sequence that has the elements of two, one after the other.
LEMMA IsConcat ==
  ASSUME NEW S, NEW a \in Seq(S), NEW b \in Seq(S), NEW c \in Seq(S),
         Len(c) = Len(a) + Len(b),
         \A i \in 1..Len(c) : c[i] = IF i <= Len(a) THEN a[i] ELSE b[i - Len(a)]
  PROVE  c = a \o b
<1> DEFINE u == a \o b
<1>1. u \in Seq(S) /\ Len(u) = Len(c) /\ \A i \in 1..Len(c) : c[i] = u[i]
  OBVIOUS
<1> HIDE DEF u
<1>2. c = u
  BY <1>1, SeqEqual
<1> QED BY <1>2 DEF u

\* They are those of a text and of what follows it.
LEMMA PartsMore ==
  ASSUME NEW s \in Seq(Piece), NEW t \in Seq(Piece)
  PROVE  PartsOf(s \o t) = PartsOf(s) \o PartsOf(t) /\ EndsOf(s \o t) = EndsOf(s) \o EndsOf(t)
<1> DEFINE u == s \o t
<1>1. /\ u \in Seq(Piece) /\ Len(u) = Len(s) + Len(t)
      /\ \A i \in 1..Len(u) : u[i] = IF i <= Len(s) THEN s[i] ELSE t[i - Len(s)]
  OBVIOUS
<1> HIDE DEF u
<1>3. PartsOf(u) = PartsOf(s) \o PartsOf(t)
  <2>1. PartsOf(u) \in Seq(Seq(Piece)) /\ PartsOf(s) \in Seq(Seq(Piece)) /\ PartsOf(t) \in Seq(Seq(Piece))
    BY <1>1, PartsType
  <2>2. Len(PartsOf(u)) = Len(u) /\ Len(PartsOf(s)) = Len(s) /\ Len(PartsOf(t)) = Len(t)
    BY <1>1 DEF PartsOf
  <2>3. \A i \in 1..Len(u) : PartsOf(u)[i] =
          IF i <= Len(s) THEN PartsOf(s)[i] ELSE PartsOf(t)[i - Len(s)]
    BY <1>1 DEF PartsOf
  <2>4. Len(PartsOf(u)) = Len(PartsOf(s)) + Len(PartsOf(t))
    BY <1>1, <2>2
  <2>5. \A i \in 1..Len(PartsOf(u)) : PartsOf(u)[i] =
          IF i <= Len(PartsOf(s)) THEN PartsOf(s)[i] ELSE PartsOf(t)[i - Len(PartsOf(s))]
    BY <2>2, <2>3
  <2> QED BY <2>1, <2>4, <2>5, IsConcat
<1>4. EndsOf(u) = EndsOf(s) \o EndsOf(t)
  <2>1. EndsOf(u) \in Seq(Seq(Nat)) /\ EndsOf(s) \in Seq(Seq(Nat)) /\ EndsOf(t) \in Seq(Seq(Nat))
    BY <1>1, PartsType
  <2>2. Len(EndsOf(u)) = Len(u) /\ Len(EndsOf(s)) = Len(s) /\ Len(EndsOf(t)) = Len(t)
    BY <1>1 DEF EndsOf
  <2>3. \A i \in 1..Len(u) : EndsOf(u)[i] =
          IF i <= Len(s) THEN EndsOf(s)[i] ELSE EndsOf(t)[i - Len(s)]
    BY <1>1 DEF EndsOf
  <2>4. Len(EndsOf(u)) = Len(EndsOf(s)) + Len(EndsOf(t))
    BY <1>1, <2>2
  <2>5. \A i \in 1..Len(EndsOf(u)) : EndsOf(u)[i] =
          IF i <= Len(EndsOf(s)) THEN EndsOf(s)[i] ELSE EndsOf(t)[i - Len(EndsOf(s))]
    BY <2>2, <2>3
  <2> QED BY <2>1, <2>4, <2>5, IsConcat
<1> QED BY <1>3, <1>4 DEF u

\* The parts of a longer text, and its messages.
LEMMA Concatenated ==
  ASSUME NEW s \in Seq(Piece), NEW t \in Seq(Piece)
  PROVE  /\ Parts(s \o t) = Parts(s) \o Parts(t) /\ OnLine(s \o t) = OnLine(s) \o OnLine(t)
         /\ Parts(s) \in Seq(Piece) /\ OnLine(s) \in Seq(Nat)
<1>1. /\ PartsOf(s) \in Seq(Seq(Piece)) /\ PartsOf(t) \in Seq(Seq(Piece))
      /\ EndsOf(s) \in Seq(Seq(Nat)) /\ EndsOf(t) \in Seq(Seq(Nat))
  BY PartsType
<1>2. /\ FlattenSeq(PartsOf(s) \o PartsOf(t)) = FlattenSeq(PartsOf(s)) \o FlattenSeq(PartsOf(t))
      /\ FlattenSeq(PartsOf(s)) \in Seq(Piece)
  BY <1>1, FlattenConcat, FlattenType
<1>3. /\ FlattenSeq(EndsOf(s) \o EndsOf(t)) = FlattenSeq(EndsOf(s)) \o FlattenSeq(EndsOf(t))
      /\ FlattenSeq(EndsOf(s)) \in Seq(Nat)
  BY <1>1, FlattenConcat, FlattenType
<1> QED BY <1>2, <1>3, PartsMore, FlatDefs, Zenon

\* In one part, and in none.
LEMMA OfOne ==
  ASSUME NEW p \in Piece
  PROVE  Parts(<<p>>) = PartOf(p) /\ OnLine(<<p>>) = EndOf(p)
<1>1. PartsOf(<<p>>) = <<PartOf(p)>> /\ EndsOf(<<p>>) = <<EndOf(p)>>
  BY DEF PartsOf, EndsOf
<1>2. FlattenSeq(<<PartOf(p)>>) = PartOf(p) /\ FlattenSeq(<<EndOf(p)>>) = EndOf(p)
  BY PartType, FlattenOne
<1> QED BY <1>1, <1>2, FlatDefs, Zenon

LEMMA OfNone == Parts(<<>>) = <<>> /\ OnLine(<<>>) = <<>>
<1>1. PartsOf(<<>>) = <<>> /\ EndsOf(<<>>) = <<>>
  BY DEF PartsOf, EndsOf
<1> QED BY <1>1, FlatDefs, FlattenEmpty, Zenon
-----------------------------------------------------------------------------
(* What a read keeps.                                                      *)

\* A piece more.
LEMMA FirstMore ==
  ASSUME NEW s \in Seq(Piece), NEW n \in 0..(Len(s) - 1)
  PROVE  /\ n + 1 \in 1..Len(s) /\ s[n + 1] \in Piece /\ SubSeq(s, 1, n) \in Seq(Piece)
         /\ SubSeq(s, 1, n + 1) = SubSeq(s, 1, n) \o <<s[n + 1]>>
<1>1. n + 1 \in 1..Len(s) /\ n \in Nat /\ 1 \in 1..Len(s) /\ (n + 1) - 1 = n
  OBVIOUS
<1>2. s[n + 1] \in Piece
  BY <1>1
<1>3. SubSeq(s, 1, n) \in Seq(Piece)
  <2>1. \A i \in 1..n : s[i] \in Piece
    BY <1>1
  <2> QED BY <1>1, <2>1, SubSeqProperties
<1>4. SubSeq(s, 1, n + 1) = SubSeq(s, 1, n) \o <<s[n + 1]>>
  BY <1>1, SubSeqRecursiveSecond
<1> QED BY <1>1, <1>2, <1>3, <1>4

\* Of the parts d in a piece of the line: where they were, and how they follow
\* each other.
FromLine(s, n, d) ==
  /\ \A k \in 1..Len(d) : \E i \in 1..n : d[k] = s[i] /\ OfServer(s[i])
  /\ \A k, l \in 1..Len(d) : l = k + 1 => (Ends(d[l]) <=> d[k].of = d[l].of)
  /\ n > 0 /\ OfServer(s[n]) => Len(d) > 0 /\ d[Len(d)] = s[n]

\* The parts kept of the first b of the line end the messages that end there.
LEMMA LineParts ==
  ASSUME NEW s \in Seq(Piece),
         \A i, j \in 1..Len(s) :
           i < j /\ OfServer(s[i]) /\ Begins(s[j]) => s[i].of < s[j].of,
         \A i, j \in 1..Len(s) :
           j = i + 1 /\ Ends(s[j]) => Begins(s[i]) /\ s[i].of = s[j].of,
         NEW b \in 0..Len(s)
  PROVE  /\ FromLine(s, b, Parts(SubSeq(s, 1, b)))
         /\ OnLine(Parts(SubSeq(s, 1, b))) = OnLine(SubSeq(s, 1, b))
<1> DEFINE d(n) == Parts(SubSeq(s, 1, n))
           T == {n \in 0..Len(s) : FromLine(s, n, d(n)) /\ OnLine(d(n)) = OnLine(SubSeq(s, 1, n))}
<1>1. Len(s) \in Nat
  OBVIOUS
<1>2. 0 \in T
  <2>1. SubSeq(s, 1, 0) = <<>>
    BY SubSeqEmpty
  <2>2. d(0) = <<>>
    BY <2>1, OfNone, Zenon
  <2>3. FromLine(s, 0, <<>>)
    BY DEF FromLine
  <2>4. 0 \in 0..Len(s)
    BY <1>1
  <2> HIDE DEF d
  <2> QED BY <2>1, <2>2, <2>3, <2>4, Zenon
<1>3. ASSUME NEW n \in 0..(Len(s) - 1), n \in T PROVE n + 1 \in T
  <2> DEFINE p == s[n + 1]
             t == SubSeq(s, 1, n)
             e == Parts(t)
             f == Parts(SubSeq(s, 1, n + 1))
  <2>1. FromLine(s, n, e) /\ OnLine(e) = OnLine(t)
    BY <1>3
  <2>2. n + 1 \in 1..Len(s) /\ n + 1 \in 0..Len(s) /\ n \in Nat
    BY <1>1
  <2>3. p \in Piece /\ t \in Seq(Piece) /\ SubSeq(s, 1, n + 1) = t \o <<p>>
    BY FirstMore
  <2>4. /\ f = e \o PartOf(p) /\ OnLine(SubSeq(s, 1, n + 1)) = OnLine(t) \o EndOf(p)
        /\ e \in Seq(Piece) /\ OnLine(t) \in Seq(Nat)
    <3> HIDE DEF p, t
    <3>1. <<p>> \in Seq(Piece)
      BY <2>3
    <3>2. /\ Parts(t \o <<p>>) = Parts(t) \o Parts(<<p>>)
          /\ OnLine(t \o <<p>>) = OnLine(t) \o OnLine(<<p>>)
          /\ Parts(t) \in Seq(Piece) /\ OnLine(t) \in Seq(Nat)
      BY <2>3, <3>1, Concatenated
    <3> QED BY <2>3, <3>2, OfOne, Zenon
  <2> HIDE DEF p, t, e, f
  <2>5. FromLine(s, n + 1, f) /\ OnLine(f) = OnLine(e) \o EndOf(p)
    <3>1. CASE ~OfServer(p)
      <4>1. PartOf(p) = <<>> /\ EndOf(p) = <<>>
        BY <2>3, <3>1, HalfBegins DEF PartOf, EndOf
      <4>2. f = e /\ OnLine(e) \o EndOf(p) = OnLine(e)
        BY <2>1, <2>4, <4>1
      <4>3. FromLine(s, n + 1, e)
        <5>1. \A k \in 1..Len(e) : \E i \in 1..(n + 1) : e[k] = s[i] /\ OfServer(s[i])
          <6>1. 1..n \subseteq 1..(n + 1)
            BY <2>2
          <6> QED BY <2>1, <6>1, Zenon DEF FromLine
        <5>2. ~OfServer(s[n + 1])
          BY <3>1 DEF p
        <5> QED BY <2>1, <5>1, <5>2, Zenon DEF FromLine
      <4> QED BY <4>2, <4>3
    <3>2. CASE OfServer(p)
      <4>1. f = Append(e, p)
        BY <2>3, <2>4, <3>2 DEF PartOf
      <4>2. /\ Len(f) = Len(e) + 1 /\ f[Len(e) + 1] = p /\ Len(e) \in Nat
            /\ \A k \in 1..Len(e) : f[k] = e[k]
        BY <2>3, <2>4, <4>1
      <4>3. \A k \in 1..Len(f) : \E i \in 1..(n + 1) : f[k] = s[i] /\ OfServer(s[i])
        <5> SUFFICES ASSUME NEW k \in 1..Len(f)
                     PROVE  \E i \in 1..(n + 1) : f[k] = s[i] /\ OfServer(s[i])
          OBVIOUS
        <5>1. CASE k = Len(e) + 1
          <6>1. f[k] = s[n + 1] /\ OfServer(s[n + 1]) /\ n + 1 \in 1..(n + 1)
            BY <2>2, <3>2, <4>2, <5>1 DEF p
          <6> QED BY <6>1
        <5>2. CASE k # Len(e) + 1
          <6>1. k \in 1..Len(e) /\ f[k] = e[k]
            BY <4>2, <5>2
          <6>2. PICK i \in 1..n : e[k] = s[i] /\ OfServer(s[i])
            BY <2>1, <6>1, Zenon DEF FromLine
          <6>3. i \in 1..(n + 1)
            BY <2>2
          <6> QED BY <6>1, <6>2, <6>3, Zenon
        <5> QED BY <5>1, <5>2
      <4>4. ASSUME NEW k \in 1..Len(f), NEW l \in 1..Len(f), l = k + 1
            PROVE  Ends(f[l]) <=> f[k].of = f[l].of
        <5>1. k \in 1..Len(e) /\ f[k] = e[k]
          BY <4>2, <4>4
        <5>2. CASE l \in 1..Len(e)
          <6>1. f[l] = e[l]
            BY <4>2, <5>2
          <6> QED BY <2>1, <4>4, <5>1, <5>2, <6>1 DEF FromLine
        <5>3. CASE l = Len(e) + 1
          <6>1. f[l] = p /\ k = Len(e)
            BY <4>2, <4>4, <5>1, <5>3
          <6>2. PICK i \in 1..n : e[k] = s[i] /\ OfServer(s[i])
            BY <2>1, <5>1, Zenon DEF FromLine
          <6>3. i \in 1..Len(s) /\ n + 1 \in 1..Len(s) /\ i < n + 1 /\ n > 0 /\ n \in 1..Len(s)
            BY <2>2
          <6>4. CASE Ends(p)
            <7>1. Begins(s[n]) /\ s[n].of = p.of
              BY <2>2, <6>3, <6>4 DEF p
            <7>2. OfServer(s[n])
              BY <7>1 DEF Begins
            <7>3. e[Len(e)] = s[n]
              BY <2>1, <6>3, <7>2, Zenon DEF FromLine
            <7> QED BY <5>1, <6>1, <6>4, <7>1, <7>3
          <6>5. CASE ~Ends(p)
            <7>1. Begins(p)
              BY <2>3, <3>2, <6>5, HalfBegins
            <7>2. s[i].of < p.of
              BY <6>2, <6>3, <7>1 DEF p
            <7>3. s[i].of \in Nat /\ p.of \in Nat
              BY <2>3, <6>3, HalfBegins
            <7>4. f[k].of # f[l].of
              BY <5>1, <6>1, <6>2, <7>2, <7>3
            <7> QED BY <6>1, <6>5, <7>4
          <6> QED BY <6>4, <6>5
        <5> QED BY <4>2, <5>2, <5>3
      <4>5. Len(f) > 0 /\ f[Len(f)] = s[n + 1]
        BY <4>2 DEF p
      <4>6. FromLine(s, n + 1, f)
        BY <4>3, <4>4, <4>5 DEF FromLine
      <4>7. OnLine(f) = OnLine(e) \o EndOf(p)
        <5>1. <<p>> \in Seq(Piece) /\ f = e \o <<p>>
          BY <2>3, <2>4, <3>2 DEF PartOf
        <5>2. OnLine(e \o <<p>>) = OnLine(e) \o OnLine(<<p>>)
          BY <2>4, <5>1, Concatenated
        <5> QED BY <2>3, <5>1, <5>2, OfOne, Zenon
      <4> QED BY <4>6, <4>7
    <3> QED BY <3>1, <3>2
  <2>6. OnLine(f) = OnLine(SubSeq(s, 1, n + 1))
    BY <2>1, <2>4, <2>5, Zenon
  <2> QED BY <2>2, <2>5, <2>6 DEF f
<1> HIDE DEF T
<1>4. \A n \in 0..Len(s) : n \in T
  BY <1>1, <1>2, <1>3, UpTo
<1> QED BY <1>4 DEF T

\* What is flattened for InCache.
WholeOf(s) == [k \in 1..Len(s) |-> IF Whole(s, k) THEN <<s[k].of>> ELSE <<>>]

\* gprs_cache holds numbers of messages.
LEMMA CacheType ==
  ASSUME NEW s \in Seq(Piece)
  PROVE  WholeOf(s) \in Seq(Seq(Nat)) /\ InCache(s) \in Seq(Nat)
<1>1. \A k \in 1..Len(s) : s[k].of \in Nat
  BY HalfBegins
<1>2. WholeOf(s) \in Seq(Seq(Nat))
  <2>1. \A k \in 1..Len(s) : <<s[k].of>> \in Seq(Nat) /\ <<>> \in Seq(Nat)
    BY <1>1
  <2> QED BY <2>1 DEF WholeOf
<1>3. InCache(s) = FlattenSeq(WholeOf(s))
  BY Zenon DEF InCache, WholeOf
<1> QED BY <1>2, <1>3, FlattenType

\* Where two sequences of numbers differ at most in their first element, one is
\* the end of the other.
LEMMA EndOfIt ==
  ASSUME NEW x \in Seq(Nat), NEW y \in Seq(Nat), NEW r \in Seq(Nat),
         x = y \/ (x = <<>> /\ Len(y) = 1)
  PROVE  \E lost \in 0..Len(y \o r) : x \o r = SubSeq(y \o r, lost + 1, Len(y \o r))
<1>1. y \o r \in Seq(Nat) /\ Len(y \o r) \in Nat
  OBVIOUS
<1>2. CASE x = y
  <2>1. SubSeq(y \o r, 1, Len(y \o r)) = y \o r
    BY <1>1, SubSeqFull
  <2>2. 0 \in 0..Len(y \o r) /\ 0 + 1 = 1
    BY <1>1
  <2> QED BY <1>2, <2>1, <2>2
<1>3. CASE x = <<>> /\ Len(y) = 1
  <2> DEFINE u == y \o r
             v == SubSeq(u, 2, Len(u))
  <2>1. u \in Seq(Nat) /\ Len(u) = Len(r) + 1 /\ \A i \in 1..Len(r) : u[i + 1] = r[i]
    <3>1. /\ u \in Seq(Nat) /\ Len(u) = Len(y) + Len(r)
          /\ \A i \in 1..(Len(y) + Len(r)) : u[i] = IF i <= Len(y) THEN y[i] ELSE r[i - Len(y)]
      BY ConcatProperties
    <3>2. Len(r) \in Nat /\ Len(y) = 1
      BY <1>3
    <3>3. \A i \in 1..Len(r) : i + 1 \in 1..(1 + Len(r)) /\ ~(i + 1 <= 1) /\ (i + 1) - 1 = i
      BY <3>2
    <3> HIDE DEF u
    <3> QED BY <3>1, <3>2, <3>3
  <2>2. 1 \in 0..Len(u) /\ 1 + 1 = 2 /\ Len(r) \in Nat
    BY <2>1
  <2> HIDE DEF u
  <2>3. v \in Seq(Nat) /\ Len(v) = Len(r) /\ \A i \in 1..Len(r) : v[i] = u[i + 1]
    <3>1. \A i \in 2..Len(u) : u[i] \in Nat
      BY <2>1
    <3>2. /\ SubSeq(u, 2, Len(u)) \in Seq(Nat)
          /\ Len(SubSeq(u, 2, Len(u))) = IF 2 <= Len(u) THEN Len(u) - 2 + 1 ELSE 0
          /\ \A i \in 1..(Len(u) - 2 + 1) : SubSeq(u, 2, Len(u))[i] = u[2 + i - 1]
      BY <2>1, <3>1, SubSeqProperties
    <3> QED BY <2>1, <2>2, <3>2
  <2> HIDE DEF v
  <2>4. v = r
    BY <2>1, <2>3, SeqEqual
  <2>5. x \o r = r
    BY <1>3
  <2> QED BY <2>2, <2>4, <2>5 DEF u, v
<1> QED BY <1>2, <1>3

\* Parts that follow each other and what is cached make whole all messages that
\* end in them, but for one that begins in neither.
LEMMA CacheMore ==
  ASSUME NEW c \in Seq(Piece), NEW d \in Seq(Piece),
         \A k \in 1..Len(d) : OfServer(d[k]),
         \A k, l \in 1..Len(d) : l = k + 1 => (Ends(d[l]) <=> d[k].of = d[l].of),
         \A i \in 1..Len(c), k \in 1..Len(d) : Begins(d[k]) => c[i].of < d[k].of
  PROVE  \E lost \in 0..Len(OnLine(d)) :
           InCache(c \o d) = InCache(c) \o SubSeq(OnLine(d), lost + 1, Len(OnLine(d)))
<1> DEFINE n == Len(c)
           u == c \o d
<1>1. InCache(c) \in Seq(Nat) /\ WholeOf(c) \in Seq(Seq(Nat))
  BY CacheType
<1>2. CASE d = <<>>
  <2>1. OnLine(d) = <<>> /\ Len(OnLine(d)) = 0 /\ 0 \in 0..0 /\ 0 + 1 = 1
    BY <1>2, OfNone
  <2>2. SubSeq(<<>>, 1, 0) = <<>>
    BY SubSeqEmpty
  <2>3. InCache(c) \o <<>> = InCache(c) /\ u = c
    BY <1>1, <1>2
  <2> QED BY <2>1, <2>2, <2>3
<1>3. CASE d # <<>>
  <2> DEFINE X == [k \in 1..Len(d) |-> IF Whole(u, n + k) THEN <<d[k].of>> ELSE <<>>]
             R == [k \in 1..(Len(d) - 1) |-> EndOf(d[k + 1])]
             r == FlattenSeq(R)
             x == X[1]
             y == EndOf(d[1])
  <2>1. /\ u \in Seq(Piece) /\ Len(u) = n + Len(d) /\ n \in Nat /\ Len(d) \in Nat /\ Len(d) > 0
        /\ \A i \in 1..n : u[i] = c[i]
        /\ \A k \in 1..Len(d) : u[n + k] = d[k]
    BY <1>3
  <2>2. \A k \in 1..Len(d) : d[k] \in Piece /\ d[k].of \in Nat
    BY HalfBegins
  <2>3. X \in Seq(Seq(Nat)) /\ Len(X) = Len(d)
    <3>1. \A k \in 1..Len(d) : <<d[k].of>> \in Seq(Nat) /\ <<>> \in Seq(Nat)
      BY <2>2
    <3> QED BY <2>1, <3>1
  <2>4. R \in Seq(Seq(Nat)) /\ Len(R) = Len(d) - 1
    <3>1. \A k \in 1..(Len(d) - 1) : EndOf(d[k + 1]) \in Seq(Nat)
      <4>1. \A k \in 1..(Len(d) - 1) : k + 1 \in 1..Len(d)
        BY <2>1
      <4> QED BY <2>2, <4>1, PartType
    <3>2. Len(d) - 1 \in Nat
      BY <2>1
    <3> HIDE DEF n, u
    <3> QED BY <3>1, <3>2
  <2>5. /\ u \in Seq(Piece) /\ \A i \in 1..n : Whole(u, i) <=> Whole(c, i)
    <3>1. \A i \in 1..n : i > 1 => i - 1 \in 1..n
      BY <2>1
    <3> QED BY <2>1, <3>1 DEF Whole
  <2>6. WholeOf(u) = WholeOf(c) \o X
    <3>1. /\ WholeOf(u) \in Seq(Seq(Nat)) /\ Len(WholeOf(u)) = Len(u) /\ Len(WholeOf(c)) = n
      <4>1. WholeOf(u) \in Seq(Seq(Nat))
        BY <2>1, CacheType
      <4>2. Len(WholeOf(u)) = Len(u)
        BY <2>1 DEF WholeOf
      <4>3. Len(WholeOf(c)) = n
        BY <2>1 DEF WholeOf
      <4> QED BY <4>1, <4>2, <4>3
    <3>2. \A i \in 1..n : WholeOf(u)[i] = WholeOf(c)[i]
      <4>1. \A i \in 1..n : i \in 1..Len(u)
        BY <2>1
      <4> QED BY <2>1, <2>5, <4>1 DEF WholeOf
    <3>3. \A i \in 1..Len(u) : ~(i <= n) => WholeOf(u)[i] = X[i - n]
      <4>1. \A i \in 1..Len(u) : ~(i <= n) => i - n \in 1..Len(d) /\ n + (i - n) = i
        BY <2>1
      <4> QED BY <2>1, <4>1 DEF WholeOf
    <3>4. Len(WholeOf(u)) = Len(WholeOf(c)) + Len(X)
      BY <2>1, <2>3, <3>1
    <3>5. \A i \in 1..Len(WholeOf(u)) :
            WholeOf(u)[i] = IF i <= Len(WholeOf(c)) THEN WholeOf(c)[i]
                            ELSE X[i - Len(WholeOf(c))]
      <4>1. \A i \in 1..Len(u) : i <= n => i \in 1..n
        BY <2>1
      <4> HIDE DEF X, n, u
      <4> QED BY <3>1, <3>2, <3>3, <4>1
    <3> HIDE DEF X, u
    <3> QED BY <1>1, <2>3, <3>1, <3>4, <3>5, IsConcat
  <2>7. \A k \in 2..Len(d) : X[k] = EndOf(d[k])
    <3> SUFFICES ASSUME NEW k \in 2..Len(d) PROVE X[k] = EndOf(d[k])
      OBVIOUS
    <3>1. k \in 1..Len(d) /\ k - 1 \in 1..Len(d) /\ (k - 1) + 1 = k
      BY <2>1
    <3>2. n + k > 1 /\ u[(n + k) - 1] = d[k - 1] /\ u[n + k] = d[k]
      <4>1. (n + k) - 1 = n + (k - 1)
        BY <2>1
      <4>2. n + k > 1
        BY <2>1
      <4> QED BY <2>1, <3>1, <4>1, <4>2
    <3>3. Whole(u, n + k) <=> d[k - 1].of = d[k].of
      BY <3>2 DEF Whole
    <3>4. Ends(d[k]) <=> d[k - 1].of = d[k].of
      BY <3>1
    <3> QED BY <3>1, <3>3, <3>4 DEF EndOf
  <2>8. x = y \/ (x = <<>> /\ Len(y) = 1)
    <3>1. 1 \in 1..Len(d) /\ u[n + 1] = d[1] /\ x = IF Whole(u, n + 1) THEN <<d[1].of>> ELSE <<>>
      BY <2>1
    <3>2. CASE Whole(u, n + 1)
      <4>1. n > 0 /\ c[n].of = d[1].of /\ n \in 1..n
        <5>1. n + 1 > 1 /\ u[(n + 1) - 1].of = u[n + 1].of
          BY <3>2 DEF Whole
        <5>2. n > 0 /\ (n + 1) - 1 = n /\ n \in 1..n
          BY <2>1, <5>1
        <5> QED BY <2>1, <3>1, <5>1, <5>2
      <4>2. d[1].of \in Nat /\ d[1] \in Piece
        BY <2>2, <3>1
      <4>3. ~Begins(d[1])
        BY <3>1, <4>1, <4>2
      <4>4. Ends(d[1])
        BY <3>1, <4>2, <4>3, HalfBegins
      <4> QED BY <3>1, <3>2, <4>4 DEF EndOf
    <3>3. CASE ~Whole(u, n + 1)
      BY <3>1, <3>3 DEF EndOf
    <3> QED BY <3>2, <3>3
  <2>9. x \in Seq(Nat) /\ y \in Seq(Nat) /\ r \in Seq(Nat)
    <3>1. 1 \in 1..Len(X)
      BY <2>1, <2>3
    <3>2. x \in Seq(Nat)
      BY <2>3, <3>1
    <3>3. y \in Seq(Nat)
      BY <2>1, <2>2, PartType
    <3>4. r \in Seq(Nat)
      BY <2>4, FlattenType
    <3> QED BY <3>2, <3>3, <3>4
  <2>10. /\ EndsOf(d) \in Seq(Seq(Nat)) /\ Len(EndsOf(d)) = Len(d)
         /\ \A k \in 1..Len(d) : EndsOf(d)[k] = EndOf(d[k])
    BY PartsType DEF EndsOf
  <2>11. \A k \in 2..Len(d) : k - 1 \in 1..(Len(d) - 1) /\ (k - 1) + 1 = k
    BY <2>1
  <2>12. \A k \in 2..Len(d) : R[k - 1] = EndOf(d[k])
    BY <2>11
  <2> HIDE DEF X, R, u
  <2>13. X = <<x>> \o R /\ EndsOf(d) = <<y>> \o R
    <3>1. <<x>> \in Seq(Seq(Nat)) /\ <<y>> \in Seq(Seq(Nat)) /\ Len(<<x>>) = 1 /\ Len(<<y>>) = 1
      BY <2>9
    <3>2. Len(X) = Len(<<x>>) + Len(R) /\ Len(EndsOf(d)) = Len(<<y>>) + Len(R)
      BY <2>1, <2>3, <2>4, <2>10, <3>1
    <3>3. \A k \in 1..Len(d) : k = 1 \/ (k \in 2..Len(d) /\ ~(k <= 1))
      BY <2>1
    <3>4. /\ \A k \in 1..Len(X) : X[k] = IF k <= Len(<<x>>) THEN <<x>>[k] ELSE R[k - Len(<<x>>)]
          /\ \A k \in 1..Len(EndsOf(d)) :
               EndsOf(d)[k] = IF k <= Len(<<y>>) THEN <<y>>[k] ELSE R[k - Len(<<y>>)]
      BY <2>3, <2>7, <2>10, <2>12, <3>1, <3>3
    <3>5. X = <<x>> \o R
      <4>1. X \in Seq(Seq(Nat)) /\ R \in Seq(Seq(Nat))
        BY <2>3, <2>4
      <4> QED BY <3>1, <3>2, <3>4, <4>1, IsConcat
    <3>6. EndsOf(d) = <<y>> \o R
      <4>1. EndsOf(d) \in Seq(Seq(Nat)) /\ R \in Seq(Seq(Nat))
        BY <2>4, <2>10
      <4> QED BY <3>1, <3>2, <3>4, <4>1, IsConcat
    <3> QED BY <3>5, <3>6
  <2>14. FlattenSeq(X) = x \o r /\ OnLine(d) = y \o r
    <3>1. <<x>> \in Seq(Seq(Nat)) /\ <<y>> \in Seq(Seq(Nat))
      BY <2>9
    <3>2. /\ FlattenSeq(<<x>> \o R) = FlattenSeq(<<x>>) \o r
          /\ FlattenSeq(<<y>> \o R) = FlattenSeq(<<y>>) \o r
      BY <2>4, <3>1, FlattenConcat
    <3>3. FlattenSeq(<<x>>) = x /\ FlattenSeq(<<y>>) = y
      BY <2>9, FlattenOne
    <3> QED BY <2>13, <3>2, <3>3, FlatDefs, Zenon
  <2>15. InCache(u) = InCache(c) \o (x \o r)
    <3>1. InCache(u) = FlattenSeq(WholeOf(u)) /\ InCache(c) = FlattenSeq(WholeOf(c))
      BY Zenon DEF InCache, WholeOf
    <3>2. FlattenSeq(WholeOf(c) \o X) = FlattenSeq(WholeOf(c)) \o FlattenSeq(X)
      BY <1>1, <2>3, FlattenConcat
    <3> QED BY <2>6, <2>14, <3>1, <3>2, Zenon
  <2> HIDE DEF x, y, r
  <2>16. PICK lost \in 0..Len(y \o r) : x \o r = SubSeq(y \o r, lost + 1, Len(y \o r))
    BY <2>8, <2>9, EndOfIt
  <2> QED BY <2>14, <2>15, <2>16 DEF u
<1> QED BY <1>2, <1>3
-----------------------------------------------------------------------------
(* The messages of the server on their way.                                *)

\* InOrder and Joined, of any line s and cache c.
Ordered(s, c) ==
  /\ \A i, j \in 1..Len(s) :
       i < j /\ OfServer(s[i]) /\ Begins(s[j]) => s[i].of < s[j].of
  /\ \A i \in 1..Len(c), j \in 1..Len(s) : Begins(s[j]) => c[i].of < s[j].of
  /\ \A i, j \in 1..Len(s) :
       j = i + 1 /\ Ends(s[j]) => Begins(s[i]) /\ s[i].of = s[j].of

\* Fate, when t is left of the line s and the cache c becomes e.
Fated(s, t, c, e) ==
  \E m \in 0..Len(OnLine(s)) : \E lost \in 0..m :
    /\ OnLine(t) = SubSeq(OnLine(s), m + 1, Len(OnLine(s)))
    /\ InCache(e) = InCache(c) \o SubSeq(OnLine(s), lost + 1, m)

\* A read takes the first messages of the line, and keeps all but the first of
\* them, or none.
LEMMA ReadFate ==
  ASSUME NEW s \in Seq(Piece), NEW c \in Seq(Piece), Ordered(s, c),
         NEW n \in 1..Len(s), NEW e, e = c \/ e = c \o Parts(SubSeq(s, 1, n))
  PROVE  Fated(s, SubSeq(s, n + 1, Len(s)), c, e)
<1> DEFINE h == SubSeq(s, 1, n)
           t == SubSeq(s, n + 1, Len(s))
           d == Parts(h)
           a == OnLine(h)
           b == OnLine(t)
<1>1. n \in 0..Len(s) /\ n + 1 \in Nat /\ Len(s) \in Nat
  OBVIOUS
<1>2. h \in Seq(Piece) /\ t \in Seq(Piece) /\ s = h \o t
  <2>1. \A i \in 1..n : s[i] \in Piece
    OBVIOUS
  <2>2. \A i \in (n + 1)..Len(s) : s[i] \in Piece
    OBVIOUS
  <2>3. h \in Seq(Piece) /\ t \in Seq(Piece)
    BY <1>1, <2>1, <2>2, SubSeqProperties
  <2>4. /\ 1 \in 1..(Len(s) + 1) /\ n \in (1 - 1)..Len(s) /\ Len(s) \in n..Len(s)
    BY <1>1
  <2>5. h \o t = SubSeq(s, 1, Len(s))
    BY <2>4, ConcatAdjacentSubSeq
  <2>6. SubSeq(s, 1, Len(s)) = s
    BY SubSeqFull
  <2> QED BY <2>3, <2>5, <2>6, Zenon
<1>3. FromLine(s, n, d) /\ OnLine(d) = a
  <2>1. \A i, j \in 1..Len(s) :
          i < j /\ OfServer(s[i]) /\ Begins(s[j]) => s[i].of < s[j].of
    BY Zenon DEF Ordered
  <2>2. \A i, j \in 1..Len(s) :
          j = i + 1 /\ Ends(s[j]) => Begins(s[i]) /\ s[i].of = s[j].of
    BY Zenon DEF Ordered
  <2> QED BY <1>1, <2>1, <2>2, LineParts
<1> HIDE DEF h, t
<1>4. /\ OnLine(s) = a \o b /\ a \in Seq(Nat) /\ b \in Seq(Nat) /\ d \in Seq(Piece)
  BY <1>2, Concatenated, Zenon
<1> HIDE DEF a, b, d
<1>5. /\ Len(a) \in 0..Len(OnLine(s)) /\ Len(a) \in Nat
      /\ SubSeq(OnLine(s), Len(a) + 1, Len(OnLine(s))) = b
  <2>1. /\ a \o b \in Seq(Nat) /\ Len(a \o b) = Len(a) + Len(b)
        /\ Len(a) \in Nat /\ Len(b) \in Nat
        /\ \A i \in 1..Len(b) : (a \o b)[Len(a) + i] = b[i]
    BY <1>4
  <2> DEFINE u == a \o b
             v == SubSeq(u, Len(a) + 1, Len(u))
  <2> HIDE DEF u
  <2>2. v \in Seq(Nat) /\ Len(v) = Len(b) /\ \A i \in 1..Len(b) : v[i] = u[Len(a) + i]
    <3>1. u \in Seq(Nat) /\ Len(u) = Len(a) + Len(b) /\ Len(a) + 1 \in Int /\ Len(u) \in Int
      BY <2>1 DEF u
    <3>2. \A i \in (Len(a) + 1)..Len(u) : u[i] \in Nat
      BY <2>1, <3>1
    <3>3. /\ v \in Seq(Nat)
          /\ Len(v) = IF Len(a) + 1 <= Len(u) THEN Len(u) - (Len(a) + 1) + 1 ELSE 0
          /\ \A i \in 1..(Len(u) - (Len(a) + 1) + 1) : v[i] = u[(Len(a) + 1) + i - 1]
      BY <3>1, <3>2, SubSeqProperties
    <3> HIDE DEF v
    <3>4. Len(u) - (Len(a) + 1) + 1 = Len(b)
      BY <2>1, <3>1
    <3>5. \A i \in 1..Len(b) : (Len(a) + 1) + i - 1 = Len(a) + i
      BY <2>1
    <3>6. Len(v) = Len(b)
      BY <2>1, <3>1, <3>3, <3>4
    <3> QED BY <3>3, <3>4, <3>5, <3>6
  <2> HIDE DEF v
  <2>3. v = b
    BY <1>4, <2>1, <2>2, SeqEqual DEF u
  <2> QED BY <1>4, <2>1, <2>3 DEF u, v
<1>6. \E lost \in 0..Len(a) : InCache(e) = InCache(c) \o SubSeq(OnLine(s), lost + 1, Len(a))
  <2>1. CASE e = c
    <3>1. SubSeq(OnLine(s), Len(a) + 1, Len(a)) = <<>>
      BY <1>5, SubSeqEmpty
    <3>2. InCache(c) \o <<>> = InCache(c)
      BY CacheType
    <3>3. Len(a) \in 0..Len(a)
      BY <1>5
    <3> QED BY <2>1, <3>1, <3>2, <3>3
  <2>2. CASE e = c \o d
    <3>1. \A k \in 1..Len(d) : OfServer(d[k])
      BY <1>3, Zenon DEF FromLine
    <3>2. \A k, l \in 1..Len(d) : l = k + 1 => (Ends(d[l]) <=> d[k].of = d[l].of)
      BY <1>3, Zenon DEF FromLine
    <3>3. \A i \in 1..Len(c), k \in 1..Len(d) : Begins(d[k]) => c[i].of < d[k].of
      <4> SUFFICES ASSUME NEW i \in 1..Len(c), NEW k \in 1..Len(d), Begins(d[k])
                   PROVE  c[i].of < d[k].of
        OBVIOUS
      <4>1. PICK j \in 1..n : d[k] = s[j]
        BY <1>3, Zenon DEF FromLine
      <4>2. j \in 1..Len(s)
        BY <1>1
      <4> QED BY <4>1, <4>2 DEF Ordered
    <3>4. PICK lost \in 0..Len(OnLine(d)) :
            InCache(c \o d) = InCache(c) \o SubSeq(OnLine(d), lost + 1, Len(OnLine(d)))
      BY <1>4, <3>1, <3>2, <3>3, CacheMore
    <3>5. lost \in 0..Len(a) /\ InCache(e) = InCache(c) \o SubSeq(a, lost + 1, Len(a))
      BY <1>3, <2>2, <3>4
    <3>6. SubSeq(a \o b, lost + 1, Len(a)) = SubSeq(a, lost + 1, Len(a))
      <4>1. lost \in 0..Len(a) /\ Len(a) \in Nat
        BY <1>5, <3>5
      <4>2. CASE lost = Len(a)
        <5>1. Len(a) < lost + 1 /\ lost + 1 \in Int /\ Len(a) \in Int
          BY <4>1, <4>2
        <5> QED BY <5>1, SubSeqEmpty
      <4>3. CASE lost # Len(a)
        <5>1. lost + 1 \in 1..Len(a) /\ Len(a) \in 1..Len(a)
          BY <4>1, <4>3
        <5> QED BY <1>4, <5>1, SubSeqOfConcat1
      <4> QED BY <4>2, <4>3
    <3> QED BY <1>4, <3>5, <3>6
  <2>3. e = c \/ e = c \o d
    BY DEF d, h
  <2> QED BY <2>1, <2>2, <2>3
<1> QED BY <1>5, <1>6 DEF b, t, Fated

\* So it does in the model: the messages read have one of the fates of SendCall.
LEMMA FateStep ==
  ASSUME StateOK, MessagesInv, NEW n \in Reads, Taken(n), cache' = cache \/ Keep(Chunk(n))
  PROVE  \E m \in 0..Len(OnLine(line)) : \E lost \in 0..m : Call!Fate(m, lost)
<1>1. line \in Seq(Piece) /\ cache \in Seq(Piece) /\ n \in 1..Len(line)
  BY DEF StateOK, MessagesInv, Reads
<1>2. cache' = cache \/ cache' = cache \o Parts(SubSeq(line, 1, n))
  BY DEF Keep, Chunk
<1>3. line' = SubSeq(line, n + 1, Len(line))
  BY DEF Taken
<1>4. Ordered(line, cache)
  BY Zenon DEF MessagesInv, InOrder, Joined, Ordered
<1>5. Fated(line, line', cache, cache')
  BY <1>1, <1>2, <1>3, <1>4, ReadFate
<1>6. PICK m \in 0..Len(OnLine(line)) : \E lost \in 0..m :
        /\ OnLine(line') = SubSeq(OnLine(line), m + 1, Len(OnLine(line)))
        /\ InCache(cache') = InCache(cache) \o SubSeq(OnLine(line), lost + 1, m)
  BY <1>5, Zenon DEF Fated
<1>7. PICK lost \in 0..m :
        /\ OnLine(line') = SubSeq(OnLine(line), m + 1, Len(OnLine(line)))
        /\ InCache(cache') = InCache(cache) \o SubSeq(OnLine(line), lost + 1, m)
  BY <1>6, Zenon
<1>8. Call!Fate(m, lost)
  BY <1>7 DEF Call!Fate
<1> QED BY <1>8

\* No message is read.
LEMMA NoFate ==
  ASSUME StateOK, MessagesInv, UNCHANGED <<line, cache>>
  PROVE  0 \in 0..Len(OnLine(line)) /\ 0 \in 0..0 /\ Call!Fate(0, 0)
<1>1. OnLine(line) \in Seq(Nat) /\ InCache(cache) \in Seq(Nat)
  <2>1. line \in Seq(Piece) /\ cache \in Seq(Piece)
    BY DEF StateOK, MessagesInv
  <2> QED BY <2>1, Concatenated, CacheType
<1>2. /\ SubSeq(OnLine(line), 0 + 1, Len(OnLine(line))) = OnLine(line)
      /\ SubSeq(OnLine(line), 0 + 1, 0) = <<>>
  BY <1>1, SubSeqFull, SubSeqEmpty
<1>3. InCache(cache) \o <<>> = InCache(cache)
  BY <1>1
<1>4. OnLine(line)' = OnLine(line) /\ InCache(cache)' = InCache(cache)
  BY Zenon
<1>5. 0 \in 0..Len(OnLine(line)) /\ 0 \in 0..0
  BY <1>1
<1> QED BY <1>2, <1>3, <1>4, <1>5, Zenon DEF Call!Fate
-----------------------------------------------------------------------------
(* Every step keeps the messages in order.                                 *)

\* Nothing comes or goes, but gprs_cache may be cleared.
LEMMA SameMessages ==
  ASSUME MessagesInv, UNCHANGED <<line, due, served>>, cache' = cache \/ cache' = <<>>
  PROVE  MessagesInv'
<1>1. cache' \in Seq(Piece) /\ \A i \in 1..Len(cache') : i \in 1..Len(cache) /\ cache'[i] = cache[i]
  <2>1. CASE cache' = cache
    BY <2>1 DEF MessagesInv
  <2>2. CASE cache' = <<>>
    BY <2>2
  <2> QED BY <2>1, <2>2
<1>2. Numbered' /\ InOrder' /\ Joined'
  BY <1>1, Zenon DEF MessagesInv, Numbered, InOrder, Joined
<1> QED BY <1>1, <1>2 DEF MessagesInv

\* The modem will say one text of its own more.
LEMMA MessagesSays ==
  ASSUME StateOK, MessagesInv, UNCHANGED <<line, cache, served>>,
         NEW text \in Texts, text # "message", Says(text)
  PROVE  MessagesInv'
<1>1. /\ Len(due') = Len(due) + 1 /\ Len(due) \in Nat
      /\ \A i \in 1..Len(due) : due'[i] = due[i]
      /\ due'[Len(due) + 1].text = text
  BY SaysType DEF StateOK
<1>2. \A i \in 1..Len(due') : ~OfServer(due'[i])
  <2>1. \A i \in 1..Len(due') : i \in 1..Len(due) \/ i = Len(due) + 1
    BY <1>1
  <2> QED BY <1>1, <2>1 DEF MessagesInv, Numbered, OfServer
<1>3. Numbered' /\ InOrder' /\ Joined'
  BY <1>2, Zenon DEF MessagesInv, Numbered, InOrder, Joined
<1> QED BY <1>3 DEF MessagesInv

\* A read.
LEMMA MessagesRead ==
  ASSUME StateOK, MessagesInv, UNCHANGED <<due, served>>, NEW n \in Reads, Taken(n),
         cache' = cache \/ cache' = <<>> \/ Keep(Chunk(n))
  PROVE  MessagesInv'
<1>1. line \in Seq(Piece) /\ cache \in Seq(Piece)
  BY DEF StateOK, MessagesInv
<1>2. /\ n \in 1..Len(line) /\ Len(line') = Len(line) - n /\ Len(line) \in Nat
      /\ \A i \in 1..Len(line') : line'[i] = line[i + n]
  BY <1>1, Rest
<1>3. \A i \in 1..Len(line') : i + n \in 1..Len(line) /\ line'[i] = line[i + n]
  BY <1>2
\* What is cached afterwards was so before, or is of the part of the line read.
<1>4. /\ cache' \in Seq(Piece)
      /\ \A k \in 1..Len(cache') :
           \/ \E i \in 1..Len(cache) : cache'[k] = cache[i]
           \/ \E i \in 1..n : cache'[k] = line[i] /\ OfServer(line[i])
  <2>1. CASE cache' = cache \/ cache' = <<>>
    <3>1. CASE cache' = cache
      <4>1. \A k \in 1..Len(cache') : cache'[k] = cache[k] /\ k \in 1..Len(cache)
        BY <3>1
      <4> QED BY <1>1, <3>1, <4>1, Zenon
    <3>2. CASE cache' = <<>>
      BY <3>2
    <3> QED BY <2>1, <3>1, <3>2
  <2>2. CASE Keep(Chunk(n))
    <3> DEFINE d == Parts(SubSeq(line, 1, n))
    <3>1. cache' = cache \o d
      BY <2>2, Zenon DEF Keep, Chunk
    <3>2. SubSeq(line, 1, n) \in Seq(Piece)
      <4>1. \A i \in 1..n : line[i] \in Piece
        BY <1>1, <1>2
      <4> QED BY <1>2, <4>1, SubSeqProperties
    <3>3. d \in Seq(Piece)
      BY <3>2, Concatenated
    <3>4. FromLine(line, n, d)
      <4>1. \A i, j \in 1..Len(line) :
              i < j /\ OfServer(line[i]) /\ Begins(line[j]) => line[i].of < line[j].of
        BY Zenon DEF MessagesInv, InOrder
      <4>2. \A i, j \in 1..Len(line) :
              j = i + 1 /\ Ends(line[j]) => Begins(line[i]) /\ line[i].of = line[j].of
        BY Zenon DEF MessagesInv, Joined
      <4>3. n \in 0..Len(line)
        BY <1>2
      <4> QED BY <1>1, <4>1, <4>2, <4>3, LineParts
    <3>5. \A k \in 1..Len(d) : \E i \in 1..n : d[k] = line[i] /\ OfServer(line[i])
      BY <3>4, Zenon DEF FromLine
    <3> HIDE DEF d
    <3>6. /\ cache' \in Seq(Piece) /\ Len(cache') = Len(cache) + Len(d)
          /\ Len(cache) \in Nat /\ Len(d) \in Nat
          /\ \A k \in 1..Len(cache') :
               cache'[k] = IF k <= Len(cache) THEN cache[k] ELSE d[k - Len(cache)]
      BY <1>1, <3>1, <3>3
    <3>7. \A k \in 1..Len(cache') :
            \/ k \in 1..Len(cache) /\ cache'[k] = cache[k]
            \/ k - Len(cache) \in 1..Len(d) /\ cache'[k] = d[k - Len(cache)]
      BY <3>6
    <3>8. ASSUME NEW k \in 1..Len(cache')
          PROVE  \/ \E i \in 1..Len(cache) : cache'[k] = cache[i]
                 \/ \E i \in 1..n : cache'[k] = line[i] /\ OfServer(line[i])
      <4>1. CASE k \in 1..Len(cache) /\ cache'[k] = cache[k]
        BY <4>1
      <4>2. CASE k - Len(cache) \in 1..Len(d) /\ cache'[k] = d[k - Len(cache)]
        <5>1. PICK i \in 1..n : d[k - Len(cache)] = line[i] /\ OfServer(line[i])
          BY <3>5, <4>2
        <5> QED BY <4>2, <5>1
      <4> QED BY <3>7, <4>1, <4>2
    <3> QED BY <3>6, <3>8
  <2> QED BY <2>1, <2>2
<1>5. \A i \in 1..n : i \in 1..Len(line) /\ \A j \in 1..Len(line') : i < j + n
  BY <1>2
<1>6. Numbered'
  <2>1. \A i \in 1..Len(line') : OfServer(line'[i]) => line'[i].of <= served'
    BY <1>3 DEF MessagesInv, Numbered
  <2>2. \A k \in 1..Len(cache') : cache'[k].of <= served'
    BY <1>4, <1>5 DEF MessagesInv, Numbered
  <2>3. \A i \in 1..Len(due') : ~OfServer(due'[i])
    BY DEF MessagesInv, Numbered
  <2> QED BY <2>1, <2>2, <2>3 DEF Numbered
<1>7. InOrder'
  <2>1. ASSUME NEW i \in 1..Len(line'), NEW j \in 1..Len(line'), i < j,
               OfServer(line'[i]), Begins(line'[j])
        PROVE  line'[i].of < line'[j].of
    <3>1. i + n \in 1..Len(line) /\ j + n \in 1..Len(line) /\ i + n < j + n
      BY <1>2, <1>3, <2>1
    <3> QED BY <1>3, <2>1, <3>1 DEF MessagesInv, InOrder
  <2>2. ASSUME NEW k \in 1..Len(cache'), NEW j \in 1..Len(line'), Begins(line'[j])
        PROVE  cache'[k].of < line'[j].of
    <3>1. j + n \in 1..Len(line) /\ line'[j] = line[j + n]
      BY <1>3
    <3>2. CASE \E i \in 1..Len(cache) : cache'[k] = cache[i]
      BY <2>2, <3>1, <3>2 DEF MessagesInv, InOrder
    <3>3. CASE \E i \in 1..n : cache'[k] = line[i] /\ OfServer(line[i])
      <4>1. PICK i \in 1..n : cache'[k] = line[i] /\ OfServer(line[i])
        BY <3>3
      <4>2. i \in 1..Len(line) /\ i < j + n
        BY <1>5
      <4> QED BY <2>2, <3>1, <4>1, <4>2 DEF MessagesInv, InOrder
    <3> QED BY <1>4, <3>2, <3>3
  <2> QED BY <2>1, <2>2 DEF InOrder
<1>8. Joined'
  <2> SUFFICES ASSUME NEW i \in 1..Len(line'), NEW j \in 1..Len(line'), j = i + 1, Ends(line'[j])
               PROVE  Begins(line'[i]) /\ line'[i].of = line'[j].of
    BY DEF Joined
  <2>1. i + n \in 1..Len(line) /\ j + n \in 1..Len(line) /\ j + n = (i + n) + 1
    BY <1>2, <1>3
  <2> QED BY <1>3, <2>1 DEF MessagesInv, Joined
<1> QED BY <1>4, <1>6, <1>7, <1>8 DEF MessagesInv

\* The line after something was written to it.
LEMMA HalvesAre ==
  ASSUME NEW q \in Said
  PROVE  /\ Halves(q) \in Seq(Piece)
         /\ OfServer(q) => Halves(q) = <<Half(q, 1), Half(q, 2)>>
         /\ \A i \in 1..Len(Halves(q)) :
              (OfServer(Halves(q)[i]) <=> OfServer(q)) /\ Halves(q)[i].of = q.of
<1> DEFINE a == Half(q, 1)
           b == Half(q, 2)
<1>1. /\ a \in Piece /\ b \in Piece /\ a.text = q.text /\ b.text = q.text
      /\ a.of = q.of /\ b.of = q.of
  BY DEF Half, Said, Piece
<1>2. Halves(q) = IF q.text = "Prompt" THEN <<a>> ELSE <<a, b>>
  BY DEF Halves
<1> HIDE DEF a, b
<1>3. Halves(q) \in Seq(Piece)
  BY <1>1, <1>2
<1>4. \A i \in 1..Len(Halves(q)) : Halves(q)[i] \in {a, b}
  BY <1>2
<1> QED BY <1>1, <1>2, <1>3, <1>4 DEF a, b, OfServer

\* The modem's own texts bring no message.
LEMMA ModemMessages ==
  ASSUME StateOK, MessagesInv, ModemWrites
  PROVE  MessagesInv' /\ OnLine(line') = OnLine(line)
<1> DEFINE q == Head(due)
           h == Halves(q)
<1>1. line \in Seq(Piece) /\ due \in Seq(Said) /\ due # <<>> /\ due' = Tail(due) /\ line' = line \o h
  BY DEF StateOK, ModemWrites
<1>2. q \in Said /\ q = due[1] /\ 1 \in 1..Len(due)
  BY <1>1
<1>3. /\ Len(due') = Len(due) - 1 /\ \A i \in 1..Len(due') : due'[i] = due[i + 1] /\ i + 1 \in 1..Len(due)
  BY <1>1
<1>4. ~OfServer(q)
  BY <1>2 DEF MessagesInv, Numbered
<1>5. h \in Seq(Piece) /\ \A i \in 1..Len(h) : ~OfServer(h[i])
  BY <1>2, <1>4, HalvesAre
<1> HIDE DEF q, h
<1>6. UNCHANGED <<cache, served>>
  BY DEF ModemWrites, counts
<1>7. /\ Len(line') = Len(line) + Len(h) /\ Len(line) \in Nat /\ Len(h) \in Nat
      /\ \A i \in 1..Len(line') : line'[i] = IF i <= Len(line) THEN line[i] ELSE h[i - Len(line)]
  BY <1>1, <1>5
<1>8. \A i \in 1..Len(line') : OfServer(line'[i]) => i \in 1..Len(line) /\ line'[i] = line[i]
  <2>1. \A i \in 1..Len(line') : i \in 1..Len(line) \/ i - Len(line) \in 1..Len(h)
    BY <1>7
  <2>2. \A i \in 1..Len(line') : ~(i <= Len(line)) => i - Len(line) \in 1..Len(h)
    BY <1>7
  <2>3. \A i \in 1..Len(line') : i <= Len(line) => i \in 1..Len(line)
    BY <1>7
  <2> QED BY <1>5, <1>7, <2>2, <2>3
<1>9. Numbered'
  <2>1. \A i \in 1..Len(due') : ~OfServer(due'[i])
    BY <1>3 DEF MessagesInv, Numbered
  <2> QED BY <1>6, <1>8, <2>1 DEF MessagesInv, Numbered
<1>10. \A i \in 1..Len(line') : Begins(line'[i]) \/ Ends(line'[i]) => OfServer(line'[i])
  BY DEF Begins, Ends
<1>11. InOrder'
  BY <1>6, <1>8, <1>10 DEF MessagesInv, InOrder
<1>12. Joined'
  <2> SUFFICES ASSUME NEW i \in 1..Len(line'), NEW j \in 1..Len(line'), j = i + 1, Ends(line'[j])
               PROVE  Begins(line'[i]) /\ line'[i].of = line'[j].of
    BY DEF Joined
  <2>1. j \in 1..Len(line) /\ line'[j] = line[j]
    BY <1>8, <1>10
  <2>2. i \in 1..Len(line) /\ line'[i] = line[i]
    BY <1>7, <2>1
  <2> QED BY <2>1, <2>2 DEF MessagesInv, Joined
<1>13. OnLine(line') = OnLine(line)
  <2>1. OnLine(line \o h) = OnLine(line) \o OnLine(h) /\ OnLine(line) \in Seq(Nat)
    BY <1>1, <1>5, Concatenated
  <2>2. OnLine(h) = <<>>
    <3>1. \A i \in 1..Len(h) : EndsOf(h)[i] = <<>>
      BY <1>5 DEF EndsOf, EndOf, Ends
    <3>2. Len(h) \in {1, 2} /\ (Len(h) = 1 => h = <<h[1]>>) /\ (Len(h) = 2 => h = <<h[1]>> \o <<h[2]>>)
      <4>1. h = <<Half(q, 1)>> \/ h = <<Half(q, 1), Half(q, 2)>>
        BY DEF h, Halves
      <4> QED BY <4>1
    <3>3. \A i \in 1..Len(h) : OnLine(<<h[i]>>) = <<>>
      <4>1. \A i \in 1..Len(h) : h[i] \in Piece /\ EndOf(h[i]) = <<>>
        BY <1>5 DEF EndOf, Ends
      <4> QED BY <4>1, OfOne
    <3>4. CASE Len(h) = 1
      <4>1. 1 \in 1..Len(h) /\ h = <<h[1]>>
        BY <3>2, <3>4
      <4> QED BY <3>3, <4>1, Zenon
    <3>5. CASE Len(h) = 2
      <4>1. 1 \in 1..Len(h) /\ 2 \in 1..Len(h) /\ h = <<h[1]>> \o <<h[2]>>
        BY <3>2, <3>5
      <4>2. <<h[1]>> \in Seq(Piece) /\ <<h[2]>> \in Seq(Piece)
        BY <1>5, <4>1
      <4>3. OnLine(<<h[1]>> \o <<h[2]>>) = OnLine(<<h[1]>>) \o OnLine(<<h[2]>>)
        BY <4>2, Concatenated
      <4>4. OnLine(<<h[1]>>) = <<>> /\ OnLine(<<h[2]>>) = <<>>
        BY <3>3, <4>1
      <4>5. <<>> \o <<>> = <<>>
        OBVIOUS
      <4> QED BY <4>1, <4>3, <4>4, <4>5, Zenon
    <3> QED BY <3>2, <3>4, <3>5
  <2> QED BY <1>1, <2>1, <2>2
<1>14. cache' \in Seq(Piece)
  BY <1>6 DEF MessagesInv
<1> QED BY <1>9, <1>11, <1>12, <1>13, <1>14 DEF MessagesInv

\* Two pieces.
LEMMA Pair ==
  ASSUME NEW a \in Piece, NEW b \in Piece
  PROVE  /\ <<a>> \in Seq(Piece) /\ <<b>> \in Seq(Piece)
         /\ <<a, b>> = <<a>> \o <<b>> /\ <<a, b>> \in Seq(Piece)
<1>1. <<a>> \in Seq(Piece) /\ <<b>> \in Seq(Piece)
  OBVIOUS
<1>2. <<a, b>> \in Seq(Piece)
  OBVIOUS
<1>3. <<a, b>> = <<a>> \o <<b>>
  <2>1. /\ Len(<<a, b>>) = Len(<<a>>) + Len(<<b>>)
        /\ \A i \in 1..Len(<<a, b>>) :
             <<a, b>>[i] = IF i <= Len(<<a>>) THEN <<a>>[i] ELSE <<b>>[i - Len(<<a>>)]
    OBVIOUS
  <2> QED BY <1>1, <1>2, <2>1, IsConcat
<1> QED BY <1>1, <1>2, <1>3

\* A message of the server is one more.
LEMMA ServerMessages ==
  ASSUME StateOK, MessagesInv, ServerWrites
  PROVE  MessagesInv' /\ \E m \in Nat : OnLine(line') = Append(OnLine(line), m)
<1> DEFINE q == [text |-> "message", of |-> served + 1]
           x == Half(q, 1)
           y == Half(q, 2)
<1>1. /\ q \in Said /\ OfServer(q) /\ served \in Nat
      /\ served' = served + 1 /\ UNCHANGED <<cache, due>> /\ line \in Seq(Piece)
  BY DEF StateOK, ServerWrites, modem, Said, Texts, OfServer
<1>2. line' = line \o <<x, y>>
  <2>1. line' = line \o Halves(q)
    BY <1>1 DEF ServerWrites
  <2> QED BY <1>1, <2>1, HalvesAre
<1>3. /\ x \in Piece /\ y \in Piece /\ OfServer(x) /\ OfServer(y)
      /\ x.of = served + 1 /\ y.of = served + 1
      /\ Begins(x) /\ Ends(y) /\ ~Ends(x) /\ ~Begins(y)
  BY <1>1 DEF Half, Piece, Said, OfServer, Begins, Ends
<1> HIDE DEF q, x, y
<1>4. /\ Len(line') = Len(line) + 2 /\ Len(line) \in Nat
      /\ \A i \in 1..Len(line) : line'[i] = line[i]
      /\ line'[Len(line) + 1] = x /\ line'[Len(line) + 2] = y
  BY <1>1, <1>2, <1>3
<1>5. \A i \in 1..Len(line') : i \in 1..Len(line) \/ i = Len(line) + 1 \/ i = Len(line) + 2
  BY <1>4
<1>6. \A i \in 1..Len(line) : OfServer(line[i]) => line[i].of < served + 1
  <2>1. \A i \in 1..Len(line) : line[i].of \in Nat
    BY <1>1, HalfBegins
  <2> QED BY <1>1, <2>1 DEF MessagesInv, Numbered
<1>7. \A i \in 1..Len(cache) : cache[i].of < served + 1
  <2>1. \A i \in 1..Len(cache) : cache[i].of \in Nat
    BY HalfBegins DEF MessagesInv
  <2> QED BY <1>1, <2>1 DEF MessagesInv, Numbered
<1>8. Numbered'
  <2>1. \A i \in 1..Len(line') : OfServer(line'[i]) => line'[i].of <= served'
    <3>1. \A i \in 1..Len(line) : OfServer(line[i]) => line[i].of <= served + 1
      <4>1. \A i \in 1..Len(line) : line[i].of \in Nat
        BY <1>1, HalfBegins
      <4> QED BY <1>1, <1>6, <4>1
    <3> QED BY <1>1, <1>3, <1>4, <1>5, <3>1
  <2>2. \A i \in 1..Len(cache') : cache'[i].of <= served'
    <3>1. \A i \in 1..Len(cache) : cache[i].of \in Nat
      BY HalfBegins DEF MessagesInv
    <3> QED BY <1>1, <1>7, <3>1
  <2> QED BY <1>1, <2>1, <2>2 DEF MessagesInv, Numbered
<1>9. InOrder'
  <2>1. ASSUME NEW i \in 1..Len(line'), NEW j \in 1..Len(line'), i < j,
               OfServer(line'[i]), Begins(line'[j])
        PROVE  line'[i].of < line'[j].of
    <3>1. CASE j \in 1..Len(line)
      <4>1. i \in 1..Len(line)
        BY <1>5, <2>1, <3>1
      <4> QED BY <1>4, <2>1, <3>1, <4>1 DEF MessagesInv, InOrder
    <3>2. CASE j = Len(line) + 1
      <4>1. i \in 1..Len(line)
        BY <1>4, <1>5, <2>1, <3>2
      <4> QED BY <1>3, <1>4, <1>6, <2>1, <3>2, <4>1
    <3>3. CASE j = Len(line) + 2
      BY <1>3, <1>4, <2>1, <3>3
    <3> QED BY <1>5, <3>1, <3>2, <3>3
  <2>2. ASSUME NEW i \in 1..Len(cache'), NEW j \in 1..Len(line'), Begins(line'[j])
        PROVE  cache'[i].of < line'[j].of
    <3>1. CASE j \in 1..Len(line)
      BY <1>1, <1>4, <2>2, <3>1 DEF MessagesInv, InOrder
    <3>2. CASE j = Len(line) + 1
      BY <1>1, <1>3, <1>4, <1>7, <3>2
    <3>3. CASE j = Len(line) + 2
      BY <1>3, <1>4, <2>2, <3>3
    <3> QED BY <1>5, <3>1, <3>2, <3>3
  <2> QED BY <2>1, <2>2 DEF InOrder
<1>10. Joined'
  <2> SUFFICES ASSUME NEW i \in 1..Len(line'), NEW j \in 1..Len(line'), j = i + 1, Ends(line'[j])
               PROVE  Begins(line'[i]) /\ line'[i].of = line'[j].of
    BY DEF Joined
  <2>1. CASE j \in 1..Len(line)
    <3>1. i \in 1..Len(line)
      BY <2>1
    <3> QED BY <1>4, <2>1, <3>1 DEF MessagesInv, Joined
  <2>2. CASE j = Len(line) + 1
    BY <1>3, <1>4, <2>2
  <2>3. CASE j = Len(line) + 2
    <3>1. i = Len(line) + 1
      BY <1>4, <2>3
    <3> QED BY <1>3, <1>4, <2>3, <3>1
  <2> QED BY <1>5, <2>1, <2>2, <2>3
<1>11. OnLine(line') = Append(OnLine(line), served + 1) /\ served + 1 \in Nat
  <2>1. <<x>> \in Seq(Piece) /\ <<y>> \in Seq(Piece) /\ <<x, y>> = <<x>> \o <<y>> /\ <<x, y>> \in Seq(Piece)
    <3>1. x \in Piece /\ y \in Piece
      BY <1>3
    <3> QED BY <3>1, Pair
  <2>2. OnLine(<<x>> \o <<y>>) = OnLine(<<x>>) \o OnLine(<<y>>)
    BY <2>1, Concatenated
  <2>3. OnLine(<<x>>) = <<>> /\ OnLine(<<y>>) = <<served + 1>>
    <3>1. EndOf(x) = <<>> /\ EndOf(y) = <<served + 1>>
      BY <1>3, Zenon DEF EndOf
    <3>2. x \in Piece /\ y \in Piece
      BY <1>3
    <3>3. OnLine(<<x>>) = EndOf(x) /\ OnLine(<<y>>) = EndOf(y)
      BY <3>2, OfOne
    <3> QED BY <3>1, <3>3
  <2>4. <<>> \o <<served + 1>> = <<served + 1>>
    OBVIOUS
  <2>5. OnLine(<<x, y>>) = <<served + 1>>
    BY <2>1, <2>2, <2>3, <2>4, Zenon
  <2>6. OnLine(line \o <<x, y>>) = OnLine(line) \o OnLine(<<x, y>>) /\ OnLine(line) \in Seq(Nat)
    BY <1>1, <2>1, Concatenated
  <2>7. OnLine(line') = OnLine(line) \o <<served + 1>>
    BY <1>2, <2>5, <2>6, Zenon
  <2>8. served + 1 \in Nat
    BY <1>1
  <2>9. Append(OnLine(line), served + 1) = OnLine(line) \o <<served + 1>>
    BY <2>6, <2>8, AppendIsConcat
  <2> QED BY <2>7, <2>8, <2>9
<1>12. cache' \in Seq(Piece)
  BY <1>1 DEF MessagesInv
<1> QED BY <1>8, <1>9, <1>10, <1>11, <1>12 DEF MessagesInv
\* What the modem is to say after a step of the caller: nothing more, or a text
\* of its own.
LEMMA OwnTexts ==
  ASSUME TakesStart \/ TakesData \/ TakesStatus \/ CutShort
  PROVE  UNCHANGED due \/ \E text \in Texts \ {"message"} : Says(text)
<1>1. /\ "Prompt" \in Texts \ {"message"} /\ "ERROR" \in Texts \ {"message"}
      /\ "SEND_OK" \in Texts \ {"message"} /\ "SEND_FAIL" \in Texts \ {"message"}
      /\ "CONNECT_OK" \in Texts \ {"message"} /\ "CLOSED" \in Texts \ {"message"}
      /\ "CONNECTING" \in Texts \ {"message"}
  BY DEF Texts, Answers
<1>2. CASE TakesStart
  BY <1>1, <1>2, StartEffect, Zenon
<1>3. CASE TakesData
  BY <1>1, <1>3, DataEffect, Zenon
<1>4. CASE TakesStatus
  BY <1>1, <1>4, StatusEffect, Zenon
<1>5. CASE CutShort
  BY <1>5, CutEffect, Zenon
<1> QED BY <1>2, <1>3, <1>4, <1>5

\* So it keeps the messages in order.
LEMMA MessagesDue ==
  ASSUME StateOK, MessagesInv, UNCHANGED <<line, cache, served>>,
         UNCHANGED due \/ \E text \in Texts \ {"message"} : Says(text)
  PROVE  MessagesInv'
<1>1. CASE UNCHANGED due
  BY <1>1, SameMessages
<1>2. CASE \E text \in Texts \ {"message"} : Says(text)
  BY <1>2, MessagesSays
<1> QED BY <1>1, <1>2

\* Every step does.
LEMMA MessagesStep ==
  ASSUME StateOK, MessagesInv, [Next]_vars
  PROVE  MessagesInv'
<1>1. CASE Send \/ GiveUp \/ ReadNothing \/ Check \/ Done \/ UNCHANGED vars
  <2>1. UNCHANGED <<line, due, served, cache>>
    BY <1>1, Zenon DEF Send, GiveUp, ReadNothing, Check, Done, vars, modem, counts
  <2> QED BY <2>1, SameMessages
<1>2. CASE Write
  <2>1. UNCHANGED <<line, cache, served>>
    BY <1>2, Zenon DEF Write, counts
  <2>2. UNCHANGED due \/ TakesStart \/ TakesData \/ CutShort
    BY <1>2, Zenon DEF Write
  <2> QED BY <2>1, <2>2, OwnTexts, MessagesDue
<1>3. CASE ReadReady \/ ReadAnswer
  <2>1. UNCHANGED <<due, served, cache>>
    BY <1>3, Zenon DEF ReadReady, ReadAnswer, modem, counts
  <2>2. \E n \in Reads : Taken(n)
    BY <1>3, Zenon DEF ReadReady, ReadAnswer
  <2> QED BY <2>1, <2>2, MessagesRead
<1>4. CASE ReadOther
  <2>1. UNCHANGED <<due, served>>
    BY <1>4, Zenon DEF ReadOther, modem, counts
  <2>2. \E n \in Reads : Taken(n) /\ Keep(Chunk(n))
    BY <1>4, Zenon DEF ReadOther
  <2> QED BY <2>1, <2>2, MessagesRead
<1>5. CASE CheckStray
  <2>1. UNCHANGED <<due, served>>
    BY <1>5, Zenon DEF CheckStray, modem, counts
  <2>2. UNCHANGED <<line, cache>> \/ \E n \in Reads : Taken(n) /\ Keep(Chunk(n))
    BY <1>5, Zenon DEF CheckStray
  <2> QED BY <2>1, <2>2, MessagesRead, SameMessages
<1>6. CASE CheckAsk
  <2>1. UNCHANGED <<line, cache, served>>
    BY <1>6, Zenon DEF CheckAsk, counts
  <2>2. UNCHANGED due \/ TakesStatus \/ CutShort
    BY <1>6, Zenon DEF CheckAsk
  <2> QED BY <2>1, <2>2, OwnTexts, MessagesDue
<1>7. CASE CheckTold
  <2>1. UNCHANGED <<due, served, cache>>
    BY <1>7, Zenon DEF CheckTold, modem, counts
  <2>2. UNCHANGED line \/ \E n \in Reads : Taken(n)
    BY <1>7, Zenon DEF CheckTold
  <2> QED BY <2>1, <2>2, MessagesRead, SameMessages
<1>8. CASE Listen
  <2>1. UNCHANGED <<due, served>> /\ cache' = <<>>
    BY <1>8, Zenon DEF Listen, modem, counts
  <2>2. UNCHANGED line \/ \E n \in Reads : Taken(n)
    BY <1>8, Zenon DEF Listen
  <2> QED BY <2>1, <2>2, MessagesRead, SameMessages
<1>9. CASE ModemWrites
  BY <1>9, ModemMessages
<1>10. CASE ServerWrites
  BY <1>10, ServerMessages
<1>11. CASE ModemReady \/ LinkDrops
  <2>1. UNCHANGED <<line, cache, served>>
    BY <1>11, Zenon DEF ModemReady, LinkDrops, counts
  <2>2. Says("SMS_Ready") \/ Says("CLOSED")
    BY <1>11, Zenon DEF ModemReady, LinkDrops, Says
  <2>3. "SMS_Ready" \in Texts \ {"message"} /\ "CLOSED" \in Texts \ {"message"}
    BY DEF Texts, Answers
  <2> QED BY <2>1, <2>2, <2>3, MessagesDue
<1> QED BY <1>1, <1>2, <1>3, <1>4, <1>5, <1>6, <1>7, <1>8, <1>9, <1>10, <1>11
        DEF Next, SendTcpData, TcpStatusCheck

\* The invariant behind SendCallSpec.
LEMMA MessagesHold == Spec => []MessagesInv
<1>1. Init => MessagesInv
  BY DEF Init, MessagesInv, Numbered, InOrder, Joined
<1>2. StateOK /\ MessagesInv /\ [Next]_vars => MessagesInv'
  BY MessagesStep
<1> QED BY <1>1, <1>2, TypeCorrect, PTL DEF Spec

\* The Boolean variables keep their type.
LEMMA FlagsHold == Spec => []FlagsOK
<1>1. Init => FlagsOK
  BY DEF Init, FlagsOK
<1>2. StateOK /\ FlagsOK /\ [Next]_vars => FlagsOK'
  <2> SUFFICES ASSUME StateOK, FlagsOK, [Next]_vars PROVE FlagsOK'
    OBVIOUS
  <2>1. result' \in BOOLEAN
    <3>1. FALSE \in BOOLEAN /\ (times_1 > 0) \in BOOLEAN
      BY DEF StateOK
    <3>2. UNCHANGED result \/ result' = FALSE \/ result' = (times_1 > 0)
      <4>1. CASE GiveUp
        BY <4>1, Zenon DEF GiveUp, StartFails, TextFails, Return
      <4>2. CASE ReadAnswer
        BY <4>2, Zenon DEF ReadAnswer, StartFails, TextFails, Succeeds, Return
      <4>3. ~GiveUp /\ ~ReadAnswer => UNCHANGED result
        BY Zenon DEF Next, SendTcpData, TcpStatusCheck, Send, Write, ReadNothing, ReadReady,
           ReadOther, Check, CheckStray, CheckAsk, CheckTold, Listen, ModemWrites,
           ServerWrites, ModemReady, LinkDrops, Done, vars
      <4> QED BY <4>1, <4>2, <4>3
    <3> QED BY <3>1, <3>2, Zenon DEF FlagsOK
  <2>2. link' \in BOOLEAN
    <3>1. UNCHANGED link \/ link' = FALSE
      BY Zenon DEF Next, SendTcpData, TcpStatusCheck, Send, Write, GiveUp, ReadNothing, ReadReady,
         ReadOther, ReadAnswer, Check, CheckStray, CheckAsk, CheckTold, Listen, ModemWrites,
         ServerWrites, ModemReady, LinkDrops, Done, vars, modem
    <3> QED BY <3>1, Zenon DEF FlagsOK
  <2> QED BY <2>1, <2>2, Zenon DEF FlagsOK
<1> QED BY <1>1, <1>2, TypeCorrect, PTL DEF Spec

\* Every variable has its type, the cache too, and no loop counter of
\* send_command_check, send_tcp_data or tcp_status_check becomes negative.
THEOREM TypesHold == Spec => []TypeOK
<1>1. StateOK /\ FlagsOK /\ MessagesInv => TypeOK
  BY Zenon DEF TypeOK, MessagesInv
<1> QED BY <1>1, TypeCorrect, FlagsHold, MessagesHold, PTL
-----------------------------------------------------------------------------
(* What the steps are to a caller.                                         *)

\* An empty gprs_cache holds no message.
LEMMA CacheEmpty == InCache(<<>>) = <<>>
<1>1. WholeOf(<<>>) = <<>>
  BY DEF WholeOf
<1>2. InCache(<<>>) = FlattenSeq(WholeOf(<<>>))
  BY Zenon DEF InCache, WholeOf
<1> QED BY <1>1, <1>2, FlattenEmpty, Zenon

\* A caller who is in a call, or not in one, before and after the step.
LEMMA StillCalling ==
  ASSUME Calling' <=> Calling
  PROVE  Calling' = Calling
OBVIOUS

\* A step that makes a call begin, send the text, or changes nothing.
LEMMA CallBegin ==
  ASSUME ~Calling, Calling', copies' = 0, UNCHANGED <<result, line, cache>>
  PROVE  Call!Begin
<1>1. OnLine(line)' = OnLine(line) /\ InCache(cache)' = InCache(cache)
  BY Zenon
<1>2. Calling' = TRUE
  OBVIOUS
<1> QED BY <1>1, <1>2, Zenon DEF Call!Begin

LEMMA CallDeliver ==
  ASSUME Calling, Calling', copies < DataTries, copies' = copies + 1,
         UNCHANGED <<result, line, cache>>
  PROVE  Call!Deliver
<1>1. OnLine(line)' = OnLine(line) /\ InCache(cache)' = InCache(cache)
  BY Zenon
<1>2. Calling' = Calling
  BY StillCalling
<1> QED BY <1>1, <1>2, Zenon DEF Call!Deliver

LEMMA CallSame ==
  ASSUME Calling' <=> Calling, UNCHANGED <<result, copies, cache>>,
         OnLine(line') = OnLine(line)
  PROVE  UNCHANGED Call!vars
<1>1. OnLine(line)' = OnLine(line) /\ InCache(cache)' = InCache(cache)
  BY Zenon
<1>2. Calling' = Calling
  BY StillCalling
<1> QED BY <1>1, <1>2, Zenon DEF Call!vars

\* What the caller does not take part in, a read of the line, and the last one
\* of the call.
Stays == (Calling' <=> Calling) /\ UNCHANGED <<result, copies>>
Stops == /\ Calling /\ ~Calling' /\ UNCHANGED copies
         /\ result' \in BOOLEAN /\ (result' => copies > 0)

\* A step that reads.
LEMMA CallRead ==
  ASSUME \E m \in 0..Len(OnLine(line)) : \E lost \in 0..m : Call!Fate(m, lost),
         Stays \/ Stops
  PROVE  Call!Read
<1>1. Calling' = Calling \/ ~Stays
  BY StillCalling DEF Stays
<1>2. Call!End \/ ~Stops
  <2>1. Stops => Calling' = FALSE
    BY DEF Stops
  <2> QED BY <2>1, Zenon DEF Call!End, Stops
<1>3. Call!End \/ (Calling' = Calling /\ UNCHANGED <<result, copies>>)
  BY <1>1, <1>2, Zenon DEF Stays
<1> QED BY <1>3, Zenon DEF Call!Read

\* rec_tcp_data between the calls.
LEMMA CallListen ==
  ASSUME StateOK, MessagesInv, ~Calling, Stays, cache' = <<>>,
         UNCHANGED line \/ \E n \in Reads : Taken(n)
  PROVE  Call!Listen
<1>1. Calling' = Calling
  BY StillCalling DEF Stays
<1>2. InCache(cache)' = <<>>
  BY CacheEmpty, Zenon
<1>3. \E m \in 0..Len(OnLine(line)) : OnLine(line') = SubSeq(OnLine(line), m + 1, Len(OnLine(line)))
  <2>1. line \in Seq(Piece) /\ cache \in Seq(Piece)
    BY DEF StateOK, MessagesInv
  <2>2. CASE UNCHANGED line
    <3>1. OnLine(line) \in Seq(Nat)
      BY <2>1, Concatenated
    <3>2. 0 \in 0..Len(OnLine(line)) /\ SubSeq(OnLine(line), 0 + 1, Len(OnLine(line))) = OnLine(line)
      BY <3>1, SubSeqFull
    <3>3. OnLine(line') = OnLine(line)
      BY <2>2, Zenon
    <3> QED BY <3>2, <3>3, Zenon
  <2>3. ASSUME NEW n \in Reads, Taken(n)
        PROVE  \E m \in 0..Len(OnLine(line)) :
                 OnLine(line') = SubSeq(OnLine(line), m + 1, Len(OnLine(line)))
    <3>1. n \in 1..Len(line) /\ line' = SubSeq(line, n + 1, Len(line))
      BY <2>3 DEF Reads, Taken
    <3>2. Ordered(line, cache)
      BY Zenon DEF MessagesInv, InOrder, Joined, Ordered
    <3>3. Fated(line, line', cache, cache)
      BY <2>1, <3>1, <3>2, ReadFate
    <3> QED BY <3>3, Zenon DEF Fated
  <2> QED BY <2>2, <2>3
<1>4. \E m \in 0..Len(OnLine(line)) : OnLine(line)' = SubSeq(OnLine(line), m + 1, Len(OnLine(line)))
  BY <1>3, Zenon
<1> QED BY <1>1, <1>2, <1>4, Zenon DEF Call!Listen, Stays

\* The server writes.
LEMMA CallArrive ==
  ASSUME StateOK, MessagesInv, ServerWrites
  PROVE  Call!Arrive
<1>1. /\ Calling' <=> Calling
      /\ UNCHANGED <<result, copies, cache>>
  <2>1. UNCHANGED <<pc, result, copies, cache>>
    BY Zenon DEF ServerWrites
  <2> QED BY <2>1
<1>2. Calling' = Calling
  BY <1>1, StillCalling
<1>3. InCache(cache)' = InCache(cache)
  BY <1>1, Zenon
<1>4. PICK m \in Nat : OnLine(line') = Append(OnLine(line), m)
  BY ServerMessages
<1>5. OnLine(line) \in Seq(Nat)
  BY Concatenated DEF StateOK
<1> DEFINE o == OnLine(line)
           p == OnLine(line')
<1>6. Len(p) = Len(o) + 1 /\ SubSeq(p, 1, Len(o)) = o
  <2>1. o \in Seq(Nat) /\ p = Append(o, m)
    BY <1>4, <1>5
  <2> HIDE DEF o, p
  <2>2. Len(p) = Len(o) + 1 /\ p \in Seq(Nat) /\ \A i \in 1..Len(o) : p[i] = o[i]
    BY <2>1
  <2> DEFINE v == SubSeq(p, 1, Len(o))
  <2>3. v \in Seq(Nat) /\ Len(v) = Len(o) /\ \A i \in 1..Len(o) : v[i] = p[i]
    <3>1. \A i \in 1..Len(o) : p[i] \in Nat
      BY <2>1, <2>2
    <3>2. Len(o) \in Nat
      BY <2>1
    <3>3. /\ v \in Seq(Nat)
          /\ Len(v) = IF 1 <= Len(o) THEN Len(o) - 1 + 1 ELSE 0
          /\ \A i \in 1..(Len(o) - 1 + 1) : v[i] = p[1 + i - 1]
      BY <3>1, <3>2, SubSeqProperties
    <3> HIDE DEF v
    <3> QED BY <3>2, <3>3
  <2> HIDE DEF v
  <2>4. v = o
    BY <2>1, <2>2, <2>3, SeqEqual
  <2> QED BY <2>2, <2>4 DEF v
<1> QED BY <1>1, <1>2, <1>3, <1>6, Zenon DEF Call!Arrive, o, p
-----------------------------------------------------------------------------
(* The refinement.                                                         *)

\* A write sends the text once, if the loop for it allows, or does nothing.
LEMMA CallWrite ==
  ASSUME StateOK, MessagesInv, DeliveredInv, Write
  PROVE  Call!Deliver \/ UNCHANGED Call!vars
<1>1. Calling /\ Calling' /\ UNCHANGED <<goal, times_1, result, line, cache>>
  BY DEF Write
<1>2. CASE UNCHANGED copies
  <2>1. OnLine(line') = OnLine(line)
    BY <1>1, Zenon
  <2> QED BY <1>1, <1>2, <2>1, CallSame
<1>3. CASE goal = "data" /\ TakesData
  <2>1. CASE mode = "prompt" /\ copies' = copies + 1
    <3>1. copies < DataTries
      BY <1>1, <1>3, <2>1, GprsConstants DEF DeliveredInv, TextsTaken, StateOK
    <3> QED BY <1>1, <2>1, <3>1, CallDeliver
  <2>2. UNCHANGED copies \/ (mode = "prompt" /\ copies' = copies + 1)
    BY <1>3, DataEffect, Zenon
  <2> QED BY <1>2, <2>1, <2>2
<1>4. UNCHANGED copies \/ (goal = "data" /\ TakesData)
  <2>1. \/ goal = "start" /\ TakesStart
        \/ goal # "start" /\ TakesData
        \/ UNCHANGED copies
        \/ CutShort
    BY Zenon DEF Write
  <2>2. goal \in {"start", "data"}
    BY DEF StateOK
  <2> QED BY <2>1, <2>2, StartEffect, CutEffect
<1> QED BY <1>2, <1>3, <1>4

\* A command that fails ends the call with FALSE, or the call goes on.
LEMMA FailStops ==
  ASSUME Calling, StartFails \/ TextFails, UNCHANGED copies
  PROVE  Stays \/ Stops
<1>1. \/ pc' = "idle" /\ result' = FALSE
      \/ pc' = "write" /\ UNCHANGED result
  BY Zenon DEF StartFails, TextFails, Return, StartCommand
<1>2. CASE pc' = "idle" /\ result' = FALSE
  BY <1>2 DEF Stops
<1>3. CASE pc' = "write" /\ UNCHANGED result
  BY <1>3 DEF Stays
<1> QED BY <1>1, <1>2, <1>3

\* An answer ends the call with TRUE only if the text was sent.
LEMMA AnswerStops ==
  ASSUME StateOK, DeliveredInv, DeliveredInv', ReadAnswer
  PROVE  Stays \/ Stops
<1>1. Calling /\ UNCHANGED copies
  BY Zenon DEF ReadAnswer
<1>2. CASE StartFails \/ TextFails
  BY <1>1, <1>2, FailStops
<1>3. CASE Succeeds
  <2>1. \/ pc' = "write" /\ UNCHANGED result
        \/ pc' = "idle" /\ (result' = FALSE \/ result' = (times_1 > 0))
    BY <1>3, Zenon DEF Succeeds, Return, StartCommand
  <2>2. CASE pc' = "write" /\ UNCHANGED result
    BY <1>1, <2>2 DEF Stays
  <2>3. CASE pc' = "idle" /\ (result' = FALSE \/ result' = (times_1 > 0))
    <3>1. ~Calling'
      BY <2>3
    <3>2. result' \in BOOLEAN
      <4>1. FALSE \in BOOLEAN /\ (times_1 > 0) \in BOOLEAN
        BY DEF StateOK
      <4> QED BY <2>3, <4>1, Zenon
    <3>3. result' => copies' > 0
      BY <3>1, Zenon DEF DeliveredInv, Delivered
    <3>4. result' => copies > 0
      BY <1>1, <3>3
    <3> QED BY <1>1, <3>1, <3>2, <3>4, Zenon DEF Stops
  <2> QED BY <2>1, <2>2, <2>3
<1> QED BY <1>2, <1>3 DEF ReadAnswer

\* Every step is one of SendCall, or changes nothing there.
LEMMA CallStep ==
  ASSUME StateOK, MessagesInv, DeliveredInv, DeliveredInv', [Next]_vars
  PROVE  Call!Next \/ UNCHANGED Call!vars
<1>1. CASE Send
  <2>1. ~Calling /\ Calling'
    BY <1>1 DEF Send, StartCommand
  <2>2. copies' = 0 /\ UNCHANGED <<result, line, cache>>
    BY <1>1, Zenon DEF Send
  <2> QED BY <2>1, <2>2, CallBegin DEF Call!Next
<1>2. CASE Write
  BY <1>2, CallWrite DEF Call!Next
<1>3. CASE GiveUp
  <2>1. pc = "write" /\ (StartFails \/ TextFails) /\ UNCHANGED <<line, cache, copies>>
    BY <1>3, Zenon DEF GiveUp
  <2>2. \E m \in 0..Len(OnLine(line)) : \E lost \in 0..m : Call!Fate(m, lost)
    BY <2>1, NoFate
  <2>3. Stays \/ Stops
    BY <2>1, FailStops
  <2> QED BY <2>2, <2>3, CallRead DEF Call!Next
<1>4. CASE ReadReady \/ ReadOther
  <2>1. UNCHANGED <<result, copies>> /\ pc = "read" /\ pc' = "write"
    BY <1>4, Zenon DEF ReadReady, ReadOther
  <2>2. Stays
    BY <2>1 DEF Stays
  <2>3. \E n \in Reads : Taken(n) /\ (cache' = cache \/ Keep(Chunk(n)))
    BY <1>4, Zenon DEF ReadReady, ReadOther
  <2> QED BY <2>2, <2>3, FateStep, CallRead DEF Call!Next
<1>5. CASE ReadAnswer
  <2>1. Stays \/ Stops
    BY <1>5, AnswerStops
  <2>2. \E n \in Reads : Taken(n) /\ cache' = cache
    BY <1>5, Zenon DEF ReadAnswer
  <2> QED BY <2>1, <2>2, FateStep, CallRead DEF Call!Next
<1>6. CASE CheckStray \/ CheckTold
  <2>1. /\ UNCHANGED <<result, copies>>
        /\ pc \in {"stray", "told"} /\ pc' \in {"ask", "stray", "idle"}
    BY <1>6 DEF CheckStray, CheckTold, NextQuestion
  <2>2. Stays
    BY <2>1 DEF Stays
  <2>3. \/ UNCHANGED <<line, cache>>
        \/ \E n \in Reads : Taken(n) /\ (cache' = cache \/ Keep(Chunk(n)))
    BY <1>6, Zenon DEF CheckStray, CheckTold
  <2>4. \E m \in 0..Len(OnLine(line)) : \E lost \in 0..m : Call!Fate(m, lost)
    BY <2>3, FateStep, NoFate
  <2> QED BY <2>2, <2>4, CallRead DEF Call!Next
<1>7. CASE Listen
  <2>1. UNCHANGED <<pc, result, copies>> /\ pc = "idle" /\ cache' = <<>>
    BY <1>7, Zenon DEF Listen
  <2>2. UNCHANGED line \/ \E n \in Reads : Taken(n)
    BY <1>7, Zenon DEF Listen
  <2>3. ~Calling /\ Stays
    BY <2>1 DEF Stays
  <2> QED BY <2>1, <2>2, <2>3, CallListen DEF Call!Next
<1>8. CASE ServerWrites
  BY <1>8, CallArrive DEF Call!Next
<1>9. ASSUME Calling' <=> Calling, UNCHANGED <<result, copies, cache, line>>
      PROVE  UNCHANGED Call!vars
  <2>1. OnLine(line') = OnLine(line)
    BY <1>9, Zenon
  <2> QED BY <1>9, <2>1, CallSame
<1>10. CASE ModemWrites
  <2>1. UNCHANGED <<pc, result, copies, cache>>
    BY <1>10, Zenon DEF ModemWrites
  <2> QED BY <1>10, <2>1, ModemMessages, CallSame
<1>11. CASE ReadNothing
  <2>1. pc = "read" /\ pc' = "write" /\ UNCHANGED <<result, copies, cache, line>>
    BY <1>11, Zenon DEF ReadNothing
  <2> QED BY <1>9, <2>1
<1>12. CASE Check \/ CheckAsk
  <2>1. pc \in {"idle", "ask"} /\ pc' \in {"told", "stray", "idle"}
    BY <1>12 DEF Check, CheckAsk, NextQuestion
  <2>2. UNCHANGED <<result, cache, line>>
    BY <1>12, Zenon DEF Check, CheckAsk
  <2>3. UNCHANGED copies
    BY <1>12, StatusEffect, CutEffect, Zenon DEF Check, CheckAsk
  <2> QED BY <1>9, <2>1, <2>2, <2>3
<1>13. CASE ModemReady \/ LinkDrops \/ Done \/ UNCHANGED vars
  <2>1. UNCHANGED <<pc, result, copies, cache, line>>
    BY <1>13, Zenon DEF ModemReady, LinkDrops, Done, vars
  <2> QED BY <1>9, <2>1
<1> QED BY <1>1, <1>2, <1>3, <1>4, <1>5, <1>6, <1>7, <1>8, <1>10, <1>11, <1>12, <1>13
        DEF Next, SendTcpData, TcpStatusCheck

\* The dialogue implements SendCall: send_tcp_data answers TRUE only if the text
\* was sent in this call, at most DataTries times, and the messages of the server
\* that the reads of send_command_check and tcp_status_check find reach gprs_cache
\* in their order or not at all, none twice: for any number of messages and calls.
THEOREM SendCallHolds == Spec => SendCallSpec
<1>1. Init => Call!Init
  <2> SUFFICES ASSUME Init PROVE Call!Init
    OBVIOUS
  <2>1. pc = "idle" /\ result = FALSE /\ copies = 0 /\ line = <<>> /\ cache = <<>>
    BY Zenon DEF Init
  <2>2. Calling = FALSE
    BY <2>1
  <2>3. OnLine(line) = <<>> /\ InCache(cache) = <<>>
    BY <2>1, OfNone, CacheEmpty, Zenon
  <2> QED BY <2>1, <2>2, <2>3, Zenon DEF Call!Init
<1>2. StateOK /\ MessagesInv /\ DeliveredInv /\ DeliveredInv' /\ [Next]_vars
        => [Call!Next]_(Call!vars)
  BY CallStep
<1> QED BY <1>1, <1>2, TypeCorrect, MessagesHold, DeliveredInvHolds, PTL
        DEF Spec, SendCallSpec, Call!Spec
=============================================================================
