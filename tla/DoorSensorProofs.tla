-------------------------- MODULE DoorSensorProofs --------------------------
(***************************************************************************)
(* Proofs about DoorSensor, for any buffer, number of movements and        *)
(* faults: the types, that what is sent are closings in their order, and   *)
(* that the thread is the sensor BoxApp takes it for.  The argument        *)
(* follows a movement's number: it is greater in the buffer than in the    *)
(* hands of get_key, and greater there than in what was sent.              *)
(***************************************************************************)
EXTENDS DoorSensor, SequenceTheorems, FiniteSetTheorems, TLAPS

Events == [type : {"press", "release", "other", "syn", "dropped"}, of : Nat]
OfDoor(e) == e.type \in {"press", "release"}

\* The door's events in the buffer tell of its movements, in their order.
Queued ==
  /\ \A i \in 1..Len(buffer) : OfDoor(buffer[i]) =>
       buffer[i].of \in 1..Len(moved) /\ moved[buffer[i].of] = buffer[i].type
  /\ \A i, j \in 1..Len(buffer) :
       i < j /\ OfDoor(buffer[i]) /\ OfDoor(buffer[j]) => buffer[i].of < buffer[j].of

\* Movement n comes before those in the buffer, and after those sent.
BeforeQueued(n) == \A i \in 1..Len(buffer) : OfDoor(buffer[i]) => n < buffer[i].of
AfterTold(n)    == \A k \in 1..Len(told) : told[k] < n

\* A release that get_key has read is such a movement.
Reading ==
  pc \in {"sync", "send"} /\ key_status = "release" =>
    /\ at \in 1..Len(moved) /\ moved[at] = "release"
    /\ BeforeQueued(at) /\ AfterTold(at)

\* What was sent are closings, each before the next and all before the buffer.
Sent ==
  /\ \A k \in 1..Len(told) :
       told[k] \in 1..Len(moved) /\ moved[told[k]] = "release" /\ BeforeQueued(told[k])
  /\ \A j, k \in 1..Len(told) : j < k => told[j] < told[k]

SeqsOK ==
  buffer \in Seq(Events) /\ moved \in Seq({"press", "release"}) /\ told \in Seq(Nat)
SensorInv == SeqsOK /\ TypeOK /\ Queued /\ Reading /\ Sent
-----------------------------------------------------------------------------
(* The buffer.                                                             *)

\* An event comes behind what is there, or behind the notice that it is gone.
LEMMA PutEvents ==
  ASSUME NEW buf \in Seq(Events), NEW e \in Events, Len(buf) < BufSize
  PROVE  /\ Put(buf, e) \in Seq(Events)
         /\ Len(Put(buf, e)) \in 1..(BufSize - 1)
         /\ Len(Put(buf, e)) = Len(buf) + 1 => Put(buf, e) = Append(buf, e)
         /\ \A i \in 1..Len(Put(buf, e)) :
              \/ i = Len(Put(buf, e)) /\ Put(buf, e)[i] = e
              \/ i < Len(Put(buf, e)) /\ i \in 1..Len(buf) /\ Put(buf, e)[i] = buf[i]
              \/ ~OfDoor(Put(buf, e)[i])
<1>1. CASE Len(buf) + 1 < BufSize
  <2>1. Put(buf, e) = Append(buf, e)
    BY <1>1 DEF Put
  <2> QED BY <1>1, <2>1, SensorConstantsOK
<1>2. CASE ~(Len(buf) + 1 < BufSize)
  <2> DEFINE d == Event("dropped", 0)
  <2>1. Put(buf, e) = <<d, e>> /\ d \in Events /\ ~OfDoor(d)
    BY <1>2 DEF Put, Event, Events, OfDoor
  <2>2. Len(buf) \in Nat /\ Len(buf) + 1 > 2
    BY <1>2, SensorConstantsOK
  <2> HIDE DEF d
  <2> QED BY <2>1, <2>2, SensorConstantsOK
<1> QED BY <1>1, <1>2

\* A packet: of the door, only old events at their places, and the new one
\* behind them.
LEMMA PacketEvents ==
  ASSUME buffer \in Seq(Events), Len(buffer) < BufSize, NEW e \in Events, Packet(e)
  PROVE  /\ buffer' \in Seq(Events) /\ Len(buffer') < BufSize
         /\ \E m \in Nat : \A i \in 1..Len(buffer') : OfDoor(buffer'[i]) =>
              \/ i = m /\ buffer'[i] = e
              \/ i < m /\ i \in 1..Len(buffer) /\ buffer'[i] = buffer[i]
         /\ overrun' \/ (~overrun /\ buffer' = Append(Append(buffer, e), Syn))
<1> DEFINE p == Put(buffer, e)
           w == Put(p, Syn)
<1>1. /\ p \in Seq(Events) /\ Len(p) \in 1..(BufSize - 1)
      /\ Len(p) = Len(buffer) + 1 => p = Append(buffer, e)
      /\ \A i \in 1..Len(p) :
           \/ i = Len(p) /\ p[i] = e
           \/ i < Len(p) /\ i \in 1..Len(buffer) /\ p[i] = buffer[i]
           \/ ~OfDoor(p[i])
  BY PutEvents
<1>2. Syn \in Events /\ ~OfDoor(Syn)
  BY DEF Syn, Event, Events, OfDoor
<1>3. buffer' = w /\ overrun' = (overrun \/ Len(w) < Len(buffer) + 2)
  BY DEF Packet
<1>4. Len(buffer) \in Nat /\ BufSize \in Nat /\ BufSize > 2
  BY SensorConstantsOK
<1>4a. /\ Len(p) = Len(buffer) + 1 \/ (Len(p) = 2 /\ Len(buffer) >= 2)
  BY <1>4 DEF Put
<1>4b. Len(w) = Len(p) + 1 \/ (Len(w) = 2 /\ Len(p) >= 2)
  BY <1>1, <1>4 DEF Put
<1> HIDE DEF p
<1>5. /\ w \in Seq(Events) /\ Len(w) \in 1..(BufSize - 1)
      /\ Len(w) = Len(p) + 1 => w = Append(p, Syn)
      /\ \A i \in 1..Len(w) :
           \/ i = Len(w) /\ w[i] = Syn
           \/ i < Len(w) /\ i \in 1..Len(p) /\ w[i] = p[i]
           \/ ~OfDoor(w[i])
  <2>1. Len(p) < BufSize
    BY <1>1, <1>4
  <2> QED BY <1>1, <1>2, <2>1, PutEvents
<1> HIDE DEF w
<1>6. \A i \in 1..Len(buffer') : OfDoor(buffer'[i]) =>
        \/ i = Len(p) /\ buffer'[i] = e
        \/ i < Len(p) /\ i \in 1..Len(buffer) /\ buffer'[i] = buffer[i]
  BY <1>1, <1>2, <1>3, <1>5
<1>7. overrun' \/ (~overrun /\ buffer' = Append(Append(buffer, e), Syn))
  <2>1. CASE Len(w) < Len(buffer) + 2
    BY <1>3, <2>1
  <2>2. CASE Len(w) >= Len(buffer) + 2
    <3>1. Len(p) \in Nat /\ Len(w) \in Nat
      BY <1>1, <1>5
    <3>2. \A b, q, v \in Nat :
            /\ q = b + 1 \/ (q = 2 /\ b >= 2)
            /\ v = q + 1 \/ (v = 2 /\ q >= 2)
            /\ v >= b + 2
            => q = b + 1 /\ v = q + 1
      OBVIOUS
    <3>2a. Len(p) = Len(buffer) + 1 /\ Len(w) = Len(p) + 1
      BY <1>4, <1>4a, <1>4b, <2>2, <3>1, <3>2
    <3>3. w = Append(Append(buffer, e), Syn)
      BY <1>1, <1>5, <3>2a
    <3> QED BY <1>3, <3>3
  <2>3. Len(w) \in Nat
    BY <1>5
  <2> QED BY <1>4, <2>1, <2>2, <2>3
<1>8. Len(p) \in Nat /\ buffer' \in Seq(Events) /\ Len(buffer') < BufSize
  BY <1>1, <1>3, <1>4, <1>5
<1> QED BY <1>6, <1>7, <1>8

\* A read takes the first event.
LEMMA Rest1 ==
  ASSUME buffer \in Seq(Events), buffer # <<>>, buffer' = Tail(buffer)
  PROVE  /\ buffer' \in Seq(Events) /\ Len(buffer') = Len(buffer) - 1
         /\ Head(buffer) = buffer[1] /\ 1 \in 1..Len(buffer) /\ buffer[1] \in Events
         /\ \A i \in 1..Len(buffer') : i + 1 \in 1..Len(buffer) /\ buffer'[i] = buffer[i + 1]
<1>1. Len(buffer) \in Nat /\ Len(buffer) >= 1
  OBVIOUS
<1> QED BY <1>1, HeadTailProperties
-----------------------------------------------------------------------------
(* The invariant.                                                          *)

LEMMA SensorInit == Init => SensorInv
<1> SUFFICES ASSUME Init PROVE SensorInv
  OBVIOUS
<1>1. SeqsOK
  BY DEF Init, SeqsOK
<1>2. Len(buffer) = 0 /\ Len(told) = 0 /\ Len(moved) = 0
  BY DEF Init
<1>3. TypeOK
  <2>1. BufSize \in Nat /\ BufSize > 2
    BY SensorConstantsOK
  <2>2. Len(buffer) < BufSize /\ at \in 0..Len(moved)
    BY <1>2, <2>1 DEF Init
  <2> QED BY <2>2 DEF Init, TypeOK
<1>4. Queued /\ Reading /\ Sent
  BY <1>2 DEF Init, Queued, Reading, Sent
<1> QED BY <1>1, <1>3, <1>4 DEF SensorInv

\* A packet of the door's newest movement, or of none, keeps the order.
LEMMA PacketKeeps ==
  ASSUME SensorInv, NEW e \in Events, Packet(e),
         moved' \in Seq({"press", "release"}), Len(moved') >= Len(moved),
         \A n \in 1..Len(moved) : moved'[n] = moved[n],
         OfDoor(e) => /\ e.of \in 1..Len(moved') /\ moved'[e.of] = e.type
                      /\ e.of > Len(moved),
         UNCHANGED <<pc, key_status, at, told>>, shut' \in BOOLEAN
  PROVE  SensorInv'
<1> USE DEF SensorInv
<1>1. PICK m \in Nat : \A i \in 1..Len(buffer') : OfDoor(buffer'[i]) =>
        \/ i = m /\ buffer'[i] = e
        \/ i < m /\ i \in 1..Len(buffer) /\ buffer'[i] = buffer[i]
  BY PacketEvents DEF SeqsOK, TypeOK
<1>2. buffer' \in Seq(Events) /\ Len(buffer') < BufSize
  BY PacketEvents DEF SeqsOK, TypeOK
<1>3. Len(moved) \in Nat /\ Len(moved') \in Nat /\ Len(buffer) \in Nat /\ Len(buffer') \in Nat
  BY <1>2 DEF SeqsOK
<1>4. SeqsOK'
  BY <1>2 DEF SeqsOK
<1>5. overrun' \in BOOLEAN
  BY DEF Packet, TypeOK
<1>6. TypeOK'
  BY <1>2, <1>3, <1>5 DEF TypeOK
\* Any number of an old movement that came before the buffer still does.
<1>7. ASSUME NEW n \in 1..Len(moved), BeforeQueued(n)
      PROVE  BeforeQueued(n)'
  <2> SUFFICES ASSUME NEW i \in 1..Len(buffer'), OfDoor(buffer'[i])
               PROVE  n < buffer'[i].of
    BY DEF BeforeQueued
  <2>1. CASE buffer'[i] = e
    BY <1>3, <2>1
  <2>2. CASE i \in 1..Len(buffer) /\ buffer'[i] = buffer[i]
    BY <1>7, <2>2 DEF BeforeQueued
  <2> QED BY <1>1, <2>1, <2>2
<1>8. Queued'
  <2>1. ASSUME NEW i \in 1..Len(buffer'), OfDoor(buffer'[i])
        PROVE  buffer'[i].of \in 1..Len(moved') /\ moved'[buffer'[i].of] = buffer'[i].type
    <3>1. CASE buffer'[i] = e
      BY <2>1, <3>1
    <3>2. CASE i \in 1..Len(buffer) /\ buffer'[i] = buffer[i]
      <4>1. buffer[i].of \in 1..Len(moved) /\ moved[buffer[i].of] = buffer[i].type
        BY <2>1, <3>2 DEF Queued
      <4> QED BY <1>3, <3>2, <4>1
    <3> QED BY <1>1, <2>1, <3>1, <3>2
  <2>2. ASSUME NEW i \in 1..Len(buffer'), NEW j \in 1..Len(buffer'), i < j,
               OfDoor(buffer'[i]), OfDoor(buffer'[j])
        PROVE  buffer'[i].of < buffer'[j].of
    <3>1. i \in 1..Len(buffer) /\ buffer'[i] = buffer[i]
      <4>1. i \in Nat /\ j \in Nat /\ j <= m
        BY <1>1, <1>3, <2>2
      <4> QED BY <1>1, <2>2, <4>1
    <3>2. buffer[i].of \in 1..Len(moved)
      BY <2>2, <3>1 DEF Queued
    <3>3. CASE buffer'[j] = e
      BY <1>3, <2>2, <3>1, <3>2, <3>3
    <3>4. CASE j \in 1..Len(buffer) /\ buffer'[j] = buffer[j]
      BY <2>2, <3>1, <3>4 DEF Queued
    <3> QED BY <1>1, <2>2, <3>3, <3>4
  <2> QED BY <2>1, <2>2 DEF Queued
<1>9. Reading'
  <2> SUFFICES ASSUME pc \in {"sync", "send"}, key_status = "release" PROVE Reading'
    BY DEF Reading
  <2>1. at \in 1..Len(moved) /\ moved[at] = "release" /\ BeforeQueued(at) /\ AfterTold(at)
    BY DEF Reading
  <2>2. BeforeQueued(at)'
    BY <1>7, <2>1 DEF BeforeQueued
  <2>3. AfterTold(at)'
    BY <2>1 DEF AfterTold
  <2>4. at' \in 1..Len(moved') /\ moved'[at'] = "release"
    BY <1>3, <2>1
  <2> QED BY <2>2, <2>3, <2>4 DEF Reading
<1>10. Sent'
  <2>1. ASSUME NEW k \in 1..Len(told)
        PROVE  told[k] \in 1..Len(moved') /\ moved'[told[k]] = "release"
               /\ BeforeQueued(told[k])'
    <3>1. told[k] \in 1..Len(moved) /\ moved[told[k]] = "release" /\ BeforeQueued(told[k])
      BY DEF Sent
    <3> DEFINE n == told[k]
    <3>2. BeforeQueued(n)'
      BY <1>7, <3>1 DEF BeforeQueued
    <3> QED BY <1>3, <3>1, <3>2
  <2> QED BY <2>1 DEF Sent, BeforeQueued
<1> QED BY <1>4, <1>6, <1>8, <1>9, <1>10

\* Reading an event keeps what is said of the events behind it.
LEMMA ReadKeeps ==
  ASSUME SensorInv, buffer # <<>>, buffer' = Tail(buffer), UNCHANGED <<moved, told>>
  PROVE  /\ buffer' \in Seq(Events) /\ Len(buffer') < BufSize /\ Queued' /\ Sent'
         /\ \A n \in Nat : BeforeQueued(n) => BeforeQueued(n)'
         /\ OfDoor(Head(buffer)) =>
              \E n \in 1..Len(moved) :
                /\ n = Head(buffer).of /\ moved[n] = Head(buffer).type
                /\ BeforeQueued(n)' /\ AfterTold(n)
<1> USE DEF SensorInv
<1>1. /\ buffer' \in Seq(Events) /\ Len(buffer') = Len(buffer) - 1
      /\ Head(buffer) = buffer[1] /\ 1 \in 1..Len(buffer) /\ buffer[1] \in Events
      /\ \A i \in 1..Len(buffer') : i + 1 \in 1..Len(buffer) /\ buffer'[i] = buffer[i + 1]
  BY Rest1 DEF SeqsOK
<1>2. Len(buffer) \in Nat /\ Len(buffer) < BufSize /\ BufSize \in Nat
  BY SensorConstantsOK DEF SeqsOK, TypeOK
<1>3. \A n \in Nat : BeforeQueued(n) => BeforeQueued(n)'
  BY <1>1 DEF BeforeQueued
<1>4. Queued'
  <2>1. ASSUME NEW i \in 1..Len(buffer'), OfDoor(buffer'[i])
        PROVE  buffer'[i].of \in 1..Len(moved') /\ moved'[buffer'[i].of] = buffer'[i].type
    BY <1>1, <2>1 DEF Queued
  <2>2. ASSUME NEW i \in 1..Len(buffer'), NEW j \in 1..Len(buffer'), i < j,
               OfDoor(buffer'[i]), OfDoor(buffer'[j])
        PROVE  buffer'[i].of < buffer'[j].of
    BY <1>1, <2>2 DEF Queued
  <2> QED BY <2>1, <2>2 DEF Queued
<1>5. Sent'
  <2>1. ASSUME NEW k \in 1..Len(told)
        PROVE  told[k] \in 1..Len(moved) /\ moved[told[k]] = "release"
               /\ BeforeQueued(told[k])'
    <3>1. told[k] \in 1..Len(moved) /\ moved[told[k]] = "release" /\ BeforeQueued(told[k])
      BY DEF Sent
    <3>2. told[k] \in Nat
      BY DEF SeqsOK
    <3> QED BY <1>3, <3>1, <3>2
  <2> QED BY <2>1 DEF Sent, BeforeQueued
<1>6. ASSUME OfDoor(buffer[1])
      PROVE  \E n \in 1..Len(moved) :
               /\ n = buffer[1].of /\ moved[n] = buffer[1].type
               /\ BeforeQueued(n)' /\ AfterTold(n)
  <2>1. PICK n \in 1..Len(moved) : n = buffer[1].of /\ moved[n] = buffer[1].type
    BY <1>1, <1>6 DEF Queued
  <2>2. BeforeQueued(n)'
    BY <1>1, <1>6, <2>1 DEF Queued, BeforeQueued
  <2>3. AfterTold(n)
    BY <1>1, <1>6, <2>1 DEF AfterTold, Sent, BeforeQueued
  <2> QED BY <2>1, <2>2, <2>3
<1> QED BY <1>1, <1>2, <1>3, <1>4, <1>5, <1>6

LEMMA SensorNext == SensorInv /\ [Next]_vars => SensorInv'
<1> SUFFICES ASSUME SensorInv, [Next]_vars PROVE SensorInv'
  OBVIOUS
<1> USE DEF SensorInv
<1>0. /\ Len(moved) \in Nat /\ Len(buffer) \in Nat /\ Len(told) \in Nat
      /\ \A i \in 1..Len(told) : told[i] \in Nat
  BY DEF SeqsOK
<1>1. CASE DoorMoves
  <2>1. PICK type \in {"press", "release"} : moved' = Append(moved, type)
    BY <1>1 DEF DoorMoves
  <2>2. /\ moved' \in Seq({"press", "release"}) /\ Len(moved') = Len(moved) + 1
        /\ \A n \in 1..Len(moved) : moved'[n] = moved[n]
        /\ moved'[Len(moved')] = type /\ Len(moved') \in 1..Len(moved')
    BY <1>0, <2>1 DEF SeqsOK
  <2>3. UNCHANGED <<pc, key_status, at, told>> /\ shut' \in BOOLEAN
    BY <1>1 DEF DoorMoves
  <2>4. CASE pc \in {"open", "gone"}
    <3>1. UNCHANGED <<buffer, overrun>>
      BY <1>1, <2>4 DEF DoorMoves
    <3>2. SeqsOK' /\ TypeOK'
      BY <1>0, <2>2, <2>3, <3>1 DEF SeqsOK, TypeOK
    <3>3. Queued'
      BY <1>0, <2>2, <3>1 DEF Queued
    <3>4. Reading'
      BY <2>3, <2>4 DEF Reading
    <3>5. Sent'
      BY <1>0, <2>2, <2>3, <3>1 DEF Sent, BeforeQueued
    <3> QED BY <3>2, <3>3, <3>4, <3>5
  <2>5. CASE pc \notin {"open", "gone"}
    <3> DEFINE e == Event(type, Len(moved'))
    <3>1. Packet(e)
      BY <1>1, <2>2, <2>5 DEF DoorMoves
    <3>2. e \in Events /\ e.of = Len(moved') /\ e.type = type
      BY <1>0, <2>2 DEF Event, Events
    <3> HIDE DEF e
    <3> QED BY <1>0, <2>2, <2>3, <3>1, <3>2, PacketKeeps
  <2> QED BY <2>4, <2>5
<1>2. CASE OtherKeyMoves
  <2> DEFINE e == Event("other", 0)
  <2>1. Packet(e) /\ UNCHANGED <<pc, key_status, at, shut, moved, told>>
    BY <1>2 DEF OtherKeyMoves
  <2>2. e \in Events /\ ~OfDoor(e)
    BY DEF Event, Events, OfDoor
  <2>3. moved' \in Seq({"press", "release"}) /\ shut' \in BOOLEAN
    BY <2>1 DEF SeqsOK, TypeOK
  <2> HIDE DEF e
  <2> QED BY <1>0, <2>1, <2>2, <2>3, PacketKeeps
<1>3. CASE OpenDevice
  <2>1. pc' \in {"poll", "gone"} /\ UNCHANGED <<key_status, at, buffer, shut, moved, told, overrun>>
    BY <1>3 DEF OpenDevice
  <2>2. SeqsOK' /\ TypeOK' /\ Reading'
    BY <2>1 DEF SeqsOK, TypeOK, Reading
  <2>3. Queued' /\ Sent'
    BY <2>1 DEF Queued, Sent, BeforeQueued
  <2> QED BY <2>2, <2>3
<1>4. CASE ReadKey
  <2>1. /\ buffer # <<>> /\ buffer' = Tail(buffer) /\ pc' = "sync"
        /\ UNCHANGED <<shut, moved, told, overrun>>
    BY <1>4 DEF ReadKey
  <2>2. /\ buffer' \in Seq(Events) /\ Len(buffer') < BufSize /\ Queued' /\ Sent'
        /\ OfDoor(Head(buffer)) =>
             \E n \in 1..Len(moved) :
               /\ n = Head(buffer).of /\ moved[n] = Head(buffer).type
               /\ BeforeQueued(n)' /\ AfterTold(n)
    BY <2>1, ReadKeeps
  <2>3. CASE OfDoor(Head(buffer))
    <3>1. PICK n \in 1..Len(moved) :
            /\ n = Head(buffer).of /\ moved[n] = Head(buffer).type
            /\ BeforeQueued(n)' /\ AfterTold(n)
      BY <2>2, <2>3
    <3>2. key_status' = Head(buffer).type /\ at' = n
      BY <1>4, <2>3, <3>1 DEF ReadKey, OfDoor
    <3>3. BeforeQueued(at)' /\ AfterTold(at)'
      BY <2>1, <3>1, <3>2 DEF BeforeQueued, AfterTold
    <3>4. SeqsOK' /\ TypeOK'
      BY <1>0, <2>1, <2>2, <2>3, <3>2 DEF SeqsOK, TypeOK, OfDoor
    <3>5. Reading'
      BY <2>1, <3>1, <3>2, <3>3 DEF Reading
    <3> QED BY <2>2, <3>4, <3>5
  <2>4. CASE ~OfDoor(Head(buffer))
    <3>1. key_status' \in {"other", "none"} /\ at' = 0
      BY <1>4, <2>4 DEF ReadKey, OfDoor
    <3>2. SeqsOK' /\ TypeOK'
      BY <1>0, <2>1, <2>2, <3>1 DEF SeqsOK, TypeOK
    <3>3. Reading'
      BY <3>1 DEF Reading
    <3> QED BY <2>2, <3>2, <3>3
  <2> QED BY <2>3, <2>4
<1>5. CASE ReadSync
  <2>1. /\ pc = "sync" /\ UNCHANGED <<key_status, at, shut, moved, told, overrun>>
        /\ pc' \in {"gone", "send", "poll"} /\ (pc' = "send" => key_status = "release")
    BY <1>5 DEF ReadSync
  <2>2. CASE buffer = <<>>
    <3>1. buffer' = buffer /\ pc' = "gone"
      BY <1>5, <2>2 DEF ReadSync
    <3>2. SeqsOK' /\ TypeOK' /\ Reading'
      BY <2>1, <3>1 DEF SeqsOK, TypeOK, Reading
    <3>3. Queued' /\ Sent'
      BY <2>1, <3>1 DEF Queued, Sent, BeforeQueued
    <3> QED BY <3>2, <3>3
  <2>3. CASE buffer # <<>>
    <3>1. buffer' = Tail(buffer)
      BY <1>5, <2>3 DEF ReadSync
    <3>2. /\ buffer' \in Seq(Events) /\ Len(buffer') < BufSize /\ Queued' /\ Sent'
          /\ \A n \in Nat : BeforeQueued(n) => BeforeQueued(n)'
      BY <2>1, <2>3, <3>1, ReadKeeps
    <3>3. SeqsOK' /\ TypeOK'
      BY <2>1, <3>2 DEF SeqsOK, TypeOK
    <3>4. Reading'
      <4> SUFFICES ASSUME pc' = "send" PROVE Reading'
        BY <2>1 DEF Reading
      <4>1. at \in 1..Len(moved) /\ moved[at] = "release" /\ BeforeQueued(at) /\ AfterTold(at)
        BY <2>1 DEF Reading
      <4>2. BeforeQueued(at)'
        <5>1. at \in Nat /\ at' = at
          BY <1>0, <2>1, <4>1
        <5>2. \E n \in Nat : n = at /\ BeforeQueued(n)'
          BY <3>2, <4>1, <5>1
        <5> QED BY <5>1, <5>2 DEF BeforeQueued
      <4> QED BY <2>1, <4>1, <4>2 DEF Reading, AfterTold
    <3> QED BY <3>2, <3>3, <3>4
  <2> QED BY <2>2, <2>3
<1>6. CASE GetKeyFails
  <2>1. pc' = "gone" /\ UNCHANGED <<key_status, at, buffer, shut, moved, told, overrun>>
    BY <1>6 DEF GetKeyFails
  <2>2. SeqsOK' /\ TypeOK' /\ Reading'
    BY <2>1 DEF SeqsOK, TypeOK, Reading
  <2>3. Queued' /\ Sent'
    BY <2>1 DEF Queued, Sent, BeforeQueued
  <2> QED BY <2>2, <2>3
<1>7. CASE SendClose
  <2>1. /\ pc = "send" /\ pc' = "poll" /\ told' = Append(told, at)
        /\ UNCHANGED <<key_status, at, buffer, shut, moved, overrun>>
    BY <1>7 DEF SendClose
  <2>2. at \in 1..Len(moved) /\ moved[at] = "release" /\ BeforeQueued(at) /\ AfterTold(at)
    BY <2>1 DEF Reading, TypeOK
  <2>3. /\ told' \in Seq(Nat) /\ Len(told') = Len(told) + 1 /\ told'[Len(told) + 1] = at
        /\ \A k \in 1..Len(told) : told'[k] = told[k]
        /\ \A k \in 1..(Len(told) + 1) : k \in 1..Len(told) \/ k = Len(told) + 1
    BY <1>0, <2>1, <2>2 DEF SeqsOK
  <2>4. SeqsOK' /\ TypeOK' /\ Reading'
    BY <2>1, <2>3 DEF SeqsOK, TypeOK, Reading
  <2>5. Queued'
    BY <2>1 DEF Queued
  <2>6. Sent'
    <3>1. ASSUME NEW k \in 1..Len(told')
          PROVE  told'[k] \in 1..Len(moved') /\ moved'[told'[k]] = "release"
                 /\ BeforeQueued(told[k])'
      <4>1. CASE k \in 1..Len(told)
        BY <2>1, <2>3, <4>1 DEF Sent, BeforeQueued
      <4>2. CASE k = Len(told) + 1
        BY <2>1, <2>2, <2>3, <4>2 DEF BeforeQueued
      <4> QED BY <2>3, <4>1, <4>2
    <3>2. ASSUME NEW j \in 1..Len(told'), NEW k \in 1..Len(told'), j < k
          PROVE  told'[j] < told'[k]
      <4>1. j \in 1..Len(told)
        BY <1>0, <2>3, <3>2
      <4>2. CASE k \in 1..Len(told)
        BY <2>3, <3>2, <4>1, <4>2 DEF Sent
      <4>3. CASE k = Len(told) + 1
        BY <2>2, <2>3, <4>1, <4>3 DEF AfterTold
      <4> QED BY <2>3, <4>2, <4>3
    <3> QED BY <3>1, <3>2 DEF Sent
  <2> QED BY <2>4, <2>5, <2>6
<1>8. CASE UNCHANGED vars
  <2>1. SeqsOK' /\ TypeOK' /\ Reading'
    BY <1>8 DEF vars, SeqsOK, TypeOK, Reading, BeforeQueued, AfterTold
  <2>2. Queued' /\ Sent'
    BY <1>8 DEF vars, Queued, Sent, BeforeQueued
  <2> QED BY <2>1, <2>2
<1> QED
  BY <1>1, <1>2, <1>3, <1>4, <1>5, <1>6, <1>7, <1>8
     DEF Next, Thread, World, Rest

\* For any buffer and however the kernel, the door and the thread interleave,
\* every variable keeps its type and only a release of the switch is sent
\* (button.cpp:185-228, image_lock_process.cpp:70-92).
THEOREM SensorTypes == Spec => []TypeOK
<1>1. SensorInv => TypeOK
  BY DEF SensorInv
<1> QED BY <1>1, SensorInit, SensorNext, PTL DEF Spec

\* For any buffer, what is sent to the message queue are closings of the door,
\* each once and in their order, also when the kernel throws events away while
\* get_key is between its two reads (button.cpp:185-228).
THEOREM SentInOrder == Spec => []ClosingsInOrder
<1>1. SensorInv => ClosingsInOrder
  <2> SUFFICES ASSUME SensorInv PROVE ClosingsInOrder
    OBVIOUS
  <2>1. Len(told) \in Nat
    BY DEF SensorInv, SeqsOK
  <2>2. \A k \in 2..Len(told) : k - 1 \in 1..Len(told) /\ k \in 1..Len(told) /\ k - 1 < k
    BY <2>1
  <2> QED BY <2>2 DEF SensorInv, Sent, ClosingsInOrder
<1> QED BY <1>1, SensorInit, SensorNext, PTL DEF Spec
-----------------------------------------------------------------------------
(* The thread is the sensor of BoxApp.                                     *)

Releases(s)  == {k \in 1..Len(s) : s[k].type = "release"}
OfRelease(e) == IF e.type = "release" THEN 1 ELSE 0

LEMMA ReleasesFinite ==
  ASSUME NEW s \in Seq(Events)
  PROVE  IsFiniteSet(Releases(s)) /\ Cardinality(Releases(s)) \in Nat
<1>1. IsFiniteSet(1..Len(s))
  BY FS_Interval
<1>2. Releases(s) \in SUBSET (1..Len(s))
  BY DEF Releases
<1>3. IsFiniteSet(Releases(s))
  BY <1>1, <1>2, FS_Subset
<1> QED BY <1>3, FS_CardinalityType

LEMMA ReleasesAppend ==
  ASSUME NEW s \in Seq(Events), NEW e \in Events
  PROVE  Cardinality(Releases(Append(s, e))) = Cardinality(Releases(s)) + OfRelease(e)
<1>1. /\ Len(Append(s, e)) = Len(s) + 1 /\ Len(s) \in Nat
      /\ \A k \in 1..Len(s) : Append(s, e)[k] = s[k]
      /\ Append(s, e)[Len(s) + 1] = e
      /\ \A k : k \in 1..(Len(s) + 1) <=> k \in 1..Len(s) \/ k = Len(s) + 1
      /\ Len(s) + 1 \notin 1..Len(s)
  OBVIOUS
<1>2. IsFiniteSet(Releases(s)) /\ Cardinality(Releases(s)) \in Nat
  BY ReleasesFinite
<1>3. CASE e.type = "release"
  <2>1. Releases(Append(s, e)) = Releases(s) \cup {Len(s) + 1}
    BY <1>1, <1>3 DEF Releases
  <2>2. Len(s) + 1 \notin Releases(s)
    BY <1>1 DEF Releases
  <2>3. Cardinality(Releases(s) \cup {Len(s) + 1}) = Cardinality(Releases(s)) + 1
    BY <1>2, <2>2, FS_AddElement
  <2> QED BY <1>3, <2>1, <2>3 DEF OfRelease
<1>4. CASE e.type # "release"
  <2>1. Releases(Append(s, e)) = Releases(s)
    BY <1>1, <1>4 DEF Releases
  <2> QED BY <1>2, <1>4, <2>1 DEF OfRelease
<1> QED BY <1>3, <1>4

LEMMA ReleasesTail ==
  ASSUME NEW s \in Seq(Events), s # <<>>
  PROVE  Cardinality(Releases(s)) = Cardinality(Releases(Tail(s))) + OfRelease(Head(s))
<1> DEFINE t == Tail(s)
           f == [k \in Releases(t) |-> k + 1]
           T == {k \in Releases(s) : k # 1}
<1>1. /\ t \in Seq(Events) /\ Len(t) = Len(s) - 1 /\ Len(s) \in Nat \ {0}
      /\ \A k \in 1..Len(t) : t[k] = s[k + 1]
      /\ Head(s) = s[1]
  BY HeadTailProperties
<1> HIDE DEF t
<1>2. IsFiniteSet(Releases(t)) /\ Cardinality(Releases(t)) \in Nat
  BY <1>1, ReleasesFinite
<1>3. \A k \in Releases(t) : k \in Nat /\ k + 1 \in T
  BY <1>1 DEF Releases
<1>4. \A k \in T : k - 1 \in Releases(t) /\ (k - 1) + 1 = k
  <2> SUFFICES ASSUME NEW k \in T PROVE k - 1 \in Releases(t) /\ (k - 1) + 1 = k
    OBVIOUS
  <2>1. k \in 1..Len(s) /\ k # 1 /\ s[k].type = "release"
    BY DEF Releases
  <2>2. k - 1 \in 1..Len(t) /\ (k - 1) + 1 = k
    BY <1>1, <2>1
  <2>3. t[k - 1] = s[k]
    BY <1>1, <2>2
  <2> QED BY <2>1, <2>2, <2>3 DEF Releases
<1>5. f \in Bijection(Releases(t), T)
  <2>1. f \in [Releases(t) -> T]
    BY <1>3
  <2>2. \A x, y \in Releases(t) : f[x] = f[y] => x = y
    BY <1>3
  <2>3. \A k \in T : \E x \in Releases(t) : f[x] = k
    BY <1>4
  <2> QED BY <2>1, <2>2, <2>3 DEF Bijection, Injection, Surjection, IsInjective
<1>6. IsFiniteSet(T) /\ Cardinality(T) = Cardinality(Releases(t))
  <2>1. ExistsBijection(Releases(t), T)
    BY <1>5 DEF ExistsBijection
  <2> QED BY <1>2, <2>1, FS_Bijection
<1> HIDE DEF f, T
<1>7. CASE s[1].type = "release"
  <2>1. Releases(s) = T \cup {1} /\ 1 \notin T
    BY <1>1, <1>7 DEF Releases, T
  <2>2. Cardinality(T \cup {1}) = Cardinality(T) + 1
    BY <1>6, <2>1, FS_AddElement
  <2> QED BY <1>1, <1>6, <1>7, <2>1, <2>2 DEF OfRelease, t
<1>8. CASE s[1].type # "release"
  <2>1. Releases(s) = T
    BY <1>1, <1>8 DEF Releases, T
  <2> QED BY <1>1, <1>2, <1>6, <1>8, <2>1 DEF OfRelease, t
<1> QED BY <1>7, <1>8

\* What a packet adds to the closings that wait, when nothing is thrown away.
LEMMA PacketWaiting ==
  ASSUME SensorInv, NEW e \in Events, Packet(e), ~overrun'
  PROVE  ~overrun /\ overrun' = overrun /\ Waiting \in Nat /\ Waiting' = Waiting + OfRelease(e)
<1>1. buffer \in Seq(Events) /\ Len(buffer) < BufSize
  BY DEF SensorInv, SeqsOK, TypeOK
<1>2. ~overrun /\ buffer' = Append(Append(buffer, e), Syn)
  BY <1>1, PacketEvents
<1>3. Append(buffer, e) \in Seq(Events) /\ Syn \in Events /\ OfRelease(Syn) = 0
  BY <1>1 DEF Syn, Event, Events, OfRelease
<1>4. /\ Cardinality(Releases(Append(buffer, e))) = Cardinality(Releases(buffer)) + OfRelease(e)
      /\ Cardinality(Releases(Append(Append(buffer, e), Syn)))
           = Cardinality(Releases(Append(buffer, e))) + OfRelease(Syn)
  BY <1>1, <1>3, ReleasesAppend
<1>5. Waiting = Cardinality(Releases(buffer)) /\ Waiting' = Cardinality(Releases(buffer'))
  BY DEF Waiting, Releases
<1>6. Cardinality(Releases(buffer)) \in Nat /\ OfRelease(e) \in Nat
  BY <1>1, ReleasesFinite DEF OfRelease
<1>7. overrun' = overrun
  <2>1. overrun' \in BOOLEAN /\ overrun \in BOOLEAN
    BY DEF SensorInv, TypeOK, Packet
  <2> QED BY <1>2, <2>1
<1> QED BY <1>2, <1>3, <1>4, <1>5, <1>6, <1>7

\* What a read takes from them.
LEMMA ReadWaiting ==
  ASSUME SensorInv, buffer # <<>>, buffer' = Tail(buffer)
  PROVE  Waiting' \in Nat /\ Waiting = Waiting' + OfRelease(Head(buffer))
<1>1. buffer \in Seq(Events) /\ buffer' \in Seq(Events)
  BY Rest1 DEF SensorInv, SeqsOK
<1>2. Waiting = Cardinality(Releases(buffer)) /\ Waiting' = Cardinality(Releases(buffer'))
  BY DEF Waiting, Releases
<1>3. Cardinality(Releases(buffer')) \in Nat
  BY <1>1, ReleasesFinite
<1> QED BY <1>1, <1>2, <1>3, ReleasesTail

LEMMA CallInit == Init => Call!Init
<1> SUFFICES ASSUME Init PROVE Call!Init
  OBVIOUS
<1>1. buffer = <<>> /\ pc = "open" /\ ~overrun
  BY DEF Init
<1>2. Waiting = 0
  <2>1. Len(buffer) = 0
    BY <1>1
  <2>2. {k \in 1..Len(buffer) : buffer[k].type = "release"} = {}
    BY <2>1
  <2> QED BY <2>2, FS_EmptySet DEF Waiting
<1> QED BY <1>1, <1>2 DEF Call!Init

LEMMA CallStep == SensorInv /\ [Next]_vars => [Call!Next]_(Call!vars)
<1> SUFFICES ASSUME SensorInv, [Next]_vars PROVE [Call!Next]_(Call!vars)
  OBVIOUS
<1> USE DEF Call!Next, Call!Hears, Call!vars
<1>0. pc \in {"open", "poll", "sync", "send", "gone"} /\ overrun \in BOOLEAN
      /\ (pc = "send" => key_status = "release")
  BY DEF SensorInv, TypeOK
<1>1. CASE DoorMoves
  <2>1. UNCHANGED <<pc, key_status>>
    BY <1>1 DEF DoorMoves
  <2>2. CASE pc \in {"open", "gone"}
    <3>1. UNCHANGED <<buffer, overrun>>
      BY <1>1, <2>2 DEF DoorMoves
    <3>2. Waiting' = Waiting
      BY <3>1 DEF Waiting
    <3> QED BY <2>1, <3>1, <3>2
  <2>3. CASE pc \notin {"open", "gone"} /\ ~overrun'
    <3>1. PICK type \in {"press", "release"} : moved' = Append(moved, type)
      BY <1>1 DEF DoorMoves
    <3> DEFINE e == Event(type, Len(moved'))
    <3>2. Packet(e)
      <4>1. moved'[Len(moved')] = type
        BY <3>1 DEF SensorInv, SeqsOK
      <4> QED BY <1>1, <2>3, <4>1 DEF DoorMoves
    <3>3. e \in Events
      <4>1. Len(moved') \in Nat
        BY <3>1 DEF SensorInv, SeqsOK
      <4> QED BY <4>1 DEF Event, Events
    <3>4. ~overrun /\ overrun' = overrun /\ Waiting \in Nat /\ Waiting' = Waiting + OfRelease(e)
      BY <2>3, <3>2, <3>3, PacketWaiting
    <3>5. OfRelease(e) \in {0, 1}
      BY DEF OfRelease
    <3> HIDE DEF e
    <3>6. CASE OfRelease(e) = 0
      BY <2>1, <2>3, <3>4, <3>6
    <3>7. CASE OfRelease(e) = 1
      BY <2>1, <2>3, <3>4, <3>7 DEF Call!CustomerCloses
    <3> QED BY <3>5, <3>6, <3>7
  <2>4. CASE overrun'
    BY <2>4
  <2> QED BY <2>2, <2>3, <2>4
<1>2. CASE OtherKeyMoves
  <2> DEFINE e == Event("other", 0)
  <2>1. Packet(e) /\ UNCHANGED <<pc, key_status>>
    BY <1>2 DEF OtherKeyMoves
  <2>2. e \in Events /\ OfRelease(e) = 0
    BY DEF Event, Events, OfRelease
  <2> HIDE DEF e
  <2>3. CASE ~overrun'
    <3>1. overrun' = overrun /\ Waiting \in Nat /\ Waiting' = Waiting + OfRelease(e)
      BY <2>1, <2>2, <2>3, PacketWaiting
    <3>2. Waiting' = Waiting
      BY <2>2, <3>1
    <3> QED BY <2>1, <3>1, <3>2
  <2>4. CASE overrun'
    BY <2>4
  <2> QED BY <2>3, <2>4
<1>3. CASE OpenDevice
  <2>1. pc = "open" /\ pc' \in {"poll", "gone"} /\ UNCHANGED <<key_status, buffer, overrun>>
    BY <1>3 DEF OpenDevice
  <2>2. Waiting' = Waiting
    BY <2>1 DEF Waiting
  <2>3. CASE overrun
    BY <2>1, <2>3
  <2>4. CASE ~overrun
    BY <2>1, <2>2, <2>4 DEF Call!SensorFail
  <2> QED BY <2>3, <2>4
<1>4. CASE ReadKey
  <2>1. /\ pc = "poll" /\ buffer # <<>> /\ buffer' = Tail(buffer) /\ pc' = "sync"
        /\ overrun' = overrun
    BY <1>4 DEF ReadKey
  <2>2. Waiting' \in Nat /\ Waiting = Waiting' + OfRelease(Head(buffer))
    BY <2>1, ReadWaiting
  <2>3. key_status' = "release" <=> Head(buffer).type = "release"
    BY <1>4 DEF ReadKey
  <2> QED BY <2>1, <2>2, <2>3 DEF OfRelease
<1>5. CASE ReadSync
  <2>1. pc = "sync" /\ UNCHANGED <<key_status, overrun>>
    BY <1>5 DEF ReadSync
  <2>2. CASE overrun
    BY <2>1, <2>2
  <2>3. CASE ~overrun /\ (buffer = <<>> \/ Head(buffer) # Syn)
    <3>1. pc' = "gone"
      BY <1>5, <2>3 DEF ReadSync
    <3> QED BY <2>1, <2>3, <3>1 DEF Call!SensorFail
  <2>4. CASE ~overrun /\ buffer # <<>> /\ Head(buffer) = Syn
    <3>1. /\ buffer' = Tail(buffer)
          /\ pc' = IF key_status = "release" THEN "send" ELSE "poll"
      BY <1>5, <2>4 DEF ReadSync
    <3>2. Waiting' \in Nat /\ Waiting = Waiting' + OfRelease(Head(buffer))
      BY <2>4, <3>1, ReadWaiting
    <3>3. OfRelease(Head(buffer)) = 0
      BY <2>4 DEF Syn, Event, OfRelease
    <3>4. CASE key_status = "release"
      BY <2>1, <2>4, <3>1, <3>2, <3>3, <3>4 DEF Call!SensorPoll
    <3>5. CASE key_status # "release"
      BY <2>1, <2>4, <3>1, <3>2, <3>3, <3>5
    <3> QED BY <3>4, <3>5
  <2> QED BY <1>0, <2>2, <2>3, <2>4
<1>6. CASE GetKeyFails
  <2>1. pc \in {"poll", "sync"} /\ pc' = "gone" /\ overrun' = overrun
    BY <1>6 DEF GetKeyFails
  <2>2. CASE overrun
    BY <2>1, <2>2
  <2>3. CASE ~overrun
    BY <2>1, <2>3 DEF Call!SensorFail
  <2> QED BY <2>2, <2>3
<1>7. CASE SendClose
  <2>1. pc = "send" /\ pc' = "poll" /\ UNCHANGED <<buffer, overrun>>
    BY <1>7 DEF SendClose
  <2>2. Waiting' = Waiting
    BY <2>1 DEF Waiting
  <2>3. CASE overrun
    BY <2>1, <2>3
  <2>4. CASE ~overrun
    BY <2>1, <2>2, <2>4 DEF Call!SensorSend
  <2> QED BY <2>3, <2>4
<1>8. CASE UNCHANGED vars
  <2>1. UNCHANGED <<pc, key_status, buffer, overrun>>
    BY <1>8 DEF vars
  <2>2. Waiting' = Waiting
    BY <2>1 DEF Waiting
  <2> QED BY <2>1, <2>2
<1> QED
  BY <1>1, <1>2, <1>3, <1>4, <1>5, <1>6, <1>7, <1>8
     DEF Next, Thread, World, Rest

\* For any buffer, as long as the kernel throws nothing away, the sensor's
\* thread is the sensor of BoxApp (SensorCall): each closing is waited for, sent
\* once, and the thread may end between two (image_lock_process.cpp:70-92).
THEOREM SensorImplements == Spec => SensorCallSpec
BY CallInit, CallStep, SensorInit, SensorNext, PTL DEF Spec, SensorCallSpec, Call!Spec
=============================================================================
