---------------------------- MODULE BoxAppProofs ----------------------------
(***************************************************************************)
(* Proofs about BoxApp, for every value of its constants.                  *)
(***************************************************************************)
EXTENDS BoxAppProps, SequenceTheorems, TLAPS

\* Taking a message out of a queue of messages leaves a queue of messages.
LEMMA WithoutType ==
  ASSUME NEW S, NEW q \in Seq(S), NEW i \in 1..Len(q)
  PROVE  Without(q, i) \in Seq(S)
<1>1. Len(q) - 1 \in Nat
  OBVIOUS
<1>2. \A k \in 1..(Len(q) - 1) : (IF k < i THEN q[k] ELSE q[k + 1]) \in S
  OBVIOUS
<1> QED BY <1>1, <1>2 DEF Without

\* msgrcv takes a message that is in the queue.
LEMMA ChosenInQueue ==
  ASSUME NEW q, NEW typ, NEW i \in Chosen(q, typ)
  PROVE  i \in 1..Len(q)
BY DEF Chosen, Eligible

\* What a receive finds in a text made of messages is a reply.
LEMMA DigestType ==
  ASSUME NEW s \in Seq(Token)
  PROVE  Digest(s) \in Reply
<1>1. Nothing \in Token
  BY DEF Nothing, Token, Kinds
<1>2. FirstObject(s) # {} => s[CHOOSE i \in FirstObject(s) : TRUE] \in Token
  BY DEF FirstObject
<1> QED BY <1>1, <1>2 DEF Digest, Reply

LEMMA FromCacheType ==
  ASSUME NEW s \in Seq(Token)
  PROVE  FromCache(s) \in Reply
BY DigestType DEF FromCache, Reply, Token, Nothing, Kinds

\* Whatever a receive may return is a reply.
LEMMA ResultsType ==
  ASSUME NEW w \in Seq(Token), NEW c \in Seq(Token)
  PROVE  Results(c, w) \subseteq Reply
<1>1. Nothing \in Token
  BY DEF Nothing, Token, Kinds
<1>2. FromCache(c).obj \in Token
  BY FromCacheType DEF Reply
<1>3. \A i \in 1..Len(w) : w[i] \in Token
  OBVIOUS
<1> QED BY <1>1, <1>2, <1>3 DEF Results, Reply

\* What a receive leaves of the input is messages.
LEMMA SuffixType ==
  ASSUME NEW w \in Seq(Token), NEW n \in 0..Len(w)
  PROVE  SubSeq(w, n + 1, Len(w)) \in Seq(Token)
<1>1. n + 1 \in Int /\ Len(w) \in Int /\ \A i \in (n + 1)..Len(w) : w[i] \in Token
  OBVIOUS
<1> QED BY <1>1, SubSeqProperties

LEMMA SkipsType ==
  ASSUME NEW w \in Seq(Token)
  PROVE  Skips(w) \subseteq Seq(Token)
BY DEF Skips

\* A receive leaves messages on the wire and clears the cache.
LEMMA ReceiveType ==
  ASSUME wire \in Seq(Token), cache \in Seq(Token), NEW ok, NEW r, Receive(ok, r)
  PROVE  wire' \in Seq(Token) /\ cache' \in Seq(Token)
<1>1. cache' = <<>> /\ <<>> \in Seq(Token)
  BY DEF Receive
<1>2. PICK w \in Skips(wire) :
        \/ wire' = w
        \/ \E n \in 0..Len(w) : wire' = SubSeq(w, n + 1, Len(w))
  BY DEF Receive
<1>3. w \in Seq(Token)
  BY SkipsType
<1> QED BY <1>1, <1>2, <1>3, SuffixType

\* A message that a dialogue passed on leaves messages in the cache.
LEMMA PassedType ==
  ASSUME NEW c \in Seq(Token), NEW tok \in Token
  PROVE  Passed(c, tok) \subseteq Seq(Token)
<1>1. Garbled \in Token
  BY DEF Garbled, Token, Kinds
<1> QED BY <1>1 DEF Passed

\* So does a race of two dialogues.
LEMMA RacedType ==
  ASSUME NEW c \in Seq(Token), NEW tok \in Token
  PROVE  Raced(c, tok) \subseteq Seq(Token)
<1>1. Garbled \in Token
  BY DEF Garbled, Token, Kinds
<1>2. \A i \in 1..Len(c) : InsertAt(c, i, tok) \in Seq(Token)
  <2> TAKE i \in 1..Len(c)
  <2>1. SubSeq(c, 1, i - 1) \in Seq(Token) /\ SubSeq(c, i, Len(c)) \in Seq(Token)
    OBVIOUS
  <2>2. <<tok>> \in Seq(Token)
    OBVIOUS
  <2> QED BY <2>1, <2>2 DEF InsertAt
<1>3. <<tok>> \in Seq(Token) /\ <<Garbled>> \in Seq(Token)
  BY <1>1
<1> QED BY <1>2, <1>3 DEF Raced

\* An assignment to a string leaves messages in the queue.
LEMMA ReassignType ==
  ASSUME queue \in Seq(QMsg), hand \in QMsg, NEW types, Reassign(types)
  PROVE  queue' \in Seq(QMsg) /\ hand' \in QMsg /\ Len(queue') = Len(queue)
<1>1. \A m \in QMsg : Expired(m, types) \in QMsg
  BY DEF Expired, QMsg
<1> QED BY <1>1 DEF Reassign

LEMMA MsgSndType ==
  ASSUME queue \in Seq(QMsg), NEW m \in QMsg, MsgSnd(m)
  PROVE  queue' \in Seq(QMsg)
BY DEF MsgSnd

LEMMA PublishedType ==
  ASSUME reply \in Reply, NEW type \in {HEART_TYPE, OPEN_DOOR_TYPE}
  PROVE  Published(type) \in QMsg
BY DEF Published, QMsg, Reply, Token

\* The copies of a report join the reports the server has to answer.
LEMMA CopiesType ==
  ASSUME todo \in Seq(Nat), report \in Nat, NEW n \in Nat
  PROVE  todo \o [i \in 1..n |-> report] \in Seq(Nat)
<1>1. [i \in 1..n |-> report] \in Seq(Nat)
  OBVIOUS
<1> QED BY <1>1

-----------------------------------------------------------------------------
\* Every variable keeps its type in every step of every thread.
THEOREM TypeCorrect == Spec => []TypeOK
<1> USE ConstantsOK
<1>1. Init => TypeOK
  <2>1. Init => StateOK
    <3> SUFFICES ASSUME Init PROVE StateOK
      OBVIOUS
    <3>1. PICK n \in 0..MaxLeft : queue \in [1..n -> Leftovers] /\ served = n + (IF pin THEN 1 ELSE 0)
      BY DEF Init
    <3>2. ASSUME NEW t \in {HEART_TYPE, OPEN_DOOR_TYPE, CLOSE_DOOR_TYPE}
          PROVE  [mtype |-> t, text |-> IF t = CLOSE_DOOR_TYPE THEN "Close" ELSE "Junk",
                  of |-> 0, live |-> FALSE] \in QMsg
      BY <3>2 DEF QMsg, Kinds
    <3>3. Leftovers \subseteq QMsg
      BY <3>2 DEF Leftovers
    <3>4. queue \in Seq(QMsg) /\ served \in Nat
      BY <3>1, <3>3
    <3> QED BY <3>4 DEF Init, StateOK, NoReply, Reply, NoMsg, QMsg, Nothing, Token, Kinds
  <2>2. Init => FlagsOK
    BY DEF Init, FlagsOK
  <2> QED BY <2>1, <2>2 DEF TypeOK
<1>2. TypeOK /\ [Next]_vars => TypeOK'
  <2> SUFFICES ASSUME TypeOK, [Next]_vars
               PROVE  TypeOK'
    OBVIOUS
  <2> USE DEF TypeOK, mainVars, msgVars, lockVars, sensorVars, netVars, serverVars,
              history
  <2>1. CASE MainLock
    BY <2>1 DEF MainLock, Acquire, StateOK, FlagsOK
  <2>2. CASE MainRecv
    <3> PICK ok \in BOOLEAN, r \in Results(cache, wire) :
          /\ Receive(ok, r)
          /\ IF ok THEN nodata' = 0 /\ reply' = r /\ pcMain' = "dispatch"
             ELSE /\ nodata' = nodata + 1 /\ reply' = NoReply
                  /\ pcMain' = IF nodata > NoDataLimit THEN "status" ELSE "lock"
      BY <2>2 DEF MainRecv
    <3>0. wire' \in Seq(Token) /\ cache' \in Seq(Token) /\ r \in Reply /\ NoReply \in Reply
      <4>1. wire' \in Seq(Token) /\ cache' \in Seq(Token)
        BY ReceiveType DEF StateOK
      <4>2. r \in Reply
        BY ResultsType DEF StateOK
      <4>3. NoReply \in Reply
        BY DEF NoReply, Reply, Nothing, Token, Kinds
      <4> QED BY <4>1, <4>2, <4>3
    <3>1. StateOK'
      BY <2>2, <3>0 DEF MainRecv, Release, StateOK
    <3>2. FlagsOK'
      BY <2>2 DEF MainRecv, FlagsOK
    <3> QED BY <3>1, <3>2
  <2>3. CASE MainDispatch
    <3>1. StateOK'
      BY <2>3, ReassignType DEF MainDispatch, StateOK
    <3>2. FlagsOK'
      BY <2>3 DEF MainDispatch, FlagsOK
    <3> QED BY <3>1, <3>2
  <2>4. CASE MainSendOpen
    BY <2>4, MsgSndType, PublishedType DEF MainSendOpen, StateOK, FlagsOK
  <2>5. CASE MainNap
    BY <2>5 DEF MainNap, StateOK, FlagsOK
  <2>6. CASE MainHeart
    BY <2>6, ReassignType DEF MainHeart, StateOK, FlagsOK
  <2>7. CASE MainSendHeart
    BY <2>7, MsgSndType, PublishedType DEF MainSendHeart, StateOK, FlagsOK
  <2>8. CASE MainStatus
    BY <2>8 DEF MainStatus, StateOK, FlagsOK
  <2>9. CASE MainDelete
    <3>1. StateOK'
      BY <2>9 DEF MainDelete, StateOK
    <3>2. FlagsOK'
      BY <2>9 DEF MainDelete, FlagsOK
    <3> QED BY <3>1, <3>2
  <2>10. CASE MainExit
    <3>1. StateOK'
      BY <2>10 DEF MainExit, StateOK
    <3>2. FlagsOK'
      BY <2>10 DEF MainExit, FlagsOK
    <3> QED BY <3>1, <3>2
  <2>11. CASE HeartRcv
    BY <2>11, WithoutType, ChosenInQueue DEF HeartRcv, StateOK, FlagsOK
  <2>12. CASE HeartLock
    BY <2>12 DEF HeartLock, Acquire, StateOK, FlagsOK
  <2>13. CASE HeartRespond
    BY <2>13 DEF HeartRespond, Release, StateOK, FlagsOK
  <2>14. CASE MsgRcv
    BY <2>14, WithoutType, ChosenInQueue DEF MsgRcv, StateOK, FlagsOK
  <2>15. CASE MsgAnalyse
    <3>1. StateOK'
      BY <2>15 DEF MsgAnalyse, MarkStale, StateOK
    <3>2. FlagsOK'
      BY <2>15 DEF MsgAnalyse, MarkStale, FlagsOK
    <3> QED BY <3>1, <3>2
  <2>16. CASE MsgConfirm
    <3>1. StateOK'
      <4>1. hand.of \in Nat
        BY DEF StateOK, QMsg
      <4>2. used' \in SUBSET Nat /\ pcMsg' \in {"rcv", "lockOpen"}
        BY <2>16, <4>1 DEF MsgConfirm, StateOK
      <4> QED BY <2>16, <4>2 DEF MsgConfirm, StateOK
    <3>2. FlagsOK'
      BY <2>16 DEF MsgConfirm, MarkStale, LockWrite, FlagsOK
    <3> QED BY <3>1, <3>2
  <2>17. CASE MsgCrash
    <3>1. StateOK'
      BY <2>17 DEF MsgCrash, StateOK
    <3>2. FlagsOK'
      BY <2>17 DEF MsgCrash, FlagsOK
    <3> QED BY <3>1, <3>2
  <2>18. CASE MsgLockOpen
    BY <2>18 DEF MsgLockOpen, Acquire, StateOK, FlagsOK
  <2>19. CASE MsgOpenResp
    BY <2>19 DEF MsgOpenResp, Release, StateOK, FlagsOK
  <2>20. CASE MsgRelock
    <3>1. StateOK'
      BY <2>20 DEF MsgRelock, LockWrite, StateOK
    <3>2. FlagsOK'
      BY <2>20 DEF MsgRelock, LockWrite, FlagsOK
    <3> QED BY <3>1, <3>2
  <2>21. CASE MsgLockClose
    BY <2>21 DEF MsgLockClose, Acquire, StateOK, FlagsOK
  <2>22. CASE MsgCloseSend
    BY <2>22, CopiesType DEF MsgCloseSend, StateOK, FlagsOK
  <2>23. CASE MsgCloseRecv
    <3> PICK ok \in BOOLEAN, r \in Results(cache, wire) :
          /\ Receive(ok, r)
          /\ IF ok /\ r.obj.kind = "Ack"
             THEN pcMsg' = "rcv" /\ Release /\ acks' = acks \cup {<<report, r.obj.of>>}
             ELSE pcMsg' = "closeSend" /\ UNCHANGED <<mutex, acks>>
      BY <2>23 DEF MsgCloseRecv
    <3>0. wire' \in Seq(Token) /\ cache' \in Seq(Token) /\ r.obj.of \in Nat
      <4>1. wire' \in Seq(Token) /\ cache' \in Seq(Token)
        BY ReceiveType DEF StateOK
      <4>2. r \in Reply
        BY ResultsType DEF StateOK
      <4> QED BY <4>1, <4>2 DEF Reply, Token
    <3>1. StateOK'
      BY <2>23, <3>0 DEF MsgCloseRecv, Release, StateOK
    <3>2. FlagsOK'
      BY <2>23 DEF MsgCloseRecv, FlagsOK
    <3> QED BY <3>1, <3>2
  <2>24. CASE MsgCloseGiveUp
    BY <2>24 DEF MsgCloseGiveUp, Release, StateOK, FlagsOK
  <2>25. CASE SensorPoll
    BY <2>25, ReassignType DEF SensorPoll, StateOK, FlagsOK
  <2>26. CASE SensorSend
    <3>1. StateOK'
      <4>1. [mtype |-> CLOSE_DOOR_TYPE, text |-> "Close", of |-> 0, live |-> TRUE] \in QMsg
        BY DEF QMsg
      <4> QED BY <2>26, <4>1, MsgSndType DEF SensorSend, StateOK
    <3>2. FlagsOK'
      BY <2>26 DEF SensorSend, FlagsOK
    <3> QED BY <3>1, <3>2
  <2>27. CASE SensorFail
    BY <2>27 DEF SensorFail, StateOK, FlagsOK
  <2>28. CASE ModemReads
    <3>1. StateOK'
      <4>1. Tail(wire) \in Seq(Token) /\ Head(wire) \in Token
        BY <2>28 DEF ModemReads, StateOK
      <4>2. /\ Passed(cache, Head(wire)) \subseteq Seq(Token)
            /\ Raced(cache, Head(wire)) \subseteq Seq(Token)
        BY <4>1, PassedType, RacedType DEF StateOK
      <4>3. cache' \in Seq(Token)
        BY <2>28, <4>2 DEF ModemReads
      <4> QED BY <2>28, <4>1, <4>3 DEF ModemReads, StateOK
    <3>2. FlagsOK'
      BY <2>28 DEF ModemReads, FlagsOK
    <3> QED BY <3>1, <3>2
  <2>29. CASE ServerSends
    BY <2>29 DEF ServerSends, Token, Kinds, StateOK, FlagsOK
  <2>30. CASE ServerAnswers
    BY <2>30 DEF ServerAnswers, Token, Kinds, StateOK, FlagsOK
  <2>31. CASE LinkDrops
    <3>1. StateOK'
      BY <2>31 DEF LinkDrops, StateOK
    <3>2. FlagsOK'
      BY <2>31 DEF LinkDrops, FlagsOK
    <3> QED BY <3>1, <3>2
  <2>32. CASE CustomerOpens
    BY <2>32 DEF CustomerOpens, StateOK, FlagsOK
  <2>33. CASE CustomerCloses
    BY <2>33 DEF CustomerCloses, StateOK, FlagsOK
  <2>34. CASE UNCHANGED vars
    BY <2>34 DEF vars, StateOK, FlagsOK
  <2>35. CASE MsgInit
    <3>3. pcMsg' \in {"rcv", "gone"} /\ keys' = keys /\ queue' = queue
      BY <2>35 DEF MsgInit
    <3>4. /\ UNCHANGED <<mainVars, pcHeart, hand, tries>>
          /\ UNCHANGED <<sensorVars, mutex, netVars, serverVars, history>>
      BY <2>35 DEF MsgInit
    <3>1. StateOK'
      BY <3>3, <3>4 DEF StateOK
    <3>2. FlagsOK'
      BY <2>35 DEF MsgInit, FlagsOK
    <3> QED BY <3>1, <3>2
  <2> QED
    BY <2>1, <2>2, <2>3, <2>4, <2>5, <2>6, <2>7, <2>8, <2>9, <2>10, <2>11, <2>12, <2>13, <2>14, <2>15, <2>16, <2>17, <2>18, <2>19, <2>20, <2>21, <2>22, <2>23, <2>24, <2>25, <2>26, <2>27, <2>28, <2>29, <2>30, <2>31, <2>32, <2>33, <2>34, <2>35
       DEF Next, Main, Heart, Msg, Sensor, World, Ended, Jammed
<1> QED BY <1>1, <1>2, PTL DEF Spec

-----------------------------------------------------------------------------
\* Only the thread between its lock and its unlock call owns the mutex.
THEOREM MutexOwned == Spec => []MutexOwner
<1>1. Init => MutexOwner
  BY DEF Init, MutexOwner
<1>2. MutexOwner /\ [Next]_vars => MutexOwner'
  <2> SUFFICES ASSUME MutexOwner, [Next]_vars
               PROVE  MutexOwner'
    OBVIOUS
  <2> USE DEF MutexOwner, mainVars, msgVars
  <2>1. CASE MainLock
    BY <2>1 DEF MainLock, Acquire
  <2>2. CASE MainRecv
    BY <2>2 DEF MainRecv, Release
  <2>3. CASE MainDispatch
    BY <2>3 DEF MainDispatch
  <2>4. CASE MainSendOpen
    BY <2>4 DEF MainSendOpen
  <2>5. CASE MainNap
    BY <2>5 DEF MainNap
  <2>6. CASE MainHeart
    BY <2>6 DEF MainHeart
  <2>7. CASE MainSendHeart
    BY <2>7 DEF MainSendHeart
  <2>8. CASE MainStatus
    BY <2>8 DEF MainStatus
  <2>9. CASE MainDelete
    BY <2>9 DEF MainDelete
  <2>10. CASE MainExit
    BY <2>10 DEF MainExit
  <2>11. CASE HeartRcv
    BY <2>11 DEF HeartRcv
  <2>12. CASE HeartLock
    BY <2>12 DEF HeartLock, Acquire
  <2>13. CASE HeartRespond
    BY <2>13 DEF HeartRespond, Release
  <2>14. CASE MsgRcv
    BY <2>14 DEF MsgRcv
  <2>15. CASE MsgAnalyse
    BY <2>15 DEF MsgAnalyse
  <2>16. CASE MsgConfirm
    BY <2>16 DEF MsgConfirm
  <2>17. CASE MsgCrash
    BY <2>17 DEF MsgCrash
  <2>18. CASE MsgLockOpen
    BY <2>18 DEF MsgLockOpen, Acquire
  <2>19. CASE MsgOpenResp
    BY <2>19 DEF MsgOpenResp, Release
  <2>20. CASE MsgRelock
    BY <2>20 DEF MsgRelock
  <2>21. CASE MsgLockClose
    BY <2>21 DEF MsgLockClose, Acquire
  <2>22. CASE MsgCloseSend
    BY <2>22 DEF MsgCloseSend
  <2>23. CASE MsgCloseRecv
    BY <2>23 DEF MsgCloseRecv, Release
  <2>24. CASE MsgCloseGiveUp
    BY <2>24 DEF MsgCloseGiveUp, Release
  <2>25. CASE SensorPoll
    BY <2>25 DEF SensorPoll
  <2>26. CASE SensorSend
    BY <2>26 DEF SensorSend
  <2>27. CASE SensorFail
    BY <2>27 DEF SensorFail
  <2>28. CASE ModemReads
    BY <2>28 DEF ModemReads
  <2>29. CASE ServerSends
    BY <2>29 DEF ServerSends
  <2>30. CASE ServerAnswers
    BY <2>30 DEF ServerAnswers
  <2>31. CASE LinkDrops
    BY <2>31 DEF LinkDrops
  <2>32. CASE CustomerOpens
    BY <2>32 DEF CustomerOpens
  <2>33. CASE CustomerCloses
    BY <2>33 DEF CustomerCloses
  <2>34. CASE UNCHANGED vars
    BY <2>34 DEF vars
  <2>35. CASE MsgInit
    BY <2>35 DEF MsgInit
  <2> QED
    BY <2>1, <2>2, <2>3, <2>4, <2>5, <2>6, <2>7, <2>8, <2>9, <2>10, <2>11, <2>12, <2>13, <2>14, <2>15, <2>16, <2>17, <2>18, <2>19, <2>20, <2>21, <2>22, <2>23, <2>24, <2>25, <2>26, <2>27, <2>28, <2>29, <2>30,
       <2>31, <2>32, <2>33, <2>34, <2>35
       DEF Next, Main, Heart, Msg, Sensor, World, Ended, Jammed
<1> QED BY <1>1, <1>2, PTL DEF Spec

\* Two dialogues with the modem overlap only in main's status check.
THEOREM ModemExclusive == Spec => []ModemExclusion
<1>1. MutexOwner => ModemExclusion
  BY DEF MutexOwner, ModemExclusion, ModemUsers
<1> QED BY <1>1, MutexOwned, PTL

-----------------------------------------------------------------------------
\* is_on is what was last written with success; with it, LockFollowsThread
\* is inductive.
LockInv == /\ pcMsg \notin {"init", "gone"} => isOn = pin
           /\ pcMsg \in {"init", "gone"} => ~isOn
           /\ LockFollowsThread

\* dev_unlock and dev_lock keep is_on true to the lock, and when no write
\* fails they do what they are asked to.
LEMMA LockWriteEffect ==
  ASSUME isOn = pin, NEW on \in BOOLEAN, LockWrite(on)
  PROVE  isOn' = pin' /\ (WriteOutcomes = {TRUE} => (pin' = on))
<1>1. CASE isOn = on
  BY <1>1 DEF LockWrite
<1>2. CASE isOn # on
  <2> PICK written \in WriteOutcomes : /\ isOn' = (IF written THEN on ELSE isOn)
                                       /\ pin' = (IF written THEN on ELSE pin)
    BY <1>2 DEF LockWrite
  <2>1. isOn' = pin'
    OBVIOUS
  <2>2. WriteOutcomes = {TRUE} => (pin' = on)
    OBVIOUS
  <2> QED BY <2>1, <2>2
<1> QED BY <1>1, <1>2

\* The lock is open exactly while a confirmed command is being served.
THEOREM LockFollows == Spec => []LockFollowsThread
<1>1. Init => LockInv
  BY DEF Init, LockInv, LockFollowsThread
<1>2. TypeOK /\ LockInv /\ [Next]_vars => LockInv'
  <2> SUFFICES ASSUME TypeOK, LockInv, [Next]_vars
               PROVE  LockInv'
    OBVIOUS
  <2> USE DEF TypeOK, FlagsOK, LockInv, LockFollowsThread, msgVars, lockVars
  <2>1. CASE MainLock
    BY <2>1 DEF MainLock
  <2>2. CASE MainRecv
    BY <2>2 DEF MainRecv
  <2>3. CASE MainDispatch
    BY <2>3 DEF MainDispatch
  <2>4. CASE MainSendOpen
    BY <2>4 DEF MainSendOpen
  <2>5. CASE MainNap
    BY <2>5 DEF MainNap
  <2>6. CASE MainHeart
    BY <2>6 DEF MainHeart
  <2>7. CASE MainSendHeart
    BY <2>7 DEF MainSendHeart
  <2>8. CASE MainStatus
    BY <2>8 DEF MainStatus
  <2>9. CASE MainDelete
    BY <2>9 DEF MainDelete
  <2>10. CASE MainExit
    BY <2>10 DEF MainExit
  <2>11. CASE HeartRcv
    BY <2>11 DEF HeartRcv
  <2>12. CASE HeartLock
    BY <2>12 DEF HeartLock
  <2>13. CASE HeartRespond
    BY <2>13 DEF HeartRespond
  <2>14. CASE MsgRcv
    BY <2>14 DEF MsgRcv
  <2>15. CASE MsgAnalyse
    <3>1. pcMsg' \in {"rcv", "confirm", "lockClose"} /\ isOn' = isOn /\ pin' = pin
      BY <2>15 DEF MsgAnalyse
    <3>2. ~doorOpen /\ isOn = pin
      BY <2>15 DEF MsgAnalyse
    <3>3. ~doorOpen'
      <4>1. doorOpen' = FALSE \/ doorOpen' = doorOpen
        BY <2>15 DEF MsgAnalyse
      <4> QED BY <3>2, <4>1
    <3>4. WriteOutcomes = {TRUE} => ~pin'
      <4>1. WriteOutcomes = {TRUE} => ~pin
        BY <2>15 DEF MsgAnalyse
      <4> QED BY <3>1, <4>1
    <3>5. isOn' = pin'
      BY <3>1, <3>2
    <3> QED BY <3>1, <3>3, <3>4, <3>5
  <2>16. CASE MsgConfirm
    <3>1. CASE pcMsg' = "lockOpen"
      <4>1. LockWrite(TRUE) /\ doorOpen' = TRUE
        BY <2>16, <3>1 DEF MsgConfirm
      <4>3. isOn = pin
        BY <2>16 DEF MsgConfirm
      <4>2. isOn' = pin' /\ (WriteOutcomes = {TRUE} => (pin' = TRUE))
        BY <4>1, <4>3, LockWriteEffect
      <4> QED BY <3>1, <4>1, <4>2
    <3>2. CASE pcMsg' # "lockOpen"
      <4>1. pcMsg' = "rcv" /\ UNCHANGED <<isOn, pin, doorOpen>>
        BY <2>16, <3>2 DEF MsgConfirm
      <4>2. ~doorOpen /\ ~doorOpen'
        BY <2>16, <4>1 DEF MsgConfirm
      <4>5. isOn = pin /\ (WriteOutcomes = {TRUE} => ~pin)
        BY <2>16, <4>2 DEF MsgConfirm
      <4>3. WriteOutcomes = {TRUE} => ~pin'
        BY <4>1, <4>5
      <4>4. isOn' = pin'
        BY <4>1, <4>5
      <4> QED BY <4>1, <4>2, <4>3, <4>4
    <3> QED BY <3>1, <3>2
  <2>17. CASE MsgCrash
    BY <2>17 DEF MsgCrash
  <2>18. CASE MsgLockOpen
    BY <2>18 DEF MsgLockOpen
  <2>19. CASE MsgOpenResp
    BY <2>19 DEF MsgOpenResp
  <2>20. CASE MsgRelock
    <3>1. isOn' = pin' /\ (WriteOutcomes = {TRUE} => (pin' = FALSE))
      BY <2>20, LockWriteEffect DEF MsgRelock
    <3>2. doorOpen' = FALSE /\ pcMsg' = "rcv"
      BY <2>20 DEF MsgRelock
    <3> QED BY <3>1, <3>2
  <2>21. CASE MsgLockClose
    BY <2>21 DEF MsgLockClose
  <2>22. CASE MsgCloseSend
    BY <2>22 DEF MsgCloseSend
  <2>23. CASE MsgCloseRecv
    BY <2>23 DEF MsgCloseRecv
  <2>24. CASE MsgCloseGiveUp
    BY <2>24 DEF MsgCloseGiveUp
  <2>25. CASE SensorPoll
    BY <2>25 DEF SensorPoll
  <2>26. CASE SensorSend
    BY <2>26 DEF SensorSend
  <2>27. CASE SensorFail
    BY <2>27 DEF SensorFail
  <2>28. CASE ModemReads
    BY <2>28 DEF ModemReads
  <2>29. CASE ServerSends
    BY <2>29 DEF ServerSends
  <2>30. CASE ServerAnswers
    BY <2>30 DEF ServerAnswers
  <2>31. CASE LinkDrops
    BY <2>31 DEF LinkDrops
  <2>32. CASE CustomerOpens
    BY <2>32 DEF CustomerOpens
  <2>33. CASE CustomerCloses
    BY <2>33 DEF CustomerCloses
  <2>34. CASE UNCHANGED vars
    BY <2>34 DEF vars
  <2>35. CASE MsgInit
    BY <2>35 DEF MsgInit
  <2> QED
    BY <2>1, <2>2, <2>3, <2>4, <2>5, <2>6, <2>7, <2>8, <2>9, <2>10, <2>11, <2>12, <2>13, <2>14, <2>15, <2>16, <2>17, <2>18, <2>19, <2>20, <2>21, <2>22, <2>23, <2>24, <2>25, <2>26, <2>27, <2>28, <2>29, <2>30,
       <2>31, <2>32, <2>33, <2>34, <2>35
       DEF Next, Main, Heart, Msg, Sensor, World, Ended, Jammed
<1> QED BY <1>1, <1>2, TypeCorrect, PTL DEF Spec, LockInv

-----------------------------------------------------------------------------
(* At most one report for a closing.  A closing that the sensor has taken  *)
(* is in one place: the sensor's hands, the queue or the hands of the      *)
(* message thread.  The sensor's next assignment to its string ends the    *)
(* one before, so that there is never a second.                            *)

\* The closings in the queue, and in rec_buf, whose text can still be read.
LiveCloses == {i \in 1..Len(queue) : queue[i].text = "Close" /\ queue[i].live}
HandClose  == pcMsg = "analyse" /\ hand.live /\ hand.text = "Close"
Taken      == pcSensor = "send" \/ LiveCloses # {} \/ HandClose

\* Only the sensor sends closings.
OwnText ==
  /\ \A i \in 1..Len(queue) : queue[i].text = "Close" => queue[i].mtype = CLOSE_DOOR_TYPE
  /\ hand.text = "Close" => hand.mtype = CLOSE_DOOR_TYPE
OneTaken ==
  /\ \A i, j \in LiveCloses : i = j
  /\ HandClose => LiveCloses = {}
  /\ pcSensor = "send" => LiveCloses = {} /\ ~HandClose

\* The closings of which no report has been started.
Unreported == keys + (IF Taken THEN 1 ELSE 0) + (IF pcMsg = "lockClose" THEN 1 ELSE 0)
Accounted  == ~stale => report + Unreported <= closings

ReportInv == OwnText /\ OneTaken /\ Accounted

\* A report is started for a closing that waits, and a closing waits for one.
LEMMA StillCounted ==
  ASSUME TypeOK, TypeOK', ReportInv, stale => stale',
         Unreported \in Nat, Unreported' \in Nat,
         \/ report' = report /\ closings' = closings /\ Unreported' <= Unreported
         \/ report' = report + 1 /\ closings' = closings /\ Unreported = Unreported' + 1
         \/ report' = report /\ closings' = closings + 1 /\ Unreported' = Unreported + 1
  PROVE  Accounted'
<1> SUFFICES ASSUME ~stale' PROVE report' + Unreported' <= closings'
  BY DEF Accounted
<1>1. report + Unreported <= closings
  BY DEF ReportInv, Accounted
<1>2. report \in Nat /\ closings \in Nat
  BY DEF TypeOK, StateOK
<1>3. \A r, u, v, c \in Nat : r + u <= c =>
        /\ v <= u => r + v <= c
        /\ u = v + 1 => (r + 1) + v <= c
        /\ v = u + 1 => r + v <= c + 1
  OBVIOUS
<1>4. CASE report' = report /\ closings' = closings /\ Unreported' <= Unreported
  BY <1>1, <1>2, <1>3, <1>4
<1>5. CASE report' = report + 1 /\ closings' = closings /\ Unreported = Unreported' + 1
  BY <1>1, <1>2, <1>3, <1>5
<1>6. CASE report' = report /\ closings' = closings + 1 /\ Unreported' = Unreported + 1
  BY <1>1, <1>2, <1>3, <1>6
<1> QED BY <1>4, <1>5, <1>6

\* A step that brings no closing into anybody's hands.
LEMMA NothingTaken ==
  ASSUME TypeOK, TypeOK', ReportInv, OwnText', \A i, j \in LiveCloses' : i = j,
         LiveCloses' # {} => LiveCloses # {}, HandClose' => HandClose,
         pcSensor' = "send" => pcSensor = "send",
         pcMsg' = "lockClose" => pcMsg = "lockClose",
         keys' = keys, closings' = closings, report' = report, stale => stale'
  PROVE  ReportInv'
<1>1. OneTaken'
  BY DEF ReportInv, OneTaken
<1>2. Taken' => Taken
  BY DEF Taken
<1>3. keys \in Nat /\ report \in Nat /\ closings \in Nat
  BY DEF TypeOK, StateOK
<1>4. /\ (IF Taken' THEN 1 ELSE 0) \in {0, 1} /\ (IF Taken THEN 1 ELSE 0) \in {0, 1}
      /\ (IF Taken' THEN 1 ELSE 0) <= (IF Taken THEN 1 ELSE 0)
  BY <1>2
<1>5. (IF pcMsg' = "lockClose" THEN 1 ELSE 0) \in {0, 1}
      /\ (IF pcMsg = "lockClose" THEN 1 ELSE 0) \in {0, 1}
      /\ (IF pcMsg' = "lockClose" THEN 1 ELSE 0) <= (IF pcMsg = "lockClose" THEN 1 ELSE 0)
  OBVIOUS
<1>6. Unreported' <= Unreported /\ Unreported \in Nat /\ Unreported' \in Nat
  BY <1>3, <1>4, <1>5 DEF Unreported
<1>7. Accounted'
  BY <1>6, StillCounted
<1> QED BY <1>1, <1>7 DEF ReportInv

\* A step that leaves the queue and rec_buf alone.
LEMMA QueueIdle ==
  ASSUME TypeOK, TypeOK', ReportInv, queue' = queue, hand' = hand, keys' = keys,
         closings' = closings, report' = report, stale => stale',
         pcSensor' = "send" => pcSensor = "send",
         pcMsg' \in {"analyse", "lockClose"} => pcMsg' = pcMsg
  PROVE  ReportInv'
<1>1. LiveCloses' = LiveCloses
  BY DEF LiveCloses
<1>2. HandClose' => HandClose
  BY DEF HandClose
<1>3. OwnText' /\ \A i, j \in LiveCloses' : i = j
  BY <1>1 DEF ReportInv, OwnText, OneTaken
<1> QED BY <1>1, <1>2, <1>3, NothingTaken

\* An assignment to a string: no closing comes to life, and the sensor's own
\* assignment ends all there are.
LEMMA ReassignCloses ==
  ASSUME TypeOK, ReportInv, NEW types, Reassign(types)
  PROVE  /\ OwnText' /\ LiveCloses' \subseteq LiveCloses
         /\ hand'.live => hand.live
         /\ hand'.text = hand.text
         /\ CLOSE_DOOR_TYPE \in types => LiveCloses' = {} /\ ~(hand'.live /\ hand'.text = "Close")
<1>1. \A m \in QMsg : LET e == Expired(m, types) IN
        /\ e.mtype = m.mtype /\ e.text = m.text
        /\ e.live => m.live /\ m.mtype \notin types
  BY DEF Expired, QMsg
<1>2. /\ Len(queue') = Len(queue)
      /\ \A k \in 1..Len(queue) : queue[k] \in QMsg /\ queue'[k] = Expired(queue[k], types)
  BY DEF Reassign, TypeOK, StateOK
<1>3. hand \in QMsg /\ hand' = Expired(hand, types)
  BY DEF Reassign, TypeOK, StateOK
<1>4. OwnText'
  BY <1>1, <1>2, <1>3 DEF ReportInv, OwnText
<1>5. LiveCloses' \subseteq LiveCloses
  BY <1>1, <1>2 DEF LiveCloses
<1>6. ASSUME CLOSE_DOOR_TYPE \in types
      PROVE  LiveCloses' = {} /\ ~(hand'.live /\ hand'.text = "Close")
  <2>1. \A k \in 1..Len(queue) : ~(queue'[k].live /\ queue'[k].text = "Close")
    BY <1>1, <1>2, <1>6 DEF ReportInv, OwnText
  <2>2. ~(hand'.live /\ hand'.text = "Close")
    BY <1>1, <1>3, <1>6 DEF ReportInv, OwnText
  <2> QED BY <1>2, <2>1, <2>2 DEF LiveCloses
<1> QED BY <1>1, <1>3, <1>4, <1>5, <1>6

\* A message taken from the queue leaves the others as they were.
LEMMA WithoutCloses ==
  ASSUME TypeOK, ReportInv, NEW i \in 1..Len(queue), queue' = Without(queue, i)
  PROVE  /\ \A k \in 1..Len(queue') : queue'[k].text = "Close" =>
              queue'[k].mtype = CLOSE_DOOR_TYPE
         /\ \A k, l \in LiveCloses' : k = l
         /\ LiveCloses' # {} => LiveCloses # {} /\ i \notin LiveCloses
<1> DEFINE at(k) == IF k < i THEN k ELSE k + 1
<1>1. /\ Len(queue) \in Nat /\ i \in Nat
      /\ queue' = [k \in 1..(Len(queue) - 1) |-> IF k < i THEN queue[k] ELSE queue[k + 1]]
  BY DEF Without, TypeOK, StateOK
<1>2. Len(queue') = Len(queue) - 1
  BY <1>1
<1>3. \A k \in 1..Len(queue') : /\ at(k) \in 1..Len(queue) /\ at(k) # i
                               /\ queue'[k] = queue[at(k)]
  BY <1>1, <1>2
<1>4. \A k, l \in 1..Len(queue') : at(k) = at(l) => k = l
  BY <1>1, <1>2
<1> HIDE DEF at
<1>5. \A k \in LiveCloses' : k \in 1..Len(queue') /\ at(k) \in LiveCloses /\ at(k) # i
  BY <1>3 DEF LiveCloses
<1>6. \A k, l \in LiveCloses' : k = l
  BY <1>4, <1>5 DEF ReportInv, OneTaken
<1>7. LiveCloses' # {} => LiveCloses # {} /\ i \notin LiveCloses
  BY <1>5 DEF ReportInv, OneTaken
<1>8. \A k \in 1..Len(queue') : queue'[k].text = "Close" => queue'[k].mtype = CLOSE_DOOR_TYPE
  BY <1>3 DEF ReportInv, OwnText
<1> QED BY <1>6, <1>7, <1>8

\* A message added to the queue joins the closings only if it is one.
LEMMA SendCloses ==
  ASSUME TypeOK, ReportInv, NEW m \in QMsg, MsgSnd(m),
         m.text = "Close" => m.mtype = CLOSE_DOOR_TYPE
  PROVE  /\ \A k \in 1..Len(queue') : queue'[k].text = "Close" =>
              queue'[k].mtype = CLOSE_DOOR_TYPE
         /\ \A k \in LiveCloses' : k \in LiveCloses \/ (m.text = "Close" /\ k = Len(queue) + 1)
<1>1. CASE queue' = Append(queue, m)
  <2>1. /\ Len(queue') = Len(queue) + 1 /\ Len(queue) \in Nat
        /\ \A k \in 1..Len(queue) : queue'[k] = queue[k]
        /\ queue'[Len(queue) + 1] = m
    BY <1>1 DEF TypeOK, StateOK
  <2>2. \A k \in 1..Len(queue') : k \in 1..Len(queue) \/ k = Len(queue) + 1
    BY <2>1
  <2>3. \A k \in 1..Len(queue') : queue'[k].text = "Close" => queue'[k].mtype = CLOSE_DOOR_TYPE
    BY <2>1, <2>2 DEF ReportInv, OwnText
  <2> QED BY <2>1, <2>2, <2>3 DEF LiveCloses
<1>2. CASE queue' = queue
  BY <1>2 DEF LiveCloses, ReportInv, OwnText
<1> QED BY <1>1, <1>2 DEF MsgSnd

\* Main assigns its own string, or leaves the queue alone.
LEMMA MainAssignReports ==
  ASSUME TypeOK, TypeOK', ReportInv,
         Reassign(MainTypes) \/ UNCHANGED <<queue, hand>>,
         UNCHANGED <<keys, closings, report, pcSensor, pcMsg, stale>>
  PROVE  ReportInv'
<1>1. CASE UNCHANGED <<queue, hand>>
  BY <1>1, QueueIdle
<1>2. CASE Reassign(MainTypes)
  <2>1. /\ OwnText' /\ LiveCloses' \subseteq LiveCloses
        /\ hand'.live => hand.live
        /\ hand'.text = hand.text
    BY <1>2, ReassignCloses
  <2>2. (HandClose' => HandClose) /\ \A i, j \in LiveCloses' : i = j
    BY <2>1 DEF HandClose, ReportInv, OneTaken
  <2> QED BY <2>1, <2>2, NothingTaken
<1> QED BY <1>1, <1>2

LEMMA MainDispatchReports ==
  ASSUME TypeOK, TypeOK', ReportInv, MainDispatch
  PROVE  ReportInv'
BY MainAssignReports DEF MainDispatch, sensorVars, history

LEMMA MainHeartReports ==
  ASSUME TypeOK, TypeOK', ReportInv, MainHeart
  PROVE  ReportInv'
BY MainAssignReports DEF MainHeart, sensorVars, history

\* Main sends what is no closing.
LEMMA MainSendReports ==
  ASSUME TypeOK, TypeOK', ReportInv, NEW m \in QMsg, MsgSnd(m), m.text # "Close",
         UNCHANGED <<keys, closings, report, pcSensor, pcMsg, hand, stale>>
  PROVE  ReportInv'
<1>1. /\ \A k \in 1..Len(queue') : queue'[k].text = "Close" =>
           queue'[k].mtype = CLOSE_DOOR_TYPE
      /\ \A k \in LiveCloses' : k \in LiveCloses
  BY SendCloses
<1>2. OwnText' /\ (HandClose' => HandClose)
  BY <1>1 DEF OwnText, HandClose, ReportInv
<1>3. \A i, j \in LiveCloses' : i = j
  BY <1>1 DEF ReportInv, OneTaken
<1> QED BY <1>1, <1>2, <1>3, NothingTaken

LEMMA PublishedText ==
  ASSUME reply \in Reply, NEW type
  PROVE  Published(type).text # "Close"
BY DEF Published, Reply, Token, Kinds

LEMMA MainSendOpenReports ==
  ASSUME TypeOK, TypeOK', ReportInv, MainSendOpen
  PROVE  ReportInv'
<1>1. Published(OPEN_DOOR_TYPE) \in QMsg /\ Published(OPEN_DOOR_TYPE).text # "Close"
  BY PublishedType, PublishedText DEF TypeOK, StateOK
<1> QED BY <1>1, MainSendReports DEF MainSendOpen, msgVars, sensorVars, history

LEMMA MainSendHeartReports ==
  ASSUME TypeOK, TypeOK', ReportInv, MainSendHeart
  PROVE  ReportInv'
<1>1. Published(HEART_TYPE) \in QMsg /\ Published(HEART_TYPE).text # "Close"
  BY PublishedType, PublishedText DEF TypeOK, StateOK
<1> QED BY <1>1, MainSendReports DEF MainSendHeart, msgVars, sensorVars, history

LEMMA MainDeleteReports ==
  ASSUME TypeOK, TypeOK', ReportInv, MainDelete
  PROVE  ReportInv'
<1>1. queue' = <<>> /\ UNCHANGED <<keys, closings, report, pcSensor, pcMsg, hand, stale>>
  BY DEF MainDelete, msgVars, sensorVars, history
<1>2. Len(queue') = 0
  BY <1>1
<1>3. OwnText' /\ LiveCloses' = {} /\ (HandClose' => HandClose)
  BY <1>1, <1>2 DEF OwnText, LiveCloses, HandClose, ReportInv
<1> QED BY <1>1, <1>3, NothingTaken

LEMMA HeartRcvReports ==
  ASSUME TypeOK, TypeOK', ReportInv, HeartRcv
  PROVE  ReportInv'
<1>1. PICK i \in Chosen(queue, HEART_TYPE) : queue' = Without(queue, i)
  BY DEF HeartRcv
<1>2. UNCHANGED <<keys, closings, report, pcSensor, pcMsg, hand, stale>>
  BY DEF HeartRcv, msgVars, sensorVars, history
<1>3. i \in 1..Len(queue)
  BY <1>1, ChosenInQueue
<1>4. /\ \A k \in 1..Len(queue') : queue'[k].text = "Close" =>
           queue'[k].mtype = CLOSE_DOOR_TYPE
      /\ \A k, l \in LiveCloses' : k = l
      /\ LiveCloses' # {} => LiveCloses # {}
  BY <1>1, <1>3, WithoutCloses
<1>5. OwnText' /\ (HandClose' => HandClose)
  BY <1>2, <1>4 DEF OwnText, HandClose, ReportInv
<1> QED BY <1>2, <1>4, <1>5, NothingTaken

\* The message thread takes a message: a closing goes with it.
LEMMA MsgRcvReports ==
  ASSUME TypeOK, TypeOK', ReportInv, MsgRcv
  PROVE  ReportInv'
<1>1. PICK i \in Chosen(queue, -IMAGE_TYPE) : hand' = queue[i] /\ queue' = Without(queue, i)
  BY DEF MsgRcv
<1>2. /\ UNCHANGED <<keys, closings, report, pcSensor, stale>>
      /\ pcMsg = "rcv" /\ pcMsg' = "analyse"
  BY DEF MsgRcv, sensorVars, history
<1>3. i \in 1..Len(queue)
  BY <1>1, ChosenInQueue
<1>4. /\ \A k \in 1..Len(queue') : queue'[k].text = "Close" =>
           queue'[k].mtype = CLOSE_DOOR_TYPE
      /\ \A k, l \in LiveCloses' : k = l
      /\ LiveCloses' # {} => LiveCloses # {} /\ i \notin LiveCloses
  BY <1>1, <1>3, WithoutCloses
<1>5. OwnText'
  BY <1>1, <1>3, <1>4 DEF OwnText, ReportInv
<1>6. HandClose' => i \in LiveCloses
  BY <1>1, <1>3 DEF HandClose, LiveCloses
<1>7. OneTaken'
  BY <1>2, <1>4, <1>6 DEF OneTaken, ReportInv
<1>8. Taken' => Taken
  BY <1>2, <1>4, <1>6 DEF Taken
<1>9. Unreported' <= Unreported /\ Unreported' \in Nat /\ Unreported \in Nat
  <2>1. keys \in Nat
    BY DEF TypeOK, StateOK
  <2>2. CASE Taken
    <3>1. Unreported = keys + 1 /\ Unreported' \in {keys, keys + 1}
      BY <1>2, <2>1, <2>2 DEF Unreported
    <3> QED BY <2>1, <3>1
  <2>3. CASE ~Taken
    <3>1. Unreported = keys /\ Unreported' = keys
      BY <1>2, <1>8, <2>1, <2>3 DEF Unreported
    <3> QED BY <2>1, <3>1
  <2> QED BY <2>2, <2>3
<1>10. Accounted'
  BY <1>2, <1>9, StillCounted
<1> QED BY <1>5, <1>7, <1>10 DEF ReportInv

\* A closing is recognised: it is the one in rec_buf, if its text was live.
LEMMA MsgAnalyseReports ==
  ASSUME TypeOK, TypeOK', ReportInv, MsgAnalyse
  PROVE  ReportInv'
<1>1. /\ UNCHANGED <<queue, hand, keys, closings, report, pcSensor>>
      /\ stale' = (stale \/ ~hand.live) /\ pcMsg = "analyse"
      /\ pcMsg' \in {"confirm", "lockClose", "rcv"}
  BY DEF MsgAnalyse, MarkStale, sensorVars
<1>2. stale \in BOOLEAN /\ hand.live \in BOOLEAN
  BY DEF TypeOK, StateOK, FlagsOK, QMsg
<1>3. CASE pcMsg' # "lockClose"
  BY <1>1, <1>2, <1>3, QueueIdle
<1>4. CASE pcMsg' = "lockClose"
  <2>1. LiveCloses' = LiveCloses /\ ~HandClose'
    BY <1>1, <1>4 DEF LiveCloses, HandClose
  <2>2. OwnText' /\ OneTaken'
    BY <1>1, <2>1 DEF OwnText, OneTaken, ReportInv
  <2>3. Accounted'
    <3> SUFFICES ASSUME ~stale' PROVE report' + Unreported' <= closings'
      BY DEF Accounted
    <3>1. hand.live /\ ~stale
      BY <1>1, <1>2
    <3>2. hand.text = "Close"
      <4>1. PICK text \in Kinds \cup {"Close"} :
              Read(text) /\ TypeOf(text) = CLOSE_DOOR_TYPE
        BY <1>1, <1>4 DEF MsgAnalyse
      <4>2. text = "Close"
        BY <4>1 DEF TypeOf, Kinds, CLOSE_DOOR_TYPE, OPEN_DOOR_TYPE, MSG_TYPE
      <4> QED BY <3>1, <4>1, <4>2 DEF Read
    <3>3. HandClose /\ Taken
      BY <1>1, <3>1, <3>2 DEF HandClose, Taken
    <3>4. ~Taken'
      BY <1>1, <2>1, <3>3 DEF Taken, ReportInv, OneTaken
    <3>5. keys \in Nat /\ report \in Nat /\ closings \in Nat
      BY DEF TypeOK, StateOK
    <3>6. Unreported = keys + 1 /\ Unreported' = keys + 1
      BY <1>1, <1>4, <3>3, <3>4, <3>5 DEF Unreported
    <3> QED BY <1>1, <3>1, <3>5, <3>6 DEF ReportInv, Accounted
  <2> QED BY <2>2, <2>3 DEF ReportInv
<1> QED BY <1>3, <1>4

\* The report of a closing that was recognised is started.
LEMMA MsgLockCloseReports ==
  ASSUME TypeOK, TypeOK', ReportInv, MsgLockClose
  PROVE  ReportInv'
<1>1. /\ UNCHANGED <<queue, hand, keys, closings, pcSensor, stale>>
      /\ report' = report + 1 /\ pcMsg = "lockClose" /\ pcMsg' = "closeSend"
  BY DEF MsgLockClose, sensorVars
<1>2. LiveCloses' = LiveCloses /\ ~HandClose' /\ ~HandClose
  BY <1>1 DEF LiveCloses, HandClose
<1>3. OwnText' /\ OneTaken' /\ Taken' = Taken
  BY <1>1, <1>2 DEF OwnText, OneTaken, Taken, ReportInv
<1>4. keys \in Nat /\ report \in Nat /\ closings \in Nat
  BY DEF TypeOK, StateOK
<1>5. Unreported = Unreported' + 1 /\ Unreported' \in Nat /\ Unreported \in Nat
  BY <1>1, <1>3, <1>4 DEF Unreported
<1>6. Accounted'
  BY <1>1, <1>5, StillCounted
<1> QED BY <1>3, <1>6 DEF ReportInv

\* The sensor takes a closing; the one it took before can no longer be read.
LEMMA SensorPollReports ==
  ASSUME TypeOK, TypeOK', ReportInv, SensorPoll
  PROVE  ReportInv'
<1>1. /\ UNCHANGED <<closings, report, stale, pcMsg>> /\ Reassign({CLOSE_DOOR_TYPE})
      /\ keys > 0 /\ keys' = keys - 1
  BY DEF SensorPoll, history
<1>2. OwnText' /\ LiveCloses' = {} /\ ~HandClose'
  BY <1>1, ReassignCloses DEF HandClose
<1>3. OneTaken'
  BY <1>2 DEF OneTaken
<1>4. keys \in Nat /\ report \in Nat /\ closings \in Nat
  BY DEF TypeOK, StateOK
<1>5. Unreported' <= Unreported /\ Unreported' \in Nat /\ Unreported \in Nat
  <2> DEFINE l == IF pcMsg = "lockClose" THEN 1 ELSE 0
             t == IF Taken THEN 1 ELSE 0
             u == IF Taken' THEN 1 ELSE 0
  <2>1. l \in {0, 1} /\ t \in {0, 1} /\ u \in {0, 1}
    OBVIOUS
  <2>2. Unreported = keys + t + l /\ Unreported' = keys' + u + l
    BY <1>1 DEF Unreported
  <2> HIDE DEF l, t, u
  <2> QED BY <1>1, <1>4, <2>1, <2>2
<1>6. Accounted'
  BY <1>1, <1>5, StillCounted
<1> QED BY <1>2, <1>3, <1>6 DEF ReportInv

\* The sensor's closing goes to the queue.
LEMMA SensorSendReports ==
  ASSUME TypeOK, TypeOK', ReportInv, SensorSend
  PROVE  ReportInv'
<1> DEFINE m == [mtype |-> CLOSE_DOOR_TYPE, text |-> "Close", of |-> 0, live |-> TRUE]
<1>1. /\ UNCHANGED <<closings, report, stale, pcMsg, hand, keys>> /\ MsgSnd(m)
      /\ pcSensor = "send" /\ pcSensor' = "poll"
  BY DEF SensorSend, history, msgVars
<1>2. m \in QMsg /\ m.mtype = CLOSE_DOOR_TYPE
  BY DEF QMsg
<1> HIDE DEF m
<1>3. /\ \A k \in 1..Len(queue') : queue'[k].text = "Close" =>
           queue'[k].mtype = CLOSE_DOOR_TYPE
      /\ \A k \in LiveCloses' : k \in LiveCloses \/ k = Len(queue) + 1
  BY <1>1, <1>2, SendCloses
<1>4. LiveCloses = {} /\ ~HandClose /\ ~HandClose'
  BY <1>1 DEF ReportInv, OneTaken, HandClose
<1>5. OwnText' /\ OneTaken'
  BY <1>1, <1>3, <1>4 DEF OwnText, OneTaken, ReportInv
<1>6. Taken
  BY <1>1 DEF Taken
<1>7. keys \in Nat /\ report \in Nat /\ closings \in Nat
  BY DEF TypeOK, StateOK
<1>8. Unreported' <= Unreported /\ Unreported' \in Nat /\ Unreported \in Nat
  BY <1>1, <1>6, <1>7 DEF Unreported
<1>9. Accounted'
  BY <1>1, <1>8, StillCounted
<1> QED BY <1>5, <1>9 DEF ReportInv

LEMMA CustomerClosesReports ==
  ASSUME TypeOK, TypeOK', ReportInv, CustomerCloses
  PROVE  ReportInv'
<1>1. /\ UNCHANGED <<queue, hand, report, stale, pcMsg, pcSensor>>
      /\ keys' = keys + 1 /\ closings' = closings + 1
  BY DEF CustomerCloses, msgVars
<1>2. LiveCloses' = LiveCloses /\ HandClose' = HandClose
  BY <1>1 DEF LiveCloses, HandClose
<1>3. OwnText' /\ OneTaken' /\ Taken' = Taken
  BY <1>1, <1>2 DEF OwnText, OneTaken, Taken, ReportInv
<1>4. keys \in Nat /\ report \in Nat /\ closings \in Nat
  BY DEF TypeOK, StateOK
<1>5. Unreported' = Unreported + 1 /\ Unreported' \in Nat /\ Unreported \in Nat
  BY <1>1, <1>3, <1>4 DEF Unreported
<1>6. Accounted'
  BY <1>1, <1>5, StillCounted
<1> QED BY <1>3, <1>6 DEF ReportInv

\* For every queue, however many closings and whatever the interleaving: at most
\* one goods report is started for each time the door was shut, as long as the
\* message thread read no freed text (image_lock_process.cpp:70-92,
\* msg_process.cpp:103-117).  How often a report's text is sent is not said.
THEOREM ReportsCounted == Spec => []OneStartPerClosing
<1>1. Init => ReportInv
  <2> SUFFICES ASSUME Init PROVE ReportInv
    OBVIOUS
  <2>1. \A i \in 1..Len(queue) :
          ~queue[i].live /\ (queue[i].text = "Close" => queue[i].mtype = CLOSE_DOOR_TYPE)
    <3>1. PICK n \in 0..MaxLeft : queue \in [1..n -> Leftovers]
      BY DEF Init
    <3>2. Len(queue) = n /\ \A i \in 1..n : queue[i] \in Leftovers
      BY <3>1, ConstantsOK
    <3> QED BY <3>2 DEF Leftovers
  <2>2. LiveCloses = {} /\ ~HandClose /\ ~Taken
    BY <2>1 DEF Init, LiveCloses, HandClose, Taken
  <2>3. OwnText /\ OneTaken
    BY <2>1, <2>2 DEF Init, NoMsg, OwnText, OneTaken
  <2>4. Accounted
    BY <2>2 DEF Init, Accounted, Unreported
  <2> QED BY <2>3, <2>4 DEF ReportInv
<1>2. TypeOK /\ TypeOK' /\ ReportInv /\ [Next]_vars => ReportInv'
  <2> SUFFICES ASSUME TypeOK, TypeOK', ReportInv, [Next]_vars
               PROVE  ReportInv'
    OBVIOUS
  <2> USE DEF msgVars, sensorVars, history
  <2>1. CASE MainLock
    BY <2>1, QueueIdle DEF MainLock
  <2>2. CASE MainRecv
    BY <2>2, QueueIdle DEF MainRecv
  <2>3. CASE MainDispatch
    BY <2>3, MainDispatchReports
  <2>4. CASE MainSendOpen
    BY <2>4, MainSendOpenReports
  <2>5. CASE MainNap
    BY <2>5, QueueIdle DEF MainNap
  <2>6. CASE MainHeart
    BY <2>6, MainHeartReports
  <2>7. CASE MainSendHeart
    BY <2>7, MainSendHeartReports
  <2>8. CASE MainStatus
    BY <2>8, QueueIdle DEF MainStatus
  <2>9. CASE MainDelete
    BY <2>9, MainDeleteReports
  <2>10. CASE MainExit
    BY <2>10, QueueIdle DEF MainExit
  <2>11. CASE HeartRcv
    BY <2>11, HeartRcvReports
  <2>12. CASE HeartLock
    BY <2>12, QueueIdle DEF HeartLock
  <2>13. CASE HeartRespond
    BY <2>13, QueueIdle DEF HeartRespond
  <2>14. CASE MsgRcv
    BY <2>14, MsgRcvReports
  <2>15. CASE MsgAnalyse
    BY <2>15, MsgAnalyseReports
  <2>16. CASE MsgConfirm
    BY <2>16, QueueIdle DEF MsgConfirm, MarkStale
  <2>17. CASE MsgCrash
    BY <2>17, QueueIdle DEF MsgCrash
  <2>18. CASE MsgLockOpen
    BY <2>18, QueueIdle DEF MsgLockOpen
  <2>19. CASE MsgOpenResp
    BY <2>19, QueueIdle DEF MsgOpenResp
  <2>20. CASE MsgRelock
    BY <2>20, QueueIdle DEF MsgRelock
  <2>21. CASE MsgLockClose
    BY <2>21, MsgLockCloseReports
  <2>22. CASE MsgCloseSend
    BY <2>22, QueueIdle DEF MsgCloseSend
  <2>23. CASE MsgCloseRecv
    BY <2>23, QueueIdle DEF MsgCloseRecv
  <2>24. CASE MsgCloseGiveUp
    BY <2>24, QueueIdle DEF MsgCloseGiveUp
  <2>25. CASE SensorPoll
    BY <2>25, SensorPollReports
  <2>26. CASE SensorSend
    BY <2>26, SensorSendReports
  <2>27. CASE SensorFail
    BY <2>27, QueueIdle DEF SensorFail
  <2>28. CASE ModemReads
    BY <2>28, QueueIdle DEF ModemReads
  <2>29. CASE ServerSends
    BY <2>29, QueueIdle DEF ServerSends
  <2>30. CASE ServerAnswers
    BY <2>30, QueueIdle DEF ServerAnswers
  <2>31. CASE LinkDrops
    BY <2>31, QueueIdle DEF LinkDrops
  <2>32. CASE CustomerOpens
    BY <2>32, QueueIdle DEF CustomerOpens
  <2>33. CASE CustomerCloses
    BY <2>33, CustomerClosesReports
  <2>34. CASE UNCHANGED vars
    BY <2>34, QueueIdle DEF vars
  <2>35. CASE MsgInit
    BY <2>35, QueueIdle DEF MsgInit
  <2> QED
    BY <2>1, <2>2, <2>3, <2>4, <2>5, <2>6, <2>7, <2>8, <2>9, <2>10, <2>11, <2>12, <2>13, <2>14, <2>15, <2>16, <2>17, <2>18, <2>19, <2>20, <2>21, <2>22, <2>23, <2>24, <2>25, <2>26, <2>27, <2>28, <2>29, <2>30, <2>31, <2>32, <2>33, <2>34, <2>35
       DEF Next, Main, Heart, Msg, Sensor, World, Ended, Jammed
<1>3. TypeOK /\ ReportInv => OneStartPerClosing
  <2> SUFFICES ASSUME TypeOK, ReportInv, ~stale PROVE report <= closings
    BY DEF OneStartPerClosing
  <2>1. report + Unreported <= closings
    BY DEF ReportInv, Accounted
  <2>2. report \in Nat /\ closings \in Nat /\ Unreported \in Nat
    BY DEF TypeOK, StateOK, Unreported
  <2> QED BY <2>1, <2>2
<1> QED BY <1>1, <1>2, <1>3, TypeCorrect, PTL DEF Spec
-----------------------------------------------------------------------------
(***************************************************************************)
(* BoxApp implements DoorService.  What has to be shown is that the number *)
(* of the command the message thread confirms is one the server has issued *)
(* and that was never used: CommandOrder says so, and OneLiveCommand is    *)
(* what makes it inductive.                                                *)
(***************************************************************************)

\* Parts of a chain form a chain.
LEMMA ChainShrinks ==
  ASSUME NEW U, NEW P, NEW R, NEW C, NEW W, Chain(U, P, R, C, W),
         NEW U1 \in SUBSET U, NEW P1 \in SUBSET P, NEW R1 \in SUBSET R,
         NEW C1 \in SUBSET C, NEW W1 \in SUBSET W
  PROVE  Chain(U1, P1, R1, C1, W1)
BY DEF Chain, Before

\* Taking the oldest message: its number is below those that stay.
LEMMA TailIds ==
  ASSUME NEW s \in Seq(Token), s # <<>>, Ascending(s)
  PROVE  /\ OpenIds(Tail(s)) \subseteq OpenIds(s)
         /\ Ascending(Tail(s))
         /\ Head(s).kind = "Open" =>
              /\ Head(s).of \in OpenIds(s)
              /\ Before({Head(s).of}, OpenIds(Tail(s)))
<1>1. /\ Len(Tail(s)) = Len(s) - 1 /\ Len(s) \in Nat \ {0}
      /\ \A i \in 1..Len(Tail(s)) : Tail(s)[i] = s[i + 1]
      /\ Head(s) = s[1]
  OBVIOUS
<1>2. OpenIds(Tail(s)) \subseteq OpenIds(s)
  <2> SUFFICES ASSUME NEW i \in 1..Len(Tail(s)), Tail(s)[i].kind = "Open"
               PROVE  Tail(s)[i].of \in OpenIds(s)
    BY DEF OpenIds
  <2>1. i + 1 \in 1..Len(s) /\ Tail(s)[i] = s[i + 1]
    BY <1>1
  <2> QED BY <2>1 DEF OpenIds
<1>3. Ascending(Tail(s))
  <2> SUFFICES ASSUME NEW i \in 1..Len(Tail(s)), NEW j \in 1..Len(Tail(s)), i < j,
                      Tail(s)[i].kind = "Open", Tail(s)[j].kind = "Open"
               PROVE  Tail(s)[i].of < Tail(s)[j].of
    BY DEF Ascending
  <2>1. /\ i + 1 \in 1..Len(s) /\ j + 1 \in 1..Len(s) /\ i + 1 < j + 1
        /\ Tail(s)[i] = s[i + 1] /\ Tail(s)[j] = s[j + 1]
    BY <1>1
  <2> QED BY <2>1 DEF Ascending
<1>4. ASSUME Head(s).kind = "Open"
      PROVE  Head(s).of \in OpenIds(s) /\ Before({Head(s).of}, OpenIds(Tail(s)))
  <2>1. 1 \in 1..Len(s)
    BY <1>1
  <2>2. Head(s).of \in OpenIds(s)
    BY <1>1, <1>4, <2>1 DEF OpenIds
  <2>3. ASSUME NEW i \in 1..Len(Tail(s)), Tail(s)[i].kind = "Open"
        PROVE  Head(s).of < Tail(s)[i].of
    <3>1. i + 1 \in 1..Len(s) /\ 1 < i + 1 /\ Tail(s)[i] = s[i + 1]
      BY <1>1
    <3> QED BY <1>1, <1>4, <2>1, <2>3, <3>1 DEF Ascending
  <2> QED BY <2>2, <2>3 DEF Before, OpenIds
<1> QED BY <1>2, <1>3, <1>4

\* Adding a message at the end.
LEMMA AppendIds ==
  ASSUME NEW s \in Seq(Token), NEW tok \in Token
  PROVE  /\ OpenIds(Append(s, tok)) \subseteq
              OpenIds(s) \cup (IF tok.kind = "Open" THEN {tok.of} ELSE {})
         /\ Ascending(s) /\ (tok.kind = "Open" => Before(OpenIds(s), {tok.of}))
              => Ascending(Append(s, tok))
<1>1. /\ Len(Append(s, tok)) = Len(s) + 1
      /\ \A i \in 1..Len(s) : Append(s, tok)[i] = s[i]
      /\ Append(s, tok)[Len(s) + 1] = tok
      /\ Len(s) \in Nat
  OBVIOUS
<1>2. \A i \in 1..(Len(s) + 1) : i \in 1..Len(s) \/ i = Len(s) + 1
  BY <1>1
<1>3. OpenIds(Append(s, tok)) \subseteq
        OpenIds(s) \cup (IF tok.kind = "Open" THEN {tok.of} ELSE {})
  <2> SUFFICES ASSUME NEW i \in 1..(Len(s) + 1), Append(s, tok)[i].kind = "Open"
               PROVE  Append(s, tok)[i].of \in
                        OpenIds(s) \cup (IF tok.kind = "Open" THEN {tok.of} ELSE {})
    BY <1>1 DEF OpenIds
  <2> QED BY <1>1, <1>2 DEF OpenIds
<1>4. Ascending(s) /\ (tok.kind = "Open" => Before(OpenIds(s), {tok.of}))
        => Ascending(Append(s, tok))
  <2> SUFFICES ASSUME Ascending(s), tok.kind = "Open" => Before(OpenIds(s), {tok.of}),
                      NEW i \in 1..(Len(s) + 1), NEW j \in 1..(Len(s) + 1), i < j,
                      Append(s, tok)[i].kind = "Open", Append(s, tok)[j].kind = "Open"
               PROVE  Append(s, tok)[i].of < Append(s, tok)[j].of
    BY <1>1 DEF Ascending
  <2>1. i \in 1..Len(s) /\ Append(s, tok)[i] = s[i]
    BY <1>1, <1>2
  <2>2. CASE j \in 1..Len(s)
    BY <1>1, <2>1, <2>2 DEF Ascending
  <2>3. CASE j = Len(s) + 1
    BY <1>1, <2>1, <2>3 DEF Before, OpenIds
  <2> QED BY <1>2, <2>2, <2>3
<1> QED BY <1>3, <1>4

\* Joining two texts, and taking a part of one, adds no command.
LEMMA ConcatIds ==
  ASSUME NEW s \in Seq(Token), NEW t \in Seq(Token)
  PROVE  s \o t \in Seq(Token) /\ OpenIds(s \o t) \subseteq OpenIds(s) \cup OpenIds(t)
<1>1. /\ s \o t \in Seq(Token) /\ Len(s) \in Nat /\ Len(t) \in Nat
      /\ Len(s \o t) = Len(s) + Len(t)
      /\ \A k \in 1..(Len(s) + Len(t)) :
           (s \o t)[k] = IF k <= Len(s) THEN s[k] ELSE t[k - Len(s)]
  BY ConcatProperties
<1>2. ASSUME NEW k \in 1..(Len(s) + Len(t)), (s \o t)[k].kind = "Open"
      PROVE  (s \o t)[k].of \in OpenIds(s) \cup OpenIds(t)
  <2>1. CASE k <= Len(s)
    <3>1. k \in 1..Len(s) /\ (s \o t)[k] = s[k]
      BY <1>1, <2>1
    <3> QED BY <1>2, <3>1 DEF OpenIds
  <2>2. CASE k > Len(s)
    <3>1. k - Len(s) \in 1..Len(t) /\ (s \o t)[k] = t[k - Len(s)]
      BY <1>1, <2>2
    <3> QED BY <1>2, <3>1 DEF OpenIds
  <2> QED BY <1>1, <2>1, <2>2
<1> QED BY <1>1, <1>2 DEF OpenIds

LEMMA PartIds ==
  ASSUME NEW s \in Seq(Token), NEW m \in 1..(Len(s) + 1), NEW n \in 0..Len(s)
  PROVE  SubSeq(s, m, n) \in Seq(Token) /\ OpenIds(SubSeq(s, m, n)) \subseteq OpenIds(s)
<1>1. /\ SubSeq(s, m, n) \in Seq(Token) /\ Len(s) \in Nat
      /\ Len(SubSeq(s, m, n)) = IF m <= n THEN n - m + 1 ELSE 0
      /\ \A k \in 1..(n - m + 1) : SubSeq(s, m, n)[k] = s[m + k - 1]
  <2>1. m \in Int /\ n \in Int /\ \A k \in m..n : s[k] \in Token
    OBVIOUS
  <2> QED BY <2>1, SubSeqProperties
<1>2. \A k \in 1..Len(SubSeq(s, m, n)) :
        m + k - 1 \in 1..Len(s) /\ SubSeq(s, m, n)[k] = s[m + k - 1]
  BY <1>1
<1> QED BY <1>1, <1>2 DEF OpenIds

\* A race of two dialogues adds no command to the cache but the one that was read.
LEMMA RacedIds ==
  ASSUME NEW s \in Seq(Token), NEW tok \in Token, NEW t \in Raced(s, tok)
  PROVE  OpenIds(t) \subseteq OpenIds(s) \cup (IF tok.kind = "Open" THEN {tok.of} ELSE {})
<1> DEFINE new == IF tok.kind = "Open" THEN {tok.of} ELSE {}
<1>1. OpenIds(<<tok>>) \subseteq new
  BY DEF OpenIds
<1>2. OpenIds(<<Garbled>>) = {}
  BY DEF OpenIds, Garbled
<1>3. ASSUME NEW i \in 1..Len(s), t = InsertAt(s, i, tok)
      PROVE  OpenIds(t) \subseteq OpenIds(s) \cup new
  <2> DEFINE a == SubSeq(s, 1, i - 1)
             b == SubSeq(s, i, Len(s))
  <2>1. a \in Seq(Token) /\ OpenIds(a) \subseteq OpenIds(s)
    <3>1. 1 \in 1..(Len(s) + 1) /\ i - 1 \in 0..Len(s)
      OBVIOUS
    <3> QED BY <3>1, PartIds
  <2>2. b \in Seq(Token) /\ OpenIds(b) \subseteq OpenIds(s)
    <3>1. i \in 1..(Len(s) + 1) /\ Len(s) \in 0..Len(s)
      OBVIOUS
    <3> QED BY <3>1, PartIds
  <2>3. t = (a \o <<tok>>) \o b
    BY <1>3 DEF InsertAt
  <2> HIDE DEF a, b, new
  <2>4. /\ a \o <<tok>> \in Seq(Token)
        /\ OpenIds(a \o <<tok>>) \subseteq OpenIds(a) \cup OpenIds(<<tok>>)
    <3>1. <<tok>> \in Seq(Token)
      OBVIOUS
    <3> QED BY <2>1, <3>1, ConcatIds
  <2>5. OpenIds(t) \subseteq OpenIds(a \o <<tok>>) \cup OpenIds(b)
    BY <2>2, <2>3, <2>4, ConcatIds
  <2> QED BY <1>1, <2>1, <2>2, <2>4, <2>5
<1> QED BY <1>1, <1>2, <1>3 DEF Raced

\* Taking a chunk of n messages away.
LEMMA SuffixIds ==
  ASSUME NEW s \in Seq(Token), NEW n \in 1..Len(s), Ascending(s)
  PROVE  /\ OpenIds(SubSeq(s, n + 1, Len(s))) \subseteq OpenIds(s)
         /\ Ascending(SubSeq(s, n + 1, Len(s)))
         /\ \A i \in 1..n : s[i].kind = "Open" =>
              s[i].of \in OpenIds(s) /\ Before({s[i].of}, OpenIds(SubSeq(s, n + 1, Len(s))))
<1> DEFINE t == SubSeq(s, n + 1, Len(s))
<1>1. /\ Len(t) = Len(s) - n
      /\ \A i \in 1..Len(t) : i + n \in 1..Len(s) /\ t[i] = s[i + n]
  <2>1. n + 1 \in Int /\ Len(s) \in Nat /\ \A i \in (n + 1)..Len(s) : s[i] \in Token
    OBVIOUS
  <2>2. /\ Len(t) = IF n + 1 <= Len(s) THEN Len(s) - (n + 1) + 1 ELSE 0
        /\ \A i \in 1..(Len(s) - (n + 1) + 1) : t[i] = s[(n + 1) + i - 1]
    BY <2>1, SubSeqProperties
  <2>3. Len(t) = Len(s) - n
    BY <2>1, <2>2
  <2>4. ASSUME NEW i \in 1..Len(t) PROVE i + n \in 1..Len(s) /\ t[i] = s[i + n]
    <3>1. i \in 1..(Len(s) - (n + 1) + 1) /\ (n + 1) + i - 1 = i + n /\ i + n \in 1..Len(s)
      BY <2>1, <2>3
    <3> QED BY <2>2, <3>1
  <2> QED BY <2>3, <2>4
<1>2. Len(t) \in Nat
  BY <1>1
<1> HIDE DEF t
<1>3. OpenIds(t) \subseteq OpenIds(s)
  BY <1>1 DEF OpenIds
<1>4. Ascending(t)
  <2> SUFFICES ASSUME NEW i \in 1..Len(t), NEW j \in 1..Len(t), i < j,
                      t[i].kind = "Open", t[j].kind = "Open"
               PROVE  t[i].of < t[j].of
    BY DEF Ascending
  <2>1. i + n < j + n
    BY <1>2
  <2> QED BY <1>1, <2>1 DEF Ascending
<1>5. ASSUME NEW i \in 1..n, s[i].kind = "Open"
      PROVE  s[i].of \in OpenIds(s) /\ Before({s[i].of}, OpenIds(t))
  <2>1. i \in 1..Len(s)
    OBVIOUS
  <2>2. s[i].of \in OpenIds(s)
    BY <1>5, <2>1 DEF OpenIds
  <2>3. ASSUME NEW j \in 1..Len(t), t[j].kind = "Open" PROVE s[i].of < t[j].of
    <3>1. j + n \in 1..Len(s) /\ i < j + n /\ t[j] = s[j + n]
      BY <1>1, <1>2
    <3> QED BY <1>5, <2>1, <2>3, <3>1 DEF Ascending
  <2> QED BY <2>2, <2>3 DEF Before, OpenIds
<1> QED BY <1>3, <1>4, <1>5 DEF t

\* A receive finds a command that was in the cache or on the wire, and the
\* ones it leaves are younger.
LEMMA ReceiveIds ==
  ASSUME wire \in Seq(Token), cache \in Seq(Token), Ascending(wire),
         NEW ok, NEW r, Receive(ok, r)
  PROVE  /\ OpenIds(cache') = {}
         /\ OpenIds(wire') \subseteq OpenIds(wire)
         /\ Ascending(wire')
         /\ r.obj.kind = "Open" =>
              \/ r.obj.of \in OpenIds(cache)
              \/ r.obj.of \in OpenIds(wire) /\ Before({r.obj.of}, OpenIds(wire'))
<1>1. cache' = <<>> /\ Len(<<>>) = 0 /\ OpenIds(cache') = {}
  BY DEF Receive, OpenIds
<1>2. Nothing.kind # "Open" /\ NoReply.obj.kind # "Open"
  BY DEF Nothing, NoReply
<1>3. ASSUME NEW s \in Seq(Token), Digest(s).obj.kind = "Open"
      PROVE  \E i \in 1..Len(s) : s[i].kind = "Open" /\ s[i].of = Digest(s).obj.of
  BY <1>2, <1>3 DEF Digest, FirstObject
<1>4. PICK w \in Skips(wire) :
        \/ CacheHit(cache) /\ r = FromCache(cache) /\ wire' = w
        \/ \E n \in 0..Len(w) : (ok => n > 0) /\ Chunk(w, n, ok, r) /\ wire' = SubSeq(w, n + 1, Len(w))
  BY DEF Receive
<1>5. w \in Seq(Token) /\ OpenIds(w) \subseteq OpenIds(wire) /\ Ascending(w)
  <2>1. CASE w = wire
    BY <2>1
  <2>2. CASE wire # <<>> /\ w = Tail(wire)
    <3>1. Tail(wire) \in Seq(Token)
      BY <2>2
    <3>2. OpenIds(Tail(wire)) \subseteq OpenIds(wire) /\ Ascending(Tail(wire))
      BY <2>2, TailIds
    <3> QED BY <2>2, <3>1, <3>2
  <2> QED BY <2>1, <2>2 DEF Skips
<1>6. CASE r = FromCache(cache) /\ wire' = w
  <2>1. r.obj.kind = "Open" => r.obj = Digest(cache).obj
    BY <1>2, <1>6 DEF FromCache, Digest
  <2>2. r.obj.kind = "Open" => r.obj.of \in OpenIds(cache)
    BY <1>3, <2>1 DEF OpenIds
  <2> QED BY <1>1, <1>5, <1>6, <2>2
<1>7. CASE \E n \in 0..Len(w) : (ok => n > 0) /\ Chunk(w, n, ok, r) /\ wire' = SubSeq(w, n + 1, Len(w))
  <2> PICK n \in 0..Len(w) : (ok => n > 0) /\ Chunk(w, n, ok, r) /\ wire' = SubSeq(w, n + 1, Len(w))
    BY <1>7
  <2>1. CASE n = 0
    <3>1. wire' = w
      BY <1>5, <2>1
    <3>2. r = NoReply
      BY <2>1 DEF Chunk
    <3> QED BY <1>1, <1>2, <1>5, <3>1, <3>2
  <2>2. CASE n \in 1..Len(w)
    <3>1. /\ OpenIds(wire') \subseteq OpenIds(w) /\ Ascending(wire')
          /\ \A i \in 1..n : w[i].kind = "Open" =>
               w[i].of \in OpenIds(w) /\ Before({w[i].of}, OpenIds(wire'))
      BY <1>5, <2>2, SuffixIds
    <3>2. r.obj.kind = "Open" => \E i \in 1..n : w[i].kind = "Open" /\ w[i].of = r.obj.of
      <4> DEFINE s == SubSeq(w, 1, n)
      <4>1. s \in Seq(Token) /\ Len(s) = n /\ \A i \in 1..n : s[i] = w[i]
        BY <1>5, <2>2
      <4> HIDE DEF s
      <4>2. r = NoReply \/ r \in Answers(s)
        BY DEF Chunk, s
      <4>3. r \in Answers(s) => r.obj = Nothing \/ r.obj = Digest(s).obj
        BY DEF Answers
      <4>4. CASE r.obj = Digest(s).obj
        BY <1>3, <4>1, <4>4
      <4> QED BY <1>2, <4>2, <4>3, <4>4
    <3>3. r.obj.kind = "Open" =>
            r.obj.of \in OpenIds(w) /\ Before({r.obj.of}, OpenIds(wire'))
      BY <3>1, <3>2
    <3> QED BY <1>1, <1>5, <3>1, <3>3
  <2> QED BY <2>1, <2>2
<1> QED BY <1>4, <1>6, <1>7

\* A message taken from the queue leaves the others as they were.
LEMMA WithoutLive ==
  ASSUME queue \in Seq(QMsg), NEW i \in 1..Len(queue), queue' = Without(queue, i)
  PROVE  /\ \A k \in LiveOpens' : \E j \in LiveOpens : j # i /\ queue'[k] = queue[j]
         /\ (\A j, k \in LiveOpens : j = k) => \A j, k \in LiveOpens' : j = k
         /\ \A k \in 1..Len(queue') : \E j \in 1..Len(queue) : queue'[k] = queue[j]
<1> DEFINE at(k) == IF k < i THEN k ELSE k + 1
<1>1. /\ Len(queue) \in Nat /\ i \in Nat
      /\ queue' = [k \in 1..(Len(queue) - 1) |-> IF k < i THEN queue[k] ELSE queue[k + 1]]
  BY DEF Without
<1>2. Len(queue') = Len(queue) - 1
  BY <1>1
<1>3. \A k \in 1..Len(queue') : /\ at(k) \in 1..Len(queue) /\ at(k) # i
                               /\ queue'[k] = queue[at(k)]
  BY <1>1, <1>2
<1>4. \A j, k \in 1..Len(queue') : at(j) = at(k) => j = k
  BY <1>1, <1>2
<1> HIDE DEF at
<1>5. \A k \in LiveOpens' : k \in 1..Len(queue') /\ at(k) \in LiveOpens
  BY <1>3 DEF LiveOpens
<1> QED BY <1>3, <1>4, <1>5

\* A message added to the queue: only a live command changes LiveOpens.
LEMMA SendLive ==
  ASSUME queue \in Seq(QMsg), NEW m \in QMsg, MsgSnd(m)
  PROVE  /\ \A k \in LiveOpens' : \/ k \in LiveOpens /\ queue'[k] = queue[k]
                                 \/ /\ k = Len(queue) + 1 /\ queue'[k] = m
                                    /\ m.mtype = OPEN_DOOR_TYPE /\ m.text = "Open"
         /\ \A k \in 1..Len(queue') : (k \in 1..Len(queue) /\ queue'[k] = queue[k])
                                     \/ queue'[k] = m
<1>1. CASE queue' = Append(queue, m)
  <2>1. /\ Len(queue') = Len(queue) + 1 /\ Len(queue) \in Nat
        /\ \A k \in 1..Len(queue) : queue'[k] = queue[k]
        /\ queue'[Len(queue) + 1] = m
    BY <1>1
  <2>2. \A k \in 1..Len(queue') : k \in 1..Len(queue) \/ k = Len(queue) + 1
    BY <2>1
  <2> QED BY <2>1, <2>2 DEF LiveOpens
<1>2. CASE queue' = queue
  BY <1>2 DEF LiveOpens
<1> QED BY <1>1, <1>2 DEF MsgSnd

\* An assignment to a string of main ends every published command, one to
\* the sensor's string none.
LEMMA ReassignLive ==
  ASSUME queue \in Seq(QMsg), hand \in QMsg, NEW types, Reassign(types)
  PROVE  /\ \A k \in LiveOpens' : k \in LiveOpens /\ queue'[k] = queue[k]
         /\ types = MainTypes => LiveOpens' = {}
         /\ hand'.text = hand.text /\ hand'.of = hand.of /\ hand'.mtype = hand.mtype
         /\ hand'.live => hand.live
         /\ types = MainTypes /\ hand'.live => hand.mtype = CLOSE_DOOR_TYPE
         /\ \A k \in 1..Len(queue') : /\ k \in 1..Len(queue)
                                     /\ queue'[k].mtype = queue[k].mtype
                                     /\ queue'[k].text = queue[k].text
<1>1. \A m \in QMsg : LET e == Expired(m, types) IN
        /\ e.mtype = m.mtype /\ e.text = m.text /\ e.of = m.of
        /\ e.live => m.live /\ e = m
        /\ e.live => m.mtype \notin types
  BY DEF Expired, QMsg
<1>2. /\ Len(queue') = Len(queue)
      /\ \A k \in 1..Len(queue) : queue[k] \in QMsg /\ queue'[k] = Expired(queue[k], types)
  BY DEF Reassign
<1>3. hand' = Expired(hand, types)
  BY DEF Reassign
<1>4. \A k \in LiveOpens' : k \in LiveOpens /\ queue'[k] = queue[k]
  BY <1>1, <1>2 DEF LiveOpens
<1>5. types = MainTypes => LiveOpens' = {}
  <2> SUFFICES ASSUME types = MainTypes, NEW k \in LiveOpens' PROVE FALSE
    OBVIOUS
  <2>1. k \in 1..Len(queue) /\ queue'[k].live /\ queue'[k].mtype = OPEN_DOOR_TYPE
    BY <1>2 DEF LiveOpens
  <2>2. queue[k].mtype \notin types /\ queue[k].mtype = OPEN_DOOR_TYPE
    BY <1>1, <1>2, <2>1
  <2> QED BY <2>2 DEF MainTypes
<1>6. types = MainTypes /\ hand'.live => hand.mtype = CLOSE_DOOR_TYPE
  BY <1>1, <1>3 DEF MainTypes, QMsg
<1> QED BY <1>1, <1>2, <1>3, <1>4, <1>5, <1>6

-----------------------------------------------------------------------------
OrderInv == CommandOrder /\ OneLiveCommand

\* A step that moves no command on keeps the order.
LEMMA NothingMoves ==
  ASSUME CommandOrder, opens \in Nat, opens' \in Nat, opens <= opens',
         used' = used, PendingIds' \subseteq PendingIds, ReplyIds' \subseteq ReplyIds,
         OpenIds(cache') \subseteq OpenIds(cache), OpenIds(wire') \subseteq OpenIds(wire),
         Ascending(wire')
  PROVE  CommandOrder'
<1>1. Chain(used', PendingIds', ReplyIds', OpenIds(cache'), OpenIds(wire'))
  BY ChainShrinks DEF CommandOrder
<1> QED BY <1>1 DEF CommandOrder

\* The same for a step that leaves the serial input and the cache alone.
LEMMA InputStays ==
  ASSUME CommandOrder, opens \in Nat, opens' = opens, wire' = wire, cache' = cache,
         used' = used, PendingIds' \subseteq PendingIds, ReplyIds' \subseteq ReplyIds
  PROVE  CommandOrder'
BY NothingMoves DEF CommandOrder

\* A step that neither publishes nor takes a message.
LEMMA QueueStays ==
  ASSUME OneLiveCommand, queue' = queue, hand' = hand, HandIds' \subseteq HandIds,
         pcMain' = "sendOpen" => pcMain = "sendOpen"
  PROVE  OneLiveCommand' /\ PendingIds' \subseteq PendingIds
<1>1. LiveOpens' = LiveOpens
  BY DEF LiveOpens
<1> QED BY <1>1 DEF OneLiveCommand, PendingIds

\* A step that leaves the queue and the input alone and only moves threads.
LEMMA QuietStep ==
  ASSUME OrderInv, opens \in Nat, opens' = opens, wire' = wire, cache' = cache,
         used' = used, queue' = queue, hand' = hand,
         pcMain' \in {"dispatch", "sendOpen"} => pcMain' = pcMain /\ reply' = reply,
         pcMsg' \in {"analyse", "confirm"} => pcMsg \in {"analyse", "confirm"}
  PROVE  OrderInv'
<1>1. HandIds' \subseteq HandIds /\ ReplyIds' \subseteq ReplyIds
  BY DEF HandIds, ReplyIds
<1>2. OneLiveCommand' /\ PendingIds' \subseteq PendingIds
  BY <1>1, QueueStays DEF OrderInv
<1> QED BY <1>1, <1>2, InputStays DEF OrderInv

\* Main receives: a command goes from the cache or the input to main.
LEMMA MainRecvOrder ==
  ASSUME TypeOK, OrderInv, MainRecv
  PROVE  OrderInv'
<1>1. PICK ok \in BOOLEAN, r \in Results(cache, wire) :
        /\ Receive(ok, r)
        /\ ok => reply' = r
        /\ pcMain' = "dispatch" => ok
        /\ pcMain' # "sendOpen"
  BY DEF MainRecv
<1>2. /\ OpenIds(cache') = {} /\ OpenIds(wire') \subseteq OpenIds(wire)
      /\ Ascending(wire')
      /\ r.obj.kind = "Open" =>
           \/ r.obj.of \in OpenIds(cache)
           \/ r.obj.of \in OpenIds(wire) /\ Before({r.obj.of}, OpenIds(wire'))
  BY <1>1, ReceiveIds DEF TypeOK, StateOK, OrderInv, CommandOrder
<1>3. ReplyIds' = {} \/ (r.obj.kind = "Open" /\ ReplyIds' = {r.obj.of})
  BY <1>1 DEF ReplyIds
<1>4. opens' = opens /\ used' = used /\ queue' = queue /\ hand' = hand /\ pcMsg' = pcMsg
  BY DEF MainRecv, msgVars, history
<1>5. HandIds' \subseteq HandIds
  BY <1>4 DEF HandIds
<1>6. OneLiveCommand' /\ PendingIds' \subseteq PendingIds
  BY <1>1, <1>4, <1>5, QueueStays DEF OrderInv
<1>7. Chain(used', PendingIds', ReplyIds', OpenIds(cache'), OpenIds(wire'))
  <2>1. Chain(used, PendingIds, {}, {}, OpenIds(wire'))
    BY <1>2, ChainShrinks DEF OrderInv, CommandOrder
  <2>2. r.obj.kind = "Open" => Chain(used, PendingIds, {r.obj.of}, {}, OpenIds(wire'))
    BY <1>2 DEF OrderInv, CommandOrder, Chain, Before
  <2> QED BY <1>2, <1>3, <1>4, <1>6, <2>1, <2>2, ChainShrinks
<1>8. used' \cup PendingIds' \cup ReplyIds' \cup OpenIds(cache') \cup OpenIds(wire')
        \subseteq 1..opens'
  BY <1>2, <1>3, <1>4, <1>6 DEF OrderInv, CommandOrder
<1> QED BY <1>2, <1>6, <1>7, <1>8 DEF OrderInv, CommandOrder

\* Main assigns mes_buf.mtext: what it had published is no longer live.
LEMMA MainAssigns ==
  ASSUME TypeOK, OrderInv, Reassign(MainTypes), pcMsg' = pcMsg,
         opens' = opens, wire' = wire, cache' = cache, used' = used,
         ReplyIds' \subseteq ReplyIds
  PROVE  OrderInv'
<1>1. /\ LiveOpens' = {} /\ hand'.text = hand.text /\ hand'.mtype = hand.mtype
      /\ hand'.live => hand.mtype = CLOSE_DOOR_TYPE
      /\ \A k \in 1..Len(queue') : /\ k \in 1..Len(queue)
                                  /\ queue'[k].mtype = queue[k].mtype
                                  /\ queue'[k].text = queue[k].text
  BY ReassignLive DEF TypeOK, StateOK
<1>2. HandIds' = {}
  BY <1>1 DEF HandIds, OrderInv, OneLiveCommand
<1>3. PendingIds' = {}
  BY <1>1, <1>2 DEF PendingIds
<1>4. OneLiveCommand'
  BY <1>1, <1>2 DEF OrderInv, OneLiveCommand
<1> QED BY <1>3, <1>4, InputStays DEF OrderInv, TypeOK, StateOK

LEMMA MainDispatchOrder ==
  ASSUME TypeOK, OrderInv, MainDispatch
  PROVE  OrderInv'
<1>1. /\ opens' = opens /\ wire' = wire /\ cache' = cache /\ used' = used
      /\ reply' = reply /\ pcMain = "dispatch" /\ pcMsg' = pcMsg
  BY DEF MainDispatch, netVars, history
<1>2. ReplyIds' \subseteq ReplyIds
  BY <1>1 DEF ReplyIds
<1>3. CASE Reassign(MainTypes)
  BY <1>1, <1>2, <1>3, MainAssigns
<1>4. CASE queue' = queue /\ hand' = hand /\ pcMain' = "heart?"
  BY <1>1, <1>4, QuietStep DEF TypeOK, StateOK
<1> QED BY <1>3, <1>4 DEF MainDispatch

LEMMA MainHeartOrder ==
  ASSUME TypeOK, OrderInv, MainHeart
  PROVE  OrderInv'
<1>1. /\ opens' = opens /\ wire' = wire /\ cache' = cache /\ used' = used
      /\ pcMain' \notin {"dispatch", "sendOpen"} /\ pcMsg' = pcMsg
  BY DEF MainHeart, netVars, history
<1>2. ReplyIds' \subseteq ReplyIds
  BY <1>1 DEF ReplyIds
<1>3. CASE Reassign(MainTypes)
  BY <1>1, <1>2, <1>3, MainAssigns
<1>4. CASE queue' = queue /\ hand' = hand
  BY <1>1, <1>4, QuietStep DEF TypeOK, StateOK
<1> QED BY <1>3, <1>4 DEF MainHeart

\* The command main holds becomes the one that is pending.
LEMMA MainSendOpenOrder ==
  ASSUME TypeOK, OrderInv, MainSendOpen
  PROVE  OrderInv'
<1> DEFINE m == Published(OPEN_DOOR_TYPE)
<1>1. /\ opens' = opens /\ wire' = wire /\ cache' = cache /\ used' = used
      /\ hand' = hand /\ pcMsg' = pcMsg /\ pcMain = "sendOpen" /\ pcMain' = "nap"
      /\ MsgSnd(m)
  BY DEF MainSendOpen, netVars, history, msgVars
<1>2. m \in QMsg /\ m.mtype = OPEN_DOOR_TYPE /\ m.text = reply.obj.kind /\ m.of = reply.obj.of
  BY PublishedType DEF TypeOK, StateOK, Published
<1> HIDE DEF m
<1>3. HandIds = {} /\ LiveOpens = {} /\ HandIds' = {} /\ ReplyIds' = {}
  BY <1>1 DEF OrderInv, OneLiveCommand, HandIds, ReplyIds
<1>4. /\ \A k \in LiveOpens' : /\ k = Len(queue) + 1 /\ queue'[k] = m
                              /\ m.mtype = OPEN_DOOR_TYPE /\ m.text = "Open"
      /\ \A k \in 1..Len(queue') : (k \in 1..Len(queue) /\ queue'[k] = queue[k])
                                  \/ queue'[k] = m
  BY <1>1, <1>2, <1>3, SendLive DEF TypeOK, StateOK
<1>5. OneLiveCommand'
  <2>1. OPEN_DOOR_TYPE # CLOSE_DOOR_TYPE
    BY DEF OPEN_DOOR_TYPE, CLOSE_DOOR_TYPE
  <2> QED BY <1>1, <1>2, <1>3, <1>4, <2>1 DEF OrderInv, OneLiveCommand
<1>6. PendingIds' \subseteq ReplyIds
  BY <1>1, <1>2, <1>3, <1>4 DEF PendingIds, ReplyIds
<1>7. Chain(used, ReplyIds, {}, OpenIds(cache), OpenIds(wire))
  BY DEF OrderInv, CommandOrder, Chain, Before
<1>8. Chain(used', PendingIds', ReplyIds', OpenIds(cache'), OpenIds(wire'))
  BY <1>1, <1>3, <1>6, <1>7, ChainShrinks
<1> QED BY <1>1, <1>3, <1>5, <1>6, <1>8 DEF OrderInv, CommandOrder

\* Publishing anything but a command leaves the pending commands alone.
LEMMA OtherSendOrder ==
  ASSUME TypeOK, OrderInv, NEW m \in QMsg, MsgSnd(m), m.mtype # OPEN_DOOR_TYPE,
         m.mtype = CLOSE_DOOR_TYPE => m.text = "Close",
         hand' = hand, pcMsg' = pcMsg, pcMain' # "sendOpen", ReplyIds' \subseteq ReplyIds,
         opens' = opens, wire' = wire, cache' = cache, used' = used
  PROVE  OrderInv'
<1>1. /\ \A k \in LiveOpens' : k \in LiveOpens /\ queue'[k] = queue[k]
      /\ \A k \in 1..Len(queue') : (k \in 1..Len(queue) /\ queue'[k] = queue[k])
                                  \/ queue'[k] = m
  BY SendLive DEF TypeOK, StateOK
<1>2. HandIds' = HandIds
  BY DEF HandIds
<1>3. PendingIds' \subseteq PendingIds
  BY <1>1, <1>2 DEF PendingIds
<1>4. OneLiveCommand'
  BY <1>1, <1>2 DEF OrderInv, OneLiveCommand
<1> QED BY <1>3, <1>4, InputStays DEF OrderInv, TypeOK, StateOK

LEMMA MainSendHeartOrder ==
  ASSUME TypeOK, OrderInv, MainSendHeart
  PROVE  OrderInv'
<1>1. /\ opens' = opens /\ wire' = wire /\ cache' = cache /\ used' = used
      /\ hand' = hand /\ pcMsg' = pcMsg /\ pcMain' = "napHeart"
      /\ MsgSnd(Published(HEART_TYPE))
  BY DEF MainSendHeart, netVars, history, msgVars
<1>2. Published(HEART_TYPE) \in QMsg /\ Published(HEART_TYPE).mtype = HEART_TYPE
  BY PublishedType DEF TypeOK, StateOK, Published
<1>3. HEART_TYPE # OPEN_DOOR_TYPE /\ HEART_TYPE # CLOSE_DOOR_TYPE
  BY DEF HEART_TYPE, OPEN_DOOR_TYPE, CLOSE_DOOR_TYPE
<1>4. ReplyIds' \subseteq ReplyIds
  BY <1>1 DEF ReplyIds
<1> QED BY <1>1, <1>2, <1>3, <1>4, OtherSendOrder

LEMMA SensorSendOrder ==
  ASSUME TypeOK, OrderInv, SensorSend
  PROVE  OrderInv'
<1> DEFINE m == [mtype |-> CLOSE_DOOR_TYPE, text |-> "Close", of |-> 0, live |-> TRUE]
<1>1. /\ opens' = opens /\ wire' = wire /\ cache' = cache /\ used' = used
      /\ hand' = hand /\ pcMsg' = pcMsg /\ pcMain' = pcMain /\ reply' = reply /\ MsgSnd(m)
  BY DEF SensorSend, netVars, history, msgVars, mainVars
<1>2. m \in QMsg /\ m.mtype # OPEN_DOOR_TYPE /\ m.text = "Close"
  BY DEF QMsg, CLOSE_DOOR_TYPE, OPEN_DOOR_TYPE
<1> HIDE DEF m
<1>3. ReplyIds' \subseteq ReplyIds
  BY <1>1 DEF ReplyIds
<1>4. CASE pcMain = "sendOpen"
  <2>1. /\ \A k \in LiveOpens' : k \in LiveOpens
        /\ \A k \in 1..Len(queue') : (k \in 1..Len(queue) /\ queue'[k] = queue[k])
                                    \/ queue'[k] = m
    BY <1>1, <1>2, SendLive DEF TypeOK, StateOK
  <2>2. HandIds' = HandIds /\ LiveOpens' = {} /\ HandIds = {}
    BY <1>1, <1>4, <2>1 DEF HandIds, OrderInv, OneLiveCommand
  <2>3. OneLiveCommand' /\ PendingIds' = {}
    BY <1>1, <1>2, <2>1, <2>2 DEF OrderInv, OneLiveCommand, PendingIds
  <2> QED BY <1>1, <1>3, <2>3, InputStays DEF OrderInv, TypeOK, StateOK
<1>5. CASE pcMain # "sendOpen"
  BY <1>1, <1>2, <1>3, <1>5, OtherSendOrder
<1> QED BY <1>4, <1>5

\* The sensor thread's own string is not main's: no command loses its text.
LEMMA SensorPollOrder ==
  ASSUME TypeOK, OrderInv, SensorPoll
  PROVE  OrderInv'
<1>1. /\ opens' = opens /\ wire' = wire /\ cache' = cache /\ used' = used
      /\ pcMsg' = pcMsg /\ pcMain' = pcMain /\ reply' = reply
      /\ Reassign({CLOSE_DOOR_TYPE})
  BY DEF SensorPoll, netVars, history, mainVars
<1>2. /\ \A k \in LiveOpens' : k \in LiveOpens /\ queue'[k] = queue[k]
      /\ hand'.text = hand.text /\ hand'.of = hand.of /\ hand'.mtype = hand.mtype
      /\ hand'.live => hand.live
      /\ \A k \in 1..Len(queue') : /\ k \in 1..Len(queue)
                                  /\ queue'[k].mtype = queue[k].mtype
                                  /\ queue'[k].text = queue[k].text
  BY <1>1, ReassignLive DEF TypeOK, StateOK
<1>3. HandIds' \subseteq HandIds /\ ReplyIds' \subseteq ReplyIds
  BY <1>1, <1>2 DEF HandIds, ReplyIds
<1>4. PendingIds' \subseteq PendingIds
  BY <1>2, <1>3 DEF PendingIds
<1>5. OneLiveCommand'
  BY <1>1, <1>2, <1>3 DEF OrderInv, OneLiveCommand
<1> QED BY <1>1, <1>3, <1>4, <1>5, InputStays DEF OrderInv, TypeOK, StateOK

\* A step that empties the queue, or takes a message nobody reads.
LEMMA MainDeleteOrder ==
  ASSUME TypeOK, OrderInv, MainDelete
  PROVE  OrderInv'
<1>1. /\ opens' = opens /\ wire' = wire /\ cache' = cache /\ used' = used
      /\ hand' = hand /\ pcMsg' = pcMsg /\ pcMain' = "exit" /\ queue' = <<>>
  BY DEF MainDelete, netVars, history, msgVars
<1>2. LiveOpens' = {} /\ Len(queue') = 0
  BY <1>1 DEF LiveOpens
<1>3. HandIds' = HandIds /\ ReplyIds' = {}
  BY <1>1 DEF HandIds, ReplyIds
<1>4. PendingIds' \subseteq PendingIds
  BY <1>2, <1>3 DEF PendingIds
<1>5. OneLiveCommand'
  BY <1>1, <1>2, <1>3 DEF OrderInv, OneLiveCommand
<1> QED BY <1>1, <1>3, <1>4, <1>5, InputStays DEF OrderInv, TypeOK, StateOK

LEMMA HeartRcvOrder ==
  ASSUME TypeOK, OrderInv, HeartRcv
  PROVE  OrderInv'
<1>1. PICK i \in Chosen(queue, HEART_TYPE) : queue' = Without(queue, i)
  BY DEF HeartRcv
<1>2. /\ opens' = opens /\ wire' = wire /\ cache' = cache /\ used' = used
      /\ hand' = hand /\ pcMsg' = pcMsg /\ pcMain' = pcMain /\ reply' = reply
  BY DEF HeartRcv, netVars, history, msgVars, mainVars
<1>3. i \in 1..Len(queue)
  BY <1>1, ChosenInQueue
<1>4. /\ \A k \in LiveOpens' : \E j \in LiveOpens : j # i /\ queue'[k] = queue[j]
      /\ (\A j, k \in LiveOpens : j = k) => \A j, k \in LiveOpens' : j = k
      /\ \A k \in 1..Len(queue') : \E j \in 1..Len(queue) : queue'[k] = queue[j]
  BY <1>1, <1>3, WithoutLive DEF TypeOK, StateOK
<1>5. HandIds' = HandIds /\ ReplyIds' = ReplyIds
  BY <1>2 DEF HandIds, ReplyIds
<1>6. PendingIds' \subseteq PendingIds
  BY <1>4, <1>5 DEF PendingIds
<1>7. OneLiveCommand'
  BY <1>2, <1>4, <1>5 DEF OrderInv, OneLiveCommand
<1> QED BY <1>2, <1>5, <1>6, <1>7, InputStays DEF OrderInv, TypeOK, StateOK

\* The message thread takes a message: a live command goes with it.
LEMMA MsgRcvOrder ==
  ASSUME TypeOK, OrderInv, MsgRcv
  PROVE  OrderInv'
<1>1. PICK i \in Chosen(queue, -IMAGE_TYPE) : hand' = queue[i] /\ queue' = Without(queue, i)
  BY DEF MsgRcv
<1>2. /\ opens' = opens /\ wire' = wire /\ cache' = cache /\ used' = used
      /\ pcMsg = "rcv" /\ pcMsg' = "analyse" /\ pcMain' = pcMain /\ reply' = reply
  BY DEF MsgRcv, netVars, history, mainVars
<1>3. i \in 1..Len(queue) /\ queue[i] \in QMsg
  BY <1>1, ChosenInQueue DEF TypeOK, StateOK
<1>4. /\ \A k \in LiveOpens' : \E j \in LiveOpens : j # i /\ queue'[k] = queue[j]
      /\ (\A j, k \in LiveOpens : j = k) => \A j, k \in LiveOpens' : j = k
      /\ \A k \in 1..Len(queue') : \E j \in 1..Len(queue) : queue'[k] = queue[j]
  BY <1>1, <1>3, WithoutLive DEF TypeOK, StateOK
<1>5. queue[i].mtype \in {OPEN_DOOR_TYPE, CLOSE_DOOR_TYPE}
  <2>1. queue[i].mtype <= 5
    BY <1>1 DEF Chosen, Eligible, IMAGE_TYPE
  <2> QED BY <1>3, <2>1 DEF QMsg, HEART_TYPE
<1>6. HandIds' # {} => i \in LiveOpens /\ HandIds' = {queue[i].of}
  BY <1>1, <1>2, <1>3, <1>5 DEF HandIds, LiveOpens, OrderInv, OneLiveCommand
<1>7. PendingIds' \subseteq PendingIds /\ ReplyIds' = ReplyIds
  <2>1. HandIds' \subseteq PendingIds
    BY <1>6 DEF PendingIds
  <2>2. \A k \in LiveOpens' : queue'[k].of \in PendingIds
    BY <1>4 DEF PendingIds
  <2>3. ReplyIds' = ReplyIds
    BY <1>2 DEF ReplyIds
  <2> QED BY <2>1, <2>2, <2>3 DEF PendingIds
<1>8. OneLiveCommand'
  <2>1. \A j, k \in LiveOpens' : j = k
    BY <1>4 DEF OrderInv, OneLiveCommand
  <2>2. HandIds' # {} => LiveOpens' = {}
    BY <1>4, <1>6 DEF OrderInv, OneLiveCommand
  <2>3. pcMain' = "sendOpen" => HandIds' = {} /\ LiveOpens' = {}
    BY <1>2, <1>4, <1>6 DEF OrderInv, OneLiveCommand
  <2>4. \A k \in 1..Len(queue') :
          queue'[k].mtype = CLOSE_DOOR_TYPE => queue'[k].text = "Close"
    BY <1>4 DEF OrderInv, OneLiveCommand
  <2>5. hand'.mtype = CLOSE_DOOR_TYPE => hand'.text = "Close"
    BY <1>1, <1>3 DEF OrderInv, OneLiveCommand
  <2> QED BY <2>1, <2>2, <2>3, <2>4, <2>5 DEF OneLiveCommand
<1> QED BY <1>2, <1>7, <1>8, InputStays DEF OrderInv, TypeOK, StateOK

\* The pending command is used up.
LEMMA MsgConfirmOrder ==
  ASSUME TypeOK, OrderInv, MsgConfirm
  PROVE  OrderInv'
<1>1. /\ opens' = opens /\ wire' = wire /\ cache' = cache /\ queue' = queue
      /\ hand' = hand /\ pcMain' = pcMain /\ reply' = reply /\ pcMsg = "confirm"
      /\ pcMsg' \notin {"analyse", "confirm"}
  BY DEF MsgConfirm, netVars, mainVars
<1>2. used' = used \/ (HandIds = {hand.of} /\ used' = used \cup {hand.of})
  BY <1>1 DEF MsgConfirm, Read, HandIds
<1>3. HandIds' = {} /\ ReplyIds' = ReplyIds /\ LiveOpens' = LiveOpens
  BY <1>1 DEF HandIds, ReplyIds, LiveOpens
<1>4. OneLiveCommand'
  BY <1>1, <1>3 DEF OrderInv, OneLiveCommand
<1>5. CASE used' = used
  BY <1>1, <1>3, <1>4, <1>5, QuietStep DEF TypeOK, StateOK
<1>6. CASE HandIds = {hand.of} /\ used' = used \cup {hand.of}
  <2>1. PendingIds' = {} /\ hand.of \in PendingIds
    BY <1>1, <1>3, <1>6 DEF PendingIds, OrderInv, OneLiveCommand
  <2>2. Chain(used \cup {hand.of}, {}, ReplyIds, OpenIds(cache), OpenIds(wire))
    BY <2>1 DEF OrderInv, CommandOrder, Chain, Before
  <2>3. CommandOrder'
    BY <1>1, <1>3, <1>6, <2>1, <2>2 DEF OrderInv, CommandOrder
  <2> QED BY <1>4, <2>3 DEF OrderInv
<1> QED BY <1>2, <1>5, <1>6

\* A command received while a report waits for its verdict is thrown away.
LEMMA MsgCloseRecvOrder ==
  ASSUME TypeOK, OrderInv, MsgCloseRecv
  PROVE  OrderInv'
<1>1. /\ opens' = opens /\ used' = used /\ queue' = queue /\ hand' = hand
      /\ pcMain' = pcMain /\ reply' = reply /\ pcMsg' \notin {"analyse", "confirm"}
  BY DEF MsgCloseRecv, mainVars
<1>2. PICK ok \in BOOLEAN, r \in Results(cache, wire) : Receive(ok, r)
  BY DEF MsgCloseRecv
<1>3. /\ OpenIds(cache') = {} /\ OpenIds(wire') \subseteq OpenIds(wire)
      /\ Ascending(wire')
  BY <1>2, ReceiveIds DEF TypeOK, StateOK, OrderInv, CommandOrder
<1>4. HandIds' = {} /\ ReplyIds' = ReplyIds
  BY <1>1 DEF HandIds, ReplyIds
<1>5. OneLiveCommand' /\ PendingIds' \subseteq PendingIds
  BY <1>1, <1>4, QueueStays DEF OrderInv
<1>6. CommandOrder'
  BY <1>1, <1>3, <1>4, <1>5, NothingMoves DEF OrderInv, TypeOK, StateOK
<1> QED BY <1>5, <1>6 DEF OrderInv

\* A dialogue moves the oldest message of the input to the cache, or loses it.
LEMMA ModemReadsOrder ==
  ASSUME TypeOK, OrderInv, ModemReads
  PROVE  OrderInv'
<1> DEFINE h == Head(wire)
<1>1. /\ opens' = opens /\ used' = used /\ queue' = queue /\ hand' = hand
      /\ pcMain' = pcMain /\ reply' = reply /\ pcMsg' = pcMsg
      /\ wire # <<>> /\ wire' = Tail(wire)
      /\ cache' \in Passed(cache, h) \cup Raced(cache, h)
  BY DEF ModemReads, mainVars, msgVars, history
<1>2. /\ wire \in Seq(Token) /\ cache \in Seq(Token) /\ h \in Token /\ opens \in Nat
      /\ Garbled \in Token /\ Garbled.kind # "Open"
  <2>1. Garbled \in Token /\ Garbled.kind # "Open"
    BY DEF Garbled, Token, Kinds
  <2> QED BY <1>1, <2>1 DEF TypeOK, StateOK
<1>3. /\ OpenIds(wire') \subseteq OpenIds(wire) /\ Ascending(wire')
      /\ h.kind = "Open" => h.of \in OpenIds(wire) /\ Before({h.of}, OpenIds(wire'))
  BY <1>1, <1>2, TailIds DEF OrderInv, CommandOrder
<1> HIDE DEF h
<1>4. HandIds' \subseteq HandIds /\ ReplyIds' \subseteq ReplyIds
  BY <1>1 DEF HandIds, ReplyIds
<1>5. OneLiveCommand' /\ PendingIds' \subseteq PendingIds
  BY <1>1, <1>4, QueueStays DEF OrderInv
<1>6. CASE cache' = cache
  <2>1. CommandOrder'
    BY <1>1, <1>2, <1>3, <1>4, <1>5, <1>6, NothingMoves DEF OrderInv, CommandOrder
  <2> QED BY <1>5, <2>1 DEF OrderInv
<1>7. CASE cache' = Append(cache, h) \/ cache' \in Raced(cache, h)
  <2> DEFINE moved == IF h.kind = "Open" THEN {h.of} ELSE {}
  <2>2. OpenIds(cache') \subseteq OpenIds(cache) \cup moved
    BY <1>2, <1>7, AppendIds, RacedIds
  <2>3. moved \subseteq OpenIds(wire) /\ Before(moved, OpenIds(wire'))
    BY <1>3 DEF Before
  <2> HIDE DEF moved
  <2>4. Chain(used, PendingIds, ReplyIds, OpenIds(cache) \cup moved, OpenIds(wire'))
    BY <1>3, <2>3 DEF OrderInv, CommandOrder, Chain, Before
  <2>5. Chain(used', PendingIds', ReplyIds', OpenIds(cache'), OpenIds(wire'))
    BY <1>1, <1>4, <1>5, <2>2, <2>4, ChainShrinks
  <2>6. used' \cup PendingIds' \cup ReplyIds' \cup OpenIds(cache') \cup OpenIds(wire')
          \subseteq 1..opens'
    BY <1>1, <1>3, <1>4, <1>5, <2>2, <2>3 DEF OrderInv, CommandOrder
  <2> QED BY <1>3, <1>5, <2>2, <2>5, <2>6 DEF OrderInv, CommandOrder
<1>8. CASE cache' = Append(cache, Garbled)
  <2>1. OpenIds(cache') \subseteq OpenIds(cache) \cup {}
    BY <1>2, <1>8, AppendIds
  <2>2. Chain(used', PendingIds', ReplyIds', OpenIds(cache'), OpenIds(wire'))
    BY <1>1, <1>3, <1>4, <1>5, <2>1, ChainShrinks DEF OrderInv, CommandOrder
  <2>3. used' \cup PendingIds' \cup ReplyIds' \cup OpenIds(cache') \cup OpenIds(wire')
          \subseteq 1..opens'
    BY <1>1, <1>3, <1>4, <1>5, <2>1 DEF OrderInv, CommandOrder
  <2> QED BY <1>3, <1>5, <2>1, <2>2, <2>3 DEF OrderInv, CommandOrder
<1> QED BY <1>1, <1>6, <1>7, <1>8 DEF Passed

\* The server's next command is younger than all the others.
LEMMA ServerSendsOrder ==
  ASSUME TypeOK, OrderInv, ServerSends
  PROVE  OrderInv'
<1>1. PICK kind \in ServerKinds :
        /\ opens' = IF kind = "Open" THEN opens + 1 ELSE opens
        /\ wire' = Append(wire, [kind |-> kind, of |-> IF kind = "Open" THEN opens' ELSE 0])
  BY DEF ServerSends
<1> DEFINE tok == [kind |-> kind, of |-> IF kind = "Open" THEN opens' ELSE 0]
           new == IF tok.kind = "Open" THEN {tok.of} ELSE {}
<1>2. /\ used' = used /\ queue' = queue /\ hand' = hand /\ cache' = cache
      /\ pcMain' = pcMain /\ reply' = reply /\ pcMsg' = pcMsg
  BY DEF ServerSends, mainVars, msgVars
<1>3. opens \in Nat /\ tok \in Token /\ wire \in Seq(Token) /\ opens <= opens'
  BY <1>1, ConstantsOK DEF TypeOK, StateOK, Token, Kinds
<1>4. new = {} \/ (new = {opens + 1} /\ opens' = opens + 1)
  BY <1>1, <1>3
<1>5. /\ tok.kind = "Open" => Before(OpenIds(wire), {tok.of})
      /\ wire' = Append(wire, tok)
  BY <1>1, <1>3 DEF OrderInv, CommandOrder, Before
<1> HIDE DEF tok
<1>6. OpenIds(wire') \subseteq OpenIds(wire) \cup new /\ Ascending(wire')
  BY <1>3, <1>5, AppendIds DEF OrderInv, CommandOrder
<1> HIDE DEF new
<1>7. HandIds' \subseteq HandIds /\ ReplyIds' \subseteq ReplyIds
  BY <1>2 DEF HandIds, ReplyIds
<1>8. OneLiveCommand' /\ PendingIds' \subseteq PendingIds
  BY <1>2, <1>7, QueueStays DEF OrderInv
<1>9. Chain(used, PendingIds, ReplyIds, OpenIds(cache), OpenIds(wire) \cup new)
  BY <1>3, <1>4 DEF OrderInv, CommandOrder, Chain, Before
<1>10. Chain(used', PendingIds', ReplyIds', OpenIds(cache'), OpenIds(wire'))
  BY <1>2, <1>6, <1>7, <1>8, <1>9, ChainShrinks
<1>11. used' \cup PendingIds' \cup ReplyIds' \cup OpenIds(cache') \cup OpenIds(wire')
         \subseteq 1..opens'
  <2>0. opens' \in Nat
    BY <1>1, <1>3
  <2>1. 1..opens \subseteq 1..opens' /\ new \subseteq 1..opens'
    BY <1>3, <1>4, <2>0
  <2> QED BY <1>2, <1>6, <1>7, <1>8, <2>1 DEF OrderInv, CommandOrder
<1> QED BY <1>2, <1>6, <1>8, <1>10, <1>11 DEF OrderInv, CommandOrder

LEMMA ServerAnswersOrder ==
  ASSUME TypeOK, OrderInv, ServerAnswers
  PROVE  OrderInv'
<1>1. PICK kind \in {"Ack", "Nack"} : wire' = Append(wire, [kind |-> kind, of |-> Head(todo)])
  BY DEF ServerAnswers
<1> DEFINE tok == [kind |-> kind, of |-> Head(todo)]
<1>2. /\ used' = used /\ queue' = queue /\ hand' = hand /\ cache' = cache /\ opens' = opens
      /\ pcMain' = pcMain /\ reply' = reply /\ pcMsg' = pcMsg
  BY DEF ServerAnswers, mainVars, msgVars, history
<1>3. tok \in Token /\ tok.kind # "Open" /\ wire \in Seq(Token) /\ opens \in Nat
  BY DEF ServerAnswers, TypeOK, StateOK, Token, Kinds
<1>4. wire' = Append(wire, tok)
  BY <1>1
<1> HIDE DEF tok
<1>5. OpenIds(wire') \subseteq OpenIds(wire) /\ Ascending(wire')
  BY <1>3, <1>4, AppendIds DEF OrderInv, CommandOrder
<1>6. HandIds' \subseteq HandIds /\ ReplyIds' \subseteq ReplyIds
  BY <1>2 DEF HandIds, ReplyIds
<1>7. OneLiveCommand' /\ PendingIds' \subseteq PendingIds
  BY <1>2, <1>6, QueueStays DEF OrderInv
<1>8. CommandOrder'
  BY <1>2, <1>3, <1>5, <1>6, <1>7, NothingMoves DEF OrderInv, CommandOrder
<1> QED BY <1>7, <1>8 DEF OrderInv

-----------------------------------------------------------------------------
\* Commands never overtake each other and none is in two places, and at most
\* one published command can still be read.
THEOREM Ordered == Spec => [](CommandOrder /\ OneLiveCommand)
<1>1. Init => OrderInv
  <2> SUFFICES ASSUME Init PROVE OrderInv
    OBVIOUS
  <2>1. Len(<<>>) = 0 /\ OpenIds(<<>>) = {} /\ Ascending(<<>>)
    BY DEF OpenIds, Ascending
  <2>2. \A i \in 1..Len(queue) :
          ~queue[i].live /\ (queue[i].mtype = CLOSE_DOOR_TYPE => queue[i].text = "Close")
    <3>1. PICK n \in 0..MaxLeft : queue \in [1..n -> Leftovers]
      BY DEF Init
    <3>2. Len(queue) = n /\ \A i \in 1..n : queue[i] \in Leftovers
      BY <3>1, ConstantsOK
    <3> QED BY <3>2 DEF Leftovers
  <2>2a. LiveOpens = {} /\ HandIds = {} /\ ReplyIds = {} /\ PendingIds = {}
    BY <2>1, <2>2 DEF Init, LiveOpens, HandIds, ReplyIds, PendingIds
  <2>3. used = {} /\ opens = 0 /\ OpenIds(wire) = {} /\ OpenIds(cache) = {}
        /\ Ascending(wire)
        /\ hand.mtype = HEART_TYPE /\ pcMain = "lock"
    BY <2>1 DEF Init, NoMsg
  <2>4. HEART_TYPE # CLOSE_DOOR_TYPE
    BY DEF HEART_TYPE, CLOSE_DOOR_TYPE
  <2> QED BY <2>2, <2>2a, <2>3, <2>4
         DEF OrderInv, CommandOrder, OneLiveCommand, Chain, Before
<1>2. TypeOK /\ OrderInv /\ [Next]_vars => OrderInv'
  <2> SUFFICES ASSUME TypeOK, OrderInv, [Next]_vars
               PROVE  OrderInv'
    OBVIOUS
  <2> USE DEF TypeOK, mainVars, msgVars, netVars, history
  <2>1. CASE MainLock
    BY <2>1, QuietStep DEF MainLock, StateOK
  <2>2. CASE MainRecv
    BY <2>2, MainRecvOrder
  <2>3. CASE MainDispatch
    BY <2>3, MainDispatchOrder
  <2>4. CASE MainSendOpen
    BY <2>4, MainSendOpenOrder
  <2>5. CASE MainNap
    BY <2>5, QuietStep DEF MainNap, StateOK
  <2>6. CASE MainHeart
    BY <2>6, MainHeartOrder
  <2>7. CASE MainSendHeart
    BY <2>7, MainSendHeartOrder
  <2>8. CASE MainStatus
    BY <2>8, QuietStep DEF MainStatus, StateOK
  <2>9. CASE MainDelete
    BY <2>9, MainDeleteOrder
  <2>10. CASE MainExit
    BY <2>10, QuietStep DEF MainExit, StateOK
  <2>11. CASE HeartRcv
    BY <2>11, HeartRcvOrder
  <2>12. CASE HeartLock
    BY <2>12, QuietStep DEF HeartLock, StateOK
  <2>13. CASE HeartRespond
    BY <2>13, QuietStep DEF HeartRespond, StateOK
  <2>14. CASE MsgRcv
    BY <2>14, MsgRcvOrder
  <2>15. CASE MsgAnalyse
    BY <2>15, QuietStep DEF MsgAnalyse, StateOK
  <2>16. CASE MsgConfirm
    BY <2>16, MsgConfirmOrder
  <2>17. CASE MsgCrash
    BY <2>17, QuietStep DEF MsgCrash, StateOK
  <2>18. CASE MsgLockOpen
    BY <2>18, QuietStep DEF MsgLockOpen, StateOK
  <2>19. CASE MsgOpenResp
    BY <2>19, QuietStep DEF MsgOpenResp, StateOK
  <2>20. CASE MsgRelock
    BY <2>20, QuietStep DEF MsgRelock, StateOK
  <2>21. CASE MsgLockClose
    BY <2>21, QuietStep DEF MsgLockClose, StateOK
  <2>22. CASE MsgCloseSend
    BY <2>22, QuietStep DEF MsgCloseSend, StateOK
  <2>23. CASE MsgCloseRecv
    BY <2>23, MsgCloseRecvOrder
  <2>24. CASE MsgCloseGiveUp
    BY <2>24, QuietStep DEF MsgCloseGiveUp, StateOK
  <2>25. CASE SensorPoll
    BY <2>25, SensorPollOrder
  <2>26. CASE SensorSend
    BY <2>26, SensorSendOrder
  <2>27. CASE SensorFail
    BY <2>27, QuietStep DEF SensorFail, StateOK
  <2>28. CASE ModemReads
    BY <2>28, ModemReadsOrder
  <2>29. CASE ServerSends
    BY <2>29, ServerSendsOrder
  <2>30. CASE ServerAnswers
    BY <2>30, ServerAnswersOrder
  <2>31. CASE LinkDrops
    BY <2>31, QuietStep DEF LinkDrops, StateOK
  <2>32. CASE CustomerOpens
    BY <2>32, QuietStep DEF CustomerOpens, StateOK
  <2>33. CASE CustomerCloses
    BY <2>33, QuietStep DEF CustomerCloses, StateOK
  <2>34. CASE UNCHANGED vars
    BY <2>34, QuietStep DEF vars, StateOK
  <2>35. CASE MsgInit
    BY <2>35, QuietStep DEF MsgInit, StateOK
  <2> QED
    BY <2>1, <2>2, <2>3, <2>4, <2>5, <2>6, <2>7, <2>8, <2>9, <2>10, <2>11, <2>12, <2>13, <2>14, <2>15, <2>16, <2>17, <2>18, <2>19, <2>20, <2>21, <2>22, <2>23, <2>24, <2>25, <2>26, <2>27, <2>28, <2>29, <2>30,
       <2>31, <2>32, <2>33, <2>34, <2>35
       DEF Next, Main, Heart, Msg, Sensor, World, Ended, Jammed
<1> QED BY <1>1, <1>2, TypeCorrect, PTL DEF Spec, OrderInv

\* Main's next assignment to mes_buf.mtext ends the text of the command it has
\* published before: there are never two that can still be read
\* (main.cpp:212, 220, 243).
THEOREM OneCommandLives == Spec => []OneLiveCommand
BY Ordered, PTL

-----------------------------------------------------------------------------
\* A step that changes neither the lock nor what the server sent or was
\* granted is no step of DoorService.
LEMMA Stutters ==
  ASSUME opens' = opens, used' = used, pin' = pin, stale' = stale
  PROVE  [Service!Next]_(Service!vars)
BY DEF Service!vars

\* Once a freed text was read DoorService says nothing.
LEMMA Lapses ==
  ASSUME opens' \in Nat, pin' \in BOOLEAN, stale' = TRUE
  PROVE  [Service!Next]_(Service!vars)
BY DEF Service!Next, Service!Lapse

\* The confirmed command is one that was issued and not used before.
LEMMA ConfirmUses ==
  ASSUME TypeOK, TypeOK', OrderInv, MsgConfirm
  PROVE  [Service!Next]_(Service!vars)
<1>1. opens' = opens /\ stale' = (stale \/ ~hand.live) /\ hand.live \in BOOLEAN
      /\ opens \in Nat /\ pcMsg = "confirm"
  BY DEF MsgConfirm, MarkStale, TypeOK, StateOK, QMsg
<1>2. pin \in BOOLEAN /\ pin' \in BOOLEAN /\ stale \in BOOLEAN
  BY DEF TypeOK, FlagsOK
<1>3. CASE ~hand.live
  <2>1. stale' = TRUE
    BY <1>1, <1>2, <1>3
  <2> QED BY <1>1, <1>2, <2>1, Lapses
<1>4. CASE hand.live /\ used' = used /\ pin' = pin
  <2>1. stale' = stale
    BY <1>1, <1>2, <1>4
  <2> QED BY <1>1, <1>4, <2>1, Stutters
<1>5. CASE /\ hand.live /\ hand.text = "Open" /\ LockWrite(TRUE)
           /\ used' = used \cup {hand.of}
  <2>1. hand.of \in PendingIds
    BY <1>1, <1>5 DEF PendingIds, HandIds
  <2>2. hand.of \in (1..opens) \ used
    BY <1>1, <2>1 DEF OrderInv, CommandOrder, Chain, Before
  <2>3. pin' \in {pin, TRUE}
    BY <1>5 DEF LockWrite
  <2>4. stale' = stale /\ opens' = opens
    BY <1>1, <1>2, <1>5
  <2>5. Service!Use
    BY <1>5, <2>2, <2>3, <2>4 DEF Service!Use
  <2> QED BY <2>5 DEF Service!Next
<1>6. \/ used' = used /\ pin' = pin
      \/ /\ hand.live => hand.text = "Open"
         /\ LockWrite(TRUE) /\ used' = IF hand.live THEN used \cup {hand.of} ELSE used
  BY DEF MsgConfirm, Read
<1> QED BY <1>1, <1>3, <1>4, <1>5, <1>6

\* BoxApp implements DoorService: whatever the interleaving, the lock opens
\* only on a command of the server, and on each command once.
THEOREM Implements == Spec => ServiceSpec
<1>1. Init => Service!Init
  BY ConstantsOK DEF ConstantsOK, Init, Service!Init
<1>2. TypeOK /\ TypeOK' /\ OrderInv /\ [Next]_vars => [Service!Next]_(Service!vars)
  <2> SUFFICES ASSUME TypeOK, TypeOK', OrderInv, [Next]_vars
               PROVE  [Service!Next]_(Service!vars)
    OBVIOUS
  <2> USE DEF lockVars, history
  <2>1. CASE MainLock
    BY <2>1, Stutters DEF MainLock
  <2>2. CASE MainRecv
    BY <2>2, Stutters DEF MainRecv
  <2>3. CASE MainDispatch
    BY <2>3, Stutters DEF MainDispatch
  <2>4. CASE MainSendOpen
    BY <2>4, Stutters DEF MainSendOpen
  <2>5. CASE MainNap
    BY <2>5, Stutters DEF MainNap
  <2>6. CASE MainHeart
    BY <2>6, Stutters DEF MainHeart
  <2>7. CASE MainSendHeart
    BY <2>7, Stutters DEF MainSendHeart
  <2>8. CASE MainStatus
    BY <2>8, Stutters DEF MainStatus
  <2>9. CASE MainDelete
    BY <2>9, Stutters DEF MainDelete
  <2>10. CASE MainExit
    BY <2>10, Stutters DEF MainExit
  <2>11. CASE HeartRcv
    BY <2>11, Stutters DEF HeartRcv
  <2>12. CASE HeartLock
    BY <2>12, Stutters DEF HeartLock
  <2>13. CASE HeartRespond
    BY <2>13, Stutters DEF HeartRespond
  <2>14. CASE MsgRcv
    BY <2>14, Stutters DEF MsgRcv
  <2>15. CASE MsgAnalyse
    <3>1. opens' = opens /\ used' = used /\ pin' = pin /\ stale' = (stale \/ ~hand.live)
      BY <2>15 DEF MsgAnalyse, MarkStale
    <3>2. opens' \in Nat /\ pin' \in BOOLEAN /\ stale \in BOOLEAN /\ hand.live \in BOOLEAN
      BY DEF TypeOK, StateOK, FlagsOK, QMsg
    <3>3. stale' = stale \/ stale' = TRUE
      BY <3>1, <3>2
    <3> QED BY <3>1, <3>2, <3>3, Stutters, Lapses
  <2>16. CASE MsgConfirm
    BY <2>16, ConfirmUses
  <2>17. CASE MsgCrash
    <3>1. stale' = TRUE /\ opens' \in Nat /\ pin' \in BOOLEAN
      BY <2>17 DEF MsgCrash, TypeOK, StateOK, FlagsOK
    <3> QED BY <3>1, Lapses
  <2>18. CASE MsgLockOpen
    BY <2>18, Stutters DEF MsgLockOpen
  <2>19. CASE MsgOpenResp
    BY <2>19, Stutters DEF MsgOpenResp
  <2>20. CASE MsgRelock
    <3>1. opens' = opens /\ used' = used /\ stale' = stale /\ pin' \in {pin, FALSE}
      BY <2>20 DEF MsgRelock, LockWrite
    <3> QED BY <3>1, Stutters DEF Service!Next, Service!Relock
  <2>21. CASE MsgLockClose
    BY <2>21, Stutters DEF MsgLockClose
  <2>22. CASE MsgCloseSend
    BY <2>22, Stutters DEF MsgCloseSend
  <2>23. CASE MsgCloseRecv
    BY <2>23, Stutters DEF MsgCloseRecv
  <2>24. CASE MsgCloseGiveUp
    BY <2>24, Stutters DEF MsgCloseGiveUp
  <2>25. CASE SensorPoll
    BY <2>25, Stutters DEF SensorPoll
  <2>26. CASE SensorSend
    BY <2>26, Stutters DEF SensorSend
  <2>27. CASE SensorFail
    BY <2>27, Stutters DEF SensorFail
  <2>28. CASE ModemReads
    BY <2>28, Stutters DEF ModemReads
  <2>29. CASE ServerSends
    <3>1. opens' \in {opens, opens + 1} /\ used' = used /\ stale' = stale /\ pin' = pin
      BY <2>29 DEF ServerSends
    <3> QED BY <3>1, Stutters DEF Service!Next, Service!Grant
  <2>30. CASE ServerAnswers
    BY <2>30, Stutters DEF ServerAnswers
  <2>31. CASE LinkDrops
    BY <2>31, Stutters DEF LinkDrops
  <2>32. CASE CustomerOpens
    BY <2>32, Stutters DEF CustomerOpens
  <2>33. CASE CustomerCloses
    BY <2>33, Stutters DEF CustomerCloses
  <2>34. CASE UNCHANGED vars
    BY <2>34, Stutters DEF vars
  <2>35. CASE MsgInit
    <3>1. opens' = opens /\ used' = used /\ stale' = stale /\ pin' \in {pin, FALSE}
      BY <2>35 DEF MsgInit
    <3> QED BY <3>1, Stutters DEF Service!Next, Service!Relock
  <2> QED
    BY <2>1, <2>2, <2>3, <2>4, <2>5, <2>6, <2>7, <2>8, <2>9, <2>10, <2>11, <2>12, <2>13, <2>14, <2>15, <2>16, <2>17, <2>18, <2>19, <2>20, <2>21, <2>22, <2>23, <2>24, <2>25, <2>26, <2>27, <2>28, <2>29, <2>30,
       <2>31, <2>32, <2>33, <2>34, <2>35
       DEF Next, Main, Heart, Msg, Sensor, World, Ended, Jammed
<1> QED BY <1>1, <1>2, TypeCorrect, Ordered, PTL DEF Spec, ServiceSpec, Service!Spec, OrderInv
=============================================================================
