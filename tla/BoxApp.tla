------------------------------- MODULE BoxApp -------------------------------
(***************************************************************************)
(* The running application: the main loop (main.cpp), the heart thread     *)
(* (heart.cpp), the message thread (msg_process.cpp) and the door-sensor   *)
(* thread (image_lock_process.cpp), which share one modem under one mutex  *)
(* and talk through one System V queue.  A modem operation is one phase of *)
(* the thread that runs it: what a send or a receive does to the incoming  *)
(* messages and to gprs_cache is kept, its AT dialogue is left out.        *)
(***************************************************************************)
EXTENDS Reception, SequencesExt

CONSTANTS
  QueueCap,      \* messages the kernel lets the queue hold (msg_qbytes)
  NoDataLimit,   \* receives without data tolerated by main (1000)
  CloseTries,    \* attempts at one goods report (10)
  MaxCopies,     \* bound: copies of a report one send_tcp_data may deliver
  ServerKinds,   \* what the server may send unasked
  MaxServed,     \* bound: how many of these it sends (less what a process left)
  MaxClosings,   \* bound: how often the customer shuts the door
  WriteOutcomes, \* results a write to the lock's GPIO may have
  StatusWhenUp,  \* answers of tcp_status_check while the link is up
  LinkMayDrop,   \* whether the TCP connection may be lost
  MaxLeft,       \* bound: messages an earlier process left in the queue
  PinBefore,     \* where an earlier process may have left the lock
  LockMayFail,   \* whether the lock's initialisation may fail
  SensorMayFail, \* whether reading the door sensor may fail
  NapYields      \* whether a sleep leaves waiting threads the time to run

ASSUME ConstantsOK ==
  /\ QueueCap \in Nat \ {0}
  /\ NoDataLimit \in Nat
  /\ CloseTries \in Nat \ {0}
  /\ MaxCopies \in Nat \ {0}
  /\ ServerKinds \subseteq Kinds \ {"Ack", "Nack"}
  /\ MaxServed \in Nat
  /\ MaxClosings \in Nat
  /\ WriteOutcomes \in (SUBSET BOOLEAN) \ {{}}
  /\ StatusWhenUp \in (SUBSET BOOLEAN) \ {{}}
  /\ LinkMayDrop \in BOOLEAN
  /\ MaxLeft \in 0..QueueCap
  /\ PinBefore \in (SUBSET BOOLEAN) \ {{}}
  /\ LockMayFail \in BOOLEAN
  /\ SensorMayFail \in BOOLEAN
  /\ NapYields \in BOOLEAN

VARIABLES
  pcMain, reply, published, nodata,   \* main.cpp
  pcHeart,                            \* heart.cpp
  pcMsg, hand, tries, doorOpen,       \* msg_process.cpp (hand: rec_buf)
  isOn, pin,                          \* lock.cpp, and the lock itself
  pcSensor, keys, door,               \* image_lock_process.cpp, the door
  mutex, queue, queueUp,              \* shared by the threads
  wire, cache, link,                  \* serial input, gprs_cache, connection
  alive,                              \* the process runs
  served, todo,                       \* the server: sent, reports to answer
  opens, used, closings, report, acks, stale   \* history

mainVars   == <<pcMain, reply, published, nodata>>
msgVars    == <<pcMsg, hand, tries, doorOpen>>
lockVars   == <<isOn, pin>>
sensorVars == <<pcSensor, keys, door>>
netVars    == <<wire, cache, link>>
serverVars == <<served, todo>>
history    == <<opens, used, closings, report, acks, stale>>
vars == <<mainVars, pcHeart, msgVars, lockVars, sensorVars, mutex, queue,
          queueUp, netVars, alive, serverVars, history>>

-----------------------------------------------------------------------------
(* Data: the messages in the queue.                                        *)

\* A queued message: the kernel copies the std::string object, not its
\* text, so the text is live only until its owner assigns the string again.
QMsg  == [mtype : {HEART_TYPE, OPEN_DOOR_TYPE, CLOSE_DOOR_TYPE},
          text : Kinds \cup {"Close"}, of : Nat, live : BOOLEAN]
NoMsg == [mtype |-> HEART_TYPE, text |-> "Junk", of |-> 0, live |-> TRUE]

\* An assignment to the string whose text the messages of these types share.
Expired(m, types) == IF m.mtype \in types THEN [m EXCEPT !.live = FALSE] ELSE m
Reassign(types) ==
  /\ queue' = [i \in 1..Len(queue) |-> Expired(queue[i], types)]
  /\ hand' = Expired(hand, types)
MainTypes == {OPEN_DOOR_TYPE, HEART_TYPE}

\* The queue outlives the process, what its messages point to does not.  What is
\* left there, and a lock left open, count as sent already, to bound the model.
Leftovers ==
  {[mtype |-> t, text |-> IF t = CLOSE_DOOR_TYPE THEN "Close" ELSE "Junk",
    of |-> 0, live |-> FALSE] : t \in {HEART_TYPE, OPEN_DOOR_TYPE, CLOSE_DOOR_TYPE}}

Init ==
  /\ pcMain = "lock" /\ reply = NoReply /\ published = FALSE /\ nodata = 0
  /\ pcHeart = "rcv"
  /\ pcMsg = "init" /\ hand = NoMsg /\ tries = 0 /\ doorOpen = FALSE
  /\ isOn = FALSE /\ pin \in PinBefore
  /\ pcSensor = "poll" /\ keys = 0 /\ door = "shut"
  /\ mutex = "free" /\ queueUp = TRUE
  /\ \E n \in 0..MaxLeft :
       /\ queue \in [1..n -> Leftovers]
       /\ served = n + (IF pin THEN 1 ELSE 0)
  /\ wire = <<>> /\ cache = <<>> /\ link = TRUE
  /\ alive = TRUE
  /\ todo = <<>>
  /\ opens = 0 /\ used = {} /\ closings = 0 /\ report = 0
  /\ acks = {} /\ stale = FALSE

-----------------------------------------------------------------------------
(* Shared operations.                                                      *)

Acquire(t) == mutex = "free" /\ mutex' = t
Release    == mutex' = "free"

\* Somebody waits for a mutex that is free.
Contended ==
  /\ mutex = "free"
  /\ pcHeart = "lock" \/ pcMsg \in {"lockOpen", "lockClose"}
\* Variant: no sleep lets anybody in.
Rested_No == TRUE
Rested == NapYields => ~Contended

\* Variant: a full queue drops the message, as with IPC_NOWAIT.
MsgSnd_NoWait(m) ==
  queue' = IF queueUp /\ Len(queue) < QueueCap THEN Append(queue, m) ELSE queue

\* Variant: the message is sent a second time.
MsgSnd_Twice(m) ==
  IF queueUp THEN Len(queue) < QueueCap /\ queue' = queue \o <<m, m>>
             ELSE UNCHANGED queue

\* msgsnd with flag 0: blocks on a full queue, fails on a deleted one.
MsgSnd(m) ==
  IF queueUp THEN Len(queue) < QueueCap /\ queue' = Append(queue, m)
             ELSE UNCHANGED queue

\* Variant: the cache is not cleared after it was answered from.
Receive_KeepsCache(ok, r) ==
  IF CacheHit(cache)
  THEN ok = TRUE /\ r = FromCache(cache) /\ UNCHANGED <<cache, wire>>
  ELSE /\ cache' = <<>>
       /\ \E n \in 0..Len(wire) :
            (ok => n > 0) /\ Chunk(wire, n, ok, r) /\ wire' = SubSeq(wire, n + 1, Len(wire))

\* rec_tcp_data: the cache first, cleared in any case; otherwise the input.
\* These are ReceiveCall's steps Ask and Answer in one; a success without any
\* message there is one with Junk here, which the server may send as well.
Receive(ok, r) ==
  /\ cache' = <<>>
  /\ \E w \in Skips(wire) :
       \/ CacheHit(cache) /\ ok = TRUE /\ r = FromCache(cache) /\ wire' = w
       \/ /\ ~CacheHit(cache)
          /\ \E n \in 0..Len(w) :
               (ok => n > 0) /\ Chunk(w, n, ok, r) /\ wire' = SubSeq(w, n + 1, Len(w))

\* send_tcp_data in progress, or tcp_status_check: incoming messages read
\* with an answer are lost with it, the others are put in gprs_cache.
InDialogue ==
  pcHeart = "respond" \/ pcMsg \in {"openResp", "closeSend"} \/ pcMain = "status"

\* main checks the status, without the mutex, while another thread sends.
Overlap ==
  pcMain = "status" /\ (pcHeart = "respond" \/ pcMsg \in {"openResp", "closeSend"})

\* Both then write to gprs_cache, each with a message it has read: the later one may
\* be added first, and what one has added is lost when the other found no text
\* (gprs.cpp:691) or spoilt when both write at once.
Raced(c, tok) ==
  {InsertAt(c, i, tok) : i \in 1..Len(c)} \cup {<<tok>>, <<Garbled>>}
ModemReads ==
  /\ alive /\ InDialogue /\ wire # <<>>
  /\ wire' = Tail(wire)
  /\ \/ cache' \in Passed(cache, Head(wire))
     \/ Overlap /\ cache' \in Raced(cache, Head(wire))
  /\ UNCHANGED <<mainVars, pcHeart, msgVars, lockVars, sensorVars, mutex, queue,
                 queueUp, link, alive, serverVars, history>>

\* A dialogue that ends well had the connection.
Sent(ok) == ok => link
-----------------------------------------------------------------------------
(* main.cpp, the loop.                                                     *)

MainLock ==
  /\ alive /\ pcMain = "lock" /\ Acquire("main") /\ pcMain' = "recv"
  /\ UNCHANGED <<reply, published, nodata, pcHeart, msgVars, lockVars, sensorVars,
                 queue, queueUp, netVars, alive, serverVars, history>>

MainRecv ==
  /\ alive /\ pcMain = "recv" /\ Release
  /\ \E ok \in BOOLEAN, r \in Results(cache, wire) :
       /\ Receive(ok, r)
       /\ IF ok
          THEN nodata' = 0 /\ reply' = r /\ pcMain' = "dispatch"
          ELSE /\ nodata' = nodata + 1 /\ reply' = NoReply
               /\ pcMain' = IF nodata > NoDataLimit THEN "status" ELSE "lock"
  /\ published' = FALSE
  /\ UNCHANGED <<pcHeart, msgVars, lockVars, sensorVars, queue, queueUp, link,
                 alive, serverVars, history>>

\* switch( cmd_type ): both cases assign mes_buf.mtext, one sends it.
MainDispatch ==
  /\ alive /\ pcMain = "dispatch"
  /\ LET type == TypeOf(reply.obj.kind) IN
       IF type \in {OPEN_DOOR_TYPE, MSG_TYPE}
       THEN /\ Reassign(MainTypes) /\ published' = TRUE
            /\ pcMain' = IF type = OPEN_DOOR_TYPE THEN "sendOpen" ELSE "nap"
       ELSE UNCHANGED <<queue, hand, published>> /\ pcMain' = "heart?"
  /\ UNCHANGED <<reply, nodata, pcHeart, pcMsg, tries, doorOpen, lockVars,
                 sensorVars, mutex, queueUp, netVars, alive, serverVars, history>>

Published(type) ==
  [mtype |-> type, text |-> reply.obj.kind, of |-> reply.obj.of, live |-> TRUE]

MainSendOpen ==
  /\ alive /\ pcMain = "sendOpen" /\ pcMain' = "nap"
  /\ MsgSnd(Published(OPEN_DOOR_TYPE))
  /\ UNCHANGED <<reply, published, nodata, pcHeart, msgVars, lockVars, sensorVars,
                 mutex, queueUp, netVars, alive, serverVars, history>>

MainNap ==
  /\ alive /\ pcMain \in {"nap", "napHeart"} /\ Rested
  /\ pcMain' = IF pcMain = "nap" THEN "heart?" ELSE "lock"
  /\ UNCHANGED <<reply, published, nodata, pcHeart, msgVars, lockVars, sensorVars,
                 mutex, queue, queueUp, netVars, alive, serverVars, history>>

\* Assigning the string its own text again leaves the text where it is.
MainHeart ==
  /\ alive /\ pcMain = "heart?"
  /\ IF reply.heart
     THEN /\ IF published THEN UNCHANGED <<queue, hand>> ELSE Reassign(MainTypes)
          /\ pcMain' = "sendHeart"
     ELSE UNCHANGED <<queue, hand>> /\ pcMain' = "lock"
  /\ UNCHANGED <<reply, published, nodata, pcHeart, pcMsg, tries, doorOpen, lockVars,
                 sensorVars, mutex, queueUp, netVars, alive, serverVars, history>>

MainSendHeart ==
  /\ alive /\ pcMain = "sendHeart" /\ pcMain' = "napHeart"
  /\ MsgSnd(Published(HEART_TYPE))
  /\ UNCHANGED <<reply, published, nodata, pcHeart, msgVars, lockVars, sensorVars,
                 mutex, queueUp, netVars, alive, serverVars, history>>

\* Variant: the loop of tcp_status_check is not left on success.
MainStatus_NoBreak ==
  /\ alive /\ pcMain = "status" /\ Rested /\ nodata' = 0 /\ UNCHANGED pcMain
  /\ UNCHANGED <<reply, published, pcHeart, msgVars, lockVars, sensorVars, mutex,
                 queue, queueUp, netVars, alive, serverVars, history>>

\* tcp_status_check, which main calls without the mutex.
MainStatus ==
  /\ alive /\ pcMain = "status" /\ Rested
  /\ \E up \in BOOLEAN :
       /\ up \in IF link THEN StatusWhenUp ELSE {FALSE}
       /\ IF up THEN nodata' = 0 /\ pcMain' = "lock"
                ELSE UNCHANGED nodata /\ pcMain' = "delete"
  /\ UNCHANGED <<reply, published, pcHeart, msgVars, lockVars, sensorVars, mutex,
                 queue, queueUp, netVars, alive, serverVars, history>>

MainDelete ==
  /\ alive /\ pcMain = "delete" /\ pcMain' = "exit"
  /\ queueUp' = FALSE /\ queue' = <<>>
  /\ UNCHANGED <<reply, published, nodata, pcHeart, msgVars, lockVars, sensorVars,
                 mutex, netVars, alive, serverVars, history>>

MainExit ==
  /\ alive /\ pcMain = "exit" /\ alive' = FALSE
  /\ UNCHANGED <<mainVars, pcHeart, msgVars, lockVars, sensorVars, mutex, queue,
                 queueUp, netVars, serverVars, history>>

Main == \/ MainLock \/ MainRecv \/ MainDispatch \/ MainSendOpen \/ MainNap
        \/ MainHeart \/ MainSendHeart \/ MainStatus \/ MainDelete \/ MainExit
-----------------------------------------------------------------------------
(* heart.cpp.                                                              *)

HeartRcv ==
  /\ alive /\ pcHeart = "rcv" /\ pcHeart' = "lock"
  /\ \E i \in Chosen(queue, HEART_TYPE) : queue' = Without(queue, i)
  /\ UNCHANGED <<mainVars, msgVars, lockVars, sensorVars, mutex, queueUp, netVars,
                 alive, serverVars, history>>

HeartLock ==
  /\ alive /\ pcHeart = "lock" /\ Acquire("heart") /\ pcHeart' = "respond"
  /\ UNCHANGED <<mainVars, msgVars, lockVars, sensorVars, queue, queueUp, netVars,
                 alive, serverVars, history>>

\* heart_respond ends, with or without success, and the mutex is released.
HeartRespond ==
  /\ alive /\ pcHeart = "respond" /\ Release /\ pcHeart' = "rcv"
  /\ UNCHANGED <<mainVars, msgVars, lockVars, sensorVars, queue, queueUp, netVars,
                 alive, serverVars, history>>

Heart == HeartRcv \/ HeartLock \/ HeartRespond
-----------------------------------------------------------------------------
(* msg_process.cpp.                                                        *)

\* lock::init leaves the lock closed.  When it fails, the thread ends and the
\* others go on.
MsgInit ==
  /\ alive /\ pcMsg = "init"
  /\ \/ pcMsg' = "rcv" /\ pin' = FALSE
     \/ LockMayFail /\ pcMsg' = "gone" /\ pin' \in {pin, FALSE}
  /\ UNCHANGED <<mainVars, pcHeart, hand, tries, doorOpen, isOn, sensorVars, mutex,
                 queue, queueUp, netVars, alive, serverVars, history>>

\* Variant: what waits behind the message taken is thrown away.
MsgRcv_Drops ==
  /\ alive /\ pcMsg = "rcv" /\ pcMsg' = "analyse"
  /\ \E i \in Chosen(queue, -IMAGE_TYPE) : hand' = queue[i] /\ queue' = <<>>
  /\ UNCHANGED <<mainVars, pcHeart, tries, doorOpen, lockVars, sensorVars, mutex,
                 queueUp, netVars, alive, serverVars, history>>

MsgRcv ==
  /\ alive /\ pcMsg = "rcv" /\ pcMsg' = "analyse"
  /\ \E i \in Chosen(queue, -IMAGE_TYPE) :
       hand' = queue[i] /\ queue' = Without(queue, i)
  /\ UNCHANGED <<mainVars, pcHeart, tries, doorOpen, lockVars, sensorVars, mutex,
                 queueUp, netVars, alive, serverVars, history>>

\* Reading rec_buf.mtext: a text whose owner has moved on may read as
\* anything, or end the process (MsgCrash).
Read(text) == hand.live => text = hand.text
MarkStale  == stale' = (stale \/ ~hand.live)

MsgAnalyse ==
  /\ alive /\ pcMsg = "analyse"
  /\ \E text \in Kinds \cup {"Close"} :
       /\ Read(text)
       /\ LET type == TypeOf(text) IN
            \/ /\ type = OPEN_DOOR_TYPE /\ ~doorOpen /\ pcMsg' = "confirm"
               /\ UNCHANGED doorOpen
            \/ /\ type = CLOSE_DOOR_TYPE /\ doorOpen' = FALSE /\ pcMsg' = "lockClose"
            \/ /\ type # CLOSE_DOOR_TYPE /\ (type = OPEN_DOOR_TYPE => doorOpen)
               /\ pcMsg' = "rcv" /\ UNCHANGED doorOpen
  /\ MarkStale
  /\ UNCHANGED <<mainVars, pcHeart, hand, tries, lockVars, sensorVars, mutex, queue,
                 queueUp, netVars, alive, serverVars,
                 opens, used, closings, report, acks>>

\* lock.cpp, dev_unlock and dev_lock: nothing is written when is_on already
\* says so, and is_on follows only a successful write.
LockWrite(on) ==
  IF isOn = on THEN UNCHANGED <<isOn, pin>>
  ELSE \E written \in WriteOutcomes :
         /\ isOn' = IF written THEN on ELSE isOn
         /\ pin'  = IF written THEN on ELSE pin

\* opendoor_cmd_confirm, and the unlocking; its result is not looked at.
MsgConfirm ==
  /\ alive /\ pcMsg = "confirm"
  /\ \E text \in Kinds \cup {"Close"} :
       /\ Read(text)
       /\ IF text = "Open"
          THEN /\ LockWrite(TRUE) /\ doorOpen' = TRUE
               /\ pcMsg' = "lockOpen"
               /\ used' = IF hand.live THEN used \cup {hand.of} ELSE used
          ELSE /\ pcMsg' = "rcv" /\ UNCHANGED <<isOn, pin, doorOpen, used>>
  /\ MarkStale
  /\ UNCHANGED <<mainVars, pcHeart, hand, tries, sensorVars, mutex, queue, queueUp,
                 netVars, alive, serverVars, opens, closings, report, acks>>

MsgCrash ==
  /\ alive /\ pcMsg \in {"analyse", "confirm"} /\ ~hand.live
  /\ alive' = FALSE /\ stale' = TRUE
  /\ UNCHANGED <<mainVars, pcHeart, msgVars, lockVars, sensorVars, mutex, queue,
                 queueUp, netVars, serverVars, opens, used, closings, report, acks>>

\* Variant: the mutex is not taken for the answer to a command.
MsgLockOpen_Bare ==
  /\ alive /\ pcMsg = "lockOpen" /\ pcMsg' = "openResp"
  /\ UNCHANGED <<mainVars, pcHeart, hand, tries, doorOpen, lockVars, sensorVars,
                 mutex, queue, queueUp, netVars, alive, serverVars, history>>

MsgLockOpen ==
  /\ alive /\ pcMsg = "lockOpen" /\ Acquire("msg") /\ pcMsg' = "openResp"
  /\ UNCHANGED <<mainVars, pcHeart, hand, tries, doorOpen, lockVars, sensorVars,
                 queue, queueUp, netVars, alive, serverVars, history>>

\* door_open_respond, told that the door is open, whatever it returns.
MsgOpenResp ==
  /\ alive /\ pcMsg = "openResp" /\ Release /\ pcMsg' = "window"
  /\ UNCHANGED <<mainVars, pcHeart, hand, tries, doorOpen, lockVars, sensorVars,
                 queue, queueUp, netVars, alive, serverVars, history>>

\* Variant: the thread goes on without dev_lock.
MsgRelock_Forgets ==
  /\ alive /\ pcMsg = "window" /\ Rested /\ pcMsg' = "rcv" /\ doorOpen' = FALSE
  /\ UNCHANGED <<mainVars, pcHeart, hand, tries, lockVars, sensorVars, mutex, queue,
                 queueUp, netVars, alive, serverVars, history>>

\* sleep(1) is over: the lock is closed again.
MsgRelock ==
  /\ alive /\ pcMsg = "window" /\ Rested /\ pcMsg' = "rcv"
  /\ LockWrite(FALSE) /\ doorOpen' = FALSE
  /\ UNCHANGED <<mainVars, pcHeart, hand, tries, sensorVars, mutex, queue, queueUp,
                 netVars, alive, serverVars, history>>

\* door_close_respond starts: the report it is about to send is a new one.
MsgLockClose ==
  /\ alive /\ pcMsg = "lockClose" /\ Acquire("msg") /\ pcMsg' = "closeSend"
  /\ tries' = CloseTries /\ report' = report + 1
  /\ UNCHANGED <<mainVars, pcHeart, hand, doorOpen, lockVars, sensorVars, queue,
                 queueUp, netVars, alive, serverVars,
                 opens, used, closings, acks, stale>>

\* Variant: the attempts are not bounded.
MsgCloseSend_Unbounded ==
  /\ alive /\ pcMsg = "closeSend" /\ tries' = tries - 1 /\ pcMsg' = "closeSend"
  /\ UNCHANGED <<mainVars, pcHeart, hand, doorOpen, lockVars, sensorVars, mutex,
                 queue, queueUp, netVars, alive, serverVars, history>>

\* One send_tcp_data of the report.  A success means that the server has it,
\* unless main's unlocked status check wrote into the same dialogue.
MsgCloseSend ==
  /\ alive /\ pcMsg = "closeSend" /\ tries > 0 /\ tries' = tries - 1
  /\ \E ok \in BOOLEAN, n \in 0..MaxCopies :
       /\ Sent(ok) /\ (n > 0 => link)
       /\ ok => n > 0 \/ pcMain = "status"
       /\ todo' = todo \o [i \in 1..n |-> report]
       /\ pcMsg' = IF ok THEN "closeRecv" ELSE "closeSend"
  /\ UNCHANGED <<mainVars, pcHeart, hand, doorOpen, lockVars, sensorVars, mutex,
                 queue, queueUp, netVars, alive, served, history>>

\* rec_tcp_data for the server's verdict, and colse_door_confirm on it.
MsgCloseRecv ==
  /\ alive /\ pcMsg = "closeRecv"
  /\ \E ok \in BOOLEAN, r \in Results(cache, wire) :
       /\ Receive(ok, r)
       /\ IF ok /\ r.obj.kind = "Ack"
          THEN pcMsg' = "rcv" /\ Release /\ acks' = acks \cup {<<report, r.obj.of>>}
          ELSE pcMsg' = "closeSend" /\ UNCHANGED <<mutex, acks>>
  /\ UNCHANGED <<mainVars, pcHeart, hand, tries, doorOpen, lockVars, sensorVars, queue,
                 queueUp, link, alive, serverVars,
                 opens, used, closings, report, stale>>

MsgCloseGiveUp ==
  /\ alive /\ pcMsg = "closeSend" /\ tries = 0 /\ Release /\ pcMsg' = "rcv"
  /\ UNCHANGED <<mainVars, pcHeart, hand, tries, doorOpen, lockVars, sensorVars, queue,
                 queueUp, netVars, alive, serverVars, history>>

Msg == \/ MsgInit \/ MsgRcv \/ MsgAnalyse \/ MsgConfirm \/ MsgCrash \/ MsgLockOpen
       \/ MsgOpenResp \/ MsgRelock \/ MsgLockClose \/ MsgCloseSend
       \/ MsgCloseRecv \/ MsgCloseGiveUp
-----------------------------------------------------------------------------
(* image_lock_process.cpp.                                                 *)

\* Variant: the event is not taken from the device.
SensorPoll_Again ==
  /\ alive /\ pcSensor = "poll" /\ keys > 0 /\ pcSensor' = "send"
  /\ Reassign({CLOSE_DOOR_TYPE})
  /\ UNCHANGED <<mainVars, pcHeart, pcMsg, tries, doorOpen, lockVars, keys, door,
                 mutex, queueUp, netVars, alive, serverVars, history>>

\* get_key reports the release event; the global msg_buf is assigned.
SensorPoll ==
  /\ alive /\ pcSensor = "poll" /\ keys > 0 /\ keys' = keys - 1
  /\ pcSensor' = "send" /\ Reassign({CLOSE_DOOR_TYPE})
  /\ UNCHANGED <<mainVars, pcHeart, pcMsg, tries, doorOpen, lockVars, door, mutex,
                 queueUp, netVars, alive, serverVars, history>>

SensorSend ==
  /\ alive /\ pcSensor = "send" /\ pcSensor' = "poll"
  /\ MsgSnd([mtype |-> CLOSE_DOOR_TYPE, text |-> "Close", of |-> 0, live |-> TRUE])
  /\ UNCHANGED <<mainVars, pcHeart, msgVars, lockVars, keys, door, mutex, queueUp,
                 netVars, alive, serverVars, history>>

\* get_key returns an error: the thread leaves its loop for good.
SensorFail ==
  /\ alive /\ pcSensor = "poll" /\ SensorMayFail /\ pcSensor' = "gone"
  /\ UNCHANGED <<mainVars, pcHeart, msgVars, lockVars, keys, door, mutex, queue,
                 queueUp, netVars, alive, serverVars, history>>

Sensor == SensorPoll \/ SensorSend \/ SensorFail
-----------------------------------------------------------------------------
(* The world: the server, the connection and the customer.                 *)

ServerSends ==
  /\ link /\ served < MaxServed /\ served' = served + 1
  /\ \E kind \in ServerKinds :
       /\ opens' = IF kind = "Open" THEN opens + 1 ELSE opens
       /\ wire' = Append(wire, [kind |-> kind,
                                 of |-> IF kind = "Open" THEN opens' ELSE 0])
  /\ UNCHANGED <<mainVars, pcHeart, msgVars, lockVars, sensorVars, mutex, queue,
                 queueUp, cache, link, alive, todo,
                 used, closings, report, acks, stale>>

ServerAnswers ==
  /\ link /\ todo # <<>> /\ todo' = Tail(todo)
  /\ \E kind \in {"Ack", "Nack"} :
       wire' = Append(wire, [kind |-> kind, of |-> Head(todo)])
  /\ UNCHANGED <<mainVars, pcHeart, msgVars, lockVars, sensorVars, mutex, queue,
                 queueUp, cache, link, alive, served, history>>

LinkDrops ==
  /\ LinkMayDrop /\ link /\ link' = FALSE
  /\ UNCHANGED <<mainVars, pcHeart, msgVars, lockVars, sensorVars, mutex, queue,
                 queueUp, wire, cache, alive, serverVars, history>>

CustomerOpens ==
  /\ pin /\ door = "shut" /\ closings < MaxClosings /\ door' = "ajar"
  /\ UNCHANGED <<mainVars, pcHeart, msgVars, lockVars, pcSensor, keys, mutex, queue,
                 queueUp, netVars, alive, serverVars, history>>

CustomerCloses ==
  /\ door = "ajar" /\ door' = "shut" /\ keys' = keys + 1 /\ closings' = closings + 1
  /\ UNCHANGED <<mainVars, pcHeart, msgVars, lockVars, pcSensor, mutex, queue, queueUp,
                 netVars, alive, serverVars, opens, used, report, acks, stale>>

World ==
  /\ alive
  /\ ServerSends \/ ServerAnswers \/ LinkDrops \/ CustomerOpens \/ CustomerCloses

\* The process is gone: nothing in it moves again.
Ended == ~alive /\ UNCHANGED vars

\* Without the message thread nobody takes commands and closings: main, and the
\* sensor, wait in a full queue, for good when the heart thread has nothing to take.
Jammed ==
  /\ alive /\ pcMsg = "gone" /\ Len(queue) = QueueCap
  /\ pcMain \in {"sendOpen", "sendHeart"} /\ UNCHANGED vars

Next == Main \/ Heart \/ Msg \/ Sensor \/ ModemReads \/ World \/ Ended \/ Jammed

Spec == Init /\ [][Next]_vars

\* Every thread that can go on does.  Nothing is assumed of who gets the
\* mutex when several want it: pthread mutexes promise no order.
Fairness == /\ WF_vars(Main) /\ WF_vars(Heart) /\ WF_vars(Msg)
            /\ WF_vars(SensorPoll \/ SensorSend)
LiveSpec == Spec /\ Fairness
=============================================================================
