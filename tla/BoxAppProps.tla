----------------------------- MODULE BoxAppProps -----------------------------
(***************************************************************************)
(* What the running application must keep to: the properties of BoxApp.    *)
(***************************************************************************)
EXTENDS BoxApp

\* The Boolean variables.
FlagsOK ==
  /\ published \in BOOLEAN /\ doorOpen \in BOOLEAN
  /\ isOn \in BOOLEAN /\ pin \in BOOLEAN
  /\ queueUp \in BOOLEAN /\ link \in BOOLEAN
  /\ alive \in BOOLEAN /\ stale \in BOOLEAN

\* All the others.
StateOK ==
  /\ pcMain \in {"lock", "recv", "dispatch", "sendOpen", "nap", "heart?",
                 "sendHeart", "napHeart", "status", "delete", "exit"}
  /\ reply \in Reply /\ nodata \in Nat
  /\ pcHeart \in {"rcv", "lock", "respond"}
  /\ pcMsg \in {"init", "gone", "rcv", "analyse", "confirm", "lockOpen", "openResp", "window",
                "lockClose", "closeSend", "closeRecv"}
  /\ hand \in QMsg /\ tries \in 0..CloseTries
  /\ pcSensor \in {"poll", "send", "gone"} /\ keys \in Nat /\ door \in {"shut", "ajar"}
  /\ mutex \in {"free", "main", "heart", "msg"}
  /\ queue \in Seq(QMsg) /\ wire \in Seq(Token) /\ cache \in Seq(Token)
  /\ served \in Nat /\ todo \in Seq(Nat)
  /\ opens \in Nat /\ used \in SUBSET Nat /\ closings \in Nat /\ report \in Nat
  /\ acks \in SUBSET (Nat \X Nat)

\* Every variable has its type; in particular the attempts left at a goods
\* report never become negative (msg_process.cpp:276, times--).
TypeOK == StateOK /\ FlagsOK

\* The mutex belongs to the thread that is between its lock and its unlock
\* call, on every path through main, heart.cpp and msg_process.cpp.
MutexOwner ==
  /\ (mutex = "main")  <=> (pcMain = "recv")
  /\ (mutex = "heart") <=> (pcHeart = "respond")
  /\ (mutex = "msg")   <=> (pcMsg \in {"openResp", "closeSend", "closeRecv"})

\* The threads that are inside a modem operation.
ModemUsers ==
  {t \in {"main", "heart", "msg"} :
     \/ t = "main"  /\ pcMain \in {"recv", "status"}
     \/ t = "heart" /\ pcHeart = "respond"
     \/ t = "msg"   /\ pcMsg \in {"openResp", "closeSend", "closeRecv"}}

\* Two AT dialogues never overlap, with one exception: the status check
\* that main runs without the mutex (main.cpp:257).
ModemExclusion ==
  \A t, u \in ModemUsers : t = u \/ (pcMain = "status" /\ "main" \in {t, u})

\* While every write to the lock succeeds, the lock is open exactly from a
\* confirmed command to the end of the second granted to the customer
\* (msg_process.cpp:91-100); so the report "status 0" of door_open_respond
\* is true, door_open says what the lock does, and a thread that waits for
\* the next message has locked; but for a lock left open by an earlier
\* process, until the message thread has initialised it (msg_process.cpp:56).
LockFollowsThread ==
  /\ doorOpen <=> pcMsg \in {"lockOpen", "openResp", "window"}
  /\ WriteOutcomes = {TRUE} /\ pcMsg \notin {"init", "gone"} => (pin <=> doorOpen)

\* door_close_respond is called at most once for every time the door was shut,
\* as long as no freed text was read: no CLOSE gets into the queue or out of it
\* twice, whatever is lost or sent again.  How often one call sends its
\* text to the server is another matter: up to CloseTries times, with copies
\* (msg_process.cpp:276), which this does not bound.
OneStartPerClosing == ~stale => report <= closings

\* Every time the door was shut a goods report was started, or the closing is on
\* its way: an event of the switch, at the sensor, in the queue, where the
\* message thread takes a later command before it (msg_process.cpp:82), or in
\* the message thread's hands; as long as main has not deleted the queue and no
\* freed text was read.  A full queue makes the sensor wait (msqueue.cpp:51).
NoClosingLost ==
  LET atSensor == IF pcSensor = "send" THEN 1 ELSE 0
      inQueue  == Len(SelectSeq(queue, LAMBDA m : m.mtype = CLOSE_DOOR_TYPE))
      inHand   == IF \/ pcMsg = "analyse" /\ hand.mtype = CLOSE_DOOR_TYPE
                     \/ pcMsg = "lockClose" THEN 1 ELSE 0
  IN ~stale /\ queueUp => closings <= report + keys + atSensor + inQueue + inHand

\* The application implements DoorService: the lock opens only on an Open of
\* the server, each used once, whichever way the command took through the
\* serial input, gprs_cache, the queue and the message thread.
Service == INSTANCE DoorService WITH
  granted <- opens, unlocked <- pin, trusted <- ~stale
ServiceSpec == Service!Spec

\* Where the numbers of the commands not yet used are: in the serial input
\* or gprs_cache, in main's hands, in the queue, in the message thread's.
OpenIds(s) == {s[i].of : i \in {k \in 1..Len(s) : s[k].kind = "Open"}}
ReplyIds ==
  IF pcMain \in {"dispatch", "sendOpen"} /\ reply.obj.kind = "Open"
  THEN {reply.obj.of} ELSE {}
LiveOpens ==
  {i \in 1..Len(queue) : /\ queue[i].mtype = OPEN_DOOR_TYPE
                         /\ queue[i].text = "Open" /\ queue[i].live}
HandIds ==
  IF pcMsg \in {"analyse", "confirm"} /\ hand.live /\ hand.text = "Open"
  THEN {hand.of} ELSE {}
PendingIds == HandIds \cup {queue[i].of : i \in LiveOpens}

Before(A, B) == \A a \in A, b \in B : a < b
Chain(U, P, R, C, W) ==
  /\ Before(U, P \cup R \cup C \cup W)
  /\ Before(P, R \cup C \cup W)
  /\ Before(R, C \cup W)
  /\ Before(C, W)
Ascending(s) ==
  \A i, j \in 1..Len(s) :
    i < j /\ s[i].kind = "Open" /\ s[j].kind = "Open" => s[i].of < s[j].of

\* Commands do not overtake each other on their way from the server to the
\* lock, and none is in two places: the used ones are older than the one
\* pending, that is older than the one main holds, and so on to the input.  Only
\* within gprs_cache may two change places, when main's status check overlaps
\* with another dialogue; a receive takes one of them and drops the rest.
CommandOrder ==
  /\ Chain(used, PendingIds, ReplyIds, OpenIds(cache), OpenIds(wire))
  /\ Ascending(wire)
  /\ used \cup PendingIds \cup ReplyIds \cup OpenIds(cache) \cup OpenIds(wire)
       \subseteq 1..opens

\* At most one published command has a text that is still live: main's next
\* assignment to mes_buf.mtext (main.cpp:212, 220, 243) frees the last one.
OneLiveCommand ==
  /\ \A i, j \in LiveOpens : i = j
  /\ HandIds # {} => LiveOpens = {}
  /\ pcMain = "sendOpen" => HandIds = {} /\ LiveOpens = {}
  /\ \A i \in 1..Len(queue) :
       queue[i].mtype = CLOSE_DOOR_TYPE => queue[i].text = "Close"
  /\ hand.mtype = CLOSE_DOOR_TYPE => hand.text = "Close"

\* "colse_door_confirm ... no problem" (msg_process.cpp:287): the answer that
\* ends a goods report is an answer to this report, as long as no freed text was
\* read.
OwnVerdict == ~stale => \A ack \in acks : ack[1] = ack[2]
-----------------------------------------------------------------------------
\* The message thread could not initialise the lock and has ended.
NoMsgThread == pcMsg = "gone"

\* An open lock is locked again, however busy the modem is and whichever
\* process left it open, unless the process ends first or cannot initialise it.
Relocked == pin ~> (~pin \/ ~alive \/ NoMsgThread)

\* A heart-beat request in the queue gets the heart thread to the modem: the
\* delay at main.cpp:248 is there for this.
HeartAnswered ==
  (\E i \in 1..Len(queue) : queue[i].mtype = HEART_TYPE)
     ~> (pcHeart = "respond" \/ ~queueUp \/ ~alive)

\* Every time the door is shut a goods report is started, even when the
\* queue was full or the message thread was waiting for the modem.
ClosingReported ==
  \A n \in 1..MaxClosings :
     (closings >= n) ~> (report >= n \/ stale \/ ~queueUp \/ ~alive \/ NoMsgThread)

\* Main always gets back to listening: it blocks for good neither in a full
\* queue nor in the status check, unless the message thread has ended, whose
\* commands and closings then fill the queue.
MainListens ==
  []<>(\/ pcMain \in {"lock", "recv"} \/ ~alive
       \/ NoMsgThread /\ Len(queue) = QueueCap)
=============================================================================
