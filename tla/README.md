# Verification of box_app

box_app is the program of a vending box: a SIM800 modem connects it with a
server, the server's command opens the door's lock for a second, and when the
door is shut again a camera picture is searched for the goods left in it and
the result is reported to the server. It is a C++ program of four threads and
a main loop around one serial line, one mutex and one System V message queue
(`src/box_app/src`; references like `main.cpp:248` are to files below it).

This directory holds TLA+ models of it, the TLC configurations that check them
and proofs for TLAPS. `PROJECT.json` lists the runs, the theorems, the lines of
code every definition stands for, and the hazards the properties are aimed at.

    tlc -config box_safety.cfg MCBoxApp      # a run: see the table below
    tlapm BoxAppProofs.tla                   # a module of proofs

## 1. The system

| component | state | operations | talks to |
|---|---|---|---|
| main loop, `main.cpp:190-271` | `reply`, `nodata_times`, `mes_buf` | receive under the mutex, pass commands and heart beats on, check the status, end the process | modem (mutex, except the status check), queue |
| heart thread, `heart/heart.cpp` | the message in hand | wait for a heart beat in the queue, answer it | queue, modem (mutex) |
| message thread, `app_process/msg_process.cpp` | `buy_rec.door_open`, the lock, the attempts left | open the lock for a second and report it; report the goods when the door was shut | queue, lock, modem (mutex), camera |
| door sensor, `app_process/image_lock_process.cpp`, `button/button.cpp` | `key_status` | read two input events, send a closing to the queue | kernel, queue |
| capture thread, `app_process/capture_process.cpp` | the camera, the sample pictures | load, open, keep the camera running | camera, shared with the message thread without a lock |
| picture match, `pic_match/surfPictureMatch.cpp` | counts per picture | judge each region of a photo, add up, write digits | camera |
| queue, `msqueue/msqueue.cpp` | messages with a type | send (blocks when full), receive by type, delete | all threads |
| modem sending, `gprs/gprs.cpp:435-749` | loop counters, `gprs_cache` | one AT command with retries, a text after a prompt, the status check | serial line |
| modem receiving, `gprs/gprs.cpp:762-923` | `gprs_cache`, `tmp_str` | put a message of the server together | serial line |
| start, `main.cpp:38-190`, `gprs/gprs.cpp:48-433` | loop counters, `thread_args` | reset, echo, signal, network, IMEI, connection, queue, threads, registration | modem, kernel |
| locks, `lock/lock.cpp`, `gpio/gpio.cpp` | `is_on`, `gpio_inited`, `fd` | export a pin, set its direction, write its value | sysfs |
| serial line, `serial/serial.cpp` | the file descriptor; in the kernel, the line's settings | open, set the options, read with a time limit, write, flush | kernel |
| message formats, `hodgepodge/hodgepodge.cpp` | none | type of a message, confirm it, build answers | JSON library |
| JSON library, `json/` | Values with the texts and keys they own; the reader's stack, errors and last Value | build, compare and convert Values; read a text; write a Value in three styles | message formats, message thread |

The threads share the modem under `socket_mutex`. Main receives; everything it
hears goes through the queue: heart beats (type 1) to the heart thread, commands
(2) and the sensor's closings to the message thread, which asks `msgrcv` for the
lowest type first. A queue message carries no text but a `std::string` object,
that is a pointer to characters owned by main's `mes_buf` (the string of this
compiler shares its characters): the next assignment to `mes_buf.mtext` frees
them. Messages that come in while another thread talks to the modem are read by
that thread, and either dropped or left in `gprs_cache` for main.

What is hard about it, and what would make it correct:

- *Concurrency.* Three users of one modem, a mutex locked in one function and
  unlocked in another, no fairness of the mutex, an unlocked status check, a
  bounded queue whose senders block. Correct: one dialogue at a time but for the
  known exception; no thread blocked for good; every closing reported.
- *Lifetime.* Texts that are freed while they are queued. Correct: the lock opens
  only on a command of the server and once per command, as long as no freed text
  was read, and it is stated exactly when that may happen.
- *An unreliable line.* Answers late, cut, mixed with the server's messages;
  retries that repeat what was already done. Correct: a call that says TRUE has
  sent its text in this call; no command is doubled or overtakes another.
- *Failure and restart.* A process that ends with the lock open, pins left
  exported, messages left in the queue, a serial line with the settings of
  another program, writes that fail. Correct: after the restart the lock is
  closed, the program never believes an open lock to be closed, what a dead
  process left in the queue opens nothing, and the line is set as asked.
- *Data.* A library of Values that own texts, keys and each other, and a reader
  that recovers from errors. Correct: every block has one owner; what is written
  is read as what it was; reading ends; a message confirms only what it says.
- *Numbers.* Loop counters judged after their decrement, one digit where two are
  expected, counts where one digit is expected. Correct: it is stated what the
  code does at each boundary.

## 2. Modules

| module | stands for | built on |
|---|---|---|
| `MsgQueue` | the queue: types, and which message `msgrcv` takes | |
| `Reception` | a call of `rec_tcp_data` on whole messages | |
| `BoxApp` | main loop, heart, message and sensor threads, their mutex, queue, lock and line | `MsgQueue`, `Reception` |
| `DoorService` | abstract: the lock opens once per command of the server | |
| `BoxAppProps`, `MCBoxApp` | properties of `BoxApp`; values for its runs | `BoxApp`, `DoorService` |
| `BoxAppProofs` | proofs | `BoxAppProps` |
| `Gprs` | `send_command_check`, `send_tcp_data`, `tcp_status_check` against the modem, on pieces of text | |
| `SendCall` | abstract: what a send promises, and what happens to messages meanwhile | |
| `GprsProps`, `GprsProofs` | properties and proofs | `Gprs`, `SendCall` |
| `RecTcpData` | `rec_tcp_data` on pieces of text | `Reception` |
| `ReceiveCall` | abstract: `rec_tcp_data` as `BoxApp` uses it | `Reception` |
| `RecTcpDataProofs` | proofs | `RecTcpData`, `ReceiveCall` |
| `SerialSetup` | `setopt` on the settings of the line (operators only) | |
| `Boot`, `BootProps`, `MCBoot` | the start, its properties, the earlier settings of the line | `SerialSetup` |
| `BootProofs` | proofs | `BootProps` |
| `LockDevice` | `lock` over `GPIO` over sysfs, with restarts | |
| `Latch` | abstract: a lock as `BoxApp` uses it | |
| `LockProofs` | proofs | `LockDevice`, `Latch` |
| `DoorSensor` | the sensor thread on the kernel's input events | |
| `SensorCall` | abstract: the sensor as `BoxApp` uses it | |
| `DoorSensorProofs` | proofs | `DoorSensor`, `SensorCall` |
| `GoodsReport` | capture thread and goods report | |
| `DotMatch` | what a region is taken for | |
| `GoodsMatch` | the report with the matching of its first region step by step | `GoodsReport`, `DotMatch` |
| `GoodsReportProofs` | proofs of the three | `GoodsMatch` |
| `JsonText` | numbers and texts, as written and as decoded | |
| `JsonValue` | `Json::Value`: a tree of nodes with the memory they own | `JsonText` |
| `JsonReader` | `Json::Reader`, token by token, with recovery and comments | `JsonValue` |
| `JsonWriter` | the three writers | `JsonReader` |
| `JsonGrammar` | reference: what a JSON text is | `JsonReader` |
| `JsonMessages` | the objects the program sends, and the functions that judge what comes | `JsonWriter` |
| `JsonSession`, `JsonProps`, `MCJson` | the library's users, what they rely on, the values of the run | `JsonMessages`, `JsonGrammar` |
| `JsonProofs` | proofs | `JsonProps` |

`BoxApp` is the composition. It uses each part in one or a few steps, and the
detailed module of the part is shown to implement those steps: `RecTcpData`
implements `ReceiveCall`, whose steps are `BoxApp`'s `Receive` and `ModemReads`;
`Gprs` implements `SendCall`; `LockDevice` implements `Latch`, `BoxApp`'s
`LockWrite`; `DoorSensor` implements `SensorCall`, `BoxApp`'s `SensorPoll`,
`SensorSend` and `SensorFail`. `Boot` ends where `BoxApp` begins. `JsonMessages`
says of texts what `Reception` says of their kinds: `ConfirmedAsSaid` is what
entitles `BoxApp` to speak of a command, an answer and a closing.

How state and actions correspond to the code:

- `BoxApp`: `pcMain`, `pcHeart`, `pcMsg`, `pcSensor` are the places between which
  a thread cannot be observed by another: a lock or unlock of the mutex, a call
  on the queue, a modem operation. `queue` holds records with the type, the kind
  of text, and `live`: whether the characters behind the pointer are still those
  main assigned (`Reassign`). `pin` is the lock, `isOn` its `is_on`, `doorOpen`
  is `buy_rec.door_open`. `wire` and `cache` are the serial input and
  `gprs_cache` in whole messages; `ModemReads` is what a dialogue of whoever
  holds the mutex, or of main's status check, or of both at once (`Raced`), does
  to them. `stale` records that a freed text was read;
  after that nothing is promised and the thread may crash (`MsgCrash`).
  Messages of the server have a kind (a command that is confirmed, one that is
  not, another object, a heart beat, an answer), and commands a number.
  `Init` is any state in which an earlier process may have left queue and lock
  (`Leftovers`, `PinBefore`); `MsgInit` is `lock::init`, and when it fails the
  message thread is `gone` while the others go on: `Jammed` is main, for good, in
  a queue that nobody empties.
- `Gprs`: `pc`, `goal`, `retry`, `times`, `times_1` are the three nested loops.
  A text on the line has two halves, so that a read may cut it. `due` is what
  the modem has not written yet, `mode` whether its prompt is open.
- `RecTcpData`: a message is one to three pieces; a read takes any number of
  them. `Found` says what `substr` from the first brace to the first closing
  brace yields, with the closing one in front, too. A read that fills `tmp_buf`
  to its end is followed by what lies in the stack (`Stray`): a brace, or nothing
  that matters.
- `Boot`: one action for each modem operation of `main`, which succeeds or fails.
  `left` is `retry` or `times` as they count down; the test behind the loop is
  `Succeeds` and `Fails`. `line` is the termios structure of the serial line,
  which `SetOpt` changes flag by flag as `setopt` does, `CBAUDEX` and `IXOFF`,
  `HUPCL` and `IXON` being the same bits of two different words.
- `LockDevice`: one action for each system call of `lock::init`, so that the
  process may end between any two (`Restart`); `exported` and `level` belong to
  the kernel and outlive the process.
- `DoorSensor`: the kernel's buffer of events with its overflow; `get_key`'s two
  reads are two actions.
- `JsonValue`: a Value is a function from places (sequences of keys) to nodes;
  a node says where the blocks are that its text and its key point to, and
  whether its destructor releases them; a state counts the blocks in use.
  `JsonReader`: `calls` is the stack of `readObject` and `readArray`, `pc` what the
  innermost reads next, one action per token; the text comes in lexemes.
  `JsonSession` has three users: a *program* that builds a Value and has it
  written and read again, a *line* that carries any lexemes, a *server* that sends
  messages; `Judge` then asks the functions of `hodgepodge.cpp`.
- `GoodsReport`: one action per attempt, per region and per report; `DotMatch`:
  one action per comparison of neighbours in the array of names.

## 3. Runs

| run | shows | bounds |
|---|---|---|
| `box_safety` | the modem has one user; commands keep their order and open the lock once each (`ServiceSpec`); no closing is lost, also not behind later commands | every kind of message, 2 messages, 1 closing, queue of 2, 1 attempt per report; up to 2 messages and an open lock from an earlier process; the lock's init and writes fail, the link drops, the status check says either, the sensor thread ends |
| `box_closings` | no closing starts two goods reports (the text of one may be sent several times) | 2 closings, 1 message, queue of 2, 2 attempts per report; the lock's writes fail, the link drops, an open lock from an earlier process |
| `box_live` | `door_open` says where the lock is; the lock closes again, heart beats are answered, closings reported, main listens | 2 messages, 1 closing, queue of 1, 2 attempts per report, writes that succeed; the lock's init may fail, and an earlier process may have left it open |
| `box_verdict` | *violated*: the late answer to one report ends the next | 2 closings, 2 attempts |
| `gprs` | a send says TRUE only for a text sent; messages pass in their order or not at all; every call returns | 2 calls; a message of the server and an SMS Ready, one of them; 1 answer late at a time, texts cut anywhere, failing and partial writes, a link that drops; every loop of 2 turns |
| `gprs_success` | *violated*: a text confirmed on the last attempt is a failure | 1 call, 3 writes |
| `rec_pieces` | `rec_tcp_data` on pieces is `ReceiveCall`; a command nothing disturbs is returned | 2 messages of 3 kinds in up to 3 pieces, calls of 2 reads, silences, full buffers, dialogues, a link that drops |
| `boot` | when the process gives up, what holds when the threads run and in the loop, what becomes of the line's settings, and that the start ends in the loop, at the end of the process or in the question for the IMEI | the numbers of the code; strengths 0, 1, 9, 15, 99; 5 earlier settings, from each of which every setting `setopt` offers is tried |
| `lock` | a lock is a latch; a high pin is known | 2 locks; failures, restarts, closings and reopenings, unbounded |
| `goods` | the picture with the longest run of names wins; the report names what was seen, nothing is compared before the samples are loaded, and a report comes | 2 kinds, 4 regions, digits to the base 3, 2 reports; the attempts of the code; one region matched step by step, with up to 6 matches of 4 pictures, any value behind the array |
| `sensor` | what is sent are closings, in order, each once, and all of them until the kernel drops events | 6 movements, other keys, failing reads, a buffer that holds two movements |
| `json` | every block has one owner; `<` orders the Values; conversions are announced; what is written is read again; errors are the text's; reading ends; messages confirm what they say; the library ends the program only in the ways it is known to (`EndsOnlySo`) | 3 operations on Values of depth 1, 4 leaves, 2 comments, 3 styles; texts of 6 lexemes out of 12, an unreadable one among them, and one of the six behind the first error; 140 messages; integers of 8 bits |

Why the bounds are enough. *box*: two commands are needed for one to overtake or
free another (`used`, pending, in main's hands, in the cache and on the wire are
five places for two numbers), a queue of two for a closing and a command to wait
together (`NoClosingLost` of `box_safety`: the command is taken first), a queue of one
for everyone to block; the second attempt per report is where a retry begins, and with
two closings (`box_closings`) a report is retried while the next closing waits. The proofs below drop these bounds for all but the
liveness properties and `NoClosingLost`. *gprs*: two calls let an answer to the first reach the
second; the three loops differ from the code only in their number of turns, and
two turns have a first and a last. *rec*: three
pieces and two reads have a message that fits one call and one that does not.
*boot* and *lock* are exact, but for the earlier settings of the line, a terminal's and four that `setopt` leaves. *goods*: six matches are three runs of two; one region is enough to
match step by step, since the next call starts with locals of its own; the base 3 with
four regions has numbers that need two digits, as ten or more of thirteen regions
do. *sensor*: six movements are three closings; the buffer overflows with one
waiting. *json*: three operations put an array with a text into an object, or
append a Value to itself and remove it again; six lexemes have a member, its
comma and a comment, or two containers open when the text ends; eight bits have
the boundaries of thirty-two. In *box* the messages an earlier process left, and
the lock it left open, count against `MaxServed`, so that a run has two of all.

Deadlock is checked in all runs: where the system may stop, the model says so
(`Ended`, `Done`, `Settled`, `Rest`, `Idle`).

Fairness. `BoxApp`: weak fairness of each thread as a whole; a thread that can
go on does, since the kernel schedules all of them. Nothing is assumed of the
mutex: a thread that waits for it may be passed by for ever unless the others
sleep without it, which is what the delay at `main.cpp:248` is for (`Rested`,
`NapYields`); the world (server, customer) is not fair. `Gprs`: the caller goes
on, and the modem writes what it has to say; reads end by their time limit.
`RecTcpData`: main polls for ever. `Boot`: every modem operation returns, which is
`Returns` of `gprs`. `GoodsReport`, `DoorSensor`: the threads go on; the
queue has room again, which is `MainListens` and `ClosingReported` of `box_live`.

What the two violated runs show, and where the code says otherwise, is in
`PROJECT.json` under `findings`. Of the same kind, stated as what the code does
instead of as a run of their own: a step of the start that succeeds on its last
attempt ends the process (`GivesUpLate`, `main.cpp:67, 85`); six failed
registrations do not, and a refused one is passed over (`RunsConnected`,
`main.cpp:170, 186`); a strength of 1 or 2 is read as 6 or 16 (`Reading`,
`gprs.cpp:181`); `CLOSED` ends the status check only together
with `TCP CONNECTING` (`Decided`, `gprs.cpp:731`); a count with two digits shifts the report (`ReportFaithful`);
without flow control a speed above 38400 becomes a very low one, flow control
in band stays (`serial.cpp:238`, whose comment says that it disables it), so does
the one by wire when the one in band is asked for (`serial.cpp:245`), and stick
parity, once set (`serial.cpp:189-201`): the exceptions of `LineAsAsked`; without its message thread the program waits in a full queue for
good (`MainListens`, `msg_process.cpp:58`).

What the JSON reader takes and refuses, as `JsonReader` and `JsonGrammar` have
it. Anything may stand where a comma is expected in an array, since
`badTokenType` asks one token to be two (`json_reader.cpp:566`), and behind a
comment in an object; `ErrorsJustified` says that it is never the other way
round. What follows the root is ignored. A comment is refused where an array
begins and between a name and its colon, strict mode takes comments inside
containers, "-" is zero, and the largest numbers are read as doubles. A
second comment on a line replaces the first. The writers: `StyledWriter` drops the
comments of elements it puts on one line; a comment before a value that follows
a comma is read back as the one behind the value before. These keep the meaning
of the text (`RoundTrip`); what would not is a same-line `//` comment that ends in a
blank, behind which the next member is lost; the run's `Remarks` leave it out. Values: `resize` of an array with holes fails
its own assertion, and asking a number, an array or an object for a text throws,
although `isConvertibleTo` promises it: a message `{"category":2}` ends the
process. An access to a Value of another type (`Misuse`) fails an assertion in each of
`clear`, `resize`, `[]` and `removeMember`. A number of 32 characters that is read as a
double has its zero written one byte behind the buffer (`Overrun`, `json_reader.cpp:630`):
the program goes on or ends. `EndsOnlySo` says when each of these happens, and that
no text the writers make has such a number. `device_register_confirm`
does not look at whether the text could be read.

## 4. Proofs

Assumed are only the named assumptions on the constants (`...ConstantsOK`, in `Gprs` `GprsConstants`; in
the JSON modules `BitsAssumption`: an integer has five bits or more, `NamesAssumption` and
`MessageNamesAssumption`: names are texts and there are enough of them, `LexemesAssumption`: what
comes is made of lexemes, `NamedAssumption`: each name that comes is one of the names, so that two
names are two keys, `BuildAssumption`: the program builds with Values and comments that the
library has, and its comments begin with a slash), which the runs evaluate.

- `BoxAppProofs`: `TypeOK`, `MutexOwner`, `ModemExclusion`, `LockFollowsThread` of
  `BoxApp` for every queue size, number of attempts and fault. `TypeOK` and
  `MutexOwner` are inductive together: the program counters say who holds the
  mutex, and a thread enters its section only when the mutex is free; exclusion
  follows from it. `LockFollowsThread` is inductive once `isOn` is known to be
  the pin, except before `lock::init` and after its failure, when `isOn` says
  closed and the pin is what the earlier process left (`LockInv`). All start from
  any queue and lock an earlier process may have left. `ReportsCounted` is
  `OneStartPerClosing`, for any number of closings and attempts: `ReportInv` adds
  up the places a closing may be in - in the sensor's hands, in the queue, being
  reported - and a report counts against the closing that leaves the last of them.
- `BoxAppProofs`, the refinement: `BoxApp` implements `DoorService`. That a command opens the
  lock only if it was not used before needs to know where all the commands are:
  `CommandOrder` orders used, pending, held, cached and arriving ones (but not
  the cached ones among themselves, which a race may exchange), and
  `OneLiveCommand` adds that at most one published text is live. The two are
  inductive together with the types; the refinement then has one real step
  (`MsgConfirm`) and stutters elsewhere. `OneCommandLives` states the second part
  by itself.
- `GprsProofs`: types, and `Delivered` for any number of attempts, lateness, cut,
  failure and mixture. A late `SEND OK` must not confirm a text that was not
  sent: `DeliveredInv` says that at most one prompt is unread (`Single`), none
  outside an open prompt or while the text is due (`PromptRead`), that verdicts on
  earlier texts come before the next prompt (`VerdictFirst`), hence none is
  unread when this text is still to be taken (`OwnVerdict`), and counts the texts
  taken against the attempts left (`TextsTaken`). That `Gprs` implements `SendCall`
  is proved for any number of messages (the run has one): `MessagesInv` says that
  messages are numbered as they come, that one begins behind all parts of earlier
  ones, on the line and in `gprs_cache` (`InOrder`), and that nothing comes between
  its halves (`Joined`). Then what a read takes are the first messages on the line,
  wherever it cuts, and what it keeps makes all of them whole but perhaps the
  first, whose beginning may have been read with an answer (`CacheMore`).
- `RecTcpDataProofs`: types, and that `RecTcpData` implements `ReceiveCall`, for any
  number of messages in any number of pieces. `PieceInv` says that the pieces on the
  input are in the order in which they were sent, behind all that `gprs_cache` holds,
  and that on the input no message lacks its end (`Orderly`); that the cache is empty
  while a call reads, and the text while none does; and where a brace that nobody
  sent can stand in a text (`Readable`); `PiecesInOrder` adds the order inside the cache. So at most one message lies in both, at the end
  of the cache (`HeldFacts`). It is why the refinement holds: there the message is still
  on the wire, and a read or a dialogue that takes its next piece decides whether it
  goes on or counts as garbled (`CacheKept`, `CacheDropped`). What a text or the cache
  answers is told from the messages that begin in it, each of which counts for itself,
  for a garbled one, or for nothing (`Judged`, `CacheRead`).
- `LockProofs`: types, `OpenKnown`, that the locks implement `Latch`, that `is_on` is
  the pin as long as no caller closes a lock (`LevelKnown`; none does), and that
  `init` recovers from whatever a process left exported when the kernel obeys
  (`InitAlwaysRecovers`). The strengthening is what `init` has done so far: the pin
  is low from `set_direction` on, and no lock is usable while `init` runs.
- `DoorSensorProofs`: types, `ClosingsInOrder` and the refinement of `SensorCall`, for
  any number of movements and any buffer that holds three events or more (with
  fewer the kernel could not even say that it dropped some). `SensorInv` knows in
  what order movements and dropped events lie in the buffer, and that what
  `get_key` has in its hands is older than all of them.
- `BootProofs`: types, `GivesUpLate`, `RunsConnected` and `LineAsAsked` for any numbers of
  attempts, any weak strength in `Nat`, and any earlier settings of the line.
  `BootInv` says what each place of the start has behind it (`Reached`), that a
  loop's count is within its attempts (`Counting`), that nothing is decided on
  before the line is open and set (`LineSet`), and what was counted when the
  process gave up. `setopt` is followed flag by flag.
- `GoodsReportProofs`: types, `SamplesLoaded` and `ReportFaithful` for any goods,
  regions, attempts and base. `GoodsInv` says that the camera opens after the
  samples are loaded (`CameraLast`), that the counts are those of the regions judged
  (`Counted`), and when the report names one digit per kind what these digits are.
  That a flattened list of single digits has them at their own places is an
  induction over its length; see below.
  Of `DotMatch` it has that the answer is in range and that the longest run wins, for
  any number of matches and pictures, by the loop's invariant: the run so far ends
  here (`AtRun`), no run before is longer than the best (`NoLonger`), and the best is
  one (`HasBest`). `MatchingReports` is that the two together still implement
  `GoodsReport`, `LongestWinsInReport` that the loop's invariant survives the report.
- `JsonProofs`: for integers of any width from five bits, any names, leaves, comments and
  messages, any number of operations and any text:
  - `MemoryOwned`. Of a Value under construction `Tree` says that every node is
    in a container of its tree and is `Sound`: its types fit each other, and what it
    points to is its own exactly where its destructor releases it. `Balance` is the
    blocks in use without those the tree owns. Both are known of every function of
    `Json::Value` by itself (`Keeps`), and of assignments, swaps and appends the
    balance is known of both trees together, since a block moves from one to the
    other: `Builds`. How many blocks a tree owns after a part of it is replaced is
    counted by splitting the places into those below the part and those beside it
    (`OwnBelow`, `OwnBeside`). While a text is read the Values under construction
    must lie in each other (`NodesAt`) and the one of the next comment be alive
    (`LastAt`); an assignment to one of them may remove others, but none that is
    still used (`Survives`): `TreeInv`.
  - `ParseAdvances`. `Distance` falls with every step once it is known which
    activation `pc` belongs to (`ControlOK`), and that what is read is a text
    (`TextOK`). For a text on the line this is an assumption on the constants; for
    a Value that was written it is a theorem about the three writers, that they make
    lexemes of every tree (`WrittenIs`). Therefore one invariant carries the whole
    session, building, writing and reading: `SessionInv`.
  - `ErrorsJustified`. `LineInv` holds the reader against the grammar: as long as no
    error was reported and the text so far is the beginning of a JSON text, the two
    stacks agree, activation by activation, and the place of the one is the state
    of the other.
  - `ConversionsAnnounced`, from the tree's soundness: it is case by case of the type
    and of where the number lies.
  - `OrderIsTotal`. That comparing is antisymmetric and transitive, and zero exactly
    between equals, is known of integers (`SignIs`); it is kept by comparing by one thing
    first and then by another (`Refined`) and by the first position that differs
    (`FirstComposes`). By these it is known of texts (`StringsOrdered`), and then of
    Values place by place, from the innermost entries outwards (`InsideOut`):
    `OrderOpposite`, `OrderComposes`, `OrderZero`. It needs that the names of two
    containers are in ascending order without gaps (`NamesEnumerate`), that types have
    different ranks, and that no text of a Value has a zero in it (`Sound`): the
    assumption on the leaves says so, as the code's texts end at the first.

How data is reasoned about. The induction theorems of the library take an operator
as a parameter, which the provers cannot instantiate. `NatMin` (a set of naturals
that is not empty has a least member) follows without them from the
well-foundedness of `<`; two sequences are then equal because there is no first
place where they differ. This reaches functions and what the library defines by
functions: that `FlattenSeq` exists, and that flattening two texts joined is joining
what each flattens to (`FlattenConcat`), is proved so in `GprsProofs` and
`RecTcpDataProofs`; that the reader's value of a run of digits is a number, and that a
writer's recursive function has a value for every place of the tree, from the deepest
place up, and so a comparison of two trees, in `JsonProofs`. It does not reach
`RECURSIVE` operators, which the modules do without, nor `SelectSeq`, of which the
prover knows nothing: `RecTcpData` flattens instead (`Begun`).

Proving has corrected the models where they said less than they seemed to: a
`TypeOK` of `Boot` whose last conjunct was read as an equivalence with the
conjuncts before it, and two `CASE`s (`Boot`'s parity, `DoorSensor`'s `ReadSync`)
whose arms overlapped, so that TLC's choice of the first was not their meaning. The
writers, the lexemes and the removal of members were written anew, as functions over
places instead of recursion over nested texts, so that something can be said of them for
every tree.

Only model-checked:

- everything under fairness (`Relocked`, `HeartAnswered`, `ClosingReported`,
  `MainListens`, `Returns`, `Reassembled`, `Settles`, `Reported`, `ClosingSent`), which the
  prover cannot do;
- of the JSON library, `RoundTrip` (what reading makes of what writing made, an
  induction over the Value and its text together), and `ConfirmedAsSaid` and
  `EndsOnlySo`, which compare what was read with the text it was read from; the former
  speaks of the run's messages, since in a text with an error the name that was read
  last need not be the last that stands there.

## 5. Not modelled

- Of jsoncpp: `Path`, the iterators, the fixed-size containers of the `.inl` files and
  the batch allocator (compiled only with `JSON_VALUE_USE_INTERNAL_MAP`), and the
  layout of written texts beyond what decides where a line ends. Doubles are
  whole numbers.
- Printing and sleeping other than the delay at `main.cpp:248`.
- The modem's echo. `Boot` has the program's `echo_enable`, which is cleared once `ATE0`
  was written; whether the modem obeyed is never looked at (`gprs.cpp:129-138`), so
  nothing is said of it, nor of strength answers that an echo shifts or a read cuts.
- A switch that repeats (`button.cpp:201` takes a key event of value 2 for a closing):
  `DoorSensor` assumes the values 0 and 1.
- A missing or short file of samples (`surfPictureMatch.cpp:81-88` reads it without a
  check): `GoodsReport` assumes that all are in it.
- What the byte behind `decodeDouble`'s buffer hits: the program goes on as if nothing
  had happened (`ReadScalar`) or ends (`Overrun`).
- SURF and the camera: what a region shows is free, and so is which frame a
  grab gets while another thread reads frames from the same camera
  (`capture_process.cpp:45`).
- Two overlapping dialogues (the status check without the mutex) piece by piece.
  `BoxApp` has what they do to whole messages in `gprs_cache`, each added in any
  place, alone or spoilt (`Raced`), and dialogues that end in any way; not a text
  that one keeps in hand across a whole answer of the other, nor a heap that the
  race on the string damages.
- What lies behind a full buffer of `send_command_check` (`gprs.cpp:471`), and
  `rec_buf` of `rec_tcp_data`, which is written and never read.
- Functions without a caller: the variants of sending and receiving without a
  check, `recv_data` and the flushes of `serial.cpp`, the timer of
  `msg_process.cpp:160-187`, input pins and the other polarity.
- The programs that the Makefile does not build.

## 6. Plan

Done, in this order: `BoxApp` with its queue, reception and service; `Gprs`;
`RecTcpData`; `Boot`; `LockDevice`; `DotMatch` and `GoodsReport`, and the two together; `DoorSensor`; the
JSON library and the messages; the life of queue and lock over restarts; the
settings of the serial line.

Next, the most useful first:

1. Proofs: `NoClosingLost` for every queue, along `ReportInv` (the messages of the
   queue have to be counted, not only the one that is live); for one style of writing, that a text that was written is accepted, the
   first half of `RoundTrip`.
2. The status check without the mutex on pieces: two dialogues on one line, and
   which answers each may take from the other (two instances of `Gprs`'s caller).
3. What a message that was cut or joined on the line (`RecTcpData`) is read as
   (`JsonReader`), in one model.
