-------------------------------- MODULE Boot --------------------------------
(***************************************************************************)
(* main.cpp up to its loop, with the modem operations it calls (gprs.cpp,  *)
(* gprs_init to connect_server): every step may fail, is repeated a number *)
(* of times, and either leads to the next or ends the process.  What the   *)
(* modem answers is chosen freely; an AT command with its retries is one   *)
(* step here (Gprs has its insides).                                       *)
(***************************************************************************)
EXTENDS SerialSetup

CONSTANTS
  EchoTries,     \* times ATE0 is tried (5)
  SignalTries,   \* readings of the signal (10)
  WeakSignal,    \* the reading from which the signal will do (3)
  NetTries,      \* questions in one check_regnet (3)
  NetRounds,     \* failed check_regnet tolerated (20)
  Commands,      \* AT commands before the connection (11)
  StartTries,    \* times AT+CIPSTART is tried (3)
  RegisterTries, \* times the register message is repeated (5)
  Strengths,     \* what the modem may say of the signal
  Before         \* settings the serial line may have from earlier programs

ASSUME BootConstantsOK ==
  /\ {EchoTries, SignalTries, NetTries, StartTries, Commands} \subseteq Nat \ {0}
  /\ {NetRounds, RegisterTries, WeakSignal} \subseteq Nat
  /\ Strengths \subseteq 0..99
  /\ Before \subseteq Settings

VARIABLES
  pc,        \* the step under way; "serve": the loop; "gone": the process ended
  left,      \* attempts left in a loop that counts down: retry, times
  rounds,    \* retry, where it counts up: check_regnet calls that failed
  open,      \* whether fd is the serial device
  line,      \* the settings of the serial line
  signal,    \* signal
  imei,      \* gprs_imei: "zeros", or "read"
  args,      \* whether thread_args holds values
  threads,   \* threads created
  times,     \* times, while registering
  echo_enable,   \* whether the program expects an echo
  connected, registered,   \* the modem and the server
  before,    \* history: the settings when the process started
  said,      \* history: what the modem last said of the signal
  gaveUp,    \* history: the step at which the process ended, "" before
  failures   \* history: attempts at the current step that failed

loopVars  == <<left, rounds, times, failures>>
lineVars  == <<open, line, before>>
modemVars == <<lineVars, echo_enable, connected, registered, said>>
vars == <<pc, loopVars, signal, imei, args, threads, modemVars, gaveUp>>

Init ==
  /\ open = FALSE /\ line \in Before /\ before = line
  /\ pc = "init" /\ left = 0 /\ rounds = 0 /\ signal = 0 /\ imei = "zeros"
  /\ args = FALSE /\ threads = {} /\ times = 0
  /\ echo_enable = TRUE /\ connected = FALSE /\ registered = FALSE
  /\ said = 0 /\ gaveUp = "" /\ failures = 0
-----------------------------------------------------------------------------
(* Going from step to step.                                                *)

\* The next step, with n attempts.
Enter(step, n) == pc' = step /\ left' = n /\ failures' = 0 /\ UNCHANGED gaveUp
Quit == pc' = "gone" /\ gaveUp' = pc /\ UNCHANGED <<left, failures>>

\* while( retry-- ) { if failed continue; else break; } if( retry <= 0 ) ...:
\* the last attempt counts as failed whatever it brought.
Succeeds(step, n) == IF left > 1 THEN Enter(step, n) ELSE Quit
Fails ==
  /\ failures' = failures + 1 /\ left' = left - 1
  /\ IF left > 1 THEN UNCHANGED <<pc, gaveUp>> ELSE pc' = "gone" /\ gaveUp' = pc

\* gprs_init: the reset line, and the serial device.
ModemInit ==
  /\ pc = "init"
  /\ \/ open' = TRUE /\ Enter("options", 1)
     \/ UNCHANGED open /\ Quit
  /\ UNCHANGED <<line, before, rounds, times, signal, imei, args, threads,
                 echo_enable, connected, registered, said>>

\* setopt, and dev_close when it fails.
SetUpLine ==
  /\ pc = "options"
  /\ \/ line' = SetOpt(line, 9600, 0, 8, 1, "N") /\ UNCHANGED open /\ Enter("test", 1)
     \/ UNCHANGED line /\ open' = FALSE /\ Quit
  /\ UNCHANGED <<before, rounds, times, signal, imei, args, threads,
                 echo_enable, connected, registered, said>>

CheckTest ==
  /\ pc = "test"
  /\ Enter("echo", EchoTries) \/ Quit
  /\ UNCHANGED <<rounds, times, signal, imei, args, threads, modemVars>>

\* Variant: the attempts of the previous step are used on.
DisableEcho_SameCount ==
  /\ pc = "echo"
  /\ \/ echo_enable' = FALSE /\ Succeeds("signal", left)
     \/ UNCHANGED echo_enable /\ Fails
  /\ UNCHANGED <<rounds, times, signal, imei, args, threads,
                 lineVars, connected, registered, said>>

\* disable_echo: the write is all that is looked at.  Whether the modem got ATE0
\* whole and obeys is not asked, and not modelled: an echo is among the answers
\* that the next steps may get.
DisableEcho ==
  /\ pc = "echo"
  /\ \/ echo_enable' = FALSE /\ Succeeds("signal", SignalTries)
     \/ UNCHANGED echo_enable /\ Fails
  /\ UNCHANGED <<rounds, times, signal, imei, args, threads,
                 lineVars, connected, registered, said>>

\* (GsmRcv[8]-'0')*10 + (GsmRcv[9]-'0') of an answer that begins where the modem
\* begins it: the second digit of a strength below ten is the comma behind it.
Reading(v) == IF v < 10 THEN v * 10 - 4 ELSE v

\* get_sigquality: no SIM, no answer and an answer without OK leave signal, as does
\* one behind an echo, of which the 22 characters read do not reach the OK.
GetSignal ==
  /\ pc = "signal"
  /\ \/ Fails /\ UNCHANGED <<signal, said>>
     \/ \E v \in Strengths :
          /\ said' = v /\ signal' = Reading(v)
          /\ IF signal' < WeakSignal THEN Fails ELSE Succeeds("net", NetTries)
  /\ UNCHANGED <<rounds, times, imei, args, threads,
                 lineVars, echo_enable, connected, registered>>

\* check_regnet answered false: while( !check_regnet() ) of main.
NetFails ==
  /\ rounds' = rounds + 1
  /\ IF rounds >= NetRounds THEN Quit
     ELSE /\ pc' = "net" /\ left' = NetTries /\ failures' = failures + 1
          /\ UNCHANGED gaveUp

\* One question AT+CREG? of check_regnet.  Registered at home on any but the
\* last question: on to the attachment.  A write that fails returns -EIO,
\* which is true.
AskNet ==
  /\ pc = "net"
  /\ \/ left > 1 /\ pc' = "attach" /\ UNCHANGED <<left, failures, gaveUp, rounds>>
     \/ left > 1 /\ left' = left - 1 /\ UNCHANGED <<pc, failures, gaveUp, rounds>>
     \/ left <= 1 /\ NetFails
     \/ Enter("imei", 1) /\ UNCHANGED rounds
  /\ UNCHANGED <<times, signal, imei, args, threads, modemVars>>

\* AT+CGATT?: an answer with OK will do, whether it says attached or not.
AskAttached ==
  /\ pc = "attach"
  /\ \/ Enter("imei", 1) /\ UNCHANGED rounds
     \/ NetFails
  /\ UNCHANGED <<times, signal, imei, args, threads, modemVars>>

\* get_imei, until it answers: an answer without OK leaves zeros.
GetImei ==
  /\ pc = "imei"
  /\ \/ imei' = "zeros" /\ UNCHANGED <<pc, left, failures, gaveUp>>
     \/ imei' \in {"zeros", "read"} /\ Enter("configure", Commands)
  /\ UNCHANGED <<rounds, times, signal, args, threads, modemVars>>

\* connect_server: the commands before the connection, each with an answer.
Configure ==
  /\ pc = "configure"
  /\ \/ left > 1 /\ left' = left - 1 /\ UNCHANGED <<pc, failures, gaveUp>>
     \/ left = 1 /\ Enter("start", StartTries)
     \/ Quit
  /\ UNCHANGED <<rounds, times, signal, imei, args, threads, modemVars>>

Start ==
  /\ pc = "start"
  /\ Succeeds("status", 1) \/ Fails
  /\ UNCHANGED <<rounds, times, signal, imei, args, threads, modemVars>>

\* Variant: the status is not waited for.
CheckStatus_Skipped ==
  /\ pc = "status" /\ Enter("queue", 1)
  /\ UNCHANGED <<rounds, times, signal, imei, args, threads, modemVars>>

\* tcp_status_check: CONNECT OK, or the process ends.
CheckStatus ==
  /\ pc = "status"
  /\ \/ connected' = TRUE /\ Enter("queue", 1)
     \/ Quit /\ UNCHANGED connected
  /\ UNCHANGED <<rounds, times, signal, imei, args, threads,
                 lineVars, echo_enable, registered, said>>

\* queue_init: without a queue the arguments of the threads stay unset, and
\* main goes on.
QueueInit ==
  /\ pc = "queue" /\ args' \in BOOLEAN /\ Enter("heart", 1)
  /\ UNCHANGED <<rounds, times, signal, imei, threads, modemVars>>

\* The threads are created one after the other.
After(thread) == CASE thread = "heart"  -> "msg"
                   [] thread = "msg"    -> "sensor"
                   [] thread = "sensor" -> "capture"
                   [] OTHER             -> "register"
CreateThread ==
  /\ pc \in {"heart", "msg", "sensor", "capture"}
  /\ \/ threads' = threads \cup {pc} /\ Enter(After(pc), 1) /\ times' = 0
     \/ Quit /\ UNCHANGED <<threads, times>>
  /\ UNCHANGED <<rounds, signal, imei, args, modemVars>>

\* A thread uses arguments that nobody set.
ThreadCrash ==
  /\ ~args /\ threads # {} /\ pc # "gone" /\ Quit
  /\ UNCHANGED <<rounds, times, signal, imei, args, threads, modemVars>>

\* while( !send_tcp_data(..) && times++ < 5 ), if( times == 5 ) quit: the
\* message may arrive although the send reports failure, but not the reverse.
Register ==
  /\ pc = "register"
  /\ \/ /\ registered' = TRUE /\ UNCHANGED times
        /\ IF times = RegisterTries THEN Quit ELSE Enter("reply", 1)
     \/ /\ registered' \in {registered, TRUE} /\ times' = times + 1
        /\ IF times < RegisterTries
           THEN failures' = failures + 1 /\ UNCHANGED <<pc, left, gaveUp>>
           ELSE Enter("reply", 1)
  /\ UNCHANGED <<rounds, signal, imei, args, threads,
                 lineVars, echo_enable, connected, said>>

\* Variant: a refused registration is sent again.
TakeReply_Insists ==
  /\ pc = "reply"
  /\ \/ Enter("register", 1) /\ times' = 0
     \/ Enter("serve", 1) /\ UNCHANGED times
  /\ UNCHANGED <<rounds, signal, imei, args, threads, modemVars>>

\* The answer is read once and judged, and the judgement only printed: main
\* goes on whether the server accepted, refused or said nothing.  A member of an
\* unexpected type makes the judging throw (JsonSession), which ends the process.
TakeReply ==
  /\ pc = "reply"
  /\ Enter("serve", 1) \/ Quit
  /\ UNCHANGED <<rounds, times, signal, imei, args, threads, modemVars>>

\* The loop of main, or nothing any more.
Settled == pc \in {"serve", "gone"} /\ UNCHANGED vars

Step == \/ ModemInit \/ SetUpLine \/ CheckTest \/ DisableEcho \/ GetSignal \/ AskNet \/ AskAttached
        \/ GetImei \/ Configure \/ Start \/ CheckStatus \/ QueueInit \/ CreateThread
        \/ Register \/ TakeReply
Next == Step \/ ThreadCrash \/ Settled

Spec == Init /\ [][Next]_vars
\* Every modem operation returns.
LiveSpec == Spec /\ WF_vars(Step)
=============================================================================
