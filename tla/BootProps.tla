------------------------------ MODULE BootProps ------------------------------
(* What starting the application must keep to: the properties of Boot.     *)
EXTENDS Boot

Steps == {"init", "options", "test", "echo", "signal", "net", "attach", "imei", "configure",
          "start", "status", "queue", "heart", "msg", "sensor", "capture",
          "register", "reply", "serve"}
Threads == {"heart", "msg", "sensor", "capture"}

\* Every variable keeps its type; no loop counts below zero, and the register
\* message is sent at most RegisterTries + 1 times.
TypeOK ==
  /\ pc \in Steps \cup {"gone"} /\ left \in Nat /\ rounds \in 0..(NetRounds + 1)
  /\ signal \in Int /\ said \in 0..99 /\ imei \in {"zeros", "read"}
  /\ args \in BOOLEAN /\ threads \in SUBSET Threads
  /\ times \in 0..(RegisterTries + 1) /\ failures \in Nat
  /\ {echo_enable, connected, registered} \subseteq BOOLEAN
  /\ open \in BOOLEAN /\ line \in Settings /\ before \in Settings
  /\ gaveUp \in Steps \cup {""} /\ ((gaveUp = "") <=> (pc # "gone"))

\* The attempts of a step that must have failed before the process ends there:
\* main's counters retry and times serve several loops one after the other.
Patience(step) ==
  CASE step = "echo"   -> EchoTries - 1
    [] step = "signal" -> SignalTries - 1
    [] step \in {"net", "attach"} -> NetRounds
    [] step = "start"  -> StartTries - 1
    [] step = "register" -> IF args THEN RegisterTries ELSE 0
    [] OTHER           -> 0

\* The process gives up at a step only after its attempts, all but the last
\* one, have failed.
GivesUpLate == pc = "gone" => failures >= Patience(gaveUp)

\* What the threads and the loop rely on: no thread runs before the modem said
\* CONNECT OK (main.cpp:109), nor before a strength was read that passes, which
\* one reported as 0 never does; 1 and 2 are read as 6 and 16 and pass
\* (gprs.cpp:181), and so does 99, by which the modem says that it knows none.
\* The loop has all the threads, and the server has the registration unless every
\* send of it failed (main.cpp:162-171).  Nothing is said of the echo: ATE0 is
\* written, and whether the modem obeyed is never looked at (gprs.cpp:129).
RunsConnected ==
  /\ threads # {} => connected /\ signal >= WeakSignal /\ said > 0
  /\ pc = "serve" => threads = Threads /\ (registered \/ times > RegisterTries)

Parity(s) ==
  CASE "PARENB" \notin s.cflag -> "N"
    [] {"PARENB", "CMSPAR"} \subseteq s.cflag -> IF "PARODD" \in s.cflag THEN "M" ELSE "S"
    [] OTHER -> IF "PARODD" \in s.cflag THEN "O" ELSE "E"
Stuck(nEvent) == IF nEvent = "O" THEN "M" ELSE "S"

\* n is what setopt promises for these arguments, but for what it keeps of s.
AsAsked(s, n, nSpeed, flow_ctrl, nBits, nStop, nEvent) ==
  LET Kept(flag) == flag \in s.cflag \cup s.iflag
      On(flag)   == flag \in n.cflag \cup n.iflag
      speed      == IF flow_ctrl = 0 /\ Contains(High, nSpeed)
                    THEN Low[1 + CHOOSE c \in DOMAIN High : High[c] = nSpeed] ELSE nSpeed
  IN  /\ n.raw /\ n.size = nBits /\ On("CSTOPB") = (nStop = 2)
      /\ Speed(n) = speed
      /\ Parity(n) = IF Kept("CMSPAR") /\ nEvent \in {"O", "E"} THEN Stuck(nEvent) ELSE nEvent
      /\ On("CRTSCTS") = (flow_ctrl = 1 \/ (flow_ctrl = 2 /\ Kept("CRTSCTS")))
      /\ On("IXON") = (flow_ctrl = 2) /\ On("IXOFF") = (flow_ctrl = 2 \/ Kept("IXOFF"))

\* Whatever program had the line before, setopt gives it what it was asked for,
\* with four exceptions: without flow control a speed above 38400 becomes the
\* low one with the same code, and in-band flow control of the input stays on,
\* since its flags are cleared in the wrong word (serial.cpp:238); stick
\* parity, once set, stays (serial.cpp:189-201); and so does hardware flow control
\* when in-band flow control is asked for (serial.cpp:245). The modem is spoken to at 9600
\* baud, 8N1, without hardware flow control.
LineAsAsked ==
  /\ pc = "init" =>
       \A nSpeed \in Offered, flow_ctrl \in 0..2, nBits \in 5..8, nStop \in {1, 2},
          nEvent \in {"O", "E", "N", "M", "S"} :
         AsAsked(line, SetOpt(line, nSpeed, flow_ctrl, nBits, nStop, nEvent),
                 nSpeed, flow_ctrl, nBits, nStop, nEvent)
  /\ pc \notin {"init", "options", "gone"} => open /\ AsAsked(before, line, 9600, 0, 8, 1, "N")

\* Starting ends in the loop or in the end of the process; only the question
\* for the IMEI may be repeated for ever (main.cpp:97).
Settles == <>(pc \in {"serve", "gone"}) \/ <>[](pc = "imei")
=============================================================================
