---------------------------- MODULE SerialSetup ----------------------------
(***************************************************************************)
(* The settings of the serial line, and serial::setopt, which changes them *)
(* (serial.cpp).  They belong to the kernel: what no call clears is what   *)
(* the last program that had the line left there.                          *)
(***************************************************************************)
EXTENDS Integers, SequencesExt

\* struct termios, as far as setopt touches it.  code is the low part of the
\* speed in c_cflag, "CBAUDEX" among cflag its bit for the high speeds.
Settings == [code : 0..15, size : 5..8, raw : BOOLEAN,
  cflag : SUBSET {"CBAUDEX", "HUPCL", "CSTOPB", "PARENB", "PARODD", "CMSPAR", "CRTSCTS"},
  iflag : SUBSET {"IXON", "IXOFF", "IXANY", "INPCK", "PARMRK", "IGNPAR"}]

\* Speeds in the order of their codes, from 0 without and from 1 with CBAUDEX.
Low  == <<0, 50, 75, 110, 134, 150, 200, 300, 600, 1200, 1800, 2400, 4800, 9600, 19200, 38400>>
High == <<57600, 115200, 230400, 460800>>
Offered == {2400, 4800, 9600, 19200, 38400, 57600, 115200, 460800}

Speed(s) == IF "CBAUDEX" \in s.cflag THEN High[s.code] ELSE Low[s.code + 1]

Sets(s, flags)   == [s EXCEPT !.cflag = @ \cup flags]
Clears(s, flags) == [s EXCEPT !.cflag = @ \ flags]

\* cfsetispeed and cfsetospeed.
WithSpeed(s, speed) ==
  IF Contains(High, speed)
  THEN [Sets(s, {"CBAUDEX"}) EXCEPT !.code = CHOOSE c \in DOMAIN High : High[c] = speed]
  ELSE [Clears(s, {"CBAUDEX"}) EXCEPT !.code = (CHOOSE c \in DOMAIN Low : Low[c] = speed) - 1]

\* cfmakeraw.
MakeRaw(s) ==
  [Clears(s, {"PARENB"}) EXCEPT !.size = 8, !.raw = TRUE, !.iflag = @ \ {"IXON", "PARMRK"}]

WithStop(s, nStop) == IF nStop = 1 THEN Clears(s, {"CSTOPB"}) ELSE Sets(s, {"CSTOPB"})

\* O and E leave the stick parity that M or S may have set.
WithParity(s, nEvent) ==
  CASE nEvent = "O" -> [Sets(s, {"PARENB", "PARODD"}) EXCEPT !.iflag = @ \cup {"INPCK"}]
    [] nEvent = "E" ->
         [Sets(Clears(s, {"PARODD"}), {"PARENB"}) EXCEPT !.iflag = @ \cup {"INPCK"}]
    [] nEvent = "N" -> Clears(s, {"PARENB"})
    [] nEvent = "M" -> Sets(s, {"PARENB", "PARODD", "CMSPAR"})
    [] nEvent = "S" -> [Sets(Clears(s, {"PARODD"}), {"CMSPAR", "PARENB"}) EXCEPT
                          !.iflag = (@ \cup {"INPCK", "PARMRK"}) \ {"IGNPAR"}]

\* Variant: the flags are cleared where they are.
WithFlow_Input(s, flow_ctrl) ==
  CASE flow_ctrl = 0 -> [Clears(s, {"CRTSCTS"}) EXCEPT !.iflag = @ \ {"IXON", "IXOFF"}]
    [] flow_ctrl = 1 -> Sets(s, {"CRTSCTS"})
    [] flow_ctrl = 2 -> [s EXCEPT !.iflag = @ \cup {"IXON", "IXOFF", "IXANY"}]
    [] OTHER         -> s

\* Case 0 takes IXON and IXOFF, which are flags of c_iflag, out of c_cflag, where
\* these bits are HUPCL and CBAUDEX.
WithFlow(s, flow_ctrl) ==
  CASE flow_ctrl = 0 -> Clears(s, {"CRTSCTS", "HUPCL", "CBAUDEX"})
    [] flow_ctrl = 1 -> Sets(s, {"CRTSCTS"})
    [] flow_ctrl = 2 -> [s EXCEPT !.iflag = @ \cup {"IXON", "IXOFF", "IXANY"}]
    [] OTHER         -> s

\* Whether setopt comes to tcsetattr.
Valid(nSpeed, nBits, nStop, nEvent) ==
  nSpeed \in Offered /\ nBits \in 5..8 /\ nStop \in {1, 2} /\ nEvent \in {"O", "E", "N", "M", "S"}

\* What setopt makes of the settings s.
SetOpt(s, nSpeed, flow_ctrl, nBits, nStop, nEvent) ==
  IF Valid(nSpeed, nBits, nStop, nEvent)
  THEN LET sized == [MakeRaw(WithSpeed(s, nSpeed)) EXCEPT !.size = nBits]
       IN  WithFlow(WithParity(WithStop(sized, nStop), nEvent), flow_ctrl)
  ELSE s
=============================================================================
