------------------------------- MODULE MCBoot -------------------------------
(* Values for the run of Boot. *)
EXTENDS BootProps

\* A terminal's settings, and those left by programs that used the line at 9600
\* or 115200 baud, with flow control in band or by hardware, or with parity.
Fresh == [code |-> 13, size |-> 8, raw |-> FALSE, cflag |-> {"HUPCL"}, iflag |-> {"IXON"}]
MCBefore ==
  {Fresh,
   SetOpt(Fresh, 9600, 0, 8, 1, "N"),
   SetOpt(Fresh, 115200, 2, 8, 1, "N"),
   SetOpt(Fresh, 115200, 1, 7, 2, "M"),
   SetOpt(SetOpt(Fresh, 9600, 1, 8, 1, "S"), 19200, 2, 7, 1, "E")}
=============================================================================
