----------------------------- MODULE BootProofs -----------------------------
(***************************************************************************)
(* Proofs about Boot, for any numbers of attempts, whatever the modem      *)
(* answers and whatever settings the serial line had before.  What setopt  *)
(* makes of the settings is followed flag by flag; the steps of main are   *)
(* followed by what each leaves behind for those that come after it.       *)
(***************************************************************************)
EXTENDS BootProps, TLAPS

(* setopt.                                                                 *)

\* The code of a speed that setopt offers, and whether it is a high one.
HighCode(speed) == CHOOSE c \in DOMAIN High : High[c] = speed
LowCode(speed)  == CHOOSE c \in DOMAIN Low : Low[c] = speed

LEMMA SpeedCodes ==
  ASSUME NEW speed \in Offered
  PROVE  \/ /\ Contains(High, speed) /\ HighCode(speed) \in 1..3 \cup {4}
            /\ High[HighCode(speed)] = speed
            /\ Low[HighCode(speed) + 1] \in Nat
         \/ /\ ~Contains(High, speed) /\ LowCode(speed) \in 1..16
            /\ Low[LowCode(speed)] = speed
<1>1. /\ DOMAIN High = 1..4 /\ Len(High) = 4
      /\ High[1] = 57600 /\ High[2] = 115200 /\ High[3] = 230400 /\ High[4] = 460800
  BY DEF High
<1>2. /\ DOMAIN Low = 1..16 /\ Low[11] = 1800 /\ Low[12] = 2400 /\ Low[13] = 4800
      /\ Low[14] = 9600 /\ Low[15] = 19200 /\ Low[16] = 38400
      /\ Low[2] \in Nat /\ Low[3] \in Nat /\ Low[4] \in Nat /\ Low[5] \in Nat
  BY DEF Low
<1>3. CASE speed \in {57600, 115200, 460800}
  <2>1. \E c \in DOMAIN High : High[c] = speed
    BY <1>1, <1>3
  <2>2. HighCode(speed) \in DOMAIN High /\ High[HighCode(speed)] = speed
    BY <2>1 DEF HighCode
  <2>3. Contains(High, speed)
    BY <1>1, <2>1 DEF Contains
  <2> QED BY <1>1, <1>2, <2>2, <2>3
<1>4. CASE speed \in {2400, 4800, 9600, 19200, 38400}
  <2>1. \E c \in DOMAIN Low : Low[c] = speed
    BY <1>2, <1>4
  <2>2. LowCode(speed) \in DOMAIN Low /\ Low[LowCode(speed)] = speed
    BY <2>1 DEF LowCode
  <2>3. ~Contains(High, speed)
    BY <1>1, <1>4 DEF Contains
  <2> QED BY <1>2, <2>2, <2>3
<1> QED BY <1>3, <1>4 DEF Offered

CFlags == {"CBAUDEX", "HUPCL", "CSTOPB", "PARENB", "PARODD", "CMSPAR", "CRTSCTS"}
IFlags == {"IXON", "IXOFF", "IXANY", "INPCK", "PARMRK", "IGNPAR"}

LEMMA SettingsFields ==
  ASSUME NEW s \in Settings
  PROVE  /\ s.code \in 0..15 /\ s.size \in 5..8 /\ s.raw \in BOOLEAN
         /\ s.cflag \in SUBSET CFlags /\ s.iflag \in SUBSET IFlags
BY DEF Settings, CFlags, IFlags

\* Flags set or cleared, and nothing else touched.
LEMMA SetsFlags ==
  ASSUME NEW s \in Settings, NEW flags \in SUBSET CFlags
  PROVE  /\ Sets(s, flags) \in Settings
         /\ Sets(s, flags).cflag = s.cflag \cup flags
         /\ Sets(s, flags).iflag = s.iflag /\ Sets(s, flags).code = s.code
         /\ Sets(s, flags).size = s.size /\ Sets(s, flags).raw = s.raw
BY DEF Sets, Settings, CFlags

LEMMA ClearsFlags ==
  ASSUME NEW s \in Settings, NEW flags
  PROVE  /\ Clears(s, flags) \in Settings
         /\ Clears(s, flags).cflag = s.cflag \ flags
         /\ Clears(s, flags).iflag = s.iflag /\ Clears(s, flags).code = s.code
         /\ Clears(s, flags).size = s.size /\ Clears(s, flags).raw = s.raw
BY DEF Clears, Settings

LEMMA WithSpeedFlags ==
  ASSUME NEW s \in Settings, NEW speed \in Offered
  PROVE  LET n == WithSpeed(s, speed) IN
         /\ n \in Settings /\ n.iflag = s.iflag
         /\ \A flag \in CFlags \ {"CBAUDEX"} : flag \in n.cflag <=> flag \in s.cflag
         /\ "CBAUDEX" \in n.cflag <=> Contains(High, speed)
         /\ n.code = IF Contains(High, speed) THEN HighCode(speed) ELSE LowCode(speed) - 1
<1>1. CASE Contains(High, speed)
  <2> DEFINE c == HighCode(speed)
             t == Sets(s, {"CBAUDEX"})
  <2>1. WithSpeed(s, speed) = [t EXCEPT !.code = c]
    BY <1>1 DEF WithSpeed, HighCode
  <2>2. c \in 0..15
    BY <1>1, SpeedCodes
  <2>3. t \in Settings /\ t.cflag = s.cflag \cup {"CBAUDEX"} /\ t.iflag = s.iflag
    BY SetsFlags DEF CFlags
  <2> HIDE DEF c, t
  <2>4. [t EXCEPT !.code = c] \in Settings
    BY <2>2, <2>3 DEF Settings
  <2>5. /\ [t EXCEPT !.code = c].iflag = t.iflag /\ [t EXCEPT !.code = c].cflag = t.cflag
        /\ [t EXCEPT !.code = c].code = c
    BY <2>3 DEF Settings
  <2> QED BY <1>1, <2>1, <2>3, <2>4, <2>5 DEF c
<1>2. CASE ~Contains(High, speed)
  <2> DEFINE c == LowCode(speed) - 1
             t == Clears(s, {"CBAUDEX"})
  <2>1. WithSpeed(s, speed) = [t EXCEPT !.code = c]
    BY <1>2 DEF WithSpeed, LowCode
  <2>2. c \in 0..15
    BY <1>2, SpeedCodes
  <2>3. t \in Settings /\ t.cflag = s.cflag \ {"CBAUDEX"} /\ t.iflag = s.iflag
    BY ClearsFlags
  <2> HIDE DEF c, t
  <2>4. [t EXCEPT !.code = c] \in Settings
    BY <2>2, <2>3 DEF Settings
  <2>5. /\ [t EXCEPT !.code = c].iflag = t.iflag /\ [t EXCEPT !.code = c].cflag = t.cflag
        /\ [t EXCEPT !.code = c].code = c
    BY <2>3 DEF Settings
  <2> QED BY <1>2, <2>1, <2>3, <2>4, <2>5 DEF c
<1> QED BY <1>1, <1>2

LEMMA RawFlags ==
  ASSUME NEW s \in Settings, NEW bits \in 5..8
  PROVE  LET n == [MakeRaw(s) EXCEPT !.size = bits] IN
         /\ n \in Settings /\ n.code = s.code /\ n.size = bits /\ n.raw = TRUE
         /\ n.cflag = s.cflag \ {"PARENB"}
         /\ n.iflag = s.iflag \ {"IXON", "PARMRK"}
<1>1. /\ Clears(s, {"PARENB"}) \in Settings
      /\ Clears(s, {"PARENB"}).cflag = s.cflag \ {"PARENB"}
      /\ Clears(s, {"PARENB"}).iflag = s.iflag /\ Clears(s, {"PARENB"}).code = s.code
  BY ClearsFlags
<1> QED BY <1>1 DEF MakeRaw, Settings

LEMMA StopFlags ==
  ASSUME NEW s \in Settings, NEW nStop \in {1, 2}
  PROVE  LET n == WithStop(s, nStop) IN
         /\ n \in Settings /\ n.code = s.code /\ n.size = s.size /\ n.raw = s.raw
         /\ n.iflag = s.iflag
         /\ \A flag \in CFlags \ {"CSTOPB"} : flag \in n.cflag <=> flag \in s.cflag
         /\ "CSTOPB" \in n.cflag <=> nStop = 2
BY SetsFlags, ClearsFlags DEF WithStop, CFlags

\* Parity; what O, E and N leave of an earlier stick parity.
LEMMA ParityFlags ==
  ASSUME NEW s \in Settings, NEW nEvent \in {"O", "E", "N", "M", "S"}
  PROVE  LET n == WithParity(s, nEvent) IN
         /\ n \in Settings /\ n.code = s.code /\ n.size = s.size /\ n.raw = s.raw
         /\ \A flag \in CFlags \ {"PARENB", "PARODD", "CMSPAR"} :
              flag \in n.cflag <=> flag \in s.cflag
         /\ "PARENB" \in n.cflag <=> nEvent # "N"
         /\ "CMSPAR" \in n.cflag <=> "CMSPAR" \in s.cflag \/ nEvent \in {"M", "S"}
         /\ "PARODD" \in n.cflag <=> nEvent \in {"O", "M"} \/ (nEvent = "N" /\ "PARODD" \in s.cflag)
         /\ "IXON" \in n.iflag <=> "IXON" \in s.iflag
         /\ "IXOFF" \in n.iflag <=> "IXOFF" \in s.iflag
<1>0. s.iflag \in SUBSET IFlags
  BY SettingsFields
<1>1. CASE nEvent = "O"
  <2> DEFINE t == Sets(s, {"PARENB", "PARODD"})
  <2>1. /\ t \in Settings /\ t.cflag = s.cflag \cup {"PARENB", "PARODD"} /\ t.iflag = s.iflag
        /\ t.code = s.code /\ t.size = s.size /\ t.raw = s.raw
    BY SetsFlags DEF CFlags
  <2>2. WithParity(s, nEvent) = [t EXCEPT !.iflag = @ \cup {"INPCK"}]
    BY <1>1 DEF WithParity
  <2> HIDE DEF t
  <2>3. LET n == [t EXCEPT !.iflag = @ \cup {"INPCK"}] IN
        /\ n \in Settings /\ n.code = t.code /\ n.size = t.size /\ n.raw = t.raw
        /\ n.cflag = t.cflag /\ n.iflag = t.iflag \cup {"INPCK"}
    BY <2>1 DEF Settings
  <2> DEFINE n == WithParity(s, nEvent)
  <2>4. /\ n \in Settings /\ n.code = s.code /\ n.size = s.size /\ n.raw = s.raw
        /\ n.cflag = s.cflag \cup {"PARENB", "PARODD"}
    BY <2>1, <2>2, <2>3
  <2>5. /\ "IXON" \in n.iflag <=> "IXON" \in s.iflag
        /\ "IXOFF" \in n.iflag <=> "IXOFF" \in s.iflag
    BY <2>1, <2>2, <2>3
  <2> HIDE DEF n
  <2>6. \A flag \in CFlags \ {"PARENB", "PARODD", "CMSPAR"} :
          flag \in n.cflag <=> flag \in s.cflag
    BY <2>4
  <2>7. /\ "PARENB" \in n.cflag
        /\ "CMSPAR" \in n.cflag <=> "CMSPAR" \in s.cflag \/ nEvent = "S"
        /\ "PARODD" \in n.cflag <=> nEvent = "O"
    BY <1>1, <2>4
  <2> QED BY <1>1, <2>4, <2>5, <2>6, <2>7 DEF n
<1>2. CASE nEvent = "E"
  <2> DEFINE u == Clears(s, {"PARODD"})
             t == Sets(u, {"PARENB"})
  <2>0. /\ u \in Settings /\ u.cflag = s.cflag \ {"PARODD"} /\ u.iflag = s.iflag
        /\ u.code = s.code /\ u.size = s.size /\ u.raw = s.raw
    BY ClearsFlags
  <2> HIDE DEF u
  <2>1. /\ t \in Settings /\ t.cflag = u.cflag \cup {"PARENB"} /\ t.iflag = u.iflag
        /\ t.code = u.code /\ t.size = u.size /\ t.raw = u.raw
    BY <2>0, SetsFlags DEF CFlags
  <2>2. WithParity(s, nEvent) = [t EXCEPT !.iflag = @ \cup {"INPCK"}]
    BY <1>2 DEF WithParity, u
  <2> HIDE DEF t
  <2>3. LET n == [t EXCEPT !.iflag = @ \cup {"INPCK"}] IN
        /\ n \in Settings /\ n.code = t.code /\ n.size = t.size /\ n.raw = t.raw
        /\ n.cflag = t.cflag /\ n.iflag = t.iflag \cup {"INPCK"}
    BY <2>1 DEF Settings
  <2> DEFINE n == WithParity(s, nEvent)
  <2>4. /\ n \in Settings /\ n.code = s.code /\ n.size = s.size /\ n.raw = s.raw
        /\ n.cflag = (s.cflag \ {"PARODD"}) \cup {"PARENB"}
    BY <2>0, <2>1, <2>2, <2>3
  <2>5. /\ "IXON" \in n.iflag <=> "IXON" \in s.iflag
        /\ "IXOFF" \in n.iflag <=> "IXOFF" \in s.iflag
    BY <2>0, <2>1, <2>2, <2>3
  <2> HIDE DEF n
  <2>6. \A flag \in CFlags \ {"PARENB", "PARODD", "CMSPAR"} :
          flag \in n.cflag <=> flag \in s.cflag
    BY <2>4
  <2>7. /\ "PARENB" \in n.cflag
        /\ "CMSPAR" \in n.cflag <=> "CMSPAR" \in s.cflag \/ nEvent = "S"
        /\ "PARODD" \in n.cflag <=> nEvent = "O"
    BY <1>2, <2>4
  <2> QED BY <1>2, <2>4, <2>5, <2>6, <2>7 DEF n
<1>3. CASE nEvent = "N"
  <2>1. WithParity(s, nEvent) = Clears(s, {"PARENB"})
    BY <1>3 DEF WithParity
  <2> QED BY <1>3, <2>1, ClearsFlags DEF CFlags
<1>4. CASE nEvent = "M"
  <2>1. WithParity(s, nEvent) = Sets(s, {"PARENB", "PARODD", "CMSPAR"})
    BY <1>4 DEF WithParity
  <2>2. {"PARENB", "PARODD", "CMSPAR"} \in SUBSET CFlags
    BY DEF CFlags
  <2> QED BY <1>4, <2>1, <2>2, SetsFlags DEF CFlags
<1>5. CASE nEvent = "S"
  <2> DEFINE u == Clears(s, {"PARODD"})
             t == Sets(u, {"CMSPAR", "PARENB"})
  <2>0. /\ u \in Settings /\ u.cflag = s.cflag \ {"PARODD"} /\ u.iflag = s.iflag
        /\ u.code = s.code /\ u.size = s.size /\ u.raw = s.raw
    BY ClearsFlags
  <2> HIDE DEF u
  <2>1. /\ t \in Settings /\ t.cflag = u.cflag \cup {"CMSPAR", "PARENB"} /\ t.iflag = u.iflag
        /\ t.code = u.code /\ t.size = u.size /\ t.raw = u.raw
    BY <2>0, SetsFlags DEF CFlags
  <2>2. WithParity(s, nEvent)
          = [t EXCEPT !.iflag = (@ \cup {"INPCK", "PARMRK"}) \ {"IGNPAR"}]
    BY <1>5 DEF WithParity, u
  <2> HIDE DEF t
  <2>3. LET n == [t EXCEPT !.iflag = (@ \cup {"INPCK", "PARMRK"}) \ {"IGNPAR"}] IN
        /\ n \in Settings /\ n.code = t.code /\ n.size = t.size /\ n.raw = t.raw
        /\ n.cflag = t.cflag /\ n.iflag = (t.iflag \cup {"INPCK", "PARMRK"}) \ {"IGNPAR"}
    BY <2>1 DEF Settings
  <2> DEFINE n == WithParity(s, nEvent)
  <2>4. /\ n \in Settings /\ n.code = s.code /\ n.size = s.size /\ n.raw = s.raw
        /\ n.cflag = (s.cflag \ {"PARODD"}) \cup {"CMSPAR", "PARENB"}
    BY <2>0, <2>1, <2>2, <2>3
  <2>5. /\ "IXON" \in n.iflag <=> "IXON" \in s.iflag
        /\ "IXOFF" \in n.iflag <=> "IXOFF" \in s.iflag
    BY <2>0, <2>1, <2>2, <2>3
  <2> HIDE DEF n
  <2>6. \A flag \in CFlags \ {"PARENB", "PARODD", "CMSPAR"} :
          flag \in n.cflag <=> flag \in s.cflag
    BY <2>4
  <2>7. /\ "PARENB" \in n.cflag
        /\ "CMSPAR" \in n.cflag <=> "CMSPAR" \in s.cflag \/ nEvent = "S"
        /\ "PARODD" \in n.cflag <=> nEvent = "O"
    BY <1>5, <2>4
  <2> QED BY <1>5, <2>4, <2>5, <2>6, <2>7 DEF n
<1> QED BY <1>1, <1>2, <1>3, <1>4, <1>5

\* Flow control: 0 takes the high speed away, and leaves that of the input.
LEMMA FlowFlags ==
  ASSUME NEW s \in Settings, NEW flow_ctrl \in 0..2
  PROVE  LET n == WithFlow(s, flow_ctrl) IN
         /\ n \in Settings /\ n.code = s.code /\ n.size = s.size /\ n.raw = s.raw
         /\ \A flag \in {"CSTOPB", "PARENB", "PARODD", "CMSPAR"} :
              flag \in n.cflag <=> flag \in s.cflag
         /\ "CBAUDEX" \in n.cflag <=> flow_ctrl # 0 /\ "CBAUDEX" \in s.cflag
         /\ "CRTSCTS" \in n.cflag <=> flow_ctrl = 1 \/ (flow_ctrl = 2 /\ "CRTSCTS" \in s.cflag)
         /\ "IXON" \in n.iflag <=> flow_ctrl = 2 \/ "IXON" \in s.iflag
         /\ "IXOFF" \in n.iflag <=> flow_ctrl = 2 \/ "IXOFF" \in s.iflag
<1>1. CASE flow_ctrl = 0
  <2>1. WithFlow(s, flow_ctrl) = Clears(s, {"CRTSCTS", "HUPCL", "CBAUDEX"})
    BY <1>1 DEF WithFlow
  <2> QED BY <1>1, <2>1, ClearsFlags DEF CFlags
<1>2. CASE flow_ctrl = 1
  <2>1. WithFlow(s, flow_ctrl) = Sets(s, {"CRTSCTS"})
    BY <1>2 DEF WithFlow
  <2>2. {"CRTSCTS"} \in SUBSET CFlags
    BY DEF CFlags
  <2> QED BY <1>2, <2>1, <2>2, SetsFlags
<1>3. CASE flow_ctrl = 2
  <2>1. WithFlow(s, flow_ctrl) = [s EXCEPT !.iflag = @ \cup {"IXON", "IXOFF", "IXANY"}]
    BY <1>3 DEF WithFlow
  <2>2. LET n == [s EXCEPT !.iflag = @ \cup {"IXON", "IXOFF", "IXANY"}] IN
        /\ n \in Settings /\ n.code = s.code /\ n.size = s.size /\ n.raw = s.raw
        /\ n.cflag = s.cflag /\ n.iflag = s.iflag \cup {"IXON", "IXOFF", "IXANY"}
    BY DEF Settings
  <2> DEFINE n == WithFlow(s, flow_ctrl)
  <2>3. /\ n \in Settings /\ n.code = s.code /\ n.size = s.size /\ n.raw = s.raw
        /\ n.cflag = s.cflag
    BY <2>1, <2>2
  <2>4. "IXON" \in n.iflag /\ "IXOFF" \in n.iflag
    BY <2>1, <2>2
  <2> HIDE DEF n
  <2> QED BY <1>3, <2>3, <2>4 DEF n
<1> QED BY <1>1, <1>2, <1>3

\* n is what setopt leaves of s, flag by flag.
FlagsLeft(s, n, nSpeed, flow_ctrl, nBits, nStop, nEvent) ==
  /\ n \in Settings /\ n.raw = TRUE /\ n.size = nBits
  /\ n.code = IF Contains(High, nSpeed) THEN HighCode(nSpeed) ELSE LowCode(nSpeed) - 1
  /\ "CBAUDEX" \in n.cflag <=> flow_ctrl # 0 /\ Contains(High, nSpeed)
  /\ "CSTOPB" \in n.cflag <=> nStop = 2
  /\ "PARENB" \in n.cflag <=> nEvent # "N"
  /\ "CMSPAR" \in n.cflag <=> "CMSPAR" \in s.cflag \/ nEvent \in {"M", "S"}
  /\ nEvent # "N" => ("PARODD" \in n.cflag <=> nEvent \in {"O", "M"})
  /\ "CRTSCTS" \in n.cflag <=> flow_ctrl = 1 \/ (flow_ctrl = 2 /\ "CRTSCTS" \in s.cflag)
  /\ "IXON" \in n.iflag <=> flow_ctrl = 2
  /\ "IXOFF" \in n.iflag <=> flow_ctrl = 2 \/ "IXOFF" \in s.iflag

LEMMA SetOptFlags ==
  ASSUME NEW s \in Settings, NEW nSpeed \in Offered, NEW flow_ctrl \in 0..2,
         NEW nBits \in 5..8, NEW nStop \in {1, 2}, NEW nEvent \in {"O", "E", "N", "M", "S"}
  PROVE  FlagsLeft(s, SetOpt(s, nSpeed, flow_ctrl, nBits, nStop, nEvent),
                   nSpeed, flow_ctrl, nBits, nStop, nEvent)
<1> DEFINE a == WithSpeed(s, nSpeed)
           b == [MakeRaw(a) EXCEPT !.size = nBits]
           c == WithStop(b, nStop)
           d == WithParity(c, nEvent)
           n == WithFlow(d, flow_ctrl)
<1>1. SetOpt(s, nSpeed, flow_ctrl, nBits, nStop, nEvent) = n
  BY DEF SetOpt, Valid
<1>2. /\ a \in Settings /\ a.iflag = s.iflag
      /\ \A flag \in CFlags \ {"CBAUDEX"} : flag \in a.cflag <=> flag \in s.cflag
      /\ "CBAUDEX" \in a.cflag <=> Contains(High, nSpeed)
      /\ a.code = IF Contains(High, nSpeed) THEN HighCode(nSpeed) ELSE LowCode(nSpeed) - 1
  BY WithSpeedFlags
<1> HIDE DEF a
<1>3. /\ b \in Settings /\ b.code = a.code /\ b.size = nBits /\ b.raw = TRUE
      /\ b.cflag = a.cflag \ {"PARENB"}
      /\ b.iflag = a.iflag \ {"IXON", "PARMRK"}
  BY <1>2, RawFlags
<1> HIDE DEF b
<1>4. /\ c \in Settings /\ c.code = b.code /\ c.size = b.size /\ c.raw = b.raw
      /\ c.iflag = b.iflag
      /\ \A flag \in CFlags \ {"CSTOPB"} : flag \in c.cflag <=> flag \in b.cflag
      /\ "CSTOPB" \in c.cflag <=> nStop = 2
  BY <1>3, StopFlags
<1> HIDE DEF c
<1>5. /\ d \in Settings /\ d.code = c.code /\ d.size = c.size /\ d.raw = c.raw
      /\ \A flag \in CFlags \ {"PARENB", "PARODD", "CMSPAR"} :
           flag \in d.cflag <=> flag \in c.cflag
      /\ "PARENB" \in d.cflag <=> nEvent # "N"
      /\ "CMSPAR" \in d.cflag <=> "CMSPAR" \in c.cflag \/ nEvent \in {"M", "S"}
      /\ "PARODD" \in d.cflag <=> nEvent \in {"O", "M"} \/ (nEvent = "N" /\ "PARODD" \in c.cflag)
      /\ "IXON" \in d.iflag <=> "IXON" \in c.iflag
      /\ "IXOFF" \in d.iflag <=> "IXOFF" \in c.iflag
  BY <1>4, ParityFlags
<1> HIDE DEF d
<1>6. /\ n \in Settings /\ n.code = d.code /\ n.size = d.size /\ n.raw = d.raw
      /\ \A flag \in {"CSTOPB", "PARENB", "PARODD", "CMSPAR"} :
           flag \in n.cflag <=> flag \in d.cflag
      /\ "CBAUDEX" \in n.cflag <=> flow_ctrl # 0 /\ "CBAUDEX" \in d.cflag
      /\ "CRTSCTS" \in n.cflag <=> flow_ctrl = 1 \/ (flow_ctrl = 2 /\ "CRTSCTS" \in d.cflag)
      /\ "IXON" \in n.iflag <=> flow_ctrl = 2 \/ "IXON" \in d.iflag
      /\ "IXOFF" \in n.iflag <=> flow_ctrl = 2 \/ "IXOFF" \in d.iflag
  BY <1>5, FlowFlags
<1> HIDE DEF n
<1>7. /\ n.raw = TRUE /\ n.size = nBits /\ n.code = a.code
      /\ "IXON" \notin d.iflag
      /\ "IXOFF" \in d.iflag <=> "IXOFF" \in s.iflag
  BY <1>2, <1>3, <1>4, <1>5, <1>6
<1>8. /\ "CBAUDEX" \in d.cflag <=> Contains(High, nSpeed)
      /\ "CSTOPB" \in d.cflag <=> nStop = 2
      /\ "CMSPAR" \in c.cflag <=> "CMSPAR" \in s.cflag
      /\ "CRTSCTS" \in d.cflag <=> "CRTSCTS" \in s.cflag
  BY <1>2, <1>3, <1>4, <1>5 DEF CFlags
<1> QED BY <1>1, <1>2, <1>5, <1>6, <1>7, <1>8 DEF FlagsLeft

\* setopt gives what it was asked for, but for the three exceptions.
LEMMA SetOptAsAsked ==
  ASSUME NEW s \in Settings, NEW nSpeed \in Offered, NEW flow_ctrl \in 0..2,
         NEW nBits \in 5..8, NEW nStop \in {1, 2}, NEW nEvent \in {"O", "E", "N", "M", "S"}
  PROVE  AsAsked(s, SetOpt(s, nSpeed, flow_ctrl, nBits, nStop, nEvent),
                 nSpeed, flow_ctrl, nBits, nStop, nEvent)
<1> DEFINE n == SetOpt(s, nSpeed, flow_ctrl, nBits, nStop, nEvent)
<1>1. FlagsLeft(s, n, nSpeed, flow_ctrl, nBits, nStop, nEvent)
  BY SetOptFlags
<1> HIDE DEF n
<1>2. \A t \in Settings :
        /\ t.cflag \in SUBSET CFlags /\ t.iflag \in SUBSET IFlags
        /\ \A flag \in {"CSTOPB", "CRTSCTS", "CMSPAR"} :
             flag \in t.cflag \cup t.iflag <=> flag \in t.cflag
        /\ \A flag \in {"IXON", "IXOFF"} :
             flag \in t.cflag \cup t.iflag <=> flag \in t.iflag
  BY SettingsFields DEF CFlags, IFlags
<1>3. Speed(n) = IF flow_ctrl = 0 /\ Contains(High, nSpeed)
                 THEN Low[1 + CHOOSE c \in DOMAIN High : High[c] = nSpeed] ELSE nSpeed
  <2>1. CASE Contains(High, nSpeed) /\ flow_ctrl = 0
    <3>1. Speed(n) = Low[HighCode(nSpeed) + 1]
      BY <1>1, <2>1 DEF Speed, FlagsLeft
    <3>2. HighCode(nSpeed) + 1 = 1 + HighCode(nSpeed)
      BY <2>1, SpeedCodes
    <3> QED BY <2>1, <3>1, <3>2 DEF HighCode
  <2>2. CASE Contains(High, nSpeed) /\ flow_ctrl # 0
    <3>1. Speed(n) = High[HighCode(nSpeed)]
      BY <1>1, <2>2 DEF Speed, FlagsLeft
    <3> QED BY <2>2, <3>1, SpeedCodes
  <2>3. CASE ~Contains(High, nSpeed)
    <3>1. Speed(n) = Low[(LowCode(nSpeed) - 1) + 1]
      BY <1>1, <2>3 DEF Speed, FlagsLeft
    <3>2. LowCode(nSpeed) \in 1..16 /\ Low[LowCode(nSpeed)] = nSpeed
      BY <2>3, SpeedCodes
    <3>3. (LowCode(nSpeed) - 1) + 1 = LowCode(nSpeed)
      BY <3>2
    <3> QED BY <2>3, <3>1, <3>2, <3>3
  <2> QED BY <2>1, <2>2, <2>3
<1>4. Parity(n) = IF "CMSPAR" \in s.cflag \cup s.iflag /\ nEvent \in {"O", "E"}
                  THEN Stuck(nEvent) ELSE nEvent
  <2>1. "CMSPAR" \in s.cflag \cup s.iflag <=> "CMSPAR" \in s.cflag
    BY <1>2
  <2>2. CASE nEvent = "N"
    BY <1>1, <2>2 DEF Parity, FlagsLeft
  <2>3. CASE nEvent # "N"
    <3>1. Parity(n) = IF "CMSPAR" \in n.cflag
                      THEN IF "PARODD" \in n.cflag THEN "M" ELSE "S"
                      ELSE IF "PARODD" \in n.cflag THEN "O" ELSE "E"
      <4>1. "PARENB" \in n.cflag
        BY <1>1, <2>3 DEF FlagsLeft
      <4>2. {"PARENB", "CMSPAR"} \subseteq n.cflag <=> "CMSPAR" \in n.cflag
        BY <4>1
      <4> QED BY <4>1, <4>2 DEF Parity
    <3> QED BY <1>1, <2>1, <2>3, <3>1 DEF Stuck, FlagsLeft
  <2> QED BY <2>2, <2>3
<1>5. /\ ("CSTOPB" \in n.cflag \cup n.iflag) = (nStop = 2)
      /\ ("CRTSCTS" \in n.cflag \cup n.iflag)
           = (flow_ctrl = 1 \/ (flow_ctrl = 2 /\ "CRTSCTS" \in s.cflag \cup s.iflag))
      /\ ("IXON" \in n.cflag \cup n.iflag) = (flow_ctrl = 2)
      /\ ("IXOFF" \in n.cflag \cup n.iflag)
           = (flow_ctrl = 2 \/ "IXOFF" \in s.cflag \cup s.iflag)
  BY <1>1, <1>2 DEF FlagsLeft
<1> QED BY <1>1, <1>3, <1>4, <1>5 DEF AsAsked, FlagsLeft, n
-----------------------------------------------------------------------------
(* The steps of main.                                                      *)

Late     == {"signal", "net", "attach", "imei", "configure", "start", "status", "queue",
             "heart", "msg", "sensor", "capture", "register", "reply", "serve"}
Running  == {"msg", "sensor", "capture", "register", "reply", "serve"}
Online   == Running \cup {"queue", "heart"}
Signaled == Online \cup {"net", "attach", "imei", "configure", "start", "status"}

\* The loops count what has failed.
Counting ==
  /\ pc = "echo"   => left \in 1..EchoTries /\ failures = EchoTries - left
  /\ pc = "signal" => left \in 1..SignalTries /\ failures = SignalTries - left
  /\ pc = "start"  => left \in 1..StartTries /\ failures = StartTries - left
  /\ pc \in {"init", "options", "test", "echo", "signal"} => rounds = 0
  /\ pc \in {"net", "attach"} => failures = rounds /\ rounds <= NetRounds
  /\ pc = "register" => failures = times /\ times <= RegisterTries

\* What each step leaves for those behind it.
Reached ==
  /\ pc \in Late => ~echo_enable
  /\ pc \in Signaled => signal >= WeakSignal /\ said > 0
  /\ pc \in Online => connected
  /\ threads # {} => pc \in Running \cup {"gone"}
  /\ threads # {} => connected /\ signal >= WeakSignal /\ said > 0
  /\ pc = "msg" => threads = {"heart"}
  /\ pc = "sensor" => threads = {"heart", "msg"}
  /\ pc = "capture" => threads = {"heart", "msg", "sensor"}
  /\ pc \in {"register", "reply", "serve"} => threads = Threads
  /\ pc \in {"reply", "serve"} => registered \/ times > RegisterTries

\* The serial line is as it was, or as main asked for.
LineSet ==
  /\ pc \in {"init", "options"} => line = before
  /\ pc \notin {"init", "gone"} => open
  /\ pc \notin {"init", "options", "gone"} =>
       line = SetOpt(before, 9600, 0, 8, 1, "N")

BootInv == TypeOK /\ Counting /\ Reached /\ LineSet /\ GivesUpLate

-----------------------------------------------------------------------------
(* Every step keeps BootInv: one lemma for each action.                    *)

LEMMA Bounds ==
  /\ EchoTries \in Nat /\ EchoTries > 0 /\ SignalTries \in Nat /\ SignalTries > 0
  /\ NetTries \in Nat /\ NetTries > 0 /\ StartTries \in Nat /\ StartTries > 0
  /\ Commands \in Nat /\ Commands > 0
  /\ NetRounds \in Nat /\ RegisterTries \in Nat /\ WeakSignal \in Nat
BY BootConstantsOK

\* TypeOK by parts.
PlaceTypes == /\ pc \in Steps \cup {"gone"} /\ gaveUp \in Steps \cup {""}
              /\ gaveUp = "" <=> pc # "gone"
CountTypes == /\ left \in Nat /\ failures \in Nat /\ rounds \in Nat /\ rounds <= NetRounds + 1
              /\ times \in Nat /\ times <= RegisterTries + 1
FlagTypes  == /\ args \in BOOLEAN /\ echo_enable \in BOOLEAN /\ connected \in BOOLEAN
              /\ registered \in BOOLEAN /\ open \in BOOLEAN
              /\ imei \in {"zeros", "read"}
DataTypes  == /\ signal \in Int /\ said \in 0..99 /\ threads \in SUBSET Threads
              /\ line \in Settings /\ before \in Settings

\* The parts say what TypeOK says.
LEMMA Parts == TypeOK <=> PlaceTypes /\ CountTypes /\ FlagTypes /\ DataTypes
<1>1. \A k, n : n \in Nat => (k \in 0..(n + 1) <=> k \in Nat /\ k <= n + 1)
  OBVIOUS
<1>2. /\ rounds \in 0..(NetRounds + 1) <=> rounds \in Nat /\ rounds <= NetRounds + 1
      /\ times \in 0..(RegisterTries + 1) <=> times \in Nat /\ times <= RegisterTries + 1
  BY <1>1, Bounds
<1>3. {echo_enable, connected, registered} \subseteq BOOLEAN
        <=> echo_enable \in BOOLEAN /\ connected \in BOOLEAN /\ registered \in BOOLEAN
  OBVIOUS
<1>4. TypeOK => PlaceTypes
  BY DEF TypeOK, PlaceTypes
<1>5. TypeOK => CountTypes
  BY <1>2 DEF TypeOK, CountTypes
<1>6. TypeOK => FlagTypes
  BY <1>3 DEF TypeOK, FlagTypes
<1>7. TypeOK => DataTypes
  BY DEF TypeOK, DataTypes
<1>8. PlaceTypes /\ CountTypes /\ FlagTypes /\ DataTypes => TypeOK
  <2> SUFFICES ASSUME PlaceTypes, CountTypes, FlagTypes, DataTypes PROVE TypeOK
    OBVIOUS
  <2>1. /\ pc \in Steps \cup {"gone"} /\ gaveUp \in Steps \cup {""}
        /\ (gaveUp = "") <=> (pc # "gone")
    BY DEF PlaceTypes
  <2>2. /\ left \in Nat /\ failures \in Nat /\ rounds \in 0..(NetRounds + 1)
        /\ times \in 0..(RegisterTries + 1)
    BY <1>2 DEF CountTypes
  <2>3. {echo_enable, connected, registered} \subseteq BOOLEAN
    BY <1>3 DEF FlagTypes
  <2>4. args \in BOOLEAN /\ open \in BOOLEAN /\ imei \in {"zeros", "read"}
    BY DEF FlagTypes
  <2>5. /\ signal \in Int /\ said \in 0..99 /\ threads \in SUBSET Threads
        /\ line \in Settings /\ before \in Settings
    BY DEF DataTypes
  <2> QED BY <2>1, <2>2, <2>3, <2>4, <2>5 DEF TypeOK
<1> QED BY <1>4, <1>5, <1>6, <1>7, <1>8

LEMMA PartsNext == TypeOK' <=> PlaceTypes' /\ CountTypes' /\ FlagTypes' /\ DataTypes'
BY Parts, PTL

LEMMA ModemInitKeeps == BootInv /\ ModemInit => BootInv'
<1> SUFFICES ASSUME BootInv, ModemInit PROVE BootInv'
  OBVIOUS
<1>0. /\ PlaceTypes /\ CountTypes /\ FlagTypes /\ DataTypes
      /\ Counting /\ Reached /\ LineSet
  BY Parts DEF BootInv
<1>1. PlaceTypes'
  BY <1>0 DEF PlaceTypes, Steps, ModemInit, Enter, Quit, loopVars, modemVars, lineVars
<1>2. CountTypes'
  BY <1>0, Bounds DEF CountTypes, Counting, ModemInit, Enter, Quit, loopVars, modemVars, lineVars
<1>3. FlagTypes'
  BY <1>0 DEF FlagTypes, ModemInit, Enter, Quit, loopVars, modemVars, lineVars
<1>4. DataTypes'
  BY <1>0 DEF DataTypes, ModemInit, Enter, Quit, loopVars, modemVars, lineVars
<1>5. Counting'
  BY <1>0, Bounds DEF CountTypes, Counting, ModemInit, Enter, Quit, loopVars, modemVars, lineVars
<1>6. Reached'
  BY <1>0, Bounds DEF DataTypes, Reached, Late, Signaled, Online, Running, Threads, ModemInit, Enter, Quit, loopVars, modemVars, lineVars
<1>7. LineSet'
  BY <1>0 DEF LineSet, ModemInit, Enter, Quit, loopVars, modemVars, lineVars
<1>8. GivesUpLate'
  BY <1>0, Bounds DEF CountTypes, Counting, Reached, Running, GivesUpLate, Patience, ModemInit, Enter, Quit, loopVars, modemVars, lineVars
<1> QED BY <1>1, <1>2, <1>3, <1>4, <1>5, <1>6, <1>7, <1>8, PartsNext DEF BootInv

LEMMA SetUpLineKeeps == BootInv /\ SetUpLine => BootInv'
<1> SUFFICES ASSUME BootInv, SetUpLine PROVE BootInv'
  OBVIOUS
<1>0. /\ PlaceTypes /\ CountTypes /\ FlagTypes /\ DataTypes
      /\ Counting /\ Reached /\ LineSet
  BY Parts DEF BootInv
<1> DEFINE Asked(s) == SetOpt(s, 9600, 0, 8, 1, "N")
<1>a. /\ pc = "options"
      /\ \/ line' = Asked(line) /\ UNCHANGED open /\ Enter("test", 1)
         \/ UNCHANGED line /\ open' = FALSE /\ Quit
      /\ UNCHANGED <<before, rounds, times, signal, imei, args, threads,
                     echo_enable, connected, registered, said>>
  BY DEF SetUpLine
<1>b. Asked(line) \in Settings
  <2>1. 9600 \in Offered
    BY DEF Offered
  <2>2. line \in Settings
    BY <1>0 DEF DataTypes
  <2>3. FlagsLeft(line, Asked(line), 9600, 0, 8, 1, "N")
    BY <2>1, <2>2, SetOptFlags
  <2> QED BY <2>3 DEF FlagsLeft
<1> HIDE DEF Asked
<1>1. PlaceTypes'
  BY <1>0, <1>a DEF PlaceTypes, Steps, Enter, Quit
<1>2. CountTypes'
  BY <1>0, <1>a, Bounds DEF CountTypes, Enter, Quit
<1>3. FlagTypes'
  BY <1>0, <1>a DEF FlagTypes
<1>4. DataTypes'
  BY <1>0, <1>a, <1>b DEF DataTypes
<1>5. Counting'
  BY <1>0, <1>a, Bounds DEF CountTypes, Counting, Enter, Quit
<1>6. Reached'
  BY <1>0, <1>a, Bounds DEF DataTypes, Reached, Late, Signaled, Online, Running, Threads, Enter, Quit
<1>7. LineSet'
  <2>1. CASE pc' = "gone"
    BY <2>1 DEF LineSet
  <2>2. CASE pc' # "gone"
    <3>0. line = before
      BY <1>0, <1>a DEF LineSet
    <3>1. pc' = "test" /\ open' = open /\ line' = Asked(line) /\ line = before /\ before' = before
      BY <1>a, <2>2, <3>0 DEF Enter, Quit
    <3>2. open'
      BY <1>0, <1>a, <3>1 DEF LineSet
    <3>3. line' = Asked(before')
      BY <3>1
    <3> QED BY <3>1, <3>2, <3>3 DEF LineSet, Asked
  <2> QED BY <2>1, <2>2
<1>8. GivesUpLate'
  BY <1>0, <1>a, Bounds DEF CountTypes, Counting, Reached, Running, GivesUpLate, Patience, Enter, Quit
<1> QED BY <1>1, <1>2, <1>3, <1>4, <1>5, <1>6, <1>7, <1>8, PartsNext DEF BootInv

LEMMA CheckTestKeeps == BootInv /\ CheckTest => BootInv'
<1> SUFFICES ASSUME BootInv, CheckTest PROVE BootInv'
  OBVIOUS
<1>0. /\ PlaceTypes /\ CountTypes /\ FlagTypes /\ DataTypes
      /\ Counting /\ Reached /\ LineSet
  BY Parts DEF BootInv
<1>1. PlaceTypes'
  BY <1>0 DEF PlaceTypes, Steps, CheckTest, Enter, Quit, loopVars, modemVars, lineVars
<1>2. CountTypes'
  BY <1>0, Bounds DEF CountTypes, Counting, CheckTest, Enter, Quit, loopVars, modemVars, lineVars
<1>3. FlagTypes'
  BY <1>0 DEF FlagTypes, CheckTest, Enter, Quit, loopVars, modemVars, lineVars
<1>4. DataTypes'
  BY <1>0 DEF DataTypes, CheckTest, Enter, Quit, loopVars, modemVars, lineVars
<1>5. Counting'
  BY <1>0, Bounds DEF CountTypes, Counting, CheckTest, Enter, Quit, loopVars, modemVars, lineVars
<1>6. Reached'
  BY <1>0, Bounds DEF DataTypes, Reached, Late, Signaled, Online, Running, Threads, CheckTest, Enter, Quit, loopVars, modemVars, lineVars
<1>7. LineSet'
  BY <1>0 DEF LineSet, CheckTest, Enter, Quit, loopVars, modemVars, lineVars
<1>8. GivesUpLate'
  BY <1>0, Bounds DEF CountTypes, Counting, Reached, Running, GivesUpLate, Patience, CheckTest, Enter, Quit, loopVars, modemVars, lineVars
<1> QED BY <1>1, <1>2, <1>3, <1>4, <1>5, <1>6, <1>7, <1>8, PartsNext DEF BootInv

LEMMA DisableEchoKeeps == BootInv /\ DisableEcho => BootInv'
<1> SUFFICES ASSUME BootInv, DisableEcho PROVE BootInv'
  OBVIOUS
<1>0. /\ PlaceTypes /\ CountTypes /\ FlagTypes /\ DataTypes
      /\ Counting /\ Reached /\ LineSet
  BY Parts DEF BootInv
<1>1. PlaceTypes'
  BY <1>0 DEF PlaceTypes, Steps, DisableEcho, Enter, Quit, Succeeds, Fails, loopVars, modemVars, lineVars
<1>2. CountTypes'
  BY <1>0, Bounds DEF CountTypes, Counting, DisableEcho, Enter, Quit, Succeeds, Fails, loopVars, modemVars, lineVars
<1>3. FlagTypes'
  BY <1>0 DEF FlagTypes, DisableEcho, Enter, Quit, Succeeds, Fails, loopVars, modemVars, lineVars
<1>4. DataTypes'
  BY <1>0 DEF DataTypes, DisableEcho, Enter, Quit, Succeeds, Fails, loopVars, modemVars, lineVars
<1>5. Counting'
  BY <1>0, Bounds DEF CountTypes, Counting, DisableEcho, Enter, Quit, Succeeds, Fails, loopVars, modemVars, lineVars
<1>6. Reached'
  BY <1>0, Bounds DEF DataTypes, Reached, Late, Signaled, Online, Running, Threads, DisableEcho, Enter, Quit, Succeeds, Fails, loopVars, modemVars, lineVars
<1>7. LineSet'
  BY <1>0 DEF LineSet, DisableEcho, Enter, Quit, Succeeds, Fails, loopVars, modemVars, lineVars
<1>8. GivesUpLate'
  BY <1>0, Bounds DEF CountTypes, Counting, Reached, Running, GivesUpLate, Patience, DisableEcho, Enter, Quit, Succeeds, Fails, loopVars, modemVars, lineVars
<1> QED BY <1>1, <1>2, <1>3, <1>4, <1>5, <1>6, <1>7, <1>8, PartsNext DEF BootInv

LEMMA GetSignalKeeps == BootInv /\ GetSignal => BootInv'
<1> SUFFICES ASSUME BootInv, GetSignal PROVE BootInv'
  OBVIOUS
<1>0. /\ PlaceTypes /\ CountTypes /\ FlagTypes /\ DataTypes
      /\ Counting /\ Reached /\ LineSet
  BY Parts DEF BootInv
<1>a. Strengths \subseteq 0..99 /\ \A v \in Strengths : Reading(v) \in Int
  BY BootConstantsOK DEF Reading
<1>b. \A v \in Strengths : Reading(v) >= WeakSignal => v > 0
  BY <1>a, Bounds DEF Reading
<1>c. \/ signal' = signal /\ said' = said /\ pc' # "net"
      \/ \E v \in Strengths : /\ said' = v /\ signal' = Reading(v)
                              /\ pc' = "net" => Reading(v) >= WeakSignal
  <2>1. CASE Fails /\ UNCHANGED <<signal, said>>
    BY <2>1 DEF GetSignal, Fails
  <2>2. CASE \E v \in Strengths :
               /\ said' = v /\ signal' = Reading(v)
               /\ IF signal' < WeakSignal THEN Fails ELSE Succeeds("net", NetTries)
    <3>1. PICK v \in Strengths :
               /\ said' = v /\ signal' = Reading(v)
               /\ IF signal' < WeakSignal THEN Fails ELSE Succeeds("net", NetTries)
      BY <2>2
    <3>2. CASE Reading(v) < WeakSignal
      <4>1. pc' # "net"
        BY <3>1, <3>2 DEF Fails, GetSignal
      <4> QED BY <3>1, <4>1
    <3>3. CASE ~(Reading(v) < WeakSignal)
      <4>1. Reading(v) >= WeakSignal
        BY <1>a, <3>3, Bounds
      <4> QED BY <3>1, <4>1
    <3> QED BY <3>2, <3>3
  <2> QED BY <2>1, <2>2 DEF GetSignal
<1>d. /\ pc = "signal" /\ pc' \in {"signal", "net", "gone"}
      /\ UNCHANGED <<line, before, threads, echo_enable, connected, registered, times>>
  BY DEF GetSignal, Fails, Succeeds, Enter, Quit, lineVars
<1>1. PlaceTypes'
  BY <1>0 DEF PlaceTypes, Steps, GetSignal, Enter, Quit, Succeeds, Fails, loopVars, modemVars, lineVars
<1>2. CountTypes'
  BY <1>0, Bounds DEF CountTypes, Counting, GetSignal, Enter, Quit, Succeeds, Fails, loopVars, modemVars, lineVars
<1>3. FlagTypes'
  BY <1>0 DEF FlagTypes, GetSignal, Enter, Quit, Succeeds, Fails, loopVars, modemVars, lineVars
<1>4. DataTypes'
  BY <1>0, <1>a, <1>c, <1>d DEF DataTypes
<1>5. Counting'
  BY <1>0, Bounds DEF CountTypes, Counting, GetSignal, Enter, Quit, Succeeds, Fails, loopVars, modemVars, lineVars
<1>6. Reached'
  <2>1. pc' = "net" => signal' >= WeakSignal /\ said' > 0
    BY <1>a, <1>b, <1>c
  <2>2. threads = {}
    BY <1>0, <1>d DEF Reached, Running
  <2> QED BY <1>0, <1>d, <2>1, <2>2 DEF Reached, Late, Signaled, Online, Running
<1>7. LineSet'
  BY <1>0 DEF LineSet, GetSignal, Enter, Quit, Succeeds, Fails, loopVars, modemVars, lineVars
<1>8. GivesUpLate'
  BY <1>0, Bounds DEF CountTypes, Counting, Reached, Running, GivesUpLate, Patience, GetSignal, Enter, Quit, Succeeds, Fails, loopVars, modemVars, lineVars
<1> QED BY <1>1, <1>2, <1>3, <1>4, <1>5, <1>6, <1>7, <1>8, PartsNext DEF BootInv

LEMMA AskNetKeeps == BootInv /\ AskNet => BootInv'
<1> SUFFICES ASSUME BootInv, AskNet PROVE BootInv'
  OBVIOUS
<1>0. /\ PlaceTypes /\ CountTypes /\ FlagTypes /\ DataTypes
      /\ Counting /\ Reached /\ LineSet
  BY Parts DEF BootInv
<1>1. PlaceTypes'
  BY <1>0 DEF PlaceTypes, Steps, AskNet, Enter, Quit, NetFails, loopVars, modemVars, lineVars
<1>2. CountTypes'
  BY <1>0, Bounds DEF CountTypes, Counting, AskNet, Enter, Quit, NetFails, loopVars, modemVars, lineVars
<1>3. FlagTypes'
  BY <1>0 DEF FlagTypes, AskNet, Enter, Quit, NetFails, loopVars, modemVars, lineVars
<1>4. DataTypes'
  BY <1>0 DEF DataTypes, AskNet, Enter, Quit, NetFails, loopVars, modemVars, lineVars
<1>5. Counting'
  BY <1>0, Bounds DEF CountTypes, Counting, AskNet, Enter, Quit, NetFails, loopVars, modemVars, lineVars
<1>6. Reached'
  BY <1>0, Bounds DEF DataTypes, Reached, Late, Signaled, Online, Running, Threads, AskNet, Enter, Quit, NetFails, loopVars, modemVars, lineVars
<1>7. LineSet'
  BY <1>0 DEF LineSet, AskNet, Enter, Quit, NetFails, loopVars, modemVars, lineVars
<1>8. GivesUpLate'
  BY <1>0, Bounds DEF CountTypes, Counting, Reached, Running, GivesUpLate, Patience, AskNet, Enter, Quit, NetFails, loopVars, modemVars, lineVars
<1> QED BY <1>1, <1>2, <1>3, <1>4, <1>5, <1>6, <1>7, <1>8, PartsNext DEF BootInv

LEMMA AskAttachedKeeps == BootInv /\ AskAttached => BootInv'
<1> SUFFICES ASSUME BootInv, AskAttached PROVE BootInv'
  OBVIOUS
<1>0. /\ PlaceTypes /\ CountTypes /\ FlagTypes /\ DataTypes
      /\ Counting /\ Reached /\ LineSet
  BY Parts DEF BootInv
<1>1. PlaceTypes'
  BY <1>0 DEF PlaceTypes, Steps, AskAttached, Enter, Quit, NetFails, loopVars, modemVars, lineVars
<1>2. CountTypes'
  BY <1>0, Bounds DEF CountTypes, Counting, AskAttached, Enter, Quit, NetFails, loopVars, modemVars, lineVars
<1>3. FlagTypes'
  BY <1>0 DEF FlagTypes, AskAttached, Enter, Quit, NetFails, loopVars, modemVars, lineVars
<1>4. DataTypes'
  BY <1>0 DEF DataTypes, AskAttached, Enter, Quit, NetFails, loopVars, modemVars, lineVars
<1>5. Counting'
  BY <1>0, Bounds DEF CountTypes, Counting, AskAttached, Enter, Quit, NetFails, loopVars, modemVars, lineVars
<1>6. Reached'
  BY <1>0, Bounds DEF DataTypes, Reached, Late, Signaled, Online, Running, Threads, AskAttached, Enter, Quit, NetFails, loopVars, modemVars, lineVars
<1>7. LineSet'
  BY <1>0 DEF LineSet, AskAttached, Enter, Quit, NetFails, loopVars, modemVars, lineVars
<1>8. GivesUpLate'
  BY <1>0, Bounds DEF CountTypes, Counting, Reached, Running, GivesUpLate, Patience, AskAttached, Enter, Quit, NetFails, loopVars, modemVars, lineVars
<1> QED BY <1>1, <1>2, <1>3, <1>4, <1>5, <1>6, <1>7, <1>8, PartsNext DEF BootInv

LEMMA GetImeiKeeps == BootInv /\ GetImei => BootInv'
<1> SUFFICES ASSUME BootInv, GetImei PROVE BootInv'
  OBVIOUS
<1>0. /\ PlaceTypes /\ CountTypes /\ FlagTypes /\ DataTypes
      /\ Counting /\ Reached /\ LineSet
  BY Parts DEF BootInv
<1>1. PlaceTypes'
  BY <1>0 DEF PlaceTypes, Steps, GetImei, Enter, Quit, loopVars, modemVars, lineVars
<1>2. CountTypes'
  BY <1>0, Bounds DEF CountTypes, Counting, GetImei, Enter, Quit, loopVars, modemVars, lineVars
<1>3. FlagTypes'
  BY <1>0 DEF FlagTypes, GetImei, Enter, Quit, loopVars, modemVars, lineVars
<1>4. DataTypes'
  BY <1>0 DEF DataTypes, GetImei, Enter, Quit, loopVars, modemVars, lineVars
<1>5. Counting'
  BY <1>0, Bounds DEF CountTypes, Counting, GetImei, Enter, Quit, loopVars, modemVars, lineVars
<1>6. Reached'
  BY <1>0, Bounds DEF DataTypes, Reached, Late, Signaled, Online, Running, Threads, GetImei, Enter, Quit, loopVars, modemVars, lineVars
<1>7. LineSet'
  BY <1>0 DEF LineSet, GetImei, Enter, Quit, loopVars, modemVars, lineVars
<1>8. GivesUpLate'
  BY <1>0, Bounds DEF CountTypes, Counting, Reached, Running, GivesUpLate, Patience, GetImei, Enter, Quit, loopVars, modemVars, lineVars
<1> QED BY <1>1, <1>2, <1>3, <1>4, <1>5, <1>6, <1>7, <1>8, PartsNext DEF BootInv

LEMMA ConfigureKeeps == BootInv /\ Configure => BootInv'
<1> SUFFICES ASSUME BootInv, Configure PROVE BootInv'
  OBVIOUS
<1>0. /\ PlaceTypes /\ CountTypes /\ FlagTypes /\ DataTypes
      /\ Counting /\ Reached /\ LineSet
  BY Parts DEF BootInv
<1>1. PlaceTypes'
  BY <1>0 DEF PlaceTypes, Steps, Configure, Enter, Quit, loopVars, modemVars, lineVars
<1>2. CountTypes'
  BY <1>0, Bounds DEF CountTypes, Counting, Configure, Enter, Quit, loopVars, modemVars, lineVars
<1>3. FlagTypes'
  BY <1>0 DEF FlagTypes, Configure, Enter, Quit, loopVars, modemVars, lineVars
<1>4. DataTypes'
  BY <1>0 DEF DataTypes, Configure, Enter, Quit, loopVars, modemVars, lineVars
<1>5. Counting'
  BY <1>0, Bounds DEF CountTypes, Counting, Configure, Enter, Quit, loopVars, modemVars, lineVars
<1>6. Reached'
  BY <1>0, Bounds DEF DataTypes, Reached, Late, Signaled, Online, Running, Threads, Configure, Enter, Quit, loopVars, modemVars, lineVars
<1>7. LineSet'
  BY <1>0 DEF LineSet, Configure, Enter, Quit, loopVars, modemVars, lineVars
<1>8. GivesUpLate'
  BY <1>0, Bounds DEF CountTypes, Counting, Reached, Running, GivesUpLate, Patience, Configure, Enter, Quit, loopVars, modemVars, lineVars
<1> QED BY <1>1, <1>2, <1>3, <1>4, <1>5, <1>6, <1>7, <1>8, PartsNext DEF BootInv

LEMMA StartKeeps == BootInv /\ Start => BootInv'
<1> SUFFICES ASSUME BootInv, Start PROVE BootInv'
  OBVIOUS
<1>0. /\ PlaceTypes /\ CountTypes /\ FlagTypes /\ DataTypes
      /\ Counting /\ Reached /\ LineSet
  BY Parts DEF BootInv
<1>1. PlaceTypes'
  BY <1>0 DEF PlaceTypes, Steps, Start, Enter, Quit, Succeeds, Fails, loopVars, modemVars, lineVars
<1>2. CountTypes'
  BY <1>0, Bounds DEF CountTypes, Counting, Start, Enter, Quit, Succeeds, Fails, loopVars, modemVars, lineVars
<1>3. FlagTypes'
  BY <1>0 DEF FlagTypes, Start, Enter, Quit, Succeeds, Fails, loopVars, modemVars, lineVars
<1>4. DataTypes'
  BY <1>0 DEF DataTypes, Start, Enter, Quit, Succeeds, Fails, loopVars, modemVars, lineVars
<1>5. Counting'
  BY <1>0, Bounds DEF CountTypes, Counting, Start, Enter, Quit, Succeeds, Fails, loopVars, modemVars, lineVars
<1>6. Reached'
  BY <1>0, Bounds DEF DataTypes, Reached, Late, Signaled, Online, Running, Threads, Start, Enter, Quit, Succeeds, Fails, loopVars, modemVars, lineVars
<1>7. LineSet'
  BY <1>0 DEF LineSet, Start, Enter, Quit, Succeeds, Fails, loopVars, modemVars, lineVars
<1>8. GivesUpLate'
  BY <1>0, Bounds DEF CountTypes, Counting, Reached, Running, GivesUpLate, Patience, Start, Enter, Quit, Succeeds, Fails, loopVars, modemVars, lineVars
<1> QED BY <1>1, <1>2, <1>3, <1>4, <1>5, <1>6, <1>7, <1>8, PartsNext DEF BootInv

LEMMA CheckStatusKeeps == BootInv /\ CheckStatus => BootInv'
<1> SUFFICES ASSUME BootInv, CheckStatus PROVE BootInv'
  OBVIOUS
<1>0. /\ PlaceTypes /\ CountTypes /\ FlagTypes /\ DataTypes
      /\ Counting /\ Reached /\ LineSet
  BY Parts DEF BootInv
<1>1. PlaceTypes'
  BY <1>0 DEF PlaceTypes, Steps, CheckStatus, Enter, Quit, loopVars, modemVars, lineVars
<1>2. CountTypes'
  BY <1>0, Bounds DEF CountTypes, Counting, CheckStatus, Enter, Quit, loopVars, modemVars, lineVars
<1>3. FlagTypes'
  BY <1>0 DEF FlagTypes, CheckStatus, Enter, Quit, loopVars, modemVars, lineVars
<1>4. DataTypes'
  BY <1>0 DEF DataTypes, CheckStatus, Enter, Quit, loopVars, modemVars, lineVars
<1>5. Counting'
  BY <1>0, Bounds DEF CountTypes, Counting, CheckStatus, Enter, Quit, loopVars, modemVars, lineVars
<1>6. Reached'
  BY <1>0, Bounds DEF DataTypes, Reached, Late, Signaled, Online, Running, Threads, CheckStatus, Enter, Quit, loopVars, modemVars, lineVars
<1>7. LineSet'
  BY <1>0 DEF LineSet, CheckStatus, Enter, Quit, loopVars, modemVars, lineVars
<1>8. GivesUpLate'
  BY <1>0, Bounds DEF CountTypes, Counting, Reached, Running, GivesUpLate, Patience, CheckStatus, Enter, Quit, loopVars, modemVars, lineVars
<1> QED BY <1>1, <1>2, <1>3, <1>4, <1>5, <1>6, <1>7, <1>8, PartsNext DEF BootInv

LEMMA QueueInitKeeps == BootInv /\ QueueInit => BootInv'
<1> SUFFICES ASSUME BootInv, QueueInit PROVE BootInv'
  OBVIOUS
<1>0. /\ PlaceTypes /\ CountTypes /\ FlagTypes /\ DataTypes
      /\ Counting /\ Reached /\ LineSet
  BY Parts DEF BootInv
<1>1. PlaceTypes'
  BY <1>0 DEF PlaceTypes, Steps, QueueInit, Enter, loopVars, modemVars, lineVars
<1>2. CountTypes'
  BY <1>0, Bounds DEF CountTypes, Counting, QueueInit, Enter, loopVars, modemVars, lineVars
<1>3. FlagTypes'
  BY <1>0 DEF FlagTypes, QueueInit, Enter, loopVars, modemVars, lineVars
<1>4. DataTypes'
  BY <1>0 DEF DataTypes, QueueInit, Enter, loopVars, modemVars, lineVars
<1>5. Counting'
  BY <1>0, Bounds DEF CountTypes, Counting, QueueInit, Enter, loopVars, modemVars, lineVars
<1>6. Reached'
  BY <1>0, Bounds DEF DataTypes, Reached, Late, Signaled, Online, Running, Threads, QueueInit, Enter, loopVars, modemVars, lineVars
<1>7. LineSet'
  BY <1>0 DEF LineSet, QueueInit, Enter, loopVars, modemVars, lineVars
<1>8. GivesUpLate'
  BY <1>0, Bounds DEF CountTypes, Counting, Reached, Running, GivesUpLate, Patience, QueueInit, Enter, loopVars, modemVars, lineVars
<1> QED BY <1>1, <1>2, <1>3, <1>4, <1>5, <1>6, <1>7, <1>8, PartsNext DEF BootInv

LEMMA CreateThreadKeeps == BootInv /\ CreateThread => BootInv'
<1> SUFFICES ASSUME BootInv, CreateThread PROVE BootInv'
  OBVIOUS
<1>0. /\ PlaceTypes /\ CountTypes /\ FlagTypes /\ DataTypes
      /\ Counting /\ Reached /\ LineSet
  BY Parts DEF BootInv
<1>1. PlaceTypes'
  BY <1>0 DEF PlaceTypes, Steps, CreateThread, Enter, Quit, After, loopVars, modemVars, lineVars
<1>2. CountTypes'
  BY <1>0, Bounds DEF CountTypes, Counting, CreateThread, Enter, Quit, After, loopVars, modemVars, lineVars
<1>3. FlagTypes'
  BY <1>0 DEF FlagTypes, CreateThread, Enter, Quit, After, loopVars, modemVars, lineVars
<1>4. DataTypes'
  <2>1. threads' \in SUBSET Threads
    BY <1>0 DEF DataTypes, Threads, CreateThread
  <2> QED BY <1>0, <2>1 DEF DataTypes, CreateThread, modemVars, lineVars
<1>5. Counting'
  BY <1>0, Bounds DEF CountTypes, Counting, CreateThread, Enter, Quit, After, loopVars, modemVars, lineVars
<1>6. Reached'
  BY <1>0, Bounds DEF DataTypes, Reached, Late, Signaled, Online, Running, Threads, CreateThread, Enter, Quit, After, loopVars, modemVars, lineVars
<1>7. LineSet'
  BY <1>0 DEF LineSet, CreateThread, Enter, Quit, After, loopVars, modemVars, lineVars
<1>8. GivesUpLate'
  BY <1>0, Bounds DEF CountTypes, Counting, Reached, Running, GivesUpLate, Patience, CreateThread, Enter, Quit, After, loopVars, modemVars, lineVars
<1> QED BY <1>1, <1>2, <1>3, <1>4, <1>5, <1>6, <1>7, <1>8, PartsNext DEF BootInv

LEMMA RegisterKeeps == BootInv /\ Register => BootInv'
<1> SUFFICES ASSUME BootInv, Register PROVE BootInv'
  OBVIOUS
<1>0. /\ PlaceTypes /\ CountTypes /\ FlagTypes /\ DataTypes
      /\ Counting /\ Reached /\ LineSet
  BY Parts DEF BootInv
<1>a. /\ pc = "register" /\ times \in Nat /\ times <= RegisterTries /\ failures = times
  BY <1>0 DEF Register, Counting, CountTypes
<1>b. /\ registered' \in BOOLEAN
      /\ \/ /\ times' = times /\ registered' = TRUE
            /\ \/ times = RegisterTries /\ Quit
               \/ times < RegisterTries /\ Enter("reply", 1)
         \/ /\ times' = times + 1 /\ times < RegisterTries
            /\ failures' = failures + 1 /\ UNCHANGED <<pc, left, gaveUp>>
         \/ times' = times + 1 /\ times = RegisterTries /\ Enter("reply", 1)
  <2>1. registered' \in BOOLEAN
    BY <1>0 DEF Register, FlagTypes
  <2>2. CASE /\ registered' = TRUE /\ UNCHANGED times
             /\ IF times = RegisterTries THEN Quit ELSE Enter("reply", 1)
    <3>1. times = RegisterTries \/ times < RegisterTries
      BY <1>a, Bounds
    <3> QED BY <1>a, <2>1, <2>2, <3>1
  <2>3. CASE /\ registered' \in {registered, TRUE} /\ times' = times + 1
             /\ IF times < RegisterTries
                THEN failures' = failures + 1 /\ UNCHANGED <<pc, left, gaveUp>>
                ELSE Enter("reply", 1)
    <3>1. times = RegisterTries \/ times < RegisterTries
      BY <1>a, Bounds
    <3> QED BY <1>a, <2>1, <2>3, <3>1
  <2> QED BY <2>2, <2>3 DEF Register
<1>c. UNCHANGED <<rounds, signal, imei, args, threads, open, line, before,
                  echo_enable, connected, said>>
  BY DEF Register, lineVars
<1>1. PlaceTypes'
  BY <1>0, <1>a, <1>b, <1>c DEF PlaceTypes, Steps, Enter, Quit
<1>2. CountTypes'
  BY <1>0, <1>a, <1>b, <1>c, Bounds DEF CountTypes, Counting, Enter, Quit
<1>3. FlagTypes'
  BY <1>0, <1>a, <1>b, <1>c DEF FlagTypes, Enter, Quit
<1>4. DataTypes'
  BY <1>0, <1>a, <1>b, <1>c DEF DataTypes
<1>5. Counting'
  BY <1>0, <1>a, <1>b, <1>c, Bounds DEF CountTypes, Counting, Enter, Quit
<1>6. Reached'
  BY <1>0, <1>a, <1>b, <1>c, Bounds DEF DataTypes, Reached, Late, Signaled, Online, Running, Threads, Enter, Quit
<1>7. LineSet'
  BY <1>0, <1>a, <1>b, <1>c DEF LineSet, Enter, Quit
<1>8. GivesUpLate'
  BY <1>0, <1>a, <1>b, <1>c, Bounds DEF CountTypes, Counting, Reached, Running, GivesUpLate, Patience, Enter, Quit
<1> QED BY <1>1, <1>2, <1>3, <1>4, <1>5, <1>6, <1>7, <1>8, PartsNext DEF BootInv

LEMMA TakeReplyKeeps == BootInv /\ TakeReply => BootInv'
<1> SUFFICES ASSUME BootInv, TakeReply PROVE BootInv'
  OBVIOUS
<1>0. /\ PlaceTypes /\ CountTypes /\ FlagTypes /\ DataTypes
      /\ Counting /\ Reached /\ LineSet
  BY Parts DEF BootInv
<1>1. PlaceTypes'
  BY <1>0 DEF PlaceTypes, Steps, TakeReply, Enter, Quit, loopVars, modemVars, lineVars
<1>2. CountTypes'
  BY <1>0, Bounds DEF CountTypes, Counting, TakeReply, Enter, Quit, loopVars, modemVars, lineVars
<1>3. FlagTypes'
  BY <1>0 DEF FlagTypes, TakeReply, Enter, Quit, loopVars, modemVars, lineVars
<1>4. DataTypes'
  BY <1>0 DEF DataTypes, TakeReply, Enter, Quit, loopVars, modemVars, lineVars
<1>5. Counting'
  BY <1>0, Bounds DEF CountTypes, Counting, TakeReply, Enter, Quit, loopVars, modemVars, lineVars
<1>6. Reached'
  BY <1>0, Bounds DEF DataTypes, Reached, Late, Signaled, Online, Running, Threads, TakeReply, Enter, Quit, loopVars, modemVars, lineVars
<1>7. LineSet'
  BY <1>0 DEF LineSet, TakeReply, Enter, Quit, loopVars, modemVars, lineVars
<1>8. GivesUpLate'
  BY <1>0, Bounds DEF CountTypes, Counting, Reached, Running, GivesUpLate, Patience, TakeReply, Enter, Quit, loopVars, modemVars, lineVars
<1> QED BY <1>1, <1>2, <1>3, <1>4, <1>5, <1>6, <1>7, <1>8, PartsNext DEF BootInv

LEMMA ThreadCrashKeeps == BootInv /\ ThreadCrash => BootInv'
<1> SUFFICES ASSUME BootInv, ThreadCrash PROVE BootInv'
  OBVIOUS
<1>0. /\ PlaceTypes /\ CountTypes /\ FlagTypes /\ DataTypes
      /\ Counting /\ Reached /\ LineSet
  BY Parts DEF BootInv
<1>1. PlaceTypes'
  BY <1>0 DEF PlaceTypes, Steps, ThreadCrash, Quit, loopVars, modemVars, lineVars
<1>2. CountTypes'
  BY <1>0, Bounds DEF CountTypes, Counting, ThreadCrash, Quit, loopVars, modemVars, lineVars
<1>3. FlagTypes'
  BY <1>0 DEF FlagTypes, ThreadCrash, Quit, loopVars, modemVars, lineVars
<1>4. DataTypes'
  BY <1>0 DEF DataTypes, ThreadCrash, Quit, loopVars, modemVars, lineVars
<1>5. Counting'
  BY <1>0, Bounds DEF CountTypes, Counting, ThreadCrash, Quit, loopVars, modemVars, lineVars
<1>6. Reached'
  BY <1>0, Bounds DEF DataTypes, Reached, Late, Signaled, Online, Running, Threads, ThreadCrash, Quit, loopVars, modemVars, lineVars
<1>7. LineSet'
  BY <1>0 DEF LineSet, ThreadCrash, Quit, loopVars, modemVars, lineVars
<1>8. GivesUpLate'
  BY <1>0, Bounds DEF CountTypes, Counting, Reached, Running, GivesUpLate, Patience, ThreadCrash, Quit, loopVars, modemVars, lineVars
<1> QED BY <1>1, <1>2, <1>3, <1>4, <1>5, <1>6, <1>7, <1>8, PartsNext DEF BootInv
-----------------------------------------------------------------------------
(* The theorems.                                                           *)

LEMMA BootInit == Init => BootInv
<1> SUFFICES ASSUME Init PROVE BootInv
  OBVIOUS
<1>1. PlaceTypes /\ FlagTypes
  BY DEF Init, PlaceTypes, FlagTypes, Steps
<1>2. CountTypes
  <2>1. left = 0 /\ failures = 0 /\ rounds = 0 /\ times = 0
    BY DEF Init
  <2> QED BY <2>1, Bounds DEF CountTypes
<1>3. DataTypes
  <2>1. line \in Settings /\ before \in Settings
    BY BootConstantsOK DEF Init
  <2>2. signal = 0 /\ said = 0 /\ threads = {}
    BY DEF Init
  <2> QED BY <2>1, <2>2 DEF DataTypes
<1>4. Counting
  BY Bounds DEF Init, Counting
<1>5. Reached
  BY DEF Init, Reached, Late, Signaled, Online, Running
<1>6. LineSet
  BY DEF Init, LineSet
<1>7. GivesUpLate
  BY DEF Init, GivesUpLate
<1> QED BY <1>1, <1>2, <1>3, <1>4, <1>5, <1>6, <1>7, Parts DEF BootInv

LEMMA BootStutter == BootInv /\ UNCHANGED vars => BootInv'
<1> SUFFICES ASSUME BootInv, UNCHANGED vars PROVE BootInv'
  OBVIOUS
<1>0. /\ UNCHANGED <<pc, left, rounds, times, failures, signal, imei, args, threads, gaveUp>>
      /\ UNCHANGED <<open, line, before, echo_enable, connected, registered, said>>
  BY DEF vars, loopVars, modemVars, lineVars
<1>1. TypeOK'
  BY <1>0 DEF BootInv, TypeOK
<1>2. Counting' /\ Reached' /\ LineSet'
  BY <1>0 DEF BootInv, Counting, Reached, LineSet
<1>3. GivesUpLate'
  BY <1>0 DEF BootInv, GivesUpLate, Patience
<1> QED BY <1>1, <1>2, <1>3 DEF BootInv

LEMMA BootStep == BootInv /\ [Next]_vars => BootInv'
<1>1. BootInv /\ Step => BootInv'
  BY ModemInitKeeps, SetUpLineKeeps, CheckTestKeeps, DisableEchoKeeps, GetSignalKeeps,
     AskNetKeeps, AskAttachedKeeps, GetImeiKeeps, ConfigureKeeps, StartKeeps,
     CheckStatusKeeps, QueueInitKeeps, CreateThreadKeeps, RegisterKeeps, TakeReplyKeeps
     DEF Step
<1> QED BY <1>1, ThreadCrashKeeps, BootStutter DEF Next, Settled

LEMMA BootHolds == Spec => []BootInv
BY BootInit, BootStep, PTL DEF Spec

\* Every variable keeps its type: no counter of main falls below zero, and
\* the register message is sent at most RegisterTries + 1 times.
THEOREM BootTypes == Spec => []TypeOK
<1>1. BootInv => TypeOK
  BY DEF BootInv
<1> QED BY <1>1, BootHolds, PTL

\* For every number of attempts, the process ends at a step only after all but
\* the last of its attempts have failed, although main's counters retry and
\* times are shared by the loops (main.cpp:63-171).
THEOREM EndsAfterAttempts == Spec => []GivesUpLate
<1>1. BootInv => GivesUpLate
  BY DEF BootInv
<1> QED BY <1>1, BootHolds, PTL

\* Whatever the operations of the start return, no thread runs before the modem
\* said CONNECT OK and before the strength that was read passed (one reported as 0
\* does not, 1, 2 and 99, which means unknown, do); the loop starts with all the
\* threads, and with the registration sent or given up (main.cpp:73-171).
THEOREM ThreadsRunConnected == Spec => []RunsConnected
<1>1. BootInv => RunsConnected
  BY DEF BootInv, Reached, RunsConnected
<1> QED BY <1>1, BootHolds, PTL

\* Whatever settings the serial line had before, setopt gives it those it was
\* asked for, but for the four exceptions of LineAsAsked (serial.cpp:189-201,
\* 238, 245), and the modem is spoken to at 9600 baud, 8N1, once setopt has succeeded.
THEOREM LineGetsSettings == Spec => []LineAsAsked
<1>1. BootInv => LineAsAsked
  <2> SUFFICES ASSUME BootInv PROVE LineAsAsked
    OBVIOUS
  <2>1. line \in Settings /\ before \in Settings
    BY DEF BootInv, TypeOK
  <2>2. 9600 \in Offered
    BY DEF Offered
  <2>3. AsAsked(before, SetOpt(before, 9600, 0, 8, 1, "N"), 9600, 0, 8, 1, "N")
    BY <2>1, <2>2, SetOptAsAsked
  <2>4. \A nSpeed \in Offered, flow_ctrl \in 0..2, nBits \in 5..8, nStop \in {1, 2},
           nEvent \in {"O", "E", "N", "M", "S"} :
          AsAsked(line, SetOpt(line, nSpeed, flow_ctrl, nBits, nStop, nEvent),
                  nSpeed, flow_ctrl, nBits, nStop, nEvent)
    BY <2>1, SetOptAsAsked
  <2>5. pc \notin {"init", "options", "gone"} =>
          open /\ line = SetOpt(before, 9600, 0, 8, 1, "N")
    BY DEF BootInv, LineSet
  <2> QED BY <2>3, <2>4, <2>5 DEF LineAsAsked
<1> QED BY <1>1, BootHolds, PTL
=============================================================================
