---------------------------- MODULE GoodsReport ----------------------------
(***************************************************************************)
(* The goods counted when the door is closed: the capture thread loads the *)
(* sample pictures, opens the camera and keeps it running                  *)
(* (capture_process.cpp, pic_match_init), while the message thread takes a *)
(* photo, asks DotMatch what each of its regions shows, adds the numbers   *)
(* up (get_good_num) and turns them into the report (door_close_respond).  *)
(***************************************************************************)
EXTENDS Integers, SequencesExt

CONSTANTS
  Goods,      \* kinds of goods (7), each with two sample pictures
  Regions,    \* regions of the photo (13)
  Base,       \* the base of the numbers' digits (10)
  Chances,    \* the count at which the attempts end (10)
  MaxReports  \* bound: reports made

ASSUME GoodsConstantsOK ==
  /\ {Goods, Regions, Chances} \subseteq Nat \ {0} /\ MaxReports \in Nat
  /\ Base \in Nat \ {0, 1} /\ Regions < Base * Base

Pictures == 0..(2 * Goods - 1)

VARIABLES
  pcCap,    \* capture thread: "load", "open", "drain" or "gone"
  testDesc, \* sample pictures loaded
  camera,   \* the camera is open
  pcMsg,    \* message thread: "rcv", "try", "regions" or "item"
  chance,   \* chance
  count,    \* count[14]: how many regions show a picture
  shown,    \* history: what each region done showed
  known,    \* history: the sample pictures each region was compared with
  object,   \* the digits
  item,     \* what is reported: pairs of a number wd... and a digit
  reports   \* history: reports made

capVars == <<pcCap, testDesc, camera>>
msgVars == <<pcMsg, chance, count, shown, known, object, item, reports>>
vars == <<capVars, msgVars>>

NoCount == [a \in Pictures |-> 0]
Init ==
  /\ pcCap = "load" /\ testDesc = 0 /\ camera = FALSE
  /\ pcMsg = "rcv" /\ chance = 0 /\ count = NoCount /\ shown = <<>> /\ known = {}
  /\ object = <<>> /\ item = {} /\ reports = 0
-----------------------------------------------------------------------------
(* The capture thread.                                                     *)

\* Variant: the camera is opened first.
CaptureLoad_Early ==
  /\ pcCap = "load" /\ testDesc < 2 * Goods /\ testDesc' = testDesc + 1
  /\ camera' = TRUE /\ UNCHANGED <<pcCap, msgVars>>

\* One picture of yangben.xml.  The file is taken to be there and complete: the
\* code asks neither whether it opened nor how many pictures it gave
\* (surfPictureMatch.cpp:81-88), while Region compares with all of them.
CaptureLoad ==
  /\ pcCap = "load" /\ testDesc < 2 * Goods /\ testDesc' = testDesc + 1
  /\ UNCHANGED <<pcCap, camera, msgVars>>

CaptureLoaded ==
  /\ pcCap = "load" /\ testDesc = 2 * Goods /\ pcCap' = "open"
  /\ UNCHANGED <<testDesc, camera, msgVars>>

\* The camera is opened last; without one the thread ends.
CaptureOpen ==
  /\ pcCap = "open"
  /\ \/ camera' = TRUE /\ pcCap' = "drain"
     \/ pcCap' = "gone" /\ UNCHANGED camera
  /\ UNCHANGED <<testDesc, msgVars>>

\* From then on the thread reads frames that nobody looks at.
-----------------------------------------------------------------------------
(* The message thread.                                                     *)

\* The door was closed: door_close_respond starts.
Close ==
  /\ pcMsg = "rcv" /\ reports < MaxReports
  /\ pcMsg' = "try" /\ chance' = 0 /\ object' = <<>>
  /\ UNCHANGED <<count, shown, known, item, reports, capVars>>

\* Variant: a last attempt that fails starts the attempts anew.
Grab_Endless ==
  /\ pcMsg = "try" /\ chance' = (chance + 1) % Chances
  /\ \/ pcMsg' = "try" /\ UNCHANGED <<count, shown, known>>
     \/ /\ camera /\ pcMsg' = "regions"
        /\ count' = NoCount /\ shown' = <<>> /\ known' = {}
  /\ UNCHANGED <<object, item, reports, capVars>>

\* get_good_num takes a photo; without one it fails and is called again, at
\* once, eight times more.
Grab ==
  /\ pcMsg = "try" /\ chance' = chance + 1
  /\ IF chance' >= Chances THEN pcMsg' = "item" /\ UNCHANGED <<count, shown, known>>
     ELSE \/ pcMsg' = "try" /\ UNCHANGED <<count, shown, known>>
          \/ /\ camera /\ pcMsg' = "regions"
             /\ count' = NoCount /\ shown' = <<>> /\ known' = {}
  /\ UNCHANGED <<object, item, reports, capVars>>

\* surfFeatureDotMatch on the next region: a picture's index, or none.
Region ==
  /\ pcMsg = "regions" /\ Len(shown) < Regions
  /\ \E a \in {p \in Pictures : p < testDesc} \cup {-1} :
       /\ shown' = Append(shown, a)
       /\ count' = IF a < 0 THEN count ELSE [count EXCEPT ![a] = @ + 1]
  /\ known' = known \cup {testDesc}
  /\ UNCHANGED <<pcMsg, chance, object, item, reports, capVars>>

\* IntToString of a number below Base * Base.
Digits(n) == IF n < Base THEN <<n>> ELSE <<n \div Base, n % Base>>

\* Variant: the second pictures are those of the next kind.
GJ_Shifted(k) == count[k - 1] + count[(k + Goods) % (2 * Goods)]

\* The two pictures of kind k.
GJ(k) == count[k - 1] + count[k - 1 + Goods]

Numbers ==
  /\ pcMsg = "regions" /\ Len(shown) = Regions /\ pcMsg' = "item"
  /\ object' = object \o FlattenSeq([k \in 1..Goods |-> Digits(GJ(k))])
  /\ UNCHANGED <<chance, count, shown, known, item, reports, capVars>>

\* Every digit but 0 becomes a member of the report, named after its place.
Item ==
  /\ pcMsg = "item" /\ pcMsg' = "rcv" /\ reports' = reports + 1
  /\ item' = {<<k, object[k]>> : k \in {d \in 1..Len(object) : object[d] # 0}}
  /\ UNCHANGED <<chance, count, shown, known, object, capVars>>

Idle == pcMsg = "rcv" /\ reports = MaxReports /\ pcCap \in {"drain", "gone"}
        /\ UNCHANGED vars

Capture == CaptureLoad \/ CaptureLoaded \/ CaptureOpen
Message == Close \/ Grab \/ Region \/ Numbers \/ Item
Next == Capture \/ Message \/ Idle
Spec == Init /\ [][Next]_vars
\* The threads run on.
LiveSpec == Spec /\ WF_vars(Capture) /\ WF_vars(Message)
-----------------------------------------------------------------------------
(* Properties.                                                             *)

\* Every variable keeps its type; get_good_num is called at most nine times.
TypeOK ==
  /\ pcCap \in {"load", "open", "drain", "gone"} /\ testDesc \in 0..(2 * Goods)
  /\ camera \in BOOLEAN /\ pcMsg \in {"rcv", "try", "regions", "item"}
  /\ chance \in 0..Chances /\ (pcMsg = "regions" => chance < Chances)
  /\ count \in [Pictures -> 0..Regions] /\ Len(shown) <= Regions
  /\ reports \in 0..MaxReports

\* The regions that show a picture of kind k.
Seen(k) == Cardinality({r \in 1..Len(shown) : shown[r] \in {k - 1, k - 1 + Goods}})
Made == pcMsg = "rcv" /\ reports > 0

\* The report says of every kind how many regions show it, and of no other
\* thing, as long as no number needs two digits and a photo could be taken
\* (surfPictureMatch.cpp:141-161, msg_process.cpp:241-249).
ReportFaithful ==
  Made /\ object # <<>> /\ (\A k \in 1..Goods : Seen(k) < Base) =>
    item = {<<k, Seen(k)>> : k \in {g \in 1..Goods : Seen(g) > 0}}

\* With a complete sample file no region is compared before all its pictures are
\* loaded, although nothing makes the message thread wait for the capture thread:
\* the camera opens last (surfPictureMatch.cpp:81-100).
SamplesLoaded == known \subseteq {2 * Goods}

\* A closed door leads to a report, also without a camera.
Reported == \A n \in 1..MaxReports :
              (pcMsg = "try" /\ reports = n - 1) ~> (reports = n)
=============================================================================
