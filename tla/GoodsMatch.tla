----------------------------- MODULE GoodsMatch -----------------------------
(***************************************************************************)
(* GoodsReport with DotMatch in it: while get_good_num is at a region,     *)
(* surfFeatureDotMatch runs, and what it returns is what the region shows. *)
(* To bound the model only the first region of the first report is matched *)
(* step by step; any other shows any picture at once, as in GoodsReport.   *)
(***************************************************************************)
EXTENDS GoodsReport, DotMatch

ASSUME SamplesAreImages == Images = Pictures

allVars == <<vars, matchVars>>

StepByStep == shown = <<>> /\ reports = 0

\* A step of surfFeatureDotMatch, called for the region.
RegionCalls ==
  /\ pcMsg = "regions" /\ StepByStep
  /\ Match \/ Judge \/ Compare \/ Return
  /\ UNCHANGED vars

\* It has returned: the next call begins with locals of its own.
RegionReturns ==
  /\ StepByStep /\ pcMatch = "done"
  /\ Region /\ shown' = <<answer>>
  /\ pcMatch' = "match" /\ count1' = <<>> /\ answer' = -1
  /\ at' = 1 /\ best' = 0 /\ most' = 1 /\ run' = 1

RegionAtOnce == ~StepByStep /\ Region /\ UNCHANGED matchVars

MessageMatching ==
  \/ RegionCalls \/ RegionReturns \/ RegionAtOnce
  \/ (Close \/ Grab \/ Numbers \/ Item) /\ UNCHANGED matchVars
CaptureMatching == Capture /\ UNCHANGED matchVars

MatchingInit == Init /\ MatchInit
MatchingNext == CaptureMatching \/ MessageMatching \/ (Idle /\ UNCHANGED matchVars)

\* The threads run on.
MatchingSpec == /\ MatchingInit /\ [][MatchingNext]_allVars
                /\ WF_allVars(CaptureMatching) /\ WF_allVars(MessageMatching)
=============================================================================
