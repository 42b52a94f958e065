------------------------------ MODULE DotMatch ------------------------------
(***************************************************************************)
(* surfFeatureDotMatch (surfPictureMatch.cpp): which sample picture one    *)
(* region of the photo shows.  Every good match names a picture; the       *)
(* picture of the longest run of equal names wins.  The loop compares each *)
(* name with the next one, also the last one with what lies behind the     *)
(* array.  SURF and the distance ratio are abstracted: which names the     *)
(* good matches carry is chosen freely.                                    *)
(***************************************************************************)
EXTENDS Integers, Sequences

CONSTANTS
  Images,     \* indices of the sample pictures (0..13)
  Least,      \* good matches that a region must have (3)
  MaxMatches, \* bound: good matches of a region
  Stray       \* what may lie behind the array besides a picture's index

ASSUME DotMatchConstantsOK ==
  /\ Images \subseteq Nat /\ 0 \in Images /\ Least \in Nat \ {0, 1}
  /\ MaxMatches \in Nat /\ Stray \in Int \ Images

VARIABLES
  pcMatch,  \* "match", "loop" or "done"
  count1,   \* the names of the good matches, in order (the C array)
  at, best, most, run,   \* the locals i, b, count and temp of the loop
  answer    \* what is returned

matchVars == <<pcMatch, count1, at, best, most, run, answer>>

MatchInit ==
  /\ pcMatch = "match" /\ count1 = <<>> /\ answer = -1
  /\ at = 1 /\ best = 0 /\ most = 1 /\ run = 1

\* A match whose distance ratio is good enough.
Match ==
  /\ pcMatch = "match" /\ Len(count1) < MaxMatches
  /\ \E v \in Images : count1' = Append(count1, v)
  /\ UNCHANGED <<pcMatch, at, best, most, run, answer>>

\* All the matches are there: fewer than three are not enough.
Judge ==
  /\ pcMatch = "match" /\ pcMatch' = IF Len(count1) < Least THEN "done" ELSE "loop"
  /\ UNCHANGED <<count1, at, best, most, run, answer>>

\* What the loop compares name at with.
Follower == IF at < Len(count1) THEN {count1[at + 1]} ELSE Images \cup {Stray}

Longer ==
  /\ run' = run + 1
  /\ most' = IF run' > most THEN run' ELSE most
  /\ best' = IF run' > most THEN count1[at] ELSE best

\* Variant: a run is not ended.
Compare_NoReset ==
  /\ pcMatch = "loop" /\ at <= Len(count1) /\ at' = at + 1
  /\ \E next \in Follower :
       IF count1[at] = next THEN Longer ELSE UNCHANGED <<best, most, run>>
  /\ UNCHANGED <<pcMatch, count1, answer>>

Compare ==
  /\ pcMatch = "loop" /\ at <= Len(count1) /\ at' = at + 1
  /\ \E next \in Follower :
       IF count1[at] = next THEN Longer
       ELSE run' = 1 /\ UNCHANGED <<best, most>>
  /\ UNCHANGED <<pcMatch, count1, answer>>

Return ==
  /\ pcMatch = "loop" /\ at > Len(count1) /\ pcMatch' = "done" /\ answer' = best
  /\ UNCHANGED <<count1, at, best, most, run>>

MatchDone == pcMatch = "done" /\ UNCHANGED matchVars

MatchNext == Match \/ Judge \/ Compare \/ Return \/ MatchDone
MatchSpec == MatchInit /\ [][MatchNext]_matchVars
-----------------------------------------------------------------------------
(* Properties.                                                             *)

\* Whatever lies behind the array, the answer is none or the index of a
\* picture, which get_good_num uses as an index of count[14]
\* (surfPictureMatch.cpp:144).
MatchTypeOK ==
  /\ pcMatch \in {"match", "loop", "done"} /\ count1 \in Seq(Images)
  /\ at \in 1..(Len(count1) + 1) /\ most \in Nat /\ run \in Nat
  /\ best \in Images /\ answer \in Images \cup {-1}

\* Name v stands n times in a row, up to position r.
RunAt(v, n, r) == n <= r /\ \A k \in (r - n + 1)..r : count1[k] = v
HasRun(v, n) == \E r \in 1..Len(count1) : RunAt(v, n, r)

\* The longest run wins, but that what lies behind the array may lengthen the
\* last run by one; where no two neighbours are equal and nothing behind the
\* array helps, the first picture is the answer (surfPictureMatch.cpp:290-306).
LongestRunWins ==
  pcMatch = "done" /\ answer # -1 =>
    \A v \in Images, n \in 2..Len(count1) :
      HasRun(v, n) => \/ HasRun(answer, n)
                      \/ RunAt(answer, n - 1, Len(count1))
=============================================================================
