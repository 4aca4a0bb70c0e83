---------------------------- MODULE ReviewedEdits ----------------------------
(***************************************************************************)
(* What an edit of single files on a robot promises its user.  The user    *)
(* approves an edit against what the files held when they were read.  A    *)
(* file is written only after the record on disk names it, and only while  *)
(* it still holds exactly what the user approved against, whatever other   *)
(* edits, a reboot of the robot or a lost request did in between.          *)
(***************************************************************************)
EXTENDS Naturals

CONSTANTS
  Edits,     \* the edits that may ever be made
  Robots,    \* the robots that may come to the port
  Files,     \* the files that can be edited
  Cells,     \* what a file can hold
  None       \* no content approved

VARIABLES
  file,      \* file[r][f]: what file f of robot r holds
  shown,     \* shown[e][f]: what f held when edit e was approved, or None
  noted,     \* noted[e]: the files the record of e names, or may name
  boots      \* how often a robot was booted and used

vars == <<file, shown, noted, boots>>

Init ==
  /\ file \in [Robots -> [Files -> Cells]]
  /\ shown = [e \in Edits |-> [f \in Files |-> None]]
  /\ noted = [e \in Edits |-> {}]
  /\ boots = 0

Approve(e) ==
  /\ \A f \in Files : shown[e][f] = None
  /\ \E cells \in [Files -> Cells \cup {None}] : shown' = [shown EXCEPT ![e] = cells]
  /\ UNCHANGED <<file, noted, boots>>

Note(e) ==
  /\ \E F \in SUBSET Files : noted' = [noted EXCEPT ![e] = @ \cup F]
  /\ UNCHANGED <<file, shown, boots>>

Replace(e, r, f) ==
  /\ f \in noted[e]
  /\ file[r][f] = shown[e][f]
  /\ \E c \in Cells : file' = [file EXCEPT ![r][f] = c]
  /\ UNCHANGED <<shown, noted, boots>>

RobotRuns(r) ==
  /\ \E cells \in [Files -> Cells] : file' = [file EXCEPT ![r] = cells]
  /\ boots' = boots + 1
  /\ UNCHANGED <<shown, noted>>

Next ==
  \/ \E r \in Robots : RobotRuns(r)
  \/ \E e \in Edits :
       Approve(e) \/ Note(e) \/ \E r \in Robots, f \in Files : Replace(e, r, f)

Spec == Init /\ [][Next]_vars
=============================================================================
