------------------------------ MODULE RobotWrites ------------------------------
(***************************************************************************)
(* What jibo_dfu.py writes to the partitions of a robot, and what it saves *)
(* first: flash_update (a package, with or without this robot's            *)
(* calibration), the edits of var through _write_candidate, and the writes *)
(* of restore_partitions.  Each keeps a record of its writes on disk,      *)
(* rewritten in place, and finds the robot by the port it was seen at.     *)
(*                                                                         *)
(* A partition holds one of a few contents.  A failed transfer leaves the  *)
(* old one, the new one or Broken.  Of a content of var only matters       *)
(* whether it carries the robot's identity and calibration.                *)
(***************************************************************************)
EXTENDS Integers, Sequences, FiniteSets

CONSTANTS
  Last,        \* the partitions are 0 .. Last, in the order of UPDATE_ORDER
  Own,         \* contents of var with this robot's identity and calibration
  Other,       \* other whole contents: of packages, of any system partition
  Broken,      \* what a failed write may leave
  MaxImages    \* bound: var images on disk, in the rollback store and in sets

ASSUME LastAssumption == Last \in Nat
ASSUME ContentAssumption == Own \cap Other = {} /\ Broken \notin Own \cup Other
ASSUME BoundAssumption == MaxImages \in Nat

Parts == 0 .. Last
Var == Last
Whole == Own \cup Other
Content == Whole \cup {Broken}
Blank == [p \in Parts |-> "none"]    \* a record that names no write
Torn == [p \in Parts |-> "torn"]     \* a record cut short

VARIABLES
  robot,     \* robot[p]: what partition p of the robot holds
  here,      \* this robot, not another one, is at the port
  guest,     \* guest[p]: what this operation did to another robot's p
  backups,   \* the rollback store: var images, each with its record
  sets,      \* the contents of var in saved backup sets
  spare,     \* the copy of var that the last edit left in its folder
  op,        \* the last operation: "none", "flash", "edit", "restore"
  keep, hosted, readback,   \* its policy, kind of package, and checks
  image,     \* image[p]: what it writes to p
  before,    \* the var it read
  source,    \* the place in backups of its rollback image; 0 without one
  todo,      \* partitions it has still to write
  touched,   \* partitions whose transfer began
  entry,     \* entry[p]: the status of p in its record
  saved,     \* that record on disk
  silent,    \* a transfer went wrong without an error
  late,      \* another robot came after the last look at the identity
  pc, outcome

deviceVars == <<robot, here, guest>>
storeVars == <<backups, sets, spare>>
planVars == <<op, keep, hosted, readback>>
writeVars == <<todo, touched, entry, saved, silent>>
vars == <<deviceVars, storeVars, planVars, image, before, source, writeVars, late,
          pc, outcome>>

-----------------------------------------------------------------------------
(* Mutations, each a slip the code could have made (see PROJECT.json).     *)
AnyBytes(i) == TRUE                   \* an older backup replaces the fresh read
OneSlot(c) == <<[image |-> c, whole |-> FALSE]>>   \* a backup replaces the last
Unnamed == [p \in Parts |-> IF entry[p] = "started" THEN "none" ELSE entry[p]]
Uncompared(p) == TRUE                 \* a readback is not compared
Unchecked == TRUE                     \* the identity is not read again

-----------------------------------------------------------------------------
Init ==
  /\ robot \in [Parts -> Whole] /\ robot[Var] \in Own
  /\ here = TRUE /\ guest = Blank
  /\ backups = <<>> /\ sets = {} /\ spare = {}
  /\ op = "none" /\ keep = FALSE /\ hosted = FALSE /\ readback = FALSE
  /\ image = robot /\ before = Broken /\ source = 0
  /\ todo = {} /\ touched = {} /\ entry = Blank /\ saved = Blank /\ silent = FALSE
  /\ late = FALSE
  /\ pc = "idle" /\ outcome = "none"

Usable == {i \in 1 .. Len(backups) : backups[i].whole}
StoredImages == {backups[i].image : i \in 1 .. Len(backups)}

(* An image is put into the store before its record is written.            *)
Stored(c) == Append(backups, [image |-> c, whole |-> FALSE])

Clear(parts) ==
  /\ todo' = parts /\ touched' = {} /\ entry' = Blank /\ saved' = Blank
  /\ silent' = FALSE /\ guest' = Blank /\ late' = FALSE /\ spare' = {}

(* A new operation, with this robot at the port: its identity is read now. *)
Begins(o, parts) ==
  /\ pc = "idle" /\ here' = TRUE
  /\ op' = o /\ Clear(parts)
  /\ UNCHANGED sets

Ends(result, left) ==
  /\ pc' = "idle" /\ outcome' = result /\ spare' = left
  /\ UNCHANGED <<deviceVars, backups, sets, planVars, image, before, source, todo,
                 touched, entry, silent, late>>

(* Nothing is left of an operation without writes, or once the robot runs. *)
NoPlan ==
  /\ op' = "none" /\ Clear({})
  /\ keep' = FALSE /\ hosted' = FALSE /\ readback' = FALSE
  /\ image' = robot' /\ before' = Broken /\ source' = 0

Abandoned(result) ==
  /\ pc' = "idle" /\ outcome' = result
  /\ UNCHANGED <<robot, here, backups, sets>>
  /\ NoPlan

Goes(next) ==
  /\ pc' = next
  /\ UNCHANGED <<sets, spare, planVars, outcome>>

-----------------------------------------------------------------------------
(* Between operations.                                                     *)

(* The robot is booted and used: its var changes, but stays what it is.    *)
RobotRuns ==
  /\ pc = "idle" /\ robot[Var] # Broken
  /\ \E c \in IF robot[Var] \in Own THEN Own ELSE Other :
       robot' = [robot EXCEPT ![Var] = c]
  /\ NoPlan /\ outcome' = "none"
  /\ UNCHANGED <<here, backups, sets, pc>>

(* A set is saved that holds var; what a set goes through is BackupStore.  *)
SetSaved ==
  /\ pc = "idle" /\ here' = TRUE
  /\ Len(backups) + Cardinality(sets) < MaxImages
  /\ sets' = sets \cup {robot[Var]}
  /\ UNCHANGED <<robot, guest, backups, spare, planVars, image, before, source, writeVars,
                 late, pc, outcome>>

(* The cable goes to another robot in DFU, or back.                        *)
RobotExchanged ==
  /\ pc # "idle"
  /\ here' = ~here /\ late' = TRUE
  /\ UNCHANGED <<robot, guest, storeVars, planVars, image, before, source, writeVars,
                 pc, outcome>>

-----------------------------------------------------------------------------
(* What is to be written, and the review of it.                            *)

(* A package has an image for every partition, none of them of this robot. *)
Packages == Other
Compact(package) == [p \in Parts |-> package]

FlashPlanned(package, k, h, r) ==
  /\ Begins("flash", Parts)
  /\ keep' = k /\ hosted' = h /\ readback' = r
  /\ image' = Compact(package)
  /\ before' = Broken /\ source' = 0
  /\ pc' = "review" /\ outcome' = "running"
  /\ UNCHANGED <<robot, backups>>

(* An edit reads var first.  Any usable image of this robot's var is its   *)
(* rollback image; without one, the var just read becomes it.              *)
EditPlanned(c) ==
  /\ Begins("edit", {Var})
  /\ c # robot[Var]
  /\ keep' = FALSE /\ hosted' = FALSE /\ readback' = TRUE
  /\ image' = [robot EXCEPT ![Var] = c]
  /\ before' = robot[Var] /\ outcome' = "running"
  /\ \/ /\ source' \in Usable /\ pc' = "review"
        /\ UNCHANGED backups
     \/ /\ Usable = {} /\ Len(backups) + Cardinality(sets) < MaxImages
        /\ backups' = Stored(robot[Var]) /\ source' = Len(backups')
        /\ pc' = "record"
  /\ UNCHANGED robot

(* The selected partitions of a complete set, for this robot.              *)
RestorePlanned(parts, c) ==
  /\ Begins("restore", parts)
  /\ \E v \in sets : image' = [p \in Parts |-> IF p \notin parts THEN robot[p]
                                           ELSE IF p = Var THEN v ELSE c]
  /\ keep' = FALSE /\ hosted' = FALSE /\ readback' = TRUE
  /\ before' = Broken /\ source' = 0
  /\ pc' = "review" /\ outcome' = "running"
  /\ UNCHANGED <<robot, backups>>

Confirmed ==
  /\ pc = "review"
  /\ Goes(IF op = "flash" THEN "prepare" ELSE "next")
  /\ UNCHANGED <<deviceVars, backups, image, before, source, writeVars, late>>

Declined ==
  /\ pc = "review" /\ Abandoned("cancelled")

-----------------------------------------------------------------------------
(* The images of a flash, and its rollback image, always read anew.        *)

(* The package is opened once more; only a hosted one is known to be the   *)
(* one of the review.                                                      *)
Unpacked == {c \in Packages : hosted => c = image[Var]}

Prepared ==
  /\ pc = "prepare"
  /\ \E c \in Unpacked : image' = Compact(c)
  /\ Goes("backup")
  /\ UNCHANGED <<deviceVars, backups, before, source, writeVars, late>>

SameBytes(i) == backups[i].image = robot[Var]

(* A new image is kept beside the older ones, unless the one found for     *)
(* this robot has the same bytes: then its record is written again.        *)
BackupRead ==
  /\ pc = "backup" /\ here
  /\ before' = robot[Var]
  /\ \/ /\ source' \in {i \in Usable : SameBytes(i)}
        /\ backups' = [backups EXCEPT ![source'].whole = FALSE]
     \/ /\ Usable = {} \/ \E i \in Usable : ~SameBytes(i)
        /\ Len(backups) + Cardinality(sets) < MaxImages
        /\ backups' = Stored(robot[Var]) /\ source' = Len(backups')
  /\ Goes("record")
  /\ UNCHANGED <<deviceVars, image, writeVars, late>>

BackupRecorded ==
  /\ pc = "record"
  /\ backups' = [backups EXCEPT ![source].whole = TRUE]
  /\ Goes(IF op = "flash" THEN "choose" ELSE "review")
  /\ UNCHANGED <<deviceVars, image, before, source, writeVars, late>>

(* What this robot had in a system partition is put into a copy of the new *)
(* image, if a backup of that partition has it.                            *)
Calibrated(c) == {c} \cup Other
Personal(images) == \A p \in Parts \ {Var} : images[p] \in Calibrated(image[p])

(* Fresh var is built from the image just read, or from an older one when  *)
(* that has lost the robot's identity or calibration.                      *)
Suitable(i) == backups[i].image \in Own
Fresh(i) == IF Suitable(i) THEN Own ELSE {}

VarChosen ==
  /\ pc = "choose"
  /\ IF keep
     THEN \E i \in Usable, images \in [Parts -> Other] :
            /\ Personal(images)
            /\ Suitable(source) => i = source
            /\ \E c \in Fresh(i) : image' = [images EXCEPT ![Var] = c]
     ELSE UNCHANGED image
  /\ Goes("recheck")
  /\ UNCHANGED <<deviceVars, backups, before, source, writeVars, late>>

(* Only the install of a hosted image looks at the identity again.         *)
SameRobot == here

Rechecked ==
  /\ pc = "recheck"
  /\ hosted => SameRobot
  /\ late' = (late /\ ~hosted)
  /\ Goes("next")
  /\ UNCHANGED <<deviceVars, backups, image, before, source, writeVars>>

(* A failure before the first write, the other robot found included.       *)
Refused ==
  /\ pc \in {"review", "prepare", "record", "backup", "choose", "recheck"}
  /\ Abandoned("failed")

-----------------------------------------------------------------------------
(* One partition after the other: record, transfer, readback, record.      *)

NextParts == {p \in todo : op = "flash" => \A q \in todo : p <= q}

WriteBegins(p) ==
  /\ pc = "next" /\ p \in NextParts
  /\ entry' = [entry EXCEPT ![p] = "started"]
  /\ saved' = Torn
  /\ Goes("start")
  /\ UNCHANGED <<deviceVars, backups, image, before, source, todo, touched, silent, late>>

Record == entry

StartRecorded ==
  /\ pc = "start"
  /\ saved' = Record
  /\ Goes("transfer")
  /\ UNCHANGED <<deviceVars, backups, image, before, source, todo, touched, entry, silent,
                 late>>

(* The robot at the port now holds c in p.                                 *)
Holds(p, c) ==
  IF here THEN robot' = [robot EXCEPT ![p] = c] /\ UNCHANGED guest
  ELSE /\ guest' = [guest EXCEPT ![p] = IF c = image[p] THEN "image" ELSE "spoiled"]
       /\ UNCHANGED robot

(* The transfer is reported complete; Broken only shows in a readback.     *)
Transferred(p) ==
  /\ pc = "transfer" /\ entry[p] = "started"
  /\ touched' = touched \cup {p}
  /\ \E c \in {image[p], Broken} : Holds(p, c) /\ silent' = (silent \/ c # image[p])
  /\ Goes("sent")
  /\ UNCHANGED <<here, backups, image, before, source, todo, entry, saved, late>>

TransferFails(p) ==
  /\ pc = "transfer" /\ entry[p] = "started"
  /\ touched' = touched \cup {p}
  /\ \E c \in {robot[p], image[p], Broken} : Holds(p, c)
  /\ Goes("failing")
  /\ UNCHANGED <<here, backups, image, before, source, todo, entry, saved, silent, late>>

Matches(p) == IF here THEN robot[p] = image[p] ELSE guest[p] = "image"

ReadBack(p) ==
  /\ pc = "sent" /\ entry[p] = "started"
  /\ entry' = [entry EXCEPT ![p] = IF ~readback THEN "done"
                                   ELSE IF Matches(p) THEN "verified" ELSE "mismatch"]
  /\ saved' = Torn
  /\ Goes("note")
  /\ UNCHANGED <<deviceVars, backups, image, before, source, todo, touched, silent, late>>

Remaining == {p \in todo : entry[p] = "none"}

EntryRecorded ==
  /\ pc = "note"
  /\ saved' = entry
  /\ IF \E p \in Parts : entry[p] = "mismatch"
     THEN Goes("failing") /\ UNCHANGED todo
     ELSE /\ todo' = Remaining
          /\ Goes(IF Remaining = {} THEN "reset" ELSE "next")
  /\ UNCHANGED <<deviceVars, backups, image, before, source, touched, entry, silent, late>>

(* After a flash the robot is asked to reset.                              *)
Finished ==
  /\ pc = "reset"
  /\ Ends("done", {}) /\ UNCHANGED saved

(* A candidate that changed, a disk that is full, a readback cut short; an *)
(* edit is not prepared for a full disk, and just ends (see Crash).        *)
WriteFails ==
  /\ pc = "sent" \/ (op # "edit" /\ pc \in {"next", "start", "note"})
  /\ Goes("failing")
  /\ UNCHANGED <<deviceVars, backups, image, before, source, writeVars, late>>

FailureTruncates ==
  /\ pc = "failing"
  /\ saved' = Torn
  /\ Goes("failed")
  /\ UNCHANGED <<deviceVars, backups, image, before, source, todo, touched, entry, silent,
                 late>>

(* The copy of var an edit read stays, unless it became the rollback image.*)
Left == IF op = "edit" /\ source # 0 /\ backups[source].image # before
        THEN {before} ELSE {}

FailureRecorded ==
  /\ pc = "failed"
  /\ Ends("failed", Left)
  /\ saved' \in {entry, Torn}

(* The toolkit is killed or interrupted, or fails unprepared.              *)
Crash ==
  /\ pc # "idle"
  /\ Ends("stopped", Left) /\ UNCHANGED saved

-----------------------------------------------------------------------------
Next ==
  \/ RobotRuns \/ SetSaved \/ RobotExchanged
  \/ \E package \in Packages, k, h, r \in BOOLEAN : FlashPlanned(package, k, h, r)
  \/ \E c \in Whole : EditPlanned(c)
  \/ \E parts \in (SUBSET Parts) \ {{}}, c \in Other : RestorePlanned(parts, c)
  \/ Confirmed \/ Declined
  \/ Prepared \/ BackupRead \/ BackupRecorded \/ VarChosen \/ Rechecked \/ Refused
  \/ \E p \in Parts :
       WriteBegins(p) \/ Transferred(p) \/ TransferFails(p) \/ ReadBack(p)
  \/ StartRecorded \/ EntryRecorded \/ Finished
  \/ WriteFails \/ FailureTruncates \/ FailureRecorded \/ Crash

Spec == Init /\ [][Next]_vars

-----------------------------------------------------------------------------
(* Type correctness; a partition still to be written has no entry in the   *)
(* record between two writes.                                              *)
TypeOK ==
  /\ robot \in [Parts -> Content] /\ here \in BOOLEAN
  /\ guest \in [Parts -> {"none", "image", "spoiled"}]
  /\ backups \in Seq([image : Content, whole : BOOLEAN])
  /\ sets \in SUBSET Content /\ spare \in SUBSET Content
  /\ op \in {"none", "flash", "edit", "restore"}
  /\ keep \in BOOLEAN /\ hosted \in BOOLEAN /\ readback \in BOOLEAN
  /\ image \in [Parts -> Content] /\ before \in Content
  /\ source \in 0 .. Len(backups)
  /\ todo \in SUBSET Parts /\ touched \in SUBSET Parts
  /\ entry \in [Parts -> {"none", "started", "done", "verified", "mismatch"}]
  /\ saved \in [Parts -> {"none", "started", "done", "verified", "mismatch", "torn"}]
  /\ silent \in BOOLEAN /\ late \in BOOLEAN
  /\ pc \in {"idle", "review", "prepare", "backup", "record", "choose", "recheck", "next", "start",
             "transfer", "sent", "note", "reset", "failing", "failed"}
  /\ outcome \in {"none", "running", "cancelled", "done", "failed", "stopped"}
  /\ pc = "next" => \A p \in todo : entry[p] = "none"

(* "Backup before write": once a flash may have changed a partition, the   *)
(* store has a usable image with exactly the var it found; an edit has a   *)
(* usable image of this robot's var, and when it fails or is cut short     *)
(* the var it found is still on disk.                                      *)
RollbackFirst ==
  touched # {} /\ op \in {"flash", "edit"} =>
    /\ source \in Usable
    /\ op = "flash" => backups[source].image = before
    /\ op = "edit" /\ outcome \in {"failed", "stopped"} =>
         before \in StoredImages \cup spare
    /\ Var \notin touched => robot[Var] = before

(* A partition whose transfer ever began is named by the record on disk,   *)
(* after a crash as well, or that record is visibly cut short.             *)
RecordedFirst == \A p \in touched : saved[p] # "none"

(* Whatever fails, in whatever order operations follow each other, a copy  *)
(* of var with the robot's identity and calibration exists.                *)
CalibrationKept ==
  \/ robot[Var] \in Own
  \/ (StoredImages \cup sets) \cap Own # {}

(* What a record says was verified is there, and an operation that reports *)
(* success wrote all it was to write, a calibrated var if that was asked,  *)
(* provided that no other robot came to the port.                          *)
ReportTrue ==
  /\ \A p \in Parts : saved[p] = "verified" /\ guest[p] = "none" => robot[p] = image[p]
  /\ outcome = "done" =>
       /\ op = "flash" => touched = Parts
       /\ op = "flash" /\ keep => image[Var] \in Own
       /\ \A p \in touched : guest[p] = "none" /\ ~silent => robot[p] = image[p]

(* The install of a hosted image writes to no other robot than the one it  *)
(* saved var from, unless they were exchanged after its last look.         *)
HostedSameRobot ==
  op = "flash" /\ hosted /\ ~late => guest = Blank

(* "Another robot's backup is refused": what is restored goes to the robot *)
(* it was saved from.                                                      *)
OwnBackupOnly == op = "restore" => guest = Blank
=============================================================================
