-------------------------- MODULE RobotWritesProofs --------------------------
(***************************************************************************)
(* What a flash, an edit and a restore guarantee for any number of         *)
(* partitions, any contents and any length of the rollback store.          *)
(***************************************************************************)
EXTENDS RobotWrites, TLAPS

-----------------------------------------------------------------------------
(* The inductive invariant.                                                *)

Early == {"review", "prepare", "backup", "record", "choose", "recheck"}
Sending == {"next", "start", "transfer", "sent", "note", "reset"}
Writing == Sending \cup {"failing", "failed"}

\* An operation is of the kind that has its place, and has not written
\* before its review is over.
PhasesOK ==
  /\ pc # "idle" => op # "none" /\ outcome = "running"
  /\ pc \in {"prepare", "backup", "choose", "recheck"} => op = "flash"
  /\ pc = "record" => op \in {"flash", "edit"}
  /\ pc \in Early => touched = {} /\ entry = Blank /\ saved = Blank /\ guest = Blank
  /\ op = "none" => touched = {}

\* Where the var that was read is the one the robot has, until it is written.
ReadIsFresh ==
  \/ op = "edit" /\ (pc # "idle" \/ touched # {})
  \/ op = "flash" /\ (pc \in {"record", "choose", "recheck"} \cup Writing \/ touched # {})

\* The rollback image of an operation, from the place where it is chosen.
BackedOK ==
  /\ pc = "record" => source \in 1 .. Len(backups) /\ backups[source].image = before
  /\ op = "flash" /\ (pc \in {"choose", "recheck"} \cup Writing \/ touched # {}) =>
       source \in Usable /\ backups[source].image = before
  /\ op = "edit" /\ (pc \in {"review"} \cup Writing \/ touched # {}) => source \in Usable
  /\ ReadIsFresh /\ Var \notin touched => robot[Var] = before
  /\ pc = "idle" /\ op = "edit" /\ touched # {} /\ outcome \in {"failed", "stopped"} =>
       before \in StoredImages \cup spare

\* The record, in memory and on disk, names what was touched and is right
\* about what it calls verified.
JournalOK ==
  /\ \A p \in touched : saved[p] # "none" /\ entry[p] # "none"
  /\ pc = "transfer" => saved = entry
  /\ \A p \in Parts :
       "verified" \in {entry[p], saved[p]} /\ guest[p] = "none" => robot[p] = image[p]

\* One transfer at a time; what is no longer to be written was touched; what
\* was touched is there, while nothing has failed.
ProgressOK ==
  /\ \A p, q \in Parts : entry[p] = "started" /\ entry[q] = "started" => p = q
  /\ pc \in {"next", "note", "reset"} => \A p \in Parts : entry[p] # "started"
  /\ pc \in {"next", "sent", "note", "reset"} =>
       \A p \in Parts : entry[p] # "none" => p \in touched
  /\ pc \in {"start", "transfer"} =>
       \A p \in Parts : entry[p] \notin {"none", "started"} => p \in touched
  /\ pc \in Early \cup Sending /\ op = "flash" => Parts \subseteq todo \cup touched
  /\ pc = "reset" => todo = {}
  /\ pc \in Sending => \A p \in touched : guest[p] = "none" /\ ~silent => robot[p] = image[p]
  /\ op = "flash" /\ keep /\ pc \in {"recheck"} \cup Writing => image[Var] \in Own

\* What is in the store and in the sets includes a calibrated var.
Saves == StoredImages \cup sets
KeptOK ==
  /\ backups # <<>> \/ sets # {} => Saves \cap Own # {}
  /\ op = "restore" => sets # {}

\* A hosted flash writes to this robot.
LookedOK ==
  op = "flash" /\ hosted /\ ~late => (pc \in Writing => here) /\ guest = Blank

-----------------------------------------------------------------------------
(* Lemmas about the partitions and about the store.                        *)

Backup == [image : Content, whole : BOOLEAN]

LEMMA PartsFacts ==
  /\ Var \in Parts
  /\ Broken \in Content /\ Own \subseteq Content /\ Other \subseteq Content
  /\ Whole \subseteq Content /\ Broken \notin Whole /\ Own \cap Other = {}
BY LastAssumption, ContentAssumption DEF Var, Parts, Content, Whole

\* A new image comes last and its record is not written yet.
LEMMA StoredFacts ==
  ASSUME backups \in Seq(Backup), NEW c \in Content
  PROVE  /\ Stored(c) \in Seq(Backup)
         /\ Len(Stored(c)) = Len(backups) + 1
         /\ \A i \in 1 .. Len(backups) : Stored(c)[i] = backups[i]
         /\ Stored(c)[Len(backups) + 1] = [image |-> c, whole |-> FALSE]
<1> DEFINE b == [image |-> c, whole |-> FALSE]
<1>1. b \in Backup BY DEF Backup
<1> HIDE DEF b
<1>2. Stored(c) = Append(backups, b) BY DEF Stored, b
<1>3. /\ Append(backups, b) \in Seq(Backup)
      /\ Len(Append(backups, b)) = Len(backups) + 1
      /\ \A i \in 1 .. Len(backups) : Append(backups, b)[i] = backups[i]
      /\ Append(backups, b)[Len(backups) + 1] = b
  BY <1>1
<1> QED BY <1>2, <1>3 DEF b

\* A record that is written, or written again, changes no image.
LEMMA MarkedFacts ==
  ASSUME NEW b \in Seq(Backup), NEW i \in 1 .. Len(b), NEW w \in BOOLEAN,
         NEW m, m = [b EXCEPT ![i].whole = w]
  PROVE  /\ m \in Seq(Backup) /\ Len(m) = Len(b)
         /\ \A j \in 1 .. Len(b) : m[j].image = b[j].image
         /\ m[i].whole = w
         /\ \A j \in 1 .. Len(b) : j # i => m[j] = b[j]
<1>1. /\ DOMAIN b = 1 .. Len(b) /\ Len(b) \in Nat
      /\ \A j \in 1 .. Len(b) : b[j] \in Backup
  OBVIOUS
<1> DEFINE r == [b[i] EXCEPT !.whole = w]
<1>2. r \in Backup /\ r.image = b[i].image /\ r.whole = w BY <1>1 DEF Backup
<1>3. m = [b EXCEPT ![i] = r] OBVIOUS
<1> HIDE DEF r
<1>4. m = [j \in 1 .. Len(b) |-> IF j = i THEN r ELSE b[j]] BY <1>1, <1>3
<1>5. \A j \in 1 .. Len(b) : m[j] \in Backup BY <1>1, <1>2, <1>4
<1>6. m \in Seq(Backup) /\ Len(m) = Len(b) BY <1>1, <1>4, <1>5
<1> QED BY <1>2, <1>4, <1>6

-----------------------------------------------------------------------------
(* Every step of the program, by its kind.                                 *)

Plans ==
  \/ \E package \in Packages, k, h, r \in BOOLEAN : FlashPlanned(package, k, h, r)
  \/ \E c \in Whole : EditPlanned(c)
  \/ \E parts \in (SUBSET Parts) \ {{}}, c \in Other : RestorePlanned(parts, c)

Around == RobotRuns \/ SetSaved \/ RobotExchanged

Prepares ==
  \/ Confirmed \/ Declined \/ Prepared \/ BackupRead \/ BackupRecorded
  \/ VarChosen \/ Rechecked \/ Refused

Writes ==
  \/ \E p \in Parts : WriteBegins(p) \/ Transferred(p) \/ TransferFails(p) \/ ReadBack(p)
  \/ StartRecorded \/ EntryRecorded \/ Finished
  \/ WriteFails \/ FailureTruncates \/ FailureRecorded \/ Crash

LEMMA NextKinds == Next <=> Around \/ Plans \/ Prepares \/ Writes
BY Zenon DEF Next, Around, Plans, Prepares, Writes

-----------------------------------------------------------------------------
\* The store and the sets only grow, and an image in the store stays.
Grows ==
  /\ backups' \in Seq(Backup) /\ Len(backups') >= Len(backups)
  /\ \A i \in 1 .. Len(backups) : backups'[i].image = backups[i].image
  /\ sets \subseteq sets'

LEMMA StoreGrows ==
  ASSUME TypeOK, BackedOK, [Next]_vars
  PROVE  Grows
<1>1. backups \in Seq(Backup) /\ Len(backups) \in Nat /\ robot[Var] \in Content
  BY PartsFacts DEF TypeOK, Backup
<1>2. ASSUME UNCHANGED backups, sets \subseteq sets' PROVE Grows
  BY <1>1, <1>2 DEF Grows
<1>3. ASSUME backups' = Stored(robot[Var]), UNCHANGED sets PROVE Grows
  <2> DEFINE b == Stored(robot[Var])
  <2>1. /\ b \in Seq(Backup) /\ Len(b) = Len(backups) + 1
        /\ \A i \in 1 .. Len(backups) : b[i] = backups[i]
    BY <1>1, StoredFacts
  <2> HIDE DEF b
  <2> QED BY <1>1, <1>3, <2>1 DEF Grows, b
<1>4. ASSUME NEW i \in 1 .. Len(backups), NEW w \in BOOLEAN,
             backups' = [backups EXCEPT ![i].whole = w], UNCHANGED sets
      PROVE  Grows
  BY <1>1, <1>4, MarkedFacts DEF Grows
<1>5. CASE Around
  BY <1>5, <1>2 DEF Around, RobotRuns, SetSaved, RobotExchanged, storeVars
<1>6. CASE Plans
  <2>1. ASSUME NEW c \in Whole, EditPlanned(c) PROVE Grows
    BY <2>1, <1>2, <1>3, Zenon DEF EditPlanned, Begins
  <2> QED BY <1>6, <2>1, <1>2 DEF Plans, FlashPlanned, RestorePlanned, Begins
<1>7. CASE Prepares
  <2>1. CASE BackupRead
    <3>1. CASE \E i \in Usable : backups' = [backups EXCEPT ![i].whole = FALSE]
      BY <2>1, <3>1, <1>4 DEF BackupRead, Goes, Usable
    <3>2. CASE backups' = Stored(robot[Var])
      BY <2>1, <3>2, <1>3 DEF BackupRead, Goes
    <3> QED BY <2>1, <3>1, <3>2 DEF BackupRead
  <2>2. CASE BackupRecorded
    BY <2>2, <1>4 DEF BackupRecorded, Goes, BackedOK
  <2>3. CASE Confirmed \/ Prepared \/ VarChosen \/ Rechecked
    BY <2>3, <1>2 DEF Confirmed, Prepared, VarChosen, Rechecked, Goes
  <2>4. CASE Declined \/ Refused
    BY <2>4, <1>2 DEF Declined, Refused, Abandoned
  <2> QED BY <1>7, <2>1, <2>2, <2>3, <2>4 DEF Prepares
<1>8. CASE Writes
  BY <1>8, <1>2 DEF Writes, WriteBegins, Transferred, TransferFails, ReadBack, StartRecorded,
     EntryRecorded, Finished, WriteFails, FailureTruncates, FailureRecorded, Crash, Goes, Ends
<1>9. CASE UNCHANGED vars BY <1>9, <1>2 DEF vars, storeVars
<1> QED BY <1>5, <1>6, <1>7, <1>8, <1>9, NextKinds

\* What the store held it still holds.
LEMMA ImagesStay ==
  ASSUME TypeOK, Grows
  PROVE  StoredImages \subseteq StoredImages' /\ Saves \subseteq Saves'
<1>1. Len(backups) \in Nat /\ Len(backups') \in Nat BY DEF TypeOK, Grows
<1>2. ASSUME NEW c \in StoredImages PROVE c \in StoredImages'
  <2>1. PICK i \in 1 .. Len(backups) : c = backups[i].image BY <1>2 DEF StoredImages
  <2>2. i \in 1 .. Len(backups') /\ c = backups'[i].image BY <1>1, <2>1 DEF Grows
  <2> QED BY <2>2 DEF StoredImages
<1> QED BY <1>2 DEF Saves, Grows

-----------------------------------------------------------------------------
(* A copy of var with the calibration is always somewhere.                 *)

\* What comes first into the store or into a set is the robot's var.
LEMMA FirstIsVar ==
  ASSUME TypeOK, BackedOK, [Next]_vars, backups = <<>>, sets = {}
  PROVE  \/ backups' = <<>> /\ sets' = {}
         \/ robot[Var] \in Saves'
<1> DEFINE Goal == (backups' = <<>> /\ sets' = {}) \/ robot[Var] \in Saves'
<1> SUFFICES Goal OBVIOUS
<1>1. ASSUME UNCHANGED backups, UNCHANGED sets PROVE Goal BY <1>1
<1>2. ASSUME backups' = Stored(robot[Var]) PROVE Goal
  <2>1. backups \in Seq(Backup) /\ Len(backups) \in Nat /\ robot[Var] \in Content
    BY PartsFacts DEF TypeOK, Backup
  <2> DEFINE b == Stored(robot[Var])
             n == Len(backups) + 1
  <2>2. Len(b) = n /\ b[n] = [image |-> robot[Var], whole |-> FALSE]
    BY <2>1, StoredFacts
  <2>3. n \in 1 .. Len(b) /\ b[n].image = robot[Var] BY <2>1, <2>2
  <2> HIDE DEF b, n
  <2> QED BY <1>2, <2>3 DEF Saves, StoredImages, b
<1> HIDE DEF Goal
<1>3. 1 .. Len(backups) = {} /\ Usable = {} BY DEF Usable
<1>4. CASE Around
  <2>1. CASE SetSaved BY <2>1 DEF SetSaved, Saves, Goal
  <2> QED BY <1>4, <2>1, <1>1 DEF Around, RobotRuns, RobotExchanged, storeVars
<1>5. CASE Plans
  <2>1. ASSUME NEW c \in Whole, EditPlanned(c) PROVE Goal
    BY <2>1, <1>1, <1>2, Zenon DEF EditPlanned, Begins
  <2> QED BY <1>5, <2>1, <1>1 DEF Plans, FlashPlanned, RestorePlanned, Begins
<1>6. CASE Prepares
  <2>1. CASE BackupRead BY <2>1, <1>2, <1>3 DEF BackupRead
  <2>2. CASE BackupRecorded BY <2>2, <1>3 DEF BackupRecorded, BackedOK
  <2> QED BY <1>6, <1>1, <2>1, <2>2 DEF Prepares, Confirmed, Prepared, VarChosen, Rechecked, Declined,
             Refused, Abandoned, Goes
<1>7. CASE Writes
  BY <1>7, <1>1 DEF Writes, WriteBegins, Transferred, TransferFails, ReadBack, StartRecorded,
     EntryRecorded, Finished, WriteFails, FailureTruncates, FailureRecorded, Crash, Goes, Ends
<1>8. CASE UNCHANGED vars BY <1>8, <1>1 DEF vars, storeVars
<1> QED BY <1>4, <1>5, <1>6, <1>7, <1>8, NextKinds

\* The var of a robot that runs stays what it is; only a transfer replaces
\* it by something else, and an operation that transfers has saved before.
LEMMA VarStep ==
  ASSUME TypeOK, PhasesOK, BackedOK, KeptOK, [Next]_vars, robot[Var] \in Own
  PROVE  robot'[Var] \in Own \/ Saves \cap Own # {}
<1>1. robot \in [Parts -> Content] /\ Var \in Parts BY PartsFacts DEF TypeOK
<1>2. CASE Around
  <2>1. CASE RobotRuns BY <1>1, <2>1 DEF RobotRuns
  <2> QED BY <1>2, <2>1 DEF Around, SetSaved, RobotExchanged
<1>3. CASE Plans
  BY <1>3 DEF Plans, FlashPlanned, EditPlanned, RestorePlanned
<1>4. CASE Prepares
  BY <1>4 DEF Prepares, Confirmed, Prepared, BackupRead, BackupRecorded, VarChosen, Rechecked,
     Declined, Refused, Abandoned, deviceVars
<1>5. CASE Writes
  <2>1. ASSUME pc = "transfer" PROVE Saves \cap Own # {}
    <3>1. op \in {"flash", "edit", "restore"} BY <2>1 DEF PhasesOK, TypeOK
    <3>2. CASE op \in {"flash", "edit"}
      <4>1. source \in 1 .. Len(backups) BY <2>1, <3>2 DEF BackedOK, Writing, Sending, Usable
      <4>2. backups # <<>> BY <4>1
      <4> QED BY <4>2 DEF KeptOK
    <3> QED BY <3>1, <3>2 DEF KeptOK
  <2>2. CASE \E p \in Parts : Transferred(p) \/ TransferFails(p)
    BY <2>1, <2>2 DEF Transferred, TransferFails
  <2> QED BY <1>5, <2>2 DEF Writes, WriteBegins, ReadBack, StartRecorded, EntryRecorded, Finished,
             WriteFails, FailureTruncates, FailureRecorded, Crash, Ends, deviceVars
<1>6. CASE UNCHANGED vars BY <1>6 DEF vars, deviceVars
<1> QED BY <1>2, <1>3, <1>4, <1>5, <1>6, NextKinds

\* Only a set can be restored.
LEMMA RestoreStep ==
  ASSUME TypeOK, KeptOK, Grows, [Next]_vars, op' = "restore"
  PROVE  sets' # {}
<1>1. op = "restore" => sets' # {} BY DEF KeptOK, Grows
<1>2. ASSUME NEW parts, NEW c, RestorePlanned(parts, c) PROVE sets' # {}
  BY <1>2 DEF RestorePlanned, Grows
<1>3. UNCHANGED op \/ op' = "none" => sets' # {} BY <1>1
<1>4. CASE Around
  BY <1>3, <1>4 DEF Around, RobotRuns, SetSaved, RobotExchanged, NoPlan, planVars
<1>5. CASE Plans
  BY <1>2, <1>5 DEF Plans, FlashPlanned, EditPlanned, Begins
<1>6. CASE Prepares
  BY <1>3, <1>6 DEF Prepares, Confirmed, Prepared, BackupRead, BackupRecorded, VarChosen, Rechecked,
     Declined, Refused, Abandoned, NoPlan, Goes, planVars
<1>7. CASE Writes
  BY <1>3, <1>7 DEF Writes, WriteBegins, Transferred, TransferFails, ReadBack, StartRecorded,
     EntryRecorded, Finished, WriteFails, FailureTruncates, FailureRecorded, Crash, Goes, Ends,
     planVars
<1>8. CASE UNCHANGED vars BY <1>3, <1>8 DEF vars, planVars
<1> QED BY <1>4, <1>5, <1>6, <1>7, <1>8, NextKinds

LEMMA KeptStep ==
  ASSUME TypeOK, PhasesOK, BackedOK, KeptOK, CalibrationKept, [Next]_vars
  PROVE  KeptOK' /\ CalibrationKept'
<1>1. Grows /\ Saves \subseteq Saves' BY StoreGrows, ImagesStay
<1>2. CASE Saves \cap Own # {}
  BY <1>1, <1>2, RestoreStep DEF KeptOK, CalibrationKept, Saves
<1>3. CASE Saves \cap Own = {}
  <2>1. backups = <<>> /\ sets = {} /\ robot[Var] \in Own
    BY <1>3 DEF KeptOK, CalibrationKept, Saves
  <2>2. (backups' = <<>> /\ sets' = {}) \/ Saves' \cap Own # {}
    BY <2>1, FirstIsVar
  <2>3. robot'[Var] \in Own BY <1>3, <2>1, VarStep
  <2>4. op' = "restore" => sets' # {} BY <1>1, RestoreStep
  <2> QED BY <2>2, <2>3, <2>4 DEF KeptOK, CalibrationKept
<1> QED BY <1>2, <1>3

-----------------------------------------------------------------------------
(* Types.                                                                  *)

\* What does not depend on the length of the store.
FlagsOK ==
  /\ here \in BOOLEAN /\ sets \in SUBSET Content /\ spare \in SUBSET Content
  /\ op \in {"none", "flash", "edit", "restore"}
  /\ keep \in BOOLEAN /\ hosted \in BOOLEAN /\ readback \in BOOLEAN
  /\ before \in Content
  /\ todo \in SUBSET Parts /\ touched \in SUBSET Parts
  /\ silent \in BOOLEAN /\ late \in BOOLEAN
  /\ pc \in {"idle"} \cup Early \cup Writing
  /\ outcome \in {"none", "running", "cancelled", "done", "failed", "stopped"}

Marks == {"none", "started", "done", "verified", "mismatch"}
MapsOK ==
  /\ robot \in [Parts -> Content] /\ image \in [Parts -> Content]
  /\ guest \in [Parts -> {"none", "image", "spoiled"}]
  /\ entry \in [Parts -> Marks] /\ saved \in [Parts -> Marks \cup {"torn"}]
  /\ pc = "next" => \A p \in todo : entry[p] = "none"

LEMMA TypeParts ==
  TypeOK <=> FlagsOK /\ MapsOK /\ backups \in Seq(Backup) /\ source \in 0 .. Len(backups)
BY DEF TypeOK, FlagsOK, MapsOK, Marks, Backup, Early, Writing, Sending

LEMMA BlankFacts ==
  /\ Blank \in [Parts -> {"none", "image", "spoiled"}]
  /\ Blank \in [Parts -> Marks] /\ Blank \in [Parts -> Marks \cup {"torn"}]
  /\ Torn \in [Parts -> Marks \cup {"torn"}]
  /\ \A p \in Parts : Blank[p] = "none" /\ Torn[p] = "torn"
BY DEF Blank, Torn, Marks

LEMMA FlagsStep ==
  ASSUME FlagsOK, MapsOK, [Next]_vars
  PROVE  FlagsOK'
<1> USE PartsFacts DEF FlagsOK, Early, Writing, Sending
<1>1. CASE Around
  <2>1. CASE RobotRuns BY <2>1 DEF RobotRuns, NoPlan, Clear
  <2>2. CASE SetSaved
    <3>1. robot[Var] \in Content BY DEF MapsOK
    <3> QED BY <2>2, <3>1 DEF SetSaved, planVars, writeVars
  <2>3. CASE RobotExchanged BY <2>3 DEF RobotExchanged, planVars, writeVars, storeVars
  <2> QED BY <1>1, <2>1, <2>2, <2>3 DEF Around
<1>2. CASE Plans
  <2>1. ASSUME NEW package \in Packages, NEW k \in BOOLEAN, NEW h \in BOOLEAN, NEW r \in BOOLEAN,
               FlashPlanned(package, k, h, r)
        PROVE  FlagsOK'
    BY <2>1 DEF FlashPlanned, Begins, Clear
  <2>2. ASSUME NEW c \in Whole, EditPlanned(c) PROVE FlagsOK'
    <3>1. robot[Var] \in Content BY DEF MapsOK
    <3> QED BY <2>2, <3>1 DEF EditPlanned, Begins, Clear
  <2>3. ASSUME NEW parts \in SUBSET Parts, NEW c \in Other, RestorePlanned(parts, c)
        PROVE  FlagsOK'
    BY <2>3 DEF RestorePlanned, Begins, Clear
  <2> QED BY <1>2, <2>1, <2>2, <2>3 DEF Plans
<1>3. CASE Prepares
  <2>1. CASE Declined \/ Refused BY <2>1 DEF Declined, Refused, Abandoned, NoPlan, Clear
  <2>2. CASE BackupRead
    <3>1. robot[Var] \in Content BY DEF MapsOK
    <3> QED BY <2>2, <3>1 DEF BackupRead, Goes, deviceVars, planVars, writeVars
  <2>3. CASE Rechecked BY <2>3 DEF Rechecked, Goes, deviceVars, planVars, writeVars
  <2>4. CASE Confirmed \/ Prepared \/ BackupRecorded \/ VarChosen
    BY <2>4 DEF Confirmed, Prepared, BackupRecorded, VarChosen, Goes, deviceVars, planVars, writeVars
  <2> QED BY <1>3, <2>1, <2>2, <2>3, <2>4 DEF Prepares
<1>4. CASE Writes
  <2>1. ASSUME NEW p \in Parts, WriteBegins(p) \/ ReadBack(p) PROVE FlagsOK'
    BY <2>1 DEF WriteBegins, ReadBack, Goes, deviceVars, planVars
  <2>2. ASSUME NEW p \in Parts, Transferred(p) PROVE FlagsOK'
    BY <2>2 DEF Transferred, Goes, planVars
  <2>3. ASSUME NEW p \in Parts, TransferFails(p) PROVE FlagsOK'
    BY <2>3 DEF TransferFails, Goes, planVars
  <2>4. CASE StartRecorded \/ WriteFails \/ FailureTruncates
    BY <2>4 DEF StartRecorded, WriteFails, FailureTruncates, Goes, deviceVars, planVars, writeVars
  <2>5. CASE EntryRecorded
    BY <2>5 DEF EntryRecorded, Remaining, Goes, deviceVars, planVars
  <2>6. CASE Finished \/ FailureRecorded \/ Crash
    <3>1. Left \subseteq Content BY DEF Left
    <3> QED BY <2>6, <3>1 DEF Finished, FailureRecorded, Crash, Ends, deviceVars, planVars
  <2> QED BY <1>4, <2>1, <2>2, <2>3, <2>4, <2>5, <2>6 DEF Writes
<1>5. CASE UNCHANGED vars BY <1>5 DEF vars, deviceVars, storeVars, planVars, writeVars
<1> QED BY <1>1, <1>2, <1>3, <1>4, <1>5, NextKinds

LEMMA MapsStep ==
  ASSUME FlagsOK, MapsOK, PhasesOK, [Next]_vars
  PROVE  MapsOK'
<1> USE PartsFacts, BlankFacts DEF MapsOK
<1>1. CASE Around
  <2>1. CASE RobotRuns
    <3>1. robot' \in [Parts -> Content] BY <2>1 DEF RobotRuns
    <3> QED BY <2>1, <3>1 DEF RobotRuns, NoPlan, Clear
  <2>2. CASE SetSaved \/ RobotExchanged
    BY <2>2 DEF SetSaved, RobotExchanged, writeVars
  <2> QED BY <1>1, <2>1, <2>2 DEF Around
<1>2. CASE Plans
  <2>1. ASSUME NEW package \in Packages, NEW k, NEW h, NEW r, FlashPlanned(package, k, h, r)
        PROVE  MapsOK'
    <3>1. image' \in [Parts -> Content] BY <2>1 DEF FlashPlanned, Compact, Packages
    <3> QED BY <2>1, <3>1 DEF FlashPlanned, Begins, Clear
  <2>2. ASSUME NEW c \in Whole, EditPlanned(c) PROVE MapsOK'
    <3>1. image' \in [Parts -> Content] BY <2>2 DEF EditPlanned
    <3>2. pc' # "next" BY <2>2 DEF EditPlanned
    <3> QED BY <2>2, <3>1, <3>2 DEF EditPlanned, Begins, Clear
  <2>3. ASSUME NEW parts \in SUBSET Parts, NEW c \in Other, RestorePlanned(parts, c)
        PROVE  MapsOK'
    <3>1. PICK v \in sets : image' = [p \in Parts |-> IF p \notin parts THEN robot[p]
                                                  ELSE IF p = Var THEN v ELSE c]
      BY <2>3 DEF RestorePlanned
    <3>2. image' \in [Parts -> Content] BY <3>1 DEF FlagsOK
    <3> QED BY <2>3, <3>2 DEF RestorePlanned, Begins, Clear
  <2> QED BY <1>2, <2>1, <2>2, <2>3 DEF Plans
<1>3. CASE Prepares
  <2>1. CASE Declined \/ Refused
    BY <2>1 DEF Declined, Refused, Abandoned, NoPlan, Clear
  <2>2. CASE Prepared
    <3>1. image' \in [Parts -> Content] BY <2>2 DEF Prepared, Compact, Unpacked, Packages
    <3> QED BY <2>2, <3>1 DEF Prepared, Goes, deviceVars, writeVars
  <2>3. CASE VarChosen
    <3>1. image' \in [Parts -> Content]
      <4>1. ASSUME NEW i \in Usable, NEW images \in [Parts -> Other], NEW c \in Fresh(i),
                   image' = [images EXCEPT ![Var] = c]
            PROVE  image' \in [Parts -> Content]
        BY <4>1 DEF Fresh
      <4> QED BY <2>3, <4>1 DEF VarChosen
    <3> QED BY <2>3, <3>1 DEF VarChosen, Goes, deviceVars, writeVars
  <2>4. CASE Confirmed \/ Rechecked
    <3>1. entry = Blank BY <2>4 DEF Confirmed, Rechecked, PhasesOK, Early
    <3> QED BY <2>4, <3>1 DEF Confirmed, Rechecked, Goes, deviceVars, writeVars, FlagsOK
  <2>5. CASE BackupRead \/ BackupRecorded
    BY <2>5 DEF BackupRead, BackupRecorded, Goes, deviceVars, writeVars
  <2> QED BY <1>3, <2>1, <2>2, <2>3, <2>4, <2>5 DEF Prepares
<1>4. CASE Writes
  <2>1. ASSUME NEW p \in Parts, NEW c \in Content, Holds(p, c)
        PROVE  /\ robot' \in [Parts -> Content]
               /\ guest' \in [Parts -> {"none", "image", "spoiled"}]
    BY <2>1 DEF Holds
  <2>2. ASSUME NEW p \in Parts, WriteBegins(p) PROVE MapsOK'
    <3>1. entry' \in [Parts -> Marks] BY <2>2 DEF WriteBegins, Marks
    <3> QED BY <2>2, <3>1 DEF WriteBegins, Goes, deviceVars
  <2>3. ASSUME NEW p \in Parts, ReadBack(p) PROVE MapsOK'
    <3>1. entry' \in [Parts -> Marks] BY <2>3 DEF ReadBack, Marks
    <3> QED BY <2>3, <3>1 DEF ReadBack, Goes, deviceVars
  <2>4. ASSUME NEW p \in Parts, Transferred(p) PROVE MapsOK'
    <3>1. \E c \in Content : Holds(p, c) BY <2>4 DEF Transferred
    <3> QED BY <2>1, <2>4, <3>1 DEF Transferred, Goes
  <2>5. ASSUME NEW p \in Parts, TransferFails(p) PROVE MapsOK'
    <3>1. \E c \in Content : Holds(p, c) BY <2>5 DEF TransferFails
    <3> QED BY <2>1, <2>5, <3>1 DEF TransferFails, Goes
  <2>6. CASE StartRecorded \/ WriteFails \/ FailureTruncates
    BY <2>6 DEF StartRecorded, Record, WriteFails, FailureTruncates, Goes, deviceVars, writeVars
  <2>7. CASE EntryRecorded
    BY <2>7 DEF EntryRecorded, Remaining, Goes, deviceVars
  <2>8. CASE Finished \/ FailureRecorded \/ Crash
    BY <2>8 DEF Finished, FailureRecorded, Crash, Ends, deviceVars
  <2> QED BY <1>4, <2>2, <2>3, <2>4, <2>5, <2>6, <2>7, <2>8 DEF Writes
<1>5. CASE UNCHANGED vars BY <1>5 DEF vars, deviceVars, writeVars
<1> QED BY <1>1, <1>2, <1>3, <1>4, <1>5, NextKinds

\* The place of the rollback image stays in the store.
LEMMA SourceStep ==
  ASSUME TypeOK, BackedOK, [Next]_vars
  PROVE  source' \in 0 .. Len(backups')
<1>1. Grows BY StoreGrows
<1>2. source \in 0 .. Len(backups) /\ Len(backups) \in Nat /\ Len(backups') \in Nat
  BY <1>1 DEF TypeOK, Grows
<1>3. ASSUME UNCHANGED source \/ source' = 0 PROVE source' \in 0 .. Len(backups')
  BY <1>1, <1>2, <1>3 DEF Grows
<1>4. ASSUME source' \in Usable PROVE source' \in 0 .. Len(backups')
  BY <1>1, <1>2, <1>4 DEF Grows, Usable
<1>5. ASSUME source' = Len(backups') PROVE source' \in 0 .. Len(backups')
  BY <1>2, <1>5
<1> DEFINE Goal == source' \in 0 .. Len(backups')
<1> HIDE DEF Goal
<1>6. CASE Around
  BY <1>3, <1>6 DEF Around, RobotRuns, SetSaved, RobotExchanged, NoPlan, Goal
<1>7. CASE Plans
  BY <1>3, <1>4, <1>5, <1>7 DEF Plans, FlashPlanned, EditPlanned, RestorePlanned, Goal
<1>8. CASE Prepares
  <2>1. CASE BackupRead BY <1>4, <1>5, <2>1 DEF BackupRead, Goal
  <2> QED BY <1>3, <1>8, <2>1 DEF Prepares, Confirmed, Declined, Prepared, BackupRecorded, VarChosen,
             Rechecked, Refused, Abandoned, NoPlan, Goal
<1>9. CASE Writes
  BY <1>3, <1>9 DEF Writes, WriteBegins, Transferred, TransferFails, ReadBack, StartRecorded,
     EntryRecorded, Finished, WriteFails, FailureTruncates, FailureRecorded, Crash, Ends, Goal
<1>10. CASE UNCHANGED vars BY <1>3, <1>10 DEF vars, Goal
<1> QED BY <1>6, <1>7, <1>8, <1>9, <1>10, NextKinds DEF Goal

LEMMA TypeStep ==
  ASSUME TypeOK, PhasesOK, BackedOK, [Next]_vars
  PROVE  TypeOK'
<1>1. FlagsOK /\ MapsOK BY TypeParts
<1>2. FlagsOK' /\ MapsOK' BY <1>1, FlagsStep, MapsStep
<1>3. backups' \in Seq(Backup) /\ source' \in 0 .. Len(backups')
  BY StoreGrows, SourceStep DEF Grows
<1> QED BY <1>2, <1>3 DEF TypeOK, FlagsOK, MapsOK, Marks, Backup, Early, Writing, Sending

-----------------------------------------------------------------------------
(* An operation keeps to its places.                                       *)

LEMMA PhasesStep ==
  ASSUME TypeOK, PhasesOK, [Next]_vars
  PROVE  PhasesOK'
<1> USE DEF PhasesOK, Early
<1>1. CASE Around
  BY <1>1 DEF Around, RobotRuns, SetSaved, RobotExchanged, NoPlan, Clear, planVars, writeVars
<1>2. CASE Plans
  BY <1>2 DEF Plans, FlashPlanned, EditPlanned, RestorePlanned, Begins, Clear
<1>3. CASE Prepares
  <2>1. CASE Declined \/ Refused
    BY <2>1 DEF Declined, Refused, Abandoned, NoPlan, Clear
  <2>2. CASE Confirmed \/ Prepared
    BY <2>2 DEF Confirmed, Prepared, Goes, deviceVars, planVars, writeVars
  <2>3. CASE BackupRead \/ BackupRecorded
    BY <2>3 DEF BackupRead, BackupRecorded, Goes, deviceVars, planVars, writeVars
  <2>4. CASE VarChosen \/ Rechecked
    BY <2>4 DEF VarChosen, Rechecked, Goes, deviceVars, planVars, writeVars
  <2> QED BY <1>3, <2>1, <2>2, <2>3, <2>4 DEF Prepares
<1>4. CASE Writes
  <2>1. ASSUME NEW p \in Parts, WriteBegins(p) \/ Transferred(p) \/ TransferFails(p) \/ ReadBack(p)
        PROVE  PhasesOK'
    BY <2>1 DEF WriteBegins, Transferred, TransferFails, ReadBack, Goes, planVars
  <2>2. CASE StartRecorded \/ EntryRecorded \/ WriteFails \/ FailureTruncates
    BY <2>2 DEF StartRecorded, EntryRecorded, WriteFails, FailureTruncates, Goes, planVars
  <2>3. CASE Finished \/ FailureRecorded \/ Crash
    BY <2>3 DEF Finished, FailureRecorded, Crash, Ends, planVars
  <2> QED BY <1>4, <2>1, <2>2, <2>3 DEF Writes
<1>5. CASE UNCHANGED vars BY <1>5 DEF vars, deviceVars, planVars, writeVars
<1> QED BY <1>1, <1>2, <1>3, <1>4, <1>5, NextKinds

-----------------------------------------------------------------------------
(* The rollback image.                                                     *)

LEMMA BackedStep ==
  ASSUME TypeOK, PhasesOK, BackedOK, [Next]_vars
  PROVE  BackedOK'
<1> USE DEF BackedOK
<1>1. Grows /\ StoredImages \subseteq StoredImages' BY StoreGrows, ImagesStay
<1>2. backups \in Seq(Backup) /\ Len(backups) \in Nat /\ robot[Var] \in Content
  BY PartsFacts DEF TypeOK, Backup
<1>3. ASSUME backups' = Stored(robot[Var]), source' = Len(backups')
      PROVE  source' \in 1 .. Len(backups') /\ backups'[source'].image = robot[Var]
  <2> DEFINE b == Stored(robot[Var])
             n == Len(backups) + 1
  <2>1. Len(b) = n /\ b[n] = [image |-> robot[Var], whole |-> FALSE]
    BY <1>2, StoredFacts
  <2>2. n \in 1 .. Len(b) /\ b[n].image = robot[Var] BY <1>2, <2>1
  <2> HIDE DEF b, n
  <2> QED BY <1>3, <2>1, <2>2 DEF b
<1>4. CASE Around
  <2>1. CASE RobotRuns BY <2>1 DEF RobotRuns, NoPlan, Clear, ReadIsFresh
  <2>2. CASE SetSaved
    BY <1>1, <2>2 DEF SetSaved, ReadIsFresh, Usable, Writing, Sending, StoredImages, planVars, writeVars
  <2>3. CASE RobotExchanged
    BY <1>1, <2>3 DEF RobotExchanged, ReadIsFresh, Usable, Writing, Sending, StoredImages, storeVars,
       planVars, writeVars
  <2> QED BY <1>4, <2>1, <2>2, <2>3 DEF Around
<1>5. CASE Plans
  <2>1. ASSUME NEW package, NEW k, NEW h, NEW r, FlashPlanned(package, k, h, r) PROVE BackedOK'
    BY <2>1 DEF FlashPlanned, Begins, Clear, ReadIsFresh, Writing, Sending
  <2>2. ASSUME NEW c \in Whole, EditPlanned(c) PROVE BackedOK'
    <3>1. op' = "edit" /\ touched' = {} /\ before' = robot[Var] /\ UNCHANGED robot
      BY <2>2 DEF EditPlanned, Begins, Clear
    <3>2. CASE source' \in Usable /\ pc' = "review" /\ UNCHANGED backups
      BY <3>1, <3>2 DEF Usable
    <3>3. CASE backups' = Stored(robot[Var]) /\ source' = Len(backups') /\ pc' = "record"
      BY <1>3, <3>1, <3>3 DEF Writing, Sending
    <3> QED BY <2>2, <3>2, <3>3 DEF EditPlanned
  <2>3. ASSUME NEW parts, NEW c, RestorePlanned(parts, c) PROVE BackedOK'
    BY <2>3 DEF RestorePlanned, Begins, Clear, ReadIsFresh, Writing, Sending
  <2> QED BY <1>5, <2>1, <2>2, <2>3 DEF Plans
<1>6. CASE Prepares
  <2>1. CASE Declined \/ Refused
    BY <2>1 DEF Declined, Refused, Abandoned, NoPlan, Clear, ReadIsFresh
  <2>2. CASE Confirmed
    BY <2>2 DEF Confirmed, Goes, PhasesOK, Early, ReadIsFresh, Usable, Writing, Sending, deviceVars,
       planVars, writeVars
  <2>3. CASE Prepared
    BY <2>3 DEF Prepared, Goes, PhasesOK, Early, ReadIsFresh, Writing, Sending, deviceVars, planVars,
       writeVars
  <2>4. CASE BackupRead
    <3>1. op' = "flash" /\ touched' = {} /\ before' = robot[Var] /\ UNCHANGED robot /\ pc' = "record"
      BY <2>4 DEF BackupRead, Goes, PhasesOK, Early, deviceVars, planVars, writeVars
    <3>2. source' \in 1 .. Len(backups') /\ backups'[source'].image = robot[Var]
      <4>1. ASSUME NEW i \in Usable, SameBytes(i), backups' = [backups EXCEPT ![i].whole = FALSE]
            PROVE  i \in 1 .. Len(backups') /\ backups'[i].image = robot[Var]
        BY <1>2, <4>1, MarkedFacts DEF Usable, SameBytes
      <4>2. CASE backups' = Stored(robot[Var]) /\ source' = Len(backups') BY <1>3, <4>2
      <4> QED BY <2>4, <4>1, <4>2 DEF BackupRead
    <3> QED BY <3>1, <3>2 DEF Writing, Sending
  <2>5. CASE BackupRecorded
    <3>1. source \in 1 .. Len(backups) /\ backups[source].image = before /\ source' = source
          /\ before' = before
      BY <2>5 DEF BackupRecorded
    <3>2. /\ source' \in 1 .. Len(backups') /\ backups'[source'].whole = TRUE
          /\ backups'[source'].image = before'
      BY <1>2, <2>5, <3>1, MarkedFacts DEF BackupRecorded
    <3>3. source' \in Usable' BY <3>2 DEF Usable
    <3>4. ReadIsFresh => robot[Var] = before
      BY <2>5 DEF BackupRecorded, PhasesOK, Early
    <3>5. ReadIsFresh' => ReadIsFresh
      BY <2>5 DEF BackupRecorded, Goes, PhasesOK, Early, ReadIsFresh, planVars, writeVars
    <3> QED BY <2>5, <3>2, <3>3, <3>4, <3>5
            DEF BackupRecorded, Goes, PhasesOK, Early, Writing, Sending, deviceVars, planVars, writeVars
  <2>6. CASE VarChosen
    BY <2>6 DEF VarChosen, Goes, PhasesOK, ReadIsFresh, Usable, Writing, Sending, deviceVars, planVars,
       writeVars
  <2>7. CASE Rechecked
    BY <2>7 DEF Rechecked, Goes, PhasesOK, ReadIsFresh, Usable, Writing, Sending, deviceVars, planVars,
       writeVars
  <2> QED BY <1>6, <2>1, <2>2, <2>3, <2>4, <2>5, <2>6, <2>7 DEF Prepares
<1>7. CASE Writes
  <2>1. ASSUME pc \in Writing, UNCHANGED <<planVars, backups, before, source>>,
               touched \subseteq touched', Var \notin touched' => robot'[Var] = robot[Var],
               pc' \in Writing
        PROVE  BackedOK'
    BY <2>1 DEF ReadIsFresh, Usable, Writing, Sending, planVars
  <2>2. ASSUME NEW p \in Parts, NEW c, Holds(p, c), p \in touched'
        PROVE  Var \notin touched' => robot'[Var] = robot[Var]
    BY <2>2, PartsFacts DEF Holds, TypeOK
  <2>3. ASSUME NEW p \in Parts, Transferred(p) \/ TransferFails(p) PROVE BackedOK'
    BY <2>1, <2>2, <2>3 DEF Transferred, TransferFails, Goes, Writing, Sending
  <2>4. ASSUME NEW p \in Parts, WriteBegins(p) \/ ReadBack(p) PROVE BackedOK'
    BY <2>1, <2>4 DEF WriteBegins, ReadBack, Goes, Writing, Sending, deviceVars
  <2>5. CASE StartRecorded \/ EntryRecorded
    BY <2>1, <2>5 DEF StartRecorded, EntryRecorded, Goes, Writing, Sending, deviceVars
  <2>6. CASE WriteFails \/ FailureTruncates
    BY <2>1, <2>6 DEF WriteFails, FailureTruncates, Goes, Writing, Sending, deviceVars, writeVars
  <2>7. CASE Finished \/ FailureRecorded \/ Crash
    <3>1. pc # "idle" /\ pc' = "idle" /\ outcome' \in {"done", "failed", "stopped"}
          /\ UNCHANGED <<robot, backups, planVars, before, source, touched>>
      BY <2>7 DEF Finished, FailureRecorded, Crash, Ends, deviceVars
    <3>2. (spare' = {} /\ outcome' = "done") \/ spare' = Left
      BY <2>7 DEF Finished, FailureRecorded, Crash, Ends
    <3>3. ASSUME op = "edit", touched # {}, spare' = Left PROVE before \in StoredImages' \cup spare'
      <4>1. source \in 1 .. Len(backups) BY <3>3 DEF Usable
      <4>2. CASE backups[source].image = before BY <3>1, <4>1, <4>2 DEF StoredImages
      <4>3. CASE backups[source].image # before BY <1>2, <3>3, <4>1, <4>3 DEF Left
      <4> QED BY <4>2, <4>3
    <3> QED BY <3>1, <3>2, <3>3 DEF ReadIsFresh, Usable, Writing, Sending, planVars
  <2> QED BY <1>7, <2>3, <2>4, <2>5, <2>6, <2>7 DEF Writes
<1>8. CASE UNCHANGED vars
  BY <1>8 DEF vars, deviceVars, storeVars, planVars, writeVars, ReadIsFresh, Usable, StoredImages
<1> QED BY <1>4, <1>5, <1>6, <1>7, <1>8, NextKinds

-----------------------------------------------------------------------------
(* The record of the writes.                                               *)

\* A transfer changes one partition, here or of the robot that came.
LEMMA HoldsFacts ==
  ASSUME TypeOK, NEW p \in Parts, NEW c \in Content, Holds(p, c)
  PROVE  /\ \A q \in Parts : q # p => robot'[q] = robot[q] /\ guest'[q] = guest[q]
         /\ here => robot'[p] = c /\ guest' = guest
         /\ ~here => guest'[p] # "none" /\ robot' = robot
BY DEF Holds, TypeOK

LEMMA JournalStep ==
  ASSUME TypeOK, PhasesOK, JournalOK, [Next]_vars
  PROVE  JournalOK'
<1> USE BlankFacts DEF JournalOK
<1>1. TypeOK /\ MapsOK BY TypeParts
<1>2. CASE Around
  <2>1. CASE RobotRuns BY <2>1 DEF RobotRuns, NoPlan, Clear
  <2>2. CASE SetSaved \/ RobotExchanged BY <2>2 DEF SetSaved, RobotExchanged, writeVars
  <2> QED BY <1>2, <2>1, <2>2 DEF Around
<1>3. CASE Plans
  BY <1>3 DEF Plans, FlashPlanned, EditPlanned, RestorePlanned, Begins, Clear
<1>4. CASE Prepares
  <2>1. CASE Declined \/ Refused BY <2>1 DEF Declined, Refused, Abandoned, NoPlan, Clear
  <2>2. ASSUME Prepares, ~(Declined \/ Refused)
        PROVE  /\ UNCHANGED <<entry, saved, touched, robot, guest>> /\ pc \in Early
               /\ pc' # "transfer"
    BY <2>2 DEF Prepares, Confirmed, Prepared, BackupRead, BackupRecorded, VarChosen, Rechecked,
       Goes, Early, deviceVars, writeVars
  <2>3. ASSUME pc \in Early PROVE touched = {} /\ entry = Blank /\ saved = Blank
    BY <2>3 DEF PhasesOK
  <2> QED BY <1>4, <2>1, <2>2, <2>3
<1>5. CASE Writes
  <2>1. ASSUME NEW p \in Parts, WriteBegins(p) PROVE JournalOK'
    BY <1>1, <2>1 DEF WriteBegins, Goes, MapsOK, TypeOK, deviceVars
  <2>2. ASSUME NEW p \in Parts, ReadBack(p) PROVE JournalOK'
    BY <1>1, <2>2 DEF ReadBack, Matches, Goes, MapsOK, TypeOK, deviceVars
  <2>3. ASSUME NEW p \in Parts, Transferred(p) \/ TransferFails(p) PROVE JournalOK'
    <3>1. /\ UNCHANGED <<entry, saved, image>> /\ entry[p] = "started" /\ saved = entry
          /\ touched' = touched \cup {p} /\ pc' # "transfer"
      BY <2>3 DEF Transferred, TransferFails, Goes
    <3>2. \E c \in Content : Holds(p, c)
      BY <1>1, <2>3, PartsFacts DEF Transferred, TransferFails, MapsOK
    <3>3. \A q \in Parts : q # p => robot'[q] = robot[q] /\ guest'[q] = guest[q]
      BY <3>2, HoldsFacts
    <3> QED BY <3>1, <3>3
  <2>4. CASE StartRecorded
    BY <2>4 DEF StartRecorded, Record, Goes, deviceVars
  <2>5. CASE EntryRecorded
    BY <2>5 DEF EntryRecorded, Goes, deviceVars
  <2>6. CASE WriteFails
    BY <2>6 DEF WriteFails, Goes, deviceVars, writeVars
  <2>7. CASE FailureTruncates
    BY <1>1, <2>7 DEF FailureTruncates, Goes, deviceVars, TypeOK
  <2>8. CASE Finished \/ FailureRecorded \/ Crash
    BY <1>1, <2>8 DEF Finished, FailureRecorded, Crash, Ends, deviceVars, TypeOK
  <2> QED BY <1>5, <2>1, <2>2, <2>3, <2>4, <2>5, <2>6, <2>7, <2>8 DEF Writes
<1>6. CASE UNCHANGED vars BY <1>6 DEF vars, deviceVars, writeVars
<1> QED BY <1>2, <1>3, <1>4, <1>5, <1>6, NextKinds

-----------------------------------------------------------------------------
(* What was touched and what is left to write.                             *)

LEMMA ProgressStep ==
  ASSUME TypeOK, PhasesOK, ProgressOK, [Next]_vars
  PROVE  ProgressOK'
<1> USE BlankFacts DEF ProgressOK, Early, Writing, Sending
<1>1. MapsOK /\ todo \subseteq Parts /\ touched \subseteq Parts BY TypeParts DEF TypeOK
<1>2. CASE Around
  <2>1. CASE RobotRuns BY <2>1 DEF RobotRuns, NoPlan, Clear
  <2>2. CASE SetSaved \/ RobotExchanged
    BY <2>2 DEF SetSaved, RobotExchanged, planVars, writeVars
  <2> QED BY <1>2, <2>1, <2>2 DEF Around
<1>3. CASE Plans
  BY <1>3 DEF Plans, FlashPlanned, EditPlanned, RestorePlanned, Begins, Clear
<1>4. CASE Prepares
  <2>1. CASE Declined \/ Refused BY <2>1 DEF Declined, Refused, Abandoned, NoPlan, Clear
  <2>2. CASE Confirmed \/ Prepared \/ BackupRead \/ BackupRecorded
    BY <2>2 DEF Confirmed, Prepared, BackupRead, BackupRecorded, Goes, PhasesOK, deviceVars, planVars,
       writeVars
  <2>3. CASE VarChosen
    <3>1. keep => image'[Var] \in Own
      <4>1. ASSUME NEW i, NEW images \in [Parts -> Other], NEW c \in Fresh(i),
                   image' = [images EXCEPT ![Var] = c]
            PROVE  image'[Var] \in Own
        BY <4>1, PartsFacts DEF Fresh
      <4> QED BY <2>3, <4>1 DEF VarChosen
    <3> QED BY <2>3, <3>1 DEF VarChosen, Goes, PhasesOK, deviceVars, planVars, writeVars
  <2>4. CASE Rechecked
    BY <2>4 DEF Rechecked, Goes, PhasesOK, deviceVars, planVars, writeVars
  <2> QED BY <1>4, <2>1, <2>2, <2>3, <2>4 DEF Prepares
<1>5. CASE Writes
  <2>1. ASSUME NEW p \in Parts, WriteBegins(p) PROVE ProgressOK'
    BY <1>1, <2>1 DEF WriteBegins, Goes, MapsOK, deviceVars, planVars
  <2>2. ASSUME NEW p \in Parts, Transferred(p) PROVE ProgressOK'
    <3>1. PICK c \in Content :
            /\ Holds(p, c) /\ silent' = (silent \/ c # image[p])
      BY <1>1, <2>2, PartsFacts DEF Transferred, MapsOK
    <3>2. /\ UNCHANGED <<entry, image, todo, planVars>> /\ entry[p] = "started"
          /\ touched' = touched \cup {p} /\ pc = "transfer" /\ pc' = "sent"
      BY <2>2 DEF Transferred, Goes
    <3>3. \A q \in touched' : guest'[q] = "none" /\ ~silent' => robot'[q] = image'[q]
      <4>1. ~silent' => ~silent /\ c = image[p] BY <3>1, Zenon
      <4>2. /\ \A q \in Parts : q # p => robot'[q] = robot[q] /\ guest'[q] = guest[q]
            /\ here => robot'[p] = c
            /\ ~here => guest'[p] # "none"
        BY <3>1, HoldsFacts
      <4>3. \A q \in touched : guest[q] = "none" /\ ~silent => robot[q] = image[q] BY <3>2
      <4> QED BY <1>1, <3>2, <4>1, <4>2, <4>3
    <3> QED BY <3>2, <3>3 DEF planVars
  <2>3. ASSUME NEW p \in Parts, TransferFails(p) PROVE ProgressOK'
    BY <2>3 DEF TransferFails, Goes, planVars
  <2>4. ASSUME NEW p \in Parts, ReadBack(p) PROVE ProgressOK'
    BY <1>1, <2>4 DEF ReadBack, Goes, MapsOK, deviceVars, planVars
  <2>5. CASE StartRecorded
    BY <2>5 DEF StartRecorded, Goes, deviceVars, planVars
  <2>6. CASE EntryRecorded
    BY <1>1, <2>6 DEF EntryRecorded, Remaining, Goes, deviceVars, planVars
  <2>7. CASE WriteFails \/ FailureTruncates
    BY <2>7 DEF WriteFails, FailureTruncates, Goes, deviceVars, planVars, writeVars
  <2>8. CASE Finished \/ FailureRecorded \/ Crash
    BY <2>8 DEF Finished, FailureRecorded, Crash, Ends, deviceVars, planVars
  <2> QED BY <1>5, <2>1, <2>2, <2>3, <2>4, <2>5, <2>6, <2>7, <2>8 DEF Writes
<1>6. CASE UNCHANGED vars BY <1>6 DEF vars, deviceVars, planVars, writeVars
<1> QED BY <1>2, <1>3, <1>4, <1>5, <1>6, NextKinds

\* What a robot that is done was told to hold it holds, until it runs.
LEMMA ReportStep ==
  ASSUME TypeOK, PhasesOK, JournalOK, ProgressOK, ReportTrue, [Next]_vars
  PROVE  ReportTrue'
<1>1. MapsOK /\ touched \subseteq Parts BY TypeParts DEF TypeOK
<1>2. \A p \in Parts : saved'[p] = "verified" /\ guest'[p] = "none" => robot'[p] = image'[p]
  BY JournalStep DEF JournalOK
<1> DEFINE Done ==
      outcome = "done" =>
        /\ op = "flash" => touched = Parts
        /\ op = "flash" /\ keep => image[Var] \in Own
        /\ \A p \in touched : guest[p] = "none" /\ ~silent => robot[p] = image[p]
<1>3. Done BY DEF ReportTrue
<1>4. Done'
  <2>1. CASE Around
    BY <1>3, <2>1 DEF Around, RobotRuns, SetSaved, RobotExchanged, planVars, writeVars
  <2>2. CASE Plans
    BY <2>2 DEF Plans, FlashPlanned, EditPlanned, RestorePlanned
  <2>3. CASE Prepares
    BY <2>3 DEF Prepares, Confirmed, Prepared, BackupRead, BackupRecorded, VarChosen, Rechecked,
       Declined, Refused, Abandoned, Goes, PhasesOK
  <2>4. CASE Writes
    <3>1. CASE Finished
      <4>1. UNCHANGED <<op, keep, touched, image, guest, silent, robot>> /\ pc = "reset"
        BY <3>1 DEF Finished, Ends, deviceVars, planVars
      <4>2. op = "flash" => touched = Parts
        BY <1>1, <4>1 DEF ProgressOK, Early, Sending
      <4>3. op = "flash" /\ keep => image[Var] \in Own
        BY <4>1 DEF ProgressOK, Writing, Sending
      <4>4. \A p \in touched : guest[p] = "none" /\ ~silent => robot[p] = image[p]
        BY <4>1 DEF ProgressOK, Sending
      <4> QED BY <4>1, <4>2, <4>3, <4>4
    <3>2. CASE FailureRecorded \/ Crash BY <3>2 DEF FailureRecorded, Crash, Ends
    <3> QED BY <2>4, <3>1, <3>2 DEF Writes, WriteBegins, Transferred, TransferFails, ReadBack,
               StartRecorded, EntryRecorded, WriteFails, FailureTruncates, Goes, PhasesOK
  <2>5. CASE UNCHANGED vars BY <1>3, <2>5 DEF vars, deviceVars, planVars, writeVars
  <2> QED BY <2>1, <2>2, <2>3, <2>4, <2>5, NextKinds
<1> QED BY <1>2, <1>4 DEF ReportTrue

-----------------------------------------------------------------------------
(* A hosted flash and the last look at the identity.                       *)

LEMMA LookedStep ==
  ASSUME TypeOK, PhasesOK, LookedOK, [Next]_vars
  PROVE  LookedOK'
<1> USE DEF LookedOK, Writing, Sending
<1>1. CASE Around
  BY <1>1 DEF Around, RobotRuns, SetSaved, RobotExchanged, NoPlan, Clear, planVars
<1>2. CASE Plans
  BY <1>2 DEF Plans, FlashPlanned, EditPlanned, RestorePlanned, Begins, Clear
<1>3. CASE Prepares
  <2>1. CASE Rechecked
    BY <2>1 DEF Rechecked, SameRobot, Goes, PhasesOK, Early, deviceVars, planVars
  <2> QED BY <1>3, <2>1 DEF Prepares, Confirmed, Prepared, BackupRead, BackupRecorded, VarChosen,
             Declined, Refused, Abandoned, NoPlan, Clear, Goes, PhasesOK, deviceVars, planVars
<1>4. CASE Writes
  <2>1. ASSUME NEW p \in Parts, Transferred(p) \/ TransferFails(p) PROVE LookedOK'
    BY <2>1 DEF Transferred, TransferFails, Holds, Goes, planVars
  <2>2. CASE Finished \/ FailureRecorded \/ Crash
    BY <2>2 DEF Finished, FailureRecorded, Crash, Ends, deviceVars, planVars
  <2> QED BY <1>4, <2>1, <2>2 DEF Writes, WriteBegins, ReadBack, StartRecorded, EntryRecorded,
             WriteFails, FailureTruncates, Goes, deviceVars, planVars, writeVars
<1>5. CASE UNCHANGED vars BY <1>5 DEF vars, deviceVars, planVars
<1> QED BY <1>1, <1>2, <1>3, <1>4, <1>5, NextKinds

-----------------------------------------------------------------------------
IInv ==
  /\ TypeOK /\ PhasesOK /\ BackedOK /\ JournalOK /\ ProgressOK /\ KeptOK /\ LookedOK
  /\ CalibrationKept /\ ReportTrue

LEMMA InitInv == Init => IInv
<1> SUFFICES ASSUME Init PROVE IInv OBVIOUS
<1> USE PartsFacts, BlankFacts DEF Init
<1>1. Len(backups) = 0 /\ backups \in Seq(Backup) /\ StoredImages = {} BY DEF StoredImages
<1>2. robot \in [Parts -> Content] /\ robot[Var] \in Own BY DEF Content
<1>3. FlagsOK /\ MapsOK BY <1>2 DEF FlagsOK, MapsOK
<1>4. TypeOK BY <1>1, <1>3, TypeParts
<1>5. PhasesOK /\ BackedOK BY DEF PhasesOK, BackedOK, ReadIsFresh, Early
<1>6. JournalOK /\ ProgressOK
  BY DEF JournalOK, ProgressOK, Early, Writing, Sending
<1>7. KeptOK /\ LookedOK /\ CalibrationKept
  BY <1>2 DEF KeptOK, LookedOK, CalibrationKept, Writing, Sending
<1>8. ReportTrue BY DEF ReportTrue
<1> QED BY <1>4, <1>5, <1>6, <1>7, <1>8 DEF IInv

LEMMA IInvStep == IInv /\ [Next]_vars => IInv'
BY TypeStep, PhasesStep, BackedStep, JournalStep, ProgressStep, KeptStep, LookedStep, ReportStep
   DEF IInv

LEMMA Invariance == Spec => []IInv
<1>1. Init => IInv BY InitInv
<1>2. IInv /\ [Next]_vars => IInv' BY IInvStep
<1> QED BY <1>1, <1>2, PTL DEF Spec

-----------------------------------------------------------------------------
(* The results.                                                            *)

\* Every variable keeps its type, whatever the number of partitions.
THEOREM TypeCorrect == Spec => []TypeOK
<1>1. IInv => TypeOK BY DEF IInv
<1> QED BY <1>1, Invariance, PTL

\* flash_update and _write_candidate of jibo_dfu.py never write before a
\* usable rollback image of var exists, and var as it was found survives.
THEOREM RollbackBeforeWrites == Spec => []RollbackFirst
<1>1. IInv => RollbackFirst
  <2> SUFFICES ASSUME IInv, touched # {}, op \in {"flash", "edit"}
               PROVE  /\ source \in Usable
                      /\ op = "flash" => backups[source].image = before
                      /\ op = "edit" /\ outcome \in {"failed", "stopped"} =>
                           before \in StoredImages \cup spare
                      /\ Var \notin touched => robot[Var] = before
    BY DEF RollbackFirst
  <2>1. source \in Usable /\ (op = "flash" => backups[source].image = before)
    BY DEF IInv, BackedOK
  <2>2. ReadIsFresh BY DEF ReadIsFresh
  <2>3. outcome \in {"failed", "stopped"} => pc = "idle" BY DEF IInv, PhasesOK
  <2> QED BY <2>1, <2>2, <2>3 DEF IInv, BackedOK
<1> QED BY <1>1, Invariance, PTL

\* Every partition whose transfer began is named by the record on disk, or
\* the record is visibly cut short, after a crash at any step as well.
THEOREM WritesRecorded == Spec => []RecordedFirst
<1>1. IInv => RecordedFirst BY DEF IInv, JournalOK, RecordedFirst
<1> QED BY <1>1, Invariance, PTL

\* No sequence of flashes, edits, restores, failures and crashes loses the
\* last copy of var with the robot's identity and calibration.
THEOREM CalibrationSurvives == Spec => []CalibrationKept
<1>1. IInv => CalibrationKept BY DEF IInv
<1> QED BY <1>1, Invariance, PTL

\* What a record calls verified is there, and success means what it says.
THEOREM ReportsAreTrue == Spec => []ReportTrue
<1>1. IInv => ReportTrue BY DEF IInv
<1> QED BY <1>1, Invariance, PTL

\* The install of a hosted image writes only to the robot whose var it saved.
THEOREM HostedWritesHere == Spec => []HostedSameRobot
<1>1. IInv => HostedSameRobot BY DEF IInv, LookedOK, HostedSameRobot
<1> QED BY <1>1, Invariance, PTL
=============================================================================
