----------------------------- MODULE BackupStore -----------------------------
(***************************************************************************)
(* The saved backup sets of jibo_dfu.py, as several toolkit windows make,  *)
(* restore and delete them at once.                                        *)
(*                                                                         *)
(* A set is a folder with a manifest (backup-set.json) and one image for   *)
(* each partition.  Windows coordinate only through advisory locks on the  *)
(* manifest file and through the status the manifest records; each window  *)
(* knows a set by the path it listed it at, while a lock follows the file. *)
(* The manifest is rewritten in place: a reader, and a crash, may find it  *)
(* truncated.                                                              *)
(*                                                                         *)
(* Folder names carry the time they were made, so no two sets share one.   *)
(***************************************************************************)
EXTENDS FiniteSets

CONSTANTS
  Windows,   \* the toolkit windows (processes) open on this computer
  Sets,      \* the backup sets that may ever be made
  Parts,     \* the partitions of the robot
  Var,       \* the partition that carries the robot's name
  NoSet      \* the set a window with no operation works on

ASSUME VarAssumption == Var \in Parts
ASSUME NoSetAssumption == NoSet \notin Sets

(* A folder is made under a provisional label and may move once, to the    *)
(* label of the robot; deletion sets it aside as ".deleting-...".          *)
Paths == {"tag", "name"}
Places == Paths \cup {"none", "aside", "gone"}
Ends == {"complete", "cancelled", "failed"}
Statuses == Ends \cup {"none", "torn", "reading"}
BackupSteps == {"begin", "lock", "reading", "naming", "append", "save",
                "unlock", "finish"}
DeleteSteps == {"checked", "opened", "held", "renamed", "removing"}
RestoreSteps == {"source", "shared", "review", "writing"}

VARIABLES
  folder,      \* folder[s]: where the folder of s is
  status,      \* status[s]: what its manifest says; "torn" when cut short
  entries,     \* entries[s][p]: the folder the record gives for p's image
  files,       \* files[s]: the partitions whose image is whole in the folder
  litter,      \* litter[s]: the folder holds a file no record will list
  shared,      \* shared[s]: windows with a shared lock on s's manifest
  exclusive,   \* exclusive[s]: windows with an exclusive lock on it
  step,        \* step[w]: where the operation of window w is
  target,      \* target[w]: the set it works on
  at,          \* at[w]: the folder it knows the set by
  todo,        \* todo[w]: the partitions it has still to read or write
  result       \* result[w]: the status its backup will record

disk == <<folder, status, entries, files, litter>>
locks == <<shared, exclusive>>
vars == <<disk, locks, step, target, at, todo, result>>

Init ==
  /\ folder = [s \in Sets |-> "none"]
  /\ status = [s \in Sets |-> "none"]
  /\ entries = [s \in Sets |-> [p \in Parts |-> "none"]]
  /\ files = [s \in Sets |-> {}]
  /\ litter = [s \in Sets |-> FALSE]
  /\ shared = [s \in Sets |-> {}]
  /\ exclusive = [s \in Sets |-> {}]
  /\ step = [w \in Windows |-> "idle"]
  /\ target = [w \in Windows |-> NoSet]
  /\ at = [w \in Windows |-> "none"]
  /\ todo = [w \in Windows |-> {}]
  /\ result = [w \in Windows |-> "none"]

-----------------------------------------------------------------------------
Listed(s) == {p \in Parts : entries[s][p] # "none"}
Goes(w, next) == step' = [step EXCEPT ![w] = next]

(* The operation of w is over: it holds no lock and remembers nothing.     *)
Returns(w) ==
  /\ Goes(w, "idle")
  /\ target' = [target EXCEPT ![w] = NoSet]
  /\ at' = [at EXCEPT ![w] = "none"]
  /\ todo' = [todo EXCEPT ![w] = {}]
  /\ result' = [result EXCEPT ![w] = "none"]

KeepsLocks(w) == UNCHANGED locks   \* used only to see TypeOK fail
Releases(w) ==
  /\ shared' = [s \in Sets |-> shared[s] \ {w}]
  /\ exclusive' = [s \in Sets |-> exclusive[s] \ {w}]

(* flock: shared locks exclude exclusive ones; nothing waits.              *)
MayShare(s) == exclusive[s] = {}
MayHold(s) == shared[s] = {} /\ exclusive[s] = {}

-----------------------------------------------------------------------------
(* Making a set.  The folder comes first, its manifest then says           *)
(* "reading", and only then is the shared lock taken.                      *)
BackupStarts(w, s) ==
  /\ step[w] = "idle" /\ folder[s] = "none"
  /\ \E chosen \in (SUBSET Parts) \ {{}} : todo' = [todo EXCEPT ![w] = chosen]
  /\ folder' = [folder EXCEPT ![s] = "tag"]
  /\ target' = [target EXCEPT ![w] = s]
  /\ at' = [at EXCEPT ![w] = "tag"]
  /\ Goes(w, "begin")
  /\ UNCHANGED <<status, entries, files, litter, locks, result>>

BackupLocks(w) ==
  /\ step[w] = "lock" /\ MayShare(target[w])
  /\ shared' = [shared EXCEPT ![target[w]] = @ \cup {w}]
  /\ Goes(w, "reading")
  /\ UNCHANGED <<disk, exclusive, target, at, todo, result>>

(* var is read before the others: it carries the name of the robot.        *)
NextParts(w) == IF Var \in todo[w] THEN {Var} ELSE todo[w]

BackupReads(w, p) ==
  /\ step[w] = "reading" /\ p \in NextParts(w)
  /\ files' = [files EXCEPT ![target[w]] = @ \cup {p}]
  /\ todo' = [todo EXCEPT ![w] = @ \ {p}]
  /\ Goes(w, IF p = Var THEN "naming" ELSE "append")
  /\ UNCHANGED <<folder, status, entries, litter, locks, target, at, result>>

(* A failed read may leave files behind: that of var writes a manifest of  *)
(* the failure, a bounded read its chunks.                                 *)
BackupReadFails(w, p) ==
  /\ step[w] = "reading" /\ p \in NextParts(w)
  /\ \E left \in BOOLEAN : litter' = [litter EXCEPT ![target[w]] = @ \/ left]
  /\ result' = [result EXCEPT ![w] = "failed"]
  /\ Goes(w, "unlock")
  /\ UNCHANGED <<folder, status, entries, files, locks, target, at, todo>>

(* A stop is noticed between two partitions, never after the last.         *)
BackupStops(w) ==
  /\ step[w] = "reading"
  /\ result' = [result EXCEPT
                  ![w] = IF todo[w] = {} THEN "complete" ELSE "cancelled"]
  /\ Goes(w, "unlock")
  /\ UNCHANGED <<disk, locks, target, at, todo>>

(* var named another robot folder, and the set moved there; or it stayed.  *)
BackupNames(w) ==
  /\ step[w] = "naming"
  /\ \/ /\ folder' = [folder EXCEPT ![target[w]] = "name"]
        /\ at' = [at EXCEPT ![w] = "name"]
     \/ UNCHANGED <<folder, at>>
  /\ Goes(w, "append")
  /\ UNCHANGED <<status, entries, files, litter, locks, target, todo, result>>

ProvisionalFolder(w) == "tag"   \* used only to see Restorable fail
FolderOf(w) == at[w]

BackupRecords(w) ==
  /\ step[w] = "append"
  /\ entries' = [entries EXCEPT ![target[w]] =
       [p \in Parts |-> IF p \in files[target[w]] /\ @[p] = "none"
                        THEN FolderOf(w) ELSE @[p]]]
  /\ Goes(w, "save")
  /\ UNCHANGED <<folder, status, files, litter, locks, target, at, todo, result>>

BackupUnlocks(w) ==
  /\ step[w] = "unlock"
  /\ Releases(w)
  /\ Goes(w, "finish")
  /\ UNCHANGED <<disk, target, at, todo, result>>

-----------------------------------------------------------------------------
(* The manifest is opened for writing, which empties it, and then written. *)
Writes(w) == step[w] \in {"begin", "save", "finish"}

ManifestTruncated(w) ==
  /\ Writes(w) /\ status[target[w]] # "torn"
  /\ status' = [status EXCEPT ![target[w]] = "torn"]
  /\ UNCHANGED <<folder, entries, files, litter, locks, step, target, at, todo,
                 result>>

ManifestWritten(w) ==
  /\ Writes(w) /\ status[target[w]] = "torn"
  /\ \/ /\ step[w] \in {"begin", "save"}
        /\ status' = [status EXCEPT ![target[w]] = "reading"]
        /\ Goes(w, IF step[w] = "begin" THEN "lock" ELSE "reading")
        /\ UNCHANGED <<target, at, todo, result>>
     \/ /\ step[w] = "finish"
        /\ status' = [status EXCEPT ![target[w]] = result[w]]
        /\ Returns(w)
  /\ UNCHANGED <<folder, entries, files, litter, locks>>

(* The disk refuses the new text.  While reading, and at a complete or     *)
(* cancelled end, the failure is itself recorded; at the start, or when it *)
(* happens again, it is not.                                               *)
ManifestFails(w) ==
  /\ Writes(w) /\ status[target[w]] = "torn"
  /\ \/ /\ step[w] = "save" \/ (step[w] = "finish" /\ result[w] # "failed")
        /\ result' = [result EXCEPT ![w] = "failed"]
        /\ Goes(w, IF step[w] = "save" THEN "unlock" ELSE "finish")
        /\ UNCHANGED <<target, at, todo>>
     \/ /\ step[w] = "begin" \/ (step[w] = "finish" /\ result[w] = "failed")
        /\ Returns(w)
  /\ UNCHANGED <<disk, locks>>

-----------------------------------------------------------------------------
(* Deleting a set.  Only a set that ended, and whose folder holds nothing  *)
(* but the files its record lists in that folder, is deleted.              *)
Readable(s) == status[s] \notin {"none", "torn"}
Ended(s) == Readable(s) /\ status[s] # "reading"
OwnPaths(s) == \A p \in Listed(s) : entries[s][p] = folder[s]
SelfContained(s) == OwnPaths(s) /\ ~litter[s] /\ files[s] = Listed(s)

DeleteChecks(w, s) ==
  /\ step[w] = "idle" /\ folder[s] \in Paths
  /\ Ended(s) /\ SelfContained(s)
  /\ target' = [target EXCEPT ![w] = s]
  /\ at' = [at EXCEPT ![w] = folder[s]]
  /\ Goes(w, "checked")
  /\ UNCHANGED <<disk, locks, todo, result>>

(* The file at the path is opened; the lock taken next is on that file.    *)
DeleteOpens(w) ==
  /\ step[w] = "checked" /\ folder[target[w]] = at[w]
  /\ Goes(w, "opened")
  /\ UNCHANGED <<disk, locks, target, at, todo, result>>

DeleteLocks(w) ==
  /\ step[w] = "opened" /\ MayHold(target[w])
  /\ exclusive' = [exclusive EXCEPT ![target[w]] = @ \cup {w}]
  /\ Goes(w, "held")
  /\ UNCHANGED <<disk, shared, target, at, todo, result>>

DeleteRenames(w) ==
  /\ step[w] = "held" /\ folder[target[w]] = at[w]
  /\ folder' = [folder EXCEPT ![target[w]] = "aside"]
  /\ Goes(w, "renamed")
  /\ UNCHANGED <<status, entries, files, litter, locks, target, at, todo, result>>

DeleteUnlocks(w) ==
  /\ step[w] = "renamed"
  /\ Releases(w)
  /\ Goes(w, "removing")
  /\ UNCHANGED <<disk, target, at, todo, result>>

DeleteRemoves(w) ==
  /\ step[w] = "removing"
  /\ \/ /\ \E p \in files[target[w]] :
             files' = [files EXCEPT ![target[w]] = @ \ {p}]
        /\ UNCHANGED <<folder, step, target, at, todo, result>>
     \/ /\ files[target[w]] = {}
        /\ folder' = [folder EXCEPT ![target[w]] = "gone"]
        /\ Returns(w)
        /\ UNCHANGED files
  /\ UNCHANGED <<status, entries, litter, locks>>

(* The path no longer leads to the set, another window holds it, or files  *)
(* could not be removed: the deletion ends where it is.                    *)
DeleteRefused(w) ==
  /\ \/ step[w] \in {"checked", "held"} /\ folder[target[w]] # at[w]
     \/ step[w] = "opened" /\ ~MayHold(target[w])
     \/ step[w] = "removing"
  /\ Releases(w) /\ Returns(w)
  /\ UNCHANGED disk

-----------------------------------------------------------------------------
(* Restoring from a set: the file at its path is opened and locked, and    *)
(* only then is the manifest read, again by its path.                      *)
RestoreOpens(w, s) ==
  /\ step[w] = "idle" /\ folder[s] \in Paths /\ status[s] # "none"
  /\ target' = [target EXCEPT ![w] = s]
  /\ at' = [at EXCEPT ![w] = folder[s]]
  /\ Goes(w, "source")
  /\ UNCHANGED <<disk, locks, todo, result>>

RestoreLocks(w) ==
  /\ step[w] = "source" /\ MayShare(target[w])
  /\ shared' = [shared EXCEPT ![target[w]] = @ \cup {w}]
  /\ Goes(w, "shared")
  /\ UNCHANGED <<disk, exclusive, target, at, todo, result>>

(* Every image the user selected is where its record says, and whole.      *)
Checked(w, chosen) ==
  /\ folder[target[w]] = at[w] /\ status[target[w]] = "complete"
  /\ \A p \in chosen :
       p \in files[target[w]] /\ entries[target[w]][p] = folder[target[w]]

RestoreChecks(w) ==
  /\ step[w] = "shared"
  /\ \E chosen \in (SUBSET Listed(target[w])) \ {{}} :
       Checked(w, chosen) /\ todo' = [todo EXCEPT ![w] = chosen]
  /\ Goes(w, "review")
  /\ UNCHANGED <<disk, locks, target, at, result>>

RestoreConfirmed(w) ==
  /\ step[w] = "review"
  /\ Goes(w, "writing")
  /\ UNCHANGED <<disk, locks, target, at, todo, result>>

RestoreWrites(w, p) ==
  /\ step[w] = "writing" /\ p \in todo[w]
  /\ todo' = [todo EXCEPT ![w] = @ \ {p}]
  /\ UNCHANGED <<disk, locks, step, target, at, result>>

(* Refused, declined, failed or done: the lock goes with the call.         *)
RestoreReturns(w) ==
  /\ step[w] \in RestoreSteps
  /\ Releases(w) /\ Returns(w)
  /\ UNCHANGED disk

-----------------------------------------------------------------------------
(* A window is killed or interrupted.  Its locks go; a partition it was    *)
(* reading stays as a file no record lists.                                *)
Crash(w) ==
  /\ step[w] # "idle"
  /\ \/ UNCHANGED litter
     \/ /\ step[w] = "reading" /\ todo[w] # {}
        /\ litter' = [litter EXCEPT ![target[w]] = TRUE]
  /\ Releases(w) /\ Returns(w)
  /\ UNCHANGED <<folder, status, entries, files>>

BackupAction(w) ==
  \/ \E s \in Sets : BackupStarts(w, s)
  \/ BackupLocks(w)
  \/ \E p \in Parts : BackupReads(w, p) \/ BackupReadFails(w, p)
  \/ BackupStops(w) \/ BackupNames(w) \/ BackupRecords(w) \/ BackupUnlocks(w)
  \/ ManifestTruncated(w) \/ ManifestWritten(w) \/ ManifestFails(w)

DeleteAction(w) ==
  \/ \E s \in Sets : DeleteChecks(w, s)
  \/ DeleteOpens(w) \/ DeleteLocks(w) \/ DeleteRenames(w)
  \/ DeleteUnlocks(w) \/ DeleteRemoves(w) \/ DeleteRefused(w)

RestoreAction(w) ==
  \/ \E s \in Sets : RestoreOpens(w, s)
  \/ RestoreLocks(w) \/ RestoreChecks(w) \/ RestoreConfirmed(w)
  \/ \E p \in Parts : RestoreWrites(w, p)
  \/ RestoreReturns(w)

Next ==
  \E w \in Windows :
    BackupAction(w) \/ DeleteAction(w) \/ RestoreAction(w) \/ Crash(w)

Spec == Init /\ [][Next]_vars

-----------------------------------------------------------------------------
(* Type correctness; a window holds a lock only on the set its operation   *)
(* works on, and none once the operation is over.                          *)
TypeOK ==
  /\ folder \in [Sets -> Places]
  /\ status \in [Sets -> Statuses]
  /\ entries \in [Sets -> [Parts -> Paths \cup {"none"}]]
  /\ files \in [Sets -> SUBSET Parts]
  /\ litter \in [Sets -> BOOLEAN]
  /\ shared \in [Sets -> SUBSET Windows]
  /\ exclusive \in [Sets -> SUBSET Windows]
  /\ step \in [Windows -> {"idle"} \cup BackupSteps \cup DeleteSteps
                                   \cup RestoreSteps]
  /\ target \in [Windows -> Sets \cup {NoSet}]
  /\ at \in [Windows -> Paths \cup {"none"}]
  /\ todo \in [Windows -> SUBSET Parts]
  /\ result \in [Windows -> Ends \cup {"none"}]
  /\ \A w \in Windows : step[w] = "idle" <=> target[w] = NoSet
  /\ \A w \in Windows, s \in Sets :
       w \in shared[s] \cup exclusive[s] => target[w] = s

(* From its checks to its last write a restore finds its set where it      *)
(* opened it, complete, with every image it has still to write: no other   *)
(* window deletes, moves or rewrites it meanwhile (docs/backups.md, "A     *)
(* source set is locked throughout review and restore").                   *)
SourceKept ==
  \A w \in Windows :
    step[w] \in {"review", "writing"} =>
      /\ folder[target[w]] = at[w]
      /\ status[target[w]] = "complete"
      /\ todo[w] \subseteq files[target[w]]

(* A set the list shows as complete has every image its record names, at   *)
(* the path the record gives, whatever was moved, deleted or cut short     *)
(* while it was made or after.                                             *)
Restorable ==
  \A s \in Sets :
    folder[s] \in Paths /\ status[s] = "complete" =>
      /\ Listed(s) # {}
      /\ \A p \in Listed(s) : p \in files[s] /\ entries[s][p] = folder[s]

(* Deletion takes nothing but what the record of the set lists: a folder   *)
(* set aside for removal holds no stray file (delete_backup_set refuses a  *)
(* folder with "unrecorded files or folders").                             *)
OnlyRecordedDeleted ==
  \A s \in Sets :
    folder[s] = "aside" => ~litter[s] /\ files[s] \subseteq Listed(s)

(* The store keeps the promise of SavedSets: a set is deleted only once it *)
(* ended and while no window saves it or restores from it.                 *)
Life(s) ==
  CASE folder[s] \in {"aside", "gone"} -> "deleted"
    [] folder[s] = "none" -> "none"
    [] folder[s] \in Paths /\ status[s] = "complete" -> "complete"
    [] folder[s] \in Paths /\ status[s] \in {"cancelled", "failed"} -> "partial"
    [] OTHER -> "saving"
UsersOf(s) ==
  {w \in Windows : /\ target[w] = s
                   /\ step[w] \in BackupSteps \cup {"review", "writing"}}

Promise == INSTANCE SavedSets
  WITH life <- [s \in Sets |-> Life(s)], users <- [s \in Sets |-> UsersOf(s)]

ImplementsSavedSets == Promise!Spec
=============================================================================
