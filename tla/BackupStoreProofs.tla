-------------------------- MODULE BackupStoreProofs --------------------------
(***************************************************************************)
(* Safety of BackupStore for any number of windows, sets and partitions,   *)
(* and the proof that it implements SavedSets.                             *)
(***************************************************************************)
EXTENDS BackupStore, TLAPS

HoldsShared == {"reading", "naming", "append", "save", "unlock",
                "shared", "review", "writing"}
HoldsExclusive == {"held", "renamed"}
Unfinished == {"none", "torn", "reading"}

(* A window has a lock in the steps that need it and in no other, and an   *)
(* exclusive lock is held alone.                                           *)
LockInv ==
  /\ \A w \in Windows :
       /\ step[w] \in HoldsShared => w \in shared[target[w]]
       /\ step[w] \in HoldsExclusive => w \in exclusive[target[w]]
       /\ step[w] \notin HoldsShared \cup HoldsExclusive =>
            \A s \in Sets : w \notin shared[s] /\ w \notin exclusive[s]
  /\ \A s \in Sets : \A w \in exclusive[s] :
       shared[s] = {} /\ \A v \in exclusive[s] : v = w

(* The window that saves a set is alone, knows where the folder is, and    *)
(* has not ended the set.  A set nobody has begun has no window.           *)
SaverInv ==
  /\ \A w \in Windows : step[w] \in BackupSteps =>
       /\ folder[target[w]] = at[w] /\ at[w] \in Paths
       /\ status[target[w]] \in Unfinished
       /\ \A v \in Windows :
            step[v] \in BackupSteps /\ target[v] = target[w] => v = w
  /\ \A s \in Sets : folder[s] = "none" =>
       /\ status[s] = "none" /\ files[s] = {} /\ Listed(s) = {} /\ ~litter[s]
       /\ \A w \in Windows : target[w] # s

(* A window that passed the checks of a deletion works on an ended set     *)
(* with nothing in its folder but what it lists; past the rename the       *)
(* folder is out of sight.                                                 *)
DeleterInv ==
  \A w \in Windows :
    /\ step[w] \in DeleteSteps =>
         /\ status[target[w]] \in Ends
         /\ ~litter[target[w]] /\ files[target[w]] \subseteq Listed(target[w])
    /\ step[w] \in {"renamed", "removing"} =>
         folder[target[w]] \in {"aside", "gone"}

(* In a visible folder, whatever is listed is there, at the path listed;   *)
(* and while a folder may still move, nothing is listed.                   *)
RecordInv ==
  /\ \A s \in Sets : folder[s] \in Paths =>
       \A p \in Listed(s) : p \in files[s] /\ entries[s][p] = folder[s]
  /\ \A w \in Windows : step[w] \in BackupSteps =>
       /\ Var \in todo[w] => files[target[w]] = {}
       /\ step[w] = "naming" => Listed(target[w]) = {}

(* A backup that reaches its end as complete has listed a partition.       *)
Lists(s) == \E p \in Parts : entries[s][p] # "none"
NonEmptyInv ==
  /\ \A w \in Windows :
       /\ step[w] \in {"begin", "lock"} => todo[w] # {}
       /\ step[w] \in {"naming", "append"} => files[target[w]] # {}
       /\ step[w] = "save" => Lists(target[w])
       /\ step[w] = "reading" => todo[w] # {} \/ Lists(target[w])
       /\ step[w] \in {"unlock", "finish"} =>
            /\ result[w] \in Ends
            /\ result[w] \in {"cancelled", "failed"} \/ Lists(target[w])
  /\ \A s \in Sets : status[s] = "complete" => Lists(s)

IInv ==
  /\ TypeOK /\ LockInv /\ SaverInv /\ DeleterInv /\ RecordInv /\ NonEmptyInv
  /\ SourceKept
  /\ OnlyRecordedDeleted
-----------------------------------------------------------------------------
\* A window that is not idle works on a set.
LEMMA Works ==
  ASSUME TypeOK, NEW w \in Windows, step[w] # "idle"
  PROVE  target[w] \in Sets
BY NoSetAssumption DEF TypeOK

\* Releasing takes the window out of every lock and nothing else.
LEMMA Released ==
  ASSUME TypeOK, NEW w \in Windows, Releases(w)
  PROVE  /\ shared' \in [Sets -> SUBSET Windows]
         /\ exclusive' \in [Sets -> SUBSET Windows]
         /\ \A s \in Sets : /\ shared'[s] = shared[s] \ {w}
                           /\ exclusive'[s] = exclusive[s] \ {w}
<1>1. shared \in [Sets -> SUBSET Windows] /\ exclusive \in [Sets -> SUBSET Windows]
  BY DEF TypeOK
<1> QED BY <1>1 DEF Releases

-----------------------------------------------------------------------------
(* The steps keep each part of the invariant.                               *)

\* Every step keeps the types, and the locks a window drops are its own.
LEMMA TypeStep ==
  ASSUME TypeOK, LockInv, [Next]_vars
  PROVE  TypeOK'
<1> USE VarAssumption, NoSetAssumption DEF Goes, locks, disk, BackupSteps, DeleteSteps,
     RestoreSteps, TypeOK, LockInv, HoldsShared, HoldsExclusive, Paths, Places, Ends,
     Statuses
<1>1. ASSUME NEW w \in Windows, NEW s \in Sets, BackupStarts(w, s) PROVE TypeOK'
  BY <1>1 DEF BackupStarts
<1>2. ASSUME NEW w \in Windows, BackupLocks(w) PROVE TypeOK'
  BY <1>2 DEF BackupLocks, MayShare
<1>3. ASSUME NEW w \in Windows, NEW p \in Parts, BackupReads(w, p) PROVE TypeOK'
  BY <1>3 DEF BackupReads, NextParts
<1>4. ASSUME NEW w \in Windows, NEW p \in Parts, BackupReadFails(w, p) PROVE TypeOK'
  BY <1>4 DEF BackupReadFails, NextParts
<1>5. ASSUME NEW w \in Windows, BackupStops(w) PROVE TypeOK'
  BY <1>5 DEF BackupStops
<1>6. ASSUME NEW w \in Windows, BackupNames(w) PROVE TypeOK'
  <2>1. target[w] \in Sets BY <1>6 DEF BackupNames
  <2>2. CASE /\ folder' = [folder EXCEPT ![target[w]] = "name"]
             /\ at' = [at EXCEPT ![w] = "name"]
    BY <1>6, <2>1, <2>2 DEF BackupNames
  <2>3. CASE UNCHANGED <<folder, at>>
    BY <1>6, <2>1, <2>3 DEF BackupNames
  <2> QED BY <1>6, <2>2, <2>3 DEF BackupNames
<1>7. ASSUME NEW w \in Windows, BackupRecords(w) PROVE TypeOK'
  BY <1>7 DEF BackupRecords, FolderOf
<1>8. ASSUME NEW w \in Windows, BackupUnlocks(w) PROVE TypeOK'
  BY <1>8 DEF BackupUnlocks, Releases
<1>9. ASSUME NEW w \in Windows, ManifestTruncated(w) PROVE TypeOK'
  BY <1>9 DEF ManifestTruncated, Writes
<1>10. ASSUME NEW w \in Windows, ManifestWritten(w) PROVE TypeOK'
  <2>1. target[w] \in Sets BY <1>10 DEF ManifestWritten, Returns, Writes
  <2>2. CASE /\ step[w] \in {"begin", "save"}
             /\ status' = [status EXCEPT ![target[w]] = "reading"]
             /\ Goes(w, IF step[w] = "begin" THEN "lock" ELSE "reading")
             /\ UNCHANGED <<target, at, todo, result>>
    BY <1>10, <2>1, <2>2 DEF ManifestWritten, Returns, Writes
  <2>3. CASE /\ step[w] = "finish"
             /\ status' = [status EXCEPT ![target[w]] = result[w]]
             /\ Returns(w)
    <3>1. \A s \in Sets : w \notin shared[s] /\ w \notin exclusive[s]
      BY <1>10, <2>3 DEF ManifestWritten, Returns, Writes
    <3>2. /\ step' \in [Windows -> {"idle"} \cup BackupSteps \cup DeleteSteps
                                 \cup RestoreSteps]
          /\ target' \in [Windows -> Sets \cup {NoSet}]
          /\ at' \in [Windows -> Paths \cup {"none"}]
          /\ todo' \in [Windows -> SUBSET Parts]
          /\ result' \in [Windows -> Ends \cup {"none"}]
      BY <2>3 DEF Returns
    <3>3. /\ step'[w] = "idle" /\ target'[w] = NoSet
          /\ \A v \in Windows \ {w} : step'[v] = step[v] /\ target'[v] = target[v]
      BY <2>3 DEF Returns
    <3>4. /\ folder' \in [Sets -> Places] /\ status' \in [Sets -> Statuses]
          /\ UNCHANGED <<entries, files, litter, shared, exclusive>>
      BY <1>10, <2>1, <2>3 DEF ManifestWritten, Returns, Writes
    <3> QED BY <3>1, <3>2, <3>3, <3>4
  <2> QED BY <1>10, <2>2, <2>3 DEF ManifestWritten, Returns, Writes
<1>11. ASSUME NEW w \in Windows, ManifestFails(w) PROVE TypeOK'
  <2>1. target[w] \in Sets BY <1>11 DEF ManifestFails, Returns, Writes
  <2>2. CASE /\ step[w] = "save" \/ (step[w] = "finish" /\ result[w] # "failed")
             /\ result' = [result EXCEPT ![w] = "failed"]
             /\ Goes(w, IF step[w] = "save" THEN "unlock" ELSE "finish")
             /\ UNCHANGED <<target, at, todo>>
    BY <1>11, <2>1, <2>2 DEF ManifestFails, Returns, Writes
  <2>3. CASE /\ step[w] = "begin" \/ (step[w] = "finish" /\ result[w] = "failed")
             /\ Returns(w)
    <3>1. \A s \in Sets : w \notin shared[s] /\ w \notin exclusive[s]
      BY <1>11, <2>3 DEF ManifestFails, Returns, Writes
    <3>2. /\ step' \in [Windows -> {"idle"} \cup BackupSteps \cup DeleteSteps
                                 \cup RestoreSteps]
          /\ target' \in [Windows -> Sets \cup {NoSet}]
          /\ at' \in [Windows -> Paths \cup {"none"}]
          /\ todo' \in [Windows -> SUBSET Parts]
          /\ result' \in [Windows -> Ends \cup {"none"}]
      BY <2>3 DEF Returns
    <3>3. /\ step'[w] = "idle" /\ target'[w] = NoSet
          /\ \A v \in Windows \ {w} : step'[v] = step[v] /\ target'[v] = target[v]
      BY <2>3 DEF Returns
    <3>4. /\ folder' \in [Sets -> Places] /\ status' \in [Sets -> Statuses]
          /\ UNCHANGED <<entries, files, litter, shared, exclusive>>
      BY <1>11, <2>1, <2>3 DEF ManifestFails, Returns, Writes
    <3> QED BY <3>1, <3>2, <3>3, <3>4
  <2> QED BY <1>11, <2>2, <2>3 DEF ManifestFails, Returns, Writes
<1>12. ASSUME NEW w \in Windows, NEW s \in Sets, DeleteChecks(w, s) PROVE TypeOK'
  BY <1>12 DEF DeleteChecks, Ended, Readable, SelfContained, OwnPaths, Listed
<1>13. ASSUME NEW w \in Windows, DeleteOpens(w) PROVE TypeOK'
  BY <1>13 DEF DeleteOpens
<1>14. ASSUME NEW w \in Windows, DeleteLocks(w) PROVE TypeOK'
  BY <1>14 DEF DeleteLocks, MayHold
<1>15. ASSUME NEW w \in Windows, DeleteRenames(w) PROVE TypeOK'
  BY <1>15 DEF DeleteRenames
<1>16. ASSUME NEW w \in Windows, DeleteUnlocks(w) PROVE TypeOK'
  BY <1>16 DEF DeleteUnlocks, Releases
<1>17. ASSUME NEW w \in Windows, DeleteRemoves(w) PROVE TypeOK'
  <2>1. target[w] \in Sets BY <1>17 DEF DeleteRemoves, Returns
  <2>2. CASE /\ \E p \in files[target[w]] :
                  files' = [files EXCEPT ![target[w]] = @ \ {p}]
             /\ UNCHANGED <<folder, step, target, at, todo, result>>
    BY <1>17, <2>1, <2>2 DEF DeleteRemoves, Returns
  <2>3. CASE /\ folder' = [folder EXCEPT ![target[w]] = "gone"]
             /\ Returns(w) /\ UNCHANGED files
    <3>1. \A s \in Sets : w \notin shared[s] /\ w \notin exclusive[s]
      BY <1>17, <2>3 DEF DeleteRemoves, Returns
    <3>2. /\ step' \in [Windows -> {"idle"} \cup BackupSteps \cup DeleteSteps
                                 \cup RestoreSteps]
          /\ target' \in [Windows -> Sets \cup {NoSet}]
          /\ at' \in [Windows -> Paths \cup {"none"}]
          /\ todo' \in [Windows -> SUBSET Parts]
          /\ result' \in [Windows -> Ends \cup {"none"}]
      BY <2>3 DEF Returns
    <3>3. /\ step'[w] = "idle" /\ target'[w] = NoSet
          /\ \A v \in Windows \ {w} : step'[v] = step[v] /\ target'[v] = target[v]
      BY <2>3 DEF Returns
    <3>4. /\ folder' \in [Sets -> Places] /\ status' \in [Sets -> Statuses]
          /\ UNCHANGED <<entries, files, litter, shared, exclusive>>
      BY <1>17, <2>1, <2>3 DEF DeleteRemoves, Returns
    <3> QED BY <3>1, <3>2, <3>3, <3>4
  <2> QED BY <1>17, <2>2, <2>3 DEF DeleteRemoves, Returns
<1>18. ASSUME NEW w \in Windows, DeleteRefused(w) PROVE TypeOK'
  BY <1>18 DEF DeleteRefused, Releases, Returns, MayHold
<1>19. ASSUME NEW w \in Windows, NEW s \in Sets, RestoreOpens(w, s) PROVE TypeOK'
  BY <1>19 DEF RestoreOpens
<1>20. ASSUME NEW w \in Windows, RestoreLocks(w) PROVE TypeOK'
  BY <1>20 DEF RestoreLocks, MayShare
<1>21. ASSUME NEW w \in Windows, RestoreChecks(w) PROVE TypeOK'
  BY <1>21 DEF RestoreChecks, Listed, Checked
<1>22. ASSUME NEW w \in Windows, RestoreConfirmed(w) PROVE TypeOK'
  BY <1>22 DEF RestoreConfirmed
<1>23. ASSUME NEW w \in Windows, NEW p \in Parts, RestoreWrites(w, p) PROVE TypeOK'
  BY <1>23 DEF RestoreWrites
<1>24. ASSUME NEW w \in Windows, RestoreReturns(w) PROVE TypeOK'
  BY <1>24 DEF RestoreReturns, Releases, Returns
<1>25. ASSUME NEW w \in Windows, Crash(w) PROVE TypeOK'
  <2> HIDE DEF LockInv, TypeOK
  <2>1. /\ step' \in [Windows -> {"idle"} \cup BackupSteps \cup DeleteSteps
                                 \cup RestoreSteps]
        /\ target' \in [Windows -> Sets \cup {NoSet}]
        /\ at' \in [Windows -> Paths \cup {"none"}]
        /\ todo' \in [Windows -> SUBSET Parts]
        /\ result' \in [Windows -> Ends \cup {"none"}]
    BY <1>25 DEF TypeOK, Crash, Returns
  <2>2. /\ step'[w] = "idle" /\ target'[w] = NoSet
        /\ \A v \in Windows \ {w} : step'[v] = step[v] /\ target'[v] = target[v]
    BY <1>25 DEF TypeOK, Crash, Returns
  <2>3. Releases(w) BY <1>25 DEF Crash
  <2>4. /\ shared' \in [Sets -> SUBSET Windows] /\ exclusive' \in [Sets -> SUBSET Windows]
        /\ \A s \in Sets : /\ shared'[s] = shared[s] \ {w}
                          /\ exclusive'[s] = exclusive[s] \ {w}
    BY <2>3, Released
  <2>6. litter' \in [Sets -> BOOLEAN] BY <1>25 DEF TypeOK, Crash
  <2>7. folder' = folder BY <1>25 DEF Crash
  <2>8. status' = status BY <1>25 DEF Crash
  <2>9. entries' = entries BY <1>25 DEF Crash
  <2>10. files' = files BY <1>25 DEF Crash
  <2>11. \A v \in Windows, s \in Sets :
            v \in shared'[s] \cup exclusive'[s] => target'[v] = s
    BY <2>2, <2>4 DEF TypeOK
  <2>12. \A v \in Windows : step'[v] = "idle" <=> target'[v] = NoSet
    BY <2>2 DEF TypeOK
  <2>13. /\ folder' \in [Sets -> Places] /\ status' \in [Sets -> Statuses]
         /\ entries' \in [Sets -> [Parts -> Paths \cup {"none"}]]
         /\ files' \in [Sets -> SUBSET Parts]
    BY <2>7, <2>8, <2>9, <2>10 DEF TypeOK
  <2> QED BY <2>1, <2>4, <2>6, <2>11, <2>12, <2>13 DEF TypeOK
<1>26. CASE UNCHANGED vars BY <1>26 DEF vars
<1> QED
  BY <1>1, <1>2, <1>3, <1>4, <1>5, <1>6, <1>7, <1>8, <1>9, <1>10, <1>11, <1>12, <1>13,
     <1>14, <1>15, <1>16, <1>17, <1>18, <1>19, <1>20, <1>21, <1>22, <1>23, <1>24,
          <1>25, <1>26
  DEF Next, BackupAction, DeleteAction, RestoreAction

\* No step grants a lock beside an exclusive one, or forgets to release it.
LEMMA LockStep ==
  ASSUME TypeOK, LockInv, [Next]_vars
  PROVE  LockInv'
<1> USE VarAssumption, NoSetAssumption DEF Goes, locks, disk, BackupSteps, DeleteSteps,
     RestoreSteps, TypeOK, LockInv, HoldsShared, HoldsExclusive
<1>1. ASSUME NEW w \in Windows, NEW s \in Sets, BackupStarts(w, s) PROVE LockInv'
  BY <1>1 DEF BackupStarts
<1>2. ASSUME NEW w \in Windows, BackupLocks(w) PROVE LockInv'
  BY <1>2 DEF BackupLocks, MayShare
<1>3. ASSUME NEW w \in Windows, NEW p \in Parts, BackupReads(w, p) PROVE LockInv'
  BY <1>3 DEF BackupReads, NextParts
<1>4. ASSUME NEW w \in Windows, NEW p \in Parts, BackupReadFails(w, p) PROVE LockInv'
  BY <1>4 DEF BackupReadFails, NextParts
<1>5. ASSUME NEW w \in Windows, BackupStops(w) PROVE LockInv'
  BY <1>5 DEF BackupStops
<1>6. ASSUME NEW w \in Windows, BackupNames(w) PROVE LockInv'
  BY <1>6 DEF BackupNames
<1>7. ASSUME NEW w \in Windows, BackupRecords(w) PROVE LockInv'
  BY <1>7 DEF BackupRecords, FolderOf
<1>8. ASSUME NEW w \in Windows, BackupUnlocks(w) PROVE LockInv'
  BY <1>8 DEF BackupUnlocks, Releases
<1>9. ASSUME NEW w \in Windows, ManifestTruncated(w) PROVE LockInv'
  BY <1>9 DEF ManifestTruncated, Writes
<1>10. ASSUME NEW w \in Windows, ManifestWritten(w) PROVE LockInv'
  <2>1. target[w] \in Sets BY <1>10 DEF ManifestWritten, Returns, Writes
  <2>2. CASE /\ step[w] \in {"begin", "save"}
             /\ status' = [status EXCEPT ![target[w]] = "reading"]
             /\ Goes(w, IF step[w] = "begin" THEN "lock" ELSE "reading")
             /\ UNCHANGED <<target, at, todo, result>>
    BY <1>10, <2>1, <2>2 DEF ManifestWritten, Returns, Writes
  <2>3. CASE /\ step[w] = "finish"
             /\ status' = [status EXCEPT ![target[w]] = result[w]]
             /\ Returns(w)
    BY <1>10, <2>1, <2>3 DEF ManifestWritten, Returns, Writes
  <2> QED BY <1>10, <2>2, <2>3 DEF ManifestWritten, Returns, Writes
<1>11. ASSUME NEW w \in Windows, ManifestFails(w) PROVE LockInv'
  <2>1. target[w] \in Sets BY <1>11 DEF ManifestFails, Returns, Writes
  <2>2. CASE /\ step[w] = "save" \/ (step[w] = "finish" /\ result[w] # "failed")
             /\ result' = [result EXCEPT ![w] = "failed"]
             /\ Goes(w, IF step[w] = "save" THEN "unlock" ELSE "finish")
             /\ UNCHANGED <<target, at, todo>>
    BY <1>11, <2>1, <2>2 DEF ManifestFails, Returns, Writes
  <2>3. CASE /\ step[w] = "begin" \/ (step[w] = "finish" /\ result[w] = "failed")
             /\ Returns(w)
    BY <1>11, <2>1, <2>3 DEF ManifestFails, Returns, Writes
  <2> QED BY <1>11, <2>2, <2>3 DEF ManifestFails, Returns, Writes
<1>12. ASSUME NEW w \in Windows, NEW s \in Sets, DeleteChecks(w, s) PROVE LockInv'
  BY <1>12 DEF DeleteChecks, Ended, Readable, SelfContained, OwnPaths, Listed
<1>13. ASSUME NEW w \in Windows, DeleteOpens(w) PROVE LockInv'
  BY <1>13 DEF DeleteOpens
<1>14. ASSUME NEW w \in Windows, DeleteLocks(w) PROVE LockInv'
  BY <1>14 DEF DeleteLocks, MayHold
<1>15. ASSUME NEW w \in Windows, DeleteRenames(w) PROVE LockInv'
  BY <1>15 DEF DeleteRenames
<1>16. ASSUME NEW w \in Windows, DeleteUnlocks(w) PROVE LockInv'
  BY <1>16 DEF DeleteUnlocks, Releases
<1>17. ASSUME NEW w \in Windows, DeleteRemoves(w) PROVE LockInv'
  <2>1. target[w] \in Sets BY <1>17 DEF DeleteRemoves, Returns
  <2>2. CASE /\ \E p \in files[target[w]] :
                  files' = [files EXCEPT ![target[w]] = @ \ {p}]
             /\ UNCHANGED <<folder, step, target, at, todo, result>>
    BY <1>17, <2>1, <2>2 DEF DeleteRemoves, Returns
  <2>3. CASE /\ folder' = [folder EXCEPT ![target[w]] = "gone"]
             /\ Returns(w) /\ UNCHANGED files
    BY <1>17, <2>1, <2>3 DEF DeleteRemoves, Returns
  <2> QED BY <1>17, <2>2, <2>3 DEF DeleteRemoves, Returns
<1>18. ASSUME NEW w \in Windows, DeleteRefused(w) PROVE LockInv'
  BY <1>18 DEF DeleteRefused, Releases, Returns, MayHold
<1>19. ASSUME NEW w \in Windows, NEW s \in Sets, RestoreOpens(w, s) PROVE LockInv'
  BY <1>19 DEF RestoreOpens
<1>20. ASSUME NEW w \in Windows, RestoreLocks(w) PROVE LockInv'
  BY <1>20 DEF RestoreLocks, MayShare
<1>21. ASSUME NEW w \in Windows, RestoreChecks(w) PROVE LockInv'
  BY <1>21 DEF RestoreChecks, Listed, Checked
<1>22. ASSUME NEW w \in Windows, RestoreConfirmed(w) PROVE LockInv'
  BY <1>22 DEF RestoreConfirmed
<1>23. ASSUME NEW w \in Windows, NEW p \in Parts, RestoreWrites(w, p) PROVE LockInv'
  BY <1>23 DEF RestoreWrites
<1>24. ASSUME NEW w \in Windows, RestoreReturns(w) PROVE LockInv'
  BY <1>24 DEF RestoreReturns, Releases, Returns
<1>25. ASSUME NEW w \in Windows, Crash(w) PROVE LockInv'
  BY <1>25 DEF Crash, Releases, Returns
<1>26. CASE UNCHANGED vars BY <1>26 DEF vars
<1> QED
  BY <1>1, <1>2, <1>3, <1>4, <1>5, <1>6, <1>7, <1>8, <1>9, <1>10, <1>11, <1>12, <1>13,
     <1>14, <1>15, <1>16, <1>17, <1>18, <1>19, <1>20, <1>21, <1>22, <1>23, <1>24,
          <1>25, <1>26
  DEF Next, BackupAction, DeleteAction, RestoreAction

\* No step gives a set being saved a second saver, or takes its folder away.
LEMMA SaverStep ==
  ASSUME TypeOK, SaverInv, LockInv, DeleterInv, [Next]_vars
  PROVE  SaverInv'
<1> USE VarAssumption, NoSetAssumption DEF Goes, locks, disk, BackupSteps, DeleteSteps,
     RestoreSteps, TypeOK, SaverInv, LockInv, DeleterInv, Paths, Places, Ends,
     Statuses, Unfinished, Listed, HoldsShared, HoldsExclusive
<1>1. ASSUME NEW w \in Windows, NEW s \in Sets, BackupStarts(w, s) PROVE SaverInv'
  BY <1>1 DEF BackupStarts
<1>2. ASSUME NEW w \in Windows, BackupLocks(w) PROVE SaverInv'
  BY <1>2 DEF BackupLocks, MayShare
<1>3. ASSUME NEW w \in Windows, NEW p \in Parts, BackupReads(w, p) PROVE SaverInv'
  BY <1>3 DEF BackupReads, NextParts
<1>4. ASSUME NEW w \in Windows, NEW p \in Parts, BackupReadFails(w, p) PROVE SaverInv'
  BY <1>4 DEF BackupReadFails, NextParts
<1>5. ASSUME NEW w \in Windows, BackupStops(w) PROVE SaverInv'
  BY <1>5 DEF BackupStops
<1>6. ASSUME NEW w \in Windows, BackupNames(w) PROVE SaverInv'
  BY <1>6 DEF BackupNames
<1>7. ASSUME NEW w \in Windows, BackupRecords(w) PROVE SaverInv'
  BY <1>7 DEF BackupRecords, FolderOf
<1>8. ASSUME NEW w \in Windows, BackupUnlocks(w) PROVE SaverInv'
  BY <1>8 DEF BackupUnlocks, Releases
<1>9. ASSUME NEW w \in Windows, ManifestTruncated(w) PROVE SaverInv'
  BY <1>9 DEF ManifestTruncated, Writes
<1>10. ASSUME NEW w \in Windows, ManifestWritten(w) PROVE SaverInv'
  <2>1. target[w] \in Sets BY <1>10 DEF ManifestWritten, Returns, Writes
  <2>2. CASE /\ step[w] \in {"begin", "save"}
             /\ status' = [status EXCEPT ![target[w]] = "reading"]
             /\ Goes(w, IF step[w] = "begin" THEN "lock" ELSE "reading")
             /\ UNCHANGED <<target, at, todo, result>>
    BY <1>10, <2>1, <2>2 DEF ManifestWritten, Returns, Writes
  <2>3. CASE /\ step[w] = "finish"
             /\ status' = [status EXCEPT ![target[w]] = result[w]]
             /\ Returns(w)
    BY <1>10, <2>1, <2>3 DEF ManifestWritten, Returns, Writes
  <2> QED BY <1>10, <2>2, <2>3 DEF ManifestWritten, Returns, Writes
<1>11. ASSUME NEW w \in Windows, ManifestFails(w) PROVE SaverInv'
  <2>1. target[w] \in Sets BY <1>11 DEF ManifestFails, Returns, Writes
  <2>2. CASE /\ step[w] = "save" \/ (step[w] = "finish" /\ result[w] # "failed")
             /\ result' = [result EXCEPT ![w] = "failed"]
             /\ Goes(w, IF step[w] = "save" THEN "unlock" ELSE "finish")
             /\ UNCHANGED <<target, at, todo>>
    BY <1>11, <2>1, <2>2 DEF ManifestFails, Returns, Writes
  <2>3. CASE /\ step[w] = "begin" \/ (step[w] = "finish" /\ result[w] = "failed")
             /\ Returns(w)
    BY <1>11, <2>1, <2>3 DEF ManifestFails, Returns, Writes
  <2> QED BY <1>11, <2>2, <2>3 DEF ManifestFails, Returns, Writes
<1>12. ASSUME NEW w \in Windows, NEW s \in Sets, DeleteChecks(w, s) PROVE SaverInv'
  BY <1>12 DEF DeleteChecks, Ended, Readable, SelfContained, OwnPaths
<1>13. ASSUME NEW w \in Windows, DeleteOpens(w) PROVE SaverInv'
  BY <1>13 DEF DeleteOpens
<1>14. ASSUME NEW w \in Windows, DeleteLocks(w) PROVE SaverInv'
  BY <1>14 DEF DeleteLocks, MayHold
<1>15. ASSUME NEW w \in Windows, DeleteRenames(w) PROVE SaverInv'
  <2>1. target[w] \in Sets /\ folder[target[w]] # "none" BY <1>15 DEF DeleteRenames
  <2>2. \A v \in Windows : step[v] \in BackupSteps => target[v] # target[w]
    BY <1>15 DEF DeleteRenames
  <2>3. \A v \in Windows : step'[v] \in BackupSteps => v # w /\ step[v] = step'[v]
    BY <1>15, <2>1 DEF DeleteRenames
  <2>4. \A t \in Sets : t # target[w] => folder'[t] = folder[t] BY <1>15,
       <2>1 DEF DeleteRenames
  <2>5. folder'[target[w]] = "aside" BY <1>15, <2>1 DEF DeleteRenames
  <2>6. UNCHANGED <<status, files, entries, litter, target,
       at>> BY <1>15 DEF DeleteRenames
  <2>7. \A v \in Windows : step'[v] \in BackupSteps =>
            /\ folder'[target'[v]] = at'[v] /\ at'[v] \in Paths
            /\ status'[target'[v]] \in Unfinished
    BY <2>2, <2>3, <2>4, <2>6
  <2>8. \A v, u \in Windows : step'[v] \in BackupSteps /\ step'[u] \in BackupSteps
                                /\ target'[u] = target'[v] => u = v
    BY <2>3, <2>6
  <2>9. \A t \in Sets : folder'[t] = "none" => folder[t] = "none" BY <2>4, <2>5
  <2> QED BY <2>6, <2>7, <2>8, <2>9
<1>16. ASSUME NEW w \in Windows, DeleteUnlocks(w) PROVE SaverInv'
  BY <1>16 DEF DeleteUnlocks, Releases
<1>17. ASSUME NEW w \in Windows, DeleteRemoves(w) PROVE SaverInv'
  <2>1. target[w] \in Sets BY <1>17 DEF DeleteRemoves, Returns
  <2>2. CASE /\ \E p \in files[target[w]] :
                  files' = [files EXCEPT ![target[w]] = @ \ {p}]
             /\ UNCHANGED <<folder, step, target, at, todo, result>>
    BY <1>17, <2>1, <2>2 DEF DeleteRemoves, Returns
  <2>3. CASE /\ folder' = [folder EXCEPT ![target[w]] = "gone"]
             /\ Returns(w) /\ UNCHANGED files
    BY <1>17, <2>1, <2>3 DEF DeleteRemoves, Returns
  <2> QED BY <1>17, <2>2, <2>3 DEF DeleteRemoves, Returns
<1>18. ASSUME NEW w \in Windows, DeleteRefused(w) PROVE SaverInv'
  BY <1>18 DEF DeleteRefused, Releases, Returns, MayHold
<1>19. ASSUME NEW w \in Windows, NEW s \in Sets, RestoreOpens(w, s) PROVE SaverInv'
  BY <1>19 DEF RestoreOpens
<1>20. ASSUME NEW w \in Windows, RestoreLocks(w) PROVE SaverInv'
  BY <1>20 DEF RestoreLocks, MayShare
<1>21. ASSUME NEW w \in Windows, RestoreChecks(w) PROVE SaverInv'
  BY <1>21 DEF RestoreChecks, Checked
<1>22. ASSUME NEW w \in Windows, RestoreConfirmed(w) PROVE SaverInv'
  BY <1>22 DEF RestoreConfirmed
<1>23. ASSUME NEW w \in Windows, NEW p \in Parts, RestoreWrites(w, p) PROVE SaverInv'
  BY <1>23 DEF RestoreWrites
<1>24. ASSUME NEW w \in Windows, RestoreReturns(w) PROVE SaverInv'
  BY <1>24 DEF RestoreReturns, Releases, Returns
<1>25. ASSUME NEW w \in Windows, Crash(w) PROVE SaverInv'
  BY <1>25 DEF Crash, Releases, Returns
<1>26. CASE UNCHANGED vars BY <1>26 DEF vars
<1> QED
  BY <1>1, <1>2, <1>3, <1>4, <1>5, <1>6, <1>7, <1>8, <1>9, <1>10, <1>11, <1>12, <1>13,
     <1>14, <1>15, <1>16, <1>17, <1>18, <1>19, <1>20, <1>21, <1>22, <1>23, <1>24,
          <1>25, <1>26
  DEF Next, BackupAction, DeleteAction, RestoreAction

\* What the checks of a deletion established holds until the folder is gone.
LEMMA DeleterStep ==
  ASSUME TypeOK, SaverInv, DeleterInv, [Next]_vars
  PROVE  DeleterInv'
<1> USE VarAssumption, NoSetAssumption DEF Goes, locks, disk, BackupSteps, DeleteSteps,
     RestoreSteps, TypeOK, SaverInv, DeleterInv, Ends, Paths, Unfinished, Listed,
     Statuses
<1>1. ASSUME NEW w \in Windows, NEW s \in Sets, BackupStarts(w, s) PROVE DeleterInv'
  BY <1>1 DEF BackupStarts
<1>2. ASSUME NEW w \in Windows, BackupLocks(w) PROVE DeleterInv'
  BY <1>2 DEF BackupLocks, MayShare
<1>3. ASSUME NEW w \in Windows, NEW p \in Parts, BackupReads(w, p) PROVE DeleterInv'
  <2>1. step[w] \in BackupSteps /\ target[w] \in Sets BY <1>3 DEF BackupReads, NextParts
  <2>2. status[target[w]] \notin Ends BY <2>1
  <2>3. \A v \in Windows : step[v] \in DeleteSteps => target[v] # target[w] BY <2>2
  <2>4. \A v \in Windows : step'[v] \in DeleteSteps => v # w /\ step[v] = step'[v]
    BY <1>3, <2>1 DEF BackupReads, NextParts
  <2> QED BY <1>3, <2>1, <2>3, <2>4 DEF BackupReads, NextParts
<1>4. ASSUME NEW w \in Windows, NEW p \in Parts, BackupReadFails(w, p) PROVE DeleterInv'
  <2>1. step[w] \in BackupSteps /\ target[w] \in Sets BY <1>4 DEF BackupReadFails,
       NextParts
  <2>2. status[target[w]] \notin Ends BY <2>1
  <2>3. \A v \in Windows : step[v] \in DeleteSteps => target[v] # target[w] BY <2>2
  <2>4. \A v \in Windows : step'[v] \in DeleteSteps => v # w /\ step[v] = step'[v]
    BY <1>4, <2>1 DEF BackupReadFails, NextParts
  <2> QED BY <1>4, <2>1, <2>3, <2>4 DEF BackupReadFails, NextParts
<1>5. ASSUME NEW w \in Windows, BackupStops(w) PROVE DeleterInv'
  BY <1>5 DEF BackupStops
<1>6. ASSUME NEW w \in Windows, BackupNames(w) PROVE DeleterInv'
  BY <1>6 DEF BackupNames
<1>7. ASSUME NEW w \in Windows, BackupRecords(w) PROVE DeleterInv'
  BY <1>7 DEF BackupRecords, FolderOf
<1>8. ASSUME NEW w \in Windows, BackupUnlocks(w) PROVE DeleterInv'
  BY <1>8 DEF BackupUnlocks, Releases
<1>9. ASSUME NEW w \in Windows, ManifestTruncated(w) PROVE DeleterInv'
  <2>1. step[w] \in BackupSteps /\ target[w] \in Sets BY <1>9 DEF ManifestTruncated,
       Writes
  <2>2. status[target[w]] \notin Ends BY <2>1
  <2>3. \A v \in Windows : step[v] \in DeleteSteps => target[v] # target[w] BY <2>2
  <2>4. \A v \in Windows : step'[v] \in DeleteSteps => v # w /\ step[v] = step'[v]
    BY <1>9, <2>1 DEF ManifestTruncated, Writes
  <2> QED BY <1>9, <2>1, <2>3, <2>4 DEF ManifestTruncated, Writes
<1>10. ASSUME NEW w \in Windows, ManifestWritten(w) PROVE DeleterInv'
  <2>1. target[w] \in Sets BY <1>10 DEF ManifestWritten, Returns, Writes
  <2>2. CASE /\ step[w] \in {"begin", "save"}
             /\ status' = [status EXCEPT ![target[w]] = "reading"]
             /\ Goes(w, IF step[w] = "begin" THEN "lock" ELSE "reading")
             /\ UNCHANGED <<target, at, todo, result>>
    BY <1>10, <2>1, <2>2 DEF ManifestWritten, Returns, Writes
  <2>3. CASE /\ step[w] = "finish"
             /\ status' = [status EXCEPT ![target[w]] = result[w]]
             /\ Returns(w)
    BY <1>10, <2>1, <2>3 DEF ManifestWritten, Returns, Writes
  <2> QED BY <1>10, <2>2, <2>3 DEF ManifestWritten, Returns, Writes
<1>11. ASSUME NEW w \in Windows, ManifestFails(w) PROVE DeleterInv'
  BY <1>11 DEF ManifestFails, Returns, Writes
<1>12. ASSUME NEW w \in Windows, NEW s \in Sets, DeleteChecks(w, s) PROVE DeleterInv'
  BY <1>12 DEF DeleteChecks, Ended, Readable, SelfContained, OwnPaths
<1>13. ASSUME NEW w \in Windows, DeleteOpens(w) PROVE DeleterInv'
  BY <1>13 DEF DeleteOpens
<1>14. ASSUME NEW w \in Windows, DeleteLocks(w) PROVE DeleterInv'
  BY <1>14 DEF DeleteLocks, MayHold
<1>15. ASSUME NEW w \in Windows, DeleteRenames(w) PROVE DeleterInv'
  BY <1>15 DEF DeleteRenames
<1>16. ASSUME NEW w \in Windows, DeleteUnlocks(w) PROVE DeleterInv'
  BY <1>16 DEF DeleteUnlocks, Releases
<1>17. ASSUME NEW w \in Windows, DeleteRemoves(w) PROVE DeleterInv'
  <2>1. target[w] \in Sets BY <1>17 DEF DeleteRemoves, Returns
  <2>2. CASE /\ \E p \in files[target[w]] :
                  files' = [files EXCEPT ![target[w]] = @ \ {p}]
             /\ UNCHANGED <<folder, step, target, at, todo, result>>
    BY <1>17, <2>1, <2>2 DEF DeleteRemoves, Returns
  <2>3. CASE /\ folder' = [folder EXCEPT ![target[w]] = "gone"]
             /\ Returns(w) /\ UNCHANGED files
    BY <1>17, <2>1, <2>3 DEF DeleteRemoves, Returns
  <2> QED BY <1>17, <2>2, <2>3 DEF DeleteRemoves, Returns
<1>18. ASSUME NEW w \in Windows, DeleteRefused(w) PROVE DeleterInv'
  BY <1>18 DEF DeleteRefused, Releases, Returns, MayHold
<1>19. ASSUME NEW w \in Windows, NEW s \in Sets, RestoreOpens(w, s) PROVE DeleterInv'
  BY <1>19 DEF RestoreOpens
<1>20. ASSUME NEW w \in Windows, RestoreLocks(w) PROVE DeleterInv'
  BY <1>20 DEF RestoreLocks, MayShare
<1>21. ASSUME NEW w \in Windows, RestoreChecks(w) PROVE DeleterInv'
  BY <1>21 DEF RestoreChecks, Checked
<1>22. ASSUME NEW w \in Windows, RestoreConfirmed(w) PROVE DeleterInv'
  BY <1>22 DEF RestoreConfirmed
<1>23. ASSUME NEW w \in Windows, NEW p \in Parts, RestoreWrites(w, p) PROVE DeleterInv'
  BY <1>23 DEF RestoreWrites
<1>24. ASSUME NEW w \in Windows, RestoreReturns(w) PROVE DeleterInv'
  BY <1>24 DEF RestoreReturns, Releases, Returns
<1>25. ASSUME NEW w \in Windows, Crash(w) PROVE DeleterInv'
  <2>1. target[w] \in Sets BY <1>25 DEF Crash, Releases, Returns
  <2>2. \A v \in Windows : step'[v] \in DeleteSteps =>
            v # w /\ step[v] = step'[v] /\ target[v] = target'[v]
    BY <1>25, <2>1 DEF Crash, Releases, Returns
  <2>3. \A v \in Windows : step'[v] \in DeleteSteps => ~litter'[target[v]]
    <3>1. CASE UNCHANGED litter BY <2>2, <3>1
    <3>2. CASE step[w] = "reading" /\ litter' = [litter EXCEPT ![target[w]] = TRUE]
      <4>1. status[target[w]] \notin Ends BY <3>2
      <4> QED BY <2>1, <2>2, <3>2, <4>1
    <3> QED BY <1>25, <3>1, <3>2 DEF Crash
  <2> QED BY <1>25, <2>2, <2>3 DEF Crash, Releases, Returns
<1>26. CASE UNCHANGED vars BY <1>26 DEF vars
<1> QED
  BY <1>1, <1>2, <1>3, <1>4, <1>5, <1>6, <1>7, <1>8, <1>9, <1>10, <1>11, <1>12, <1>13,
     <1>14, <1>15, <1>16, <1>17, <1>18, <1>19, <1>20, <1>21, <1>22, <1>23, <1>24,
          <1>25, <1>26
  DEF Next, BackupAction, DeleteAction, RestoreAction

\* No step hides a listed image or moves a folder that lists one.
LEMMA RecordStep ==
  ASSUME TypeOK, SaverInv, DeleterInv, RecordInv, [Next]_vars
  PROVE  RecordInv'
<1> USE VarAssumption, NoSetAssumption DEF Goes, locks, disk, BackupSteps, DeleteSteps,
     RestoreSteps, TypeOK, SaverInv, DeleterInv, RecordInv, Paths, Places, Listed
<1>1. ASSUME NEW w \in Windows, NEW s \in Sets, BackupStarts(w, s) PROVE RecordInv'
  BY <1>1 DEF BackupStarts
<1>2. ASSUME NEW w \in Windows, BackupLocks(w) PROVE RecordInv'
  BY <1>2 DEF BackupLocks, MayShare
<1>3. ASSUME NEW w \in Windows, NEW p \in Parts, BackupReads(w, p) PROVE RecordInv'
  <2>1. target[w] \in Sets /\ step[w] = "reading" BY <1>3 DEF BackupReads, NextParts
  <2>2. UNCHANGED entries /\ UNCHANGED folder /\ UNCHANGED target BY <1>3 DEF BackupReads
  <2>3. \A s \in Sets : files[s] \subseteq files'[s] BY <1>3, <2>1 DEF BackupReads
  <2>4. \A s \in Sets : s # target[w] => files'[s] = files[s] BY <1>3,
       <2>1 DEF BackupReads
  <2>5. \A v \in Windows \ {w} : step'[v] = step[v] /\ todo'[v] = todo[v]
    BY <1>3 DEF BackupReads
  <2>6. Var \notin todo'[w] BY <1>3 DEF BackupReads, NextParts
  <2>7. step'[w] = "naming" => Listed(target[w]) = {}
    <3> SUFFICES ASSUME step'[w] = "naming" PROVE Listed(target[w]) = {} OBVIOUS
    <3>1. Var \in todo[w] BY <1>3, <2>1 DEF BackupReads, NextParts
    <3>2. files[target[w]] = {} /\ folder[target[w]] \in Paths BY <2>1, <3>1
    <3> QED BY <2>1, <3>2
  <2>8. \A v \in Windows \ {w} : step[v] \in BackupSteps => target[v] # target[w]
    BY <2>1
  <2> QED BY <2>1, <2>2, <2>3, <2>4, <2>5, <2>6, <2>7, <2>8
<1>4. ASSUME NEW w \in Windows, NEW p \in Parts, BackupReadFails(w, p) PROVE RecordInv'
  BY <1>4 DEF BackupReadFails, NextParts
<1>5. ASSUME NEW w \in Windows, BackupStops(w) PROVE RecordInv'
  BY <1>5 DEF BackupStops
<1>6. ASSUME NEW w \in Windows, BackupNames(w) PROVE RecordInv'
  BY <1>6 DEF BackupNames
<1>7. ASSUME NEW w \in Windows, BackupRecords(w) PROVE RecordInv'
  BY <1>7 DEF BackupRecords, FolderOf
<1>8. ASSUME NEW w \in Windows, BackupUnlocks(w) PROVE RecordInv'
  BY <1>8 DEF BackupUnlocks, Releases
<1>9. ASSUME NEW w \in Windows, ManifestTruncated(w) PROVE RecordInv'
  BY <1>9 DEF ManifestTruncated, Writes
<1>10. ASSUME NEW w \in Windows, ManifestWritten(w) PROVE RecordInv'
  <2>1. folder' = folder /\ entries' = entries /\ files' = files
    BY <1>10 DEF ManifestWritten
  <2>2. \A v \in Windows \ {w} :
            step'[v] = step[v] /\ target'[v] = target[v] /\ todo'[v] = todo[v]
    BY <1>10 DEF ManifestWritten, Returns
  <2>3. \/ step'[w] = "idle"
        \/ step'[w] \in {"lock", "reading"} /\ target'[w] = target[w] /\ todo'[w] = todo[w]
    BY <1>10 DEF ManifestWritten, Returns
  <2>4. step[w] \in BackupSteps BY <1>10 DEF ManifestWritten, Writes
  <2> QED BY <2>1, <2>2, <2>3, <2>4
<1>11. ASSUME NEW w \in Windows, ManifestFails(w) PROVE RecordInv'
  <2>1. target[w] \in Sets BY <1>11 DEF ManifestFails, Returns, Writes
  <2>2. CASE /\ step[w] = "save" \/ (step[w] = "finish" /\ result[w] # "failed")
             /\ result' = [result EXCEPT ![w] = "failed"]
             /\ Goes(w, IF step[w] = "save" THEN "unlock" ELSE "finish")
             /\ UNCHANGED <<target, at, todo>>
    BY <1>11, <2>1, <2>2 DEF ManifestFails, Returns, Writes
  <2>3. CASE /\ step[w] = "begin" \/ (step[w] = "finish" /\ result[w] = "failed")
             /\ Returns(w)
    BY <1>11, <2>1, <2>3 DEF ManifestFails, Returns, Writes
  <2> QED BY <1>11, <2>2, <2>3 DEF ManifestFails, Returns, Writes
<1>12. ASSUME NEW w \in Windows, NEW s \in Sets, DeleteChecks(w, s) PROVE RecordInv'
  BY <1>12 DEF DeleteChecks, Ended, Readable, SelfContained, OwnPaths
<1>13. ASSUME NEW w \in Windows, DeleteOpens(w) PROVE RecordInv'
  BY <1>13 DEF DeleteOpens
<1>14. ASSUME NEW w \in Windows, DeleteLocks(w) PROVE RecordInv'
  BY <1>14 DEF DeleteLocks, MayHold
<1>15. ASSUME NEW w \in Windows, DeleteRenames(w) PROVE RecordInv'
  BY <1>15 DEF DeleteRenames
<1>16. ASSUME NEW w \in Windows, DeleteUnlocks(w) PROVE RecordInv'
  BY <1>16 DEF DeleteUnlocks, Releases
<1>17. ASSUME NEW w \in Windows, DeleteRemoves(w) PROVE RecordInv'
  <2>1. target[w] \in Sets /\ folder[target[w]] \notin Paths BY <1>17 DEF DeleteRemoves, Returns
  <2>2. CASE /\ \E p \in files[target[w]] :
                  files' = [files EXCEPT ![target[w]] = @ \ {p}]
             /\ UNCHANGED <<folder, step, target, at, todo, result>>
    BY <1>17, <2>1, <2>2 DEF DeleteRemoves, Returns
  <2>3. CASE /\ folder' = [folder EXCEPT ![target[w]] = "gone"]
             /\ Returns(w) /\ UNCHANGED files
    BY <1>17, <2>1, <2>3 DEF DeleteRemoves, Returns
  <2> QED BY <1>17, <2>2, <2>3 DEF DeleteRemoves, Returns
<1>18. ASSUME NEW w \in Windows, DeleteRefused(w) PROVE RecordInv'
  BY <1>18 DEF DeleteRefused, Releases, Returns, MayHold
<1>19. ASSUME NEW w \in Windows, NEW s \in Sets, RestoreOpens(w, s) PROVE RecordInv'
  BY <1>19 DEF RestoreOpens
<1>20. ASSUME NEW w \in Windows, RestoreLocks(w) PROVE RecordInv'
  BY <1>20 DEF RestoreLocks, MayShare
<1>21. ASSUME NEW w \in Windows, RestoreChecks(w) PROVE RecordInv'
  BY <1>21 DEF RestoreChecks, Checked
<1>22. ASSUME NEW w \in Windows, RestoreConfirmed(w) PROVE RecordInv'
  BY <1>22 DEF RestoreConfirmed
<1>23. ASSUME NEW w \in Windows, NEW p \in Parts, RestoreWrites(w, p) PROVE RecordInv'
  BY <1>23 DEF RestoreWrites
<1>24. ASSUME NEW w \in Windows, RestoreReturns(w) PROVE RecordInv'
  BY <1>24 DEF RestoreReturns, Releases, Returns
<1>25. ASSUME NEW w \in Windows, Crash(w) PROVE RecordInv'
  BY <1>25 DEF Crash, Releases, Returns
<1>26. CASE UNCHANGED vars BY <1>26 DEF vars
<1> QED
  BY <1>1, <1>2, <1>3, <1>4, <1>5, <1>6, <1>7, <1>8, <1>9, <1>10, <1>11, <1>12, <1>13,
     <1>14, <1>15, <1>16, <1>17, <1>18, <1>19, <1>20, <1>21, <1>22, <1>23, <1>24,
          <1>25, <1>26, ZenonT(40)
  DEF Next, BackupAction, DeleteAction, RestoreAction

\* No backup is recorded as complete before it has listed a partition.
LEMMA NonEmptyStep ==
  ASSUME TypeOK, SaverInv, DeleterInv, NonEmptyInv, [Next]_vars
  PROVE  NonEmptyInv'
<1> USE NoSetAssumption DEF Goes, locks, disk, NonEmptyInv, Lists
<1>a. /\ step \in [Windows -> {"idle"} \cup BackupSteps \cup DeleteSteps
                                 \cup RestoreSteps]
      /\ target \in [Windows -> Sets \cup {NoSet}] /\ todo \in [Windows -> SUBSET Parts]
      /\ result \in [Windows -> Ends \cup {"none"}] /\ files \in [Sets -> SUBSET Parts]
      /\ status \in [Sets -> Statuses]
      /\ entries \in [Sets -> [Parts -> Paths \cup {"none"}]]
  BY DEF TypeOK
<1>b. \A w \in Windows : step[w] # "idle" => target[w] \in Sets
  BY Works
<1>c. \A w \in Windows : step[w] \in BackupSteps => at[w] # "none"
  BY DEF SaverInv, Paths
<1>d. \A w, v \in Windows : step[w] \in BackupSteps /\ step[v] \in DeleteSteps =>
                             target[v] # target[w]
  BY <1>b DEF SaverInv, DeleterInv, Unfinished, Ends
<1> USE DEF BackupSteps, DeleteSteps, RestoreSteps, Ends
<1>1. ASSUME NEW w \in Windows, NEW s \in Sets, BackupStarts(w, s) PROVE NonEmptyInv'
  <2>1. PICK chosen \in (SUBSET Parts) \ {{}} : todo' = [todo EXCEPT ![w] = chosen]
    BY <1>1 DEF BackupStarts
  <2>2. todo'[w] # {} /\ \A v \in Windows \ {w} : todo'[v] = todo[v] BY <1>a, <2>1
  <2>3. step'[w] = "begin" /\ \A v \in Windows \ {w} : step'[v] = step[v]
    BY <1>1, <1>a DEF BackupStarts
  <2>4. \A v \in Windows \ {w} : target'[v] = target[v] BY <1>1, <1>a DEF BackupStarts
  <2>5. status' = status /\ entries' = entries /\ files' = files /\ result' = result
    BY <1>1 DEF BackupStarts
  <2> QED BY <1>b, <2>2, <2>3, <2>4, <2>5
<1>2. ASSUME NEW w \in Windows, BackupLocks(w) PROVE NonEmptyInv'
  BY <1>a, <1>b, <1>2 DEF BackupLocks, MayShare
<1>3. ASSUME NEW w \in Windows, NEW p \in Parts, BackupReads(w, p) PROVE NonEmptyInv'
  <2>1. target[w] \in Sets BY <1>3, <1>b DEF BackupReads
  <2>2. files'[target[w]] # {} BY <1>3, <1>a, <2>1 DEF BackupReads
  <2>3. \A s \in Sets : files[s] # {} => files'[s] # {} BY <1>3, <1>a,
       <2>1 DEF BackupReads
  <2>4. \A v \in Windows \ {w} : step'[v] = step[v] /\ todo'[v] = todo[v]
    BY <1>3, <1>a DEF BackupReads
  <2>5. step'[w] \in {"naming", "append"} BY <1>3, <1>a DEF BackupReads
  <2>6. status' = status /\ entries' = entries /\ target' = target /\ result' = result
    BY <1>3 DEF BackupReads
  <2> QED BY <1>b, <2>1, <2>2, <2>3, <2>4, <2>5, <2>6
<1>4. ASSUME NEW w \in Windows, NEW p \in Parts, BackupReadFails(w,
     p) PROVE NonEmptyInv'
  BY <1>a, <1>b, <1>4 DEF BackupReadFails, NextParts
<1>5. ASSUME NEW w \in Windows, BackupStops(w) PROVE NonEmptyInv'
  BY <1>a, <1>b, <1>5 DEF BackupStops
<1>6. ASSUME NEW w \in Windows, BackupNames(w) PROVE NonEmptyInv'
  BY <1>a, <1>b, <1>6 DEF BackupNames
<1>7. ASSUME NEW w \in Windows, BackupRecords(w) PROVE NonEmptyInv'
  <2>1. /\ target[w] \in Sets /\ step[w] = "append" /\ at[w] # "none"
        /\ files[target[w]] # {} /\ files[target[w]] \subseteq Parts
    BY <1>7, <1>a, <1>b, <1>c DEF BackupRecords
  <2>2. \A s \in Sets : Lists(s) => Lists(s)'
    BY <1>7, <1>a, <2>1 DEF BackupRecords
  <2>3. Lists(target[w])' BY <1>7, <1>a, <2>1 DEF BackupRecords, FolderOf
  <2>4. step'[w] = "save" /\ \A v \in Windows \ {w} : step'[v] = step[v]
    BY <1>7, <1>a DEF BackupRecords
  <2>5. /\ status' = status /\ files' = files /\ result' = result
        /\ target' = target /\ todo' = todo
    BY <1>7 DEF BackupRecords
  <2> HIDE DEF Lists
  <2> QED BY <1>b, <2>1, <2>2, <2>3, <2>4, <2>5
<1>8. ASSUME NEW w \in Windows, BackupUnlocks(w) PROVE NonEmptyInv'
  BY <1>a, <1>b, <1>8 DEF BackupUnlocks, Releases
<1>9. ASSUME NEW w \in Windows, ManifestTruncated(w) PROVE NonEmptyInv'
  BY <1>a, <1>b, <1>9 DEF ManifestTruncated, Writes
<1>10. ASSUME NEW w \in Windows, ManifestWritten(w) PROVE NonEmptyInv'
  <2>1. target[w] \in Sets BY <1>10, <1>b DEF ManifestWritten, Writes
  <2>2. entries' = entries /\ files' = files BY <1>10 DEF ManifestWritten
  <2>3. \A v \in Windows \ {w} : /\ step'[v] = step[v] /\ todo'[v] = todo[v]
                                 /\ target'[v] = target[v] /\ result'[v] = result[v]
    BY <1>10, <1>a DEF ManifestWritten, Returns, Writes
  <2>4. CASE step[w] \in {"begin", "save"}
    <3>1. /\ status' = [status EXCEPT ![target[w]] = "reading"]
          /\ step'[w] = IF step[w] = "begin" THEN "lock" ELSE "reading"
          /\ target' = target /\ todo' = todo /\ result' = result
      BY <1>10, <1>a, <2>4 DEF ManifestWritten, Returns, Writes
    <3>2. \A s \in Sets : status'[s] = "complete" => status[s] = "complete"
      BY <1>a, <2>1, <3>1
    <3> QED BY <1>b, <2>2, <2>3, <2>4, <3>1, <3>2
  <2>5. CASE step[w] = "finish"
    <3>1. step'[w] = "idle" /\ status' = [status EXCEPT ![target[w]] = result[w]]
      BY <1>10, <1>a, <2>5 DEF ManifestWritten, Returns, Writes
    <3>2. \A s \in Sets : status'[s] = "complete" => Lists(s)
      BY <1>a, <2>1, <2>5, <3>1
    <3> QED BY <1>b, <2>2, <2>3, <3>1, <3>2
  <2> QED BY <1>10, <2>4, <2>5 DEF ManifestWritten
<1>11. ASSUME NEW w \in Windows, ManifestFails(w) PROVE NonEmptyInv'
  BY <1>a, <1>b, <1>11 DEF ManifestFails, Returns, Writes
<1>12. ASSUME NEW w \in Windows, NEW s \in Sets, DeleteChecks(w, s) PROVE NonEmptyInv'
  BY <1>a, <1>b, <1>12 DEF DeleteChecks, Ended, Readable, SelfContained, OwnPaths
<1>13. ASSUME NEW w \in Windows, DeleteOpens(w) PROVE NonEmptyInv'
  BY <1>a, <1>b, <1>13 DEF DeleteOpens
<1>14. ASSUME NEW w \in Windows, DeleteLocks(w) PROVE NonEmptyInv'
  BY <1>a, <1>b, <1>14 DEF DeleteLocks, MayHold
<1>15. ASSUME NEW w \in Windows, DeleteRenames(w) PROVE NonEmptyInv'
  BY <1>a, <1>b, <1>15 DEF DeleteRenames
<1>16. ASSUME NEW w \in Windows, DeleteUnlocks(w) PROVE NonEmptyInv'
  BY <1>a, <1>b, <1>16 DEF DeleteUnlocks, Releases
<1>17. ASSUME NEW w \in Windows, DeleteRemoves(w) PROVE NonEmptyInv'
  <2>1. target[w] \in Sets /\ step[w] = "removing" BY <1>17, <1>b DEF DeleteRemoves
  <2>2. entries' = entries /\ status' = status BY <1>17 DEF DeleteRemoves
  <2>3. \A v \in Windows \ {w} : /\ step'[v] = step[v] /\ todo'[v] = todo[v]
                                 /\ target'[v] = target[v] /\ result'[v] = result[v]
    BY <1>17, <1>a DEF DeleteRemoves, Returns
  <2>4. step'[w] \in {"removing", "idle"} BY <1>17, <1>a DEF DeleteRemoves, Returns
  <2>5. \A s \in Sets : s # target[w] => files'[s] = files[s]
    BY <1>17, <1>a, <2>1 DEF DeleteRemoves
  <2>6. \A v \in Windows :
            step[v] \in BackupSteps => target[v] \in Sets /\ target[v] # target[w]
    BY <2>1, <1>b, <1>d
  <2> QED BY <2>2, <2>3, <2>4, <2>5, <2>6
<1>18. ASSUME NEW w \in Windows, DeleteRefused(w) PROVE NonEmptyInv'
  BY <1>a, <1>b, <1>18 DEF DeleteRefused, Releases, Returns, MayHold
<1>19. ASSUME NEW w \in Windows, NEW s \in Sets, RestoreOpens(w, s) PROVE NonEmptyInv'
  BY <1>a, <1>b, <1>19 DEF RestoreOpens
<1>20. ASSUME NEW w \in Windows, RestoreLocks(w) PROVE NonEmptyInv'
  BY <1>a, <1>b, <1>20 DEF RestoreLocks, MayShare
<1>21. ASSUME NEW w \in Windows, RestoreChecks(w) PROVE NonEmptyInv'
  BY <1>a, <1>b, <1>21 DEF RestoreChecks, Checked
<1>22. ASSUME NEW w \in Windows, RestoreConfirmed(w) PROVE NonEmptyInv'
  BY <1>a, <1>b, <1>22 DEF RestoreConfirmed
<1>23. ASSUME NEW w \in Windows, NEW p \in Parts, RestoreWrites(w, p) PROVE NonEmptyInv'
  BY <1>a, <1>b, <1>23 DEF RestoreWrites
<1>24. ASSUME NEW w \in Windows, RestoreReturns(w) PROVE NonEmptyInv'
  BY <1>a, <1>b, <1>24 DEF RestoreReturns, Releases, Returns
<1>25. ASSUME NEW w \in Windows, Crash(w) PROVE NonEmptyInv'
  BY <1>a, <1>b, <1>25, SMTT(40) DEF Crash, Releases, Returns
<1>26. CASE UNCHANGED vars BY <1>26 DEF vars
<1> QED
  BY <1>1, <1>2, <1>3, <1>4, <1>5, <1>6, <1>7, <1>8, <1>9, <1>10, <1>11, <1>12, <1>13,
     <1>14, <1>15, <1>16, <1>17, <1>18, <1>19, <1>20, <1>21, <1>22, <1>23, <1>24,
          <1>25, <1>26
  DEF Next, BackupAction, DeleteAction, RestoreAction

\* No step disturbs the set a restore has checked.
LEMMA KeptStep ==
  ASSUME TypeOK, LockInv, SaverInv, DeleterInv, SourceKept, [Next]_vars
  PROVE  SourceKept'
<1> USE VarAssumption, NoSetAssumption DEF Goes, locks, disk, BackupSteps, DeleteSteps,
     RestoreSteps, TypeOK, LockInv, SaverInv, DeleterInv, SourceKept, HoldsShared,
     HoldsExclusive, Paths, Ends, Unfinished
<1>1. ASSUME NEW w \in Windows, NEW s \in Sets, BackupStarts(w, s) PROVE SourceKept'
  BY <1>1 DEF BackupStarts
<1>2. ASSUME NEW w \in Windows, BackupLocks(w) PROVE SourceKept'
  BY <1>2 DEF BackupLocks, MayShare
<1>3. ASSUME NEW w \in Windows, NEW p \in Parts, BackupReads(w, p) PROVE SourceKept'
  BY <1>3 DEF BackupReads, NextParts
<1>4. ASSUME NEW w \in Windows, NEW p \in Parts, BackupReadFails(w, p) PROVE SourceKept'
  BY <1>4 DEF BackupReadFails, NextParts
<1>5. ASSUME NEW w \in Windows, BackupStops(w) PROVE SourceKept'
  BY <1>5 DEF BackupStops
<1>6. ASSUME NEW w \in Windows, BackupNames(w) PROVE SourceKept'
  <2>1. step[w] \in BackupSteps /\ target[w] \in Sets BY <1>6 DEF BackupNames
  <2>2. \A v \in Windows : step[v] \in {"review", "writing"} => target[v] # target[w]
    BY <2>1
  <2>3. \A v \in Windows : step'[v] \in {"review", "writing"} =>
            v # w /\ step[v] = step'[v] /\ at[v] = at'[v] /\ target[v] \in Sets
    BY <1>6, <2>1 DEF BackupNames
  <2>4. \A t \in Sets : t # target[w] => folder'[t] = folder[t] BY <1>6,
       <2>1 DEF BackupNames
  <2> QED BY <1>6, <2>2, <2>3, <2>4 DEF BackupNames
<1>7. ASSUME NEW w \in Windows, BackupRecords(w) PROVE SourceKept'
  BY <1>7 DEF BackupRecords, FolderOf
<1>8. ASSUME NEW w \in Windows, BackupUnlocks(w) PROVE SourceKept'
  BY <1>8 DEF BackupUnlocks, Releases
<1>9. ASSUME NEW w \in Windows, ManifestTruncated(w) PROVE SourceKept'
  <2>1. step[w] \in BackupSteps /\ target[w] \in Sets BY <1>9 DEF ManifestTruncated,
       Writes
  <2>2. \A v \in Windows : step[v] \in {"review", "writing"} => target[v] # target[w]
    BY <2>1
  <2> QED BY <1>9, <2>1, <2>2 DEF ManifestTruncated, Writes
<1>10. ASSUME NEW w \in Windows, ManifestWritten(w) PROVE SourceKept'
  BY <1>10 DEF ManifestWritten, Returns, Writes
<1>11. ASSUME NEW w \in Windows, ManifestFails(w) PROVE SourceKept'
  BY <1>11 DEF ManifestFails, Returns, Writes
<1>12. ASSUME NEW w \in Windows, NEW s \in Sets, DeleteChecks(w, s) PROVE SourceKept'
  BY <1>12 DEF DeleteChecks, Ended, Readable, SelfContained, OwnPaths, Listed
<1>13. ASSUME NEW w \in Windows, DeleteOpens(w) PROVE SourceKept'
  BY <1>13 DEF DeleteOpens
<1>14. ASSUME NEW w \in Windows, DeleteLocks(w) PROVE SourceKept'
  BY <1>14 DEF DeleteLocks, MayHold
<1>15. ASSUME NEW w \in Windows, DeleteRenames(w) PROVE SourceKept'
  BY <1>15 DEF DeleteRenames
<1>16. ASSUME NEW w \in Windows, DeleteUnlocks(w) PROVE SourceKept'
  BY <1>16 DEF DeleteUnlocks, Releases
<1>17. ASSUME NEW w \in Windows, DeleteRemoves(w) PROVE SourceKept'
  <2>1. target[w] \in Sets /\ folder[target[w]] \in {"aside",
       "gone"} BY <1>17 DEF DeleteRemoves, Returns
  <2>2. \A v \in Windows : step[v] \in {"review", "writing"} => target[v] # target[w]
    <3>1. \A v \in Windows : at[v] \in Paths \cup {"none"} OBVIOUS
    <3> QED BY <2>1, <3>1
  <2>3. \A v \in Windows : step'[v] \in {"review", "writing"} =>
            /\ v # w /\ step[v] = step'[v] /\ target[v] \in Sets
            /\ at[v] = at'[v] /\ target[v] = target'[v] /\ todo[v] = todo'[v]
    BY <1>17, <2>1 DEF DeleteRemoves, Returns
  <2>4. \A t \in Sets : t # target[w] => folder'[t] = folder[t] /\ files'[t] = files[t]
    BY <1>17, <2>1 DEF DeleteRemoves, Returns
  <2>5. status' = status BY <1>17 DEF DeleteRemoves
  <2> QED BY <2>2, <2>3, <2>4, <2>5
<1>18. ASSUME NEW w \in Windows, DeleteRefused(w) PROVE SourceKept'
  BY <1>18 DEF DeleteRefused, Releases, Returns, MayHold
<1>19. ASSUME NEW w \in Windows, NEW s \in Sets, RestoreOpens(w, s) PROVE SourceKept'
  BY <1>19 DEF RestoreOpens
<1>20. ASSUME NEW w \in Windows, RestoreLocks(w) PROVE SourceKept'
  BY <1>20 DEF RestoreLocks, MayShare
<1>21. ASSUME NEW w \in Windows, RestoreChecks(w) PROVE SourceKept'
  BY <1>21 DEF RestoreChecks, Listed, Checked
<1>22. ASSUME NEW w \in Windows, RestoreConfirmed(w) PROVE SourceKept'
  BY <1>22 DEF RestoreConfirmed
<1>23. ASSUME NEW w \in Windows, NEW p \in Parts, RestoreWrites(w, p) PROVE SourceKept'
  BY <1>23 DEF RestoreWrites
<1>24. ASSUME NEW w \in Windows, RestoreReturns(w) PROVE SourceKept'
  BY <1>24 DEF RestoreReturns, Releases, Returns
<1>25. ASSUME NEW w \in Windows, Crash(w) PROVE SourceKept'
  BY <1>25 DEF Crash, Releases, Returns
<1>26. CASE UNCHANGED vars BY <1>26 DEF vars
<1> QED
  BY <1>1, <1>2, <1>3, <1>4, <1>5, <1>6, <1>7, <1>8, <1>9, <1>10, <1>11, <1>12, <1>13,
     <1>14, <1>15, <1>16, <1>17, <1>18, <1>19, <1>20, <1>21, <1>22, <1>23, <1>24,
          <1>25, <1>26
  DEF Next, BackupAction, DeleteAction, RestoreAction

\* No step brings a stray file into a folder set aside.
LEMMA AsideStep ==
  ASSUME TypeOK, SaverInv, DeleterInv, OnlyRecordedDeleted, [Next]_vars
  PROVE  OnlyRecordedDeleted'
<1> USE VarAssumption, NoSetAssumption DEF Goes, locks, disk, BackupSteps, DeleteSteps,
     RestoreSteps, TypeOK, SaverInv, DeleterInv, OnlyRecordedDeleted, Paths, Listed,
     Unfinished, Ends
<1>1. ASSUME NEW w \in Windows, NEW s \in Sets, BackupStarts(w,
     s) PROVE OnlyRecordedDeleted'
  BY <1>1 DEF BackupStarts
<1>2. ASSUME NEW w \in Windows, BackupLocks(w) PROVE OnlyRecordedDeleted'
  BY <1>2 DEF BackupLocks, MayShare
<1>3. ASSUME NEW w \in Windows, NEW p \in Parts, BackupReads(w,
     p) PROVE OnlyRecordedDeleted'
  <2>1. target[w] \in Sets /\ folder[target[w]] \in Paths BY <1>3 DEF BackupReads,
       NextParts
  <2>2. UNCHANGED entries /\ UNCHANGED folder BY <1>3 DEF BackupReads, NextParts
  <2>3. \A s \in Sets : s # target[w] => litter'[s] = litter[s] /\ files'[s] = files[s]
    BY <1>3, <2>1 DEF BackupReads, NextParts
  <2> QED BY <2>1, <2>2, <2>3
<1>4. ASSUME NEW w \in Windows, NEW p \in Parts, BackupReadFails(w,
     p) PROVE OnlyRecordedDeleted'
  <2>1. target[w] \in Sets /\ folder[target[w]] \in Paths BY <1>4 DEF BackupReadFails,
       NextParts
  <2>2. UNCHANGED entries /\ UNCHANGED folder BY <1>4 DEF BackupReadFails, NextParts
  <2>3. \A s \in Sets : s # target[w] => litter'[s] = litter[s] /\ files'[s] = files[s]
    BY <1>4, <2>1 DEF BackupReadFails, NextParts
  <2> QED BY <2>1, <2>2, <2>3
<1>5. ASSUME NEW w \in Windows, BackupStops(w) PROVE OnlyRecordedDeleted'
  BY <1>5 DEF BackupStops
<1>6. ASSUME NEW w \in Windows, BackupNames(w) PROVE OnlyRecordedDeleted'
  BY <1>6 DEF BackupNames
<1>7. ASSUME NEW w \in Windows, BackupRecords(w) PROVE OnlyRecordedDeleted'
  BY <1>7 DEF BackupRecords, FolderOf
<1>8. ASSUME NEW w \in Windows, BackupUnlocks(w) PROVE OnlyRecordedDeleted'
  BY <1>8 DEF BackupUnlocks, Releases
<1>9. ASSUME NEW w \in Windows, ManifestTruncated(w) PROVE OnlyRecordedDeleted'
  BY <1>9 DEF ManifestTruncated, Writes
<1>10. ASSUME NEW w \in Windows, ManifestWritten(w) PROVE OnlyRecordedDeleted'
  BY <1>10 DEF ManifestWritten, Returns, Writes
<1>11. ASSUME NEW w \in Windows, ManifestFails(w) PROVE OnlyRecordedDeleted'
  BY <1>11 DEF ManifestFails, Returns, Writes
<1>12. ASSUME NEW w \in Windows, NEW s \in Sets, DeleteChecks(w,
     s) PROVE OnlyRecordedDeleted'
  BY <1>12 DEF DeleteChecks, Ended, Readable, SelfContained, OwnPaths
<1>13. ASSUME NEW w \in Windows, DeleteOpens(w) PROVE OnlyRecordedDeleted'
  BY <1>13 DEF DeleteOpens
<1>14. ASSUME NEW w \in Windows, DeleteLocks(w) PROVE OnlyRecordedDeleted'
  BY <1>14 DEF DeleteLocks, MayHold
<1>15. ASSUME NEW w \in Windows, DeleteRenames(w) PROVE OnlyRecordedDeleted'
  BY <1>15 DEF DeleteRenames
<1>16. ASSUME NEW w \in Windows, DeleteUnlocks(w) PROVE OnlyRecordedDeleted'
  BY <1>16 DEF DeleteUnlocks, Releases
<1>17. ASSUME NEW w \in Windows, DeleteRemoves(w) PROVE OnlyRecordedDeleted'
  BY <1>17 DEF DeleteRemoves, Returns
<1>18. ASSUME NEW w \in Windows, DeleteRefused(w) PROVE OnlyRecordedDeleted'
  BY <1>18 DEF DeleteRefused, Releases, Returns, MayHold
<1>19. ASSUME NEW w \in Windows, NEW s \in Sets, RestoreOpens(w,
     s) PROVE OnlyRecordedDeleted'
  BY <1>19 DEF RestoreOpens
<1>20. ASSUME NEW w \in Windows, RestoreLocks(w) PROVE OnlyRecordedDeleted'
  BY <1>20 DEF RestoreLocks, MayShare
<1>21. ASSUME NEW w \in Windows, RestoreChecks(w) PROVE OnlyRecordedDeleted'
  BY <1>21 DEF RestoreChecks, Checked
<1>22. ASSUME NEW w \in Windows, RestoreConfirmed(w) PROVE OnlyRecordedDeleted'
  BY <1>22 DEF RestoreConfirmed
<1>23. ASSUME NEW w \in Windows, NEW p \in Parts, RestoreWrites(w,
     p) PROVE OnlyRecordedDeleted'
  BY <1>23 DEF RestoreWrites
<1>24. ASSUME NEW w \in Windows, RestoreReturns(w) PROVE OnlyRecordedDeleted'
  BY <1>24 DEF RestoreReturns, Releases, Returns
<1>25. ASSUME NEW w \in Windows, Crash(w) PROVE OnlyRecordedDeleted'
  <2>1. entries' = entries /\ folder' = folder /\ files' = files BY <1>25 DEF Crash
  <2>2. CASE UNCHANGED litter BY <2>1, <2>2
  <2>3. CASE step[w] = "reading" /\ litter' = [litter EXCEPT ![target[w]] = TRUE]
    <3>1. target[w] \in Sets BY <2>3, Works
    <3>2. folder[target[w]] \in Paths BY <2>3
    <3> QED BY <2>1, <2>3, <3>1, <3>2
  <2> QED BY <1>25, <2>2, <2>3 DEF Crash
<1>26. CASE UNCHANGED vars BY <1>26 DEF vars
<1> QED
  BY <1>1, <1>2, <1>3, <1>4, <1>5, <1>6, <1>7, <1>8, <1>9, <1>10, <1>11, <1>12, <1>13,
     <1>14, <1>15, <1>16, <1>17, <1>18, <1>19, <1>20, <1>21, <1>22, <1>23, <1>24,
          <1>25, <1>26
  DEF Next, BackupAction, DeleteAction, RestoreAction

-----------------------------------------------------------------------------
LEMMA InitInv == Init => IInv
<1> SUFFICES ASSUME Init PROVE IInv OBVIOUS
<1> USE NoSetAssumption DEF Init
<1>1. TypeOK BY DEF TypeOK, Places, Paths, Statuses, Ends
<1>2. LockInv BY DEF LockInv, HoldsShared, HoldsExclusive
<1>3. SaverInv BY DEF SaverInv, BackupSteps, Listed
<1>4. DeleterInv BY DEF DeleterInv, DeleteSteps
<1>5. RecordInv BY DEF RecordInv, BackupSteps, Paths
<1>6. NonEmptyInv BY DEF NonEmptyInv
<1>7. SourceKept BY DEF SourceKept
<1>8. OnlyRecordedDeleted BY DEF OnlyRecordedDeleted
<1> QED BY <1>1, <1>2, <1>3, <1>4, <1>5, <1>6, <1>7, <1>8 DEF IInv

LEMMA StepInv == IInv /\ [Next]_vars => IInv'
BY TypeStep, LockStep, SaverStep, DeleterStep, RecordStep, NonEmptyStep, KeptStep,
   AsideStep DEF IInv

THEOREM BackupInvariant == Spec => []IInv
BY InitInv, StepInv, PTL DEF Spec

\* Types of the store for any number of windows, sets and partitions, and
\* no window keeps a lock on a manifest once its operation is over
\* (_backup_set_lock releases on every way out).
THEOREM BackupTypeOK == Spec => []TypeOK
<1>1. IInv => TypeOK BY DEF IInv
<1> QED BY <1>1, BackupInvariant, PTL

\* From its checks to its last write a restore keeps its set: it is complete,
\* where it was opened, with every image still to be written, whatever the
\* other windows save, delete or leave unfinished.
THEOREM BackupSourceKept == Spec => []SourceKept
<1>1. IInv => SourceKept BY DEF IInv
<1> QED BY <1>1, BackupInvariant, PTL

\* A set listed as complete has every image it names, where it names it.
THEOREM BackupRestorable == Spec => []Restorable
<1>1. IInv => Restorable
  BY DEF IInv, Restorable, RecordInv, NonEmptyInv, Lists, Listed
<1> QED BY <1>1, BackupInvariant, PTL

\* No file that the record of a set does not list is ever set aside for
\* removal by delete_backup_set.
THEOREM BackupOnlyRecordedDeleted == Spec => []OnlyRecordedDeleted
<1>1. IInv => OnlyRecordedDeleted BY DEF IInv
<1> QED BY <1>1, BackupInvariant, PTL

-----------------------------------------------------------------------------
(* The store implements SavedSets.                                         *)

Using == BackupSteps \cup {"review", "writing"}
SameLife == \A s \in Sets : Life(s)' = Life(s)
SameUsers == \A s \in Sets : UsersOf(s)' = UsersOf(s)

\* A step of one window leaves the others where they are.
LEMMA OneWindow ==
  ASSUME TypeOK, NEW w \in Windows,
         BackupAction(w) \/ DeleteAction(w) \/ RestoreAction(w) \/ Crash(w)
  PROVE  \A v \in Windows \ {w} : step'[v] = step[v] /\ target'[v] = target[v]
<1> USE DEF Goes, Returns
<1>a. /\ step \in [Windows -> {"idle"} \cup BackupSteps \cup DeleteSteps
                                 \cup RestoreSteps]
      /\ target \in [Windows -> Sets \cup {NoSet}]
  BY DEF TypeOK
<1>1. CASE BackupAction(w)
  BY <1>a, <1>1 DEF BackupAction, BackupStarts, BackupLocks, BackupReads,
       BackupReadFails,
     BackupStops, BackupNames, BackupRecords, BackupUnlocks, ManifestTruncated,
     ManifestWritten, ManifestFails
<1>2. CASE DeleteAction(w)
  BY <1>a, <1>2 DEF DeleteAction, DeleteChecks, DeleteOpens, DeleteLocks, DeleteRenames,
     DeleteUnlocks, DeleteRemoves, DeleteRefused
<1>3. CASE RestoreAction(w)
  BY <1>a, <1>3 DEF RestoreAction, RestoreOpens, RestoreLocks, RestoreChecks,
     RestoreConfirmed, RestoreWrites, RestoreReturns
<1>4. CASE Crash(w) BY <1>a, <1>4 DEF Crash
<1> QED BY <1>1, <1>2, <1>3, <1>4

\* A window that uses its set before and after a step, or neither before nor
\* after it, leaves the users of every set as they were ...
LEMMA SameUsersIf ==
  ASSUME TypeOK, NEW w \in Windows,
         \A v \in Windows \ {w} : step'[v] = step[v] /\ target'[v] = target[v],
         step'[w] \in Using <=> step[w] \in Using,
         step[w] \in Using => target'[w] = target[w]
  PROVE  SameUsers
BY DEF SameUsers, UsersOf, Using

\* ... one that stops using its set leaves it ...
LEMMA LeavesIf ==
  ASSUME TypeOK, NEW w \in Windows,
         \A v \in Windows \ {w} : step'[v] = step[v] /\ target'[v] = target[v],
         step[w] \in Using, step'[w] \notin Using
  PROVE  [s \in Sets |-> UsersOf(s)'] =
            [[s \in Sets |-> UsersOf(s)] EXCEPT ![target[w]] = @ \ {w}]
BY ZenonT(40) DEF UsersOf, Using

\* ... and one that starts to use a set joins its users.
LEMMA JoinsIf ==
  ASSUME TypeOK, NEW w \in Windows,
         \A v \in Windows \ {w} : step'[v] = step[v] /\ target'[v] = target[v],
         step[w] \notin Using, step'[w] \in Using
  PROVE  [s \in Sets |-> UsersOf(s)'] =
            [[s \in Sets |-> UsersOf(s)] EXCEPT ![target'[w]] = @ \cup {w}]
BY ZenonT(40) DEF UsersOf, Using

\* The steps that change neither the life of a set nor its users.
Quiet(w) ==
  \/ BackupLocks(w)
  \/ \E p \in Parts : BackupReads(w, p) \/ BackupReadFails(w, p) \/ RestoreWrites(w, p)
  \/ BackupStops(w) \/ BackupNames(w) \/ BackupRecords(w) \/ BackupUnlocks(w)
  \/ ManifestTruncated(w)
  \/ \E s \in Sets : DeleteChecks(w, s) \/ RestoreOpens(w, s)
  \/ DeleteOpens(w) \/ DeleteLocks(w) \/ DeleteUnlocks(w) \/ DeleteRemoves(w)
  \/ DeleteRefused(w) \/ RestoreLocks(w) \/ RestoreConfirmed(w)

LEMMA QuietLife ==
  ASSUME IInv, NEW w \in Windows, Quiet(w)
  PROVE  SameLife
<1>a. TypeOK BY DEF IInv
<1>b. step[w] \in BackupSteps =>
        /\ target[w] \in Sets /\ folder[target[w]] \in Paths
        /\ status[target[w]] \in Unfinished
  BY Works, <1>a DEF IInv, SaverInv, BackupSteps
<1>c. step[w] = "removing" => target[w] \in Sets /\ folder[target[w]] \in {"aside",
     "gone"}
  BY Works, <1>a DEF IInv, DeleterInv
<1>d. folder \in [Sets -> Places] /\ status \in [Sets -> Statuses] BY <1>a DEF TypeOK
<1>1. CASE BackupNames(w)
  BY <1>1, <1>b, <1>d DEF SameLife, Life, BackupNames, BackupSteps, Paths
<1>2. CASE ManifestTruncated(w)
  BY <1>2, <1>b, <1>d DEF SameLife, Life, ManifestTruncated, Writes, BackupSteps,
       Paths, Unfinished
<1>3. CASE DeleteRemoves(w)
  BY <1>3, <1>c, <1>d DEF SameLife, Life, DeleteRemoves, Paths
<1>4. folder' = folder /\ status' = status => SameLife BY DEF SameLife, Life
<1> QED
  BY <1>1, <1>2, <1>3, <1>4 DEF Quiet, disk, BackupLocks, BackupReads, BackupReadFails,
     RestoreWrites, BackupStops, BackupRecords, BackupUnlocks, DeleteChecks,
     RestoreOpens,
     DeleteOpens, DeleteLocks, DeleteUnlocks, DeleteRefused, RestoreLocks,
     RestoreConfirmed

LEMMA QuietUsers ==
  ASSUME IInv, NEW w \in Windows, Quiet(w)
  PROVE  SameUsers
<1>a. TypeOK BY DEF IInv
<1>b. /\ step \in [Windows -> {"idle"} \cup BackupSteps \cup DeleteSteps
                                 \cup RestoreSteps]
      /\ target \in [Windows -> Sets \cup {NoSet}]
  BY <1>a DEF TypeOK
<1>1. Quiet(w) => BackupAction(w) \/ DeleteAction(w) \/ RestoreAction(w)
  BY DEF Quiet, BackupAction, DeleteAction, RestoreAction
<1>2. \A v \in Windows \ {w} : step'[v] = step[v] /\ target'[v] = target[v]
  BY <1>a, <1>1, OneWindow
<1>3. step'[w] \in Using <=> step[w] \in Using
  BY <1>b DEF Quiet, Using, BackupSteps, Goes, Returns, Writes, NextParts, BackupLocks,
     BackupReads, BackupReadFails, RestoreWrites, BackupStops, BackupNames,
     BackupRecords,
     BackupUnlocks, ManifestTruncated, DeleteChecks, RestoreOpens, DeleteOpens,
     DeleteLocks,
     DeleteUnlocks, DeleteRemoves, DeleteRefused, RestoreLocks, RestoreConfirmed
<1>4. step[w] \in Using => target'[w] = target[w]
  BY <1>b DEF Quiet, Using, BackupSteps, BackupLocks, BackupReads, BackupReadFails,
     RestoreWrites, BackupStops, BackupNames, BackupRecords, BackupUnlocks,
     ManifestTruncated, DeleteChecks, RestoreOpens, DeleteOpens, DeleteLocks,
     DeleteUnlocks, DeleteRemoves, DeleteRefused, RestoreLocks, RestoreConfirmed
<1> QED BY <1>a, <1>2, <1>3, <1>4, SameUsersIf

\* A window that stops using its set, at whatever point, leaves it.
LEMMA LeaveStep ==
  ASSUME TypeOK, NEW w \in Windows,
         \A v \in Windows \ {w} : step'[v] = step[v] /\ target'[v] = target[v],
         step[w] \in Using, step'[w] \notin Using, SameLife
  PROVE  Promise!Leave(w, target[w])
<1>1. target[w] \in Sets BY Works DEF Using, BackupSteps
<1>2. w \in UsersOf(target[w]) BY DEF UsersOf, Using
<1>3. [s \in Sets |-> UsersOf(s)'] =
         [[s \in Sets |-> UsersOf(s)] EXCEPT ![target[w]] = @ \ {w}]
  BY LeavesIf
<1>4. [s \in Sets |-> Life(s)'] = [s \in Sets |-> Life(s)] BY DEF SameLife
<1> QED BY <1>1, <1>2, <1>3, <1>4 DEF Promise!Leave

\* Each step of a window is a step of SavedSets or changes nothing there.
LEMMA WindowRefines ==
  ASSUME IInv, NEW w \in Windows,
         BackupAction(w) \/ DeleteAction(w) \/ RestoreAction(w) \/ Crash(w)
  PROVE  (SameLife /\ SameUsers) \/ \E s \in Sets :
           \/ Promise!Delete(s)
           \/ Promise!Save(w, s) \/ Promise!Finish(w, s)
           \/ Promise!Use(w, s) \/ Promise!Leave(w, s)
<1>a. TypeOK BY DEF IInv
<1>b. /\ step \in [Windows -> {"idle"} \cup BackupSteps \cup DeleteSteps
                                 \cup RestoreSteps]
      /\ target \in [Windows -> Sets \cup {NoSet}]
      /\ folder \in [Sets -> Places] /\ status \in [Sets -> Statuses]
  BY <1>a DEF TypeOK
<1>c. \A v \in Windows \ {w} : step'[v] = step[v] /\ target'[v] = target[v]
  BY <1>a, OneWindow
<1>d. step[w] # "idle" => target[w] \in Sets BY <1>a, Works
<1>e. step[w] \in BackupSteps => /\ folder[target[w]] \in Paths
                                 /\ status[target[w]] \in Unfinished
  BY DEF IInv, SaverInv
<1>1. CASE Quiet(w) BY <1>1, QuietLife, QuietUsers
<1>2. ASSUME NEW s \in Sets, BackupStarts(w, s) PROVE Promise!Save(w, s)
  <2>1. /\ folder[s] = "none" /\ folder' = [folder EXCEPT ![s] = "tag"]
        /\ step[w] = "idle" /\ step'[w] = "begin" /\ target'[w] = s /\ status' = status
    BY <1>2, <1>b DEF BackupStarts, Goes
  <2>2. status[s] = "none" /\ \A v \in Windows : target[v] # s
    <3>1. SaverInv BY DEF IInv
    <3>2. status[s] = "none" BY <2>1, <3>1 DEF SaverInv
    <3>3. \A v \in Windows : target[v] # s BY <2>1, <3>1, Zenon DEF SaverInv
    <3> QED BY <3>2, <3>3
  <2>3. Life(s) = "none" BY <2>1 DEF Life, Paths
  <2>4. [t \in Sets |-> Life(t)'] = [[t \in Sets |-> Life(t)] EXCEPT ![s] = "saving"]
    BY <1>b, <2>1, <2>2 DEF Life, Paths
  <2>5. [t \in Sets |-> UsersOf(t)'] =
           [[t \in Sets |-> UsersOf(t)] EXCEPT ![target'[w]] = @ \cup {w}]
    BY <1>a, <1>c, <2>1, JoinsIf DEF Using, BackupSteps
  <2>6. UsersOf(s) = {} BY <2>2 DEF UsersOf
  <2>7. [t \in Sets |-> UsersOf(t)'] = [[t \in Sets |-> UsersOf(t)] EXCEPT ![s] = {w}]
    BY <2>1, <2>5, <2>6
  <2> QED BY <2>3, <2>4, <2>7 DEF Promise!Save
<1>3. CASE ManifestWritten(w)
  <2>1. target[w] \in Sets /\ step[w] \in Using /\ step[w] \in BackupSteps
    BY <1>3, <1>d DEF ManifestWritten, Writes, Using, BackupSteps
  <2>2. folder' = folder BY <1>3 DEF ManifestWritten
  <2>3. CASE step[w] \in {"begin", "save"}
    <3>1. /\ status' = [status EXCEPT ![target[w]] = "reading"]
          /\ step'[w] \in {"lock", "reading"} /\ target' = target
      BY <1>3, <1>b, <2>3 DEF ManifestWritten, Goes
    <3>2. SameLife BY <1>b, <1>e, <2>1, <2>2, <3>1 DEF SameLife, Life, Unfinished, Paths
    <3>3. SameUsers BY <1>a, <1>c, <2>1, <3>1, SameUsersIf DEF Using, BackupSteps
    <3> QED BY <3>2, <3>3
  <2>4. CASE step[w] = "finish"
    <3>1. status' = [status EXCEPT ![target[w]] = result[w]] /\ step'[w] = "idle"
      BY <1>3, <1>b, <2>4 DEF ManifestWritten, Returns, Goes
    <3>2. result[w] \in Ends BY <2>4 DEF IInv, NonEmptyInv
    <3>3. PICK end \in {"complete", "partial"} :
            end = IF result[w] = "complete" THEN "complete" ELSE "partial"
      OBVIOUS
    <3>4. [t \in Sets |-> Life(t)'] = [[t \in Sets |-> Life(t)] EXCEPT ![target[w]] = end]
      BY <1>b, <1>e, <2>1, <2>2, <3>1, <3>2, <3>3 DEF Life, Paths, Ends
    <3>5. Life(target[w]) = "saving"
      BY <1>e, <2>1 DEF Life, Paths, Unfinished
    <3>6. w \in UsersOf(target[w]) BY <2>1 DEF UsersOf, Using
    <3>7. [t \in Sets |-> UsersOf(t)'] =
             [[t \in Sets |-> UsersOf(t)] EXCEPT ![target[w]] = @ \ {w}]
      BY <1>a, <1>c, <2>1, <3>1, LeavesIf DEF Using, BackupSteps
    <3>8. Promise!Finish(w, target[w])
      BY <2>1, <3>4, <3>5, <3>6, <3>7 DEF Promise!Finish
    <3> QED BY <2>1, <3>8
  <2> QED BY <1>3, <2>3, <2>4 DEF ManifestWritten
<1>4. CASE ManifestFails(w)
  <2>1. target[w] \in Sets /\ step[w] \in Using
    BY <1>4, <1>d DEF ManifestFails, Writes, Using, BackupSteps
  <2>2. folder' = folder /\ status' = status BY <1>4 DEF ManifestFails, disk
  <2>3. SameLife BY <2>2 DEF SameLife, Life
  <2>4. step'[w] = "idle" \/ (step'[w] \in {"unlock", "finish"} /\ target' = target)
    BY <1>4, <1>b DEF ManifestFails, Returns, Goes
  <2>5. CASE step'[w] = "idle"
    BY <1>a, <1>c, <2>1, <2>3, <2>5, LeaveStep DEF Using, BackupSteps
  <2>6. CASE step'[w] \in {"unlock", "finish"} /\ target' = target
    <3>1. SameUsers BY <1>a, <1>c, <2>1, <2>6, SameUsersIf DEF Using, BackupSteps
    <3> QED BY <2>3, <3>1
  <2> QED BY <2>4, <2>5, <2>6
<1>5. CASE RestoreChecks(w)
  <2>1. /\ step[w] = "shared" /\ step'[w] = "review" /\ target' = target
        /\ folder' = folder /\ status' = status /\ target[w] \in Sets
        /\ status[target[w]] = "complete" /\ folder[target[w]] = at[w]
    BY <1>5, <1>b, <1>d DEF RestoreChecks, Checked, Goes, disk
  <2>2. SameLife BY <2>1 DEF SameLife, Life
  <2>3. Life(target[w]) = "complete"
    <3>1. at[w] \in Paths \cup {"none"} BY <1>a DEF TypeOK
    <3>2. folder[target[w]] # "none" BY <2>1 DEF IInv, SaverInv
    <3> QED BY <2>1, <3>1, <3>2 DEF Life, Paths
  <2>4. [t \in Sets |-> UsersOf(t)'] =
           [[t \in Sets |-> UsersOf(t)] EXCEPT ![target'[w]] = @ \cup {w}]
    BY <1>a, <1>c, <2>1, JoinsIf DEF Using, BackupSteps
  <2>5. [t \in Sets |-> Life(t)'] = [t \in Sets |-> Life(t)] BY <2>2 DEF SameLife
  <2>6. Promise!Use(w, target[w]) BY <2>1, <2>3, <2>4, <2>5 DEF Promise!Use
  <2> QED BY <2>1, <2>6
<1>6. CASE RestoreReturns(w) \/ Crash(w)
  <2>1. step'[w] = "idle" /\ folder' = folder /\ status' = status /\ step[w] # "idle"
    BY <1>6, <1>b DEF RestoreReturns, Crash, Returns, Goes, disk, RestoreSteps
  <2>2. SameLife BY <2>1 DEF SameLife, Life
  <2>3. CASE step[w] \in Using
    BY <1>a, <1>c, <1>d, <2>1, <2>2, <2>3, LeaveStep DEF Using, BackupSteps
  <2>4. CASE step[w] \notin Using
    <3>1. SameUsers BY <1>a, <1>c, <2>1, <2>4, SameUsersIf DEF Using, BackupSteps
    <3> QED BY <2>2, <3>1
  <2> QED BY <2>3, <2>4
<1>7. CASE DeleteRenames(w)
  <2>1. /\ step[w] = "held" /\ step'[w] = "renamed" /\ target' = target
        /\ target[w] \in Sets /\ folder[target[w]] = at[w] /\ status' = status
        /\ folder' = [folder EXCEPT ![target[w]] = "aside"]
    BY <1>7, <1>b, <1>d DEF DeleteRenames, Goes
  <2>2. status[target[w]] \in Ends BY <2>1 DEF IInv, DeleterInv, DeleteSteps
  <2>3. folder[target[w]] \in Paths
    <3>1. at[w] \in Paths \cup {"none"} BY <1>a DEF TypeOK
    <3>2. folder[target[w]] # "none" BY <2>1 DEF IInv, SaverInv
    <3> QED BY <2>1, <3>1, <3>2
  <2>4. Life(target[w]) \in {"complete", "partial"}
    BY <2>2, <2>3 DEF Life, Paths, Ends
  <2>5. UsersOf(target[w]) = {}
    <3> SUFFICES ASSUME NEW v \in Windows, target[v] = target[w],
                        step[v] \in BackupSteps \cup {"review", "writing"}
                 PROVE  FALSE
      BY DEF UsersOf
    <3>1. CASE step[v] \in BackupSteps
      BY <2>2, <3>1 DEF IInv, SaverInv, Unfinished, Ends
    <3>2. CASE step[v] \in {"review", "writing"}
      <4>1. v \in shared[target[w]] BY <3>2 DEF IInv, LockInv, HoldsShared
      <4>2. w \in exclusive[target[w]] BY <2>1 DEF IInv, LockInv, HoldsExclusive
      <4> QED BY <2>1, <4>1, <4>2 DEF IInv, LockInv
    <3> QED BY <3>1, <3>2
  <2>6. [t \in Sets |-> Life(t)'] = [[t \in Sets |-> Life(t)] EXCEPT ![target[w]] = "deleted"]
    <3>1. \A t \in Sets \ {target[w]} : folder'[t] = folder[t] BY <1>b, <2>1
    <3>2. \A t \in Sets \ {target[w]} : Life(t)' = Life(t) BY <2>1, <3>1 DEF Life
    <3>3. folder'[target[w]] = "aside" BY <1>b, <2>1
    <3>4. \A t \in Sets : t = target[w] => Life(t)' = "deleted"
      BY <3>3 DEF Life, Paths
    <3> QED BY <2>1, <3>2, <3>4
  <2>7. SameUsers BY <1>a, <1>c, <2>1, SameUsersIf DEF Using, BackupSteps
  <2>8. [t \in Sets |-> UsersOf(t)'] = [t \in Sets |-> UsersOf(t)] BY <2>7 DEF SameUsers
  <2>9. Promise!Delete(target[w]) BY <2>1, <2>4, <2>5, <2>6, <2>8 DEF Promise!Delete
  <2> QED BY <2>1, <2>9
<1> QED
  BY <1>1, <1>2, <1>3, <1>4, <1>5, <1>6, <1>7
  DEF BackupAction, DeleteAction, RestoreAction, Quiet

LEMMA InitRefines == Init => Promise!Init
BY DEF Init, Promise!Init, Life, UsersOf, BackupSteps, Paths

LEMMA StepRefines == IInv /\ [Next]_vars => [Promise!Next]_(Promise!vars)
<1> SUFFICES ASSUME IInv, [Next]_vars PROVE [Promise!Next]_(Promise!vars) OBVIOUS
<1>1. CASE UNCHANGED vars
  BY <1>1 DEF vars, disk, Promise!vars, Life, UsersOf
<1>2. ASSUME NEW w \in Windows,
             BackupAction(w) \/ DeleteAction(w) \/ RestoreAction(w) \/ Crash(w)
      PROVE  [Promise!Next]_(Promise!vars)
  <2>1. CASE SameLife /\ SameUsers BY <2>1 DEF SameLife, SameUsers, Promise!vars
  <2>2. ASSUME NEW s \in Sets,
               \/ Promise!Delete(s) \/ Promise!Save(w, s) \/ Promise!Finish(w, s)
               \/ Promise!Use(w, s) \/ Promise!Leave(w, s)
        PROVE  Promise!Next
    BY <2>2 DEF Promise!Next
  <2> QED BY <1>2, <2>1, <2>2, WindowRefines
<1> QED BY <1>1, <1>2 DEF Next

\* The store keeps its promise: whatever windows are open and wherever they
\* stop, a set is deleted only after it ended and while no window saves it or
\* restores from it, and it never comes back.
THEOREM BackupImplementsSavedSets == Spec => ImplementsSavedSets
BY InitRefines, StepRefines, BackupInvariant, PTL
   DEF Spec, ImplementsSavedSets, Promise!Spec
=============================================================================
