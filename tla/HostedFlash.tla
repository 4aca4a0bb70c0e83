----------------------------- MODULE HostedFlash ------------------------------
(***************************************************************************)
(* The windows of one computer that look at the list of hosted images and  *)
(* download and flash the same one: the shared list of HostedCatalog and   *)
(* the folder of HostedDownload, with windows that are killed anywhere.    *)
(***************************************************************************)
EXTENDS HostedCatalog, HostedDownload

vars == <<catalogVars, downloadVars>>

Init == CatalogInit /\ DownloadInit

(* A window looks at the list, then flashes an image of it; the next flash *)
(* looks again.                                                            *)
Looks(w) ==
  /\ pc[w] = "idle" /\ CatalogSteps(w)
  /\ UNCHANGED downloadVars

Chooses(w) ==
  /\ at[w] = "out" /\ list[w] # NoList
  /\ Opens(w)
  /\ list' = [list EXCEPT ![w] = NoList]
  /\ UNCHANGED <<issued, index, mark, listLock, at, read, newest>>

Flashes(w) == DownloadSteps(w) /\ UNCHANGED catalogVars

Works(w) == Looks(w) \/ Chooses(w) \/ Flashes(w)

Issued == Published /\ UNCHANGED downloadVars

Killed(w) ==
  \/ DownloadKilled(w) /\ CatalogKilled(w)
  \/ /\ pc[w] = "idle" /\ at[w] # "out"
     /\ Accident /\ CatalogKilled(w)
     /\ UNCHANGED <<lock, disk, sessions, honest, clean>>

DiskDamaged == Damaged /\ UNCHANGED catalogVars

ListLockRemoved == ListLockReviewed /\ UNCHANGED downloadVars
LockRemoved == LockReviewed /\ UNCHANGED catalogVars
FolderCleared == FolderReviewed /\ UNCHANGED catalogVars

Next ==
  \/ \E w \in Windows : Works(w) \/ Killed(w)
  \/ Issued \/ DiskDamaged
  \/ ListLockRemoved \/ LockRemoved \/ FolderCleared

ListArrives(w) == Answered(w) /\ UNCHANGED downloadVars

(* A toolkit that runs goes on, and every transfer has a time limit.  The  *)
(* server can be reached now and then and the user tries again.  Nothing   *)
(* says that a user ever deletes a stale lock or a foreign folder.         *)
Spec ==
  /\ Init /\ [][Next]_vars
  /\ \A w \in Windows :
       /\ WF_vars(Flashes(w)) /\ SF_vars(Chooses(w))
       /\ WF_vars(Looks(w)) /\ SF_vars(ListArrives(w))

TypeOK == CatalogTypeOK /\ DownloadTypeOK

(* What the toolkit refuses until the user deletes it: the lock file of a *)
(* toolkit that was killed, and a folder that lacks its marker.            *)
Refusing == Dead \in {listLock, lock} \/ (lock = NoOne /\ folder = "bare")

(* Everything else heals by itself: partial files that are short, garbled  *)
(* or without a receipt, archives that fail their check, locks left inside *)
(* the folder, transfers cut off or refused, a list fetched halfway.  A    *)
(* user who tries again gets the image flashed, unless the toolkit refuses *)
(* for what only the user may delete.                                      *)
FlashedInTheEnd == []<>(Refusing \/ \E w \in Windows : pc[w] = "flashing")
=============================================================================
