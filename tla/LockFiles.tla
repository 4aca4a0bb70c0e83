------------------------------ MODULE LockFiles -------------------------------
(***************************************************************************)
(* The lock files of jibo_hosted_updates.py: one is created exclusively,   *)
(* and deleted by whoever created it.  A killed toolkit leaves its lock    *)
(* files behind; nobody but the user deletes those.                        *)
(***************************************************************************)
CONSTANTS
  Windows,   \* the toolkits that run on this computer
  NoOne,     \* nobody holds a lock
  Dead       \* a lock file whose owner was killed

ASSUME OwnersAssumption == NoOne \notin Windows /\ Dead \notin Windows /\ NoOne # Dead

Owners == Windows \cup {NoOne, Dead}
LeftBy(w, lock) == IF lock = w THEN Dead ELSE lock
=============================================================================
