------------------------------ MODULE SavedSets ------------------------------
(***************************************************************************)
(* What the backup store of the toolkit promises of each saved set.  A set *)
(* is saved once, by one window; it ends complete or partial; windows may  *)
(* restore from it only once it is complete; and it may be deleted only    *)
(* when it has ended and no window uses it.  A deleted set never returns.  *)
(* A window may stop at any time, and then uses nothing.                   *)
(***************************************************************************)
EXTENDS FiniteSets

CONSTANTS
  Windows,   \* the toolkit windows (processes) open on this computer
  Sets       \* the backup sets that may ever be made

VARIABLES
  life,      \* life[s]: "none", "saving", "complete", "partial" or "deleted"
  users      \* users[s]: the windows saving set s or restoring from it

vars == <<life, users>>

Init ==
  /\ life = [s \in Sets |-> "none"]
  /\ users = [s \in Sets |-> {}]

Save(w, s) ==
  /\ life[s] = "none"
  /\ life' = [life EXCEPT ![s] = "saving"]
  /\ users' = [users EXCEPT ![s] = {w}]

Finish(w, s) ==
  /\ life[s] = "saving" /\ w \in users[s]
  /\ \E end \in {"complete", "partial"} : life' = [life EXCEPT ![s] = end]
  /\ users' = [users EXCEPT ![s] = @ \ {w}]

Use(w, s) ==
  /\ life[s] = "complete"
  /\ users' = [users EXCEPT ![s] = @ \cup {w}]
  /\ UNCHANGED life

Leave(w, s) ==
  /\ w \in users[s]
  /\ users' = [users EXCEPT ![s] = @ \ {w}]
  /\ UNCHANGED life

Delete(s) ==
  /\ life[s] \in {"complete", "partial"} /\ users[s] = {}
  /\ life' = [life EXCEPT ![s] = "deleted"]
  /\ UNCHANGED users

Next ==
  \E s \in Sets :
    \/ Delete(s)
    \/ \E w \in Windows : Save(w, s) \/ Finish(w, s) \/ Use(w, s) \/ Leave(w, s)

Spec == Init /\ [][Next]_vars
=============================================================================
