--------------------------- MODULE FileTransaction ----------------------------
(***************************************************************************)
(* The file edits of jibo_dfu.py (FileTransaction and the calls that use   *)
(* it) against the mailboxes of the robots that may be at the port.  An    *)
(* edit reads all its files, has its plan reviewed, saves var if it        *)
(* touches var, then writes file after file: its record names the file,    *)
(* the mailbox replaces it, and it is read back.  Several windows edit at  *)
(* once; any may be killed, and its dfu-util may live on.                  *)
(***************************************************************************)
EXTENDS FileMailbox, FiniteSets

CONSTANTS
  Edits,      \* the edits: one transaction object each
  VarFiles,   \* the files on var; the others are on a system partition
  MaxTargets, \* bound: files that all edits together are for
  MaxFaults   \* bound: reboots, reloads and exchanges of robots

ASSUME VarFilesAssumption == VarFiles \subseteq Files
ASSUME BoundsAssumption == MaxTargets \in Nat /\ MaxFaults \in Nat

VARIABLES
  here,      \* the robot at the port
  pc, at,    \* where edit e is, and the file it is at
  waiting,   \* its request was sent, its answer is not read
  todo,      \* the files it is for
  mine,      \* the robot it began with
  plan,      \* plan[e][f]: what f held, on which robot, and what it shall hold
  agreed,    \* the edits whose plan was confirmed
  baseline,  \* baseline[e]: the robot whose var was saved for it, or none
  readback,  \* what the last file was read back as
  disk,      \* disk[e]: its record: a status, and an entry for each file
  torn,      \* the edits killed while they rewrote their record
  adrift,    \* edits killed while dfu-util was to send a replacement
  touched,   \* touched[e]: files, each of a robot, that it changed
  faults,
  boots      \* how often a robot was booted and used

hostVars == <<pc, at, waiting, todo, mine, plan, agreed, baseline, readback, disk>>
crashVars == <<torn, adrift>>
ghosts == <<touched, faults, boots>>
vars == <<mailVars, here, hostVars, crashVars, ghosts>>

NoFile == 0
Asking == {"stat", "read", "write", "reread", "restat"}
Blank == [f \in Files |-> "none"]
AnyBody == CHOOSE b \in Bodies : TRUE
First(S) == CHOOSE f \in S : \A g \in S : f <= g
Targets == UNION {{e} \X todo[e] : e \in Edits}
Later(e) == {f \in todo[e] : f > at[e]}

-----------------------------------------------------------------------------
(* Mutations, each a slip the code could have made (see PROJECT.json).     *)
EveryLater(e) == {f \in Files : f > at[e]}               \* files of no edit as well
EvenIfWrong(e) == "next"                                 \* goes on after a mismatch
OnlyVerified(e) ==                                       \* forgets the one in doubt
  \E f \in Files : disk[e].entry[f] = "verified"
NotSavedAtAll(e) == {}                                   \* var is not saved

-----------------------------------------------------------------------------
Init ==
  /\ file \in [Robots -> [Files -> {Whole(b) : b \in Bodies}]]
  /\ answer = [r \in Robots |-> NoAnswer] /\ poisoned = {}
  /\ here \in Robots
  /\ pc = [e \in Edits |-> "idle"] /\ at = [e \in Edits |-> NoFile]
  /\ waiting = [e \in Edits |-> FALSE]
  /\ todo = [e \in Edits |-> {}]
  /\ mine = [e \in Edits |-> here]
  /\ plan = [e \in Edits |-> [f \in Files |->
              [before |-> Whole(AnyBody), on |-> here, after |-> AnyBody]]]
  /\ agreed = {} /\ baseline = [e \in Edits |-> {}]
  /\ readback = [e \in Edits |-> Whole(AnyBody)]
  /\ disk = [e \in Edits |-> [status |-> "none", entry |-> Blank]]
  /\ torn = {} /\ adrift = {}
  /\ touched = [e \in Edits |-> {}]
  /\ faults = 0 /\ boots = 0

Goes(e, next) == pc' = [pc EXCEPT ![e] = next]
Records(e, status, entry) ==
  disk' = [disk EXCEPT ![e] = [status |-> status, entry |-> entry]]
Ends(e, status) == Goes(e, "end") /\ Records(e, status, disk[e].entry)

-----------------------------------------------------------------------------
(* One exchange with the mailbox at the port.                              *)

(* The nonce of a request is fresh: an edit is at a place only once.       *)
Nonce(e, stage) == <<e, stage, at[e]>>

Request(e, stage) ==
  [id |-> Nonce(e, stage), f |-> at[e],
   op |-> CASE stage \in {"stat", "restat"} -> "stat"
            [] stage \in {"read", "reread"} -> "read"
            [] stage = "write" -> "write",
   before |-> plan[e][at[e]].before, on |-> plan[e][at[e]].on, new |-> plan[e][at[e]].after]

(* The mailbox at the port runs the request, unless the power fails.       *)
Run(e, stage) ==
  LET q == Request(e, stage) IN
  /\ Serves(here, q) \/ CutShort(here, q)
  /\ touched' = IF file' = file THEN touched
                ELSE [touched EXCEPT ![e] = @ \cup {<<here, at[e]>>}]

Sent(e) ==
  /\ pc[e] \in Asking /\ ~waiting[e]
  /\ Run(e, pc[e])
  /\ waiting' = [waiting EXCEPT ![e] = TRUE]
  /\ UNCHANGED <<here, pc, at, todo, mine, plan, agreed, baseline, readback, disk, crashVars,
                 faults, boots>>

(* The answer to this very request, with a status of success.              *)
Answered(e) == waiting[e] /\ answer[here].ok /\ answer[here].id = Nonce(e, pc[e])
Value == answer[here].value

Collects(e) ==
  /\ Answered(e)
  /\ waiting' = [waiting EXCEPT ![e] = FALSE]
  /\ UNCHANGED <<mailVars, here, todo, mine, agreed, baseline, crashVars, ghosts>>

(* A transfer fails or takes too long, or brings no answer to this request.*)
ExchangeFails(e) ==
  /\ pc[e] \in Asking
  /\ waiting' = [waiting EXCEPT ![e] = FALSE]
  /\ Goes(e, "failing")
  /\ UNCHANGED <<mailVars, here, at, todo, mine, plan, agreed, baseline, readback, disk,
                 crashVars, ghosts>>

-----------------------------------------------------------------------------
(* Before the review nothing is written.                                   *)

(* The callers edit one file given by its path, the mode, or the network,  *)
(* the last with or without the mode and the start-up of Wi-Fi.            *)
Selections == (SUBSET Files) \ {{}}

Begins(e, S) ==
  /\ pc[e] = "idle"
  /\ Cardinality(S) + Cardinality(Targets) <= MaxTargets
  /\ todo' = [todo EXCEPT ![e] = S]
  /\ mine' = [mine EXCEPT ![e] = here]
  /\ at' = [at EXCEPT ![e] = First(S)]
  /\ Goes(e, "stat") /\ Records(e, "preparing", Blank)
  /\ UNCHANGED <<mailVars, here, waiting, plan, agreed, baseline, readback, crashVars,
                 ghosts>>

(* Files of one partition must be on one volume.                           *)
SamePartition(f, g) == f \in VarFiles <=> g \in VarFiles
OneVolume(e, f, r) ==
  \A g \in todo[e] : g < f /\ SamePartition(f, g) => SameVolume(plan[e][g].on, r)

StatRead(e) ==
  /\ pc[e] = "stat" /\ Collects(e)
  /\ IF OneVolume(e, at[e], here)
     THEN /\ plan' = [plan EXCEPT ![e][at[e]] = [@ EXCEPT !.before = Value, !.on = here]]
          /\ Goes(e, "read")
     ELSE Goes(e, "failing") /\ UNCHANGED plan
  /\ UNCHANGED <<at, readback, disk>>

(* The new content is given, or built from the one just read.              *)
Before(e) == plan[e][at[e]].before

FileRead(e) ==
  /\ pc[e] = "read" /\ Collects(e)
  /\ IF Value.len = Before(e).len
     THEN /\ \E c \in Bodies :
               plan' = [plan EXCEPT ![e][at[e]] = [@ EXCEPT !.before = Value, !.after = c]]
          /\ IF Later(e) = {} THEN Goes(e, "review") /\ UNCHANGED at
             ELSE Goes(e, "stat") /\ at' = [at EXCEPT ![e] = First(Later(e))]
     ELSE Goes(e, "failing") /\ UNCHANGED <<plan, at>>
  /\ UNCHANGED <<readback, disk>>

(* The files this edit is to change.                                       *)
Changes(e) == {f \in todo[e] : plan[e][f].before # Whole(plan[e][f].after)}

Reviews(e) ==
  /\ pc[e] = "review"
  /\ UNCHANGED <<mailVars, here, at, waiting, todo, mine, plan, baseline, readback, crashVars,
                 ghosts>>

AlreadyCurrent(e) ==
  /\ Reviews(e) /\ Changes(e) = {}
  /\ Ends(e, "already current") /\ UNCHANGED agreed

Declined(e) ==
  /\ Reviews(e) /\ Changes(e) # {}
  /\ Ends(e, "cancelled") /\ UNCHANGED agreed

Confirmed(e) ==
  /\ Reviews(e) /\ Changes(e) # {}
  /\ agreed' = agreed \cup {e}
  /\ Goes(e, "backup") /\ UNCHANGED disk

-----------------------------------------------------------------------------
(* Var is saved before it is written, or an older copy of the same robot's *)
(* var serves; other partitions are not saved.                             *)
BaselineOf(e) == IF todo[e] \cap VarFiles = {} THEN {} ELSE {here}

WritesBegin(e) ==
  /\ pc[e] = "backup"
  /\ todo[e] \cap VarFiles = {} \/ here = mine[e]
  /\ baseline' = [baseline EXCEPT ![e] = BaselineOf(e)]
  /\ at' = [at EXCEPT ![e] = NoFile]
  /\ Goes(e, "next") /\ Records(e, "write started", disk[e].entry)
  /\ UNCHANGED <<mailVars, here, waiting, todo, mine, plan, agreed, readback, crashVars,
                 ghosts>>

NotSaved(e) ==
  /\ pc[e] = "backup"
  /\ Goes(e, "failing")
  /\ UNCHANGED <<mailVars, here, at, waiting, todo, mine, plan, agreed, baseline, readback,
                 disk, crashVars, ghosts>>

-----------------------------------------------------------------------------
(* One file after the other: named in the record, replaced, read back.     *)
Left(e) == Changes(e) \cap Later(e)
Named(e, f) == [disk[e].entry EXCEPT ![f] = "started"]

Step(e) ==
  UNCHANGED <<mailVars, here, todo, mine, plan, agreed, baseline, crashVars, ghosts>>

FileNamed(e) ==
  /\ pc[e] = "next" /\ Left(e) # {}
  /\ at' = [at EXCEPT ![e] = First(Left(e))]
  /\ Records(e, "write started", Named(e, First(Left(e))))
  /\ Goes(e, "write")
  /\ Step(e) /\ UNCHANGED <<waiting, readback>>

Acknowledged(e) ==
  /\ pc[e] = "write" /\ Collects(e)
  /\ Goes(e, "reread")
  /\ UNCHANGED <<at, plan, readback, disk>>

FileReread(e) ==
  /\ pc[e] = "reread" /\ Collects(e)
  /\ readback' = [readback EXCEPT ![e] = Value]
  /\ Goes(e, "restat")
  /\ UNCHANGED <<at, plan, disk>>

(* Content, length and metadata are compared; a mismatch ends the edit.    *)
AsWritten(e) ==
  /\ readback[e] = Whole(plan[e][at[e]].after)
  /\ Value.len = readback[e].len
  /\ SameVolume(here, plan[e][at[e]].on)

AfterCheck(e) == IF AsWritten(e) THEN "next" ELSE "end"

FileChecked(e) ==
  /\ pc[e] = "restat" /\ Collects(e)
  /\ IF AsWritten(e)
     THEN Records(e, "write started", [disk[e].entry EXCEPT ![at[e]] = "verified"])
     ELSE Records(e, "verification failed", [disk[e].entry EXCEPT ![at[e]] = "mismatch"])
  /\ Goes(e, AfterCheck(e))
  /\ UNCHANGED <<at, plan, readback>>

AllVerified(e) ==
  /\ pc[e] = "next" /\ Left(e) = {}
  /\ Ends(e, "verified")
  /\ Step(e) /\ UNCHANGED <<at, waiting, readback>>

(* Whatever failed, the record says whether a write was begun.             *)
Started(e) == \E f \in Files : disk[e].entry[f] # "none"

FailureRecorded(e) ==
  /\ pc[e] = "failing"
  /\ Ends(e, IF Started(e) THEN "failed" ELSE "failed before write")
  /\ Step(e) /\ UNCHANGED <<at, waiting, readback>>

-----------------------------------------------------------------------------
(* Faults.                                                                 *)

(* The toolkit is killed; if it is just rewriting the record, that is cut  *)
(* short, and if it is about to send a replacement, dfu-util may live on.  *)
Rewriting(e) ==
  \/ pc[e] \in {"review", "backup", "next", "failing"}
  \/ pc[e] = "restat" /\ waiting[e]

Killed(e) ==
  /\ pc[e] \notin {"idle", "end"}
  /\ adrift' = IF pc[e] = "write" /\ ~waiting[e] THEN adrift \cup {e} ELSE adrift
  /\ Goes(e, "end")
  /\ waiting' = [waiting EXCEPT ![e] = FALSE]
  /\ \/ UNCHANGED torn
     \/ Rewriting(e) /\ torn' = torn \cup {e}
  /\ UNCHANGED <<mailVars, here, at, todo, mine, plan, agreed, baseline, readback, disk,
                 ghosts>>

LateRequest(e) ==
  /\ e \in adrift
  /\ Run(e, "write")
  /\ adrift' = adrift \ {e}
  /\ UNCHANGED <<here, hostVars, torn, faults, boots>>

Fault ==
  /\ faults < MaxFaults /\ faults' = faults + 1
  /\ UNCHANGED <<hostVars, crashVars, touched>>

PortExchanged == Fault /\ here' \in Robots \ {here} /\ UNCHANGED <<mailVars, boots>>
Rebooted(r) == Fault /\ RobotRuns(r) /\ boots' = boots + 1 /\ UNCHANGED here
LoaderLost(r) == Fault /\ Reloaded(r) /\ UNCHANGED <<here, boots>>

-----------------------------------------------------------------------------
Plans(e) ==
  \/ \E S \in Selections : Begins(e, S)
  \/ StatRead(e) \/ FileRead(e)
  \/ AlreadyCurrent(e) \/ Declined(e) \/ Confirmed(e)

Writes(e) ==
  \/ WritesBegin(e) \/ NotSaved(e)
  \/ FileNamed(e) \/ Acknowledged(e) \/ FileReread(e) \/ FileChecked(e)
  \/ AllVerified(e) \/ FailureRecorded(e)

Next ==
  \/ \E e \in Edits :
       Plans(e) \/ Sent(e) \/ ExchangeFails(e) \/ Writes(e) \/ Killed(e) \/ LateRequest(e)
  \/ PortExchanged \/ \E r \in Robots : Rebooted(r) \/ LoaderLost(r)

Spec == Init /\ [][Next]_vars

-----------------------------------------------------------------------------
(* Type correctness.                                                       *)
Statuses == {"none", "preparing", "already current", "cancelled", "write started",
             "verified", "verification failed", "failed", "failed before write"}

TypeOK ==
  /\ file \in [Robots -> [Files -> Cells]]
  /\ poisoned \subseteq Robots /\ here \in Robots
  /\ pc \in [Edits -> Asking \cup {"idle", "review", "backup", "next", "failing", "end"}]
  /\ at \in [Edits -> Files \cup {NoFile}]
  /\ waiting \in [Edits -> BOOLEAN]
  /\ todo \in [Edits -> SUBSET Files] /\ mine \in [Edits -> Robots]
  /\ plan \in [Edits -> [Files -> [before : Cells, on : Robots, after : Bodies]]]
  /\ agreed \subseteq Edits /\ baseline \in [Edits -> SUBSET Robots]
  /\ readback \in [Edits -> Cells]
  /\ disk \in [Edits -> [status : Statuses,
                        entry : [Files -> {"none", "started", "verified", "mismatch"}]]]
  /\ torn \subseteq Edits /\ adrift \subseteq Edits
  /\ touched \in [Edits -> SUBSET (Robots \X Files)]
  /\ faults \in 0 .. MaxFaults /\ boots \in Nat
  /\ \A r \in Robots :
       answer[r].ok => /\ answer[r].value \in Cells
                       /\ answer[r].id \in Edits \X Asking \X Files
  /\ \A e \in Edits : pc[e] \in Asking \/ e \in adrift => at[e] \in todo[e]

(* Every change of a file is one its user approved against exactly what    *)
(* the file then held, and the record on disk named the file before, also  *)
(* with several windows, a killed toolkit and requests that run late.      *)
NamedFiles(e) ==
  IF e \in torn THEN Files ELSE {f \in Files : disk[e].entry[f] # "none"}

Ledger == INSTANCE ReviewedEdits WITH
  None <- NoAnswer,
  shown <- [e \in Edits |-> [f \in Files |->
             IF e \in agreed /\ f \in Changes(e) THEN plan[e][f].before ELSE NoAnswer]],
  noted <- [e \in Edits |-> NamedFiles(e)]

OnlyAsReviewed == Ledger!Spec

(* A record that says nothing was written is right, and one that says all  *)
(* was verified names every change the user approved.                      *)
StatusTrue ==
  \A e \in Edits \ torn :
    /\ disk[e].status \in {"already current", "cancelled", "failed before write"} =>
         touched[e] = {}
    /\ disk[e].status = "verified" =>
         \A f \in Changes(e) : disk[e].entry[f] = "verified"

(* When an edit of several files goes wrong, at most one file is in doubt, *)
(* and it is the last one the record names: those before are verified and  *)
(* those behind are untouched.                                             *)
OneInDoubt ==
  \A e \in Edits, f, g \in Files :
    f < g /\ f \in Changes(e) /\ disk[e].entry[g] # "none" => disk[e].entry[f] = "verified"

(* A write to var is only begun with a copy of the var of the robot that   *)
(* the edit began with.                                                    *)
VarSavedFirst ==
  \A e \in Edits, r \in Robots, f \in VarFiles :
    <<r, f>> \in touched[e] => baseline[e] = {mine[e]}

(* The protocol's description promises a baseline of every partition that  *)
(* is written.                                                             *)
EveryPartitionSavedFirst ==
  \A e \in Edits : touched[e] # {} => baseline[e] # {}
=============================================================================
