------------------------------- MODULE TextMenu -------------------------------
(***************************************************************************)
(* The text menu (jibo_tui.py) and the command line (jibo_dfu.py, main)    *)
(* over the three things every operation is made of: waiting for the       *)
(* loader (DfuEntry), reading its marker (MarkerProbe) and editing a var   *)
(* image (VarImageEdit).  Transfers are one step here; what they do to the *)
(* robot is in RobotWrites and FileTransaction.                            *)
(*                                                                         *)
(* What the toolkit still has to do is a sequence of prompts and steps;    *)
(* its head decides what happens next, an answer puts others in its place. *)
(***************************************************************************)
EXTENDS DfuEntry, MarkerProbe, VarImageEdit

VARIABLES
  pc,       \* "shell", "looking", "home", "act" or "result"
  front,    \* "menu" or "cli"
  wants,    \* the action chosen, to be rechecked, or "none"
  seen,     \* what the last look found (Readiness)
  todo,     \* the prompts and steps still to come
  leaving,  \* the user only wants to get out
  handle    \* the robot the probe opened is still there

ownVars == <<pc, front, wants, seen, todo, leaving, handle>>
vars == <<ownVars, entryVars, probeVars, editVars>>

Nothing == [state |-> "none", names |-> {}]

-----------------------------------------------------------------------------
(* What the operations are made of.                                        *)
Check == <<"context", "probe">>
Shared == Check    \* what the robot shares over USB
Full == Check \o <<"read", "change", "review", "write">>
Quick == Check \o <<"files", "review", "send">>
Read == Check \o <<"read">>
Restore == <<"partitions">> \o Check \o <<"review", "write">>
Flash == Check \o <<"review", "write">>

ReadyIn(s) == s.state = "dfu" /\ Whole \subseteq s.names
CanEditFiles == ReadyIn(seen) /\ "file" \in seen.names

Offered(s) ==
  {"backups", "tools"}
  \cup (IF s.state = "rcm, helper" THEN {"enter"} ELSE {})
  \cup (IF ReadyIn(s) THEN {"setup"} ELSE {})
  \cup (IF ReadyIn(s) /\ "system" \in s.names THEN {"flash"} ELSE {})

MenuActions == {"backups", "tools", "enter", "setup", "flash"}

Opened(a) ==
  CASE a = "enter" -> <<"confirm", "entry">>
    [] a = "setup" -> <<"mode and wifi">>
    [] a = "flash" -> <<"package", "policy">> \o Flash
    [] OTHER -> <<a>>

BackupActions ==
  {<<"saved">>}
  \cup (IF ReadyIn(seen)
        THEN {Shared \o <<"start">> \o Read, Shared \o <<"partitions", "start">> \o Read,
              Shared \o <<"sets">> \o Restore, Read}
        ELSE {})

MoreTools ==
  {<<"path", "inspect">>, <<"offline">>}
  \cup (IF ReadyIn(seen)
        THEN {<<"mode", "edit">>, <<"ssid", "kind", "edit">>, Check,
              <<"path">> \o Check \o <<"read", "review", "write">>, Full}
        ELSE {})

CliFlows ==
  {<<"entry">>, Check, Read, Shared \o Read, Flash, <<"inspect">>, <<"change">>, <<"live">>,
   Full, Check \o <<"files">>, Quick, Check \o <<"read", "review", "write">>}

-----------------------------------------------------------------------------
(* Mutations, each a slip the code could have made (see PROJECT.json).     *)
StaysOpen(step, rest) ==      \* Back in the details shows the details again
  IF step = "details" THEN <<step>> \o rest
  ELSE IF step = "confirm delete" THEN rest ELSE <<>>

-----------------------------------------------------------------------------
Prompts ==
  {"confirm", "mode and wifi", "mode", "ssid", "kind", "password", "repeat", "again", "boot",
   "instead", "package", "policy", "unsafe", "review", "start", "partitions", "sets", "folder",
   "list", "blind list", "details", "confirm delete", "path", "offline", "backups", "tools"}

(* What may come next when the user answers a prompt.                      *)
PasswordAnswered(step, rest) ==
  CASE step = "kind" -> {rest, <<"password">> \o rest}
    [] step = "password" -> {<<"repeat">> \o rest}
    [] step = "repeat" -> {rest, <<"again">> \o rest}       \* they differ
    [] step = "again" -> {<<"password">> \o rest}

ModeAnswered == {<<"ssid", "kind", "edit">>, <<"ssid", "kind", "boot">>}

BootAnswered == {<<"edit">>, Full}

UpdateAnswered(rest) == {rest, <<"unsafe">> \o rest}

FolderAnswered(rest) == {rest, <<>>}

SetAnswered(rest) == {rest, <<"folder">> \o rest, <<>>}

DetailAnswered(rest) ==
  {<<"details">> \o rest, <<"confirm delete", "details">> \o rest}
  \cup (IF rest = <<"list">> THEN {Restore} ELSE {})

OfflineAnswered ==
  {<<"path", "mode", "change">>, <<"path", "ssid", "kind", "change">>, <<"path", "inspect">>}

Answered(step, rest) ==
  CASE step \in {"kind", "password", "repeat", "again"} -> PasswordAnswered(step, rest)
    [] step = "mode and wifi" -> ModeAnswered
    [] step = "boot" -> BootAnswered
    [] step = "instead" -> {Full}
    [] step = "policy" -> UpdateAnswered(rest)
    [] step = "sets" -> SetAnswered(rest)
    [] step = "folder" -> FolderAnswered(rest)
    [] step \in {"list", "blind list"} -> {<<"details", step>>, <<>>}
    [] step = "details" -> DetailAnswered(rest)
    [] step = "confirm delete" -> {<<>>}
    [] step = "backups" -> BackupActions
    [] step = "tools" -> MoreTools
    [] step = "offline" -> OfflineAnswered
    [] OTHER -> {rest}

(* Esc, or Cancel: Back for the details of a backup, the end elsewhere.    *)
CancelledAt(step, rest) ==
  IF step \in {"details", "confirm delete"} THEN rest ELSE <<>>

(* Steps that only say how to go on.                                       *)
Decisions == {"edit", "saved"}

Decided(step) ==
  CASE step = "edit" -> IF CanEditFiles THEN Quick ELSE Full
    [] step = "saved" -> IF ReadyIn(seen) THEN Shared \o <<"list">> ELSE <<"blind list">>

Transfers == {"read", "write", "files", "send"}

-----------------------------------------------------------------------------
Init ==
  /\ EntryInit /\ ProbeInit /\ EditInit
  /\ pc = "shell" /\ front = "menu" /\ wants = "none" /\ seen = Nothing
  /\ todo = <<>> /\ leaving = FALSE /\ handle = FALSE

Idle == stage = "off" /\ probe = "off" /\ edit = "off"
At(step) == pc = "act" /\ todo # <<>> /\ Head(todo) = step

(* The operation goes on with the rest, or it is over: a screen tells the  *)
(* result in the menu, a line on the command line.                         *)
GoesOn(rest) ==
  /\ todo' = rest
  /\ IF rest # <<>>
     THEN UNCHANGED <<pc, seen, leaving>>
     ELSE /\ pc' = IF front = "cli" THEN "shell" ELSE "result"
          /\ seen' = Nothing
          /\ leaving' = IF front = "cli" THEN FALSE ELSE leaving
  /\ UNCHANGED <<front, wants>>

(* An exception ends the operation; the saved backups can be listed        *)
(* without the robot.                                                      *)
Raised == GoesOn(IF todo[Len(todo)] = "list" THEN <<"blind list">> ELSE <<>>)

OnlyOwn == UNCHANGED <<entryVars, probeVars, editVars>>

-----------------------------------------------------------------------------
MenuStarts ==
  /\ pc = "shell"
  /\ pc' = "looking" /\ front' = "menu"
  /\ UNCHANGED <<wants, seen, todo, leaving, handle>> /\ OnlyOwn

CliStarts ==
  /\ pc = "shell"
  /\ pc' = "act" /\ front' = "cli" /\ todo' \in CliFlows
  /\ UNCHANGED <<wants, seen, leaving, handle>> /\ OnlyOwn

(* After 1.5 s without a key, for r, and for Enter before the action.      *)
Refreshes ==
  /\ pc = "home"
  /\ pc' = "looking" /\ wants' \in {"none"} \cup Offered(seen)
  /\ UNCHANGED <<front, seen, todo, leaving, handle>> /\ OnlyOwn

Quits ==
  /\ pc = "home"
  /\ pc' = "shell" /\ seen' = Nothing
  /\ UNCHANGED <<front, wants, todo, leaving, handle>> /\ OnlyOwn

(* inspect_readiness; the action chosen opens if it is still offered.      *)
Found(s) ==
  /\ IF wants \in Offered(s)
     THEN pc' = "act" /\ todo' = Opened(wants)
     ELSE pc' = "home" /\ UNCHANGED todo
  /\ seen' = s /\ wants' = "none" /\ leaving' = FALSE
  /\ UNCHANGED <<front, handle>>

InRcm(helper) == [state |-> IF helper THEN "rcm, helper" ELSE "rcm", names |-> {}]

(* A robot alone at another port is followed no further.                   *)
LooksAtPort ==
  /\ pc = "looking" /\ stage = "off"
  /\ \/ bus = "none" /\ ~others /\ Found(Nothing)
     \/ bus # "none" /\ others /\ Found([state |-> "multiple", names |-> {}])
     \/ bus = "rcm" /\ ~others /\ \E helper \in BOOLEAN : Found(InRcm(helper))
     \/ bus = "none" /\ others /\ Found(InRcm(FALSE))
  /\ OnlyOwn

LooksAtLoader ==
  /\ pc = "looking" /\ bus = "dfu" /\ ~others
  /\ InspectLists
  /\ UNCHANGED <<ownVars, probeVars, editVars>>

LoaderSeen ==
  /\ pc = "looking" /\ stage = "done"
  /\ Found([state |-> "dfu", names |-> names]) /\ WaitOver
  /\ UNCHANGED <<busVars, probeVars, editVars>>

-----------------------------------------------------------------------------
Picks ==
  /\ pc = "act" /\ Idle /\ todo # <<>> /\ Head(todo) \in Prompts /\ ~leaving
  /\ \E next \in Answered(Head(todo), Tail(todo)) : GoesOn(next)
  /\ UNCHANGED handle /\ OnlyOwn

Cancels ==
  /\ pc = "act" /\ Idle /\ todo # <<>> /\ Head(todo) \in Prompts
  /\ GoesOn(CancelledAt(Head(todo), Tail(todo)))
  /\ UNCHANGED handle /\ OnlyOwn

(* Ctrl-C, at a prompt and in the menu itself.                             *)
PromptCut ==
  /\ pc = "act" /\ Idle /\ todo # <<>> /\ Head(todo) \in Prompts
  /\ GoesOn(<<>>)
  /\ UNCHANGED handle /\ OnlyOwn

MenuCut ==
  /\ pc = "looking"
  /\ pc' = "shell" /\ wants' = "none" /\ seen' = Nothing /\ leaving' = FALSE
  /\ IF stage = "off" THEN UNCHANGED waitVars ELSE WaitOver
  /\ UNCHANGED <<front, todo, handle, busVars, probeVars, editVars>>

Decides ==
  /\ pc = "act" /\ todo # <<>> /\ Head(todo) \in Decisions
  /\ GoesOn(Decided(Head(todo)))
  /\ UNCHANGED handle /\ OnlyOwn

Dismisses ==
  /\ pc = "result"
  /\ pc' = "looking"
  /\ UNCHANGED <<front, wants, seen, todo, leaving, handle>> /\ OnlyOwn

(* From here on the user only wants to get back.                           *)
WantsOut ==
  /\ pc = "act" /\ ~leaving /\ leaving' = TRUE
  /\ UNCHANGED <<pc, front, wants, seen, todo, handle>> /\ OnlyOwn

-----------------------------------------------------------------------------
(* The steps of an operation.  On the command line the port may be left    *)
(* out; the menu gives the one it saw.                                     *)
ByPort == {TRUE} \cup (IF front = "cli" THEN {FALSE} ELSE {})

WaitBegins ==
  /\ Idle
  /\ \E byPort \in ByPort :
       \/ At("entry") /\ EntryBegins(byPort)
       \/ (At("context") \/ At("live")) /\ ContextBegins(byPort)
  /\ UNCHANGED <<ownVars, probeVars, editVars>>

WaitGoesOn ==
  /\ pc \in {"act", "looking"} /\ WaitStep
  /\ UNCHANGED <<ownVars, probeVars, editVars>>

WaitEnds ==
  /\ pc = "act" /\ WaitOver
  /\ \/ stage = "done" /\ At("entry") /\ front = "menu"    \* no screen for this one
        /\ pc' = "looking" /\ todo' = <<>> /\ seen' = Nothing
        /\ UNCHANGED <<front, wants, leaving>>
     \/ stage = "done" /\ At("live") /\ GoesOn(IF "file" \in names THEN Quick ELSE Full)
     \/ stage = "done" /\ ~At("live") /\ ~(At("entry") /\ front = "menu")
        /\ GoesOn(Tail(todo))
     \/ stage = "failed" /\ Raised
  /\ UNCHANGED <<handle, busVars, probeVars, editVars>>

(* Ctrl-C while it waits; a child that runs is killed with it.             *)
WaitCut ==
  /\ pc = "act" /\ stage \notin {"off", "done", "failed"}
  /\ WaitOver /\ GoesOn(<<>>)
  /\ UNCHANGED <<handle, busVars, probeVars, editVars>>

OnPort == bus = "dfu"
MarkerListed == "marker" \in alts

ProbeBegins ==
  /\ Idle /\ At("probe")
  /\ ProbeOpens(OnPort /\ MarkerListed)
  /\ handle' = (probe' = "upload")
  /\ UNCHANGED <<pc, front, wants, seen, todo, leaving, entryVars, editVars>>

Probes ==
  /\ ProbeStep(handle)
  /\ UNCHANGED <<ownVars, entryVars, editVars>>

ProbeReturns ==
  /\ probe \in {"done", "failed"}
  /\ ProbeOver /\ handle' = FALSE
  /\ IF probe = "done" THEN GoesOn(Tail(todo)) ELSE Raised \/ GoesOn(<<>>)
  /\ UNCHANGED <<entryVars, editVars>>

-----------------------------------------------------------------------------
(* A change of an image: of the copy just read, in its own folder, or of a *)
(* file the user names.                                                    *)
OfTheRobot == Tail(todo) # <<>>

ChangeBegins ==
  /\ Idle /\ At("change")
  /\ EditBegins(IF OfTheRobot THEN Kinds ELSE Kinds \ {"both", "all"}, OfTheRobot)
  /\ UNCHANGED <<ownVars, entryVars, probeVars>>

Changes ==
  /\ EditStep
  /\ UNCHANGED <<ownVars, entryVars, probeVars>>

ChangeCut ==
  /\ EditCut
  /\ UNCHANGED <<ownVars, entryVars, probeVars>>

ChangeReturns ==
  /\ edit \in {"edited", "failed", "stuck", "refused", "cut"}
  /\ EditOver(OfTheRobot)
  /\ IF edit = "edited" THEN GoesOn(Tail(todo)) ELSE GoesOn(<<>>)
  /\ UNCHANGED <<handle, entryVars, probeVars>>

(* The user takes the file away.                                           *)
OutputRemoved ==
  /\ edit = "off" /\ copy.there /\ copy' = NoFile
  /\ UNCHANGED <<edit, kind, left, ownVars, entryVars, probeVars>>

-----------------------------------------------------------------------------
(* dfu-util and the pipeline end or are killed when their time is up, and  *)
(* terminated on Ctrl-C; either may leave the interface in mid-transfer.   *)
TransferEnds ==
  /\ pc = "act" /\ Idle /\ todo # <<>> /\ Head(todo) \in Transfers
  /\ \/ bus = "dfu" /\ LeftBy({"idle"}) /\ GoesOn(Tail(todo))
     \/ bus = "dfu" /\ LeftBy({marker.state, "upload_idle", "dnload_idle", "error"})
        /\ GoesOn(<<>>)
     \/ bus # "dfu" /\ UNCHANGED probeVars /\ GoesOn(<<>>)
     \/ bus = "dfu" /\ Head(todo) \in {"files", "send"} /\ front = "menu"   \* status 3 or 4
        /\ LeftBy({"idle"}) /\ GoesOn(<<"instead">>)
  /\ UNCHANGED <<handle, entryVars, editVars>>

Inspected ==
  /\ At("inspect") /\ GoesOn(<<>>)
  /\ UNCHANGED handle /\ OnlyOwn

-----------------------------------------------------------------------------
(* The robot and its cable; a robot that left took its loader with it.     *)
RobotChanges ==
  /\ PortChanges /\ LoaderRestarts
  /\ handle' = FALSE
  /\ UNCHANGED <<pc, front, wants, seen, todo, leaving, waitVars, editVars>>

ListsMore ==
  /\ MoreListed \/ OtherRobot
  /\ UNCHANGED <<ownVars, waitVars, probeVars, editVars>>

Toolkit ==
  \/ LooksAtPort \/ LooksAtLoader \/ LoaderSeen \/ Decides
  \/ WaitBegins \/ WaitGoesOn \/ WaitEnds
  \/ ProbeBegins \/ Probes \/ ProbeReturns
  \/ ChangeBegins \/ Changes \/ ChangeReturns
  \/ TransferEnds \/ Inspected

User ==
  \/ MenuStarts \/ CliStarts \/ Refreshes \/ Quits
  \/ Picks \/ Cancels \/ Dismisses \/ WantsOut
  \/ PromptCut \/ MenuCut \/ WaitCut \/ ChangeCut \/ OutputRemoved

Next == Toolkit \/ User \/ RobotChanges \/ ListsMore

(* What the toolkit does by itself it does in time; a user who wants out   *)
(* presses Esc, and a key for the last screen.                             *)
Fairness ==
  /\ WF_vars(Toolkit)
  /\ WF_vars(leaving /\ Cancels)
  /\ WF_vars(leaving /\ Dismisses)

Spec == Init /\ [][Next]_vars
FairSpec == Spec /\ Fairness

-----------------------------------------------------------------------------
(* A user who only presses Esc gets out of every operation, whatever the   *)
(* robot and the cable do meanwhile: back to the menu, or to the shell.    *)
MenuReturns == (pc = "act" /\ leaving) ~> pc \in {"home", "shell"}
=============================================================================
