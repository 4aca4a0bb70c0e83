--------------------------- MODULE GuiController ----------------------------
(***************************************************************************)
(* jibo_gui_core.GuiController: one robot session behind the window.  Three*)
(* threads meet here: Tk (starts actions, answers prompts, refreshes and   *)
(* closes), one background USB probe, and the worker of the one running    *)
(* action.  _lock guards the fields; _usb_lock is held over USB access.    *)
(*                                                                         *)
(* What the devices on USB look like is a version number: 0 is "nothing    *)
(* read yet".  The flow an action runs is any finite sequence of prompts,  *)
(* cancellable work, reads and, behind an approved review, writes.         *)
(***************************************************************************)
EXTENDS Naturals

CONSTANTS
  Hosted,         \* the installs of a hosted image are among the actions
  MaxVersion,     \* bound: changes on USB
  MaxGeneration,  \* bound: starts and ends of actions
  MaxSteps        \* bound: steps of a flow

ASSUME ControllerAssumption ==
  Hosted \in BOOLEAN /\ MaxVersion \in Nat /\ MaxGeneration \in Nat /\ MaxSteps \in Nat

VARIABLES
  robot,       \* what a USB inspection would see now
  menu,        \* the inspection TerminalMenu holds
  published,   \* the inspection behind _readiness and _items
  checked,     \* _checked: the last probe did not fail
  generation,  \* _generation
  busy, closing,
  usb,         \* holder of _usb_lock: "free", "probe", "action"
  probe,       \* "none" (not _probing), "waiting", "inspected", "failed", "stale"
  probeGen, probeSeen,
  step,        \* where the worker is; "none" without one
  left,        \* steps the flow may still take
  hosted,      \* this action installs a hosted image
  approved,    \* a review was confirmed and its write is still to come
  prompt,      \* _pending: "none", "open", "confirmed", "declined"
  review,      \* the pending prompt is the review before a write
  work,        \* _work_cancel: "none", "closable", or "read" (allow_close False)
  cancelled    \* that token was cancelled

usbVars == <<robot, menu, published, checked>>
probeVars == <<probe, probeGen, probeSeen>>
promptVars == <<prompt, review>>
workVars == <<work, cancelled>>
flowVars == <<left, hosted, approved>>
vars == <<usbVars, generation, busy, closing, usb, probeVars, step, flowVars,
          promptVars, workVars>>

Steps == {"none", "start", "flow", "asking", "work", "worked", "stopped",
          "read", "write", "refresh", "leave"}

-----------------------------------------------------------------------------
(* Mutations, each a slip the code could have made (see PROJECT.json).      *)

Unnumbered == ~busy                      \* probe results are not tied to a generation
AnyPrompt == prompt # "none"             \* answered prompts count as open
AnyWork == work # "none"                 \* a token's allow_close is ignored
AskWhileClosing == TRUE                  \* _ask does not look at _closing
StillRegistered == work                  \* the token outlives its work

-----------------------------------------------------------------------------
Init ==
  /\ robot = 1 /\ menu = 0 /\ published = 0 /\ checked = FALSE
  /\ generation = 0 /\ busy = FALSE /\ closing = FALSE
  /\ usb = "free"
  /\ probe = "none" /\ probeGen = 0 /\ probeSeen = 0
  /\ step = "none" /\ left = 0 /\ hosted = FALSE /\ approved = FALSE
  /\ prompt = "none" /\ review = FALSE
  /\ work = "none" /\ cancelled = FALSE

\* A robot is plugged in, unplugged, or changes its USB mode.
UsbChanges ==
  /\ robot < MaxVersion
  /\ robot' = robot + 1
  /\ UNCHANGED <<menu, published, checked, generation, busy, closing, usb, probeVars,
                 step, flowVars, promptVars, workVars>>

-----------------------------------------------------------------------------
(* Background probes.                                                      *)

\* request_refresh(), by hand or from the timer.
RequestRefresh ==
  /\ ~busy /\ probe = "none" /\ ~closing
  /\ probe' = "waiting" /\ probeGen' = generation
  /\ UNCHANGED <<usbVars, generation, busy, closing, usb, probeSeen, step, flowVars,
                 promptVars, workVars>>

\* Whether what the probe was asked for is still wanted.
Wanted == ~busy /\ probeGen = generation

\* The part of _probe() under _usb_lock, from taking it to the inspection.
ProbeInspects ==
  /\ probe = "waiting" /\ usb = "free"
  /\ \/ /\ ~Wanted
        /\ probe' = "stale" /\ UNCHANGED <<usb, menu, probeSeen>>
     \/ /\ Wanted
        /\ usb' = "probe" /\ probe' = "inspected"
        /\ menu' = robot /\ probeSeen' = robot
     \/ /\ Wanted
        /\ usb' = "probe" /\ probe' = "failed"
        /\ UNCHANGED <<menu, probeSeen>>
  /\ UNCHANGED <<robot, published, checked, generation, busy, closing, probeGen, step,
                 flowVars, promptVars, workVars>>

ProbeReleases ==
  /\ usb = "probe"
  /\ usb' = "free"
  /\ UNCHANGED <<usbVars, generation, busy, closing, probeVars, step, flowVars,
                 promptVars, workVars>>

\* The rest of _probe(), under _lock: a result is published only if no action
\* started (or ended) since the probe was requested.
ProbePublishes ==
  /\ probe \in {"inspected", "failed", "stale"} /\ usb # "probe"
  /\ probe' = "none"
  /\ IF Wanted
     THEN /\ checked' = (probe # "failed")
          /\ published' = IF probe = "inspected" THEN probeSeen ELSE published
     ELSE UNCHANGED <<checked, published>>
  /\ UNCHANGED <<robot, menu, generation, busy, closing, usb, probeGen, probeSeen, step,
                 flowVars, promptVars, workVars>>

-----------------------------------------------------------------------------
(* Starting an action and ending it.                                       *)

\* start_action() of an entry that is enabled; the thread may fail to start.
StartAction(h) ==
  /\ ~busy /\ ~closing /\ checked
  /\ generation < MaxGeneration
  /\ generation' = generation + 1
  /\ \/ busy' = TRUE /\ step' = "start" /\ left' = MaxSteps /\ hosted' = h
     \/ UNCHANGED <<busy, step, left, hosted>>
  /\ UNCHANGED <<usbVars, closing, usb, probeVars, approved, promptVars, workVars>>

\* _run_action takes _usb_lock and _dispatch looks at USB once more: the entry
\* is still enabled, it is not, or the inspection itself fails.
Dispatch ==
  /\ step = "start" /\ usb = "free"
  /\ \/ menu' = robot /\ usb' = "action" /\ step' \in {"flow", "refresh"}
     \/ UNCHANGED <<menu, usb>> /\ step' = "leave"
  /\ UNCHANGED <<robot, published, checked, generation, busy, closing, probeVars,
                 flowVars, promptVars, workVars>>

\* The flow is over; the menu is read again, and what it then holds (after a
\* failed inspection, the last one) is published before _usb_lock is released.
RefreshAfter ==
  /\ step = "refresh"
  /\ menu' \in {menu, robot}
  /\ published' = menu'
  /\ usb' = "free" /\ step' = "leave"
  /\ UNCHANGED <<robot, checked, generation, busy, closing, probeVars, flowVars,
                 promptVars, workVars>>

Finish ==
  /\ step = "leave"
  /\ busy' = FALSE /\ step' = "none"
  /\ prompt' = "none" /\ review' = FALSE
  /\ generation' = generation + 1
  /\ hosted' = FALSE /\ left' = 0
  /\ UNCHANGED <<usbVars, closing, usb, probeVars, approved, workVars>>

-----------------------------------------------------------------------------
(* The flow, one step of the worker at a time.                             *)

FlowOnly == UNCHANGED <<usbVars, generation, busy, closing, usb, probeVars, hosted>>

Takes == step = "flow" /\ left > 0 /\ left' = left - 1

\* The flow returns, cancelled, failed or complete.
FlowEnds ==
  /\ step = "flow"
  /\ step' = "refresh" /\ approved' = FALSE
  /\ FlowOnly /\ UNCHANGED <<left, promptVars, workVars>>

Open == ~closing

\* _ask(): once the window closes, every prompt is declined unseen.
Ask(r) ==
  /\ Takes
  /\ ~approved
  /\ IF Open THEN prompt' = "open" ELSE prompt' = "declined"
  /\ review' = r /\ step' = "asking"
  /\ FlowOnly /\ UNCHANGED <<approved, workVars>>

\* The worker wakes up with the answer; a declined review ends the flow, while
\* a declined question may only mean a step back.
Answered ==
  /\ step = "asking" /\ prompt \in {"confirmed", "declined"}
  /\ approved' = (review /\ prompt = "confirmed")
  /\ step' = IF review /\ prompt = "declined" THEN "refresh" ELSE "flow"
  /\ prompt' = "none" /\ review' = FALSE
  /\ FlowOnly /\ UNCHANGED <<left, workVars>>

\* _run_work(): list, download, image check or preparation, which may be
\* abandoned; only a hosted install has some after its review.
StartWork ==
  /\ Takes
  /\ approved => hosted
  /\ work' = "closable" /\ cancelled' = closing
  /\ step' = "work"
  /\ FlowOnly /\ UNCHANGED <<approved, promptVars>>

Unregistered == "none"

\* The last look at the token, then its removal: in between, a cancellation
\* comes too late.
WorkStops ==
  /\ step = "work" /\ cancelled
  /\ step' = "stopped"
  /\ FlowOnly /\ UNCHANGED <<left, approved, promptVars, workVars>>

WorkCompletes ==
  /\ step = "work" /\ ~cancelled
  /\ step' = "worked"
  /\ FlowOnly /\ UNCHANGED <<left, approved, promptVars, workVars>>

EndWork ==
  /\ step \in {"worked", "stopped"}
  /\ work' = Unregistered /\ cancelled' = FALSE
  /\ step' = IF step = "stopped" /\ approved THEN "refresh" ELSE "flow"
  /\ approved' = (approved /\ step = "worked")
  /\ FlowOnly /\ UNCHANGED <<left, promptVars>>

\* A USB read; that of a backup set is registered as work that stops only
\* between partitions.
StartRead(token) ==
  /\ Takes
  /\ work' = token /\ cancelled' = (token = "read" /\ closing)
  /\ step' = "read"
  /\ FlowOnly /\ UNCHANGED <<approved, promptVars>>

EndRead ==
  /\ step = "read"
  /\ work' = "none" /\ cancelled' = FALSE
  /\ step' = "flow"
  /\ FlowOnly /\ UNCHANGED <<left, approved, promptVars>>

StartWrite ==
  /\ Takes
  /\ approved
  /\ step' = "write"
  /\ FlowOnly /\ UNCHANGED <<approved, promptVars, workVars>>

EndWrite ==
  /\ step = "write"
  /\ step' = "flow" /\ approved' \in {TRUE, FALSE}
  /\ FlowOnly /\ UNCHANGED <<left, promptVars, workVars>>

-----------------------------------------------------------------------------
(* The window.                                                             *)

Answer ==
  /\ ~closing /\ prompt = "open"
  /\ prompt' \in {"confirmed", "declined"}
  /\ UNCHANGED <<usbVars, generation, busy, closing, usb, probeVars, step, flowVars,
                 review, workVars>>

CancelDownload ==
  /\ ~closing /\ work # "none"
  /\ cancelled' = TRUE
  /\ UNCHANGED <<usbVars, generation, busy, closing, usb, probeVars, step, flowVars,
                 promptVars, work>>

Unanswered == prompt = "open"
Abandonable == work = "closable"

\* shutdown_if_safe(): refused while an action runs, unless it waits for an
\* answer or does work that may be abandoned.
CloseWindow ==
  /\ ~closing
  /\ busy => Abandonable \/ Unanswered
  /\ closing' = TRUE
  /\ cancelled' = (cancelled \/ work # "none")
  /\ prompt' = IF prompt = "open" THEN "declined" ELSE prompt
  /\ UNCHANGED <<usbVars, generation, busy, usb, probeVars, step, flowVars, review, work>>

-----------------------------------------------------------------------------
Window == RequestRefresh \/ (\E h \in {FALSE, Hosted} : StartAction(h))
          \/ Answer \/ CancelDownload \/ CloseWindow

Probe == ProbeInspects \/ ProbeReleases \/ ProbePublishes

\* Work that nobody cancels may take as long as it likes.
WorkerRuns == \/ Dispatch \/ RefreshAfter \/ Finish \/ FlowEnds
              \/ (\E r \in BOOLEAN : Ask(r)) \/ Answered
              \/ StartWork \/ WorkStops \/ EndWork
              \/ (\E t \in {"none", "read"} : StartRead(t)) \/ EndRead
              \/ StartWrite \/ EndWrite

Next == UsbChanges \/ Window \/ Probe \/ WorkerRuns \/ WorkCompletes

Spec == Init /\ [][Next]_vars

\* Threads keep running; nothing is assumed of the user, of USB, or of a
\* download that was not cancelled.
FairSpec == Spec /\ WF_vars(Probe) /\ WF_vars(WorkerRuns)

-----------------------------------------------------------------------------
CountsOK ==
  /\ robot \in Nat /\ menu \in Nat /\ published \in Nat
  /\ generation \in Nat /\ probeGen \in Nat /\ probeSeen \in Nat /\ left \in Nat

FlagsOK ==
  /\ checked \in BOOLEAN /\ busy \in BOOLEAN /\ closing \in BOOLEAN
  /\ usb \in {"free", "probe", "action"}
  /\ probe \in {"none", "waiting", "inspected", "failed", "stale"}
  /\ step \in Steps /\ hosted \in BOOLEAN /\ approved \in BOOLEAN
  /\ prompt \in {"none", "open", "confirmed", "declined"} /\ review \in BOOLEAN
  /\ work \in {"none", "closable", "read"} /\ cancelled \in BOOLEAN

\* A pending prompt and a registered token last exactly as long as the call
\* they belong to, and busy as long as the worker.
PlacesOK ==
  /\ busy <=> step # "none"
  /\ prompt # "none" <=> step = "asking"
  /\ work = "closable" <=> step \in {"work", "worked", "stopped"}

TypeOK == CountsOK /\ FlagsOK /\ PlacesOK

\* _probe and its generation: what the window offers actions by never goes
\* back to an older inspection than it already showed.
NeverOlder == [][published' >= published]_vars

\* shutdown_if_safe and allow_close: the window never closes over a running
\* USB transfer, not over the read of a cancellable backup either.
NoCloseOverTransfer == [][closing' # closing => step \notin {"read", "write"}]_vars

\* shutdown_if_safe: an action other than a hosted install writes nothing once
\* the window was closed, whatever was approved before.
EditsEndAtClose == closing /\ ~hosted => step # "write"

\* "Atomically refuse window closure once a prompt has approved a transfer":
\* no write of any action runs with the window closed.
NoWriteAfterClose == closing => step # "write"

\* Closing lets the process end: prompts are declined, work is cancelled, and
\* the worker, which the exit waits for, finishes.
ClosingEnds == closing ~> ~busy
=============================================================================
