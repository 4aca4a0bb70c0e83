------------------------ MODULE GuiControllerProofs -------------------------
(***************************************************************************)
(* What the controller of the window guarantees for any number of actions, *)
(* prompts, probes and changes on USB.                                     *)
(***************************************************************************)
EXTENDS GuiController, TLAPS

-----------------------------------------------------------------------------
(* Types and the worker's place.                                           *)

\* Counters only ever grow by one, or copy one another.
LEMMA CountsStep ==
  ASSUME CountsOK, [Next]_vars
  PROVE  CountsOK'
<1> USE ControllerAssumption
<1>1. CASE UsbChanges BY <1>1 DEF CountsOK, UsbChanges, probeVars, flowVars
<1>2. CASE Window
  <2>1. ASSUME NEW h \in {FALSE, Hosted}, StartAction(h) PROVE CountsOK'
    <3>1. left' \in Nat BY <2>1 DEF CountsOK, StartAction
    <3> QED BY <2>1, <3>1 DEF CountsOK, StartAction, usbVars, probeVars
  <2>2. CASE RequestRefresh BY <2>2 DEF CountsOK, RequestRefresh, usbVars, flowVars
  <2>3. CASE Answer \/ CancelDownload \/ CloseWindow
    BY <2>3 DEF CountsOK, Answer, CancelDownload, CloseWindow, usbVars, probeVars, flowVars
  <2> QED BY <1>2, <2>1, <2>2, <2>3 DEF Window
<1>3. CASE Probe
  BY <1>3 DEF CountsOK, Probe, ProbeInspects, ProbeReleases, ProbePublishes, usbVars,
              probeVars, flowVars
<1>4. CASE Dispatch \/ RefreshAfter \/ Finish
  BY <1>4 DEF CountsOK, Dispatch, RefreshAfter, Finish, usbVars, probeVars, flowVars
<1>5. ASSUME FlowOnly, Takes \/ UNCHANGED left PROVE CountsOK'
  BY <1>5 DEF CountsOK, FlowOnly, Takes, usbVars, probeVars
<1>6. (WorkerRuns \/ WorkCompletes) =>
         \/ Dispatch \/ RefreshAfter \/ Finish
         \/ FlowOnly /\ (Takes \/ UNCHANGED left)
  BY DEF WorkerRuns, FlowEnds, Ask, Answered, StartWork, WorkStops, WorkCompletes, EndWork,
         StartRead, EndRead, StartWrite, EndWrite
<1>7. CASE UNCHANGED vars BY <1>7 DEF CountsOK, vars, usbVars, probeVars, flowVars
<1> QED BY <1>1, <1>2, <1>3, <1>4, <1>5, <1>6, <1>7 DEF Next

\* Any step of any thread keeps the flags in their sets ...
LEMMA FlagsStep ==
  ASSUME FlagsOK, [Next]_vars
  PROVE  FlagsOK'
<1> USE ControllerAssumption
<1>1. CASE UsbChanges BY <1>1 DEF FlagsOK, UsbChanges, probeVars, flowVars, promptVars, workVars
<1>2. CASE Window
  <2>1. CASE RequestRefresh
    BY <2>1 DEF FlagsOK, RequestRefresh, usbVars, flowVars, promptVars, workVars
  <2>2. ASSUME NEW h \in {FALSE, Hosted}, StartAction(h) PROVE FlagsOK'
    <3>1. hosted' \in BOOLEAN /\ busy' \in BOOLEAN BY <2>2 DEF FlagsOK, StartAction
    <3>2. step' \in Steps BY <2>2 DEF FlagsOK, StartAction, Steps
    <3> QED BY <2>2, <3>1, <3>2 DEF FlagsOK, StartAction, usbVars, probeVars, promptVars, workVars
  <2>3. CASE Answer
    BY <2>3 DEF FlagsOK, Answer, usbVars, probeVars, flowVars, workVars
  <2>4. CASE CancelDownload
    BY <2>4 DEF FlagsOK, CancelDownload, usbVars, probeVars, flowVars, promptVars
  <2>5. CASE CloseWindow
    BY <2>5 DEF FlagsOK, CloseWindow, usbVars, probeVars, flowVars
  <2> QED BY <1>2, <2>1, <2>2, <2>3, <2>4, <2>5 DEF Window
<1>3. CASE Probe
  <2>1. CASE ProbeInspects
    BY <2>1 DEF FlagsOK, ProbeInspects, flowVars, promptVars, workVars
  <2>2. CASE ProbeReleases
    BY <2>2 DEF FlagsOK, ProbeReleases, usbVars, probeVars, flowVars, promptVars, workVars
  <2>3. CASE ProbePublishes
    BY <2>3, ZenonT(40) DEF FlagsOK, ProbePublishes, flowVars, promptVars, workVars
  <2> QED BY <1>3, <2>1, <2>2, <2>3 DEF Probe
<1>4. CASE WorkerRuns \/ WorkCompletes
  <2>1. CASE Dispatch
    BY <2>1 DEF FlagsOK, Dispatch, Steps, probeVars, flowVars, promptVars, workVars
  <2>2. CASE RefreshAfter
    BY <2>2 DEF FlagsOK, RefreshAfter, Steps, probeVars, flowVars, promptVars, workVars
  <2>3. CASE Finish
    <3>1. /\ hosted' \in BOOLEAN /\ busy' \in BOOLEAN /\ review' \in BOOLEAN
          /\ step' \in Steps /\ prompt' \in {"none", "open", "confirmed", "declined"}
      BY <2>3 DEF Finish, Steps
    <3>2. /\ checked' = checked /\ closing' = closing /\ usb' = usb /\ probe' = probe
          /\ approved' = approved /\ work' = work /\ cancelled' = cancelled
      BY <2>3 DEF Finish, usbVars, probeVars, workVars
    <3> QED BY <3>1, <3>2 DEF FlagsOK, Steps
  <2>4. CASE FlowEnds
    <3>1. approved' \in BOOLEAN /\ step' \in Steps BY <2>4 DEF FlowEnds, Steps
    <3> QED BY <2>4, <3>1 DEF FlagsOK, FlowEnds, FlowOnly, Steps, usbVars, probeVars,
                              promptVars, workVars
  <2>5. CASE Answered
    BY <2>5, ZenonT(40) DEF FlagsOK, Answered, FlowOnly, Steps, usbVars, probeVars, workVars
  <2>6. ASSUME NEW r \in BOOLEAN, Ask(r) PROVE FlagsOK'
    BY <2>6 DEF FlagsOK, Ask, Open, Takes, FlowOnly, Steps, usbVars, probeVars, workVars
  <2>7. CASE StartWork
    BY <2>7 DEF FlagsOK, StartWork, Takes, FlowOnly, Steps, usbVars, probeVars, promptVars
  <2>8. CASE WorkStops \/ WorkCompletes
    BY <2>8 DEF FlagsOK, WorkStops, WorkCompletes, FlowOnly, Steps, usbVars, probeVars,
                promptVars, workVars
  <2>9. CASE EndWork
    BY <2>9, ZenonT(40) DEF FlagsOK, EndWork, Unregistered, FlowOnly, Steps, usbVars, probeVars, promptVars
  <2>10. ASSUME NEW t \in {"none", "read"}, StartRead(t) PROVE FlagsOK'
    BY <2>10 DEF FlagsOK, StartRead, Takes, FlowOnly, Steps, usbVars, probeVars, promptVars
  <2>11. CASE EndRead
    BY <2>11, ZenonT(40) DEF FlagsOK, EndRead, FlowOnly, Steps, usbVars, probeVars, promptVars
  <2>12. CASE StartWrite \/ EndWrite
    BY <2>12, ZenonT(40) DEF FlagsOK, StartWrite, EndWrite, Takes, FlowOnly, Steps, usbVars, probeVars,
                 promptVars, workVars
  <2> QED BY <1>4, <2>1, <2>2, <2>3, <2>4, <2>5, <2>6, <2>7, <2>8, <2>9, <2>10, <2>11, <2>12
          DEF WorkerRuns
<1>5. CASE UNCHANGED vars
  BY <1>5 DEF FlagsOK, vars, usbVars, probeVars, flowVars, promptVars, workVars
<1> QED BY <1>1, <1>2, <1>3, <1>4, <1>5 DEF Next

\* ... and every place keeps its prompt, its token and the busy flag.
LEMMA PlacesStep ==
  ASSUME FlagsOK, PlacesOK, [Next]_vars
  PROVE  PlacesOK'
<1> USE ControllerAssumption
<1>1. CASE UsbChanges BY <1>1 DEF FlagsOK, PlacesOK, UsbChanges, probeVars, flowVars, promptVars, workVars
<1>2. CASE Window
  <2>1. CASE RequestRefresh
    BY <2>1 DEF FlagsOK, PlacesOK, RequestRefresh, usbVars, flowVars, promptVars, workVars
  <2>2. ASSUME NEW h \in {FALSE, Hosted}, StartAction(h) PROVE PlacesOK'
    BY <2>2 DEF FlagsOK, PlacesOK, StartAction, Steps, usbVars, probeVars, promptVars, workVars
  <2>3. CASE Answer
    BY <2>3 DEF FlagsOK, PlacesOK, Answer, usbVars, probeVars, flowVars, workVars
  <2>4. CASE CancelDownload
    BY <2>4 DEF FlagsOK, PlacesOK, CancelDownload, usbVars, probeVars, flowVars, promptVars
  <2>5. CASE CloseWindow
    BY <2>5 DEF FlagsOK, PlacesOK, CloseWindow, usbVars, probeVars, flowVars
  <2> QED BY <1>2, <2>1, <2>2, <2>3, <2>4, <2>5 DEF Window
<1>3. CASE Probe
  <2>1. CASE ProbeInspects
    BY <2>1 DEF FlagsOK, PlacesOK, ProbeInspects, flowVars, promptVars, workVars
  <2>2. CASE ProbeReleases
    BY <2>2 DEF FlagsOK, PlacesOK, ProbeReleases, usbVars, probeVars, flowVars, promptVars, workVars
  <2>3. CASE ProbePublishes
    BY <2>3 DEF FlagsOK, PlacesOK, ProbePublishes, flowVars, promptVars, workVars
  <2> QED BY <1>3, <2>1, <2>2, <2>3 DEF Probe
<1>4. CASE WorkerRuns \/ WorkCompletes
  <2>1. CASE Dispatch
    BY <2>1 DEF FlagsOK, PlacesOK, Dispatch, Steps, probeVars, flowVars, promptVars, workVars
  <2>2. CASE RefreshAfter
    BY <2>2 DEF FlagsOK, PlacesOK, RefreshAfter, Steps, probeVars, flowVars, promptVars, workVars
  <2>3. CASE Finish
    BY <2>3 DEF FlagsOK, PlacesOK, Finish, Steps, usbVars, probeVars, workVars
  <2>4. CASE FlowEnds
    BY <2>4 DEF FlagsOK, PlacesOK, FlowEnds, FlowOnly, Steps, usbVars, probeVars, promptVars, workVars
  <2>5. CASE Answered
    BY <2>5 DEF FlagsOK, PlacesOK, Answered, FlowOnly, Steps, usbVars, probeVars, workVars
  <2>6. ASSUME NEW r \in BOOLEAN, Ask(r) PROVE PlacesOK'
    BY <2>6 DEF FlagsOK, PlacesOK, Ask, Open, Takes, FlowOnly, Steps, usbVars, probeVars, workVars
  <2>7. CASE StartWork
    BY <2>7 DEF FlagsOK, PlacesOK, StartWork, Takes, FlowOnly, Steps, usbVars, probeVars, promptVars
  <2>8. CASE WorkStops \/ WorkCompletes
    BY <2>8 DEF FlagsOK, PlacesOK, WorkStops, WorkCompletes, FlowOnly, Steps, usbVars, probeVars,
                promptVars, workVars
  <2>9. CASE EndWork
    BY <2>9 DEF FlagsOK, PlacesOK, EndWork, Unregistered, FlowOnly, Steps, usbVars, probeVars, promptVars
  <2>10. ASSUME NEW t \in {"none", "read"}, StartRead(t) PROVE PlacesOK'
    BY <2>10 DEF FlagsOK, PlacesOK, StartRead, Takes, FlowOnly, Steps, usbVars, probeVars, promptVars
  <2>11. CASE EndRead
    BY <2>11 DEF FlagsOK, PlacesOK, EndRead, FlowOnly, Steps, usbVars, probeVars, promptVars
  <2>12. CASE StartWrite \/ EndWrite
    BY <2>12 DEF FlagsOK, PlacesOK, StartWrite, EndWrite, Takes, FlowOnly, Steps, usbVars, probeVars,
                 promptVars, workVars
  <2> QED BY <1>4, <2>1, <2>2, <2>3, <2>4, <2>5, <2>6, <2>7, <2>8, <2>9, <2>10, <2>11, <2>12
          DEF WorkerRuns
<1>5. CASE UNCHANGED vars
  BY <1>5 DEF FlagsOK, PlacesOK, vars, usbVars, probeVars, flowVars, promptVars, workVars
<1> QED BY <1>1, <1>2, <1>3, <1>4, <1>5 DEF Next

\* The types of the controller, for every value of the bounds.
THEOREM GuiTypeOK == Spec => []TypeOK
<1>1. Init => TypeOK
  <2>1. Init => FlagsOK BY DEF Init, FlagsOK, Steps
  <2>2. Init => PlacesOK BY DEF Init, PlacesOK
  <2>3. Init => CountsOK BY DEF Init, CountsOK
  <2> QED BY <2>1, <2>2, <2>3 DEF TypeOK
<1>2. TypeOK /\ [Next]_vars => TypeOK' BY CountsStep, FlagsStep, PlacesStep DEF TypeOK
<1> QED BY <1>1, <1>2, PTL DEF Spec

-----------------------------------------------------------------------------
(* Closing the window.                                                     *)

\* An approval lasts from the answer to the end of the flow; with the window
\* closed an edit neither has one nor can still get one.
CloseInv ==
  /\ step = "write" => approved
  /\ approved => step \in {"flow", "work", "worked", "stopped", "read", "write"}
  /\ approved /\ ~hosted => work # "closable"
  /\ closing /\ ~hosted => ~approved /\ prompt # "confirmed"

LEMMA CloseStep ==
  ASSUME TypeOK, CloseInv, [Next]_vars
  PROVE  CloseInv'
<1>1. CASE UsbChanges \/ Probe
  BY <1>1 DEF CloseInv, UsbChanges, Probe, ProbeInspects, ProbeReleases, ProbePublishes,
              flowVars, promptVars, workVars
<1>2. CASE Window
  <2>1. CASE RequestRefresh
    BY <2>1 DEF CloseInv, RequestRefresh, flowVars, promptVars, workVars
  <2>2. ASSUME NEW h \in {FALSE, Hosted}, StartAction(h) PROVE CloseInv'
    BY <2>2 DEF TypeOK, FlagsOK, PlacesOK, CloseInv, StartAction, promptVars, workVars
  <2>3. CASE Answer
    BY <2>3 DEF CloseInv, Answer, flowVars, workVars
  <2>4. CASE CancelDownload
    BY <2>4 DEF CloseInv, CancelDownload, flowVars, promptVars
  <2>5. CASE CloseWindow
    <3>1. prompt' # "confirmed"
      BY <2>5 DEF TypeOK, FlagsOK, PlacesOK, CloseWindow, Abandonable, Unanswered
    <3>2. ~hosted => ~approved
      BY <2>5 DEF TypeOK, FlagsOK, PlacesOK, CloseInv, CloseWindow, Abandonable, Unanswered
    <3> QED BY <2>5, <3>1, <3>2 DEF CloseInv, CloseWindow, flowVars
  <2> QED BY <1>2, <2>1, <2>2, <2>3, <2>4, <2>5 DEF Window
<1>3. CASE WorkerRuns \/ WorkCompletes
  <2>1. CASE Dispatch \/ RefreshAfter \/ Finish
    BY <2>1 DEF TypeOK, FlagsOK, PlacesOK, CloseInv, Dispatch, RefreshAfter, Finish, flowVars, promptVars, workVars
  <2>2. CASE FlowEnds \/ Answered
    BY <2>2 DEF TypeOK, FlagsOK, PlacesOK, CloseInv, FlowEnds, Answered, FlowOnly, promptVars, workVars
  <2>3. ASSUME NEW r \in BOOLEAN, Ask(r) PROVE CloseInv'
    BY <2>3 DEF CloseInv, Ask, Open, Takes, FlowOnly, workVars
  <2>4. CASE StartWork \/ WorkStops \/ WorkCompletes
    BY <2>4 DEF CloseInv, StartWork, WorkStops, WorkCompletes, Takes, FlowOnly, promptVars,
                workVars
  <2>5. CASE EndWork
    BY <2>5 DEF TypeOK, FlagsOK, PlacesOK, CloseInv, EndWork, Unregistered, FlowOnly, promptVars
  <2>6. ASSUME NEW t \in {"none", "read"}, StartRead(t) PROVE CloseInv'
    BY <2>6 DEF CloseInv, StartRead, Takes, FlowOnly, promptVars
  <2>7. CASE EndRead
    <3>1. work' # "closable" /\ step' = "flow" BY <2>7 DEF EndRead
    <3>2. /\ approved' = approved /\ hosted' = hosted /\ closing' = closing
          /\ prompt' = prompt
      BY <2>7 DEF EndRead, FlowOnly, promptVars
    <3> QED BY <3>1, <3>2 DEF CloseInv
  <2>8. CASE StartWrite
    <3>1. /\ approved /\ approved' = approved /\ step' = "write" /\ hosted' = hosted
          /\ closing' = closing /\ prompt' = prompt /\ work' = work
      BY <2>8 DEF StartWrite, FlowOnly, promptVars, workVars
    <3> QED BY <3>1 DEF CloseInv
  <2>9. CASE EndWrite
    <3>1. /\ step = "write" /\ step' = "flow" /\ hosted' = hosted
          /\ closing' = closing /\ prompt' = prompt /\ work' = work
      BY <2>9 DEF EndWrite, FlowOnly, promptVars, workVars
    <3> QED BY <3>1 DEF CloseInv
  <2> QED BY <1>3, <2>1, <2>2, <2>3, <2>4, <2>5, <2>6, <2>7, <2>8, <2>9 DEF WorkerRuns
<1>4. CASE UNCHANGED vars
  BY <1>4 DEF CloseInv, vars, flowVars, promptVars, workVars
<1> QED BY <1>1, <1>2, <1>3, <1>4 DEF Next

\* shutdown_if_safe: once the window is closed, no action but a hosted install
\* writes to the robot.
THEOREM GuiEditsEndAtClose == Spec => []EditsEndAtClose
<1>1. Init => CloseInv BY DEF Init, CloseInv
<1>2. TypeOK /\ CloseInv /\ [Next]_vars => CloseInv' BY CloseStep
<1>3. CloseInv => EditsEndAtClose BY DEF CloseInv, EditsEndAtClose
<1> QED BY <1>1, <1>2, <1>3, GuiTypeOK, PTL DEF Spec

\* shutdown_if_safe and allow_close: the window is never closed while a USB
\* transfer runs.
THEOREM GuiNoCloseOverTransfer == Spec => NoCloseOverTransfer
<1>1. TypeOK /\ [Next]_vars => [closing' # closing => step \notin {"read", "write"}]_vars
  <2> SUFFICES ASSUME TypeOK, [Next]_vars, closing' # closing
               PROVE  step \notin {"read", "write"}
    OBVIOUS
  <2>1. CloseWindow
    BY DEF Next, vars, UsbChanges, Window, RequestRefresh, StartAction, Answer,
           CancelDownload, Probe, ProbeInspects, ProbeReleases, ProbePublishes, WorkerRuns,
           Dispatch, RefreshAfter, Finish, FlowEnds, Ask, Answered, StartWork, WorkStops,
           WorkCompletes, EndWork, StartRead, EndRead, StartWrite, EndWrite, FlowOnly
  <2> QED BY <2>1 DEF TypeOK, FlagsOK, PlacesOK, CloseWindow, Abandonable, Unanswered
<1> QED BY <1>1, GuiTypeOK, PTL DEF Spec, NoCloseOverTransfer

-----------------------------------------------------------------------------
(* What the window shows of USB.                                           *)

\* The menu's inspection is never older than the published one, and a probe
\* whose result is still wanted saw no less than what is published.
FreshInv ==
  /\ published <= menu /\ menu <= robot
  /\ probeGen <= generation
  /\ probe = "inspected" => probeSeen <= menu
  /\ probe = "inspected" /\ Wanted => published <= probeSeen

LEMMA FreshStep ==
  ASSUME TypeOK, FreshInv, [Next]_vars
  PROVE  FreshInv' /\ published' >= published
<1> USE DEF Wanted
<1>1. CASE UsbChanges
  BY <1>1 DEF TypeOK, CountsOK, FlagsOK, PlacesOK, FreshInv, UsbChanges, probeVars
<1>2. CASE Window
  <2>1. CASE RequestRefresh
    BY <2>1 DEF TypeOK, CountsOK, FlagsOK, PlacesOK, FreshInv, RequestRefresh, usbVars
  <2>2. ASSUME NEW h \in {FALSE, Hosted}, StartAction(h)
        PROVE  FreshInv' /\ published' >= published
    BY <2>2 DEF TypeOK, CountsOK, FlagsOK, PlacesOK, FreshInv, StartAction, usbVars, probeVars
  <2>3. CASE Answer \/ CancelDownload \/ CloseWindow
    BY <2>3 DEF TypeOK, CountsOK, FlagsOK, PlacesOK, FreshInv, Answer, CancelDownload, CloseWindow, usbVars, probeVars
  <2> QED BY <1>2, <2>1, <2>2, <2>3 DEF Window
<1>3. CASE Probe
  <2>1. CASE ProbeInspects
    BY <2>1 DEF TypeOK, CountsOK, FlagsOK, PlacesOK, FreshInv, ProbeInspects
  <2>2. CASE ProbeReleases
    BY <2>2 DEF TypeOK, CountsOK, FlagsOK, PlacesOK, FreshInv, ProbeReleases, usbVars, probeVars
  <2>3. CASE ProbePublishes
    BY <2>3 DEF TypeOK, CountsOK, FlagsOK, PlacesOK, FreshInv, ProbePublishes
  <2> QED BY <1>3, <2>1, <2>2, <2>3 DEF Probe
<1>4. CASE Dispatch
  BY <1>4 DEF TypeOK, CountsOK, FlagsOK, PlacesOK, FreshInv, Dispatch, probeVars
<1>5. CASE RefreshAfter
  BY <1>5 DEF TypeOK, CountsOK, FlagsOK, PlacesOK, FreshInv, RefreshAfter, probeVars
<1>6. CASE Finish
  BY <1>6 DEF TypeOK, CountsOK, FlagsOK, PlacesOK, FreshInv, Finish, usbVars, probeVars
<1>7. ASSUME FlowOnly PROVE FreshInv' /\ published' >= published
  BY <1>7 DEF TypeOK, CountsOK, FlagsOK, PlacesOK, FreshInv, FlowOnly, usbVars, probeVars
<1>8. CASE UNCHANGED vars
  BY <1>8 DEF TypeOK, CountsOK, FlagsOK, PlacesOK, FreshInv, vars, usbVars, probeVars
<1>9. (WorkerRuns \/ WorkCompletes) =>
         Dispatch \/ RefreshAfter \/ Finish \/ FlowOnly
  BY DEF WorkerRuns, FlowEnds, Ask, Answered, StartWork, WorkStops, WorkCompletes, EndWork,
         StartRead, EndRead, StartWrite, EndWrite
<1> QED BY <1>1, <1>2, <1>3, <1>4, <1>5, <1>6, <1>7, <1>8, <1>9 DEF Next

\* _probe and its generation: the window never goes back to an older view.
THEOREM GuiNeverOlder == Spec => NeverOlder
<1>1. Init => FreshInv BY DEF Init, FreshInv
<1>2. TypeOK /\ FreshInv /\ [Next]_vars => FreshInv' /\ [published' >= published]_vars
  BY FreshStep
<1> QED BY <1>1, <1>2, GuiTypeOK, PTL DEF Spec, NeverOlder
=============================================================================
