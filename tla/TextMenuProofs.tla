---------------------------- MODULE TextMenuProofs ----------------------------
(***************************************************************************)
(* Proofs about TextMenu, for every deadline, transfer size and marker:    *)
(* the waits keep their deadlines, a marker read is whole, and what an     *)
(* edit of an image leaves.  Each of the three parts has an inductive      *)
(* invariant over its own variables; the menu and the command line reach a *)
(* part through its steps only, which is proved first for each part.       *)
(***************************************************************************)
EXTENDS TextMenu, TLAPS

-----------------------------------------------------------------------------
(* Waiting for the loader.                                                 *)
WaitsStep ==
  \/ WaitStep \/ InspectLists \/ WaitOver \/ UNCHANGED waitVars
  \/ \E byPort \in BOOLEAN : EntryBegins(byPort) \/ ContextBegins(byPort)

LEMMA WaitsSteps == [Next]_vars => WaitsStep
<1> SUFFICES ASSUME [Next]_vars PROVE WaitsStep
  OBVIOUS
<1> USE DEF WaitsStep
<1>1. ASSUME OnlyOwn PROVE WaitsStep
  BY <1>1 DEF OnlyOwn, entryVars
<1>2. ASSUME UNCHANGED entryVars PROVE WaitsStep
  BY <1>2 DEF entryVars
<1>3. CASE Toolkit
  <2>1. CASE LooksAtPort  BY <1>1, <2>1 DEF LooksAtPort
  <2>2. CASE LooksAtLoader  BY <2>2 DEF LooksAtLoader
  <2>3. CASE LoaderSeen  BY <2>3 DEF LoaderSeen
  <2>4. CASE Decides  BY <1>1, <2>4 DEF Decides
  <2>5. CASE WaitBegins  BY <2>5 DEF WaitBegins, ByPort
  <2>6. CASE WaitGoesOn  BY <2>6 DEF WaitGoesOn
  <2>7. CASE WaitEnds  BY <2>7 DEF WaitEnds
  <2>8. CASE ProbeBegins \/ Probes \/ ProbeReturns
    BY <1>2, <2>8 DEF ProbeBegins, Probes, ProbeReturns
  <2>9. CASE ChangeBegins \/ Changes \/ ChangeReturns
    BY <1>2, <2>9 DEF ChangeBegins, Changes, ChangeReturns
  <2>10. CASE TransferEnds  BY <1>2, <2>10 DEF TransferEnds
  <2>11. CASE Inspected  BY <1>1, <2>11 DEF Inspected
  <2> QED
    BY <1>3, <2>1, <2>2, <2>3, <2>4, <2>5, <2>6, <2>7, <2>8, <2>9, <2>10, <2>11 DEF Toolkit
<1>4. CASE User
  <2>1. CASE MenuStarts \/ CliStarts \/ Refreshes \/ Quits
    BY <1>1, <2>1 DEF MenuStarts, CliStarts, Refreshes, Quits
  <2>2. CASE Picks \/ Cancels \/ Dismisses \/ WantsOut \/ PromptCut
    BY <1>1, <2>2 DEF Picks, Cancels, Dismisses, WantsOut, PromptCut
  <2>3. CASE MenuCut  BY <2>3 DEF MenuCut
  <2>4. CASE WaitCut  BY <2>4 DEF WaitCut
  <2>5. CASE ChangeCut \/ OutputRemoved  BY <1>2, <2>5 DEF ChangeCut, OutputRemoved
  <2> QED
    BY <1>4, <2>1, <2>2, <2>3, <2>4, <2>5 DEF User
<1>5. CASE RobotChanges \/ ListsMore
  BY <1>5 DEF RobotChanges, ListsMore
<1>6. CASE UNCHANGED vars
  BY <1>2, <1>6 DEF vars
<1> QED
  BY <1>3, <1>4, <1>5, <1>6 DEF Next

Deadline == IF purpose = "entry" THEN EntryTime ELSE SettleTime

WaitsOK ==
  /\ stage \in {"off", "loading", "waiting", "napping", "settling", "listing", "resting",
                "done", "failed"}
  /\ purpose \in {"entry", "context", "inspect"}
  /\ clock \in Nat /\ stop \in Nat /\ until \in Nat

(* Which waits there are, and that the clock is within the deadline.       *)
InTime ==
  /\ stage \in {"loading", "waiting", "napping"} => purpose = "entry"
  /\ stage \in {"settling", "resting"} => purpose # "inspect"
  /\ stage = "waiting" => clock <= EntryTime
  /\ stage = "napping" => clock < EntryTime
  /\ stage \in {"settling", "listing", "resting", "done"} /\ purpose # "inspect" =>
       clock <= stop /\ stop <= Deadline
  /\ stage = "listing" => clock <= until
  /\ stage = "listing" /\ purpose # "inspect" => until <= stop
  /\ stage = "done" /\ purpose # "inspect" => Whole \subseteq names

WaitsInv == WaitsOK /\ InTime

LEMMA WaitsInit == Init => WaitsInv
  BY TimesAssumption DEF Init, EntryInit, WaitsInv, WaitsOK, InTime

LEMMA WaitsNext == ASSUME WaitsInv, WaitsStep PROVE WaitsInv'
<1> USE TimesAssumption DEF WaitsInv, WaitsOK, InTime, Deadline, Waits
<1>1. CASE LoaderStarts  BY <1>1 DEF LoaderStarts
<1>2. CASE LoadFails  BY <1>2 DEF LoadFails
<1>3. CASE EntryLooks
  <2>1. CASE clock >= EntryTime
    <3>1. ~(clock < EntryTime)
      BY <2>1
    <3>2. stage' = "failed" /\ UNCHANGED <<purpose, clock, stop, until, names>>
      BY <1>3, <2>1, <3>1, Zenon DEF EntryLooks
    <3> QED  BY <3>2
  <2>2. CASE clock < EntryTime /\ bus = "dfu"
    BY <1>3, <2>2 DEF EntryLooks, Settles, Sooner
  <2>3. CASE clock < EntryTime /\ bus # "dfu"
    BY <1>3, <2>3 DEF EntryLooks
  <2> QED  BY <2>1, <2>2, <2>3
<1>4. CASE SettleLooks  BY <1>4 DEF SettleLooks, ListLimit, Sooner
<1>5. CASE ListEnds  BY <1>5 DEF ListEnds
<1>6. CASE Tick  BY <1>6 DEF Tick
<1>7. CASE InspectLists  BY <1>7 DEF InspectLists
<1>8. CASE WaitOver  BY <1>8 DEF WaitOver
<1>9. CASE UNCHANGED waitVars  BY <1>9 DEF waitVars
<1>10. ASSUME NEW byPort \in BOOLEAN, EntryBegins(byPort) PROVE WaitsInv'
  BY <1>10 DEF EntryBegins, Begins
<1>11. ASSUME NEW byPort \in BOOLEAN, ContextBegins(byPort) PROVE WaitsInv'
  BY <1>11 DEF ContextBegins, Begins
<1> QED
  BY <1>1, <1>2, <1>3, <1>4, <1>5, <1>6, <1>7, <1>8, <1>9, <1>10, <1>11
  DEF WaitsStep, WaitStep

(* No wait of an entry or an operation passes its deadline, whatever the   *)
(* times given to the parts of it, and it goes on with a whole loader only *)
(* (jibo_dfu.py: enter_shofel_dfu, _settled_dfu_alternatives).             *)
THEOREM MenuEntryOnTime == Spec => []EntryOnTime
<1>1. WaitsInv /\ [Next]_vars => WaitsInv'
  BY WaitsSteps, WaitsNext
<1>2. WaitsInv => EntryOnTime
  BY TimesAssumption DEF WaitsInv, WaitsOK, InTime, Deadline, EntryOnTime, Waiting
<1> QED
  BY WaitsInit, <1>1, <1>2, PTL DEF Spec

-----------------------------------------------------------------------------
(* Editing an image.                                                       *)
EditsStep ==
  \/ EditStep \/ EditCut \/ UNCHANGED editVars
  \/ \E own \in BOOLEAN : EditOver(own)
  \/ \E kinds \in SUBSET Kinds, own \in BOOLEAN : EditBegins(kinds, own)
  \/ edit = "off" /\ copy' = NoFile /\ UNCHANGED <<edit, kind, left>>

LEMMA EditsSteps == [Next]_vars => EditsStep
<1> SUFFICES ASSUME [Next]_vars PROVE EditsStep
  OBVIOUS
<1> USE DEF EditsStep
<1>1. ASSUME OnlyOwn PROVE EditsStep
  BY <1>1 DEF OnlyOwn
<1>2. CASE Toolkit
  <2>1. CASE LooksAtPort \/ LooksAtLoader \/ LoaderSeen \/ Decides \/ Inspected
    BY <1>1, <2>1 DEF LooksAtPort, LooksAtLoader, LoaderSeen, Decides, Inspected
  <2>2. CASE WaitBegins \/ WaitGoesOn \/ WaitEnds
    BY <2>2 DEF WaitBegins, WaitGoesOn, WaitEnds
  <2>3. CASE ProbeBegins \/ Probes \/ ProbeReturns \/ TransferEnds
    BY <2>3 DEF ProbeBegins, Probes, ProbeReturns, TransferEnds
  <2>4. CASE ChangeBegins
    <3>1. OfTheRobot \in BOOLEAN
      BY DEF OfTheRobot
    <3>2. (IF OfTheRobot THEN Kinds ELSE Kinds \ {"both", "all"}) \in SUBSET Kinds
      OBVIOUS
    <3> QED  BY <2>4, <3>1, <3>2 DEF ChangeBegins
  <2>5. CASE Changes  BY <2>5 DEF Changes
  <2>6. CASE ChangeReturns
    <3>1. OfTheRobot \in BOOLEAN
      BY DEF OfTheRobot
    <3> QED  BY <2>6, <3>1 DEF ChangeReturns
  <2> QED
    BY <1>2, <2>1, <2>2, <2>3, <2>4, <2>5, <2>6 DEF Toolkit
<1>3. CASE User
  <2>1. CASE MenuStarts \/ CliStarts \/ Refreshes \/ Quits
    BY <1>1, <2>1 DEF MenuStarts, CliStarts, Refreshes, Quits
  <2>2. CASE Picks \/ Cancels \/ Dismisses \/ WantsOut \/ PromptCut
    BY <1>1, <2>2 DEF Picks, Cancels, Dismisses, WantsOut, PromptCut
  <2>3. CASE MenuCut \/ WaitCut  BY <2>3 DEF MenuCut, WaitCut
  <2>4. CASE ChangeCut  BY <2>4 DEF ChangeCut
  <2>5. CASE OutputRemoved  BY <2>5 DEF OutputRemoved
  <2> QED
    BY <1>3, <2>1, <2>2, <2>3, <2>4, <2>5 DEF User
<1>4. CASE RobotChanges \/ ListsMore
  BY <1>4 DEF RobotChanges, ListsMore
<1>5. CASE UNCHANGED vars
  BY <1>5 DEF vars
<1> QED
  BY <1>2, <1>3, <1>4, <1>5 DEF Next

(* The value of copy is a record of these four fields.                     *)
IsCopy ==
  /\ copy = [there |-> copy.there, whole |-> copy.whole, new |-> copy.new, torn |-> copy.torn]
  /\ copy.there \in BOOLEAN /\ copy.whole \in BOOLEAN

(* What is at the output path at each stage of an edit.                    *)
EditInv ==
  /\ IsCopy
  /\ edit \in {"restricting", "replay", "replacing", "readback", "edited"} => copy.whole
  /\ edit \in {"copying", "restricting", "replay", "readback", "edited"} => copy.torn = {}
  /\ edit \in {"copying", "restricting"} => copy.new = {}
  /\ edit = "replacing" /\ left = <<>> => copy.torn = {}
  /\ edit = "edited" => Wanted \subseteq copy.new
  /\ edit = "failed" => ~copy.there \/ Untouched

LEMMA EditsInit == Init => EditInv
  BY DEF Init, EditInit, EditInv, NoFile, IsCopy

LEMMA EditsNext == ASSUME EditInv, EditsStep PROVE EditInv'
<1> USE DEF EditInv, EditGoes
<1>1. CASE Copied
  <2>1. copy' = [copy EXCEPT !.whole = TRUE] /\ edit' = "restricting" /\ edit = "copying"
    BY <1>1 DEF Copied
  <2> QED  BY <2>1 DEF IsCopy
<1>2. CASE JournalReplayed  BY <1>2 DEF JournalReplayed, IsCopy
<1>3. CASE FileOpened
  <2>1. IsCopy' /\ copy'.whole = copy.whole
    BY <1>3 DEF FileOpened, IsCopy
  <2> QED  BY <1>3, <2>1 DEF FileOpened
<1>4. CASE FileReplaced
  <2>1. IsCopy' /\ copy'.whole = copy.whole
    BY <1>4 DEF FileReplaced, IsCopy
  <2> QED  BY <1>4, <2>1 DEF FileReplaced
<1>5. CASE FileKept
  <2>1. IsCopy' /\ copy'.whole = copy.whole
    BY <1>5 DEF FileKept, IsCopy
  <2> QED  BY <1>5, <2>1 DEF FileKept
<1>6. CASE JournalReplayedAgain
  <2>1. IsCopy' /\ copy'.whole = copy.whole /\ copy'.torn = copy.torn
    BY <1>6 DEF JournalReplayedAgain, IsCopy
  <2> QED  BY <1>6, <2>1 DEF JournalReplayedAgain
<1>7. CASE EditDone
  <2>1. Wanted' = Wanted
    BY <1>7, Zenon DEF EditDone, Wanted
  <2> QED  BY <1>7, <2>1 DEF EditDone, Survived, IsCopy
<1>8. CASE EditFails
  <2>1. CASE edit' = "failed" /\ copy' = NoFile  BY <2>1 DEF NoFile, IsCopy
  <2>2. CASE edit' = "stuck" /\ UNCHANGED copy  BY <2>2 DEF IsCopy
  <2> QED  BY <1>8, <2>1, <2>2 DEF EditFails
<1>9. CASE EditCut  BY <1>9 DEF EditCut, IsCopy
<1>10. CASE UNCHANGED editVars
  <2>1. Wanted' = Wanted
    BY <1>10, Zenon DEF editVars, Wanted
  <2> QED  BY <1>10, <2>1 DEF editVars, IsCopy, Untouched
<1>11. ASSUME NEW own \in BOOLEAN, EditOver(own) PROVE EditInv'
  BY <1>11 DEF EditOver, NoFile, IsCopy
<1>12. ASSUME NEW kinds \in SUBSET Kinds, NEW own \in BOOLEAN, EditBegins(kinds, own)
       PROVE EditInv'
  BY <1>12 DEF EditBegins, NoFile, IsCopy
<1>14. CASE Restricted  BY <1>14 DEF Restricted, IsCopy, Untouched
<1>13. CASE edit = "off" /\ copy' = NoFile /\ UNCHANGED <<edit, kind, left>>
  BY <1>13 DEF NoFile, IsCopy
<1> QED
  BY <1>1, <1>2, <1>3, <1>4, <1>5, <1>6, <1>7, <1>8, <1>9, <1>10, <1>11, <1>12, <1>13,
     <1>14
  DEF EditsStep, EditStep

(* An edit of a var image, of whatever files, that reports success left    *)
(* every one of them as wanted; one that fails and can remove its copy     *)
(* left no half of it (jibo_images.py: _copy_for_edit, edit_mode,          *)
(* edit_wifi, edit_mode_wifi).                                             *)
THEOREM MenuEditedOrAbsent == Spec => []EditedOrAbsent
<1>1. EditInv /\ [Next]_vars => EditInv'
  BY EditsSteps, EditsNext
<1>2. EditInv => EditedOrAbsent
  BY DEF EditInv, EditedOrAbsent, Edited
<1> QED
  BY EditsInit, <1>1, <1>2, PTL DEF Spec

-----------------------------------------------------------------------------
(* What single requests leave of the loader's read cursor.                *)
IsData(r) == r.kind = "data"

\* Updating one field of a loader.
LEMMA SetState ==
  ASSUME NEW l \in Loader, NEW x \in DfuStates
  PROVE  LET r == [l EXCEPT !.state = x] IN
         /\ r \in Loader /\ r.state = x
         /\ r.good = l.good /\ r.readOpen = l.readOpen /\ r.writeOpen = l.writeOpen /\ r.expected = l.expected
         /\ r.offset = l.offset /\ r.pending = l.pending /\ r.flushing = l.flushing
BY SMTT(60) DEF Loader

LEMMA SetReadOpen ==
  ASSUME NEW l \in Loader, NEW x \in BOOLEAN
  PROVE  LET r == [l EXCEPT !.readOpen = x] IN
         /\ r \in Loader /\ r.readOpen = x
         /\ r.state = l.state /\ r.good = l.good /\ r.writeOpen = l.writeOpen /\ r.expected = l.expected
         /\ r.offset = l.offset /\ r.pending = l.pending /\ r.flushing = l.flushing
BY SMTT(60) DEF Loader

LEMMA SetExpected ==
  ASSUME NEW l \in Loader, NEW x \in Nat
  PROVE  LET r == [l EXCEPT !.expected = x] IN
         /\ r \in Loader /\ r.expected = x
         /\ r.state = l.state /\ r.good = l.good /\ r.readOpen = l.readOpen /\ r.writeOpen = l.writeOpen
         /\ r.offset = l.offset /\ r.pending = l.pending /\ r.flushing = l.flushing
BY SMTT(60) DEF Loader

LEMMA SetOffset ==
  ASSUME NEW l \in Loader, NEW x \in 0 .. PartitionSize
  PROVE  LET r == [l EXCEPT !.offset = x] IN
         /\ r \in Loader /\ r.offset = x
         /\ r.state = l.state /\ r.good = l.good /\ r.readOpen = l.readOpen /\ r.writeOpen = l.writeOpen
         /\ r.expected = l.expected /\ r.pending = l.pending /\ r.flushing = l.flushing
BY SMTT(60) DEF Loader

LEMMA SetFlushing ==
  ASSUME NEW l \in Loader, NEW x \in BOOLEAN
  PROVE  LET r == [l EXCEPT !.flushing = x] IN
         /\ r \in Loader /\ r.flushing = x
         /\ r.state = l.state /\ r.good = l.good /\ r.readOpen = l.readOpen /\ r.writeOpen = l.writeOpen
         /\ r.expected = l.expected /\ r.offset = l.offset /\ r.pending = l.pending
BY SMTT(60) DEF Loader

LEMMA PolledCursor ==
  ASSUME NEW l \in Loader
  PROVE  /\ StatusPolled(l) \in Loader
         /\ StatusPolled(l).offset = l.offset /\ StatusPolled(l).readOpen = l.readOpen
         /\ StatusPolled(l).expected = l.expected
<1> DEFINE s == CASE l.state = "dnload_sync" -> "dnload_idle"
                  [] l.state = "manifest_sync" -> "manifest"
                  [] l.state = "manifest" -> "idle"
                  [] OTHER -> l.state
           q == [l EXCEPT !.state = s]
           f == l.flushing \/ l.state = "manifest"
<1>1. s \in DfuStates
  BY SMT DEF Loader, DfuStates
<1>2. q \in Loader /\ q.offset = l.offset
      /\ q.readOpen = l.readOpen /\ q.expected = l.expected
  BY <1>1, SetState
<1>3. f \in BOOLEAN
  OBVIOUS
<1>4. StatusPolled(l) = [q EXCEPT !.flushing = f]
  BY Zenon DEF StatusPolled
<1> HIDE DEF q, s, f
<1> QED BY <1>2, <1>3, <1>4, SetFlushing

LEMMA FreshType == FreshLoader \in Loader /\ FreshLoader.state = "idle"
<1>1. <<>> \in Seq(Int) /\ 0 \in 0 .. PartitionSize
  BY LoaderAssumption, SMT
<1> QED BY <1>1, SMT DEF Loader, FreshLoader, DfuStates

\* What one DFU_UPLOAD does: full blocks move the open cursor on, a short one
\* only occurs at the end.
LEMMA UploadFacts ==
  ASSUME NEW l \in Loader, NEW b \in Nat
  PROVE  LET r == Uploaded(l, b) IN
         /\ r.loader \in Loader
         /\ IsData(r.answer) =>
              /\ r.answer.from \in Nat /\ r.answer.len \in Nat
              /\ r.answer.len <= TransferSize
              /\ r.answer.len < TransferSize => r.answer.from + r.answer.len = PartitionSize
              /\ r.answer.len = TransferSize =>
                   r.loader.readOpen /\ r.loader.offset = r.answer.from + TransferSize
              /\ l.readOpen => r.answer.from = l.offset
              /\ LET e == IF l.readOpen THEN l.expected ELSE 0 IN
                 /\ e = IF l.state = "idle" THEN 0 ELSE b % BlockWrap
                 /\ r.loader.expected = (e + 1) % BlockWrap
              /\ ~l.readOpen => r.answer.from = 0
              /\ r.answer.len < TransferSize => ~r.loader.readOpen
         /\ ~IsData(r.answer) =>
              \/ /\ r.loader.readOpen = l.readOpen /\ r.loader.expected = l.expected
                 /\ r.loader.offset = l.offset
              \/ r.loader.expected = 0 /\ r.loader.offset = 0
<1> DEFINE u == [l EXCEPT !.state = "upload_idle"]
           c == ReadCursor(u)
           rest == PartitionSize - c.offset
           len == IF rest < TransferSize THEN rest ELSE TransferSize
           n == (c.expected + 1) % BlockWrap
           first == l.state = "idle"
           s == IF len < TransferSize /\ ~first THEN "idle" ELSE c.state
<1>1. /\ u \in Loader /\ u.offset = l.offset
      /\ u.readOpen = l.readOpen /\ u.expected = l.expected
  <2>1. "upload_idle" \in DfuStates
    BY DEF DfuStates
  <2> QED BY <2>1, SetState
<1> HIDE DEF u
<1>2. /\ c \in Loader /\ c.readOpen
      /\ l.readOpen => c.offset = l.offset /\ c.expected = l.expected
      /\ ~l.readOpen => c.offset = 0 /\ c.expected = 0
  <2>1. CASE u.readOpen
    BY <1>1, <2>1 DEF ReadCursor
  <2>2. CASE ~u.readOpen
    <3> DEFINE a == [u EXCEPT !.readOpen = TRUE]
               d == [a EXCEPT !.expected = 0]
    <3>1. a \in Loader /\ a.readOpen
      BY <1>1, SetReadOpen
    <3> HIDE DEF a
    <3>2. d \in Loader /\ d.readOpen /\ d.expected = 0
      BY <3>1, SetExpected
    <3>3. c = [d EXCEPT !.offset = 0]
      BY <2>2, Zenon DEF ReadCursor, a
    <3> HIDE DEF d, c
    <3>4. 0 \in 0 .. PartitionSize
      BY LoaderAssumption, SMT
    <3> QED BY <1>1, <2>2, <3>2, <3>3, <3>4, SetOffset
  <2> QED BY <2>1, <2>2
<1> HIDE DEF c
<1>3. /\ len \in Nat /\ c.offset + len \in 0 .. PartitionSize /\ c.offset \in Nat
      /\ len <= TransferSize /\ (len < TransferSize => c.offset + len = PartitionSize)
      /\ n \in Nat /\ s \in DfuStates
  <2>1. c.offset \in 0 .. PartitionSize /\ c.expected \in Nat /\ c.state \in DfuStates
    BY <1>2, SMT DEF Loader
  <2>2. n \in Nat
    BY <2>1, LoaderAssumption, SMT
  <2>3. s \in DfuStates
    BY <2>1, Zenon DEF DfuStates
  <2> QED BY <2>1, <2>2, <2>3, LoaderAssumption, SMT
<1>4. CASE l.state \notin {"idle", "upload_idle"}
  <2>1. Uploaded(l, b) = [loader |-> Stalled(l), answer |-> Fail]
    BY <1>4, Zenon DEF Uploaded
  <2>2. /\ Stalled(l).readOpen = l.readOpen /\ Stalled(l).expected = l.expected
        /\ Stalled(l).offset = l.offset
    <3>1. "error" \in DfuStates
      BY DEF DfuStates
    <3> QED BY <3>1, SetState DEF Stalled
  <2>3. ~IsData(Fail)
    BY DEF Fail, IsData
  <2>4. Stalled(l) \in Loader
    <3>1. "error" \in DfuStates
      BY DEF DfuStates
    <3> QED BY <3>1, SetState DEF Stalled
  <2> QED BY <2>1, <2>2, <2>3, <2>4
<1>5. CASE /\ l.state \in {"idle", "upload_idle"}
           /\ (IF first THEN 0 ELSE b % BlockWrap) # c.expected
  <2>1. Uploaded(l, b) = [loader |-> c, answer |-> Fail]
    BY <1>5, Zenon DEF Uploaded, c, u
  <2>2. ~IsData(Fail)
    BY DEF Fail, IsData
  <2>3. \/ /\ c.readOpen = l.readOpen /\ c.expected = l.expected
           /\ c.offset = l.offset
        \/ c.expected = 0 /\ c.offset = 0
    <3>1. l.readOpen \in BOOLEAN /\ c.readOpen \in BOOLEAN
      BY <1>2 DEF Loader
    <3> QED BY <1>2, <3>1
  <2>4. Uploaded(l, b).loader = c /\ Uploaded(l, b).answer = Fail
    BY <2>1
  <2>5. c \in Loader
    BY <1>2
  <2> QED BY <2>2, <2>3, <2>4, <2>5
<1>6. CASE /\ l.state \in {"idle", "upload_idle"}
           /\ (IF first THEN 0 ELSE b % BlockWrap) = c.expected
  <2> DEFINE d1 == [c EXCEPT !.expected = n]
             d2 == [d1 EXCEPT !.offset = c.offset + len]
             full == len = TransferSize
             d3 == [d2 EXCEPT !.readOpen = full]
             d == [d3 EXCEPT !.state = s]
  <2>1. Uploaded(l, b) =
          [loader |-> [c EXCEPT !.expected = n, !.offset = c.offset + len,
                                !.readOpen = full, !.state = s],
           answer |-> Data(c.offset, len)]
    BY <1>6, Zenon DEF Uploaded, c, u
  <2>2. [c EXCEPT !.expected = n, !.offset = c.offset + len,
                  !.readOpen = full, !.state = s] = d
    BY Zenon
  <2> HIDE DEF n, s, len
  <2>3. d1 \in Loader /\ d1.expected = n
    BY <1>2, <1>3, SetExpected
  <2> HIDE DEF d1
  <2>4. /\ d2 \in Loader /\ d2.offset = c.offset + len
        /\ d2.expected = n
    BY <1>3, <2>3, SetOffset
  <2> HIDE DEF d2
  <2>5. full \in BOOLEAN
    OBVIOUS
  <2> HIDE DEF full
  <2>6. /\ d3 \in Loader /\ d3.offset = c.offset + len
        /\ d3.readOpen = full /\ d3.expected = n
    BY <2>4, <2>5, SetReadOpen
  <2> HIDE DEF d3
  <2>7. /\ d \in Loader /\ d.offset = c.offset + len
        /\ d.readOpen = full /\ d.expected = n
    BY <1>3, <2>6, SetState
  <2> HIDE DEF d
  <2>9. /\ Uploaded(l, b).loader = d
        /\ Uploaded(l, b).answer = Data(c.offset, len)
    BY <2>1, <2>2
  <2>10. /\ Data(c.offset, len).kind = "data" /\ Data(c.offset, len).from = c.offset
         /\ Data(c.offset, len).len = len
    BY DEF Data
  <2>11. /\ c.expected = IF l.readOpen THEN l.expected ELSE 0
         /\ c.expected = IF l.state = "idle" THEN 0 ELSE b % BlockWrap
         /\ ~l.readOpen => c.offset = 0
    BY <1>2, <1>6 DEF first
  <2>12. len < TransferSize => ~full
    <3>1. len \in Nat /\ TransferSize \in Nat
      BY <1>3, LoaderAssumption
    <3> QED BY <3>1 DEF full
  <2>13. len = TransferSize => full
    BY DEF full
  <2>14. d.expected = (c.expected + 1) % BlockWrap
    BY <2>7 DEF n
  <2>15. IsData(Data(c.offset, len))
    BY <2>10 DEF IsData
  <2> QED
    BY <1>2, <1>3, <2>7, <2>9, <2>10, <2>11, <2>12, <2>13, <2>14, <2>15
<1> QED BY <1>4, <1>5, <1>6

-----------------------------------------------------------------------------
(* Reading the marker.                                                     *)
ProbesStep ==
  \/ ProbeStep(handle) /\ UNCHANGED handle
  \/ ProbeOver
  \/ \E there \in BOOLEAN : ProbeOpens(there)
  \/ probe = "off" /\ LeftBy(DfuStates)
  \/ LoaderRestarts /\ handle' = FALSE
  \/ UNCHANGED <<probeVars, handle>>

LEMMA ProbesSteps == ASSUME marker \in Loader, [Next]_vars PROVE ProbesStep
<1> USE DEF ProbesStep
<1>1. ASSUME OnlyOwn, UNCHANGED handle PROVE ProbesStep
  BY <1>1 DEF OnlyOwn
<1>2. ASSUME UNCHANGED ownVars, UNCHANGED probeVars PROVE ProbesStep
  BY <1>2 DEF ownVars
<1>3. CASE Toolkit
  <2>1. CASE LooksAtPort
    <3>1. OnlyOwn /\ UNCHANGED handle
      BY <2>1 DEF LooksAtPort, Found
    <3> QED  BY <1>1, <3>1
  <2>2. CASE Decides \/ Inspected
    BY <1>1, <2>2 DEF Decides, Inspected
  <2>3. CASE LooksAtLoader \/ WaitBegins \/ WaitGoesOn \/ ChangeBegins \/ Changes
    BY <1>2, <2>3 DEF LooksAtLoader, WaitBegins, WaitGoesOn, ChangeBegins, Changes
  <2>4. CASE LoaderSeen \/ WaitEnds \/ ChangeReturns
    BY <2>4 DEF LoaderSeen, Found, WaitEnds, ChangeReturns
  <2>5. CASE ProbeBegins
    <3>1. (OnPort /\ MarkerListed) \in BOOLEAN
      OBVIOUS
    <3> QED  BY <2>5, <3>1 DEF ProbeBegins
  <2>6. CASE Probes  BY <2>6 DEF Probes, ownVars
  <2>7. CASE ProbeReturns  BY <2>7 DEF ProbeReturns
  <2>8. CASE TransferEnds
    <3>1. /\ probe = "off" /\ UNCHANGED handle
          /\ \/ UNCHANGED probeVars \/ LeftBy({"idle"})
             \/ LeftBy({marker.state, "upload_idle", "dnload_idle", "error"})
      BY <2>8 DEF TransferEnds, Idle
    <3>2. {marker.state, "upload_idle", "dnload_idle", "error", "idle"} \subseteq DfuStates
      BY DEF Loader, DfuStates
    <3> QED  BY <3>1, <3>2 DEF LeftBy
  <2> QED
    BY <1>3, <2>1, <2>2, <2>3, <2>4, <2>5, <2>6, <2>7, <2>8 DEF Toolkit
<1>4. CASE User
  <2>1. CASE MenuStarts \/ CliStarts \/ Refreshes \/ Quits
    BY <1>1, <2>1 DEF MenuStarts, CliStarts, Refreshes, Quits
  <2>2. CASE Picks \/ Cancels \/ Dismisses \/ WantsOut \/ PromptCut
    BY <1>1, <2>2 DEF Picks, Cancels, Dismisses, WantsOut, PromptCut
  <2>3. CASE MenuCut \/ WaitCut
    BY <2>3 DEF MenuCut, WaitCut
  <2>4. CASE ChangeCut \/ OutputRemoved
    BY <1>2, <2>4 DEF ChangeCut, OutputRemoved
  <2> QED
    BY <1>4, <2>1, <2>2, <2>3, <2>4 DEF User
<1>5. CASE RobotChanges  BY <1>5 DEF RobotChanges
<1>6. CASE ListsMore  BY <1>2, <1>6 DEF ListsMore
<1>7. CASE UNCHANGED vars  BY <1>2, <1>7 DEF vars
<1> QED
  BY <1>3, <1>4, <1>5, <1>6, <1>7 DEF Next

(* An open cursor stands at the block the loader expects.                  *)
CursorAligned(l) == l.readOpen => l.offset = l.expected * TransferSize

ProbeOK ==
  /\ marker \in Loader /\ block \in Nat /\ bad \in BOOLEAN /\ handle \in BOOLEAN
  /\ probe \in {"off", "upload", "abort", "status", "done", "failed"}

(* While it reads, what was received are the first blocks, and the cursor  *)
(* of the robot it opened, if it is still there, is behind them.           *)
Reading ==
  probe = "upload" =>
    /\ ~bad /\ got = Places(0, block * TransferSize)
    /\ handle /\ block # 0 => marker.readOpen /\ marker.expected = block

(* A reading nothing went wrong with had the short block of the loader.    *)
ReadAll ==
  /\ probe \in {"abort", "status", "done"} /\ ~bad =>
       got = Places(0, MarkerSize) /\ ~marker.readOpen
  /\ probe = "done" => ~bad /\ marker.state = "idle"

ProbeInv == ProbeOK /\ CursorAligned(marker) /\ Reading /\ ReadAll

LEMMA PlacesFacts ==
  ASSUME NEW a \in Nat, NEW n \in Nat
  PROVE  /\ Len(Places(0, a)) = a
         /\ Places(0, a) \o Places(a, n) = Places(0, a + n)
BY SMT DEF Places

LEMMA AbortedFacts ==
  ASSUME NEW l \in Loader
  PROVE  /\ Aborted(l) \in Loader /\ Aborted(l).readOpen = l.readOpen
         /\ Aborted(l).expected = l.expected /\ Aborted(l).offset = l.offset
<1>1. "idle" \in DfuStates
  BY DEF DfuStates
<1> QED  BY <1>1, SetState DEF Aborted

LEMMA ProbeInvInit == Init => ProbeInv
<1> SUFFICES ASSUME Init PROVE ProbeInv
  OBVIOUS
<1>1. marker = FreshLoader /\ probe = "off" /\ block = 0 /\ bad = FALSE /\ handle = FALSE
  BY DEF Init, ProbeInit
<1>2. FreshLoader \in Loader /\ ~FreshLoader.readOpen
  BY FreshType DEF FreshLoader
<1> QED  BY <1>1, <1>2 DEF ProbeInv, ProbeOK, CursorAligned, Reading, ReadAll

(* What a DFU_UPLOAD does to an aligned cursor.                            *)
LEMMA AlignedUpload ==
  ASSUME NEW l \in Loader, NEW b \in Nat, CursorAligned(l)
  PROVE  LET r == Uploaded(l, b) IN
         /\ r.loader \in Loader /\ CursorAligned(r.loader)
         /\ IsData(r.answer) /\ (b # 0 => l.readOpen /\ l.expected = b) =>
              /\ r.answer.from = b * TransferSize
              /\ r.answer.len \in Nat /\ r.answer.len <= TransferSize
              /\ r.answer.len = TransferSize =>
                   /\ r.loader.readOpen /\ r.loader.expected = b + 1
                   /\ (b + 1) * TransferSize <= PartitionSize
              /\ r.answer.len < TransferSize => ~r.loader.readOpen
<1> DEFINE r == Uploaded(l, b)
           e == IF l.readOpen THEN l.expected ELSE 0
<1>1. /\ r.loader \in Loader /\ r.loader.offset \in Nat /\ r.loader.offset <= PartitionSize
      /\ l.expected \in Nat /\ l.offset \in Nat /\ TransferSize \in Nat \ {0}
      /\ BlockWrap \in Nat \ {0, 1} /\ PartitionSize \in Nat
      /\ PartitionSize < BlockWrap * TransferSize
  <2>1. r.loader \in Loader
    BY UploadFacts
  <2> HIDE DEF r
  <2> QED  BY <2>1, LoaderAssumption, MarkerAssumption, SMT DEF Loader
<1>2. CASE ~IsData(r.answer)
  <2>1. \/ /\ r.loader.readOpen = l.readOpen /\ r.loader.expected = l.expected
           /\ r.loader.offset = l.offset
        \/ r.loader.expected = 0 /\ r.loader.offset = 0
    BY <1>2, UploadFacts
  <2> HIDE DEF r
  <2>2. 0 = 0 * TransferSize
    BY <1>1, SMT
  <2>3. ASSUME r.loader.expected = 0 /\ r.loader.offset = 0 PROVE CursorAligned(r.loader)
    BY <2>2, <2>3, Zenon DEF CursorAligned
  <2>4. ASSUME r.loader.readOpen = l.readOpen, r.loader.expected = l.expected,
               r.loader.offset = l.offset
        PROVE  CursorAligned(r.loader)
    BY <2>4, Zenon DEF CursorAligned
  <2>5. CursorAligned(r.loader)
    BY <2>1, <2>3, <2>4, Zenon
  <2> QED  BY <1>1, <1>2, <2>5 DEF r
<1>3. CASE IsData(r.answer)
  <2>1. /\ r.answer.from \in Nat /\ r.answer.len \in Nat /\ r.answer.len <= TransferSize
        /\ r.answer.len = TransferSize =>
             r.loader.readOpen /\ r.loader.offset = r.answer.from + TransferSize
        /\ r.answer.len < TransferSize => ~r.loader.readOpen
        /\ l.readOpen => r.answer.from = l.offset
        /\ ~l.readOpen => r.answer.from = 0
        /\ r.loader.expected = (e + 1) % BlockWrap
        /\ e = IF l.state = "idle" THEN 0 ELSE b % BlockWrap
    BY <1>3, UploadFacts
  <2> HIDE DEF r
  <2>2. e \in Nat /\ r.answer.from = e * TransferSize
    <3>1. CASE l.readOpen  BY <1>1, <2>1, <3>1 DEF CursorAligned
    <3>2. CASE ~l.readOpen  BY <1>1, <2>1, <3>2, SMT
    <3> QED  BY <3>1, <3>2
  <2>3. ASSUME b # 0 => l.readOpen /\ l.expected = b PROVE e = b
    <3>1. CASE b # 0  BY <2>3, <3>1
    <3>2. CASE b = 0
      <4>1. 0 % BlockWrap = 0
        BY <1>1, SMT
      <4> QED  BY <2>1, <3>2, <4>1
    <3> QED  BY <3>1, <3>2
  <2> HIDE DEF e
  <2>4. ASSUME r.answer.len = TransferSize
        PROVE  /\ r.loader.expected = e + 1 /\ r.loader.offset = (e + 1) * TransferSize
               /\ (e + 1) * TransferSize <= PartitionSize
    <3>1. r.loader.offset = e * TransferSize + TransferSize
      BY <2>1, <2>2, <2>4
    <3>2. r.loader.offset = (e + 1) * TransferSize
      BY <1>1, <2>2, <3>1, SMT
    <3>3. (e + 1) * TransferSize < BlockWrap * TransferSize
      BY <1>1, <2>2, <3>2, SMT
    <3>4. e + 1 < BlockWrap
      <4>1. ASSUME BlockWrap <= e + 1 PROVE FALSE
        <5>1. BlockWrap * TransferSize <= (e + 1) * TransferSize
          BY <1>1, <2>2, <4>1, SMT
        <5> QED  BY <1>1, <2>2, <3>3, <5>1, SMT
      <4> QED  BY <1>1, <2>2, <4>1, SMT
    <3>5. (e + 1) % BlockWrap = e + 1
      BY <1>1, <2>2, <3>4, SMT
    <3> QED  BY <1>1, <2>1, <3>2, <3>5
  <2>5. CursorAligned(r.loader)
    <3>1. CASE r.answer.len = TransferSize  BY <2>4, <3>1 DEF CursorAligned
    <3>2. CASE r.answer.len < TransferSize  BY <2>1, <3>2 DEF CursorAligned
    <3> QED  BY <1>1, <2>1, <3>1, <3>2
  <2>6. ASSUME b # 0 => l.readOpen /\ l.expected = b
        PROVE  /\ r.answer.from = b * TransferSize
               /\ r.answer.len = TransferSize =>
                    /\ r.loader.readOpen /\ r.loader.expected = b + 1
                    /\ (b + 1) * TransferSize <= PartitionSize
    <3>1. e = b
      BY <2>3, <2>6
    <3> QED  BY <2>1, <2>2, <2>4, <3>1
  <2> QED  BY <1>1, <2>1, <2>5, <2>6 DEF r
<1> QED  BY <1>2, <1>3

LEMMA BlockReadInv == ASSUME ProbeInv, BlockRead(handle), UNCHANGED handle PROVE ProbeInv'
<1> DEFINE r == Uploaded(marker, block)
<1>1. /\ marker \in Loader /\ block \in Nat /\ CursorAligned(marker) /\ handle
      /\ probe = "upload" /\ bad = FALSE /\ got = Places(0, block * TransferSize)
      /\ block # 0 => marker.readOpen /\ marker.expected = block
      /\ TransferSize \in Nat \ {0} /\ PartitionSize \in Nat /\ MarkerSize = PartitionSize
  BY LoaderAssumption, MarkerAssumption DEF ProbeInv, ProbeOK, Reading, BlockRead
<1>2. PICK n \in 0 .. r.answer.len :
        /\ r.answer.kind = "data" /\ marker' = r.loader
        /\ got' = got \o Places(r.answer.from, n)
        /\ IF n < TransferSize
           THEN probe' = "abort" /\ bad' = ~WholeMarker(got') /\ UNCHANGED block
           ELSE UNCHANGED <<probe, bad>> /\ block' = block + 1
  BY DEF BlockRead, ProbeGoes
<1>3. IsData(r.answer)
  BY <1>2 DEF IsData
<1>4. /\ marker' \in Loader /\ CursorAligned(marker')
      /\ r.answer.from = block * TransferSize
      /\ r.answer.len \in Nat /\ r.answer.len <= TransferSize
      /\ r.answer.len = TransferSize =>
           /\ marker'.readOpen /\ marker'.expected = block + 1
           /\ (block + 1) * TransferSize <= PartitionSize
      /\ r.answer.len < TransferSize => ~marker'.readOpen
  BY <1>1, <1>2, <1>3, AlignedUpload
<1> HIDE DEF r
<1>5. n \in Nat /\ n <= r.answer.len /\ block * TransferSize \in Nat
  BY <1>1, <1>2, <1>4, SMT
<1>6. got' = Places(0, block * TransferSize + n) /\ Len(got') = block * TransferSize + n
  <2>1. got' = Places(0, block * TransferSize) \o Places(block * TransferSize, n)
    BY <1>1, <1>2, <1>4, Zenon
  <2>2. block * TransferSize + n \in Nat
    BY <1>5, SMT
  <2> QED  BY <1>5, <2>1, <2>2, PlacesFacts
<1>7. CASE n < TransferSize
  <2>1. probe' = "abort" /\ block' = block /\ bad' = ~WholeMarker(got')
    BY <1>2, <1>7
  <2>2. ASSUME ~bad' PROVE got' = Places(0, MarkerSize) /\ ~marker'.readOpen
    <3>1. block * TransferSize + n = MarkerSize
      BY <1>6, <2>1, <2>2 DEF WholeMarker
    <3>2. r.answer.len < TransferSize
      <4>1. ASSUME r.answer.len = TransferSize PROVE FALSE
        <5>1. block * TransferSize + TransferSize <= PartitionSize
          BY <1>1, <1>4, <4>1, SMT
        <5> QED  BY <1>1, <1>5, <1>7, <3>1, <5>1, SMT
      <4> QED  BY <1>1, <1>4, <4>1, SMT
    <3> QED  BY <1>4, <1>6, <3>1, <3>2
  <2>3. bad' \in BOOLEAN
    BY <2>1
  <2> QED
    BY <1>1, <1>4, <2>1, <2>2, <2>3 DEF ProbeInv, ProbeOK, Reading, ReadAll
<1>8. CASE ~(n < TransferSize)
  <2>1. n = TransferSize /\ r.answer.len = TransferSize
    BY <1>1, <1>4, <1>5, <1>8, SMT
  <2>2. probe' = "upload" /\ bad' = FALSE /\ block' = block + 1 /\ block' \in Nat
    BY <1>1, <1>2, <1>8
  <2>3. block * TransferSize + TransferSize = (block + 1) * TransferSize
    BY <1>1, SMT
  <2>4. got' = Places(0, block' * TransferSize)
    BY <1>6, <2>1, <2>2, <2>3
  <2> QED
    BY <1>1, <1>4, <2>1, <2>2, <2>4 DEF ProbeInv, ProbeOK, Reading, ReadAll
<1> QED  BY <1>7, <1>8

LEMMA BlockFailsInv == ASSUME ProbeInv, BlockFails(handle), UNCHANGED handle PROVE ProbeInv'
<1>1. /\ marker \in Loader /\ block \in Nat /\ CursorAligned(marker)
      /\ probe' = "abort" /\ bad' = TRUE /\ block' = block
      /\ marker' \in {marker, Uploaded(marker, block).loader}
  BY DEF ProbeInv, ProbeOK, BlockFails, ProbeGoes
<1>2. marker' \in Loader /\ CursorAligned(marker')
  BY <1>1, AlignedUpload
<1> QED  BY <1>1, <1>2 DEF ProbeInv, ProbeOK, Reading, ReadAll

LEMMA ProbeAbortsInv == ASSUME ProbeInv, ProbeAborts(handle), UNCHANGED handle PROVE ProbeInv'
<1>1. /\ marker \in Loader /\ CursorAligned(marker) /\ block \in Nat
      /\ probe = "abort" /\ probe' = "status" /\ block' = block /\ got' = got
      /\ bad' \in {bad, TRUE} /\ bad \in BOOLEAN /\ marker' \in {marker, Aborted(marker)}
  BY DEF ProbeInv, ProbeOK, ProbeAborts, ProbeGoes
<1>2. /\ marker' \in Loader /\ CursorAligned(marker') /\ marker'.readOpen = marker.readOpen
  BY <1>1, AbortedFacts DEF CursorAligned
<1>3. ASSUME ~bad' PROVE got' = Places(0, MarkerSize) /\ ~marker'.readOpen
  <2>1. ~bad
    BY <1>1, <1>3
  <2>2. got = Places(0, MarkerSize) /\ ~marker.readOpen
    BY <1>1, <2>1 DEF ProbeInv, ReadAll
  <2> QED  BY <1>1, <1>2, <2>2
<1>4. bad' \in BOOLEAN
  BY <1>1
<1> QED  BY <1>1, <1>2, <1>3, <1>4 DEF ProbeInv, ProbeOK, Reading, ReadAll

LEMMA ProbeEndsInv == ASSUME ProbeInv, ProbeEnds(handle), UNCHANGED handle PROVE ProbeInv'
<1>1. /\ marker \in Loader /\ CursorAligned(marker) /\ block \in Nat /\ bad \in BOOLEAN
      /\ probe = "status" /\ UNCHANGED <<block, got, bad>>
      /\ marker' \in {marker, StatusPolled(marker)}
      /\ probe' = "failed" \/ (probe' = "done" /\ Ready(marker') /\ ~bad)
  <2>1. /\ marker \in Loader /\ CursorAligned(marker) /\ block \in Nat /\ bad \in BOOLEAN
    BY DEF ProbeInv, ProbeOK
  <2>2. probe = "status" /\ UNCHANGED <<block, got, bad>>
    BY DEF ProbeEnds
  <2> DEFINE ok == Ready(marker') /\ ~bad
  <2>3. \/ marker' = StatusPolled(marker) /\ probe' = IF ok THEN "done" ELSE "failed"
        \/ marker' = marker /\ probe' = "failed"
    BY Zenon DEF ProbeEnds, ProbeGoes
  <2>4. ok \in BOOLEAN
    OBVIOUS
  <2>5. ok => Ready(marker') /\ ~bad
    OBVIOUS
  <2> HIDE DEF ok
  <2>6. marker' \in {marker, StatusPolled(marker)}
    BY <2>3
  <2>7. probe' = "failed" \/ (probe' = "done" /\ ok)
    BY <2>3, <2>4
  <2>8. probe' = "failed" \/ (probe' = "done" /\ Ready(marker') /\ ~bad)
    BY <2>5, <2>7, Zenon
  <2> QED  BY <2>1, <2>2, <2>6, <2>8, Zenon
<1>2. marker' \in Loader /\ CursorAligned(marker') /\ marker'.readOpen = marker.readOpen
  BY <1>1, PolledCursor DEF CursorAligned
<1>3. ~bad' => got' = Places(0, MarkerSize) /\ ~marker'.readOpen
  BY <1>1, <1>2 DEF ProbeInv, ReadAll
<1> QED  BY <1>1, <1>2, <1>3 DEF ProbeInv, ProbeOK, Reading, ReadAll, Ready

LEMMA ProbeInvNext == ASSUME ProbeInv, ProbesStep, handle' \in BOOLEAN PROVE ProbeInv'
<1>1. CASE ProbeStep(handle) /\ UNCHANGED handle
  BY <1>1, BlockReadInv, BlockFailsInv, ProbeAbortsInv, ProbeEndsInv DEF ProbeStep
<1>2. CASE ProbeOver
  BY <1>2 DEF ProbeOver, ProbeGoes, ProbeInv, ProbeOK, Reading, ReadAll
<1>3. ASSUME NEW there \in BOOLEAN, ProbeOpens(there) PROVE ProbeInv'
  <2>1. 0 * TransferSize = 0 /\ Places(0, 0) = <<>>
    BY LoaderAssumption, SMT DEF Places
  <2> QED
    BY <1>3, <2>1 DEF ProbeOpens, ProbeGoes, ProbeInv, ProbeOK, Reading, ReadAll
<1>4. CASE probe = "off" /\ LeftBy(DfuStates)
  <2>1. PICK s \in DfuStates : marker' = [marker EXCEPT !.state = s]
    BY <1>4 DEF LeftBy
  <2>2. marker' \in Loader /\ CursorAligned(marker')
    BY <2>1, SetState DEF ProbeInv, ProbeOK, CursorAligned
  <2>3. probe' = "off" /\ UNCHANGED <<block, got, bad>>
    BY <1>4 DEF LeftBy
  <2> QED  BY <2>2, <2>3 DEF ProbeInv, ProbeOK, Reading, ReadAll
<1>5. CASE LoaderRestarts /\ handle' = FALSE
  <2>1. /\ FreshLoader \in Loader /\ ~FreshLoader.readOpen /\ FreshLoader.state = "idle"
        /\ CursorAligned(FreshLoader)
    BY FreshType DEF FreshLoader, CursorAligned
  <2>2. marker' = FreshLoader /\ UNCHANGED <<probe, block, got, bad>>
    BY <1>5 DEF LoaderRestarts
  <2> QED  BY <1>5, <2>1, <2>2 DEF ProbeInv, ProbeOK, Reading, ReadAll
<1>6. CASE UNCHANGED <<probeVars, handle>>
  BY <1>6 DEF probeVars, ProbeInv, ProbeOK, CursorAligned, Reading, ReadAll
<1> QED  BY <1>1, <1>2, <1>3, <1>4, <1>5, <1>6 DEF ProbesStep

LEMMA HandleType == ASSUME handle \in BOOLEAN, [Next]_vars PROVE handle' \in BOOLEAN
<1>1. CASE Toolkit
  BY <1>1 DEF Toolkit, LooksAtPort, LooksAtLoader, LoaderSeen, Found, Decides, WaitBegins,
     WaitGoesOn, WaitEnds, ProbeBegins, Probes, ProbeReturns, ChangeBegins, Changes,
     ChangeReturns, TransferEnds, Inspected, ownVars
<1>2. CASE User
  BY <1>2 DEF User, MenuStarts, CliStarts, Refreshes, Quits, Picks, Cancels, Dismisses,
     WantsOut, PromptCut, MenuCut, WaitCut, ChangeCut, OutputRemoved, ownVars
<1>3. CASE RobotChanges \/ ListsMore \/ UNCHANGED vars
  BY <1>3 DEF RobotChanges, ListsMore, vars, ownVars
<1> QED  BY <1>1, <1>2, <1>3 DEF Next

(* A marker read that succeeds has every unit of it once and in order,     *)
(* whatever cursor or state earlier transfers and cut-off probes left, and *)
(* closes the cursor behind it (jibo_dfu_bounded.py: _upload_bounded).     *)
THEOREM MenuMarkerWhole == Spec => []MarkerWhole
<1>1. ProbeInv /\ [Next]_vars => ProbeInv'
  BY ProbesSteps, HandleType, ProbeInvNext DEF ProbeInv, ProbeOK
<1>2. ProbeInv => MarkerWhole
  BY DEF ProbeInv, ProbeOK, ReadAll, MarkerWhole
<1> QED
  BY ProbeInvInit, <1>1, <1>2, PTL DEF Spec
=============================================================================
