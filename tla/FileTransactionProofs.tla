------------------------ MODULE FileTransactionProofs -------------------------
(***************************************************************************)
(* What the edits of single files guarantee for any number of windows,     *)
(* robots, files and contents, and that they implement ReviewedEdits.      *)
(***************************************************************************)
EXTENDS FileTransaction, WellFoundedInduction, TLAPS

-----------------------------------------------------------------------------
(* Files are numbered, and there is a first one in any set of them.        *)

LEMMA FirstFacts ==
  ASSUME NEW S, S \subseteq Files, S # {}
  PROVE  First(S) \in S /\ \A g \in S : First(S) <= g
<1> DEFINE R == OpToRel(<, Nat)
<1>1. IsWellFoundedOn(R, Nat) BY NatLessThanWellFounded
<1>2. \A x, y \in Nat : <<x, y>> \in R <=> x < y BY DEF OpToRel
<1>3. S \subseteq Nat BY FilesAssumption
<1> HIDE DEF R
<1>4. PICK x \in S : \A y \in S : ~ (<<y, x>> \in R) BY <1>1, <1>3, WFMin
<1>5. ASSUME NEW y \in S PROVE x <= y
  <2>1. x \in Nat /\ y \in Nat BY <1>3
  <2>2. ~ (<<y, x>> \in R) BY <1>4
  <2>3. ~ (y < x) BY <1>2, <2>1, <2>2
  <2> QED BY <2>1, <2>3
<1>6. \E f \in S : \A g \in S : f <= g BY <1>5
<1> QED BY <1>6 DEF First

\* The order of the files.
LEMMA Order ==
  ASSUME NEW x \in Nat, NEW y \in Nat
  PROVE  /\ ~ (x > y) <=> x <= y
         /\ x <= y /\ x # y => x < y
         /\ x < y => x # y /\ ~ (y <= x)
         /\ \A z \in Nat : x < y /\ y <= z => x < z
OBVIOUS

LEMMA BodyFacts ==
  /\ AnyBody \in Bodies
  /\ \A c \in Bodies : Whole(c) \in Cells
BY BodiesAssumption DEF AnyBody, Whole, Cells

-----------------------------------------------------------------------------
(* The mailbox of the robot at the port.                                   *)

MailOK ==
  /\ file \in [Robots -> [Files -> Cells]] /\ poisoned \subseteq Robots
  /\ DOMAIN answer = Robots
  /\ \A r \in Robots :
       answer[r].ok => /\ answer[r].value \in Cells
                       /\ answer[r].id \in Edits \X Asking \X Files

\* Replaced(e): the file that e is at changes from what its plan has.
Replaced(e) ==
  /\ file[here][at[e]] = plan[e][at[e]].before
  /\ \E c \in Cells : file' = [file EXCEPT ![here][at[e]] = c]

PlanType == [Edits -> [Files -> [before : Cells, on : Robots, after : Bodies]]]

LEMMA RunFacts ==
  ASSUME MailOK, here \in Robots, plan \in PlanType,
         NEW e \in Edits, at[e] \in Files, NEW stage \in Asking, Run(e, stage)
  PROVE  /\ MailOK'
         /\ file' = file \/ (stage = "write" /\ Replaced(e))
         /\ touched' = IF file' = file THEN touched
                       ELSE [touched EXCEPT ![e] = @ \cup {<<here, at[e]>>}]
<1> DEFINE q == Request(e, stage)
           p == plan[e][at[e]]
<1>1. p \in [before : Cells, on : Robots, after : Bodies] BY DEF PlanType
<1>2. /\ q.id = Nonce(e, stage) /\ q.f = at[e] /\ q.before = p.before /\ q.new = p.after
      /\ q.op = "write" => stage = "write"
      /\ q.id \in Edits \X Asking \X Files
  BY DEF Request, Nonce, Asking
<1>3. q.f \in Files /\ q.new \in Bodies BY <1>1, <1>2
<1>4. Serves(here, q) \/ CutShort(here, q) BY DEF Run
<1>5. Whole(q.new) \in Cells /\ file[here][q.f] \in Cells /\ file[here] \in [Files -> Cells]
  BY <1>3, BodyFacts DEF MailOK
<1>6. Partial(here, q) \subseteq Cells
  <2>1. [body |-> q.new, len |-> file[here][q.f].len] \in Cells
        /\ [body |-> Junk, len |-> file[here][q.f].len] \in Cells
    BY <1>3, <1>5 DEF Cells
  <2> QED BY <1>5, <2>1 DEF Partial
<1> HIDE DEF q
<1> DEFINE Changes1 == q.op = "write" /\ file[here][q.f] = q.before
                       /\ \E c \in Cells : file' = [file EXCEPT ![here][q.f] = c]
           Told == \/ answer' = [answer EXCEPT ![here] = NoAnswer]
                   \/ \E v \in Cells : answer' = [answer EXCEPT ![here] =
                                                    [ok |-> TRUE, id |-> q.id, value |-> v]]
<1>7. (file' = file \/ Changes1) /\ poisoned' \subseteq poisoned \cup {here} /\ Told
  <2>1. CASE Refuses(here, q) BY <2>1 DEF Refuses
  <2>2. CASE Looks(here, q)
    <3>1. Whole(file[here][q.f].len) \in Cells BY <1>5, BodyFacts DEF Cells
    <3> QED BY <1>5, <2>2, <3>1 DEF Looks, Answers
  <2>3. CASE Replaces(here, q)
    BY <1>5, <2>3 DEF Replaces, MayReplace, AsBefore, Answers
  <2>4. CASE Spoils(here, q)
    BY <1>6, <2>4 DEF Spoils, MayReplace, AsBefore
  <2>5. CASE CutShort(here, q)
    BY <1>6, <2>5 DEF CutShort, MayReplace, AsBefore
  <2> QED BY <1>4, <2>1, <2>2, <2>3, <2>4, <2>5 DEF Serves
<1>8. file' \in [Robots -> [Files -> Cells]]
  <2>1. file \in [Robots -> [Files -> Cells]] BY DEF MailOK
  <2>2. ASSUME NEW c \in Cells, file' = [file EXCEPT ![here][q.f] = c]
        PROVE  file' \in [Robots -> [Files -> Cells]]
    <3> DEFINE row == [file[here] EXCEPT ![q.f] = c]
    <3>1. row \in [Files -> Cells] BY <1>5
    <3>2. file' = [file EXCEPT ![here] = row] BY <2>2
    <3> HIDE DEF row
    <3> QED BY <2>1, <3>1, <3>2
  <2> QED BY <1>7, <2>1, <2>2
<1>9. DOMAIN answer' = Robots /\
      \A r \in Robots : answer'[r].ok => /\ answer'[r].value \in Cells
                                         /\ answer'[r].id \in Edits \X Asking \X Files
  <2> HIDE DEF Changes1
  <2>1. NoAnswer.ok = FALSE BY DEF NoAnswer
  <2>2. CASE answer' = [answer EXCEPT ![here] = NoAnswer]
    BY <2>1, <2>2 DEF MailOK
  <2>3. ASSUME NEW v \in Cells,
               answer' = [answer EXCEPT ![here] = [ok |-> TRUE, id |-> q.id, value |-> v]]
        PROVE  DOMAIN answer' = Robots /\
               \A r \in Robots : answer'[r].ok => /\ answer'[r].value \in Cells
                                                  /\ answer'[r].id \in Edits \X Asking \X Files
    BY <1>2, <2>3 DEF MailOK
  <2> QED BY <1>7, <2>2, <2>3
<1>10. MailOK' BY <1>7, <1>8, <1>9 DEF MailOK
<1>11. Changes1 => stage = "write" /\ Replaced(e) BY <1>2 DEF Replaced
<1> QED BY <1>7, <1>10, <1>11 DEF Run

-----------------------------------------------------------------------------
(* Types.                                                                  *)

Places == Asking \cup {"idle", "review", "backup", "next", "failing", "end"}
Marks == {"none", "started", "verified", "mismatch"}
RecordType == [status : Statuses, entry : [Files -> Marks]]

HostOK ==
  /\ here \in Robots
  /\ pc \in [Edits -> Places] /\ at \in [Edits -> Files \cup {NoFile}]
  /\ waiting \in [Edits -> BOOLEAN]
  /\ todo \in [Edits -> SUBSET Files] /\ mine \in [Edits -> Robots]
  /\ plan \in PlanType
  /\ agreed \subseteq Edits /\ baseline \in [Edits -> SUBSET Robots]
  /\ readback \in [Edits -> Cells]
  /\ disk \in [Edits -> RecordType]
  /\ torn \subseteq Edits /\ adrift \subseteq Edits
  /\ touched \in [Edits -> SUBSET (Robots \X Files)]
  /\ faults \in 0 .. MaxFaults /\ boots \in Nat

\* An edit that asks the mailbox is at one of its files.
AtFile == \A e \in Edits : pc[e] \in Asking \/ e \in adrift => at[e] \in todo[e]

LEMMA TypeParts == HostOK /\ MailOK /\ AtFile => TypeOK
BY DEF HostOK, MailOK, AtFile, TypeOK, Places, Marks, RecordType, PlanType

\* One file of a plan is read.
LEMMA PlanSet ==
  ASSUME NEW p \in PlanType, NEW e \in Edits, NEW f \in Files,
         NEW x \in [before : Cells, on : Robots, after : Bodies],
         NEW q, q = [p EXCEPT ![e][f] = x]
  PROVE  q \in PlanType /\ \A d \in Edits : d # e => q[d] = p[d]
<1> DEFINE Row == [before : Cells, on : Robots, after : Bodies]
           row == [p[e] EXCEPT ![f] = x]
<1>1. p[e] \in [Files -> Row] BY DEF PlanType
<1> HIDE DEF Row
<1>2. row \in [Files -> Row] BY <1>1 DEF Row
<1>3. q = [p EXCEPT ![e] = row] OBVIOUS
<1> HIDE DEF row
<1>4. p \in [Edits -> [Files -> Row]] BY DEF PlanType, Row
<1>5. q \in [Edits -> [Files -> Row]] /\ \A d \in Edits : d # e => q[d] = p[d]
  BY <1>2, <1>3, <1>4
<1> QED BY <1>5 DEF PlanType, Row

LEMMA StatusFacts ==
  {"preparing", "already current", "cancelled", "write started", "verified",
   "verification failed", "failed", "failed before write"} \subseteq Statuses
BY DEF Statuses

LEMMA RecordFacts ==
  ASSUME HostOK, NEW e \in Edits, NEW s \in Statuses, NEW n \in [Files -> Marks],
         Records(e, s, n)
  PROVE  /\ disk' \in [Edits -> RecordType]
         /\ disk'[e].status = s /\ disk'[e].entry = n
         /\ \A d \in Edits : d # e => disk'[d] = disk[d]
BY DEF HostOK, Records, RecordType

LEMMA BlankFacts == Blank \in [Files -> Marks] /\ \A f \in Files : Blank[f] = "none"
BY DEF Blank, Marks

LEMMA HostStep ==
  ASSUME HostOK, MailOK, AtFile, [Next]_vars
  PROVE  HostOK'
<1>1. ASSUME NEW e \in Edits, Plans(e) PROVE HostOK'
  <2>1. ASSUME NEW S \in Selections, Begins(e, S) PROVE HostOK'
    <3>1. First(S) \in Files BY FirstFacts DEF Selections
    <3>2. disk' \in [Edits -> RecordType] BY <2>1, RecordFacts, StatusFacts, BlankFacts DEF Begins
    <3> QED BY <2>1, <3>1, <3>2
            DEF HostOK, Begins, Goes, Places, Asking, Selections, crashVars, ghosts
  <2>2. ASSUME pc[e] \in Asking, Collects(e)
        PROVE  /\ at[e] \in Files /\ Value \in Cells
               /\ waiting' \in [Edits -> BOOLEAN]
               /\ UNCHANGED <<here, todo, mine, agreed, baseline, torn, adrift, touched, faults, boots>>
    <3>1. at[e] \in Files BY <2>2 DEF AtFile, HostOK
    <3>2. Value \in Cells BY <2>2 DEF Collects, Answered, Value, MailOK, HostOK
    <3> QED BY <2>2, <3>1, <3>2 DEF Collects, HostOK, crashVars, ghosts
  <2>3. CASE StatRead(e)
    <3>1. pc[e] \in Asking /\ Collects(e) BY <2>3 DEF StatRead, Asking
    <3>2. plan' \in PlanType
      <4> DEFINE x == [plan[e][at[e]] EXCEPT !.before = Value, !.on = here]
      <4>3. plan \in PlanType BY DEF HostOK
      <4>4. at[e] \in Files /\ Value \in Cells BY <2>2, <3>1
      <4>5. here \in Robots BY DEF HostOK
      <4>0. plan[e][at[e]] \in [before : Cells, on : Robots, after : Bodies]
        BY <4>3, <4>4 DEF PlanType
      <4>1. x \in [before : Cells, on : Robots, after : Bodies]
        BY <4>0, <4>4, <4>5
      <4>2. plan' = plan \/ plan' = [plan EXCEPT ![e][at[e]] = x] BY <2>3 DEF StatRead
      <4> HIDE DEF x
      <4> QED BY <4>1, <4>2, <4>3, <4>4, PlanSet
    <3>3. pc' \in [Edits -> Places]
      <4>1. \E p \in {"read", "failing"} : Goes(e, p) BY <2>3 DEF StatRead
      <4> QED BY <4>1 DEF Goes, HostOK, Places, Asking
    <3> QED BY <2>2, <2>3, <3>1, <3>2, <3>3 DEF HostOK, StatRead
  <2>4. CASE FileRead(e)
    <3>1. pc[e] \in Asking /\ Collects(e) BY <2>4 DEF FileRead, Asking
    <3>2. plan' \in PlanType
      <4> DEFINE x(c) == [plan[e][at[e]] EXCEPT !.before = Value, !.after = c]
      <4>3. plan \in PlanType BY DEF HostOK
      <4>4. at[e] \in Files /\ Value \in Cells BY <2>2, <3>1
      <4>5. here \in Robots BY DEF HostOK
      <4>0. plan[e][at[e]] \in [before : Cells, on : Robots, after : Bodies]
        BY <4>3, <4>4 DEF PlanType
      <4>1. \A c \in Bodies : x(c) \in [before : Cells, on : Robots, after : Bodies]
        BY <4>0, <4>4
      <4>2. plan' = plan \/ \E c \in Bodies : plan' = [plan EXCEPT ![e][at[e]] = x(c)]
        BY <2>4 DEF FileRead
      <4> HIDE DEF x
      <4> QED BY <4>1, <4>2, <4>3, <4>4, PlanSet
    <3>3. pc' \in [Edits -> Places]
      <4>1. \E p \in {"review", "stat", "failing"} : Goes(e, p) BY <2>4 DEF FileRead
      <4> QED BY <4>1 DEF Goes, HostOK, Places, Asking
    <3>4. at' \in [Edits -> Files \cup {NoFile}]
      <4>1. Later(e) \subseteq Files BY DEF Later, HostOK
      <4>2. Later(e) # {} => First(Later(e)) \in Files BY <4>1, FirstFacts
      <4> QED BY <2>4, <4>2 DEF FileRead, HostOK
    <3> QED BY <2>2, <2>4, <3>1, <3>2, <3>3, <3>4 DEF HostOK, FileRead
  <2>5. CASE AlreadyCurrent(e) \/ Declined(e)
    <3>1. disk[e].entry \in [Files -> Marks] BY DEF HostOK, RecordType
    <3>2. disk' \in [Edits -> RecordType]
      BY <2>5, <3>1, RecordFacts, StatusFacts DEF AlreadyCurrent, Declined, Ends
    <3> QED BY <2>5, <3>2
            DEF AlreadyCurrent, Declined, Reviews, Ends, Goes, HostOK, Places, crashVars, ghosts
  <2>6. CASE Confirmed(e)
    BY <2>6 DEF Confirmed, Reviews, Goes, HostOK, Places, crashVars, ghosts
  <2> QED BY <1>1, <2>1, <2>3, <2>4, <2>5, <2>6 DEF Plans
<1>2. ASSUME NEW e \in Edits, NEW stage \in Asking, at[e] \in Files, Run(e, stage)
      PROVE  touched' \in [Edits -> SUBSET (Robots \X Files)]
  <2>1. MailOK /\ here \in Robots /\ plan \in PlanType BY DEF HostOK
  <2>2. touched' = IF file' = file THEN touched
                   ELSE [touched EXCEPT ![e] = @ \cup {<<here, at[e]>>}]
    BY <1>2, <2>1, RunFacts
  <2>3. <<here, at[e]>> \in Robots \X Files BY <1>2, <2>1
  <2>4. touched \in [Edits -> SUBSET (Robots \X Files)] BY DEF HostOK
  <2> QED BY <2>2, <2>3, <2>4
<1>3. ASSUME NEW e \in Edits, Sent(e) PROVE HostOK'
  <2>1. pc[e] \in Asking /\ Run(e, pc[e]) /\ at[e] \in Files BY <1>3 DEF Sent, AtFile, HostOK
  <2>2. touched' \in [Edits -> SUBSET (Robots \X Files)] BY <1>2, <2>1
  <2> QED BY <1>3, <2>2 DEF Sent, HostOK, crashVars
<1>4. ASSUME NEW e \in Edits, ExchangeFails(e) PROVE HostOK'
  BY <1>4 DEF ExchangeFails, Goes, HostOK, Places, crashVars, ghosts
<1>5. ASSUME NEW e \in Edits, Writes(e) PROVE HostOK'
  <2>1. disk[e].entry \in [Files -> Marks] BY DEF HostOK, RecordType
  <2>2. CASE WritesBegin(e)
    <3>1. disk' \in [Edits -> RecordType] BY <2>1, <2>2, RecordFacts, StatusFacts DEF WritesBegin
    <3>2. BaselineOf(e) \subseteq Robots BY DEF BaselineOf, HostOK
    <3> QED BY <2>2, <3>1, <3>2 DEF WritesBegin, Goes, HostOK, Places, crashVars, ghosts
  <2>3. CASE NotSaved(e)
    BY <2>3 DEF NotSaved, Goes, HostOK, Places, crashVars, ghosts
  <2>4. CASE FileNamed(e)
    <3>1. Left(e) \subseteq Files /\ Left(e) # {} BY <2>4 DEF FileNamed, Left, Later, HostOK
    <3>2. First(Left(e)) \in Files BY <3>1, FirstFacts
    <3>3. Named(e, First(Left(e))) \in [Files -> Marks] BY <2>1 DEF Named, Marks
    <3>4. disk' \in [Edits -> RecordType] BY <2>4, <3>3, RecordFacts, StatusFacts DEF FileNamed
    <3> QED BY <2>4, <3>2, <3>4 DEF FileNamed, Step, Goes, HostOK, Places, Asking, crashVars, ghosts
  <2>5. CASE Acknowledged(e)
    BY <2>5 DEF Acknowledged, Collects, Goes, HostOK, Places, Asking, crashVars, ghosts
  <2>6. CASE FileReread(e)
    <3>1. Value \in Cells BY <2>6 DEF FileReread, Collects, Answered, Value, MailOK, HostOK
    <3> QED BY <2>6, <3>1
            DEF FileReread, Collects, Goes, HostOK, Places, Asking, crashVars, ghosts
  <2>7. CASE FileChecked(e)
    <3>1. /\ [disk[e].entry EXCEPT ![at[e]] = "verified"] \in [Files -> Marks]
          /\ [disk[e].entry EXCEPT ![at[e]] = "mismatch"] \in [Files -> Marks]
      BY <2>1 DEF Marks
    <3>2. disk' \in [Edits -> RecordType] BY <2>7, <3>1, RecordFacts, StatusFacts DEF FileChecked
    <3> QED BY <2>7, <3>2
            DEF FileChecked, AfterCheck, Collects, Goes, HostOK, Places, crashVars, ghosts
  <2>8. CASE AllVerified(e) \/ FailureRecorded(e)
    <3>1. disk' \in [Edits -> RecordType]
      BY <2>1, <2>8, RecordFacts, StatusFacts DEF AllVerified, FailureRecorded, Ends
    <3> QED BY <2>8, <3>1
            DEF AllVerified, FailureRecorded, Ends, Step, Goes, HostOK, Places, crashVars, ghosts
  <2> QED BY <1>5, <2>2, <2>3, <2>4, <2>5, <2>6, <2>7, <2>8 DEF Writes
<1>6. ASSUME NEW e \in Edits, Killed(e) PROVE HostOK'
  BY <1>6 DEF Killed, Goes, HostOK, Places, ghosts
<1>7. ASSUME NEW e \in Edits, LateRequest(e) PROVE HostOK'
  <2>1. Run(e, "write") /\ "write" \in Asking /\ at[e] \in Files
    BY <1>7 DEF LateRequest, AtFile, HostOK, Asking
  <2>2. touched' \in [Edits -> SUBSET (Robots \X Files)] BY <1>2, <2>1
  <2> QED BY <1>7, <2>2 DEF LateRequest, HostOK, hostVars
<1>8. CASE PortExchanged \/ \E r \in Robots : Rebooted(r) \/ LoaderLost(r)
  <2>1. Fault /\ here' \in Robots /\ boots' \in {boots, boots + 1}
    BY <1>8 DEF PortExchanged, Rebooted, LoaderLost, HostOK
  <2>2. faults \in 0 .. MaxFaults /\ boots \in Nat BY DEF HostOK
  <2>3. faults < MaxFaults /\ faults' = faults + 1 BY <2>1 DEF Fault
  <2>4. faults' \in 0 .. MaxFaults BY <2>2, <2>3, BoundsAssumption
  <2>5. boots' \in Nat BY <2>1, <2>2
  <2> QED BY <2>1, <2>4, <2>5 DEF Fault, HostOK, hostVars, crashVars
<1>9. CASE UNCHANGED vars BY <1>9 DEF vars, HostOK, hostVars, crashVars, ghosts
<1> QED BY <1>1, <1>3, <1>4, <1>5, <1>6, <1>7, <1>8, <1>9 DEF Next

LEMMA MailStep ==
  ASSUME HostOK, MailOK, AtFile, [Next]_vars
  PROVE  MailOK'
<1> USE DEF HostOK
<1>1. ASSUME UNCHANGED mailVars PROVE MailOK' BY <1>1 DEF MailOK, mailVars
<1>2. ASSUME NEW e \in Edits, NEW stage \in Asking, at[e] \in Files, Run(e, stage) PROVE MailOK'
  BY <1>2, RunFacts
<1>3. ASSUME NEW e \in Edits, Sent(e) PROVE MailOK'
  BY <1>2, <1>3 DEF Sent, AtFile
<1>4. ASSUME NEW e \in Edits, LateRequest(e) PROVE MailOK'
  BY <1>2, <1>4 DEF LateRequest, AtFile, Asking
<1>5. ASSUME NEW e \in Edits, Plans(e) \/ ExchangeFails(e) \/ Writes(e) \/ Killed(e) PROVE MailOK'
  BY <1>1, <1>5 DEF Plans, ExchangeFails, Writes, Killed, Begins, StatRead, FileRead, AlreadyCurrent,
     Declined, Confirmed, Reviews, WritesBegin, NotSaved, FileNamed, Acknowledged, FileReread,
     FileChecked, AllVerified, FailureRecorded, Collects, Step
<1>6. CASE PortExchanged BY <1>1, <1>6 DEF PortExchanged
<1>7. ASSUME NEW r \in Robots, Rebooted(r) \/ LoaderLost(r) PROVE MailOK'
  <2>1. NoAnswer.ok = FALSE BY DEF NoAnswer
  <2>2. DOMAIN answer' = Robots /\ \A s \in Robots : answer'[s].ok => s # r /\ answer'[s] = answer[s]
    BY <1>7, <2>1 DEF Rebooted, LoaderLost, RobotRuns, Reloaded, MailOK
  <2>3. file' \in [Robots -> [Files -> Cells]]
    <3>1. CASE LoaderLost(r) BY <3>1 DEF LoaderLost, Reloaded, MailOK
    <3>2. CASE Rebooted(r)
      <4>1. PICK bodies \in [Files -> Bodies] :
              file' = [file EXCEPT ![r] = [f \in Files |-> Whole(bodies[f])]]
        BY <3>2 DEF Rebooted, RobotRuns
      <4>2. [f \in Files |-> Whole(bodies[f])] \in [Files -> Cells] BY BodyFacts
      <4> QED BY <4>1, <4>2 DEF MailOK
    <3> QED BY <1>7, <3>1, <3>2
  <2>4. poisoned' \subseteq Robots
    BY <1>7 DEF Rebooted, LoaderLost, RobotRuns, Reloaded, MailOK
  <2> QED BY <2>2, <2>3, <2>4 DEF MailOK
<1>8. CASE UNCHANGED vars BY <1>1, <1>8 DEF vars
<1> QED BY <1>3, <1>4, <1>5, <1>6, <1>7, <1>8 DEF Next

-----------------------------------------------------------------------------
(* The inductive invariant: what holds of every edit at its place.         *)

Planning == {"idle", "stat", "read", "review"}
Replacing == {"write", "reread", "restat"}
NoWrite == {"already current", "cancelled", "failed before write"}

\* Places: nothing is named before the review; an approved edit is past it.
PlaceOK(e) ==
  /\ pc[e] \in {"stat", "read"} => at[e] \in todo[e]
  /\ pc[e] \in Planning \cup {"backup"} =>
       disk[e].entry = Blank /\ disk[e].status \in {"none", "preparing"}
  /\ e \in agreed => pc[e] \notin Planning
  /\ pc[e] \in Replacing \cup {"backup", "next"} => e \in agreed
  /\ e \in adrift => pc[e] = "end" /\ e \in agreed

\* Progress: files before the one it is at are verified, that one is named,
\* and those behind are not.
NamingOK(e) ==
  /\ pc[e] \in Replacing \cup {"next"} =>
       /\ disk[e].status = "write started"
       /\ \A h \in Files : disk[e].entry[h] # "none" => h <= at[e]
  /\ pc[e] = "next" => \A f \in Changes(e) : f <= at[e] => disk[e].entry[f] = "verified"
  /\ pc[e] \in Replacing \/ e \in adrift =>
       /\ at[e] \in Changes(e) /\ disk[e].entry[at[e]] = "started"
       /\ disk[e].status = "write started"
  /\ disk[e].status = "verified" => \A f \in Changes(e) : disk[e].entry[f] = "verified"
  /\ \A f, g \in Files :
       f < g /\ f \in Changes(e) /\ disk[e].entry[g] # "none" => disk[e].entry[f] = "verified"

\* Changes: each is of a named file, and var was saved before.
ChangedOK(e) ==
  /\ \A r \in Robots, f \in Files :
       <<r, f>> \in touched[e] => f \in todo[e] /\ disk[e].entry[f] # "none"
  /\ touched[e] # {} => disk[e].status \notin NoWrite
  /\ pc[e] \in Replacing \cup {"next"} \/ e \in adrift \/ touched[e] # {} =>
       (todo[e] \cap VarFiles # {} => baseline[e] = {mine[e]})

EditOK(e) == PlaceOK(e) /\ NamingOK(e) /\ ChangedOK(e)

LEMMA EditAtFile == HostOK /\ (\A e \in Edits : EditOK(e)) => AtFile
BY DEF AtFile, EditOK, PlaceOK, NamingOK, Replacing, Asking, Changes

\* Same(e): a step leaves edit e alone.
Same(e) ==
  /\ pc'[e] = pc[e] /\ at'[e] = at[e] /\ todo'[e] = todo[e] /\ mine'[e] = mine[e]
  /\ plan'[e] = plan[e] /\ baseline'[e] = baseline[e] /\ disk'[e] = disk[e]
  /\ touched'[e] = touched[e]
  /\ e \in agreed' <=> e \in agreed
  /\ e \in adrift' <=> e \in adrift

LEMMA Frame ==
  ASSUME NEW e \in Edits, EditOK(e), Same(e)
  PROVE  EditOK(e)'
<1>1. Changes(e)' = Changes(e) BY DEF Same, Changes
<1>2. PlaceOK(e)' BY DEF EditOK, PlaceOK, Same
<1>3. NamingOK(e)' BY <1>1 DEF EditOK, NamingOK, Same
<1>4. ChangedOK(e)' BY DEF EditOK, ChangedOK, Same
<1> QED BY <1>2, <1>3, <1>4 DEF EditOK

-----------------------------------------------------------------------------
\* A step of one edit leaves the others alone.
LEMMA OthersSame ==
  ASSUME HostOK, MailOK, AtFile, NEW e \in Edits, NEW d \in Edits, d # e,
         Plans(e) \/ Sent(e) \/ ExchangeFails(e) \/ Writes(e) \/ Killed(e) \/ LateRequest(e)
  PROVE  Same(d)
<1> USE DEF Same
<1>1. /\ DOMAIN pc = Edits /\ DOMAIN at = Edits /\ DOMAIN todo = Edits /\ DOMAIN mine = Edits
      /\ DOMAIN plan = Edits /\ DOMAIN baseline = Edits /\ DOMAIN disk = Edits
      /\ DOMAIN touched = Edits
  BY DEF HostOK, PlanType
<1>2. ASSUME NEW stage \in Asking, at[e] \in Files, Run(e, stage) PROVE touched'[d] = touched[d]
  <2>1. touched' = touched \/ touched' = [touched EXCEPT ![e] = @ \cup {<<here, at[e]>>}]
    BY <1>2 DEF Run
  <2> QED BY <1>1, <2>1
<1>3. CASE Sent(e)
  <2>1. touched'[d] = touched[d] BY <1>2, <1>3 DEF Sent, AtFile, HostOK
  <2> QED BY <1>3, <2>1 DEF Sent, crashVars
<1>4. CASE LateRequest(e)
  <2>1. touched'[d] = touched[d] BY <1>2, <1>4 DEF LateRequest, AtFile, HostOK, Asking
  <2> QED BY <1>4, <2>1 DEF LateRequest, hostVars
<1>5. CASE Killed(e) BY <1>1, <1>5 DEF Killed, Goes, ghosts
<1>6. CASE ExchangeFails(e) BY <1>1, <1>6 DEF ExchangeFails, Goes, crashVars, ghosts
<1>7. CASE Plans(e)
  <2>1. ASSUME NEW S, Begins(e, S) PROVE Same(d)
    BY <1>1, <2>1 DEF Begins, Goes, Records, crashVars, ghosts
  <2>2. CASE StatRead(e) BY <1>1, <2>2 DEF StatRead, Collects, Goes, crashVars, ghosts
  <2>3. CASE FileRead(e) BY <1>1, <2>3 DEF FileRead, Collects, Goes, crashVars, ghosts
  <2>4. CASE AlreadyCurrent(e) \/ Declined(e) \/ Confirmed(e)
    BY <1>1, <2>4 DEF AlreadyCurrent, Declined, Confirmed, Reviews, Ends, Goes, Records, crashVars,
       ghosts
  <2> QED BY <1>7, <2>1, <2>2, <2>3, <2>4 DEF Plans
<1>8. CASE Writes(e)
  <2>1. CASE WritesBegin(e) BY <1>1, <2>1 DEF WritesBegin, Goes, Records, crashVars, ghosts
  <2>2. CASE NotSaved(e) BY <1>1, <2>2 DEF NotSaved, Goes, crashVars, ghosts
  <2>3. CASE FileNamed(e) BY <1>1, <2>3 DEF FileNamed, Step, Goes, Records, crashVars, ghosts
  <2>4. CASE Acknowledged(e) \/ FileReread(e)
    BY <1>1, <2>4 DEF Acknowledged, FileReread, Collects, Goes, crashVars, ghosts
  <2>5. CASE FileChecked(e)
    BY <1>1, <2>5 DEF FileChecked, Collects, Goes, Records, crashVars, ghosts
  <2>6. CASE AllVerified(e) \/ FailureRecorded(e)
    BY <1>1, <2>6 DEF AllVerified, FailureRecorded, Ends, Step, Goes, Records, crashVars, ghosts
  <2> QED BY <1>8, <2>1, <2>2, <2>3, <2>4, <2>5, <2>6 DEF Writes
<1> QED BY <1>3, <1>4, <1>5, <1>6, <1>7, <1>8

-----------------------------------------------------------------------------
(* The steps of an edit keep its invariant.                                *)

LEMMA Domains ==
  ASSUME HostOK
  PROVE  /\ DOMAIN pc = Edits /\ DOMAIN at = Edits /\ DOMAIN todo = Edits /\ DOMAIN mine = Edits
         /\ DOMAIN plan = Edits /\ DOMAIN baseline = Edits /\ DOMAIN disk = Edits
         /\ DOMAIN touched = Edits
         /\ \A e \in Edits : todo[e] \subseteq Files /\ disk[e].entry \in [Files -> Marks]
BY DEF HostOK, PlanType, RecordType

LEMMA NoPairs ==
  ASSUME NEW T, T \subseteq Robots \X Files, \A r \in Robots, f \in Files : <<r, f>> \notin T
  PROVE  T = {}
OBVIOUS

\* Before any write there is nothing named and nothing changed.
LEMMA NothingNamed ==
  ASSUME HostOK, NEW e \in Edits, EditOK(e), disk[e].entry = Blank
  PROVE  touched[e] = {}
<1>1. touched[e] \subseteq Robots \X Files BY DEF HostOK
<1>2. \A r \in Robots, f \in Files : <<r, f>> \notin touched[e]
  BY BlankFacts DEF EditOK, ChangedOK
<1> QED BY <1>1, <1>2, NoPairs

\* What has no named file and no status of its own kind is in order.
LEMMA BlankOK ==
  ASSUME HostOK, NEW e \in Edits, PlaceOK(e)',
         disk'[e].entry = Blank, touched'[e] = {}, e \notin adrift',
         pc'[e] \notin Replacing \cup {"next"}, disk'[e].status # "verified"
  PROVE  EditOK(e)'
<1>1. NamingOK(e)' BY BlankFacts DEF NamingOK
<1>2. ChangedOK(e)' BY DEF ChangedOK
<1> QED BY <1>1, <1>2 DEF EditOK

LEMMA PlansKeep ==
  ASSUME HostOK, NEW e \in Edits, EditOK(e), Plans(e)
  PROVE  EditOK(e)'
<1>1. pc[e] \in Planning /\ disk[e].entry = Blank /\ e \notin agreed /\ e \notin adrift
  <2>1. pc[e] \in Planning
    BY DEF Plans, Begins, StatRead, FileRead, AlreadyCurrent, Declined, Confirmed, Reviews, Planning
  <2> QED BY <2>1 DEF EditOK, PlaceOK, Planning
<1>2. touched[e] = {} BY <1>1, NothingNamed
<1>3. /\ \A f \in Files : Blank[f] = "none"
      /\ e \in Edits /\ e \notin adrift
  BY <1>1, BlankFacts
<1>4. CASE \E S \in Selections : Begins(e, S)
  <2>1. PICK S \in Selections : Begins(e, S) BY <1>4
  <2>2. First(S) \in S BY FirstFacts DEF Selections
  <2>3. pc'[e] = "stat" /\ at'[e] = First(S) /\ todo'[e] = S /\ UNCHANGED <<agreed, adrift, touched>>
    BY <2>1, Domains DEF Begins, Goes, crashVars, ghosts
  <2>4. disk'[e].entry = Blank /\ disk'[e].status = "preparing"
    BY <2>1, RecordFacts, StatusFacts, BlankFacts DEF Begins
  <2>5. PlaceOK(e)' BY <1>1, <2>2, <2>3, <2>4 DEF PlaceOK, Replacing, Planning
  <2> QED BY <1>1, <1>2, <2>3, <2>4, <2>5, BlankOK DEF Replacing
<1>5. CASE StatRead(e) \/ FileRead(e)
  <2>1. /\ UNCHANGED <<agreed, adrift, touched, disk, todo>> /\ pc[e] \in {"stat", "read"}
        /\ pc'[e] \in {"stat", "read", "review", "failing"}
    BY <1>5, Domains DEF StatRead, FileRead, Collects, Goes, crashVars, ghosts
  <2>2. pc'[e] \in {"stat", "read"} => at'[e] \in todo[e]
    <3>1. at[e] \in todo[e] BY <2>1 DEF EditOK, PlaceOK
    <3>2. at'[e] = at[e] \/ (Later(e) # {} /\ at'[e] = First(Later(e)))
      BY <1>5, Domains DEF StatRead, FileRead
    <3>3. Later(e) \subseteq Files /\ Later(e) \subseteq todo[e] BY Domains DEF Later
    <3> QED BY <3>1, <3>2, <3>3, FirstFacts
  <2>3. disk[e].status \in {"none", "preparing"} BY <1>1 DEF EditOK, PlaceOK
  <2>4. PlaceOK(e)' BY <1>1, <2>1, <2>2, <2>3 DEF PlaceOK, Replacing, Planning
  <2> QED BY <1>1, <1>2, <2>1, <2>3, <2>4, BlankOK DEF Replacing
<1>6. CASE AlreadyCurrent(e) \/ Declined(e)
  <2>1. UNCHANGED <<agreed, adrift, touched>> /\ pc'[e] = "end"
    BY <1>6, Domains DEF AlreadyCurrent, Declined, Reviews, Ends, Goes, crashVars, ghosts
  <2>2. disk'[e].entry = Blank /\ disk'[e].status \in NoWrite
    BY <1>1, <1>6, RecordFacts, StatusFacts, Domains DEF AlreadyCurrent, Declined, Ends, NoWrite
  <2>3. PlaceOK(e)' BY <1>1, <2>1, <2>2 DEF PlaceOK, Replacing, Planning
  <2> QED BY <1>1, <1>2, <2>1, <2>2, <2>3, BlankOK DEF Replacing, NoWrite
<1>7. CASE Confirmed(e)
  <2>1. UNCHANGED <<adrift, touched, disk>> /\ agreed' = agreed \cup {e} /\ pc'[e] = "backup"
    BY <1>7, Domains DEF Confirmed, Reviews, Goes, crashVars, ghosts
  <2>2. disk[e].status \in {"none", "preparing"} BY <1>1 DEF EditOK, PlaceOK
  <2>3. PlaceOK(e)' BY <1>1, <2>1, <2>2 DEF PlaceOK, Replacing, Planning
  <2> QED BY <1>1, <1>2, <2>1, <2>2, <2>3, BlankOK DEF Replacing
<1> QED BY <1>4, <1>5, <1>6, <1>7 DEF Plans

\* The file an edit is at is one it changes; it is sent to the mailbox only
\* while its record names it.
LEMMA RunKeeps ==
  ASSUME HostOK, MailOK, NEW e \in Edits, EditOK(e), NEW stage \in Asking, at[e] \in Files,
         Run(e, stage),
         stage = "write" => pc[e] \in Replacing \/ e \in adrift,
         UNCHANGED <<pc, at, todo, mine, plan, agreed, baseline, disk>>,
         e \in adrift' => e \in adrift
  PROVE  EditOK(e)'
<1>1. Changes(e)' = Changes(e) BY DEF Changes
<1>2. PlaceOK(e)' /\ NamingOK(e)' BY <1>1 DEF EditOK, PlaceOK, NamingOK
<1>3. CASE touched' = touched
  <2>1. ChangedOK(e) BY DEF EditOK
  <2>2. ChangedOK(e)' BY <1>3, <2>1 DEF ChangedOK
  <2> QED BY <1>2, <2>2 DEF EditOK
<1>4. CASE touched' # touched
  <2>1. stage = "write" /\ touched' = [touched EXCEPT ![e] = @ \cup {<<here, at[e]>>}]
    BY <1>4, RunFacts DEF HostOK
  <2>2. touched'[e] = touched[e] \cup {<<here, at[e]>>} BY <2>1, Domains
  <2>3. at[e] \in todo[e] /\ disk[e].entry[at[e]] = "started" /\ disk[e].status = "write started"
    BY <2>1 DEF EditOK, NamingOK, Changes
  <2>4. ChangedOK(e)' BY <2>1, <2>2, <2>3 DEF EditOK, ChangedOK, NoWrite
  <2> QED BY <1>2, <2>4 DEF EditOK
<1> QED BY <1>2, <1>3, <1>4 DEF EditOK

\* A failure, a kill or a wait changes nothing on disk or on a robot.
LEMMA StopKeeps ==
  ASSUME HostOK, NEW e \in Edits, EditOK(e),
         UNCHANGED <<at, todo, mine, plan, agreed, baseline, disk, touched>>,
         (pc'[e] = "failing" /\ e \notin adrift') \/ pc'[e] = "end",
         e \in adrift' => e \in adrift \/ pc[e] \in Replacing
  PROVE  EditOK(e)'
<1>1. Changes(e)' = Changes(e) BY DEF Changes
<1>2. PlaceOK(e)' BY DEF EditOK, PlaceOK, Planning, Replacing
<1>3. NamingOK(e)' BY <1>1 DEF EditOK, NamingOK, Replacing
<1>4. ChangedOK(e)' BY DEF EditOK, ChangedOK, Replacing
<1> QED BY <1>2, <1>3, <1>4 DEF EditOK

\* Each step of the writing keeps the order of the files.
LEMMA WritesKeep ==
  ASSUME HostOK, NEW e \in Edits, EditOK(e), Writes(e)
  PROVE  EditOK(e)'
<1>1. ASSUME UNCHANGED todo, UNCHANGED plan
      PROVE  Changes(e)' = Changes(e) /\ Later(e) \subseteq todo[e]
  BY <1>1 DEF Changes, Later
<1>2. Changes(e) \subseteq todo[e] /\ todo[e] \subseteq Files /\ disk[e].entry \in [Files -> Marks]
  BY Domains DEF Changes
<1>3. Files \subseteq Nat BY FilesAssumption
<1>4. at[e] \in Nat
  <2>1. at[e] \in Files \cup {0} BY DEF HostOK, NoFile
  <2>2. CASE at[e] \in Files BY <1>3, <2>2
  <2>3. CASE at[e] = 0 BY <2>3
  <2> QED BY <2>1, <2>2, <2>3
<1>5. pc[e] # "end" => e \notin adrift BY DEF EditOK, PlaceOK
<1>6. CASE WritesBegin(e)
  <2>1. /\ UNCHANGED <<todo, mine, plan, agreed, adrift, touched>>
        /\ pc[e] = "backup" /\ pc'[e] = "next" /\ at'[e] = NoFile
        /\ baseline'[e] = BaselineOf(e)
        /\ todo[e] \cap VarFiles = {} \/ here = mine[e]
    BY <1>6, Domains DEF WritesBegin, Goes, crashVars, ghosts
  <2>2. disk[e].entry = Blank /\ e \in agreed /\ e \notin adrift
    BY <1>5, <2>1 DEF EditOK, PlaceOK
  <2>3. disk'[e].entry = Blank /\ disk'[e].status = "write started"
    <3>1. Records(e, "write started", Blank) BY <1>6, <2>2 DEF WritesBegin
    <3>2. Blank \in [Files -> Marks] /\ "write started" \in Statuses BY BlankFacts, StatusFacts
    <3> QED BY <3>1, <3>2, RecordFacts
  <2>4. touched'[e] = {} BY <2>1, <2>2, NothingNamed
  <2>5. PlaceOK(e)' BY <2>1, <2>2, <2>3 DEF PlaceOK, Planning, Replacing
  <2>6. NamingOK(e)'
    <3>1. Changes(e)' \subseteq Files BY <1>1, <1>2, <2>1
    <3>2. \A f \in Files : ~ (f <= NoFile) BY FilesAssumption DEF NoFile
    <3> QED BY <2>1, <2>2, <2>3, <3>1, <3>2, BlankFacts DEF NamingOK, Replacing
  <2>7. ChangedOK(e)' BY <2>1, <2>3, <2>4 DEF ChangedOK, BaselineOf, NoWrite
  <2> QED BY <2>5, <2>6, <2>7 DEF EditOK
<1>7. CASE NotSaved(e)
  BY <1>5, <1>7, StopKeeps, Domains DEF NotSaved, Goes, crashVars, ghosts
<1>8. CASE FileNamed(e)
  <2> DEFINE g == First(Left(e))
  <2>1. /\ UNCHANGED <<todo, mine, plan, agreed, baseline, adrift, touched>>
        /\ pc[e] = "next" /\ pc'[e] = "write" /\ at'[e] = g
    BY <1>8, Domains DEF FileNamed, Step, Goes, crashVars, ghosts
  <2>2. g \in Changes(e) /\ g \in Later(e) /\ \A f \in Left(e) : g <= f
    BY <1>2, <1>8, FirstFacts DEF FileNamed, Left
  <2>3. g \in Files /\ at[e] < g BY <1>2, <1>3, <1>4, <2>2 DEF Later
  <2>4. Named(e, g) \in [Files -> Marks] BY <1>2 DEF Named, Marks
  <2>5. /\ disk'[e].status = "write started" /\ disk'[e].entry[g] = "started"
        /\ \A h \in Files : h # g => disk'[e].entry[h] = disk[e].entry[h]
    <3>1. disk'[e].status = "write started" /\ disk'[e].entry = Named(e, g)
      BY <1>8, <2>4, RecordFacts, StatusFacts DEF FileNamed
    <3> QED BY <1>2, <2>3, <3>1 DEF Named
  <2> HIDE DEF g
  <2>6. \A h \in Files : disk[e].entry[h] # "none" => h <= at[e]
    BY <2>1 DEF EditOK, NamingOK
  <2>7. \A f \in Changes(e) : f < g => disk[e].entry[f] = "verified"
    <3>1. ASSUME NEW f \in Changes(e), f < g PROVE f <= at[e]
      <4>1. f \in Nat /\ g \in Nat /\ f \in todo[e] BY <1>2, <1>3, <2>3
      <4>2. f \notin Left(e) BY <2>2, <3>1, <4>1
      <4>3. f \notin Later(e) BY <3>1, <4>2 DEF Left
      <4>4. ~ (f > at[e]) BY <4>1, <4>3 DEF Later
      <4> QED BY <1>4, <4>1, <4>4
    <3> QED BY <2>1, <3>1 DEF EditOK, NamingOK
  <2>8. e \in agreed /\ e \notin adrift BY <1>5, <2>1 DEF EditOK, PlaceOK
  <2>9. PlaceOK(e)' BY <2>1, <2>8 DEF PlaceOK, Planning, Replacing
  <2>10. ASSUME NEW f \in Files, NEW h \in Files, f < h, f \in Changes(e), disk'[e].entry[h] # "none"
         PROVE  disk'[e].entry[f] = "verified"
    <3>1. f \in Nat /\ h \in Nat /\ g \in Nat BY <1>3, <2>3
    <3>2. CASE h = g
      <4>1. f < g /\ f # g BY <2>10, <3>1, <3>2
      <4> QED BY <2>5, <2>7, <2>10, <4>1
    <3>3. CASE h # g
      <4>1. disk[e].entry[h] # "none" BY <2>5, <2>10, <3>3
      <4>2. h <= at[e] BY <2>6, <4>1
      <4>3. f # g BY <1>4, <2>3, <2>10, <3>1, <4>2
      <4>4. disk[e].entry[f] = "verified" BY <2>10, <4>1 DEF EditOK, NamingOK
      <4> QED BY <2>5, <4>3, <4>4
    <3> QED BY <3>2, <3>3
  <2>11. \A h \in Files : disk'[e].entry[h] # "none" => h <= at'[e]
    <3>1. ASSUME NEW h \in Files, disk'[e].entry[h] # "none", h # g PROVE h <= g
      <4>1. h <= at[e] BY <2>5, <2>6, <3>1
      <4> QED BY <1>3, <1>4, <2>3, <4>1
    <3> QED BY <1>3, <2>1, <2>3, <3>1
  <2>12. NamingOK(e)'
    BY <1>1, <2>1, <2>2, <2>5, <2>8, <2>10, <2>11 DEF NamingOK, Replacing
  <2>13. ChangedOK(e)' BY <2>1, <2>5 DEF EditOK, ChangedOK, NoWrite, Replacing
  <2> QED BY <2>9, <2>12, <2>13 DEF EditOK
<1>9. CASE Acknowledged(e) \/ FileReread(e)
  <2>1. /\ UNCHANGED <<at, todo, mine, plan, agreed, baseline, disk, adrift, touched>>
        /\ pc[e] \in Replacing /\ pc'[e] \in Replacing
    BY <1>9, Domains DEF Acknowledged, FileReread, Collects, Goes, Replacing, crashVars, ghosts
  <2>2. PlaceOK(e)' BY <1>5, <2>1 DEF EditOK, PlaceOK, Planning, Replacing
  <2>3. NamingOK(e)' BY <1>1, <2>1 DEF EditOK, NamingOK, Replacing
  <2>4. ChangedOK(e)' BY <2>1 DEF EditOK, ChangedOK, Replacing
  <2> QED BY <2>2, <2>3, <2>4 DEF EditOK
<1>10. CASE FileChecked(e)
  <2>1. /\ UNCHANGED <<at, todo, mine, plan, agreed, baseline, adrift, touched>>
        /\ pc[e] = "restat" /\ pc'[e] = AfterCheck(e)
    BY <1>10, Domains DEF FileChecked, Collects, Goes, crashVars, ghosts
  <2>2. /\ at[e] \in Changes(e) /\ disk[e].entry[at[e]] = "started" /\ e \in agreed /\ e \notin adrift
        /\ \A h \in Files : disk[e].entry[h] # "none" => h <= at[e]
    BY <1>5, <2>1 DEF EditOK, PlaceOK, NamingOK, Replacing
  <2>3. at[e] \in Files BY <1>2, <2>2
  <2>4. \A f \in Files : f < at[e] /\ f \in Changes(e) => disk[e].entry[f] = "verified"
    BY <2>2, <2>3 DEF EditOK, NamingOK
  <2>5. PICK m \in {"verified", "mismatch"}, s \in {"write started", "verification failed"} :
          /\ AsWritten(e) => m = "verified" /\ s = "write started"
          /\ Records(e, s, [disk[e].entry EXCEPT ![at[e]] = m])
    BY <1>10 DEF FileChecked
  <2>6. [disk[e].entry EXCEPT ![at[e]] = m] \in [Files -> Marks] BY <1>2, <2>5 DEF Marks
  <2>7. /\ disk'[e].status = s /\ disk'[e].entry[at[e]] = m
        /\ \A h \in Files : h # at[e] => disk'[e].entry[h] = disk[e].entry[h]
    <3>1. s \in Statuses BY <2>5, StatusFacts
    <3>2. disk'[e].status = s /\ disk'[e].entry = [disk[e].entry EXCEPT ![at[e]] = m]
      <4> DEFINE n == [disk[e].entry EXCEPT ![at[e]] = m]
      <4>1. n \in [Files -> Marks] /\ Records(e, s, n) BY <2>5, <2>6
      <4> HIDE DEF n
      <4>2. disk'[e].status = s /\ disk'[e].entry = n BY <3>1, <4>1, RecordFacts
      <4> QED BY <4>2 DEF n
    <3> QED BY <1>2, <2>3, <3>2
  <2>8. pc'[e] \in {"next", "end"} /\ (pc'[e] = "next" => AsWritten(e))
    BY <2>1 DEF AfterCheck
  <2>9. PlaceOK(e)' BY <2>1, <2>2, <2>8 DEF PlaceOK, Planning, Replacing
  <2>10. \A f, g \in Files :
           f < g /\ f \in Changes(e) /\ disk'[e].entry[g] # "none" => disk'[e].entry[f] = "verified"
    <3>1. ASSUME NEW f \in Files, NEW g \in Files, f < g, f \in Changes(e),
                 disk'[e].entry[g] # "none"
          PROVE  disk'[e].entry[f] = "verified"
      <4>1. disk[e].entry[g] # "none" BY <2>2, <2>7, <3>1
      <4>2. g <= at[e] BY <2>2, <4>1
      <4>3. f \in Nat /\ g \in Nat BY <1>3
      <4>4. f < at[e] /\ f # at[e] BY <1>4, <3>1, <4>2, <4>3, Order, Zenon
      <4> QED BY <2>4, <2>7, <3>1, <4>4
    <3> QED BY <3>1
  <2>11. \A h \in Files : disk'[e].entry[h] # "none" => h <= at[e] BY <2>2, <2>7
  <2>12. pc'[e] = "next" => \A f \in Changes(e) : f <= at[e] => disk'[e].entry[f] = "verified"
    <3>1. ASSUME pc'[e] = "next", NEW f \in Changes(e), f <= at[e] PROVE disk'[e].entry[f] = "verified"
      <4>1. f \in Files /\ f \in Nat BY <1>2, <1>3
      <4>2. CASE f = at[e] BY <2>5, <2>7, <2>8, <3>1, <4>2
      <4>3. CASE f # at[e]
        <5>1. f < at[e] BY <1>4, <3>1, <4>1, <4>3, Order, Zenon
        <5> QED BY <2>4, <2>7, <4>1, <4>3, <5>1
      <4> QED BY <4>2, <4>3
    <3> QED BY <3>1
  <2>13. NamingOK(e)'
    <3>1. pc'[e] = "next" => disk'[e].status = "write started" BY <2>5, <2>7, <2>8
    <3>2. disk'[e].status # "verified" BY <2>5, <2>7
    <3> QED BY <1>1, <2>1, <2>2, <2>8, <2>10, <2>11, <2>12, <3>1, <3>2 DEF NamingOK, Replacing
  <2>14. ChangedOK(e)'
    <3>1. \A h \in Files : disk[e].entry[h] # "none" => disk'[e].entry[h] # "none" BY <2>5, <2>7
    <3>2. disk'[e].status \notin NoWrite BY <2>5, <2>7 DEF NoWrite
    <3> QED BY <2>1, <2>2, <2>8, <3>1, <3>2 DEF EditOK, ChangedOK, Replacing
  <2> QED BY <2>9, <2>13, <2>14 DEF EditOK
<1>11. CASE AllVerified(e) \/ FailureRecorded(e)
  <2>1. /\ UNCHANGED <<at, todo, mine, plan, agreed, baseline, adrift, touched>>
        /\ pc[e] \in {"next", "failing"} /\ pc'[e] = "end"
    BY <1>11, Domains DEF AllVerified, FailureRecorded, Ends, Step, Goes, crashVars, ghosts
  <2>2. PICK s \in {"verified", "failed", "failed before write"} :
          /\ Records(e, s, disk[e].entry)
          /\ s = "verified" => pc[e] = "next" /\ Left(e) = {}
          /\ s = "failed before write" => ~Started(e)
    BY <1>11 DEF AllVerified, FailureRecorded, Ends
  <2>3. disk'[e].status = s /\ disk'[e].entry = disk[e].entry
    BY <1>2, <2>2, RecordFacts, StatusFacts
  <2>4. s = "verified" => \A f \in Changes(e) : disk[e].entry[f] = "verified"
    <3>1. ASSUME s = "verified", NEW f \in Changes(e) PROVE f <= at[e]
      <4>1. f \in todo[e] /\ f \in Nat BY <1>2, <1>3
      <4>2. f \notin Later(e) BY <2>2, <3>1 DEF Left
      <4>3. ~ (f > at[e]) BY <4>1, <4>2 DEF Later
      <4> QED BY <1>4, <4>1, <4>3, Order, Zenon
    <3> QED BY <2>2, <3>1 DEF EditOK, NamingOK
  <2>5. s = "failed before write" => touched[e] = {}
    <3>1. touched[e] \subseteq Robots \X Files BY DEF HostOK
    <3>2. ASSUME ~Started(e) PROVE touched[e] = {}
      <4>1. \A r \in Robots, f \in Files : <<r, f>> \notin touched[e]
        BY <3>2 DEF Started, EditOK, ChangedOK
      <4> QED BY <3>1, <4>1, NoPairs, Zenon
    <3> QED BY <2>2, <3>2
  <2>6. e \notin adrift BY <1>5, <2>1
  <2>7. PlaceOK(e)' BY <2>1, <2>6 DEF EditOK, PlaceOK, Planning, Replacing
  <2>8. NamingOK(e)'
    BY <1>1, <2>1, <2>3, <2>4, <2>6 DEF EditOK, NamingOK, Replacing
  <2>9. ChangedOK(e)' BY <2>1, <2>2, <2>3, <2>5, <2>6 DEF EditOK, ChangedOK, NoWrite, Replacing
  <2> QED BY <2>7, <2>8, <2>9 DEF EditOK
<1> QED BY <1>6, <1>7, <1>8, <1>9, <1>10, <1>11 DEF Writes

LEMMA EditStep ==
  ASSUME HostOK, MailOK, \A e \in Edits : EditOK(e), [Next]_vars
  PROVE  \A e \in Edits : EditOK(e)'
<1>1. AtFile BY EditAtFile
<1>2. ASSUME NEW e \in Edits,
             Plans(e) \/ Sent(e) \/ ExchangeFails(e) \/ Writes(e) \/ Killed(e) \/ LateRequest(e),
             EditOK(e)'
      PROVE  \A d \in Edits : EditOK(d)'
  <2>1. ASSUME NEW d \in Edits, d # e PROVE EditOK(d)'
    <3>1. Same(d) BY <1>1, <1>2, <2>1, OthersSame
    <3> QED BY <3>1, Frame
  <2> QED BY <1>2, <2>1
<1>3. ASSUME NEW e \in Edits, Plans(e) PROVE EditOK(e)' BY <1>3, PlansKeep
<1>4. ASSUME NEW e \in Edits, Writes(e) PROVE EditOK(e)' BY <1>4, WritesKeep
<1>5. ASSUME NEW e \in Edits, Sent(e) PROVE EditOK(e)'
  <2>1. pc[e] \in Asking /\ at[e] \in Files /\ Run(e, pc[e])
        /\ UNCHANGED <<pc, at, todo, mine, plan, agreed, baseline, disk, adrift>>
    BY <1>1, <1>5 DEF Sent, AtFile, HostOK, crashVars
  <2>2. pc[e] = "write" => pc[e] \in Replacing BY DEF Replacing
  <2> QED BY <2>1, <2>2, RunKeeps
<1>6. ASSUME NEW e \in Edits, LateRequest(e) PROVE EditOK(e)'
  <2>1. /\ "write" \in Asking /\ at[e] \in Files /\ Run(e, "write") /\ e \in adrift
        /\ adrift' = adrift \ {e}
        /\ UNCHANGED <<pc, at, todo, mine, plan, agreed, baseline, disk>>
    BY <1>1, <1>6 DEF LateRequest, AtFile, HostOK, Asking, hostVars
  <2> QED BY <2>1, RunKeeps
<1>7. ASSUME NEW e \in Edits, ExchangeFails(e) PROVE EditOK(e)'
  <2>1. pc[e] # "end" BY <1>7 DEF ExchangeFails, Asking
  <2>2. e \notin adrift BY <2>1 DEF EditOK, PlaceOK
  <2>3. /\ UNCHANGED <<at, todo, mine, plan, agreed, baseline, disk, touched, adrift>>
        /\ pc'[e] = "failing"
    BY <1>7, Domains DEF ExchangeFails, Goes, crashVars, ghosts
  <2> QED BY <2>2, <2>3, StopKeeps
<1>8. ASSUME NEW e \in Edits, Killed(e) PROVE EditOK(e)'
  <2>1. /\ UNCHANGED <<at, todo, mine, plan, agreed, baseline, disk, touched>>
        /\ pc'[e] = "end"
    BY <1>8, Domains DEF Killed, Goes, ghosts
  <2>2. e \in adrift' => e \in adrift \/ pc[e] \in Replacing BY <1>8 DEF Killed, Replacing
  <2> QED BY <2>1, <2>2, StopKeeps
<1>9. CASE PortExchanged \/ (\E r \in Robots : Rebooted(r) \/ LoaderLost(r)) \/ UNCHANGED vars
  <2>1. UNCHANGED <<hostVars, adrift, touched>>
    BY <1>9 DEF PortExchanged, Rebooted, LoaderLost, Fault, vars, crashVars, ghosts
  <2>2. \A d \in Edits : Same(d) BY <2>1 DEF hostVars, Same
  <2> QED BY <2>2, Frame
<1>10. CASE \E e \in Edits :
         Plans(e) \/ Sent(e) \/ ExchangeFails(e) \/ Writes(e) \/ Killed(e) \/ LateRequest(e)
  BY <1>2, <1>3, <1>4, <1>5, <1>6, <1>7, <1>8, <1>10
<1> QED BY <1>9, <1>10 DEF Next

-----------------------------------------------------------------------------
(* The invariant holds.                                                    *)

IInv == HostOK /\ MailOK /\ \A e \in Edits : EditOK(e)

LEMMA InitInv == Init => IInv
<1> SUFFICES ASSUME Init PROVE IInv OBVIOUS
<1>1. AnyBody \in Bodies /\ Whole(AnyBody) \in Cells BY BodyFacts
<1>2. HostOK
  <2>1. plan \in PlanType BY <1>1 DEF Init, PlanType
  <2>2. disk \in [Edits -> RecordType] BY BlankFacts DEF Init, RecordType, Statuses
  <2>3. readback \in [Edits -> Cells] BY <1>1 DEF Init
  <2>4. faults \in 0 .. MaxFaults /\ boots \in Nat BY BoundsAssumption DEF Init
  <2> QED BY <2>1, <2>2, <2>3, <2>4 DEF Init, HostOK, Places
<1>3. MailOK
  <2>1. {Whole(b) : b \in Bodies} \subseteq Cells BY BodyFacts
  <2>2. NoAnswer.ok = FALSE BY DEF NoAnswer
  <2> QED BY <2>1, <2>2 DEF Init, MailOK
<1>4. ASSUME NEW e \in Edits PROVE EditOK(e)
  <2>1. pc[e] = "idle" /\ disk[e].entry = Blank /\ disk[e].status = "none" /\ e \notin agreed
        /\ e \notin adrift /\ touched[e] = {}
    BY DEF Init
  <2>2. PlaceOK(e) BY <2>1 DEF PlaceOK, Planning, Replacing
  <2>3. NamingOK(e) BY <2>1, BlankFacts DEF NamingOK, Replacing
  <2>4. ChangedOK(e) BY <2>1 DEF ChangedOK, Replacing
  <2> QED BY <2>2, <2>3, <2>4 DEF EditOK
<1> QED BY <1>2, <1>3, <1>4 DEF IInv

LEMMA StepInv == IInv /\ [Next]_vars => IInv'
<1> SUFFICES ASSUME IInv, [Next]_vars PROVE IInv' OBVIOUS
<1>1. HostOK /\ MailOK /\ \A e \in Edits : EditOK(e) BY DEF IInv
<1>2. AtFile BY <1>1, EditAtFile
<1>3. HostOK' BY <1>1, <1>2, HostStep
<1>4. MailOK' BY <1>1, <1>2, MailStep
<1>5. \A e \in Edits : EditOK(e)' BY <1>1, EditStep
<1> QED BY <1>3, <1>4, <1>5 DEF IInv

LEMMA Invariant == Spec => []IInv
BY InitInv, StepInv, PTL DEF Spec

(* Every state has its types.                                              *)
THEOREM TypeCorrect == Spec => []TypeOK
<1>1. IInv => TypeOK BY EditAtFile, TypeParts DEF IInv
<1> QED BY <1>1, Invariant, PTL

(* A record that says nothing was written is right about every robot, and  *)
(* one that says all was verified names every change that was approved.    *)
THEOREM RecordsTellTheTruth == Spec => []StatusTrue
<1>1. IInv => StatusTrue
  BY DEF IInv, EditOK, ChangedOK, NamingOK, NoWrite, StatusTrue
<1> QED BY <1>1, Invariant, PTL

(* At most one file of an edit is in doubt, the last one the record names. *)
THEOREM OneFileInDoubt == Spec => []OneInDoubt
<1>1. IInv => OneInDoubt BY DEF IInv, EditOK, NamingOK, OneInDoubt
<1> QED BY <1>1, Invariant, PTL

(* An edit that changed a file on var had saved the var of the robot it    *)
(* began with, whichever robots were at the port since.                    *)
THEOREM VarIsSavedFirst == Spec => []VarSavedFirst
<1>1. IInv => VarSavedFirst
  <2> SUFFICES ASSUME IInv, NEW e \in Edits, NEW r \in Robots, NEW f \in VarFiles,
                      <<r, f>> \in touched[e]
               PROVE  baseline[e] = {mine[e]}
    BY DEF VarSavedFirst
  <2>1. f \in Files /\ ChangedOK(e) BY VarFilesAssumption DEF IInv, EditOK
  <2>2. f \in todo[e] /\ touched[e] # {} BY <2>1 DEF ChangedOK
  <2>3. todo[e] \cap VarFiles # {} BY <2>2
  <2> QED BY <2>1, <2>2, <2>3 DEF ChangedOK
<1> QED BY <1>1, Invariant, PTL

-----------------------------------------------------------------------------
(* The edits implement ReviewedEdits.                                      *)

Shown ==
  [e \in Edits |-> [f \in Files |->
     IF e \in agreed /\ f \in Changes(e) THEN plan[e][f].before ELSE NoAnswer]]
Noted == [e \in Edits |-> NamedFiles(e)]

\* Only an edit that is not approved yet may change its plan.
LEMMA ShownSame ==
  ASSUME \A d \in Edits : (d \in agreed' <=> d \in agreed)
                           /\ (d \in agreed => plan'[d] = plan[d] /\ todo'[d] = todo[d])
  PROVE  Shown' = Shown
<1>1. \A d \in Edits : d \in agreed => Changes(d)' = Changes(d) BY DEF Changes
<1> QED BY <1>1 DEF Shown

LEMMA NotedSame ==
  ASSUME \A d \in Edits : (d \in torn' <=> d \in torn),
         \A d \in Edits, f \in Files : disk'[d].entry[f] # "none" <=> disk[d].entry[f] # "none"
  PROVE  Noted' = Noted
<1>1. \A d \in Edits : NamedFiles(d)' = NamedFiles(d) BY DEF NamedFiles
<1> QED BY <1>1 DEF Noted

\* More files are named in one record.
LEMMA NotedMore ==
  ASSUME NEW e \in Edits, NEW F, F \subseteq Files, NamedFiles(e)' = NamedFiles(e) \cup F,
         \A d \in Edits : d # e => NamedFiles(d)' = NamedFiles(d),
         Shown' = Shown, file' = file, boots' = boots
  PROVE  Ledger!Note(e)
<1>1. Noted' = [Noted EXCEPT ![e] = @ \cup F] BY DEF Noted
<1> QED BY <1>1 DEF Ledger!Note, Shown, Noted

LEMMA Stutters ==
  ASSUME Shown' = Shown, Noted' = Noted, file' = file, boots' = boots
  PROVE  UNCHANGED Ledger!vars
BY DEF Ledger!vars, Shown, Noted

LEMMA RunLedger ==
  ASSUME IInv, NEW e \in Edits, NEW stage \in Asking, at[e] \in Files, Run(e, stage),
         stage = "write" => pc[e] \in Replacing \/ e \in adrift,
         UNCHANGED <<todo, plan, agreed, torn, disk, boots>>
  PROVE  Ledger!Next \/ UNCHANGED Ledger!vars
<1>1. Shown' = Shown /\ Noted' = Noted BY ShownSame, NotedSame
<1>2. CASE file' = file BY <1>1, <1>2, Stutters
<1>3. CASE file' # file
  <2>1. stage = "write" /\ Replaced(e) /\ here \in Robots
    BY <1>3, RunFacts DEF IInv, HostOK
  <2>2. at[e] \in Changes(e) /\ disk[e].entry[at[e]] = "started" /\ e \in agreed
    BY <2>1 DEF IInv, EditOK, NamingOK, PlaceOK
  <2>3. at[e] \in Noted[e] BY <2>2 DEF Noted, NamedFiles
  <2>4. file[here][at[e]] = Shown[e][at[e]] BY <2>1, <2>2 DEF Replaced, Shown
  <2>5. \E c \in Cells : file' = [file EXCEPT ![here][at[e]] = c] BY <2>1 DEF Replaced
  <2>6. Ledger!Replace(e, here, at[e])
    BY <1>1, <2>3, <2>4, <2>5 DEF Ledger!Replace, Shown, Noted
  <2> QED BY <2>1, <2>6 DEF Ledger!Next
<1> QED BY <1>2, <1>3

LEMMA PlansLedger ==
  ASSUME IInv, NEW e \in Edits, Plans(e)
  PROVE  Ledger!Next \/ UNCHANGED Ledger!vars
<1>1. pc[e] \in Planning /\ disk[e].entry = Blank /\ e \notin agreed
  <2>1. pc[e] \in Planning
    BY DEF Plans, Begins, StatRead, FileRead, AlreadyCurrent, Declined, Confirmed, Reviews, Planning
  <2> QED BY <2>1 DEF IInv, EditOK, PlaceOK, Planning
<1>2. HostOK BY DEF IInv
<1>3. AtFile /\ MailOK BY EditAtFile DEF IInv
<1>4. \A d \in Edits : d # e => Same(d) BY <1>2, <1>3, OthersSame
<1>5. UNCHANGED <<file, boots, torn>>
  BY DEF Plans, Begins, StatRead, FileRead, AlreadyCurrent, Declined, Confirmed, Reviews, Collects,
         mailVars, crashVars, ghosts
<1>6. disk'[e].entry = Blank
  <2>1. \/ \E s \in {"preparing", "already current", "cancelled"} : Records(e, s, Blank)
        \/ disk' = disk
    BY <1>1 DEF Plans, Begins, StatRead, FileRead, AlreadyCurrent, Declined, Confirmed, Ends
  <2> QED BY <1>1, <1>2, <2>1, RecordFacts, StatusFacts, BlankFacts
<1>7. Noted' = Noted BY <1>1, <1>4, <1>5, <1>6, NotedSame DEF Same
<1>8. CASE Confirmed(e)
  <2>1. agreed' = agreed \cup {e} /\ UNCHANGED <<plan, todo>>
    BY <1>8 DEF Confirmed, Reviews
  <2>2. \A f \in Files : Shown[e][f] = NoAnswer BY <1>1 DEF Shown
  <2> DEFINE cells == Shown'[e]
  <2>3. Shown' = [Shown EXCEPT ![e] = cells]
    <3>1. \A d \in Edits : Changes(d)' = Changes(d) BY <2>1 DEF Changes
    <3> QED BY <2>1, <3>1 DEF Shown
  <2>4. cells \in [Files -> Cells \cup {NoAnswer}]
    <3>1. \A f \in Files : plan'[e][f].before \in Cells BY <1>2, <2>1 DEF HostOK, PlanType
    <3> QED BY <3>1 DEF Shown
  <2>5. Ledger!Approve(e)
    <3> HIDE DEF cells
    <3> QED BY <1>5, <1>7, <2>2, <2>3, <2>4 DEF Ledger!Approve, Shown, Noted
  <2> QED BY <2>5 DEF Ledger!Next
<1>9. CASE ~ Confirmed(e)
  <2>1. agreed' = agreed
    BY <1>9 DEF Plans, Begins, StatRead, FileRead, AlreadyCurrent, Declined, Collects
  <2>2. Shown' = Shown BY <1>1, <1>4, <2>1, ShownSame DEF Same
  <2> QED BY <1>5, <1>7, <2>2, Stutters
<1> QED BY <1>8, <1>9

LEMMA WritesLedger ==
  ASSUME IInv, NEW e \in Edits, Writes(e)
  PROVE  Ledger!Next \/ UNCHANGED Ledger!vars
<1>1. HostOK BY DEF IInv
<1>2. AtFile /\ MailOK BY EditAtFile DEF IInv
<1>3. \A d \in Edits : d # e => Same(d) BY <1>1, <1>2, OthersSame
<1>4. UNCHANGED <<file, boots, torn, todo, plan, agreed>>
  BY DEF Writes, WritesBegin, NotSaved, FileNamed, Acknowledged, FileReread, FileChecked, AllVerified,
         FailureRecorded, Collects, Step, mailVars, crashVars, ghosts
<1>5. Shown' = Shown BY <1>4, ShownSame
<1>6. disk[e].entry \in [Files -> Marks] BY <1>1, Domains
<1>7. CASE FileNamed(e)
  <2> DEFINE g == First(Left(e))
  <2>1. g \in Files
    <3>1. Left(e) \subseteq Files /\ Left(e) # {}
      BY <1>1, <1>7, Domains DEF FileNamed, Left, Changes
    <3> QED BY <3>1, FirstFacts
  <2>2. Named(e, g) \in [Files -> Marks] BY <1>6 DEF Named, Marks
  <2>3. disk'[e].entry = Named(e, g)
    BY <1>1, <1>7, <2>2, RecordFacts, StatusFacts DEF FileNamed
  <2> HIDE DEF g
  <2>4. disk'[e].entry[g] = "started" /\
        \A h \in Files : h # g => disk'[e].entry[h] = disk[e].entry[h]
    BY <1>6, <2>1, <2>3 DEF Named
  <2>5. NamedFiles(e)' = NamedFiles(e) \cup {g}
    BY <1>4, <2>1, <2>4 DEF NamedFiles
  <2>6. \A d \in Edits : d # e => NamedFiles(d)' = NamedFiles(d)
    BY <1>3, <1>4 DEF Same, NamedFiles
  <2>7. {g} \subseteq Files BY <2>1
  <2>8. Ledger!Note(e) BY <1>4, <1>5, <2>5, <2>6, <2>7, NotedMore
  <2> QED BY <2>8 DEF Ledger!Next
<1>8. CASE ~ FileNamed(e)
  <2>1. \A f \in Files : disk'[e].entry[f] # "none" <=> disk[e].entry[f] # "none"
    <3>1. CASE FileChecked(e)
      <4>1. at[e] \in Files /\ disk[e].entry[at[e]] # "none"
        BY <1>1, <3>1, Domains DEF FileChecked, IInv, EditOK, NamingOK, Replacing, Changes
      <4>2. PICK m \in {"verified", "mismatch"}, s \in {"write started", "verification failed"} :
              Records(e, s, [disk[e].entry EXCEPT ![at[e]] = m])
        BY <3>1 DEF FileChecked
      <4> DEFINE n == [disk[e].entry EXCEPT ![at[e]] = m]
      <4>3. n \in [Files -> Marks] /\ s \in Statuses BY <1>6, <4>2, StatusFacts DEF Marks
      <4>4. n[at[e]] = m /\ \A h \in Files : h # at[e] => n[h] = disk[e].entry[h]
        BY <1>6, <4>1
      <4>5. Records(e, s, n) BY <4>2
      <4> HIDE DEF n
      <4>6. disk'[e].entry = n BY <1>1, <4>3, <4>5, RecordFacts
      <4> QED BY <4>1, <4>2, <4>4, <4>6
    <3>2. CASE ~ FileChecked(e)
      <4>1. disk' = disk \/ \E s \in Statuses : Records(e, s, disk[e].entry)
        BY <1>8, <3>2, StatusFacts
        DEF Writes, WritesBegin, NotSaved, Acknowledged, FileReread, AllVerified, FailureRecorded, Ends
      <4>2. disk'[e].entry = disk[e].entry BY <1>1, <1>6, <4>1, RecordFacts
      <4> QED BY <4>2
    <3> QED BY <3>1, <3>2
  <2>2. Noted' = Noted BY <1>3, <1>4, <2>1, NotedSame DEF Same
  <2> QED BY <1>4, <1>5, <2>2, Stutters
<1> QED BY <1>7, <1>8

LEMMA KilledLedger ==
  ASSUME IInv, NEW e \in Edits, Killed(e)
  PROVE  Ledger!Next \/ UNCHANGED Ledger!vars
<1>1. UNCHANGED <<file, boots, todo, plan, agreed, disk>>
  BY DEF Killed, mailVars, ghosts
<1>2. Shown' = Shown BY <1>1, ShownSame
<1>3. CASE torn' = torn
  <2>1. Noted' = Noted BY <1>1, <1>3, NotedSame
  <2> QED BY <1>1, <1>2, <2>1, Stutters
<1>4. CASE torn' = torn \cup {e}
  <2>1. NamedFiles(e) \subseteq Files BY DEF NamedFiles
  <2>2. NamedFiles(e)' = NamedFiles(e) \cup Files BY <1>4, <2>1 DEF NamedFiles
  <2>3. \A d \in Edits : d # e => NamedFiles(d)' = NamedFiles(d) BY <1>1, <1>4 DEF NamedFiles
  <2>4. Ledger!Note(e) BY <1>1, <1>2, <2>2, <2>3, NotedMore
  <2> QED BY <2>4 DEF Ledger!Next
<1> QED BY <1>3, <1>4 DEF Killed

LEMMA StepLedger == IInv /\ [Next]_vars => [Ledger!Next]_(Ledger!vars)
<1> SUFFICES ASSUME IInv, [Next]_vars PROVE Ledger!Next \/ UNCHANGED Ledger!vars OBVIOUS
<1>1. AtFile /\ HostOK BY EditAtFile DEF IInv
<1>2. ASSUME NEW e \in Edits, Plans(e) PROVE Ledger!Next \/ UNCHANGED Ledger!vars
  BY <1>2, PlansLedger
<1>3. ASSUME NEW e \in Edits, Writes(e) PROVE Ledger!Next \/ UNCHANGED Ledger!vars
  BY <1>3, WritesLedger
<1>4. ASSUME NEW e \in Edits, Killed(e) PROVE Ledger!Next \/ UNCHANGED Ledger!vars
  BY <1>4, KilledLedger
<1>5. ASSUME NEW e \in Edits, Sent(e) PROVE Ledger!Next \/ UNCHANGED Ledger!vars
  <2>1. pc[e] \in Asking /\ at[e] \in Files /\ Run(e, pc[e])
        /\ UNCHANGED <<todo, plan, agreed, torn, disk, boots>>
    BY <1>1, <1>5 DEF Sent, AtFile, HostOK, crashVars
  <2>2. pc[e] = "write" => pc[e] \in Replacing BY DEF Replacing
  <2> QED BY <2>1, <2>2, RunLedger
<1>6. ASSUME NEW e \in Edits, LateRequest(e) PROVE Ledger!Next \/ UNCHANGED Ledger!vars
  <2>1. /\ "write" \in Asking /\ at[e] \in Files /\ Run(e, "write") /\ e \in adrift
        /\ UNCHANGED <<todo, plan, agreed, torn, disk, boots>>
    BY <1>1, <1>6 DEF LateRequest, AtFile, HostOK, Asking, hostVars
  <2> QED BY <2>1, RunLedger
<1>7. ASSUME NEW e \in Edits, ExchangeFails(e) PROVE UNCHANGED Ledger!vars
  <2>1. UNCHANGED <<file, todo, plan, agreed, torn, disk, boots>>
    BY <1>7 DEF ExchangeFails, mailVars, crashVars, ghosts
  <2>2. Shown' = Shown /\ Noted' = Noted BY <2>1, ShownSame, NotedSame
  <2> QED BY <2>1, <2>2, Stutters
<1>8. ASSUME Fault \/ UNCHANGED vars PROVE Shown' = Shown /\ Noted' = Noted
  <2>1. UNCHANGED <<todo, plan, agreed, torn, disk>>
    BY <1>8 DEF Fault, vars, hostVars, crashVars
  <2> QED BY <2>1, ShownSame, NotedSame
<1>9. CASE PortExchanged \/ (\E r \in Robots : LoaderLost(r)) \/ UNCHANGED vars
  <2>1. UNCHANGED <<file, boots>> /\ (Fault \/ UNCHANGED vars)
    BY <1>9 DEF PortExchanged, LoaderLost, Reloaded, vars, mailVars, ghosts
  <2> QED BY <1>8, <2>1, Stutters
<1>10. ASSUME NEW r \in Robots, Rebooted(r) PROVE Ledger!Next
  <2>1. Fault /\ boots' = boots + 1 BY <1>10 DEF Rebooted
  <2>2. \E cells \in [Files -> Cells] : file' = [file EXCEPT ![r] = cells]
    <3>1. PICK bodies \in [Files -> Bodies] :
            file' = [file EXCEPT ![r] = [f \in Files |-> Whole(bodies[f])]]
      BY <1>10 DEF Rebooted, RobotRuns
    <3>2. [f \in Files |-> Whole(bodies[f])] \in [Files -> Cells] BY BodyFacts
    <3> QED BY <3>1, <3>2
  <2>3. Ledger!RobotRuns(r) BY <1>8, <2>1, <2>2 DEF Ledger!RobotRuns, Shown, Noted
  <2> QED BY <2>3 DEF Ledger!Next
<1> QED BY <1>2, <1>3, <1>4, <1>5, <1>6, <1>7, <1>9, <1>10 DEF Next

LEMMA InitLedger == Init => Ledger!Init
<1> SUFFICES ASSUME Init PROVE Ledger!Init OBVIOUS
<1>1. \A e \in Edits : NamedFiles(e) = {} BY BlankFacts DEF Init, NamedFiles
<1>2. file \in [Robots -> [Files -> Cells]] BY InitInv DEF IInv, MailOK
<1> QED BY <1>1, <1>2 DEF Init, Ledger!Init

(* A file changes only while it still holds exactly what its user approved *)
(* the edit against, and only after the record on disk named it: also with *)
(* several windows, a toolkit killed while it writes its record, robots    *)
(* exchanged or booted in between, and requests that reach a robot late.   *)
THEOREM ChangesOnlyAsReviewed == Spec => OnlyAsReviewed
BY InitLedger, Invariant, StepLedger, PTL DEF Spec, OnlyAsReviewed, Ledger!Spec
=============================================================================
