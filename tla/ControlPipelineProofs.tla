----------------------- MODULE ControlPipelineProofs ------------------------
(***************************************************************************)
(* Proofs about ControlPipeline: buffers of transfers in flight are never  *)
(* reused or released, and the pipeline implements RequestQueue.           *)
(***************************************************************************)
EXTENDS ControlPipeline, TLAPS

\* No slot twice in a sequence.
Distinct(s) == \A i, j \in 1 .. Len(s) : s[i] = s[j] => i = j

\* Unless an interrupt is under way, the kernel owns only queued slots that are
\* not done while the pipeline is in use, and only retained ones afterwards.
KernelOwnership ==
  /\ pc = "open" => ~unwinding
  /\ InUse /\ ~unwinding => Owned \subseteq {s \in Elems(queued) : ~done[s]}
  /\ pc = "left" /\ ~retained /\ ~unwinding => Owned = {}
  /\ pc = "closed" => Owned = {}

\* Free and queued slots, and unfinished and finished ones, are kept apart.
SlotsApart ==
  /\ Distinct(queued) /\ Distinct(ready)
  /\ free \cap Elems(queued) = {}
  /\ inKernel \cap Elems(ready) = {}

\* The queued slots carry consecutive request numbers, after the last answer.
NumbersInOrder ==
  /\ \A i \in 1 .. Len(queued) : number[queued[i]] = answered + i
  /\ pc = "open" => submitted = answered + Len(queued)

IInv == /\ TypeOK /\ SlotsApart /\ KernelOwnership /\ NumbersInOrder
        /\ NoReuseInFlight

-----------------------------------------------------------------------------
(* Sequences and the sets of their elements. *)

\* Appending adds exactly the new element to a sequence's elements.
LEMMA ElemsAppend ==
  ASSUME NEW S, NEW s \in Seq(S), NEW x \in S
  PROVE  /\ Append(s, x) \in Seq(S)
         /\ Len(Append(s, x)) = Len(s) + 1
         /\ \A i \in 1 .. Len(s) : Append(s, x)[i] = s[i]
         /\ Append(s, x)[Len(s) + 1] = x
         /\ Elems(Append(s, x)) = Elems(s) \cup {x}
BY SMT DEF Elems

\* A new element keeps a sequence free of repetitions.
LEMMA DistinctAppend ==
  ASSUME NEW S, NEW s \in Seq(S), NEW x \in S, Distinct(s), x \notin Elems(s)
  PROVE  Distinct(Append(s, x))
BY ElemsAppend, SMT DEF Distinct, Elems

\* Removing the head of a sequence without repetitions removes that element.
LEMMA ElemsTail ==
  ASSUME NEW S, NEW s \in Seq(S), s # <<>>, Distinct(s)
  PROVE  /\ Head(s) \in S /\ Head(s) = s[1] /\ Head(s) \in Elems(s)
         /\ Tail(s) \in Seq(S)
         /\ Len(s) \in Nat \ {0}
         /\ Len(Tail(s)) = Len(s) - 1
         /\ \A i \in 1 .. Len(Tail(s)) : Tail(s)[i] = s[i + 1]
         /\ Distinct(Tail(s))
         /\ Elems(Tail(s)) = Elems(s) \ {Head(s)}
<1>1. /\ Head(s) \in S /\ Head(s) = s[1] /\ Tail(s) \in Seq(S)
      /\ Len(s) \in Nat \ {0} /\ Len(Tail(s)) = Len(s) - 1
      /\ \A i \in 1 .. Len(Tail(s)) : Tail(s)[i] = s[i + 1]
  BY SMT
<1>2. Distinct(Tail(s))
  BY <1>1, SMT DEF Distinct
<1>3. Head(s) \in Elems(s)
  BY <1>1, SMT DEF Elems
<1>4. ASSUME NEW x \in Elems(Tail(s)) PROVE x \in Elems(s) \ {Head(s)}
  <2>1. PICK i \in 1 .. Len(Tail(s)) : x = Tail(s)[i]
    BY DEF Elems
  <2>2. i + 1 \in 1 .. Len(s) /\ x = s[i + 1] /\ i + 1 # 1 /\ 1 \in 1 .. Len(s)
    BY <2>1, <1>1, SMT
  <2>3. x # s[1]
    BY <2>2, <1>1, Zenon DEF Distinct
  <2> QED BY <2>2, <2>3, <1>1 DEF Elems
<1>5. ASSUME NEW x \in Elems(s) \ {Head(s)} PROVE x \in Elems(Tail(s))
  <2>1. PICK i \in 1 .. Len(s) : x = s[i]
    BY DEF Elems
  <2>2. i # 1
    BY <2>1, <1>1
  <2>3. i - 1 \in 1 .. Len(Tail(s)) /\ Tail(s)[i - 1] = s[i]
    BY <2>2, <1>1, SMT
  <2> QED BY <2>1, <2>3, Zenon DEF Elems
<1> QED BY <1>1, <1>2, <1>3, <1>4, <1>5, Zenon

\* A sequence shifted by one is the tail.
LEMMA ShiftIsTail ==
  ASSUME NEW S, NEW s \in Seq(S), NEW t \in Seq(S), Len(s) \in Nat \ {0},
         Len(t) = Len(s) - 1, \A i \in 1 .. Len(t) : t[i] = s[i + 1]
  PROVE  t = Tail(s) /\ s # <<>> /\ Head(s) = s[1]
<1>1. s # <<>> /\ Head(s) = s[1]
  BY SMT
<1>2. Tail(s) \in Seq(S) /\ Len(Tail(s)) = Len(s) - 1
      /\ \A i \in 1 .. Len(Tail(s)) : Tail(s)[i] = s[i + 1]
  BY <1>1, SMT
<1>3. t = Tail(s)
  BY <1>2, SMT
<1> QED BY <1>1, <1>3

\* The empty sequence.
LEMMA ElemsEmpty == Elems(<<>>) = {} /\ Distinct(<<>>) /\ Len(<<>>) = 0
BY SMT DEF Elems, Distinct

-----------------------------------------------------------------------------
(* The inductive invariant. *)

LEMMA InitInv == Init => IInv
<1> SUFFICES ASSUME Init PROVE IInv
  OBVIOUS
<1>1. TypeOK
  <2>1. queued \in Seq(Slots) /\ ready \in Seq(Slots)
    BY SMT DEF Init
  <2>2. done \in [Slots -> BOOLEAN] /\ number \in [Slots -> Nat]
    BY SMT DEF Init
  <2>3. free \subseteq Slots /\ inKernel \subseteq Slots /\ retained \in BOOLEAN
        /\ unwinding \in BOOLEAN
    BY Zenon DEF Init
  <2>4. submitted \in Nat /\ answered \in Nat /\ pc = "open"
    BY SMT DEF Init
  <2> QED BY <2>1, <2>2, <2>3, <2>4 DEF TypeOK
<1>2. Owned = {} /\ Elems(queued) = {} /\ SlotsApart /\ Len(queued) = 0
  BY ElemsEmpty DEF Init, Owned, SlotsApart
<1>3. KernelOwnership /\ NoReuseInFlight
  BY <1>2 DEF Init, KernelOwnership, NoReuseInFlight, Ending
<1>4. NumbersInOrder
  BY <1>2, SMT DEF Init, NumbersInOrder
<1> QED BY <1>1, <1>2, <1>3, <1>4 DEF IInv

\* Reaping one transfer moves it from the kernel's hands to done.
LEMMA CollectOwned ==
  ASSUME IInv, Collect, pc \in {"open", "cancelling"},
         UNCHANGED <<free, queued, inKernel, number, submitted, answered, pc,
                     retained, unwinding>>
  PROVE  IInv'
<1> USE DEF IInv, Collect
<1>1. /\ Head(ready) \in Slots /\ Head(ready) \in Elems(ready)
      /\ ready' \in Seq(Slots) /\ Distinct(ready')
      /\ Elems(ready') = Elems(ready) \ {Head(ready)}
  BY ElemsTail DEF TypeOK, SlotsApart
<1>2. TypeOK'
  BY <1>1 DEF TypeOK
<1>3. Head(ready) \in Owned /\ Owned' = Owned \ {Head(ready)}
  BY <1>1 DEF Owned, SlotsApart
<1>4. \A s \in Slots : done'[s] = (s = Head(ready) \/ done[s])
  BY <1>1, Zenon DEF TypeOK
<1>5. Elems(queued) \subseteq Slots /\ Elems(queued)' = Elems(queued)
  BY SMT DEF Elems, TypeOK
<1>6. ~unwinding => Owned' \subseteq {s \in Elems(queued) : ~done'[s]}
  <2>1. ~unwinding => Owned \subseteq {s \in Elems(queued) : ~done[s]}
    BY DEF KernelOwnership, InUse
  <2> QED BY <1>3, <1>4, <1>5, <2>1, Zenon
<1>7. KernelOwnership'
  BY <1>5, <1>6 DEF KernelOwnership
<1>8. SlotsApart'
  BY <1>1, <1>5 DEF SlotsApart, Distinct
<1>9. NumbersInOrder' /\ NoReuseInFlight'
  BY <1>3 DEF NumbersInOrder, NoReuseInFlight, Ending
<1> QED BY <1>2, <1>7, <1>8, <1>9

LEMMA SubmitInv == ASSUME IInv, NEW s \in Slots, Submit(s) PROVE IInv'
<1> USE DEF IInv, Submit
<1>1. /\ queued' \in Seq(Slots) /\ Len(queued') = Len(queued) + 1
      /\ \A i \in 1 .. Len(queued) : queued'[i] = queued[i]
      /\ queued'[Len(queued) + 1] = s
      /\ Elems(queued') = Elems(queued) \cup {s}
  BY ElemsAppend DEF TypeOK
<1>2. s \notin Elems(queued) /\ s \notin Owned /\ ~unwinding
  BY DEF SlotsApart, NoReuseInFlight, Ending, KernelOwnership
<1>3. Distinct(queued')
  BY <1>2, DistinctAppend DEF TypeOK, SlotsApart
<1>4. TypeOK'
  BY <1>1, SMT DEF TypeOK
<1>5. Owned' = Owned \cup {s} /\ Elems(queued)' = Elems(queued')
  BY DEF Owned, Elems
<1>6. Elems(queued) \subseteq Slots
  BY SMT DEF Elems, TypeOK
<1>7. Owned' \subseteq {t \in Elems(queued') : ~done'[t]}
  <2>1. ~done'[s] /\ \A t \in Slots \ {s} : done'[t] = done[t]
    BY Zenon DEF TypeOK
  <2>2. Owned \subseteq {t \in Elems(queued) : ~done[t]}
    BY <1>2 DEF KernelOwnership, InUse
  <2>3. \A t \in Elems(queued) : t \in Slots \ {s}
    BY <1>2, <1>6
  <2>4. \A t \in Elems(queued) : done'[t] = done[t]
    BY <2>1, <2>3, Zenon
  <2> QED BY <1>1, <1>5, <2>1, <2>2, <2>4, Zenon
<1>8. KernelOwnership'
  BY <1>2, <1>5, <1>7 DEF KernelOwnership
<1>9. SlotsApart'
  BY <1>1, <1>2, <1>3, <1>5 DEF SlotsApart, Distinct, Owned, Elems
<1>10. NumbersInOrder'
  <2>1. \A i \in 1 .. Len(queued) : queued[i] \in Elems(queued)
    BY DEF Elems
  <2>2. \A i \in 1 .. Len(queued) : queued[i] # s /\ queued[i] \in Slots
    BY <2>1, <1>2, <1>6
  <2>3. Len(queued) \in Nat
    BY DEF TypeOK
  <2>4. ASSUME NEW i \in 1 .. Len(queued) PROVE number'[queued'[i]] = answered' + i
    BY <1>1, <2>2 DEF NumbersInOrder, TypeOK
  <2>5. number'[queued'[Len(queued) + 1]] = answered' + Len(queued) + 1
    BY <1>1, <2>3, SMT DEF NumbersInOrder, TypeOK
  <2>6. submitted' = answered' + Len(queued')
    BY <1>1, <2>3, SMT DEF NumbersInOrder, TypeOK
  <2> QED BY <1>1, <2>3, <2>4, <2>5, <2>6 DEF NumbersInOrder
<1>11. NoReuseInFlight'
  BY <1>2, <1>5 DEF NoReuseInFlight, Ending
<1> QED BY <1>4, <1>8, <1>9, <1>10, <1>11

LEMMA RefusedInv == ASSUME IInv, NEW s \in Slots, SubmitRefused(s) PROVE IInv'
<1> USE DEF IInv, SubmitRefused
<1>1. s \notin Elems(queued) /\ Elems(queued) \subseteq Slots
  BY SMT DEF SlotsApart, Elems, TypeOK
<1>2. \A t \in Elems(queued) : done'[t] = done[t]
  BY <1>1, Zenon DEF TypeOK
<1>3. Owned' = Owned /\ Elems(queued)' = Elems(queued)
  BY DEF Owned, Elems
<1>4. KernelOwnership'
  <2>1. Owned \subseteq {t \in Elems(queued) : ~done[t]} /\ ~unwinding
    BY DEF KernelOwnership, InUse
  <2>2. Owned' \subseteq {t \in Elems(queued)' : ~done'[t]}
    BY <1>2, <1>3, <2>1, Zenon
  <2> QED BY <2>1, <2>2 DEF KernelOwnership
<1>5. TypeOK' /\ SlotsApart' /\ NumbersInOrder' /\ NoReuseInFlight'
  BY <1>3, SMT DEF TypeOK, SlotsApart, NumbersInOrder, NoReuseInFlight, Ending, Distinct, Elems
<1> QED BY <1>4, <1>5

\* What SubmitCut does to a slot is known to no one; the interrupt is under way.
LEMMA SubmitCutInv == ASSUME IInv, NEW s \in Slots, SubmitCut(s) PROVE IInv'
<1> USE DEF IInv, SubmitCut
<1>1. Elems(queued)' = Elems(queued) /\ Elems(ready)' = Elems(ready)
  BY DEF Elems
<1>2. s \notin Elems(ready)
  BY DEF NoReuseInFlight, Ending, KernelOwnership, Owned
<1>3. TypeOK'
  BY DEF TypeOK
<1>4. SlotsApart'
  BY <1>1, <1>2 DEF SlotsApart, Distinct
<1>5. KernelOwnership' /\ NoReuseInFlight'
  BY DEF KernelOwnership, NoReuseInFlight, Ending
<1>6. NumbersInOrder'
  BY DEF NumbersInOrder
<1> QED BY <1>3, <1>4, <1>5, <1>6

LEMMA CollectCutInv == ASSUME IInv, CollectCut PROVE IInv'
<1> USE DEF IInv, CollectCut
<1>1. /\ ready' \in Seq(Slots) /\ Distinct(ready')
      /\ Elems(ready') = Elems(ready) \ {Head(ready)}
  BY ElemsTail DEF TypeOK, SlotsApart
<1>2. Elems(queued)' = Elems(queued) /\ Elems(ready)' = Elems(ready')
  BY DEF Elems
<1>3. TypeOK'
  BY <1>1 DEF TypeOK
<1>4. SlotsApart'
  BY <1>1, <1>2 DEF SlotsApart, Distinct
<1>5. KernelOwnership' /\ NoReuseInFlight'
  BY DEF KernelOwnership, NoReuseInFlight, Ending
<1>6. NumbersInOrder'
  BY DEF NumbersInOrder
<1> QED BY <1>3, <1>4, <1>5, <1>6

LEMMA FinishInv == ASSUME IInv, NEW s \in Slots, Finish(s) PROVE IInv'
<1> USE DEF IInv, Finish
<1>1. /\ ready' \in Seq(Slots) /\ Elems(ready') = Elems(ready) \cup {s}
  BY ElemsAppend DEF TypeOK
<1>2. s \notin Elems(ready)
  BY DEF SlotsApart
<1>3. Distinct(ready')
  BY <1>2, DistinctAppend DEF TypeOK, SlotsApart
<1>4. Owned' = Owned /\ Elems(queued)' = Elems(queued) /\ Elems(ready)' = Elems(ready')
  BY <1>1 DEF Owned, Elems
<1>5. TypeOK'
  BY <1>1 DEF TypeOK
<1>6. SlotsApart'
  BY <1>1, <1>2, <1>3, <1>4 DEF SlotsApart, Distinct
<1>7. KernelOwnership' /\ NumbersInOrder' /\ NoReuseInFlight'
  BY <1>4 DEF KernelOwnership, NumbersInOrder, NoReuseInFlight, Ending, InUse
<1> QED BY <1>5, <1>6, <1>7

LEMMA RetireInv == ASSUME IInv, Retire PROVE IInv'
<1> USE DEF IInv, Retire, OldestDone
<1> DEFINE h == Head(queued)
<1>1. /\ h \in Slots /\ h = queued[1] /\ h \in Elems(queued)
      /\ queued' \in Seq(Slots) /\ Len(queued') = Len(queued) - 1
      /\ Len(queued) \in Nat \ {0}
      /\ \A i \in 1 .. Len(queued') : queued'[i] = queued[i + 1]
      /\ Distinct(queued') /\ Elems(queued') = Elems(queued) \ {h}
  BY ElemsTail DEF TypeOK, SlotsApart
<1>2. Owned' = Owned /\ Elems(queued)' = Elems(queued') /\ Elems(ready)' = Elems(ready)
  BY DEF Owned, Elems
<1>3. h \notin Owned /\ ~unwinding
  BY <1>1 DEF KernelOwnership, InUse
<1>4. TypeOK'
  BY <1>1 DEF TypeOK
<1>5. SlotsApart'
  BY <1>1, <1>2 DEF SlotsApart, Distinct
<1>6. KernelOwnership'
  BY <1>1, <1>2, <1>3 DEF KernelOwnership, InUse
<1>7. NumbersInOrder'
  <2>1. answered' = answered + 1
    BY <1>1, SMT DEF NumbersInOrder
  <2>2. \A i \in 1 .. Len(queued') : number[queued'[i]] = answered + (i + 1)
    BY <1>1, SMT DEF NumbersInOrder
  <2> QED BY <1>1, <2>1, <2>2, SMT DEF NumbersInOrder, TypeOK
<1>8. NoReuseInFlight'
  BY <1>2, <1>3 DEF NoReuseInFlight, Ending
<1> QED BY <1>4, <1>5, <1>6, <1>7, <1>8

LEMMA EndCancelInv == ASSUME IInv, EndCancel PROVE IInv'
<1> USE DEF IInv, EndCancel, StillOut, Returned
<1>1. Elems(queued') = {} /\ Distinct(queued') /\ Len(queued') = 0
  BY ElemsEmpty
<1>2. Owned' = Owned /\ Elems(queued)' = Elems(queued') /\ Elems(ready)' = Elems(ready)
  BY DEF Owned, Elems
<1>3. Elems(queued) \subseteq Slots
  BY SMT DEF Elems, TypeOK
<1>4. TypeOK'
  BY <1>3, SMT DEF TypeOK
<1>5. KernelOwnership'
  BY <1>2 DEF KernelOwnership, InUse
<1>6. SlotsApart'
  BY <1>1, <1>2 DEF SlotsApart, Distinct
<1>7. NoReuseInFlight' /\ NumbersInOrder'
  BY <1>1, <1>2, SMT DEF NoReuseInFlight, Ending, NumbersInOrder, KernelOwnership, InUse
<1> QED BY <1>4, <1>5, <1>6, <1>7

\* The steps that change only the control state.
LEMMA ControlInv ==
  ASSUME IInv, WaitFails \/ LeaveNormally \/ BeginCancel \/ CancelCut \/ CloseCut \/ MainHandles
  PROVE  IInv'
<1> USE DEF IInv
<1>1. /\ Elems(queued)' = Elems(queued) /\ Owned' = Owned /\ Elems(ready)' = Elems(ready)
      /\ UNCHANGED <<free, queued, done, inKernel, ready, number, submitted, answered>>
  BY DEF WaitFails, LeaveNormally, BeginCancel, CancelCut, CloseCut, MainHandles, Owned, Elems
<1>2. LeaveNormally => Owned = {}
  BY ElemsEmpty DEF LeaveNormally, KernelOwnership, InUse
<1>3. TypeOK'
  BY <1>1 DEF WaitFails, LeaveNormally, BeginCancel, CancelCut, CloseCut, MainHandles, TypeOK
<1>4. SlotsApart'
  BY <1>1 DEF SlotsApart, Distinct
<1>5. KernelOwnership'
  BY <1>1, <1>2, Zenon DEF WaitFails, LeaveNormally, BeginCancel, CancelCut, CloseCut, MainHandles,
                           KernelOwnership, InUse
<1>6. NumbersInOrder'
  BY <1>1 DEF WaitFails, LeaveNormally, BeginCancel, CancelCut, CloseCut, MainHandles, NumbersInOrder
<1>7. NoReuseInFlight'
  BY <1>1 DEF WaitFails, LeaveNormally, BeginCancel, CancelCut, CloseCut, MainHandles,
              NoReuseInFlight, Ending, KernelOwnership
<1> QED BY <1>3, <1>4, <1>5, <1>6, <1>7

LEMMA CloseInv == ASSUME IInv, Close PROVE IInv'
<1>1. Elems(ready') = {} /\ Distinct(ready') /\ ready' \in Seq(Slots)
  BY ElemsEmpty, SMT DEF Close
<1>2. Owned' = {} /\ Elems(queued)' = Elems(queued) /\ Elems(ready)' = {}
  BY <1>1 DEF Close, Owned, Elems
<1>3. TypeOK'
  BY <1>1 DEF IInv, Close, TypeOK
<1>4. SlotsApart'
  BY <1>1, <1>2 DEF IInv, Close, SlotsApart, Distinct
<1>5. KernelOwnership' /\ NoReuseInFlight'
  BY <1>2 DEF Close, KernelOwnership, NoReuseInFlight, Ending
<1>6. NumbersInOrder'
  BY DEF IInv, Close, NumbersInOrder
<1> QED BY <1>3, <1>4, <1>5, <1>6 DEF IInv

LEMMA StutterInv == ASSUME IInv, UNCHANGED vars PROVE IInv'
<1> USE DEF IInv, vars
<1>1. Elems(queued)' = Elems(queued) /\ Owned' = Owned /\ Elems(ready)' = Elems(ready)
  BY DEF Owned, Elems
<1>2. TypeOK'
  BY DEF TypeOK
<1>3. SlotsApart' /\ KernelOwnership' /\ NoReuseInFlight'
  BY <1>1 DEF SlotsApart, KernelOwnership, NoReuseInFlight, Ending, Distinct, InUse
<1>4. NumbersInOrder'
  BY DEF NumbersInOrder
<1> QED BY <1>2, <1>3, <1>4

LEMMA NextInv == IInv /\ [Next]_vars => IInv'
<1> SUFFICES ASSUME IInv, [Next]_vars PROVE IInv'
  OBVIOUS
<1>1. CASE \E s \in Slots : Submit(s) \/ SubmitRefused(s) \/ SubmitCut(s) \/ Finish(s)
  BY <1>1, SubmitInv, RefusedInv, SubmitCutInv, FinishInv
<1>2. CASE RetireCollects \/ CancelCollects
  BY <1>2, CollectOwned DEF RetireCollects, CancelCollects
<1>3. CASE Retire \/ CollectCut
  BY <1>3, RetireInv, CollectCutInv
<1>4. CASE WaitFails \/ LeaveNormally \/ BeginCancel \/ CancelCut \/ CloseCut \/ MainHandles
  BY <1>4, ControlInv
<1>5. CASE EndCancel
  BY <1>5, EndCancelInv
<1>6. CASE Close
  BY <1>6, CloseInv
<1>7. CASE UNCHANGED vars
  BY <1>7, StutterInv
<1> QED BY <1>1, <1>2, <1>3, <1>4, <1>5, <1>6, <1>7 DEF Next

LEMMA Inductive == Spec => []IInv
<1> QED BY InitInv, NextInv, PTL DEF Spec

\* Every state is well typed: __init__, submit, retire and cancel_all keep the
\* deques, flags and counters in their ranges, for any number of slots.
THEOREM PipelineTypeOK == Spec => []TypeOK
BY Inductive, PTL DEF IInv

\* submit() never hands out a slot whose transfer is still in flight.
THEOREM PipelineNoReuse == Spec => []NoReuseInFlight
BY Inductive, PTL DEF IInv

\* cancel_all(), __exit__ and main(): also where an interrupt cuts cancel_all
\* off, no buffer is let go that the kernel may still write into.
THEOREM PipelineBuffersHeld == Spec => []BuffersHeld
<1>1. IInv => BuffersHeld
  BY DEF IInv, TypeOK, KernelOwnership, BuffersHeld, Ending, InUse
<1> QED BY <1>1, Inductive, PTL

-----------------------------------------------------------------------------
(* ControlPipeline implements RequestQueue. *)

Pending == [i \in 1 .. Len(queued) |-> number[queued[i]]]
Back == {number[s] : s \in {t \in Elems(queued) : t \notin inKernel}}
MappedVars == <<Outstanding, Completed, answered, ~Abandoned>>

\* Before the pipeline is abandoned the mapping is that of its queue.
LEMMA InUseMapping ==
  /\ ~Abandoned => Outstanding = Pending /\ Completed = Back
  /\ Abandoned => Outstanding = <<>> /\ Completed = {}
BY DEF Outstanding, Completed, Pending, Back

LEMMA InUseMappingNext ==
  /\ ~Abandoned' => Outstanding' = Pending' /\ Completed' = Back'
  /\ Abandoned' => Outstanding' = <<>> /\ Completed' = {}
BY DEF Outstanding, Completed, Pending, Back

\* The pending numbers are a sequence, and no two queued slots share a number.
LEMMA PendingFacts ==
  ASSUME IInv
  PROVE  /\ Pending \in Seq(Nat) /\ Len(Pending) = Len(queued)
         /\ Len(queued) \in Nat
         /\ \A i \in 1 .. Len(queued) : Pending[i] = answered + i
         /\ \A s \in Elems(queued) : s \in Slots /\ number[s] \in Nat
         /\ \A s, t \in Elems(queued) : number[s] = number[t] => s = t
<1> USE DEF IInv
<1>1. Len(queued) \in Nat /\ \A i \in 1 .. Len(queued) : queued[i] \in Slots
  BY SMT DEF TypeOK
<1>2. Pending \in Seq(Nat) /\ Len(Pending) = Len(queued)
  BY <1>1, SMT DEF Pending, TypeOK
<1>3. \A i \in 1 .. Len(queued) : Pending[i] = answered + i
  BY DEF Pending, NumbersInOrder
<1>4. \A s \in Elems(queued) : s \in Slots /\ number[s] \in Nat
  BY <1>1 DEF Elems, TypeOK
<1>5. ASSUME NEW s \in Elems(queued), NEW t \in Elems(queued), number[s] = number[t]
      PROVE  s = t
  <2>1. PICK i \in 1 .. Len(queued) : s = queued[i]
    BY DEF Elems
  <2>2. PICK j \in 1 .. Len(queued) : t = queued[j]
    BY DEF Elems
  <2>3. number[queued[i]] = answered + i /\ number[queued[j]] = answered + j
    BY DEF NumbersInOrder
  <2>4. i = j
    BY <1>5, <2>1, <2>2, <2>3, SMT DEF TypeOK
  <2> QED BY <2>1, <2>2, <2>4
<1> QED BY <1>1, <1>2, <1>3, <1>4, <1>5

LEMMA InitRefines == Init => Queue!Init
<1> SUFFICES ASSUME Init PROVE Queue!Init
  OBVIOUS
<1>1. ~Abandoned /\ Elems(queued) = {} /\ Len(queued) = 0 /\ answered = 0
  BY ElemsEmpty DEF Init, Abandoned
<1>2. Pending = <<>> /\ Back = {}
  BY <1>1, SMT DEF Pending, Back
<1> QED BY <1>1, <1>2, InUseMapping DEF Queue!Init

LEMMA SubmitRefines == ASSUME IInv, IInv', NEW s \in Slots, Submit(s) PROVE Queue!Submit
<1> USE DEF IInv, Submit
<1>1. /\ queued' \in Seq(Slots) /\ Len(queued') = Len(queued) + 1
      /\ \A i \in 1 .. Len(queued) : queued'[i] = queued[i]
      /\ queued'[Len(queued) + 1] = s
      /\ Elems(queued') = Elems(queued) \cup {s} /\ Elems(queued)' = Elems(queued')
  BY ElemsAppend DEF TypeOK, Elems
<1>2. s \notin Elems(queued) /\ s \notin Owned /\ Elems(queued) \subseteq Slots
  <2>1. Elems(queued) \subseteq Slots
    BY SMT DEF Elems, TypeOK
  <2> QED BY <2>1 DEF SlotsApart, NoReuseInFlight, Ending, KernelOwnership
<1>3. number'[s] = submitted + 1 /\ \A t \in Elems(queued) : number'[t] = number[t]
  BY <1>2, Zenon DEF TypeOK
<1>4. Back' = Back
  BY <1>1, <1>2, <1>3, ZenonT(40) DEF Back, Owned
<1>5. Pending' = Append(Pending, answered + Len(Pending) + 1)
  <2>1. Len(Pending) = Len(queued) /\ Pending \in Seq(Nat) /\ Len(queued) \in Nat
    BY PendingFacts
  <2>2. Pending' \in Seq(Nat) /\ Len(Pending') = Len(queued) + 1
    BY <1>1, SMT DEF Pending, TypeOK
  <2>3. \A i \in 1 .. Len(queued) + 1 : Pending'[i] = number'[queued'[i]]
    BY <1>1 DEF Pending
  <2>4. \A i \in 1 .. Len(queued) : Pending'[i] = Pending[i]
    BY <1>1, <1>3, <2>1, <2>3, SMT DEF Elems, Pending
  <2>5. Pending'[Len(queued) + 1] = answered + Len(queued) + 1
    <3>1. submitted = answered + Len(queued)
      BY DEF NumbersInOrder
    <3>2. Pending'[Len(queued) + 1] = number'[s]
      BY <1>1, <2>1, <2>3, SMT
    <3> HIDE DEF Pending
    <3> QED BY <1>3, <3>1, <3>2
  <2>6. answered + Len(queued) + 1 \in Nat
    BY <2>1, SMT DEF TypeOK
  <2> HIDE DEF Pending
  <2> QED BY <2>1, <2>2, <2>4, <2>5, <2>6, SMT
<1>6. ~Abandoned /\ ~Abandoned'
  BY DEF Abandoned
<1> QED BY <1>4, <1>5, <1>6, InUseMapping, InUseMappingNext DEF Queue!Submit

LEMMA FinishRefines ==
  ASSUME IInv, IInv', NEW s \in Slots, Finish(s)
  PROVE  Queue!Complete \/ UNCHANGED MappedVars
<1> USE DEF IInv, Finish
<1>1. Pending' = Pending /\ Elems(queued)' = Elems(queued) /\ (Abandoned' <=> Abandoned)
  BY DEF Pending, Elems, Abandoned
<1>2. CASE s \in Elems(queued) /\ ~Abandoned
  <2>1. PICK i \in 1 .. Len(queued) : s = queued[i]
    BY <1>2 DEF Elems
  <2>2. Pending[i] = number[s] /\ i \in 1 .. Len(Pending)
    BY <2>1, PendingFacts DEF Pending
  <2>3. number[s] \notin Back
    BY <1>2, PendingFacts DEF Back
  <2>4. Back' = Back \cup {number[s]}
    BY <1>1, <1>2, PendingFacts DEF Back
  <2>5. Outstanding' = Outstanding /\ Outstanding = Pending /\ Completed = Back /\ Completed' = Back'
    BY <1>1, <1>2, InUseMapping, InUseMappingNext
  <2>6. Queue!Complete
    BY <1>1, <2>2, <2>3, <2>4, <2>5 DEF Queue!Complete
  <2> QED BY <2>6
<1>3. CASE s \notin Elems(queued) \/ Abandoned
  <2>1. s \notin Elems(queued) => Back' = Back
    BY <1>1 DEF Back
  <2>2. Outstanding' = Outstanding /\ Completed' = Completed
    BY <1>1, <1>3, <2>1, InUseMapping, InUseMappingNext
  <2> QED BY <2>2, <1>1 DEF MappedVars
<1> QED BY <1>2, <1>3

LEMMA RetireRefines ==
  ASSUME IInv, IInv', Retire
  PROVE  Queue!Answer
<1> USE DEF IInv, Retire, OldestDone
<1> DEFINE h == Head(queued)
<1>1. /\ h \in Slots /\ h = queued[1] /\ h \in Elems(queued)
      /\ queued' \in Seq(Slots) /\ Len(queued') = Len(queued) - 1
      /\ Len(queued) \in Nat \ {0}
      /\ \A i \in 1 .. Len(queued') : queued'[i] = queued[i + 1]
      /\ Elems(queued') = Elems(queued) \ {h} /\ Elems(queued)' = Elems(queued')
  <2>1. Elems(queued)' = Elems(queued')
    BY DEF Elems
  <2> QED BY <2>1, ElemsTail DEF TypeOK, SlotsApart
<1>2. h \notin inKernel
  BY <1>1 DEF KernelOwnership, InUse, Owned
<1>3. Pending # <<>> /\ Head(Pending) = number[h] /\ Pending' = Tail(Pending)
  <2>1. Pending \in Seq(Nat) /\ Len(Pending) = Len(queued)
    BY PendingFacts
  <2>2. \A i \in 1 .. Len(queued) : Pending[i] = number[queued[i]]
    BY DEF Pending
  <2>3. Pending' \in Seq(Nat) /\ Len(Pending') = Len(queued')
    BY <1>1, SMT DEF Pending, TypeOK
  <2>4. \A i \in 1 .. Len(queued') : Pending'[i] = number[queued[i + 1]]
    BY <1>1 DEF Pending
  <2>5. \A i \in 1 .. Len(queued') : Pending'[i] = Pending[i + 1]
    BY <1>1, <2>2, <2>4, SMT
  <2> HIDE DEF Pending
  <2>6. Pending' = Tail(Pending) /\ Pending # <<>> /\ Head(Pending) = Pending[1]
    BY <1>1, <2>1, <2>3, <2>5, ShiftIsTail
  <2> QED BY <1>1, <2>2, <2>6, SMT
<1>4. number[h] \in Back
  BY <1>1, <1>2 DEF Back
<1>5. Back' = Back \ {number[h]}
  BY <1>1, PendingFacts DEF Back
<1>6. ~Abandoned /\ ~Abandoned'
  BY DEF Abandoned
<1> QED BY <1>3, <1>4, <1>5, <1>6, InUseMapping, InUseMappingNext DEF Queue!Answer

\* However the pipeline is left, by cancel_all, by an interrupt or normally.
LEMMA LeaveRefines ==
  ASSUME ~Abandoned, Abandoned', answered' = answered
  PROVE  Queue!Leave
BY InUseMapping, InUseMappingNext DEF Queue!Leave

\* Every other step leaves the abstract queue alone.
LEMMA OthersRefine ==
  ASSUME queued' = queued, number' = number, answered' = answered, Abandoned' <=> Abandoned,
         inKernel' = inKernel \/ Abandoned \/ \E s \in Slots \ Elems(queued) :
                                                inKernel' = inKernel \cup {s}
  PROVE  UNCHANGED MappedVars
<1>1. Pending' = Pending /\ Elems(queued)' = Elems(queued)
  BY DEF Pending, Elems
<1>2. ~Abandoned => Back' = Back
  BY <1>1 DEF Back
<1> QED BY <1>1, <1>2, InUseMapping, InUseMappingNext DEF MappedVars

LEMMA StepRefines == ASSUME IInv, IInv', [Next]_vars PROVE Queue!Next \/ UNCHANGED MappedVars
<1>1. CASE \E s \in Slots : Submit(s) \/ Finish(s)
  BY <1>1, SubmitRefines, FinishRefines DEF Queue!Next
<1>2. CASE Retire
  BY <1>2, RetireRefines DEF Queue!Next
<1>3. CASE LeaveNormally \/ EndCancel \/ CancelCut \/ (CollectCut /\ pc # "open")
  <2>1. ~Abandoned /\ Abandoned' /\ answered' = answered
    BY <1>3 DEF LeaveNormally, EndCancel, CancelCut, CollectCut, Abandoned
  <2> QED BY <2>1, LeaveRefines DEF Queue!Next
<1>4. CASE \E s \in Slots : SubmitRefused(s) \/ SubmitCut(s)
  <2>1. PICK s \in Slots : SubmitRefused(s) \/ SubmitCut(s)
    BY <1>4
  <2>2. s \notin Elems(queued)
    BY <2>1 DEF SubmitRefused, SubmitCut, IInv, SlotsApart
  <2>3. queued' = queued /\ number' = number /\ answered' = answered /\ (Abandoned' <=> Abandoned)
        /\ inKernel' \in {inKernel, inKernel \cup {s}}
    BY <2>1 DEF SubmitRefused, SubmitCut, Abandoned
  <2> QED BY <2>2, <2>3, OthersRefine
<1>5. CASE \/ RetireCollects \/ CancelCollects \/ WaitFails \/ BeginCancel \/ Close \/ CloseCut
           \/ MainHandles
           \/ UNCHANGED vars \/ (CollectCut /\ pc = "open")
  <2>1. queued' = queued /\ number' = number /\ answered' = answered /\ (Abandoned' <=> Abandoned)
        /\ (inKernel' = inKernel \/ Abandoned)
    BY <1>5 DEF RetireCollects, CancelCollects, WaitFails, BeginCancel, Close, CloseCut,
                MainHandles, CollectCut, vars, Abandoned
  <2> QED BY <2>1, OthersRefine
<1> QED BY <1>1, <1>2, <1>3, <1>4, <1>5 DEF Next

\* The pipeline keeps the promise of RequestQueue for any number of slots and
\* any completion order: answers in submission order, none before its own
\* transfer completed, none from a slot's previous use.
THEOREM PipelineImplementsQueue == Spec => ImplementsRequestQueue
<1>1. IInv /\ IInv' /\ [Next]_vars => [Queue!Next]_MappedVars
  BY StepRefines
<1>2. IInv /\ IInv' /\ [Next]_vars => [Queue!Next]_(Queue!qvars)
  BY <1>1 DEF MappedVars, Queue!qvars
<1> QED BY InitRefines, <1>2, Inductive, PTL
        DEF Spec, ImplementsRequestQueue, Queue!Spec
=============================================================================
