-------------------------- MODULE ControlPipeline ---------------------------
(***************************************************************************)
(* jibo_dfu_pipeline._ControlPipeline: a fixed set of USB request blocks   *)
(* (slots), each with its own buffer, through which control transfers are  *)
(* kept queued on endpoint 0 of a usbfs node.                              *)
(*                                                                         *)
(* The kernel owns the buffer of a slot from SUBMITURB until the slot is   *)
(* reaped: usbfs writes the result into it at that moment.  A transfer may *)
(* complete in any order here, because a cancelled one can overtake those  *)
(* before it.  An exception leaves through __exit__ and cancel_all: one    *)
(* that upload() and download() catch (DfuTransferError), or one that only *)
(* main() does.  Of these KeyboardInterrupt, raised for Ctrl-C and for the *)
(* parent's SIGTERM, can come anywhere: inside submit() and retire(), and  *)
(* again inside cancel_all or the session's __exit__, which it cuts off.   *)
(***************************************************************************)
EXTENDS Naturals, Sequences, FiniteSets

CONSTANTS
  Slots,       \* the slots of the pipeline
  MaxSubmits   \* bound: transfers submitted by the client

ASSUME SlotsAssumption == IsFiniteSet(Slots) /\ Slots # {}
ASSUME MaxSubmitsAssumption == MaxSubmits \in Nat

VARIABLES
  free,       \* _free, as a set: which free slot is taken next is immaterial
  queued,     \* _queued, oldest first
  done,       \* _done
  inKernel,   \* slots whose transfer the kernel has not finished
  ready,      \* finished but not yet reaped, in completion order
  number,     \* number of the request whose data a slot's buffer is for
  submitted,  \* count of submitted requests
  answered,   \* number of the request whose data retire() returned last
  pc,         \* "open", "raised", "cancelling", "left", "closed", "unclosed"
  retained,   \* the device node keeps the pipeline alive (_Usbfs._retained)
  unwinding   \* an exception is on its way to main(), and holds the frames it
              \* went through, the pipeline's with them

vars == <<free, queued, done, inKernel, ready, number, submitted, answered,
          pc, retained, unwinding>>

Elems(s) == {s[i] : i \in 1 .. Len(s)}

\* Slots whose buffer the kernel may still write to.
Owned == inKernel \cup Elems(ready)

Init ==
  /\ free = Slots
  /\ queued = <<>>
  /\ done = [s \in Slots |-> FALSE]
  /\ inKernel = {}
  /\ ready = <<>>
  /\ number = [s \in Slots |-> 0]
  /\ submitted = 0
  /\ answered = 0
  /\ pc = "open"
  /\ retained = FALSE
  /\ unwinding = FALSE

-----------------------------------------------------------------------------
(* Mutations, each a slip the code could have made (see PROJECT.json).      *)

SomeDone == \E s \in Elems(queued) : done[s]          \* retire takes any answer
ReturnedAll == Elems(queued)                          \* cancel_all frees every slot
ReturnedNumbers == {number[s] : s \in Elems(queued)}  \* ... or not even slots
NothingOut == FALSE                                   \* cancel_all never retains

-----------------------------------------------------------------------------
(* The client: submit() and retire().                                      *)

OldestDone == done[Head(queued)]

Submit(s) ==
  /\ pc = "open"
  /\ submitted < MaxSubmits
  /\ s \in free
  /\ free' = free \ {s}
  /\ done' = [done EXCEPT ![s] = FALSE]
  /\ inKernel' = inKernel \cup {s}
  /\ queued' = Append(queued, s)
  /\ number' = [number EXCEPT ![s] = submitted + 1]
  /\ submitted' = submitted + 1
  /\ UNCHANGED <<ready, answered, pc, retained, unwinding>>

\* SUBMITURB is refused: the slot goes back and the exception goes on.
SubmitRefused(s) ==
  /\ pc = "open"
  /\ submitted < MaxSubmits
  /\ s \in free
  /\ done' = [done EXCEPT ![s] = FALSE]
  /\ pc' = "raised"
  /\ UNCHANGED <<free, queued, inKernel, ready, number, submitted, answered,
                 retained, unwinding>>

\* An interrupt between SUBMITURB and _queued.append(slot): the kernel may have
\* the transfer, of which cancel_all will not know, and inside the call the
\* slot even goes back to _free.
SubmitCut(s) ==
  /\ pc = "open"
  /\ submitted < MaxSubmits
  /\ s \in free
  /\ done' = [done EXCEPT ![s] = FALSE]
  /\ inKernel' \in {inKernel, inKernel \cup {s}}
  /\ free' \in {free, free \ {s}}
  /\ pc' = "raised" /\ unwinding' = TRUE
  /\ UNCHANGED <<queued, ready, number, submitted, answered, retained>>

\* One REAPURBNDELAY that finds a finished transfer (_collect).
Collect ==
  /\ ready # <<>>
  /\ done' = [done EXCEPT ![Head(ready)] = TRUE]
  /\ ready' = Tail(ready)

\* retire() still waits: its oldest transfer is not done.
RetireCollects ==
  /\ pc = "open"
  /\ queued # <<>>
  /\ ~OldestDone
  /\ Collect
  /\ UNCHANGED <<free, queued, inKernel, number, submitted, answered, pc,
                 retained, unwinding>>

\* retire() returns the data stage of the oldest transfer, or raises because
\* that transfer ended with an error; either way the slot is free again.
Retire ==
  /\ pc = "open"
  /\ queued # <<>>
  /\ OldestDone
  /\ queued' = Tail(queued)
  /\ free' = free \cup {Head(queued)}
  /\ answered' = number[Head(queued)]
  /\ pc' \in {"open", "raised"}
  /\ UNCHANGED <<done, inKernel, ready, number, submitted, retained, unwinding>>

\* The deadline passes, or an interrupt arrives, while retire() waits with
\* nothing to reap; or the client itself raises between two calls.
WaitFails ==
  /\ pc = "open"
  /\ pc' = "raised"
  /\ unwinding' \in BOOLEAN
  /\ UNCHANGED <<free, queued, done, inKernel, ready, number, submitted,
                 answered, retained>>

\* An interrupt between a reap and the mark in _done.
CollectCut ==
  /\ pc \in {"open", "cancelling"}
  /\ ready # <<>>
  /\ ready' = Tail(ready)
  /\ pc' = IF pc = "open" THEN "raised" ELSE "left"
  /\ unwinding' = TRUE
  /\ UNCHANGED <<free, queued, done, inKernel, number, submitted, answered, retained>>

\* The with-block of a stream ends normally once it has retired everything.
LeaveNormally ==
  /\ pc = "open"
  /\ queued = <<>>
  /\ pc' = "left"
  /\ UNCHANGED <<free, queued, done, inKernel, ready, number, submitted,
                 answered, retained, unwinding>>

-----------------------------------------------------------------------------
(* The kernel: it finishes a transfer, answered, failed or cancelled.       *)

Finish(s) ==
  /\ s \in inKernel
  /\ inKernel' = inKernel \ {s}
  /\ ready' = Append(ready, s)
  /\ UNCHANGED <<free, queued, done, number, submitted, answered, pc,
                 retained, unwinding>>

-----------------------------------------------------------------------------
(* cancel_all(): discard what is queued, collect it until the grace period *)
(* ends or usbfs refuses a call, and keep the buffers of the rest.         *)

BeginCancel ==
  /\ pc = "raised"
  /\ pc' = "cancelling"
  /\ UNCHANGED <<free, queued, done, inKernel, ready, number, submitted,
                 answered, retained, unwinding>>

StillOut == \E s \in Elems(queued) : ~done[s]
Returned == {s \in Elems(queued) : done[s]}

CancelCollects ==
  /\ pc = "cancelling"
  /\ StillOut
  /\ Collect
  /\ UNCHANGED <<free, queued, inKernel, number, submitted, answered, pc,
                 retained, unwinding>>

\* All handed back, or CANCEL_GRACE_SECONDS are over, or a DISCARDURB or a
\* reap failed: what is still out decides whether the pipeline is retained.
EndCancel ==
  /\ pc = "cancelling"
  /\ retained' = StillOut
  /\ free' = free \cup Returned
  /\ queued' = <<>>
  /\ pc' = "left"
  /\ UNCHANGED <<done, inKernel, ready, number, submitted, answered, unwinding>>

\* An interrupt on the way to or inside cancel_all, at its wait above all, which
\* catches DfuTransferError only: nothing is retained, freed or cleared.
CancelCut ==
  /\ pc \in {"raised", "cancelling"}
  /\ pc' = "left" /\ unwinding' = TRUE
  /\ UNCHANGED <<free, queued, done, inKernel, ready, number, submitted,
                 answered, retained>>

\* _Usbfs.close(): closing the node makes the kernel cancel and wait.
Close ==
  /\ pc = "left"
  /\ pc' = "closed"
  /\ inKernel' = {} /\ ready' = <<>>
  /\ retained' = FALSE
  /\ UNCHANGED <<free, queued, done, number, submitted, answered, unwinding>>

\* An interrupt in _Session.__exit__, before it closes the node.
CloseCut ==
  /\ pc = "left"
  /\ pc' = "unclosed" /\ unwinding' = TRUE
  /\ UNCHANGED <<free, queued, done, inKernel, ready, number, submitted,
                 answered, retained>>

\* main() reports the exception and lets it go, and the session with it; the
\* with-block that closes the node lies inside its try.
MainHandles ==
  /\ pc \in {"closed", "unclosed"}
  /\ unwinding
  /\ unwinding' = FALSE /\ retained' = FALSE
  /\ UNCHANGED <<free, queued, done, inKernel, ready, number, submitted,
                 answered, pc>>

Next ==
  \/ \E s \in Slots : Submit(s) \/ SubmitRefused(s) \/ SubmitCut(s) \/ Finish(s)
  \/ RetireCollects \/ Retire \/ WaitFails \/ CollectCut \/ LeaveNormally
  \/ BeginCancel \/ CancelCollects \/ EndCancel \/ CancelCut
  \/ Close \/ CloseCut \/ MainHandles

Spec == Init /\ [][Next]_vars

-----------------------------------------------------------------------------
TypeOK ==
  /\ free \subseteq Slots
  /\ queued \in Seq(Slots)
  /\ done \in [Slots -> BOOLEAN]
  /\ inKernel \subseteq Slots
  /\ ready \in Seq(Slots)
  /\ number \in [Slots -> Nat]
  /\ submitted \in Nat
  /\ answered \in Nat
  /\ pc \in {"open", "raised", "cancelling", "left", "closed", "unclosed"}
  /\ retained \in BOOLEAN
  /\ unwinding \in BOOLEAN

\* What is left of the helper is on its way to the end of the process.
Ending == unwinding \/ pc = "unclosed"

\* No slot offered to submit() still belongs to the kernel: a buffer is never
\* rewritten under a transfer in flight, not even after a cancellation whose
\* grace period ended early.  (An interrupt inside SUBMITURB can put such a slot
\* back, but then the pipeline is on its way out.)
NoReuseInFlight == Ending \/ free \cap Owned = {}

\* cancel_all, __exit__ and main(): as long as the kernel may write into a
\* buffer, something keeps the pipeline: its own with-block, the device node it
\* was retained by, or an exception that main() handles only after the node was
\* closed.  Where cancel_all was cut off, only the exception does.  The one way
\* out is an interrupt that keeps the node itself from being closed: then main()
\* lets everything go, and the kernel has the buffers until the process ends.
InUse == pc \in {"open", "raised", "cancelling"}
BuffersHeld == Owned # {} => InUse \/ retained \/ Ending

\* The pipeline is a request queue: answers come in submission order, each from
\* a transfer that completed after it was submitted (never a slot's old answer).
Abandoned == pc \in {"left", "closed", "unclosed"}
Outstanding ==
  IF Abandoned THEN <<>> ELSE [i \in 1 .. Len(queued) |-> number[queued[i]]]
Completed ==
  IF Abandoned THEN {} ELSE {number[s] : s \in {t \in Elems(queued) : t \notin inKernel}}

Queue == INSTANCE RequestQueue WITH
  pending   <- Outstanding,
  completed <- Completed,
  last      <- answered,
  open      <- ~Abandoned

ImplementsRequestQueue == Queue!Spec
=============================================================================
