---------------------------- MODULE DfuTransfer -----------------------------
(***************************************************************************)
(* jibo_dfu_pipeline: reading and writing one DFU alternative through      *)
(* queued control transfers.  A helper process opens a session, brings the *)
(* interface to dfuIDLE, streams, confirms, and closes; helpers follow one *)
(* another on the same loader, whose cursors survive a helper.             *)
(*                                                                         *)
(* A request is numbered by its place in the queue (RequestQueue is what   *)
(* the slots of ControlPipeline amount to).  replies[n] answers request n; *)
(* endpoint 0 runs requests in order, while the host submits and retires.  *)
(***************************************************************************)
EXTENDS DfuLoader

CONSTANTS
  QueueLoader,    \* the loader lists jibo-dfu-queue-v1
  UploadDepth,    \* DFU_UPLOAD requests kept queued
  WriteDepth,     \* DFU_DNLOAD/DFU_GETSTATUS pairs asked for
  Sizes,          \* sizes, in units, the callers may ask to transfer
  MaxFaults,      \* bound: faults of USB, eMMC, the host or its user
  MaxAttempts     \* bound: sessions opened

ASSUME TransferAssumption ==
  /\ QueueLoader \in BOOLEAN
  /\ UploadDepth \in Nat \ {0} /\ WriteDepth \in Nat \ {0}
  /\ Sizes \subseteq Nat
  /\ MaxFaults \in Nat /\ MaxAttempts \in Nat

VARIABLES
  loader, medium,
  hot,        \* a request was queued behind the DFU_GETSTATUS just answered
  present,    \* the device answers on USB
  pc,         \* what the helper does next; "closed" between sessions
  op, size, keep,       \* "upload" or "download", its size, the kept prefix
  submitted, replies, retired,
  file,       \* partition units written to the destination, in order
  error,      \* "dfu" (DfuTransferError) or "other" while unwinding
  outcome,    \* "running", "done", "failed", "interrupted"
  dirty,      \* the failure message says the DFU cleanup failed as well
  faults, attempts

loaderVars == <<loader, medium, hot, present>>
callVars == <<op, size, keep>>
queueVars == <<submitted, replies, retired>>
endVars == <<error, outcome, dirty>>
vars == <<loaderVars, pc, callVars, queueVars, file, endVars, faults, attempts>>

Ops == {"upload", "download"}
SyncSteps == {"check", "recheck", "finish", "manifest", "poll", "confirm"}
Busy == {"manifest_sync", "manifest"}   \* states the manifest poll waits in

-----------------------------------------------------------------------------
(* Mutations, each a slip the code could have made (see PROJECT.json).      *)

OneRequestMore == size \div TransferSize + 2     \* reads on behind the short block
AnyLength(n) == replies[n + 1].len               \* no check for short blocks
DeepWrites == WriteDepth                         \* queues writes on any loader
PrefixAndOne(s, n) == SubSeq(s, 1, IF Len(s) <= n THEN Len(s) ELSE n + 1)
NoNote == FALSE                                  \* the cleanup's failure is swallowed
NoDeadline == FALSE                              \* retire() waits until it is answered
\* answers that came and were not yet used are counted as requests.
CloseAtRetired(o, note) ==
  /\ pc' = "closed"
  /\ outcome' = o
  /\ dirty' = note
  /\ submitted' = retired
  /\ UNCHANGED <<callVars, replies, retired, file, error, attempts>>

-----------------------------------------------------------------------------
\* An upload ends with its first short block, possibly an empty one.
Requests == size \div TransferSize + 1
FinalLength == size % TransferSize
Wanted(n) == IF n < Requests - 1 THEN TransferSize ELSE FinalLength
\* A download has no empty last block; each block is a pair of requests.
Blocks == (size + TransferSize - 1) \div TransferSize
\* write_depth(): only a queue loader retires stale completions itself.
Depth == IF QueueLoader THEN WriteDepth ELSE 1

\* Every download writes another image; unit u of this one is Unit(u).
Unit(u) == attempts * PartitionSize + u

Chunk(block) ==
  LET from == block * TransferSize
      len == IF size - from < TransferSize THEN size - from ELSE TransferSize
  IN  [i \in 1 .. len |-> Unit(from + i - 1)]

Prefix(s, n) == SubSeq(s, 1, IF Len(s) < n THEN Len(s) ELSE n)

Init ==
  /\ loader = FreshLoader /\ medium = [u \in Units |-> Old]
  /\ hot = FALSE /\ present = TRUE
  /\ pc = "closed"
  /\ op = "upload" /\ size = 0 /\ keep = 0
  /\ submitted = 0 /\ replies = <<>> /\ retired = 0
  /\ file = <<>>
  /\ error = "none" /\ outcome = "none" /\ dirty = FALSE
  /\ faults = 0 /\ attempts = 0

Fault == faults < MaxFaults /\ faults' = faults + 1

-----------------------------------------------------------------------------
(* Opening and closing a session.                                          *)

Open(o, n, k) ==
  /\ pc = "closed"
  /\ attempts < MaxAttempts
  /\ o = "download" => n > 0
  /\ k <= n
  /\ attempts' = attempts + 1
  /\ op' = o /\ size' = n /\ keep' = k
  /\ submitted' = 0 /\ replies' = <<>> /\ retired' = 0
  /\ file' = <<>>
  /\ error' = "none" /\ outcome' = "running" /\ dirty' = FALSE
  /\ pc' = "check"
  /\ UNCHANGED <<loaderVars, faults>>

\* Closing the usbfs node takes back whatever is still queued.
Close(o, note) ==
  /\ pc' = "closed"
  /\ outcome' = o
  /\ dirty' = note
  /\ submitted' = Len(replies)
  /\ UNCHANGED <<callVars, replies, retired, file, error, attempts>>

\* _recovery_note answers only to errors of _upload_stream and _download_stream.
RecoveryNote == error = "dfu"

\* The step at hand raises DfuTransferError.
Raise ==
  IF pc \in {"manifest", "poll", "confirm"}
  THEN /\ error' = "dfu" /\ pc' = "check"
       /\ UNCHANGED <<callVars, queueVars, file, outcome, dirty, attempts>>
  ELSE Close("failed", RecoveryNote)

\* A synchronous control transfer runs behind everything still queued.
CanControl == present /\ submitted = Len(replies) /\ ~loader.flushing

Continue(step) ==
  /\ pc' = step
  /\ UNCHANGED <<callVars, queueVars, file, endVars, attempts>>

-----------------------------------------------------------------------------
(* _ensure_idle, on opening and again as recovery after an error.          *)

Check ==
  LET l == StatusPolled(loader) IN
  /\ pc = "check"
  /\ CanControl
  /\ \/ l.state = "idle" /\ loader' = l /\ Continue("recheck")
     \/ l.state = "error" /\ loader' = StatusCleared(l) /\ Continue("recheck")
     \/ /\ l.state \in {"dnload_idle", "upload_idle"}
        /\ loader' = Aborted(l) /\ Continue("recheck")
     \/ l.state \in {"manifest_sync", "manifest"} /\ loader' = l /\ Raise
  /\ UNCHANGED <<medium, hot, present, faults>>

IdleGood(l) == l.good /\ l.state = "idle"

Recheck ==
  LET l == StatusPolled(loader) IN
  /\ pc = "recheck"
  /\ CanControl
  /\ loader' = l
  /\ IF ~IdleGood(l) THEN Raise
     ELSE IF error = "none" THEN Continue("stream")
     ELSE Close("failed", FALSE)
  /\ UNCHANGED <<medium, hot, present, faults>>

-----------------------------------------------------------------------------
(* Streaming: queue requests up to the depth, then retire the oldest.      *)

CanSubmit ==
  IF op = "upload"
  THEN submitted < Requests /\ submitted - retired < UploadDepth
  ELSE \/ submitted % 2 = 1
       \/ submitted < 2 * Blocks /\ submitted - retired < 2 * Depth

Submit ==
  /\ pc = "stream"
  /\ CanSubmit
  /\ submitted' = submitted + 1
  /\ UNCHANGED <<loaderVars, pc, callVars, replies, retired, file, endVars,
                 faults, attempts>>

\* Leaving the pipeline with an exception cancels what is queued first.
StreamRaises(kind) ==
  /\ pc' = "cancel" /\ error' = kind
  /\ UNCHANGED <<submitted, replies, retired, file>>

RetireUpload ==
  LET r == replies[retired + 1] IN
  /\ pc = "stream" /\ op = "upload"
  /\ ~CanSubmit
  /\ retired < Len(replies)
  /\ IF r.kind = "data" /\ r.len = Wanted(retired)
     THEN /\ file' = Prefix(file \o [i \in 1 .. r.len |-> r.from + i - 1], keep)
          /\ retired' = retired + 1
          /\ pc' = IF retired + 1 = Requests THEN "finish" ELSE pc
          /\ UNCHANGED <<submitted, replies, error>>
     ELSE StreamRaises("dfu")
  /\ UNCHANGED <<loaderVars, callVars, outcome, dirty, faults, attempts>>

RetireDownload ==
  LET ack == replies[retired + 1]
      r == replies[retired + 2]
      pair == Len(replies) > retired + 1
  IN
  /\ pc = "stream" /\ op = "download"
  /\ ~CanSubmit
  /\ retired < Len(replies)
  /\ \/ ack.kind # "ack" /\ StreamRaises("dfu")
     \/ /\ ack.kind = "ack" /\ pair
        /\ ~(r.kind = "status" /\ r.good /\ r.state = "dnload_idle")
        /\ StreamRaises("dfu")
     \/ /\ ack.kind = "ack" /\ pair
        /\ r.kind = "status" /\ r.good /\ r.state = "dnload_idle"
        /\ retired' = retired + 2
        /\ pc' = IF retired + 2 = 2 * Blocks THEN "manifest" ELSE pc
        /\ UNCHANGED <<submitted, replies, file, error>>
  /\ UNCHANGED <<loaderVars, callVars, outcome, dirty, faults, attempts>>

\* retire() waits TRANSFER_TIMEOUT_SECONDS for its request, or pair, and no longer.
Unanswered ==
  /\ ~CanSubmit
  /\ \/ retired = Len(replies)
     \/ op = "download" /\ retired + 1 = Len(replies) /\ replies[retired + 1].kind = "ack"

RetireTimesOut ==
  /\ pc = "stream"
  /\ Unanswered
  /\ StreamRaises("dfu")
  /\ UNCHANGED <<loaderVars, callVars, outcome, dirty, faults, attempts>>

\* A refused SUBMITURB or an image that changes size ("dfu"); a full disk or
\* KeyboardInterrupt, which get no recovery ("other").
StreamFails ==
  /\ pc = "stream"
  /\ Fault
  /\ \E kind \in {"dfu", "other"} : StreamRaises(kind)
  /\ UNCHANGED <<loaderVars, callVars, outcome, dirty, attempts>>

\* cancel_all discards the oldest request first, so a later one may still run.
Discard ==
  /\ pc = "cancel"
  /\ Len(replies) < submitted
  /\ replies' = Append(replies, Cancelled)
  /\ UNCHANGED <<loaderVars, pc, callVars, submitted, retired, file, endVars,
                 faults, attempts>>

\* All came back, or CANCEL_GRACE_SECONDS end with some still queued.
CancelEnds ==
  /\ pc = "cancel"
  /\ IF error = "dfu" THEN Continue("check") ELSE Close("interrupted", FALSE)
  /\ UNCHANGED <<loaderVars, faults>>

-----------------------------------------------------------------------------
(* Confirming the end of a transfer.                                       *)

\* _finish_upload; its errors get no recovery.
FinishUpload ==
  LET l == StatusPolled(loader)
      a == IF l.good /\ l.state = "upload_idle" THEN StatusPolled(Aborted(l)) ELSE l
  IN
  /\ pc = "finish"
  /\ CanControl
  /\ loader' = a
  /\ IF IdleGood(a) THEN Close("done", FALSE) ELSE Raise
  /\ UNCHANGED <<medium, hot, present, faults>>

\* The zero-length DFU_DNLOAD.
Manifest ==
  /\ pc = "manifest"
  /\ CanControl
  /\ loader' = Ended(loader)
  /\ IF loader'.state = "error" THEN Raise ELSE Continue("poll")
  /\ UNCHANGED <<medium, hot, present, faults>>

\* The first dfuIDLE is taken for the end of the write.
NoConfirmation == Close("done", FALSE)
\* One more status request is answered only after the last flush.
ConfirmNext == Continue("confirm")

PollManifest ==
  LET l == StatusPolled(loader) IN
  /\ pc = "poll"
  /\ CanControl
  /\ loader' = l
  /\ \/ l.good /\ l.state = "idle" /\ ConfirmNext
     \/ l.good /\ l.state \in Busy /\ Continue("poll")
     \/ ~(l.good /\ l.state \in {"idle"} \cup Busy) /\ Raise
  /\ UNCHANGED <<medium, hot, present, faults>>

\* A loader that stays busy keeps answering, which changes nothing here; the
\* loop gives up after MANIFEST_TIMEOUT_SECONDS.
StaysBusy == pc = "poll" /\ present /\ loader.state \in Busy

ManifestTimesOut ==
  /\ StaysBusy
  /\ Raise
  /\ UNCHANGED <<loaderVars, faults>>

ConfirmFlush ==
  LET l == StatusPolled(loader) IN
  /\ pc = "confirm"
  /\ CanControl
  /\ loader' = l
  /\ IF IdleGood(l) THEN Close("done", FALSE) ELSE Raise
  /\ UNCHANGED <<medium, hot, present, faults>>

-----------------------------------------------------------------------------
(* Faults of a session.                                                    *)

\* A synchronous request fails: no device, or the time given to USBDEVFS_CONTROL
\* is over, whether or not the status request ran.
ControlFails ==
  /\ pc \in SyncSteps
  /\ loader' \in IF present THEN {loader, StatusPolled(loader)} ELSE {loader}
  /\ Raise
  /\ UNCHANGED <<medium, hot, present, faults>>

\* KeyboardInterrupt outside the stream, or the helper is killed anywhere.
Interrupted ==
  /\ pc # "closed"
  /\ Fault
  /\ Close("interrupted", FALSE)
  /\ UNCHANGED loaderVars

-----------------------------------------------------------------------------
(* The device: endpoint 0 runs the oldest queued request.                  *)

Ran(l, m, answer) ==
  /\ loader' = l /\ medium' = m
  /\ replies' = Append(replies, answer)
  /\ UNCHANGED <<present, pc, callVars, submitted, retired, file, endVars, attempts>>

Pending == Len(replies) < submitted

RunUpload ==
  /\ Pending /\ op = "upload"
  /\ present /\ ~loader.flushing
  /\ LET r == Uploaded(loader, Len(replies)) IN Ran(r.loader, medium, r.answer)
  /\ UNCHANGED <<hot, faults>>

\* Without dfu-queue.patch, a DFU_DNLOAD right behind a DFU_GETSTATUS may be
\* completed, and written, before its data arrives.
RunDownload ==
  /\ Pending /\ op = "download" /\ Len(replies) % 2 = 0
  /\ present /\ ~loader.flushing
  /\ \E fails, stale \in BOOLEAN :
        LET block == Len(replies) \div 2
            units == IF stale THEN [i \in 1 .. Len(Chunk(block)) |-> Junk] ELSE Chunk(block)
            r == Downloaded(loader, medium, block, units, fails)
        IN  /\ stale => hot /\ ~QueueLoader
            /\ IF fails THEN Fault ELSE UNCHANGED faults
            /\ Ran(r.loader, r.medium, r.answer)
  /\ hot' = FALSE

RunStatus ==
  /\ Pending /\ op = "download" /\ Len(replies) % 2 = 1
  /\ present /\ ~loader.flushing
  /\ LET l == StatusPolled(loader) IN Ran(l, medium, Status(l))
  /\ hot' = (submitted > Len(replies) + 1)
  /\ UNCHANGED faults

RunWithoutDevice ==
  /\ Pending /\ ~present
  /\ Ran(loader, medium, Fail)
  /\ UNCHANGED <<hot, faults>>

\* The loader writes its last buffer out after it has announced dfuIDLE.
Flush ==
  /\ present /\ loader.flushing
  /\ \/ /\ DrainFits(loader)
        /\ loader' = Flushed(loader) /\ medium' = Stored(loader, medium)
        /\ UNCHANGED faults
     \/ /\ IF DrainFits(loader) THEN Fault ELSE UNCHANGED faults
        /\ loader' = FlushFailed(loader) /\ UNCHANGED medium
  /\ UNCHANGED <<hot, present, pc, callVars, queueVars, file, endVars, attempts>>

\* The robot disappears; entering DFU again loads a fresh loader into RAM.
Disconnect ==
  /\ present
  /\ Fault
  /\ present' = FALSE /\ loader' = FreshLoader /\ hot' = FALSE
  /\ UNCHANGED <<medium, pc, callVars, queueVars, file, endVars, attempts>>

Reenter ==
  /\ pc = "closed"
  /\ present' = TRUE /\ loader' = FreshLoader /\ hot' = FALSE
  /\ UNCHANGED <<medium, pc, callVars, queueVars, file, endVars, faults, attempts>>

-----------------------------------------------------------------------------
Host == \/ Check \/ Recheck \/ Submit \/ RetireUpload \/ RetireDownload
        \/ Discard \/ CancelEnds \/ FinishUpload \/ Manifest \/ PollManifest
        \/ ConfirmFlush \/ ControlFails \/ RetireTimesOut \/ ManifestTimesOut

Device == RunUpload \/ RunDownload \/ RunStatus \/ RunWithoutDevice \/ Flush

Next == \/ \E o \in Ops, n, k \in Sizes : Open(o, n, k)
        \/ Host \/ StreamFails \/ Interrupted \/ Device \/ Disconnect \/ Reenter

Spec == Init /\ [][Next]_vars

\* The helper goes on with what it was answered, and every wait has its limit.
\* Nothing is assumed of the device or of the kernel's part in a cancellation:
\* requests may stay unanswered, and the manifest poll may be told "busy", for ever.
Proceeds == Submit \/ RetireUpload \/ RetireDownload
RequestTimesOut == ~StaysBusy /\ ControlFails

FairSpec == Spec /\ WF_vars(Proceeds) /\ WF_vars(RetireTimesOut) /\ WF_vars(CancelEnds)
                 /\ WF_vars(RequestTimesOut) /\ WF_vars(ManifestTimesOut)

-----------------------------------------------------------------------------
TypeOK ==
  /\ loader \in Loader /\ medium \in Medium
  /\ hot \in BOOLEAN /\ present \in BOOLEAN
  /\ pc \in SyncSteps \cup {"closed", "stream", "cancel"}
  /\ op \in Ops /\ size \in Nat /\ keep \in Nat
  /\ submitted \in Nat /\ replies \in Seq(Answers) /\ retired \in Nat
  /\ Len(replies) <= submitted
  /\ file \in Seq(Nat)
  /\ error \in {"none", "dfu", "other"}
  /\ outcome \in {"none", "running", "done", "failed", "interrupted"}
  /\ dirty \in BOOLEAN
  /\ faults \in Nat /\ attempts \in Nat

\* _upload_stream: a read of the alternative's true size that reports success
\* saved exactly the leading units of the partition, in order.
UploadFaithful ==
  op = "upload" /\ outcome = "done" /\ size = PartitionSize =>
    file = [i \in 1 .. keep |-> i - 1]

\* No download begins where an interrupted one left the cursor open at block 0:
\* that takes a whole number of BlockWrap blocks (65536 in the code), and then
\* block 0 is accepted in the middle of the partition.
CursorFresh ==
  pc = "recheck" /\ op = "download" /\ loader.writeOpen => loader.expected # 0

ImageStored ==
  op = "download" /\ outcome = "done" => \A u \in 0 .. size - 1 : medium[u] = Unit(u)

\* _download_stream: from a fresh cursor, a write that reports success has put
\* the whole image on the eMMC, the loader's last buffer included.
DownloadStored == []CursorFresh => []ImageStored

UnitsInPlace ==
  \A u \in Units : medium[u] = Old \/ (medium[u] >= 0 /\ medium[u] % PartitionSize = u)

\* From a fresh cursor, whatever fails or is interrupted, a partition unit holds
\* what it held or an image's unit for that very place, never a stale or
\* displaced one.
NothingMisplaced == []CursorFresh => []UnitsInPlace

\* _recovery_note: a failure reported without a cleanup failure left the
\* interface usable: idle, no error status and nothing left to run.
CleanFailure ==
  outcome = "failed" /\ error = "dfu" /\ ~dirty /\ pc = "closed" =>
    IdleGood(loader) /\ ~loader.flushing

\* _upload_stream: once the loader has answered the first of them, requests
\* queued ahead never run past the end into a second pass over the
\* alternative.  (Where interrupted queued writes left the cursor ahead, it can
\* refuse the first ones and answer later ones; that read fails at block 0.)
OnePass ==
  op = "upload" /\ size <= PartitionSize =>
    \A i, j \in 1 .. Len(replies) :
      i < j /\ {replies[1].kind, replies[i].kind, replies[j].kind} = {"data"} =>
        replies[i].from < replies[j].from

\* Every session ends, whatever fails on the way and however long the device is
\* silent or busy.
SessionEnds == pc # "closed" ~> pc = "closed"
=============================================================================
