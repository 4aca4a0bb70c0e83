----------------------------- MODULE DfuLoader ------------------------------
(***************************************************************************)
(* The RAM loader's DFU interface as jibo_dfu_pipeline sees it: what each  *)
(* request does to the loader's state and what it answers.  The request    *)
(* semantics are those of the loader double the tests drive the pipeline   *)
(* with (tests/test_dfu_pipeline.py, FakeUbootDfu), plus what the pipeline *)
(* says of the real one: the last buffer is flushed after the status       *)
(* answer that announces dfuIDLE.                                          *)
(*                                                                         *)
(* Data is counted in units; a medium maps every unit of the partition to  *)
(* the image unit stored there, Old (as before) or Junk.                   *)
(***************************************************************************)
EXTENDS Integers, Sequences

CONSTANTS
  TransferSize,   \* units in a full block
  PartitionSize,  \* units in the alternative
  BlockWrap,      \* block numbers are modulo this (2^16 in the code)
  DrainSize       \* buffered units that make the loader write them out

ASSUME LoaderAssumption ==
  /\ TransferSize \in Nat \ {0} /\ PartitionSize \in Nat \ {0}
  /\ BlockWrap \in Nat \ {0, 1} /\ DrainSize \in Nat \ {0}

Old == -1
Junk == -2

Units == 0 .. PartitionSize - 1
Medium == [Units -> Int]

DfuStates == {"idle", "dnload_sync", "dnload_idle", "manifest_sync", "manifest",
              "upload_idle", "error"}

Loader == [state : DfuStates, good : BOOLEAN,      \* good: bStatus is OK
           readOpen : BOOLEAN, writeOpen : BOOLEAN, \* read_inited, write_inited
           expected : Nat,                          \* one cursor serves both
           offset : 0 .. PartitionSize,
           pending : Seq(Int),                      \* accepted, not yet written
           flushing : BOOLEAN]                      \* dfuIDLE announced, writing

FreshLoader == [state |-> "idle", good |-> TRUE, readOpen |-> FALSE,
                writeOpen |-> FALSE, expected |-> 0, offset |-> 0,
                pending |-> <<>>, flushing |-> FALSE]

Fail == [kind |-> "fail"]
Ack == [kind |-> "ack"]
Cancelled == [kind |-> "cancelled"]
Data(from, len) == [kind |-> "data", from |-> from, len |-> len]
Status(l) == [kind |-> "status", good |-> l.good, state |-> l.state]

Answers == {Fail, Ack, Cancelled}
           \cup [kind : {"data"}, from : Nat, len : Nat]
           \cup [kind : {"status"}, good : BOOLEAN, state : DfuStates]

Stalled(l) == [l EXCEPT !.state = "error"]

-----------------------------------------------------------------------------
\* DFU_GETSTATUS also drives the transfer and manifestation states on.
StatusPolled(l) ==
  [l EXCEPT !.state = CASE @ = "dnload_sync" -> "dnload_idle"
                        [] @ = "manifest_sync" -> "manifest"
                        [] @ = "manifest" -> "idle"
                        [] OTHER -> @,
            !.flushing = @ \/ l.state = "manifest"]

Aborted(l) ==
  IF l.state \in {"dnload_idle", "upload_idle"} THEN [l EXCEPT !.state = "idle"] ELSE l

StatusCleared(l) ==
  IF l.state = "error" THEN [l EXCEPT !.state = "idle", !.good = TRUE] ELSE Stalled(l)

-----------------------------------------------------------------------------
\* DFU_UPLOAD: the first one after dfuIDLE is block 0 whatever its number; a
\* short block closes the read cursor, and returns to dfuIDLE unless first.
ReadCursor(l) ==
  IF l.readOpen THEN l ELSE [l EXCEPT !.readOpen = TRUE, !.expected = 0, !.offset = 0]

Uploaded(l, block) ==
  LET first == l.state = "idle"
      c == ReadCursor([l EXCEPT !.state = "upload_idle"])
      left == PartitionSize - c.offset
      len == IF left < TransferSize THEN left ELSE TransferSize
  IN  IF l.state \notin {"idle", "upload_idle"}
      THEN [loader |-> Stalled(l), answer |-> Fail]
      ELSE IF (IF first THEN 0 ELSE block % BlockWrap) # c.expected
      THEN [loader |-> c, answer |-> Fail]
      ELSE [loader |-> [c EXCEPT !.expected = (@ + 1) % BlockWrap,
                                 !.offset = @ + len,
                                 !.readOpen = len = TransferSize,
                                 !.state = IF len < TransferSize /\ ~first
                                           THEN "idle" ELSE @],
            answer |-> Data(c.offset, len)]

-----------------------------------------------------------------------------
\* Writing out the pending units at the cursor; beyond the end is refused.
DrainFits(l) == l.offset + Len(l.pending) <= PartitionSize

Stored(l, medium) ==
  [u \in Units |-> IF u >= l.offset /\ u < l.offset + Len(l.pending)
                   THEN l.pending[u - l.offset + 1] ELSE medium[u]]

Drained(l) == [l EXCEPT !.offset = @ + Len(l.pending), !.pending = <<>>]

WriteFailed(l) == [l EXCEPT !.writeOpen = FALSE, !.state = "error", !.good = FALSE]

\* DFU_DNLOAD of a block: buffered in order, a full buffer is written out.
WriteCursor(l) ==
  IF l.writeOpen THEN l
  ELSE [l EXCEPT !.writeOpen = TRUE, !.expected = 0, !.offset = 0, !.pending = <<>>]

Downloaded(l, medium, block, units, emmcFails) ==
  LET c == WriteCursor([l EXCEPT !.state = "dnload_sync"])
      b == [c EXCEPT !.expected = (@ + 1) % BlockWrap, !.pending = @ \o units]
      drain == Len(b.pending) >= DrainSize
  IN  IF l.state \notin {"idle", "dnload_idle"}
      THEN [loader |-> Stalled(l), medium |-> medium, answer |-> Fail]
      ELSE IF block % BlockWrap # c.expected \/ emmcFails \/ (drain /\ ~DrainFits(b))
      THEN [loader |-> WriteFailed(c), medium |-> medium, answer |-> Ack]
      ELSE IF drain
      THEN [loader |-> Drained(b), medium |-> Stored(b, medium), answer |-> Ack]
      ELSE [loader |-> b, medium |-> medium, answer |-> Ack]

\* DFU_DNLOAD of length zero ends the transfer; in dfuIDLE it is an error.
Ended(l) ==
  IF l.state = "dnload_idle" THEN [l EXCEPT !.state = "manifest_sync"] ELSE Stalled(l)

\* The flush behind the dfuIDLE answer: the last buffer reaches the eMMC.
Flushed(l) == [Drained(l) EXCEPT !.writeOpen = FALSE, !.flushing = FALSE]
FlushFailed(l) == [WriteFailed(l) EXCEPT !.flushing = FALSE]
=============================================================================
