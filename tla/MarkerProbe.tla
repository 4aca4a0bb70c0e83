----------------------------- MODULE MarkerProbe ------------------------------
(***************************************************************************)
(* Reading the partition table of the robot from the loader's marker       *)
(* (jibo_dfu_bounded.py): a few DFU_UPLOAD requests up to the short one,   *)
(* then DFU_ABORT and DFU_GETSTATUS, with no DFU_CLRSTATUS.  All           *)
(* operations begin with it, so it meets whatever earlier transfers and    *)
(* probes that were cut off left in the loader.                            *)
(***************************************************************************)
EXTENDS DfuLoader

CONSTANT MarkerSize   \* what the toolkit expects, in units (34 sectors)

(* The loader is pinned: its marker is as long as the toolkit expects, and *)
(* far shorter than the block numbers reach.                               *)
ASSUME MarkerAssumption ==
  MarkerSize = PartitionSize /\ MarkerSize < BlockWrap * TransferSize

VARIABLES
  marker,  \* the loader, with the cursor of the marker
  probe,   \* where the probe is
  block,   \* the block it asks for next
  got,     \* the units received, as places in the marker
  bad      \* something went wrong, in the reading or in the clean-up

probeVars == <<marker, probe, block, got, bad>>

-----------------------------------------------------------------------------
(* Mutations, each a slip the code could have made (see PROJECT.json).     *)
AnyEnd(units) == TRUE        \* takes whatever came before the short block

-----------------------------------------------------------------------------
ProbeInit ==
  /\ marker = FreshLoader
  /\ probe = "off" /\ block = 0 /\ got = <<>> /\ bad = FALSE

ProbeGoes(next) == probe' = next

(* The port, the name of the alternative, which must be there once, the    *)
(* interface and the transfer size are checked first.                      *)
ProbeOpens(there) ==
  /\ probe = "off"
  /\ \/ there /\ ProbeGoes("upload")
     \/ ProbeGoes("failed")
  /\ block' = 0 /\ got' = <<>> /\ bad' = FALSE
  /\ UNCHANGED marker

(* The marker must end where it is expected to.                            *)
WholeMarker(units) == Len(units) = MarkerSize

Places(from, n) == [i \in 1 .. n |-> from + i - 1]

(* One block; a transfer may bring less than the loader sent.              *)
BlockRead(there) ==
  LET reply == Uploaded(marker, block) IN
  /\ probe = "upload" /\ there /\ reply.answer.kind = "data"
  /\ marker' = reply.loader
  /\ \E n \in 0 .. reply.answer.len :
       /\ got' = got \o Places(reply.answer.from, n)
       /\ IF n < TransferSize
          THEN ProbeGoes("abort") /\ bad' = ~WholeMarker(got') /\ UNCHANGED block
          ELSE UNCHANGED <<probe, bad>> /\ block' = block + 1

(* A stall, a time-out, a robot that is gone, or Ctrl-C; the loader may    *)
(* have served the request.                                                *)
BlockFails(there) ==
  /\ probe = "upload"
  /\ IF there THEN marker' \in {marker, Uploaded(marker, block).loader} ELSE UNCHANGED marker
  /\ ProbeGoes("abort") /\ bad' = TRUE
  /\ UNCHANGED <<block, got>>

(* The clean-up is tried whatever happened, each request by itself.        *)
ProbeAborts(there) ==
  /\ probe = "abort"
  /\ \/ there /\ marker' = Aborted(marker) /\ UNCHANGED bad
     \/ marker' \in {marker} \cup (IF there THEN {Aborted(marker)} ELSE {}) /\ bad' = TRUE
  /\ ProbeGoes("status")
  /\ UNCHANGED <<block, got>>

Ready(l) == l.good /\ l.state = "idle"

ProbeEnds(there) ==
  /\ probe = "status"
  /\ \/ there /\ marker' = StatusPolled(marker)
        /\ ProbeGoes(IF Ready(marker') /\ ~bad THEN "done" ELSE "failed")
     \/ UNCHANGED marker /\ ProbeGoes("failed")
  /\ UNCHANGED <<block, got, bad>>

ProbeOver ==
  /\ ProbeGoes("off") /\ block' = 0 /\ got' = <<>> /\ bad' = FALSE
  /\ UNCHANGED marker

ProbeStep(there) ==
  BlockRead(there) \/ BlockFails(there) \/ ProbeAborts(there) \/ ProbeEnds(there)

(* Other transfers go through the same interface; one that fails may leave *)
(* it in the middle of something.                                          *)
LeftBy(states) ==
  /\ \E s \in states : marker' = [marker EXCEPT !.state = s]
  /\ UNCHANGED <<probe, block, got, bad>>

LoaderRestarts == marker' = FreshLoader /\ UNCHANGED <<probe, block, got, bad>>

-----------------------------------------------------------------------------
ProbeTypeOK ==
  /\ marker \in Loader
  /\ probe \in {"off", "upload", "abort", "status", "done", "failed"}
  /\ block \in Nat /\ bad \in BOOLEAN
  /\ got \in Seq(0 .. PartitionSize - 1)

(* A probe that succeeds read every unit of the marker once and in order,  *)
(* whatever cursor or interface state it found, and left a loader in which *)
(* the next check can run: idle, with the cursor closed.  (README.md:302   *)
(* promises the latter; a probe that fails may leave it open.)             *)
MarkerWhole ==
  probe = "done" =>
    /\ got = Places(0, MarkerSize)
    /\ marker.state = "idle" /\ ~marker.readOpen
=============================================================================
