# Formal models of the Jibo DFU toolkit

The toolkit writes the flash of a small robot over USB, from a computer that
may be interrupted at any time, through a boot loader that runs from RAM and
cannot be asked what it did before.  The robot carries identity and calibration
that exist nowhere else.  This directory holds TLA+ models of the parts where
the order of things decides whether that data survives, their TLC
configurations, and proofs that TLAPS checks.

Run TLC and TLAPS in this directory, for example

    tlc -workers 2 -config BackupStore.cfg BackupStore
    tlapm BackupStoreProofs.tla

`PROJECT.json` lists the runs with their properties, one mutation of the code
for every property that a run must then reject, the source lines behind every
definition, the hazards, the disagreements found, and the main theorems.

Paths below are relative to the repository's root, which is `src/` in
`PROJECT.json`.

## The system

| component | state it keeps | operations | what makes it hard |
|---|---|---|---|
| **USB control-transfer pipeline**, `jibo_dfu_pipeline.py` `_ControlPipeline`, `_Usbfs` | free slots, slots in submission order, buffers the kernel may be writing | `submit`, `retire`, `_collect`, `cancel_all`, `close` | completions arrive in any order; a time-out leaves the kernel owning memory of the process |
| **DFU transfer helper**, rest of `jibo_dfu_pipeline.py` | the session, the blocks sent and received, the loader's cursors and buffer | `upload`, `download`, `_ensure_idle`, `_get_status` | several requests in flight against a loader that was not written for it; faults of USB, eMMC, host and user; cursors that outlive the helper |
| **Backup store**, `jibo_dfu.py` 800-1483 | folders, `backup-set.json` records, images, advisory locks | `backup_partitions`, `delete_backup_set`, `restore_partitions`, the listing | several windows (processes) at once; records rewritten in place; folders that move and disappear; crashes |
| **Robot writes**, `jibo_dfu.py` 1486-1594, 1974-2400, 2511-2746 | rollback images and their records, the record of the operation, the partitions | `flash_update`, `_write_candidate` (all edits of `var`), `_restore_partitions` | a failure leaves a partition old, new or broken; retries after failures; the robot is found by USB port and may be exchanged |
| **GUI controller**, `jibo_gui_core.py` | the view of USB, the busy flag, the pending prompt, the token of closable work | refresh, start, ask, answer, run work, close | three threads; closing races prompts, work and transfers |
| **File-level edits**, `jibo_dfu.py` 2812-3497 and `firmware/file-level*` | the loader's mailbox, the transaction's record | stat, read, write with precondition, acknowledgement, readback | a lost or stale answer, several writes of which one fails, several windows, a child that outlives its toolkit |
| **Hosted images**, `jibo_hosted_updates.py` | cached list and watermark, partial archive, receipt, lock files | `fetch_catalog`, `flash_download_session`, `_download`, publication | resumption after a crash between bytes and receipt; locks that a kill leaves behind |
| Calibration sharing, `jibo_calibration*.py` | preferences, receipts | consent, submission, removal, lookup | lost answers; switched off in this build (`CALIBRATION_SHARING_AVAILABLE`) |
| **DFU entry and discovery**, `jibo_dfu.py` 106-142, 442-546, 3969-3999 | a deadline for each wait | `enter_shofel_dfu`, `_settled_dfu_alternatives`, listings | a loader that comes late or lists its alternatives one by one, listings that hang |
| **Bounded DFU reads**, `jibo_dfu_bounded.py` | the loader's read cursor | `read_dfu_alt_prefix`, `_upload_bounded` | a read that was cut off leaves the cursor open |
| **Edits of an image**, `jibo_images.py` 62-151, 365-430, 794-955 | the file at the output path | `edit_mode`, `edit_wifi`, `edit_mode_wifi`, `edit_boot_network_status` | several files, and repairs of the filesystem after them |
| **Text menu and command line**, `jibo_tui.py`, `jibo_dfu.py` 3604-3962 | what was last seen on USB, the prompts still to come | every operation of the toolkit | the robot changes between the look, the prompts and the steps; Esc and Ctrl-C anywhere |
| Packages, `jibo_updates.py`, `jibo_flash_contract.py`, `jibo_flash_policy.py` | temporary files | checking, extracting, transplanting | sequential file work, of which `RobotWrites` has the result |
| Tk window, `jibo_gui.py` | what is drawn | widgets | draws what the controller publishes |
| Launchers and release, `run*`, `usbipd.ps1`, `scripts/` | environment | set-up, packaging | shell and PowerShell around the toolkit |
| Robot side, `robot-ota-repoint.sh`, `assets/boot-network-status/`, firmware patches | on the robot | - | runs elsewhere |

Components in bold are modelled.

How they meet: the Tk window calls the controller; the controller runs one flow
of `jibo_tui.py` at a time on a worker thread, which asks its questions through
`Prompt` objects and calls the backend `jibo_dfu.py`; the backend starts
`jibo_dfu_pipeline.py` (or dfu-util) as a child process for every transfer, and
keeps images and records under `Jibo-Backups/`, which all toolkit windows of the
user share.  Nothing but advisory file locks coordinates the windows.  Without
the Tk window, the text menu or the command line calls the same backend.

What has to be right, by component, is stated with its properties below;
`PROJECT.json` lists every hazard at the line where it bites.

## Modules

| module | models | promise it implements |
|---|---|---|
| `RequestQueue` | what a pipeline promises: answers in submission order, each of its own request | |
| `ControlPipeline` | `_ControlPipeline` over usbfs | `RequestQueue` |
| `ControlPipelineProofs` | proofs | |
| `DfuLoader` | the RAM loader's DFU state, as operators (external) | |
| `DfuTransfer` | `upload` and `download` over `DfuLoader` | |
| `DfuTransferProofs` | proofs: reads, writes, the queue, the cursor between sessions | |
| `GuiController` | `GuiController` with its three threads | |
| `GuiControllerProofs` | proofs | |
| `SavedSets` | the life of a backup set as a user may rely on it | |
| `BackupStore` | sets, records, locks and windows | `SavedSets` |
| `BackupStoreProofs` | proofs | |
| `RobotWrites` | flashes, edits and restores of one robot | |
| `RobotWritesProofs` | proofs | |
| `MCRobotWrites` | the symmetry of contents, for TLC | |
| `ReviewedEdits` | what an edit of single files promises its user | |
| `FileMailbox` | the file mailbox of the loader, `firmware/file-level.patch` | |
| `FileTransaction` | the file edits of several windows over the mailboxes of several robots | `ReviewedEdits` |
| `FileTransactionProofs` | proofs, the refinement of `ReviewedEdits` among them | |
| `MCFileTransaction` | the symmetry of robots, edits and contents, for TLC | |
| `LockFiles` | lock files that a kill leaves behind | |
| `HostedCatalog` | the list of hosted images, its cache and watermark | |
| `HostedDownload` | the download of an image for a flash, and its folder | |
| `HostedFlash` | `HostedCatalog` and `HostedDownload` in several windows | |
| `HostedFlashProofs` | proofs | |
| `DfuEntry` | finding a robot, starting the loader, the deadlines of every wait | |
| `MarkerProbe` | the read of the partition table, over `DfuLoader` | |
| `VarImageEdit` | the edits of a `var` image on the computer | |
| `TextMenu` | the menu and the command line over the three modules before | |
| `MCTextMenu` | the alternatives a loader may list, for TLC | |
| `TextMenuProofs` | proofs | |

`DfuTransfer` uses `DfuLoader` for the device and the guarantee of
`RequestQueue` (answers come in order, one per request) for the pipeline:
`replies[n]` answers request `n`.  `ControlPipeline` shows that the slots give
that guarantee.  `RobotWrites` in turn takes a transfer as one step whose outcome
is the whole image, the old contents or something broken, which is what
`DfuTransfer` shows of success and failure; and it takes saved sets as a set of
contents, whose life is the subject of `BackupStore`.  `TextMenu` is the frame
around all of them: there a transfer is one step whose only trace is the state it
leaves the interface in, and what is studied is waiting, probing, and the way
back to the menu.

### ControlPipeline

`free`, `queued` and `done` are the slots of `_ControlPipeline`; `inKernel` and
`ready` are the kernel's; `number` is history, the request a slot carries.
`Submit`, `Collect`, `Retire`, `CancelCollects` and `EndCancel` are the methods;
a time-out (`WaitFails`) may come at any wait, and a cancellation may end by its
grace period, before the kernel returned everything.  KeyboardInterrupt (Ctrl-C,
and SIGTERM from the parent) may come anywhere and more than once: inside
`submit`, between the request and its place in the queue (`SubmitCut`), between a
reap and its mark (`CollectCut`), on the way to or inside `cancel_all`
(`CancelCut`), which catches its own errors only, and in the session's `__exit__`
before the node is closed (`CloseCut`).  `unwinding` is the exception that is on
its way and keeps the frames it passes through alive, until `main()` has it
(`MainHandles`).  `Finish` is the kernel
completing, failing or cancelling any one transfer.  The code's list of free
slots is a set here: which free slot is taken does not matter.  The error
"foreign URB" cannot happen, as every submitted URB is one of the slots.

*Checked* (`pipeline`, three slots, six requests): a slot offered for reuse is
never owned by the kernel (`NoReuseInFlight`); as long as the kernel may write to
a buffer, the running pipeline, the device node that retained it, or the
exception under way keeps it (`BuffersHeld`); and the whole implements
`RequestQueue`.  Three slots are what reordering and refilling need; six requests
let every slot be reused.

Noticed, without a run: where an interrupt cuts `cancel_all` off
(`jibo_dfu_pipeline.py` 305-322), nothing is retained, and only the traceback of
that interrupt keeps the buffers until the node is closed; and where one more
interrupt keeps `_Session.__exit__` from closing the node (611-621), `main()` lets
go of buffers the kernel still has, in the moment before the process ends.  Both
properties except this last case by name (`Ending`).

### DfuLoader and DfuTransfer

The loader (U-Boot with the patches under `firmware/`) is not built from this
repository.  Its model follows what the helper relies on and what the tests'
loader does (`tests/test_dfu_pipeline.py` 15-122): one read or write cursor per
session, opened by the first block and closed by the end; a buffer that is
written out when full and once more behind dfuIDLE; block numbers compared
modulo `BlockWrap`; errors that stall until cleared.  Refusing an overrun, and a
flush that fails, are included.

The helper's steps are the functions of the module: `Open` and `Check`/`Recheck`
(`_ensure_idle`), `Submit`/`RetireUpload`/`RetireDownload` (the streams),
`FinishUpload`, `Manifest`/`PollManifest`/`ConfirmFlush`, `Discard`/`CancelEnds`
(leaving a pipeline by an exception), `Interrupted` (the user, at a wait).  The
waits that end by a limit are steps the helper may take at any time, without
counting as faults: `RetireTimesOut`, the grace period in `CancelEnds`,
`ControlFails` (a synchronous transfer fails) and `ManifestTimesOut`.  Helpers follow one another on one loader, so cursors survive; `Reenter`
starts a fresh loader.  Every download writes an image of its own (`Unit`), so a
unit of an earlier one is told apart.  Removing the destination of a failed
upload is left out.

*Checked*: `dfu_pinned`, a loader without `firmware/dfu-queue.patch` (the one
`jibo_dfu_pipeline.py` 12 calls pinned), one write in flight, two faults, two
sessions, with block numbers that wrap inside a transfer, as 65536 blocks of
4 KiB are fewer than `var` has; `dfu_queue`, a loader with the patch, as the
included `assets/loader.bin` is, deep in both directions, with fairness and
32 KiB blocks, whose numbers reach further than `var`.  A unit stands for half a
block: the nine units of `dfu_pinned` are four full blocks and a short one, and
with three block numbers they wrap, also in a write cut off after exactly three;
two faults and two sessions make every failure of one session meet the next.

- `UploadFaithful`: a read of the alternative's true size that reports success
  is exactly its leading units, although a cursor left by an interrupted read
  may accept block 0: the missing short block at the end gives it away.
- `DownloadStored`: a write that reports success is on the eMMC, the last
  buffer too, which is flushed only behind dfuIDLE.
- `NothingMisplaced`: whatever happens, each unit of the partition is old or
  was meant for its place.  This holds because writes are not queued on a
  loader without the patch (`write_depth`).
  Both have a condition, `CursorFresh`: no write begins at a loader whose cursor
  was left in the middle of the partition and expects block 0, the first of the
  two limits below.
- `CleanFailure`: a failure that does not mention its cleanup left the
  interface ready for the next command.
- `OnePass`: reads queued behind one that the loader answered never begin a
  second pass over the partition.  Of the reads whose first request was refused
  this is false with queued writes: a write cut off, a read cut off, and a write
  whose first block was cancelled together leave the
  cursor ahead of the block number it expects, so that a later request of the
  next read matches it and the one behind that begins again.  The helper fails
  at block 0 of that read and keeps nothing, as `_upload_stream` says it may.
  The run has the faults, four sessions and four reads in flight, which
  TLC needs to find this for the property without its first condition.
- `SessionEnds`: every session ends.  It rests on the limits of the code's waits
  and on nothing else: fairness is that the helper goes on with what it was
  answered (`WF(Proceeds)`) and gives up a wait whose time is over
  (`RetireTimesOut`, the grace period of `cancel_all` in `CancelEnds`, the time
  given to a synchronous request in `RequestTimesOut`, `ManifestTimesOut`).  The
  device may answer nothing, and the manifestation may be reported as going on,
  for ever.  Without any one of the limits TLC finds a session that hangs.
  Nothing is assumed of users and faults.

Two limits are in the code; the hazard list has both at their lines, and the
properties and theorems have them as conditions.  A write interrupted after
exactly 65536 blocks, followed in the same loader session by another, meets a
cursor that expects block 0 at the wrong place.  `dfu_pinned` reaches this: with
`ImageStored` or `UnitsInPlace` as an invariant in place of the two properties, TLC
finds a write misplaced in just this way.  And on a loader that takes queued
writes, three sessions can misplace units: a write is cut off while the loader
still buffers its first block, a read that is cut off then moves the cursor that
both directions share, and of a third session's queued writes the older ones are
cancelled (`cancel_all` begins with the oldest) while the next one runs and
continues the stale buffer.  TLC finds this in `DfuTransfer_queue.cfg` with
`UnitsInPlace` as invariant, where the other three safety properties of
`dfu_pinned` hold.  That session
reports a failure, so the partition is known to be in doubt.

### GuiController

`step` is where the worker of the running action is, `prompt`, `work`,
`published`, `generation`, `busy` and `closing` are the controller's fields,
`usb` is the lock over USB access.  What USB looks like is a version number.
The flow an action runs is any sequence, up to `MaxSteps`, of prompts, closable
work (downloads, local preparation), reads, and writes behind a confirmed
review; a hosted install may put closable work between its review and its
write, as `flash_update` does.  The view may call `shutdown_if_safe` at any
time.  A refresh that fails after an action republishes the old menu, as in the
code.  Prompts are not asked while a review is approved: the one flow of the
code that does (consent to share calibration) is off in this build.  Left out:
the coalescing of output, the pages of the view, `shutdown()` of the launch
scripts.

*Checked* (`gui`: three versions of USB, two actions of up to four steps):
`NeverOlder`, `NoCloseOverTransfer`, `EditsEndAtClose` and `ClosingEnds`.
Fairness: threads run (`WF(Probe)`, `WF(WorkerRuns)`).  That a transfer ends is
part of `WorkerRuns`, since every transfer has a time-out; that a download
completes is not assumed, so closing must cancel it, and that a user answers is
not assumed, so closing must answer for them.

*Found* (`gui_hosted`): `shutdown_if_safe` says it refuses closing "once a
prompt has approved a transfer"; a hosted install prepares its image as
closable work after the approval, and a close at its end is granted while the
write still runs.  `EditsEndAtClose` is what holds: no other action does that.

### BackupStore and SavedSets

Each window (a process) runs one operation at a time.  A set has a folder that
may move once, when `var` gave the robot's name, and may be set aside by a
deletion; a record with a status and the path of each image; images; and locks,
which follow the record's file through a renaming of its folder.  The record is
rewritten in two steps, truncation and contents.  `Crash` stops a window at any
point, as a kill or Ctrl-C does: its locks go, the rest stays, a record that
says "reading" for ever or a `.deleting-` folder included.  A failed read of
`var` leaves a record of its own in the folder (`litter`).  Every set is made
once, names are unique by their time, and nothing else touches the folder.
Older layouts and lone rollback images can never be deleted and are left out.

*Checked* (`backups`, three windows, one set, two partitions of which one is
`var`; windows meet only over a common set, and three are needed for a saver, a
deleter and a restorer): `SourceKept`, `Restorable`, `OnlyRecordedDeleted`, and
that the store implements `SavedSets`: a set ends once, is deleted only after it
ended and while nobody saves it or restores from it, and never returns.  The
run does not check for deadlock, as all sets may be used up.

### RobotWrites

A package has an image for every partition, none with this robot's calibration
(`Packages`, `Compact`).  After the review it is opened once more (`Prepared`);
only a hosted one is then known to be the reviewed one (`Unpacked`).  Keeping
the calibration puts `var`'s into a fresh `var`, and what this robot had in a system
partition into a copy of the new image, if a backup has it (`VarChosen`,
`Personal`).  A partition holds one of a few contents; of a content of `var` only matters
whether it carries the robot's identity and calibration (`Own`).  `backups` is
the rollback store (an image is stored first, its record becomes whole in a
later step and may be rewritten in place by `_bind_verified_backup_identity`);
`sets` are contents of `var` in saved sets; `entry` is the record in memory and
`saved` the record on disk, which is cut short between truncation and
contents.  `pc` follows an operation through review, backup, choice of the
calibration, recheck, and then the cycle record - transfer - readback - record
of each partition.  `TransferFails` leaves the old, the new or broken contents;
`Transferred` may leave broken contents without an error, which only a readback
shows; `Crash` stops anywhere; the robot is booted between operations and its
`var` changes; and `RobotExchanged` puts another robot at the same port
between any two steps.

Abstractions: the loader gives a unique device tag, as the current one does
(without it the code looks for images by hash, which is not modelled); "the
newest usable image" is any usable one; prepared images on the computer are
intact, or `WriteFails`; the chunks of a bounded skills write follow the same
cycle inside one partition and a partial one is `Broken`; statuses of a flash
record that name no write are left out; an exchanged robot does not already
hold the image, and is not exchanged between two back-to-back USB calls;
`write_var` may write any image; there is one operation at a time (two windows
on one robot are listed as a hazard); calibration from the database is off in
this build.  `verify_update_write` changes no state.

*Checked* (`writes`, two partitions, two own contents and one other, two
images; any number of operations in any order):

- `RollbackFirst`: before a flash touches a partition a usable image of exactly
  the `var` it found is in the store; an edit has a usable image of this robot,
  and if it stops, the `var` it found is on disk.
- `RecordedFirst`: a partition whose transfer ever began is named in the record
  on disk, or that record is visibly cut short.
- `CalibrationKept`: some copy of the robot's identity and calibration exists,
  through every sequence of failing, crashing and repeated operations.  Edits
  that reuse an older image and flashes that pick an older one are what makes
  it delicate.
- `ReportTrue`: "verified" is true, and success means all was written.
- `HostedSameRobot`: a hosted install writes to the robot it saved `var` from,
  unless they are exchanged after its last look.

Two partitions suffice to stop between writes; two own contents tell a stale
image from a fresh one; two images let an older and a newer one coexist.  The
two are interchangeable, so the run uses symmetry.

*Found* (`writes_restore`): "Another robot's backup is refused" (README.md:310,
docs/backups.md:51) holds only until the review: the identity is read once
before it, and the write after it goes by port.

Noticed while modelling, without a run: the failure path of
`_backup_var_without_event` (2285-2290) writes its record into a directory that
2275 has just removed when binding the identity fails.

### FileMailbox, FileTransaction and ReviewedEdits

The loader can replace the contents of a file without the partition being
transferred.  `FileMailbox` is its side, from `firmware/file-level.patch`: a
request comes in through one alternative and is run when its transfer ends, and
one answer is kept, which is handed out as often as it is read and is dropped
by the next request.  Reading a file and asking for its state are separate
requests.  A replacement writes the data block, then the size in the inode;
between the two the file is neither old nor new, and a write that failed
poisons the mailbox until the loader is loaded again.  The ext4 checks that
precede a replacement are one refusal; the journal, if dirty, is another
(status 3 and 4).

`FileTransaction` is the toolkit's side: an edit asks for every file, has its
plan reviewed, saves `var` when it touches `var`, then for each file writes its
record, sends the replacement with the content it expects, reads the file back,
and writes the record again.  `pc[e]` is where edit `e` is, `at[e]` the file it is
at; every answer is matched with the request by its nonce (`id`).  A kill
(`Crash`) may tear the record, and may leave dfu-util running, whose request
arrives when it pleases (`LateRequest`).  Robots are rebooted, reloaded and
exchanged at the port; `Copies` are robots whose partitions were written from
one image and cannot be told apart by their UUID.

*Checked* (`files`: two edits of two files, of which one is on `var`, on two
robots, with one reboot, reload or exchange):

- `OnlyAsReviewed`: the whole refines `ReviewedEdits`: a file changes only while
  it holds exactly what its user approved against, and the record on disk names
  it before.  Late requests, other windows and reboots are what could break it;
  the precondition sent with each replacement is what holds it together.
- `StatusTrue`: a record that says nothing was written is right, and "verified"
  names every approved change.
- `OneInDoubt`: of several files at most one is in doubt, and it is the last one
  the record names.
- `VarSavedFirst`: `var` is saved, from the robot the edit began with, before a
  file on it is written.

Two files are what an order needs; two edits, on one or two robots, meet over a
mailbox, a file and a port; contents, robots and edits are interchangeable, and
the run uses symmetry.  That an edit ends is not checked: symmetry and liveness
do not go together in TLC, and without symmetry the run is out of reach.

*Found* (`files_baseline`): the description of the protocol says that a baseline
of every touched partition is made, and the code makes one of `var` only.

Noticed, without a run: `FileTransaction.commit` raises a refusal of the loader
unchanged also when an earlier file of the same edit was written
(`jibo_dfu.py` 3206-3217), and the guided flows take status 3 and 4 as
"nothing happened" and offer to cancel "without changing the robot"
(`jibo_tui.py` 67-89).  It takes a journal that becomes unreadable behind the
first replacement.

### HostedCatalog, HostedDownload and HostedFlash

`HostedCatalog` is the list of images: its issue numbers, the watermark below
which no list is taken, stored after the list itself, and the copy that is
shown when the server cannot be reached, which is read without the lock.

`HostedDownload` is one image's folder.  A session takes the lock file, makes the
folder and its marker (a folder without one is refused as somebody else's),
checks what a former session left, and transfers: bytes go to `part`, up to
`synced` of them are surely on disk, and the receipt is written after that, so
it vouches for what it names only.  A transfer continues only from a receipt
that names exactly the partial file, otherwise it truncates.  A complete one is
published under its final name and checked once more; what is found wrong is
removed, what was interrupted (`Failures`: "stopped" and "transient") stays to
be resumed.  The lock is held until the flash is over.  A kill leaves lock files
behind, and maybe a folder without its marker; the toolkit never removes those,
and a user may (`LockReviewed`, `FolderReviewed`, `ListLockReviewed`).  Locks inside
the folder heal by themselves, since a session that is refused removes the
folder.

*Checked* (`hosted`: two windows, two issues of the list, an image of two bytes,
two transfers in a download, one kill or damaged disk, one failure):

- `BytesInPlace`: no byte is ever at a wrong place, and what has the final name
  is the image, as long as server and disk are honest.
- `LeftToResume`: between sessions a folder holds nothing or exactly what the next
  one goes on with.
- `CacheUsable`: the cached list is never older than the watermark, so it can be
  shown; `FetchedInOrder`: a fetched list is never older than one shown before.
- `FlashedInTheEnd`: a user who tries again gets the image flashed, unless the
  toolkit refuses (`Refusing`) because of a stale lock of the list or of the image
  or a folder that lacks its marker.  In those states it does refuse for ever, as
  its messages say ("stale locks require review", "nothing was removed"); the
  property says that they are the only ones: short, garbled or unvouched partial
  files, bad archives, stale locks inside the folder, refused and cut transfers
  all heal by themselves.  Fairness: a
  toolkit that runs goes on, as every transfer has a time limit (`WF` of
  `Flashes` and `Looks`); the server can be reached now and then (`SF` of
  `ListArrives`); the user tries again (`SF` of `Chooses`).  That a user deletes
  anything is not assumed.

One kill and one failure at every point of two windows reach each state of the
folder; a second would repeat them, since a session begins by judging what it
finds and not how it came about.

### DfuEntry, MarkerProbe, VarImageEdit and TextMenu

`DfuEntry` counts time in the naps of the code.  A robot at the port is in RCM, in
DFU or absent, there may be another one, and a loader lists a growing set of
alternatives.  `stage` is what the toolkit waits for: ShofEL (`loading`), the
robot to come back (`waiting`), the loader to list all (`settling`, `listing`,
`resting`); `stop` and `until` are the deadlines of the wait and of the listing
that runs.

`MarkerProbe` is `_upload_bounded` over the loader of `DfuLoader`: it reads up to
a short block, then sends DFU_ABORT and asks the state once, and never
DFU_CLRSTATUS.  Whatever went wrong before (an open cursor, an interface in
error) is met by the next probe.

`VarImageEdit` edits a copy of an image at its output path: `copy` says whether
the file is there and whole, which files read as wanted, and which is half
replaced.  A last e2fsck may undo any of them.  `edit` is the stage, and how the
edit ended.

`TextMenu` puts them together.  `todo` holds the prompts and steps still to come;
the head is what happens next: an answer to a prompt puts others in its place, a
step that fails ends the operation.  The flows are sequences over a few steps
(`Check`, `Full`, `Quick`, `Read`, `Restore`, `Flash`).  The menu looks again before it
opens an action, and works from what it last saw (`seen`) while the robot
changes; a refusal by the mailbox offers the full transfer; when the robot
cannot be identified, saved backups are listed without it.  The command line
(`front = "cli"`) has the same steps without prompts.  Esc (`Cancels`), Ctrl-C at
each kind of place (`PromptCut`, `MenuCut`, `WaitCut`, `ChangeCut`, and in a probe
its clean-up first) and the robot leaving (`RobotChanges`, which takes the loader's
state with it) may come at any time.  Screens, wording, and what the
transfers do to the robot are left out.

*Checked* (`menu`: deadlines of one to three naps, a marker of two and a half
blocks, loaders that list nothing, one of two alternatives, both, or all):

- `EntryOnTime`: no entry and no operation waits past its deadline, although a
  listing may be begun just before it, and what they go on with is a whole
  loader.
- `MarkerWhole`: a read that succeeds has the marker whole and in order, whatever
  was left in the loader, and leaves it ready for the next.
- `EditedOrAbsent`: an edit that reports success has every change in a whole
  image after the last repair; one that fails leaves no file, or the copy as the
  source is (a chmod that fails, `Restricted`, which stands outside the handlers),
  and never half an edit.  It says nothing of an edit cut off by Ctrl-C (`cut`)
  and of one whose copy could not be removed (`stuck`).
- `MenuReturns`: a user who only presses Esc gets out of every operation.
  Fairness: the toolkit's own steps (`WF(Toolkit)`: each has a time limit), and
  the user presses Esc, and a key for the last screen, as long as needed.

The listing's own limit (30 s in the code, three naps here) is longer than the
settling's (25 s, two naps): that is the case in which a listing could overrun.

Noticed, without a run: a probe that is cut off in the middle leaves the cursor
open or the interface in error, and since no probe clears the status, every
later one fails until the loader is started again (README.md:302 promises a
repeatable check after a complete one only); and an offline edit works under the
final name of its output, so Ctrl-C, or a removal that fails, leaves a half-edited
image there, and a chmod that fails (`jibo_images.py` 380, between the two
handlers) the unedited copy; the next edit refuses to overwrite either.

## Proofs

The modules whose names end in `Proofs` hold for every value of the constants
under the named assumptions of the modules (sets are arbitrary, bounds are naturals, a
partition `Var` exists, and the like).

- **Pipeline.** `IInv` adds to `NoReuseInFlight` that slots are in one place
  only (`SlotsApart`), that, unless an interrupt is under way, the kernel owns only
  queued slots that are not done, and nothing once a pipeline was left without
  being retained (`KernelOwnership`), and that queued slots carry consecutive request
  numbers (`NumbersInOrder`); ownership is what makes reuse safe, the numbers
  are what the refinement of `RequestQueue` needs.  Theorems: `PipelineTypeOK`,
  `PipelineNoReuse`, `PipelineBuffersHeld`, `PipelineImplementsQueue`.
- **Transfer.** Five layers, each resting on those before.
  *Reads.* `UploadFaithful` is not inductive, since a stale cursor may start a
  read anywhere.  `IInv` says that answers chain (`AnswersChained`,
  `CursorBehindLast`), that only an answer at the end of the partition is short
  (`AnswersInside`), and what was retired is a contiguous stretch from an
  unknown start (`RetiredBlocks`); only the short block fixes that start
  (`UploadComplete`), and for a read of the full size it is zero.
  *Queue.* `QueueInv` says what may still be queued at each place of the helper
  (`NothingQueued`) and that writes are queued as pairs of a block and its status
  (`PairsOK`); with it a failure that was reported clean is one
  (`DfuCleanFailure`).
  *Writes.* While blocks are accepted, the medium and the loader's buffer
  together hold the image up to the block in flight (`StreamOK`), and the loader
  is in the state the last answer told (`LastAnswer`).  Block 0 of a write opens a
  new cursor, unless an open one happens to expect 0 in the middle of an earlier
  image.  `CursorFresh` excludes just that: `DownloadStored` has it as a
  condition, along the behaviour.  It is not a matter of taste: it fails in the
  first of the two limits above.
  *Cursor.* `Numbered` says that each transfer has fewer blocks than there are
  block numbers, as the included loader's 32 KiB blocks give; with it
  `CursorInv` holds an open cursor at the place its number says, so `CursorFresh`
  is an invariant and the condition goes away (`DfuStoredUnwrapped`).
  *Places.* `PlacedInv` says that what is buffered also belongs where the cursor
  stands.  Without queued writes it is inductive (`DfuNothingMisplaced`, and
  `DfuInPlaceUnwrapped` for `Numbered`); with them it is false, by the second
  limit.
  *Passes.* A read goes on from where its number says unless the cursor stood
  beyond it (`CursorLow`).  With one write in flight it never does; with queued
  writes it may, but a first answer with data says that it did not: the first
  request is block 0, an open cursor that expects 0 is at the start
  (`CursorInv`), and `ReadLow` keeps it at its number from there.  `ReadInv` is
  about both kinds of reads (`Trusted`), so it gives `OnePass` for every loader
  that is `Numbered` (`DfuOnePass`), and for one write in flight the same of
  every read (`DfuOnePassOneWrite`).
  Theorems: `DfuTypeOK`, `DfuUploadFaithful`, `DfuCleanFailure`, `DfuDownloadStored`,
  `DfuStoredUnwrapped`, `DfuNothingMisplaced`, `DfuInPlaceUnwrapped`, `DfuOnePass`,
  `DfuOnePassOneWrite`.
- **Controller.** Type correctness includes where prompts, tokens and the busy
  flag may exist.  A result that is published carries the generation it began
  with, and none was published since (`FreshStep`).  Theorems: `GuiTypeOK`,
  `GuiEditsEndAtClose`, `GuiNoCloseOverTransfer`, `GuiNeverOlder`.
- **Backup store.** `IInv` = `TypeOK`, `LockInv` (who has which lock, and that
  an exclusive one is alone), `SaverInv`, `DeleterInv`, `RecordInv`,
  `NonEmptyInv`, and the three checked invariants.  For the refinement, each
  action is a step of `SavedSets` or leaves a set's life and users as they are
  (`QuietLife`, `QuietUsers`).  Theorems: `BackupTypeOK`, `BackupSourceKept`,
  `BackupRestorable`, `BackupOnlyRecordedDeleted`, `BackupImplementsSavedSets`.
- **Robot writes.** None of the checked invariants is inductive, and each needs
  most of the others; `IInv` adds to them where an operation is (`PhasesOK`),
  that its rollback image is the `var` it read or a usable one, and that the
  `var` it read is the robot's until it is touched (`BackedOK`), that the record
  on disk and the one in memory name all that was touched and are right about
  what they call verified (`JournalOK`), that what is no longer to be written was
  touched and is there while nothing has failed (`ProgressOK`), and that a
  hosted flash has looked at the robot before it writes (`LookedOK`).  For the
  calibration the strengthening is `KeptOK`: the store and the sets, if there is
  anything in them, have a calibrated `var`, so only an operation that has not
  stored anything yet depends on the one on the robot.  Theorems:
  `CalibrationSurvives`, `RollbackBeforeWrites`, `WritesRecorded`,
  `ReportsAreTrue`, `HostedWritesHere`, `TypeCorrect`, for any number of partitions
  and images and any contents.
- **File edits.** `IInv` is the types (`HostOK`), the mailboxes (`MailOK`) and,
  for every edit on its own, where it may be (`PlaceOK`), what its record names
  (`NamingOK`: files before the one it is at are verified, that one is begun,
  those behind are not named) and what it changed (`ChangedOK`).  An edit's part
  is kept by every other edit's steps, since those write neither its record nor
  its plan; a late request of a killed edit (`adrift`) is covered by the record
  that was on disk when it was killed.  The files are taken in the order of
  their numbers, and the first of a set exists since they are naturals.  For the
  refinement each step is shown to change one file of one robot at most, from
  what the plan has, under a record that names it.  Theorems:
  `ChangesOnlyAsReviewed` (the refinement of `ReviewedEdits`), `RecordsTellTheTruth`,
  `OneFileInDoubt`, `VarIsSavedFirst`, `TypeCorrect`.
- **Hosted images.** *List.* `ListOK` says that who is between the question
  and the watermark holds the lock, that what it has in hand is not older than
  the watermark, and that the watermark is the newest list shown; without the
  last, `FetchedInOrder` would not follow from the comparison with the watermark.
  *Bytes.* `BytesInPlace` alone is not inductive, since a session appends at the
  length it read before: `HandOK` says that what it counts as downloaded is as
  long as the partial file, and the partial file itself unless the disk was
  damaged behind its back.  `InOrder` states the bytes by their places, which
  appending and truncating keep.
  *Folder.* For `LeftToResume`, `CleanOK` says place by place what the folder
  holds in a session nothing has disturbed: which lock files, whether the
  receipt is about the partial file (`Pair`), and from which failures on the
  folder is kept.  `FolderOK` says that a folder not yet made is empty and that a
  dead session's lock belongs to a folder something did disturb.  Theorems:
  `CacheStaysUsable`, `ListsInOrder`, `BytesStayInPlace`, `SessionsLeaveToResume`,
  `HostedTypes`, for any number of windows and any size of the image.
- **Menu.** Each of the three parts has an invariant over its own variables, and
  a lemma that shows that the menu and the command line reach the part through
  its steps only (`WaitsSteps`, `ProbesSteps`, `EditsSteps`).  `WaitsInv` orders
  clock, listing, settling and deadline.  `ProbeInv` says that an open cursor
  stands at a multiple of the block it expects (`CursorAligned`), so that a
  reading whose blocks are accepted began at the start (`Reading`); the marker
  being shorter than the block numbers reach is what makes this true
  (`MarkerAssumption`).  `EditInv` follows the output file through the edit.
  Theorems: `MenuEntryOnTime`, `MenuMarkerWhole`, `MenuEditedOrAbsent`.

The transfer's theorems have hypotheses beyond the named assumptions, which the
loaders meet as follows.  A loader without the queue patch is `~QueueLoader`, and
`Numbered` for partitions below 256 MiB; `var`'s 500 MiB wrap its block numbers, and
there the theorems hold under `CursorFresh`.  The included loader is `Numbered`
for `var` (16000 blocks of 32 KiB) but takes queued writes: for it the theorems
are `DfuTypeOK`, `DfuUploadFaithful`, `DfuCleanFailure`, `DfuStoredUnwrapped` and
`DfuOnePass`.

The inductive invariants were first given to TLC as invariants of the runs'
instances, and of instances with three faults and three sessions for the
transfer.

Only model-checked: the liveness properties (`SessionEnds`, `ClosingEnds`,
`FlashedInTheEnd`, `MenuReturns`), which are out of the prover's reach.  Every
safety property of a passing run is stated by a theorem.

## What is not modelled

`PROJECT.json` lists every component with the reason.  In short:

- the checks of a package's format (`jibo_updates.py`, `jibo_flash_contract.py`)
  and the file work of unpacking and of the calibration's transplant, of which
  `RobotWrites` has the result;
- the Tk window draws what the controller publishes; the controller's event
  queue (the order of `started` and `finished` events of two actions) and its
  output are left out of `GuiController`;
- launchers, USB forwarding and packaging are scripts around the toolkit;
- the robot-side scripts and assets run elsewhere, and the loader is modelled as
  far as the toolkit depends on it;
- calibration sharing is off in this build.

## Plan

Done, in this order, since each rests on those before: pipeline, transfer,
controller, backup store, robot writes, file edits, hosted images, entry and
menu.

Next proofs: what a write of a loader that takes queued writes may misplace at
most, in place of the hypothesis `~QueueLoader` of `DfuNothingMisplaced`; and the
transfers of `var` on a loader without the queue patch under a condition on what
was interrupted, in place of `CursorFresh`.

Further models worth their cost: a second operation in `RobotWrites`, for two
windows that write to one robot; the controller's event queue; the attach and
detach of `usbipd.ps1` under `DfuEntry`.
