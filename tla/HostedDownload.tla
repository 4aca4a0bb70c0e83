---------------------------- MODULE HostedDownload ---------------------------
(***************************************************************************)
(* The download of one hosted image for a flash (flash_download_session    *)
(* and _download of jibo_hosted_updates.py, download_for_flash of          *)
(* jibo_tui.py) and the folder it works in.  A window holds the lock of    *)
(* the folder from before the download until the flash is over.  A partial *)
(* file is continued only if the receipt beside it names exactly its       *)
(* bytes.  At the end the folder is removed, unless the transfer was       *)
(* interrupted and can go on.                                              *)
(*                                                                         *)
(* A content is a sequence of bytes, of which matters where in the image   *)
(* each belongs; its digest is the content itself.                         *)
(***************************************************************************)
EXTENDS Naturals, Sequences, LockFiles

CONSTANTS
  NoFile,    \* no such file
  Size,      \* the length of the image
  MaxTries,  \* transfers of one download
  MaxKills,  \* bound: kills of a toolkit and damages of the disk
  MaxFails   \* bound: failures, wrong bytes and cancellations of transfers

ASSUME SizeAssumption == Size \in Nat \ {0}
ASSUME TriesAssumption == MaxTries \in Nat \ {0} /\ MaxKills \in Nat /\ MaxFails \in Nat

VARIABLES
  lock,      \* who holds the lock file of the folder
  folder,    \* "absent", "bare" (without its marker) or "owned"
  locks,     \* the lock files inside: of its list, of its archive
  part,      \* the partial file
  synced,    \* how much of it is sure to be on disk
  receipt,   \* the content its receipt names
  final,     \* the archive under its final name
  proven,    \* the provenance of the archive is there
  pc,        \* where window w is
  got,       \* what it counts as downloaded
  code,      \* how its transfer failed
  tries,     \* how many transfers it began
  keep,      \* the session was interrupted: a partial file may stay
  kills, fails,
  honest,    \* every byte so far was the right one
  clean      \* no kill and no damage since the folder was made

disk == <<folder, locks, part, synced, receipt, final, proven>>
sessions == <<pc, got, code, tries, keep>>
ghosts == <<kills, fails, honest, clean>>
downloadVars == <<lock, disk, sessions, ghosts>>

Image == [i \in 1 .. Size |-> i]
Wrong == 0
Contents == UNION {[1 .. n -> 0 .. Size] : n \in 0 .. Size}

ASSUME NoFileAssumption == NoFile \notin Contents

(* How a transfer fails: it can be repeated, it was cancelled or the       *)
(* server made no sense, or what is there must not be used.                *)
Failures == {"transient", "stopped", "refused"}

-----------------------------------------------------------------------------
(* Mutations, each a slip the code could have made (see PROJECT.json).     *)
AppendsAnyway ==                                   \* a restart appends
  synced' = 0 /\ part' = IF part = NoFile THEN <<>> ELSE part
NoLastReceipt(w) == UNCHANGED <<receipt, synced>>  \* none when the transfer ends
KeptWhenRefused(w) == code[w] # "none"             \* refused bytes are kept

-----------------------------------------------------------------------------
DownloadInit ==
  /\ lock = NoOne /\ folder = "absent" /\ locks = {}
  /\ part = NoFile /\ synced = 0 /\ receipt = NoFile
  /\ final = NoFile /\ proven = FALSE
  /\ pc = [w \in Windows |-> "idle"] /\ got = [w \in Windows |-> <<>>]
  /\ code = [w \in Windows |-> "none"] /\ tries = [w \in Windows |-> 0]
  /\ keep = [w \in Windows |-> FALSE]
  /\ kills = 0 /\ fails = 0 /\ honest = TRUE /\ clean = TRUE

Goes(w, place) == pc' = [pc EXCEPT ![w] = place]
Counts(w, content) == got' = [got EXCEPT ![w] = content]

(* Faults are counted, so that a behaviour has few of them.                *)
Fault == fails < MaxFails /\ fails' = fails + 1 /\ UNCHANGED kills
Accident == kills < MaxKills /\ kills' = kills + 1 /\ UNCHANGED fails

Fails(w, failure) ==
  /\ code' = [code EXCEPT ![w] = failure]
  /\ Goes(w, "failed")

(* The transfer fails without a change of the partial file.                *)
BreaksOff(w) ==
  /\ Fault
  /\ \E failure \in Failures : Fails(w, failure)
  /\ UNCHANGED <<lock, folder, part, synced, receipt, final, proven, got, tries, keep,
                 honest, clean>>

-----------------------------------------------------------------------------
(* The session: the folder belongs to it if its marker says so.            *)
Opens(w) ==
  /\ pc[w] = "idle" /\ lock = NoOne
  /\ lock' = w
  /\ tries' = [tries EXCEPT ![w] = 1]
  /\ Goes(w, "enter")
  /\ UNCHANGED <<disk, got, code, keep, ghosts>>

FolderMade(w) ==
  /\ pc[w] = "enter" /\ folder = "absent"
  /\ folder' = "bare" /\ clean' = TRUE
  /\ Goes(w, "marking")
  /\ UNCHANGED <<lock, locks, part, synced, receipt, final, proven, got, code, tries, keep,
                 kills, fails, honest>>

FolderMarked(w) ==
  /\ pc[w] = "marking"
  /\ folder' = "owned"
  /\ Goes(w, "fetch")
  /\ UNCHANGED <<lock, locks, part, synced, receipt, final, proven, got, code, tries, keep,
                 ghosts>>

FolderFound(w) ==
  /\ pc[w] = "enter" /\ folder = "owned"
  /\ Goes(w, "fetch")
  /\ UNCHANGED <<lock, disk, got, code, tries, keep, ghosts>>

(* Nothing is removed from a folder that does not say whose it is.         *)
FolderForeign(w) ==
  /\ pc[w] = "enter" /\ folder = "bare"
  /\ lock' = NoOne
  /\ Goes(w, "idle")
  /\ UNCHANGED <<disk, got, code, tries, keep, ghosts>>

-----------------------------------------------------------------------------
(* One transfer.  The folder has a list of its own, with its own lock; a   *)
(* lock file that a killed toolkit left is refused.                        *)
Locks(w, name, from, to) ==
  /\ pc[w] = from
  /\ IF name \in locks THEN Fails(w, "refused") /\ UNCHANGED locks
     ELSE locks' = locks \cup {name} /\ Goes(w, to) /\ UNCHANGED code
  /\ UNCHANGED <<lock, folder, part, synced, receipt, final, proven, got, tries, keep, ghosts>>

ListAsked(w) == Locks(w, "list", "fetch", "list")

ListChecked(w) ==
  /\ pc[w] = "list"
  /\ locks' = locks \ {"list"}
  /\ \/ /\ Goes(w, "claim")
        /\ UNCHANGED <<lock, folder, part, synced, receipt, final, proven, got, code, tries,
                       keep, ghosts>>
     \/ BreaksOff(w)

ArchiveLocked(w) == Locks(w, "archive", "claim", "look")
Unlocked == locks' = locks \ {"archive"}

(* An archive that is there is checked, never overwritten.                 *)
Verified == final = Image /\ proven

ArchiveFound(w) ==
  /\ pc[w] = "look" /\ final # NoFile
  /\ Unlocked
  /\ \/ /\ IF Verified THEN Goes(w, "flash") /\ UNCHANGED code ELSE Fails(w, "refused")
        /\ UNCHANGED <<lock, folder, part, synced, receipt, final, proven, got, tries, keep,
                       ghosts>>
     \/ BreaksOff(w)

(* The bytes of a partial file are those of its receipt.                   *)
ReceiptAgrees == receipt = part

Resumes(w) ==
  IF ReceiptAgrees
  THEN /\ Counts(w, part)
       /\ Goes(w, IF Len(part) = Size THEN "received" ELSE "request")
       /\ UNCHANGED <<locks, code>>
  ELSE Fails(w, "refused") /\ Unlocked /\ UNCHANGED got

StartsAnew(w) == Counts(w, <<>>) /\ Goes(w, "request") /\ UNCHANGED <<locks, code>>

ManifestFetched(w) ==
  /\ pc[w] = "look" /\ final = NoFile
  /\ \/ /\ IF part = NoFile THEN StartsAnew(w) ELSE Resumes(w)
        /\ UNCHANGED <<lock, folder, part, synced, receipt, final, proven, tries, keep, ghosts>>
     \/ Unlocked /\ BreaksOff(w)

(* The receipt is written when the bytes before it are on disk.            *)
Checkpoint(w) == receipt' = got[w] /\ synced' = Len(part)

(* Status 206: the rest of the archive, appended.                          *)
Continued(w) ==
  /\ pc[w] = "request" /\ got[w] # <<>>
  /\ Checkpoint(w)
  /\ Goes(w, "receive")
  /\ UNCHANGED <<lock, folder, locks, part, final, proven, got, code, tries, keep, ghosts>>

(* Status 200: the whole archive, from the start.                          *)
Truncated == part' = <<>> /\ synced' = 0

Restarted(w) ==
  /\ pc[w] = "request"
  /\ Truncated /\ Counts(w, <<>>)
  /\ Goes(w, "restart")
  /\ UNCHANGED <<lock, folder, locks, receipt, final, proven, code, tries, keep, ghosts>>

RestartNoted(w) ==
  /\ pc[w] = "restart"
  /\ Checkpoint(w)
  /\ Goes(w, "receive")
  /\ UNCHANGED <<lock, folder, locks, part, final, proven, got, code, tries, keep, ghosts>>

RequestFails(w) == pc[w] = "request" /\ Unlocked /\ BreaksOff(w)

(* A byte beyond the signed size ends the transfer.                        *)
Expects(w) == Len(got[w]) < Size

Receives(w, byte) ==
  /\ pc[w] = "receive" /\ Expects(w)
  /\ Counts(w, Append(got[w], byte))
  /\ part' = Append(part, byte)
  /\ UNCHANGED <<lock, folder, locks, synced, receipt, final, proven, pc, code, tries, keep, clean>>

RightByte(w) == Receives(w, Len(got[w]) + 1) /\ UNCHANGED <<kills, fails, honest>>
WrongByte(w) == Receives(w, Wrong) /\ Fault /\ honest' = FALSE

(* Every 8 MiB or two seconds.                                             *)
Noted(w) ==
  /\ pc[w] = "receive" /\ receipt # got[w]
  /\ Checkpoint(w)
  /\ UNCHANGED <<lock, folder, locks, part, final, proven, sessions, ghosts>>

(* However the transfer ends, the receipt is brought up to date.           *)
LastReceipt(w) == Checkpoint(w)

Received(w) ==
  /\ pc[w] = "receive" /\ Len(got[w]) = Size
  /\ LastReceipt(w)
  /\ Goes(w, "received")
  /\ UNCHANGED <<lock, folder, locks, part, final, proven, got, code, tries, keep, ghosts>>

Interrupted(w) ==
  /\ pc[w] = "receive"
  /\ LastReceipt(w) /\ Unlocked
  /\ Fault /\ \E failure \in Failures : Fails(w, failure)
  /\ UNCHANGED <<lock, folder, part, final, proven, got, tries, keep, honest, clean>>

(* A wrong digest: the bytes are put aside and never used.                 *)
DigestWrong(w) ==
  /\ pc[w] = "received" /\ got[w] # Image
  /\ part' = NoFile /\ synced' = 0
  /\ Fails(w, "refused") /\ Unlocked
  /\ UNCHANGED <<lock, folder, receipt, final, proven, got, tries, keep, ghosts>>

Proven(w) ==
  /\ pc[w] = "received" /\ got[w] = Image
  /\ proven' = TRUE
  /\ Goes(w, "link")
  /\ UNCHANGED <<lock, folder, locks, part, synced, receipt, final, got, code, tries, keep,
                 ghosts>>

Linked(w) ==
  /\ pc[w] = "link"
  /\ final' = part
  /\ Goes(w, "unlink")
  /\ UNCHANGED <<lock, folder, locks, part, synced, receipt, proven, got, code, tries, keep,
                 ghosts>>

Unlinked(w) ==
  /\ pc[w] = "unlink"
  /\ part' = NoFile /\ synced' = 0
  /\ Goes(w, "drop")
  /\ UNCHANGED <<lock, folder, locks, receipt, final, proven, got, code, tries, keep, ghosts>>

ReceiptDropped(w) ==
  /\ pc[w] = "drop"
  /\ receipt' = NoFile
  /\ Goes(w, "check")
  /\ UNCHANGED <<lock, folder, locks, part, synced, final, proven, got, code, tries, keep,
                 ghosts>>

PutAside == final' = NoFile /\ proven' = FALSE

ArchiveChecked(w) ==
  /\ pc[w] = "check"
  /\ Unlocked
  /\ \/ /\ IF Verified THEN Goes(w, "flash") /\ UNCHANGED <<code, final, proven>>
           ELSE Fails(w, "refused") /\ PutAside
        /\ UNCHANGED <<kills, fails>>
     \/ Fault /\ Fails(w, "stopped") /\ (PutAside \/ UNCHANGED <<final, proven>>)
  /\ UNCHANGED <<lock, folder, part, synced, receipt, got, tries, keep, honest, clean>>

-----------------------------------------------------------------------------
(* After a transfer.                                                       *)
Again(w) == code[w] = "transient" /\ tries[w] < MaxTries

Retried(w) ==
  /\ pc[w] = "failed" /\ Again(w)
  /\ tries' = [tries EXCEPT ![w] = @ + 1]
  /\ Goes(w, "fetch") /\ code' = [code EXCEPT ![w] = "none"]
  /\ UNCHANGED <<lock, disk, got, keep, ghosts>>

(* A download that was interrupted, and not one that was refused, is kept; *)
(* the wait before another transfer can be cancelled.                      *)
Keeps(w) == code[w] \in {"transient", "stopped"}

GivenUp(w) ==
  /\ pc[w] = "failed"
  /\ (~Again(w) /\ UNCHANGED <<kills, fails>>) \/ (Again(w) /\ Fault)
  /\ keep' = [keep EXCEPT ![w] = Keeps(w)]
  /\ Goes(w, "leave") /\ code' = [code EXCEPT ![w] = "none"]
  /\ UNCHANGED <<lock, disk, got, tries, honest, clean>>

(* The flash takes the lock of the archive and checks it again.            *)
FlashBegins(w) ==
  /\ pc[w] = "flash"
  /\ IF "archive" \notin locks /\ Verified
     THEN locks' = locks \cup {"archive"} /\ Goes(w, "flashing")
     ELSE Goes(w, "leave") /\ UNCHANGED locks
  /\ UNCHANGED <<lock, folder, part, synced, receipt, final, proven, got, code, tries, keep,
                 ghosts>>

FlashEnds(w) ==
  /\ pc[w] = "flashing"
  /\ Unlocked
  /\ Goes(w, "leave")
  /\ UNCHANGED <<lock, folder, part, synced, receipt, final, proven, got, code, tries, keep,
                 ghosts>>

(* The session ends: the window forgets what it downloaded.                *)
Forgets(w) ==
  /\ Counts(w, <<>>) /\ Goes(w, "idle")
  /\ keep' = [keep EXCEPT ![w] = FALSE] /\ tries' = [tries EXCEPT ![w] = 0]
  /\ code' = [code EXCEPT ![w] = "none"]

Resumable(w) == keep[w] /\ part # NoFile

FolderKept(w) ==
  /\ pc[w] = "leave" /\ Resumable(w)
  /\ lock' = NoOne /\ Forgets(w)
  /\ UNCHANGED <<disk, ghosts>>

Emptied ==
  /\ folder' = "absent" /\ locks' = {}
  /\ part' = NoFile /\ synced' = 0 /\ receipt' = NoFile
  /\ final' = NoFile /\ proven' = FALSE

FolderRemoved(w) ==
  /\ pc[w] = "leave" /\ ~Resumable(w)
  /\ Emptied
  /\ lock' = NoOne /\ Forgets(w)
  /\ UNCHANGED ghosts

-----------------------------------------------------------------------------
(* Faults.  A killed toolkit leaves its lock files; of a partial file that *)
(* was being written stays what was on disk, and maybe more; a folder that *)
(* was being removed is left with any of its files.                        *)
Shortened(w) ==
  IF pc[w] \in {"restart", "receive"}
  THEN \E n \in synced .. Len(part) : part' = SubSeq(part, 1, n) /\ synced' = n
  ELSE UNCHANGED <<part, synced>>

HalfRemoved ==
  /\ folder' \in {folder, "bare"}
  /\ locks' \in SUBSET locks
  /\ \/ UNCHANGED <<part, synced>>
     \/ part' = NoFile /\ synced' = 0
  /\ receipt' \in {receipt, NoFile}
  /\ final' \in {final, NoFile} /\ proven' \in {proven, FALSE}

DownloadKilled(w) ==
  /\ pc[w] # "idle"
  /\ Accident /\ clean' = FALSE
  /\ lock' = Dead /\ Forgets(w)
  /\ IF pc[w] = "leave" /\ ~Resumable(w) THEN HalfRemoved
     ELSE Shortened(w) /\ UNCHANGED <<folder, locks, receipt, final, proven>>
  /\ UNCHANGED honest

Garbled(content) ==
  IF content = NoFile THEN NoFile
  ELSE [i \in 1 .. Len(content) |-> IF i = 1 THEN Wrong ELSE content[i]]

Damaged ==
  /\ Accident /\ honest' = FALSE /\ clean' = FALSE
  /\ {part, final} \cap (Contents \ {<<>>}) # {}
  /\ part' = Garbled(part) /\ final' = Garbled(final)
  /\ UNCHANGED <<lock, folder, locks, synced, receipt, proven, sessions>>

(* The user deletes a lock file whose owner is gone, and a folder that the *)
(* toolkit says is not its own.                                            *)
LockReviewed ==
  /\ lock = Dead /\ lock' = NoOne
  /\ UNCHANGED <<disk, sessions, ghosts>>

FolderReviewed ==
  /\ lock = NoOne /\ folder = "bare"
  /\ Emptied
  /\ UNCHANGED <<lock, sessions, ghosts>>

-----------------------------------------------------------------------------
DownloadSteps(w) ==
  \/ FolderMade(w) \/ FolderMarked(w) \/ FolderFound(w) \/ FolderForeign(w)
  \/ ListAsked(w) \/ ListChecked(w) \/ ArchiveLocked(w) \/ ArchiveFound(w)
  \/ ManifestFetched(w) \/ Continued(w) \/ Restarted(w) \/ RestartNoted(w) \/ RequestFails(w)
  \/ RightByte(w) \/ WrongByte(w) \/ Noted(w) \/ Received(w) \/ Interrupted(w)
  \/ DigestWrong(w) \/ Proven(w) \/ Linked(w) \/ Unlinked(w) \/ ReceiptDropped(w)
  \/ ArchiveChecked(w) \/ Retried(w) \/ GivenUp(w) \/ FlashBegins(w) \/ FlashEnds(w)
  \/ FolderKept(w) \/ FolderRemoved(w)

-----------------------------------------------------------------------------
Places == {"idle", "enter", "marking", "fetch", "list", "claim", "look", "request", "restart",
           "receive", "received", "link", "unlink", "drop", "check", "failed", "flash",
           "flashing", "leave"}

DownloadTypeOK ==
  /\ lock \in Owners /\ folder \in {"absent", "bare", "owned"}
  /\ locks \subseteq {"list", "archive"}
  /\ {part, receipt, final} \subseteq Contents \cup {NoFile}
  /\ synced \in 0 .. Size /\ proven \in BOOLEAN
  /\ pc \in [Windows -> Places] /\ got \in [Windows -> Contents]
  /\ code \in [Windows -> Failures \cup {"none"}]
  /\ tries \in [Windows -> 0 .. MaxTries] /\ keep \in [Windows -> BOOLEAN]
  /\ kills \in 0 .. MaxKills /\ fails \in 0 .. MaxFails /\ honest \in BOOLEAN /\ clean \in BOOLEAN
  /\ \A w \in Windows : pc[w] # "idle" <=> lock = w

(* However often a transfer is cut off, killed, restarted or continued, a  *)
(* partial file never holds a byte at a wrong place, and what has the      *)
(* final name is the image: nothing but the server or the disk can make a  *)
(* digest wrong.                                                           *)
BytesInPlace ==
  honest => /\ part # NoFile => part = SubSeq(Image, 1, Len(part))
            /\ final # NoFile => final = Image

(* Between two sessions a folder that no kill and no damage touched holds  *)
(* nothing, or exactly a partial file that the next download goes on with. *)
LeftToResume ==
  lock = NoOne /\ clean /\ folder # "absent" =>
    /\ folder = "owned" /\ locks = {} /\ final = NoFile
    /\ part # NoFile /\ receipt = part
=============================================================================
