----------------------------- MODULE FileMailbox -----------------------------
(***************************************************************************)
(* The file mailbox of the RAM loader (firmware/file-level.patch): one     *)
(* request at a time comes in through an "-in" alternative, is run when    *)
(* its transfer ends, and leaves one answer, which the matching "-out"     *)
(* alternative hands out as often as it is read.  A replacement writes the *)
(* data block of a file, then the size in its inode; after a write that    *)
(* went wrong the mailbox refuses everything until the loader is loaded    *)
(* again.                                                                  *)
(*                                                                         *)
(* A file is its data block and the length its inode gives.  Of a content  *)
(* matters only which one it is, and a length is named by the content that *)
(* has it: a file is whole when both agree.                                *)
(***************************************************************************)
EXTENDS Naturals

CONSTANTS
  Robots,    \* robots in DFU that may come to the port
  Copies,    \* those of them whose partitions were written from one image
  Files,     \* the files, in the order an edit goes through them
  Bodies,    \* whole contents of a file
  Junk       \* a data block that holds neither its old nor its new content

ASSUME BodiesAssumption == Bodies # {} /\ Junk \notin Bodies
ASSUME FilesAssumption == Files \subseteq Nat \ {0}
ASSUME CopiesAssumption == Copies \subseteq Robots

VARIABLES
  file,      \* file[r][f]: the block and the length of file f of robot r
  answer,    \* answer[r]: the answer in the loader of r
  poisoned   \* the robots whose mailbox refuses every request

mailVars == <<file, answer, poisoned>>

Cells == [body : Bodies \cup {Junk}, len : Bodies]
Whole(c) == [body |-> c, len |-> c]
IsWhole(cell) == cell.body = cell.len

(* Partitions written from one image have one UUID and one set of inodes.  *)
SameVolume(r, q) == r = q \/ {r, q} \subseteq Copies

NoAnswer == [ok |-> FALSE]

-----------------------------------------------------------------------------
(* Mutations, each a slip the code could have made (see PROJECT.json).     *)
SizeBefore(r, q) == file[r][q.f].len = q.before.len   \* only sizes compared

-----------------------------------------------------------------------------
(* A request q names its nonce, its operation, and a file; a replacement   *)
(* also the cell and the volume it was prepared from, and the new content. *)
Answers(r, q, value) ==
  answer' = [answer EXCEPT ![r] = [ok |-> TRUE, id |-> q.id, value |-> value]]

(* The file system is not clean, the path has no supported file, a read    *)
(* failed, the file is not as expected, or the mailbox is poisoned.        *)
Refuses(r, q) ==
  /\ answer' = [answer EXCEPT ![r] = NoAnswer]
  /\ UNCHANGED <<file, poisoned>>

(* A stat gives the length only.                                           *)
Looks(r, q) ==
  /\ r \notin poisoned /\ q.op \in {"stat", "read"}
  /\ Answers(r, q, IF q.op = "read" THEN file[r][q.f] ELSE Whole(file[r][q.f].len))
  /\ UNCHANGED <<file, poisoned>>

(* The compare of compare-and-write: inode, length, owner, mode, UUID, and *)
(* the checksum of the content.                                            *)
AsBefore(r, q) == file[r][q.f] = q.before /\ SameVolume(r, q.on)

MayReplace(r, q) == r \notin poisoned /\ q.op = "write" /\ AsBefore(r, q)

Replaces(r, q) ==
  /\ MayReplace(r, q)
  /\ file' = [file EXCEPT ![r][q.f] = Whole(q.new)]
  /\ Answers(r, q, Whole(q.new))
  /\ UNCHANGED poisoned

(* What can be left when one of the two block writes goes wrong.           *)
Partial(r, q) ==
  {file[r][q.f], Whole(q.new)} \cup
    {[body |-> b, len |-> file[r][q.f].len] : b \in {q.new, Junk}}

Spoils(r, q) ==
  /\ MayReplace(r, q)
  /\ \E cell \in Partial(r, q) : file' = [file EXCEPT ![r][q.f] = cell]
  /\ poisoned' = poisoned \cup {r}
  /\ answer' = [answer EXCEPT ![r] = NoAnswer]

(* The robot loses power in the middle of a replacement.                   *)
CutShort(r, q) ==
  /\ MayReplace(r, q)
  /\ \E cell \in Partial(r, q) : file' = [file EXCEPT ![r][q.f] = cell]
  /\ poisoned' = poisoned \ {r}
  /\ answer' = [answer EXCEPT ![r] = NoAnswer]

Serves(r, q) == Looks(r, q) \/ Refuses(r, q) \/ Replaces(r, q) \/ Spoils(r, q)

(* The robot is booted and used, then brought back into DFU: any file may  *)
(* hold something else, and the loader starts afresh.                      *)
RobotRuns(r) ==
  /\ \E bodies \in [Files -> Bodies] :
       file' = [file EXCEPT ![r] = [f \in Files |-> Whole(bodies[f])]]
  /\ answer' = [answer EXCEPT ![r] = NoAnswer]
  /\ poisoned' = poisoned \ {r}

(* The loader is loaded again; the files stay as they are.                 *)
Reloaded(r) ==
  /\ answer' = [answer EXCEPT ![r] = NoAnswer]
  /\ poisoned' = poisoned \ {r}
  /\ UNCHANGED file
=============================================================================
