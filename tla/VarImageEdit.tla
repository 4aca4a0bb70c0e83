----------------------------- MODULE VarImageEdit -----------------------------
(***************************************************************************)
(* Editing the files of a var image on the computer (jibo_images.py):      *)
(* edit_mode, edit_wifi, edit_mode_wifi and edit_boot_network_status.  The *)
(* image is copied to the output path and the copy is edited there, by     *)
(* runs of e2fsck and debugfs; the output has its final name all along.    *)
(*                                                                         *)
(* A file of the copy is as the source had it, as wanted, or in the middle *)
(* of being replaced (removed, or with the wrong owner).                   *)
(***************************************************************************)
EXTENDS Naturals, Sequences

Kinds == {"mode", "wifi", "both", "all", "install", "remove"}   \* what is asked for

VARIABLES
  edit,   \* the stage of the edit
  kind,   \* what is asked for
  left,   \* the files still to be replaced, in order
  copy    \* what is at the output path

editVars == <<edit, kind, left, copy>>

NoFile == [there |-> FALSE, whole |-> FALSE, new |-> {}, torn |-> {}]

-----------------------------------------------------------------------------
(* Mutations, each a slip the code could have made (see PROJECT.json).     *)
NotReadBack == TRUE           \* what the last e2fsck left is taken for the edit

-----------------------------------------------------------------------------
EditInit == edit = "off" /\ kind = "mode" /\ left = <<>> /\ copy = NoFile

EditGoes(next) == edit' = next

(* The files of an edit, in the order they are replaced; the status files  *)
(* come before the hook that starts them.                                  *)
ModeFiles == <<"mode">>
WifiFiles == <<"wifi", "startup">>
ModeWifiFiles == ModeFiles \o WifiFiles
StatusFiles == <<"status", "startup">>

FilesOf(k) ==
  CASE k = "mode" -> ModeFiles
    [] k = "wifi" -> WifiFiles
    [] k = "both" -> ModeWifiFiles
    [] k = "all" -> ModeWifiFiles \o StatusFiles
    [] k \in {"install", "remove"} -> StatusFiles

Wanted == {FilesOf(kind)[i] : i \in DOMAIN FilesOf(kind)}

(* _copy_for_edit; a live edit works in a folder of its own, where the     *)
(* output cannot be there yet.                                             *)
EditBegins(kinds, ownFolder) ==
  /\ edit = "off"
  /\ kind' \in kinds
  /\ IF copy.there /\ ~ownFolder
     THEN EditGoes("refused") /\ UNCHANGED <<left, copy>>
     ELSE /\ EditGoes("copying")
          /\ copy' = [NoFile EXCEPT !.there = TRUE]
          /\ left' = FilesOf(kind')

Copied ==
  /\ edit = "copying"
  /\ copy' = [copy EXCEPT !.whole = TRUE] /\ EditGoes("restricting")
  /\ UNCHANGED <<kind, left>>

(* chmod and chown of the copy, which no handler encloses: a chmod that    *)
(* fails leaves the copy as the source is.                                 *)
Restricted ==
  /\ edit = "restricting"
  /\ EditGoes("replay") \/ EditGoes("failed")
  /\ UNCHANGED <<kind, left, copy>>

(* e2fsck -p on the copy, which must then pass e2fsck -n.                  *)
JournalReplayed ==
  /\ edit = "replay"
  /\ EditGoes("replacing")
  /\ UNCHANGED <<kind, left, copy>>

(* debugfs rm, write and set_inode_field, one run each.                    *)
FileOpened ==
  /\ edit = "replacing" /\ left # <<>> /\ copy.torn = {}
  /\ copy' = [copy EXCEPT !.torn = {Head(left)}]
  /\ UNCHANGED <<edit, kind, left>>

FileReplaced ==
  /\ edit = "replacing" /\ copy.torn # {}
  /\ copy' = [copy EXCEPT !.torn = {}, !.new = @ \cup {Head(left)}]
  /\ left' = Tail(left)
  /\ UNCHANGED <<edit, kind>>

(* The network startup may already read the way it should.                 *)
FileKept ==
  /\ edit = "replacing" /\ left # <<>> /\ copy.torn = {}
  /\ Head(left) = "startup"
  /\ copy' = [copy EXCEPT !.new = @ \cup {"startup"}]
  /\ left' = Tail(left)
  /\ UNCHANGED <<edit, kind>>

(* e2fsck again: its automatic repairs may undo what debugfs wrote, not    *)
(* bring a removed file back.                                              *)
JournalReplayedAgain ==
  /\ edit = "replacing" /\ left = <<>>
  /\ \E lost \in SUBSET (copy.new \ IF kind = "remove" THEN {"status"} ELSE {}) :
       copy' = [copy EXCEPT !.new = @ \ lost]
  /\ EditGoes("readback")
  /\ UNCHANGED <<kind, left>>

Survived == Wanted \subseteq copy.new

EditDone ==
  /\ edit = "readback" /\ Survived
  /\ EditGoes("edited")
  /\ UNCHANGED <<kind, left, copy>>

(* Any exception, of a child, of the disk or of a check: the copy goes,    *)
(* unless its removal fails too.                                           *)
EditFails ==
  /\ edit \in {"copying", "replay", "replacing", "readback"}
  /\ \/ EditGoes("failed") /\ copy' = NoFile
     \/ EditGoes("stuck") /\ UNCHANGED copy
  /\ UNCHANGED <<kind, left>>

(* Ctrl-C is no Exception, nor is a kill.                                  *)
EditCut ==
  /\ edit \in {"copying", "restricting", "replay", "replacing", "readback"}
  /\ EditGoes("cut")
  /\ UNCHANGED <<kind, left, copy>>

(* What is in a file that stays at the output path matters no more.        *)
EditOver(ownFolder) ==
  /\ EditGoes("off") /\ kind' = "mode" /\ left' = <<>>
  /\ copy' = [NoFile EXCEPT !.there = copy.there /\ ~ownFolder]

EditStep ==
  \/ Copied \/ Restricted \/ JournalReplayed
  \/ FileOpened \/ FileReplaced \/ FileKept
  \/ JournalReplayedAgain \/ EditDone \/ EditFails

-----------------------------------------------------------------------------
EditTypeOK ==
  /\ edit \in {"off", "copying", "restricting", "replay", "replacing", "readback", "edited",
               "failed", "stuck", "refused", "cut"}
  /\ kind \in Kinds
  /\ copy.there \in BOOLEAN /\ copy.whole \in BOOLEAN
  /\ copy.torn \cup copy.new \subseteq {"mode", "wifi", "startup", "status"}

(* An edit that reports success left a copy of the whole image in which    *)
(* every file it was to change reads as wanted, also after the last repair *)
(* of the filesystem, and none is half replaced.  One that fails left no   *)
(* file, or, when it failed before its first step, the source's own        *)
(* content: never half an edit.  Nothing is said of one that is cut off by *)
(* Ctrl-C or cannot remove its copy: a half-edited image may stay.         *)
Edited == copy.whole /\ copy.torn = {} /\ Wanted \subseteq copy.new
Untouched == copy.whole /\ copy.torn \cup copy.new = {}

EditedOrAbsent ==
  /\ edit = "edited" => Edited
  /\ edit = "failed" => ~copy.there \/ Untouched
=============================================================================
