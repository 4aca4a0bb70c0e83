-------------------------- MODULE MCFileTransaction ---------------------------
(***************************************************************************)
(* FileTransaction for TLC: edits and robots are interchangeable.  A       *)
(* content is only compared with contents of the same file, so that the    *)
(* name of the first content of each file does not matter.                 *)
(***************************************************************************)
EXTENDS FileTransaction, TLC

Symmetry == Permutations(Edits) \cup Permutations(Robots)

MCInit == Init /\ \A r \in Robots, f \in Files : file[r][f] = Whole(AnyBody)
MCSpec == MCInit /\ [][Next]_vars
=============================================================================
