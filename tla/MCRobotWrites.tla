---------------------------- MODULE MCRobotWrites -----------------------------
(* RobotWrites for TLC: contents with the calibration are interchangeable. *)
EXTENDS RobotWrites, TLC

Symmetry == Permutations(Own)
=============================================================================
