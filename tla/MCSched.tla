------------------------------ MODULE MCSched ------------------------------
(***************************************************************************)
(* Instances of Sched for TLC.  The VProcs other than Main are alike, and   *)
(* so are the frames.                                                      *)
(***************************************************************************)
EXTENDS Sched, TLC

Symmetry == Permutations(VProcs \ {Main})
============================================================================
