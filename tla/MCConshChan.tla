----------------------------- MODULE MCConshChan -----------------------------
(***************************************************************************)
(* Instances of ConshChan for TLC.  A writer writes two elements: with Cap *)
(* 1 it has to wait before the second.                                     *)
(***************************************************************************)
EXTENDS ConshChan

TwoEach == [w \in Writers |-> 2]
=============================================================================
