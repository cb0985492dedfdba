-------------------------------- MODULE Vm ----------------------------------
(***************************************************************************)
(* A VProc run by the VM alone: what transpiled code must agree with.      *)
(* Transpiled code does several steps at a time, at most Longest of them   *)
(* between two of its states.                                              *)
(***************************************************************************)
EXTENDS Integers, Sequences

CONSTANTS Programs, Code(_), Longest

VARIABLES prog, cfg

INSTANCE VmStep WITH Named <- FALSE

code == Code(prog)

Init == prog \in Programs /\ cfg = Settled(Registers(Clo("main", <<>>), <<>>))

\* In at most n steps from c the VProc is, passed on values apart, as in d.
RECURSIVE Reaches(_, _, _)
Reaches(c, d, n) ==
    /\ n > 0 /\ ~Stopped(c)
    /\ \E e \in {Step(code, c)} : Settled(e) = d \/ Reaches(e, d, n - 1)

Next == /\ \E c \in {cfg}, d \in {cfg'} : Reaches(c, d, Longest)
        /\ UNCHANGED prog

Spec == Init /\ [][Next]_<<prog, cfg>>
=============================================================================
