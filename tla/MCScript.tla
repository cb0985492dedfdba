------------------------------ MODULE MCScript ------------------------------
(***************************************************************************)
(* Scripts for Script: a statement around a statement around a statement,  *)
(* with others after each.  Continued are those with continuations and     *)
(* without full variable lists, Stopped those with full variable lists     *)
(* and without calls of continuations; Both have both.                     *)
(***************************************************************************)
EXTENDS Script, Functions

Control(s) == {If(<<s>>, <<Echo(1)>>, <<>>), If(<<False, s>>, <<>>, <<EchoVar>>),
               For(<<1, 2>>, <<s, Echo(6)>>), Call(<<s, Echo(2)>>), Reset(<<s, Echo(3), EchoVar>>)}

Shifts(s) == {Shift(<<s, Resume(4)>>), Shift(<<Resume(3), s>>)}

Lists(s, rest) == IF s.t \in {"echo", "if", "for", "call", "reset", "resume"}
                  THEN {To(<<"i">>, rest, s)} ELSE {}

Around(ss, W(_)) == UNION {W(s) : s \in ss}

Scripts(inner, W(_)) == {<<s, EchoVar>> : s \in Around(Around(Around(inner, W), W), W)}

Leaves == {EchoVar, Break, Continue, Return}

Continued == LET W(s) == Control(s) \cup Shifts(s) \cup Lists(s, TRUE)
             IN  Scripts(Leaves \cup {Resume(5)}, W)

Stopped == LET W(s) == Control(s) \cup {Shift(<<s>>)} \cup Lists(s, FALSE)
           IN  Scripts(Leaves, W)

Both == LET W(s) == Control(s) \cup Shifts(s) \cup Lists(s, FALSE)
        IN  Scripts({EchoVar, Resume(5)}, W)

\* A continuation leaves its reset and is called there: reset { ... shift k {
\* echo $i; echo $k } ... } > (i k . rest); ... $k > (i k . rest).
IK == <<"i", "k">>
Again == To(IK, TRUE, Resume(7))
Generators ==
    LET Yield == Shift(<<EchoVar, EchoCont>>)
        W(s) == Control(s)
    IN  {<<To(IK, TRUE, Reset(<<s, Echo(3)>>)), EchoVar, t, EchoVar>> :
            s \in Around(Around({Yield, Call(<<Yield, Resume(8)>>)}, W), W),
            t \in {Resume(7), Again, Reset(<<Again, Resume(8)>>),
                   Call(<<Resume(8), Again>>), For(<<1, 2>>, <<Again>>)}}

\* An error in a continuation that is called in resets of a statement with a
\* variable list: reset { (reset { reset { shift k { $k 5 }; break } }) > (i . rest); ...
Errors ==
    LET Inside(s) == {Call(<<s, Break>>), Reset(<<s, Break>>)}
        Listed(s) == {<<Reset(<<To(<<"i">>, TRUE, s), Echo(1)>>)>>}
    IN  Around(Around(Around({Shift(<<Resume(5)>>), Shift(<<Resume(5), Resume(6)>>)}, Inside),
                      Inside), Listed)

Safe == Continued \cup Stopped \cup Generators \cup Errors

\* The statements of scripts, four deep: those of Safe are what MetaStaysLive
\* (Script_proofs) is about.
StatementsOf(scripts) ==
    LET Elements(ps) == UNION {Range(p) : p \in ps}
        Within[n \in 0..6] ==
            IF n = 0 THEN Elements(scripts) ELSE Elements(UNION {Inner(s) : s \in Within[n - 1]})
    IN  UNION {Within[n] : n \in 0..6}

SafeContinued == StatementsOf(Continued \cup Generators \cup Errors)
SafeStopped == StatementsOf(Stopped)

ASSUME SafeIsCovered ==
    /\ Statements(SafeContinued) /\ NoFullList(SafeContinued)
    /\ Statements(SafeStopped) /\ NoResume(SafeStopped)
    /\ Safe \subseteq Seq(SafeContinued) \cup Seq(SafeStopped)
=============================================================================
