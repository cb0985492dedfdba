----------------------------- MODULE Delimited ------------------------------
(***************************************************************************)
(* What reset, shift and redirections of ConSh promise: the rest of the    *)
(* computation of a thread is one stack of frames in which a reset (or the *)
(* call of a continuation) is a mark, and a statement with a variable list *)
(* is another.  A shift takes the frames above the nearest mark of a reset *)
(* and drops that mark; calling what it took puts them back on a new mark. *)
(* A write to a full variable list stops the statement that has the list;  *)
(* an error ends the script.                                               *)
(***************************************************************************)
EXTENDS ScriptStep

CONSTANT Programs

VARIABLES
  stack,  \* the frames, the next one first
  st      \* see Fresh in ScriptStep; a continuation holds the frames it took

vars == <<stack, st>>

ResetMark(sh) == [f |-> "reset", sh |-> sh]
ListMark(sh, g) == [f |-> "list", sh |-> sh, g |-> g]

IsMark(frame) == frame.f \in {"reset", "list"}
IsList(frame) == frame.f = "list"

\* An error ends the script, whatever is around it.
On(s, u) == [stack |-> IF u.flow = Failed THEN <<>> ELSE s, st |-> u]
Fail(u) == On(<<>>, [u EXCEPT !.flow = Failed])

Init == \E p \in Programs : stack = <<Lines(Top, p)>> /\ st = Fresh

LeaveMark(mark, below, u) ==
    On(below, IF IsList(mark) THEN CaptureAssign(u, mark.sh, mark.g) ELSE u)

\* The statements that look at the stack: sh is the context, below what follows.
ResetTo(sh, body, below, u) ==
    On(<<Lines([sh EXCEPT !.loops = <<>>, !.noReturn = TRUE, !.redirected = FALSE], body),
         ResetMark(sh)>> \o below, u)

ShiftTo(sh, body, below, u) ==
    LET m == FirstPlace(below, IsMark)
        k == [frames |-> SubSeq(below, 1, m - 1), vars |-> sh.vars]
        r == FuncPush(u, below[m].sh, [u.vars[sh.vars] EXCEPT !.k = <<k>>], body)
    IN  IF m = 0 \/ IsList(below[m]) THEN Fail(u)
        ELSE On(r.frames \o SubSeq(below, m + 1, Len(below)), r.st)

ResumeAt(sh, v, below, u) ==
    IF u.vars[sh.vars].k = <<>> THEN Fail(u)
    ELSE LET k == u.vars[sh.vars].k[1]
         IN  On(Retargeted(k.frames, sh.out) \o <<ResetMark(sh)>> \o below,
                Status([u EXCEPT !.vars[k.vars].i = v], 0))

WithList(sh, s, below, u) ==
    LET g == Len(u.groups) + 1
    IN  On(<<Lines(InGroup(sh, g), <<s.s>>), ListMark(sh, g)>> \o below, NewGroup(u, s))

Exec(s, sh, below, u) ==
    CASE s.t = "reset" -> ResetTo(sh, s.body, below, u)
      [] s.t = "shift" -> ShiftTo(sh, s.body, below, u)
      [] s.t = "resume" -> ResumeAt(sh, s.v, below, u)
      [] s.t = "to" -> WithList(sh, s, below, u)

\* A write that stops, stops the statement that has the list it writes to.
StepOf(frame, below, u) ==
    CASE IsMark(frame) -> LeaveMark(frame, below, u)
      [] ~IsMark(frame) /\ IsLocal(frame) ->
            LET r == StepLocal(frame, u, IF "sh" \in DOMAIN frame THEN frame.sh.out ELSE 0)
            IN  On(r.frames \o below, r.st)
      [] OTHER -> Exec(Statement(frame), frame.sh, <<Advance(frame)>> \o below, u)

\* A flow leaves the frames up to the one where it ends, or the next list.
Unwind(s, u) ==
    LET j == FirstPlace(s, LAMBDA frame : IsList(frame) \/ Ends(frame, u.flow))
        rest == SubSeq(s, j + 1, Len(s))
    IN  CASE j = 0 -> On(<<>>, u)
          [] j # 0 /\ IsList(s[j]) -> On(rest, Caught(u, s[j].sh, s[j].g))
          [] OTHER -> On(Landing(s[j], u.flow) \o rest, Landed(u))

After(s, u) == IF u.flow = Onward THEN StepOf(Head(s), Tail(s), u) ELSE Unwind(s, u)

Next == \E s \in {stack}, u \in {st} :
            s # <<>> /\ \E r \in {After(s, u)} : stack' = r.stack /\ st' = r.st

Spec == Init /\ [][Next]_vars
=============================================================================
