----------------------------- MODULE ScriptStep -----------------------------
(***************************************************************************)
(* The statements of ConSh (consh/rust/src/eval.rs) that do not take the   *)
(* rest of the computation as a value: what one step of such a statement   *)
(* does, and the frames it pushes for the rest of its work.                *)
(*                                                                         *)
(* A script is a sequence of statements; its command lines are not told    *)
(* apart.  A function is defined where it is called ("call" holds its      *)
(* body).  The variables are i, of loops, parameters and variable lists,   *)
(* and k, of shifts.                                                       *)
(***************************************************************************)
EXTENDS Integers, Sequences

\* The place of the first element with a property, or 0: SelectInSeq of
\* SequencesExt, written out because the provers would carry all of that module
\* with each step, and again for the instance of Delimited in Script.
Min(S) == CHOOSE x \in S : \A y \in S : x <= y

FirstPlace(s, Test(_)) ==
    LET I == {i \in 1..Len(s) : Test(s[i])}
    IN  IF I # {} THEN Min(I) ELSE 0

Echo(v) == [t |-> "echo", v |-> v]              \* echo v
EchoVar == [t |-> "echo", v |-> 0]              \* echo $i
EchoCont == [t |-> "echok"]                     \* echo $k
False == [t |-> "false"]                        \* false
If(c, a, b) == [t |-> "if", c |-> c, a |-> a, b |-> b]
For(vs, body) == [t |-> "for", vs |-> vs, body |-> body]
Break == [t |-> "break"]
Continue == [t |-> "continue"]
Call(body) == [t |-> "call", body |-> body]     \* a function with this body
Return == [t |-> "return"]                      \* return 1
Reset(body) == [t |-> "reset", body |-> body]
Shift(body) == [t |-> "shift", body |-> body]   \* shift k (i) { body }
Resume(v) == [t |-> "resume", v |-> v]          \* $k v
To(names, rest, s) ==                           \* s > (i k) or s > (i k . rest)
    [t |-> "to", names |-> names, rest |-> rest, s |-> s]

(***************************************************************************)
(* The context of a statement, the fields of Ctx that tell places apart,   *)
(* and what the thread has besides its frames.                             *)
(***************************************************************************)
Top == [vars |-> 1, ret |-> 0, loops |-> <<>>, noReturn |-> FALSE, out |-> 0,
        abort |-> 0, redirected |-> FALSE]

Onward == [k |-> "onward"]                      \* Ok(())
Failed == [k |-> "error"]                       \* Flow::Error, with its message
Flow(k, id) == [k |-> k, id |-> id]

Fresh == [vars |-> <<[k |-> <<>>, i |-> 9]>>,   \* the local variables of each call
          groups |-> <<>>,                      \* the variable lists, by their number
          status |-> 0, output |-> <<>>, ids |-> 0, flow |-> Onward]

\* The frames that a thread goes on with, the next one first.
Lines(sh, script) == [f |-> "lines", sh |-> sh, script |-> script, pos |-> 1]
Clauses(sh, s, test) == [f |-> "if", sh |-> sh, s |-> s, test |-> test]
Items(sh, s, index, id) == [f |-> "for", sh |-> sh, s |-> s, index |-> index, id |-> id]
CallEnd(id) == [f |-> "call", id |-> id]

Pushing(frames, st) == [frames |-> frames, st |-> st]
Status(st, n) == [st EXCEPT !.status = n]
Leaving(st, flow) == Pushing(<<>>, [st EXCEPT !.flow = flow])

PushScript(sh, script, st) ==
    IF script = <<>> THEN Pushing(<<>>, Status(st, 0))
    ELSE Pushing(<<Lines(sh, script)>>, st)

Plain(v) == [v |-> v, k |-> <<>>]
Func(k) == [v |-> 0, k |-> k]

\* capture_put: a full list drops more elements, unless all lists of the
\* statement are full.  Then the write stops it, as stop says.
CapturePut(st, g, v, stop) ==
    IF st.groups[g].rest \/ Len(st.groups[g].items) < Len(st.groups[g].names)
    THEN Pushing(<<>>, Status([st EXCEPT !.groups[g].items = Append(@, v)], 0))
    ELSE Leaving([st EXCEPT !.groups[g].stopped = TRUE],
                 IF stop = 0 THEN Failed ELSE Flow("abort", stop))

\* target_write: a function value has no line.
Write(st, sh, v, stop) ==
    CASE sh.out # 0 -> CapturePut(st, sh.out, v, stop)
      [] sh.out = 0 /\ v.k # <<>> -> Leaving(st, Failed)
      [] sh.out = 0 /\ v.k = <<>> ->
            Pushing(<<>>, Status([st EXCEPT !.output = Append(@, v.v)], 0))

\* func_push: vars are the local variables of the place of the definition.
FuncPush(st, sh, vars, body) ==
    LET id == st.ids + 1
        callee == [sh EXCEPT !.vars = Len(st.vars) + 1, !.ret = id, !.loops = <<>>,
                             !.noReturn = FALSE]
    IN  Pushing(<<Lines(callee, body), CallEnd(id)>>,
                Status([st EXCEPT !.vars = Append(@, vars), !.ids = id], 0))

ForStart(st, sh, s) ==
    LET id == st.ids + 1
    IN  Pushing(<<Items([sh EXCEPT !.loops = <<id>> \o @], s, 1, id)>>, [st EXCEPT !.ids = id])

Jump(st, sh, k) ==
    IF sh.loops = <<>> THEN Leaving(st, Failed)
    ELSE Leaving(Status(st, 0), Flow(k, Head(sh.loops)))

EvalReturn(st, sh) ==
    IF sh.noReturn \/ sh.ret = 0 THEN Leaving(st, Failed)
    ELSE Leaving(Status(st, 1), Flow("return", sh.ret))

\* The statements that do not look at the rest of the computation.
IsPlain(s) == s.t \notin {"reset", "shift", "resume", "to"}

ExecPlain(st, sh, s, stop) ==
    CASE s.t = "echo" -> Write(st, sh, Plain(IF s.v = 0 THEN st.vars[sh.vars].i ELSE s.v), stop)
      [] s.t = "echok" -> Write(st, sh, Func(st.vars[sh.vars].k), stop)
      [] s.t = "false" -> Pushing(<<>>, Status(st, 1))
      [] s.t = "if" -> Pushing(<<Clauses(sh, s, FALSE)>>, st)
      [] s.t = "for" -> ForStart(st, sh, s)
      [] s.t \in {"break", "continue"} -> Jump(st, sh, s.t)
      [] s.t = "call" -> FuncPush(st, sh, st.vars[sh.vars], s.body)
      [] s.t = "return" -> EvalReturn(st, sh)

AtEnd(frame) == frame.pos > Len(frame.script)
Statement(frame) == frame.script[frame.pos]
Advance(frame) == [frame EXCEPT !.pos = @ + 1]

StepLines(frame, st, stop) ==
    IF AtEnd(frame) THEN Pushing(<<>>, st)
    ELSE LET r == ExecPlain(st, frame.sh, Statement(frame), stop)
         IN  [r EXCEPT !.frames = Append(@, Advance(frame))]

StepIf(frame, st) ==
    IF ~frame.test
    THEN LET r == PushScript(frame.sh, frame.s.c, st)
         IN  [r EXCEPT !.frames = Append(@, Clauses(frame.sh, frame.s, TRUE))]
    ELSE PushScript(frame.sh, IF st.status = 0 THEN frame.s.a ELSE frame.s.b, st)

\* Fault: the loop goes on with the same item.
StepForAgain(frame, st) ==
    IF frame.index > Len(frame.s.vs) THEN Pushing(<<>>, Status(st, 0))
    ELSE Pushing(<<Lines(frame.sh, frame.s.body), frame>>,
                 [st EXCEPT !.vars[frame.sh.vars].i = frame.s.vs[frame.index]])

StepFor(frame, st) ==
    IF frame.index > Len(frame.s.vs) THEN Pushing(<<>>, Status(st, 0))
    ELSE Pushing(<<Lines(frame.sh, frame.s.body), [frame EXCEPT !.index = @ + 1]>>,
                 [st EXCEPT !.vars[frame.sh.vars].i = frame.s.vs[frame.index]])

IsLocal(frame) ==
    \/ frame.f \in {"if", "for", "call"}
    \/ frame.f = "lines" /\ (~AtEnd(frame) => IsPlain(Statement(frame)))

StepLocal(frame, st, stop) ==
    CASE frame.f = "lines" -> StepLines(frame, st, stop)
      [] frame.f = "if" -> StepIf(frame, st)
      [] frame.f = "for" -> StepFor(frame, st)
      [] frame.f = "call" -> Pushing(<<>>, st)

(***************************************************************************)
(* Where a flow stops: what is left of the frames and the state, or Null.  *)
(***************************************************************************)
Ends(frame, flow) ==
    \/ frame.f = "call" /\ flow.k = "return" /\ frame.id = flow.id
    \/ frame.f = "for" /\ flow.k \in {"break", "continue"} /\ frame.id = flow.id

\* The frames of the one that ends the flow: a continued loop goes on.
Landing(frame, flow) == IF flow.k = "continue" THEN <<frame>> ELSE <<>>

Landed(st) == [st EXCEPT !.flow = Onward,
                         !.status = IF st.flow.k = "break" THEN 0 ELSE @]

(***************************************************************************)
(* Continuations and variable lists                                        *)
(***************************************************************************)
Retarget(frame, out) ==
    IF "sh" \in DOMAIN frame THEN [frame EXCEPT !.sh.out = out] ELSE frame

Retargeted(frames, out) == [j \in DOMAIN frames |-> Retarget(frames[j], out)]

\* The group of a statement with a variable list: the lists of the statement.
NewGroup(st, s) ==
    [st EXCEPT !.groups = Append(@, [names |-> s.names, rest |-> s.rest, items |-> <<>>,
                                     stopped |-> FALSE])]

HasName(names, name) == \E n \in DOMAIN names : names[n] = name

Item(group, name) ==
    LET n == FirstPlace(group.names, LAMBDA x : x = name)
    IN  IF n > Len(group.items) THEN Plain(0) ELSE group.items[n]

\* The local variables y after the elements went to the variables in turn.
Assigned(y, group) ==
    [i |-> IF HasName(group.names, "i") THEN Item(group, "i").v ELSE y.i,
     k |-> IF HasName(group.names, "k") THEN Item(group, "k").k ELSE y.k]

\* capture_run after the body.
CaptureAssign(st, sh, g) ==
    [st EXCEPT !.vars[sh.vars] = Assigned(@, st.groups[g]),
               !.status = IF st.groups[g].stopped THEN 0 ELSE @]

Caught(st, sh, g) ==
    IF st.flow = Failed THEN st
    ELSE LET r == CaptureAssign(st, sh, g)
         IN  IF st.flow = Flow("abort", g) THEN [r EXCEPT !.flow = Onward] ELSE r

InGroup(sh, g) == [sh EXCEPT !.out = g, !.abort = g, !.redirected = TRUE]
=============================================================================
