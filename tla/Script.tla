------------------------------- MODULE Script -------------------------------
(***************************************************************************)
(* The machine that runs a ConSh script in Rust (consh/rust/src/eval.rs):  *)
(* the rest of the computation is a persistent list of frames (a Chain)    *)
(* run by a trampoline, `run', and `unwind' takes a return, break,         *)
(* continue, error or stop to its frame.  A statement with a redirection   *)
(* runs its body in a nested `run'; where a reset (or the call of a        *)
(* continuation) goes on is not in the Chain but in the list `meta' of the *)
(* thread, and a continuation is the Chain at its shift.  IsDelimited: it  *)
(* is the one stack of Delimited.                                          *)
(*                                                                         *)
(* Abstracted: the only redirections are those to a variable list, and     *)
(* those to a list without rest are of one variable.                       *)
(***************************************************************************)
EXTENDS ScriptStep, FiniteSets

CONSTANT Programs       \* scripts

VARIABLES
  runs,   \* the calls of `run', the innermost first: the Chain, and the group
          \* of variable lists (0: none) and the context of its statement
  meta,   \* Ctx::meta, the innermost reset first
  st      \* see Fresh in ScriptStep; a continuation holds a Chain

vars == <<runs, meta, st>>

ResetEnd == [f |-> "resetEnd"]

chain == runs[1].chain

Init == \E p \in Programs : /\ runs = <<[chain |-> <<Lines(Top, p)>>, g |-> 0, sh |-> Top]>>
                            /\ meta = <<>>
                            /\ st = Fresh

Going == runs # <<>> /\ st.flow = Onward

GoOn(frames) == runs' = [runs EXCEPT ![1].chain = frames]

ControlAt(t) ==
    /\ Going /\ chain # <<>> /\ chain[1].f = "lines"
    /\ ~AtEnd(chain[1]) /\ Statement(chain[1]).t = t

Stmt == Statement(chain[1])
Here == chain[1].sh
After == <<Advance(chain[1])>> \o Tail(chain)

Fails == /\ GoOn(After) /\ st' = [st EXCEPT !.flow = Failed] /\ UNCHANGED meta

(***************************************************************************)
(* step: a frame is taken off the Chain                                    *)
(***************************************************************************)
\* sh_abort: a full list ends what the context of the statement says.
StepFrame ==
    /\ Going /\ chain # <<>> /\ IsLocal(chain[1])
    /\ LET r == StepLocal(chain[1], st, IF "sh" \in DOMAIN chain[1] THEN Here.abort ELSE 0)
       IN  GoOn(r.frames \o Tail(chain)) /\ st' = r.st
    /\ UNCHANGED meta

ResetInfo(k, sh) == [k |-> k, sh |-> sh]

ExecReset ==
    /\ ControlAt("reset")
    /\ meta' = <<ResetInfo(After, Here)>> \o meta
    /\ GoOn(<<Lines([Here EXCEPT !.redirected = FALSE, !.loops = <<>>, !.noReturn = TRUE],
                    Stmt.body), ResetEnd>> \o After)
    /\ UNCHANGED st

\* Fault: the end of a reset goes on in the Chain it is in.
StepResetEndInChain ==
    /\ Going /\ chain # <<>> /\ chain[1] = ResetEnd
    /\ meta' = Tail(meta) /\ GoOn(Tail(chain)) /\ UNCHANGED st

StepResetEnd ==
    /\ Going /\ chain # <<>> /\ chain[1] = ResetEnd
    /\ meta' = Tail(meta) /\ GoOn(meta[1].k) /\ UNCHANGED st

Cont(resume, v) == [frames |-> resume, vars |-> v]

ExecShift ==
    /\ ControlAt("shift")
    /\ IF meta = <<>> \/ Here.redirected THEN Fails
       ELSE LET r == FuncPush(st, meta[1].sh,
                              [st.vars[Here.vars] EXCEPT !.k = <<Cont(After, Here.vars)>>],
                              Stmt.body)
            IN  /\ GoOn(r.frames \o meta[1].k) /\ st' = r.st
                /\ meta' = Tail(meta)

\* retarget: up to the end of the reset, with the outputs of the call.
UpToReset(frames) ==
    LET n == FirstPlace(frames, LAMBDA frame : frame = ResetEnd)
    IN  IF n = 0 THEN frames ELSE SubSeq(frames, 1, n)

ContCall ==
    /\ ControlAt("resume")
    /\ IF st.vars[Here.vars].k = <<>> THEN Fails
       ELSE LET c == st.vars[Here.vars].k[1]
            IN  /\ meta' = <<ResetInfo(After, Here)>> \o meta
                /\ GoOn(Retargeted(UpToReset(c.frames), Here.out))
                /\ st' = Status([st EXCEPT !.vars[c.vars].i = Stmt.v], 0)

\* A statement with a redirection: eval_redirected, func_call.
ExecRedirected ==
    /\ ControlAt("to")
    /\ LET g == Len(st.groups) + 1
       IN  /\ runs' = <<[chain |-> <<Lines(InGroup(Here, g), <<Stmt.s>>)>>, g |-> g, sh |-> Here]>>
                        \o [runs EXCEPT ![1].chain = After]
           /\ st' = NewGroup(st, Stmt)
    /\ UNCHANGED meta

\* The end of `run': capture_run assigns the variables of the statement.
RunEnds ==
    /\ Going /\ chain = <<>>
    /\ runs' = Tail(runs)
    /\ st' = IF runs[1].g = 0 THEN st ELSE CaptureAssign(st, runs[1].sh, runs[1].g)
    /\ UNCHANGED meta

(***************************************************************************)
(* unwind: a flow leaves the frames that it does not end at                *)
(***************************************************************************)
\* The place in the Chain where the flow ends, or 0.
Place == FirstPlace(chain, LAMBDA frame : Ends(frame, st.flow))

ResetEnds(frames) == Cardinality({j \in DOMAIN frames : frames[j] = ResetEnd})

Drop(s, n) == SubSeq(s, n + 1, Len(s))

Lands ==
    /\ runs # <<>> /\ st.flow # Onward /\ Place # 0
    /\ GoOn(Landing(chain[Place], st.flow) \o Drop(chain, Place))
    /\ meta' = Drop(meta, ResetEnds(SubSeq(chain, 1, Place)))
    /\ st' = Landed(st)

\* Fault: a stopped statement leaves its resets in `meta'.
RunFailsInside ==
    /\ runs # <<>> /\ st.flow # Onward /\ Place = 0
    /\ runs' = Tail(runs)
    /\ st' = IF runs[1].g = 0 THEN st ELSE Caught(st, runs[1].sh, runs[1].g)
    /\ UNCHANGED meta

\* `run' returns the Err, and capture_run catches the stop of its lists.
RunFails ==
    /\ runs # <<>> /\ st.flow # Onward /\ Place = 0
    /\ runs' = Tail(runs)
    /\ meta' = Drop(meta, ResetEnds(chain))
    /\ st' = IF runs[1].g = 0 THEN st ELSE Caught(st, runs[1].sh, runs[1].g)

Next == StepFrame \/ ExecReset \/ StepResetEnd \/ ExecShift \/ ContCall \/ ExecRedirected
        \/ RunEnds \/ Lands \/ RunFails

Done == runs = <<>>

Spec == Init /\ [][Next]_vars
FairSpec == Spec /\ WF_vars(Next)

(***************************************************************************)
(* The statements of scripts, for what is said of more than those of a run.*)
(***************************************************************************)
\* The scripts in a statement.
Inner(s) ==
    CASE s.t = "if" -> {s.c, s.a, s.b}
      [] s.t \in {"for", "call", "reset", "shift"} -> {s.body}
      [] s.t = "to" -> {<<s.s>>}
      [] OTHER -> {}

\* S has the statements in its statements.
Statements(S) ==
    \A s \in S :
        /\ \/ s.t \in {"echok", "false", "if", "break", "continue", "call", "return",
                       "reset", "shift"}
           \/ s.t \in {"echo", "resume"} /\ s.v \in Int
           \/ s.t = "for" /\ s.vs \in Seq(Int)
           \/ s.t = "to" /\ s.names \in Seq(STRING) /\ s.rest \in BOOLEAN
        /\ Inner(s) \subseteq Seq(S)

\* No variable list can be full; no continuation is called.
NoFullList(S) == \A s \in S : s.t = "to" => s.rest
NoResume(S) == \A s \in S : s.t # "resume"

(***************************************************************************)
(* Properties                                                              *)
(***************************************************************************)
Before(frames) ==
    LET n == FirstPlace(frames, LAMBDA frame : frame = ResetEnd)
    IN  IF n = 0 THEN frames ELSE SubSeq(frames, 1, n - 1)

\* The one stack: a Chain up to the end of its reset, then what meta says, and
\* after the last Chain of a `run' the Chain around it.  rest[<<i, j, r>>] is what
\* is left when i entries of meta and j calls of `run' have been passed, the last
\* one (r) a reset or not, and Follow what comes after the Chain c of that place.
Follow(rs, mt, rest, c, i, j) ==
    IF ResetEnds(c) > 0 /\ i < Len(mt)
    THEN <<[f |-> "reset", sh |-> mt[i + 1].sh]>> \o rest[<<i + 1, j, TRUE>>]
    ELSE (IF rs[j + 1].g = 0 THEN <<>>
          ELSE <<[f |-> "list", sh |-> rs[j + 1].sh, g |-> rs[j + 1].g]>>)
         \o rest[<<i, j + 1, FALSE>>]

Places(rs, mt) == (0 .. Len(mt)) \X (0 .. Len(rs)) \X BOOLEAN

Pile(rs, mt, rest, i, j, r) ==
    LET c == IF r THEN mt[i].k ELSE rs[j + 1].chain
    IN  IF j = Len(rs) THEN <<>> ELSE Before(c) \o Follow(rs, mt, rest, c, i, j)

RestOf(rs, mt) ==
    LET rest[p \in Places(rs, mt)] == Pile(rs, mt, rest, p[1], p[2], p[3])
    IN  rest

\* Nothing is left after an error.
Stack == IF st.flow = Failed THEN <<>> ELSE RestOf(runs, meta)[<<0, 0, FALSE>>]

\* A continuation of Delimited is the frames up to the end of the reset.
Cut(k) == [c \in DOMAIN k |-> [k[c] EXCEPT !.frames = Before(@)]]

CutOf(y) == [y EXCEPT !.k = Cut(@)]
CutEach(ys) == [n \in DOMAIN ys |-> CutOf(ys[n])]
CutGroups(gs) == [g \in DOMAIN gs |-> [gs[g] EXCEPT !.items = CutEach(@)]]
CutAll(u) == [u EXCEPT !.vars = CutEach(@), !.groups = CutGroups(@)]

TheStack == INSTANCE Delimited WITH stack <- Stack, st <- CutAll(st)

\* The Chains of the nested runs and `meta' together are one stack with marks:
\* a shift takes the frames up to the nearest reset (and is an error when a
\* redirection lies between), a continuation may be called any number of
\* times, also after its reset has ended, and inside another one, and return,
\* break and continue end at their own frame.
IsDelimited == TheStack!Spec

\* `meta' holds the resets that are being run and no others: one that is left
\* over would send a later shift, which has no reset, to a place long gone, and
\* one that is missing is a panic at the end of its reset.  Each `run' has a
\* stretch of meta, up to `last'; its Chain and those in its stretch lead from
\* one to the next by the end of a reset, and the last of them has none.
MetaIsLive == st.flow = Onward =>
    \E last \in [0..Len(runs) -> 0..Len(meta)] :
        /\ last[0] = 0 /\ last[Len(runs)] = Len(meta)
        /\ \A j \in 1..Len(runs) :
              /\ last[j - 1] <= last[j]
              /\ \A i \in last[j - 1]..last[j] :
                    ResetEnds(IF i = last[j - 1] THEN runs[j].chain ELSE meta[i].k) > 0
                        <=> i < last[j]

\* A write to a full variable list stops the statement that has the list
\* (with $? 0), also when a continuation that was made elsewhere writes it.
FullListStops == [][\A g \in DOMAIN st.groups :
    st'.groups[g].stopped /\ ~st.groups[g].stopped => st'.flow = Flow("abort", g)]_vars

\* Every script ends: no flow and no continuation sends `run' round for ever.
ScriptEnds == <>Done

=============================================================================
