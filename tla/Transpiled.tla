----------------------------- MODULE Transpiled -----------------------------
(***************************************************************************)
(* The transpiled code of ConMa modules, src/vm/src/transpiled.rs: one     *)
(* step of the VM may load a Body through `run', which then runs Bodies as *)
(* Rust code, several steps at a time.                                     *)
(*                                                                         *)
(* A call with an LCont written in place is a Rust call: its CFrame is not *)
(* in the CChain but in `frames', the Rust stack (the LCont Function and   *)
(* its LVEnv are local variables of rust_call).  `next' is the value the   *)
(* Rust functions return to `drive', or "vm" between two steps of the VM.  *)
(* What must be shown is that nobody can tell: see TranspiledVm.           *)
(*                                                                         *)
(* Abstracted: a fused chain keeps its variables in Rust variables, here   *)
(* it is its Bodies one after another with the choices only fused chains   *)
(* have (`fused'); rust_ok, which counts calls to avoid slow Rust calls,   *)
(* may answer anything.                                                    *)
(***************************************************************************)
EXTENDS Integers, Sequences, FiniteSets, SequencesExt

CONSTANTS Programs,     \* names of programs
          Code(_),      \* their Functions: functions from names to Fn records
          Budget,       \* BUDGET
          MaxDepth,     \* MAX_DEPTH
          Steps         \* bound: the steps of the VM after which a run stops

ASSUME Bounds == Budget \in Nat /\ MaxDepth \in Nat /\ Steps \in Nat

VARIABLES
  prog,     \* the module that is run
  cfg,      \* the registers of the VProc, see VmStep
  next,     \* what `drive' does next
  frames,   \* Ctx.frames: the Rust calls, the innermost last
  ids,      \* Ctx.ids: numbers for Rust calls
  budget,   \* Ctx.budget
  steps     \* the steps of the VM so far

vars == <<prog, cfg, next, frames, ids, budget, steps>>

INSTANCE VmStep WITH Named <- TRUE

code == Code(prog)

(***************************************************************************)
(* The modules that are run                                                *)
(***************************************************************************)
\* The variables that the Body of Function f has: its own and those of the
\* Functions it is written in (`scope', none for the machine's Closures).
Scope(c, f) == IF f \in DOMAIN Builtin THEN 0 ELSE c[f].scope

Visible(c, f) == Scope(c, f) + (IF c[f].variadic THEN 1 ELSE c[f].params)

\* What can be written in a module: no continuations, no CFrames.
Literal(c, v) ==
    \/ v = Null
    \/ v.t = "atom"
    \/ v.t = "prim" /\ v.p \in DOMAIN Arity
    \/ v.t = "clo" /\ v.f \in DOMAIN c /\ v = Clo(v.f, <<>>) /\ Scope(c, v.f) = 0

InScope(c, f, e) ==
    \/ e.x = "L" /\ e.i \in Nat /\ e.i < Visible(c, f)
    \/ e.x = "C" /\ Literal(c, e.v)
    \/ e.x = "F" /\ e.f \in DOMAIN c /\ Scope(c, e.f) <= Visible(c, f)

WellFormed(c) ==
    /\ "main" \in DOMAIN c /\ Scope(c, "main") = 0
    /\ \A f \in DOMAIN Builtin : f \in DOMAIN c /\ c[f] = Builtin[f]
    /\ \A f \in DOMAIN c :
          /\ c[f].params \in Nat /\ c[f].variadic \in BOOLEAN /\ Scope(c, f) \in Nat
          /\ Len(c[f].args) \in Nat /\ DOMAIN c[f].args = 1..Len(c[f].args)
          /\ InScope(c, f, c[f].op)
          /\ \A i \in DOMAIN c[f].args : InScope(c, f, c[f].args[i])
          /\ c[f].lc # "none" => c[f].lc \in DOMAIN c /\ Scope(c, c[f].lc) <= Visible(c, f)

\* The front end gives every variable its place and every Function its module.
ASSUME ProgramAssumption == \A p \in Programs : WellFormed(Code(p))

Vm == [n |-> "vm"]
Apply == [n |-> "apply"]
Return == [n |-> "return"]
Leave == [n |-> "leave"]
Escape == [n |-> "escape"]
Err == [n |-> "err"]
Enter(f, env) == [n |-> "enter", f |-> f, env |-> env]

(***************************************************************************)
(* Rust calls and their CChains                                            *)
(***************************************************************************)
Ids(chain) == [i \in DOMAIN chain |-> chain[i].id]

SameChain(a, b) == Ids(a) = Ids(b)

EndsWith(chain, base) ==
    /\ Len(base) <= Len(chain)
    /\ SameChain(SubSeq(chain, Len(chain) - Len(base) + 1, Len(chain)), base)

\* The CChain that ends with base, with node in place of base.  The cells
\* before it are new ones: `by' tells apart the splices of one cell.
Splice(chain, base, node, by) ==
    IF ~EndsWith(chain, base) THEN chain
    ELSE [i \in 1..(Len(chain) - Len(base)) |-> [chain[i] EXCEPT !.id = Append(@, by)]]
            \o node

\* cframe_on: the CFrame of the call on its base.
Node(f) == <<[clo |-> Clo(f.lc, f.env), id |-> <<0, f.id>>]>> \o f.base

Current == IF frames = <<>> THEN 0 ELSE Last(frames).id

\* Fault: the continuations made in the call keep the CChain they have.
HandOverNothing(c, f, parent) ==
    [c EXCEPT !.conts =
        [k \in DOMAIN @ |-> IF k \in f.conts THEN [@[k] EXCEPT !.owner = parent] ELSE @[k]]]

\* The end of a Rust call for its continuations: they get its CFrame and
\* belong to the Rust call around it.  (The code skips one that no value
\* refers to any more: nothing can tell.)
HandOver(c, f, parent) ==
    [c EXCEPT !.conts =
        [k \in DOMAIN @ |->
            IF k \in f.conts
            THEN [chain |-> Splice(@[k].chain, f.base, Node(f), k), owner |-> parent]
            ELSE @[k]]]

\* Fault: the Rust call around it does not learn of them.
PoppedAlone == Front(frames)

Popped ==
    LET f == Last(frames)
        rest == Front(frames)
        n == Len(rest)
    IN  IF n = 0 THEN rest ELSE [rest EXCEPT ![n].conts = @ \cup f.conts]

Parent == IF Len(frames) > 1 THEN frames[Len(frames) - 1].id ELSE 0

(***************************************************************************)
(* Values go to the LCont Function lc of a Body run in env                 *)
(***************************************************************************)
PassResults(c, env, lc) ==
    IF lc = "none" THEN <<c, Apply>>
    ELSE IF code[lc].variadic \/ Len(c.olist) # code[lc].params
         THEN <<[c EXCEPT !.op = Clo(lc, env)], Apply>>
         ELSE <<[c EXCEPT !.olist = <<>>], Enter(lc, Bind(env, c.olist))>>

\* fused_return and finish_return: values for the Rust call that is running
\* go back to it at once.
ToCaller(c) ==
    IF frames # <<>> /\ SameChain(c.chain, Last(frames).base) THEN Return ELSE Apply

Goes(r) == cfg' = r[1] /\ next' = r[2]

Machine == <<prog, steps>>

(***************************************************************************)
(* The helpers of the transpiled code of one Body                          *)
(***************************************************************************)
Entered(f) == next.n = "enter" /\ next.f = f

PrimOf(b) == IF b.op.x = "C" /\ b.op.v.t = "prim" THEN b.op.v.p ELSE "none"

IsVariable(e) == e.x = "L" \/ (e.x = "C" /\ e.v.t = "clo")

IsThunk(e) == e.x = "F" /\ code[e.f].params = 0 /\ ~code[e.f].variadic

Direct == {"is_null", "divide"}
Chain == {"put", "lookup"}
Pure == {"is_null"}
Ifs == {"choose", "if", "unless"}
Safe == Direct \cup Chain \cup Ifs \cup {"cont_get"}

HasCode(f) == f \in DOMAIN code \ DOMAIN Builtin /\ ~code[f].bare

Helper(b) ==
    LET p == PrimOf(b) IN
    CASE b.op = Const(Null) -> "null_pass"
      [] IsVariable(b.op) -> "call"
      [] p \in Ifs /\ Len(b.args) = Arity[p] -> "if_call"
      [] p = "cont_get" /\ b.lc # "none" /\ b.args = <<>> -> "cont_get"
      [] p \in Direct /\ Len(b.args) = Arity[p] -> "finish"
      [] p \in Chain -> "prim_call"
      [] OTHER -> "deopt"

Body == code[next.f]

Cleared == [cfg EXCEPT !.op = Null, !.lcont = None, !.olist = <<>>]

DeoptTo(c) == Goes(<<LoadBody(code, c, next.f, next.env), Apply>>)

Deopt ==
    /\ next.n = "enter"
    /\ ~HasCode(next.f) \/ Helper(Body) = "deopt"
    /\ DeoptTo(cfg)
    /\ UNCHANGED <<Machine, frames, ids, budget>>

Runs(helper) == next.n = "enter" /\ HasCode(next.f) /\ Helper(Body) = helper

NullPass ==
    /\ Runs("null_pass")
    /\ LET c == [Cleared EXCEPT !.olist = Evals(Body.args, next.env)]
           r == PassResults(c, next.env, Body.lc)
       IN  \/ Goes(r)
           \/ Body.lc = "none" /\ Goes(<<c, ToCaller(c)>>)
    /\ UNCHANGED <<Machine, frames, ids, budget>>

\* A primitive that failed ends the VProc.
Fails(c) == Goes(<<c, Err>>)

\* prim_call: the primitive runs with a mark as the LCont, the real one is
\* put back if the primitive applies a value (onMissing).
Mark == Null

PrimCall ==
    /\ Runs("prim_call")
    /\ LET c == PrimStep([Cleared EXCEPT !.olist = Evals(Body.args, next.env), !.lcont = Mark],
                         PrimOf(Body))
           real == IF Body.lc = "none" THEN None ELSE Clo(Body.lc, next.env)
       IN  IF c.op = Broken THEN Fails(c)
           ELSE IF c.op = Null /\ c.lcont = None THEN Goes(PassResults(c, next.env, Body.lc))
           ELSE Goes(<<[c EXCEPT !.lcont = IF @ = Mark THEN real ELSE @], Apply>>)
    /\ UNCHANGED <<Machine, frames, ids, budget>>

\* finish: a direct call of a primitive gives results, or a Closure to apply
\* to one value with the LCont.
Finish ==
    /\ Runs("finish")
    /\ LET c == PrimStep([Cleared EXCEPT !.olist = Evals(Body.args, next.env)], PrimOf(Body))
           real == IF Body.lc = "none" THEN None ELSE Clo(Body.lc, next.env)
       IN  \/ c.op = Broken /\ Fails(c)
           \/ c.op = Null /\ Goes(PassResults(c, next.env, Body.lc))
           \/ c.op = Null /\ Body.lc = "none" /\ Goes(<<c, ToCaller(c)>>)
           \/ c.op \notin {Broken, Null} /\ Goes(<<[c EXCEPT !.lcont = real], Apply>>)
    /\ UNCHANGED <<Machine, frames, ids, budget>>

\* make_cont: recorded in the innermost Rust call.
MakeCont(c) == NewCont(c, c.chain, Current)

Recorded(c) ==
    IF frames = <<>> THEN frames
    ELSE [frames EXCEPT ![Len(frames)].conts = @ \cup {Len(c.conts)}]

GetCont ==
    /\ Runs("cont_get")
    /\ LET m == MakeCont(Cleared)
       IN  /\ Goes(PassResults([m[1] EXCEPT !.olist = <<m[2]>>], next.env, Body.lc))
           /\ frames' = Recorded(m[1])
    /\ UNCHANGED <<Machine, ids, budget>>

\* rust_call and the calls as the VM makes them: Function f in env with the
\* LCont Function lc in lenv.
CallOf(f, env, lc, lenv, ok) ==
    IF lc # "none" /\ ok /\ Len(frames) < MaxDepth
    THEN /\ Goes(<<Cleared, Enter(f, env)>>)
         /\ ids' = ids + 1
         /\ frames' = Append(frames, [id |-> ids + 1, base |-> cfg.chain, conts |-> {},
                                      lc |-> lc, env |-> lenv])
    ELSE /\ Goes(<<IF lc = "none" THEN Cleared ELSE Push(Cleared, Clo(lc, lenv)), Enter(f, env)>>)
         /\ UNCHANGED <<ids, frames>>

\* A Closure of the module with as many parameters as operands.
Callable(v, n) ==
    /\ v.t = "clo"
    /\ ~code[v.f].variadic
    /\ code[v.f].params - v.skip = n
    /\ v.f \notin DOMAIN Builtin

Call ==
    /\ Runs("call")
    /\ LET f == Eval(Body.op, next.env)
           args == Evals(Body.args, next.env)
       IN  IF Callable(f, Len(args)) /\ budget > 0
           THEN /\ budget' = budget - 1
                /\ \E ok \in BOOLEAN :
                       CallOf(f.f, Bind(f.env, args), Body.lc, next.env, ok)
           ELSE DeoptTo(cfg) /\ UNCHANGED <<frames, ids, budget>>
    /\ UNCHANGED Machine

\* fused_call and fused_tail_call, where they do not make a Rust call: the
\* CFrame goes to the CChain before the Closure is applied.
FusedCall ==
    /\ Runs("call")
    /\ LET c == IF Body.lc = "none" THEN Cleared ELSE Push(Cleared, Clo(Body.lc, next.env))
       IN  Goes(<<[c EXCEPT !.op = Eval(Body.op, next.env),
                            !.olist = Evals(Body.args, next.env)], Apply>>)
    /\ UNCHANGED <<Machine, frames, ids, budget>>

Condition(e, env) ==
    IF IsThunk(e) /\ PrimOf(code[e.f]) \in Pure /\ code[e.f].lc = "none"
    THEN PrimStep([Cleared EXCEPT !.olist = Evals(code[e.f].args, env)],
                  PrimOf(code[e.f])).olist[1]
    ELSE Eval(e, env)

ClauseOf(b, bool) ==
    LET p == PrimOf(b) IN
    CASE p = "choose" -> IF bool THEN b.args[2] ELSE b.args[3]
      [] p = "if" -> IF bool THEN b.args[2] ELSE Const(Nop)
      [] p = "unless" -> IF bool THEN Const(Nop) ELSE b.args[2]

IfCall ==
    /\ Runs("if_call")
    /\ LET bool == Condition(Body.args[1], next.env)
           clause == ClauseOf(Body, bool.f = "true")
       IN  IF ~IsBool(bool) THEN DeoptTo(cfg) /\ UNCHANGED <<frames, ids>>
           ELSE IF IsThunk(clause)
           THEN \E ok \in BOOLEAN : CallOf(clause.f, next.env, Body.lc, next.env, ok)
           ELSE IF Eval(clause, next.env) = Nop
           THEN Goes(PassResults(Cleared, next.env, Body.lc)) /\ UNCHANGED <<frames, ids>>
           ELSE DeoptTo(cfg) /\ UNCHANGED <<frames, ids>>
    /\ UNCHANGED <<Machine, budget>>

(***************************************************************************)
(* apply: the next step of the VM, if it is one of these                   *)
(***************************************************************************)
\* Fault: a call that leaves nothing behind it does not count.
AppliesFree ==
    /\ next = Apply /\ budget > 0
    /\ budget' = IF cfg.op.t = "clo" /\ code[cfg.op.f].lc = "none" THEN budget ELSE budget - 1
    /\ UNCHANGED Machine

Applies == next = Apply /\ budget > 0 /\ budget' = budget - 1 /\ UNCHANGED Machine

\* The VM does that step: out of the Rust calls first.
NotHere == next' = (IF frames = <<>> THEN Vm ELSE Leave) /\ UNCHANGED <<cfg, frames, ids>>

NoBudget ==
    /\ next = Apply /\ budget = 0
    /\ NotHere
    /\ UNCHANGED <<Machine, budget>>

AtBase(c) == frames # <<>> /\ SameChain(c.chain, Last(frames).base)

OnNull ==
    /\ Applies /\ cfg.op = Null
    /\ IF cfg.lcont = None /\ AtBase(cfg)
       THEN next' = Return /\ UNCHANGED <<cfg, frames, ids>>
       ELSE IF cfg.lcont = None /\ cfg.chain = <<>> THEN NotHere
       ELSE Goes(<<ApplyNull(cfg), Apply>>) /\ UNCHANGED <<frames, ids>>

OnClosure ==
    /\ Applies /\ cfg.op.t = "clo"
    /\ IF Callable(cfg.op, Len(cfg.olist))
       THEN /\ Goes(<<[PushLCont(cfg) EXCEPT !.op = Null, !.olist = <<>>],
                      Enter(cfg.op.f, Bind(cfg.op.env, cfg.olist))>>)
            /\ UNCHANGED <<frames, ids>>
       ELSE IF IsBool(cfg.op) /\ Len(cfg.olist) = 2
       THEN /\ Goes(<<[cfg EXCEPT !.op = Null,
                                  !.olist = <<@[IF cfg.op.f = "true" THEN 1 ELSE 2]>>], Apply>>)
            /\ UNCHANGED <<frames, ids>>
       ELSE NotHere

OnCont ==
    /\ Applies /\ cfg.op.t = "cont"
    /\ LET k == cfg.conts[cfg.op.k]
           ends == k.chain = <<>> /\ ~(frames # <<>> /\ Last(frames).base = <<>>)
       IN  IF k.owner # Current /\ frames # <<>>
           THEN /\ next' = (IF k.owner # 0 /\ \E i \in DOMAIN frames : frames[i].id = k.owner
                            THEN Escape ELSE Leave)
                /\ UNCHANGED cfg
           ELSE Goes(<<[cfg EXCEPT !.lcont = None, !.op = Null, !.chain = k.chain,
                                   !.olist = IF ends THEN <<>> ELSE @], Apply>>)
    /\ UNCHANGED <<frames, ids>>

OnPrim ==
    /\ Applies /\ cfg.op.t = "prim"
    /\ UNCHANGED ids
    /\ LET p == cfg.op.p
           m == MakeCont([cfg EXCEPT !.op = cfg.lcont, !.lcont = None])
           c == PrimStep(cfg, p)
       IN  IF p \notin Safe THEN NotHere
           ELSE IF p = "cont_get" /\ cfg.lcont # None
           THEN Goes(<<[m[1] EXCEPT !.olist = <<m[2]>>], Apply>>) /\ frames' = Recorded(m[1])
           ELSE IF p = "cont_get" /\ frames # <<>> THEN NotHere
           ELSE Goes(<<c, IF c.op = Broken THEN Err ELSE Apply>>) /\ UNCHANGED frames

OnOther == Applies /\ cfg.op.t \notin {"null", "clo", "cont", "prim"} /\ NotHere

(***************************************************************************)
(* drive and frame_run: the end of a Rust call                             *)
(***************************************************************************)
Returns ==
    /\ next = Return
    /\ LET f == Last(frames)
           c == HandOver([cfg EXCEPT !.op = Null, !.lcont = None], f, Parent)
       IN  Goes(PassResults(c, f.env, f.lc))
    /\ frames' = Popped
    /\ UNCHANGED <<Machine, ids, budget>>

Leaves ==
    /\ next = Leave
    /\ IF frames = <<>> THEN next' = Apply /\ UNCHANGED <<cfg, frames>>
       ELSE /\ LET f == Last(frames)
                   c == [cfg EXCEPT !.chain = Splice(@, f.base, Node(f), 0)]
               IN  cfg' = HandOver(c, f, Parent)
            /\ frames' = Popped
            /\ UNCHANGED next
    /\ UNCHANGED <<Machine, ids, budget>>

Escapes ==
    /\ next = Escape
    /\ IF frames # <<>> /\ cfg.conts[cfg.op.k].owner # Current
       THEN /\ cfg' = HandOver(cfg, Last(frames), Parent)
            /\ frames' = Popped
            /\ UNCHANGED next
       ELSE next' = Apply /\ UNCHANGED <<cfg, frames>>
    /\ UNCHANGED <<Machine, ids, budget>>

\* An error goes through every Rust call: the continuations may be held by
\* others than the VProc that ends.
Errs ==
    /\ next = Err
    /\ IF frames = <<>> THEN next' = Vm /\ UNCHANGED <<cfg, frames>>
       ELSE /\ cfg' = HandOver(cfg, Last(frames), Parent)
            /\ frames' = Popped
            /\ UNCHANGED next
    /\ UNCHANGED <<Machine, ids, budget>>

(***************************************************************************)
(* A step of the VM; load_body runs the transpiled code of a Function that *)
(* has some.                                                               *)
(***************************************************************************)
VmStep ==
    /\ next = Vm /\ ~Stopped(cfg) /\ steps < Steps
    /\ LET s == StepTo(code, cfg)
       IN  IF s.f # "none" /\ HasCode(s.f)
           THEN /\ Goes(<<[s.cfg EXCEPT !.op = Null], Enter(s.f, s.env)>>)
                /\ budget' = Budget
           ELSE /\ Goes(<<IF s.f = "none" THEN s.cfg ELSE LoadBody(code, s.cfg, s.f, s.env), Vm>>)
                /\ UNCHANGED budget
    /\ steps' = steps + 1
    /\ UNCHANGED <<prog, frames, ids>>

Init ==
    /\ prog \in Programs
    /\ cfg = Registers(Clo("main", <<>>), <<>>)
    /\ next = Vm
    /\ frames = <<>>
    /\ ids = 0
    /\ budget = 0
    /\ steps = 0

Next ==
    \/ VmStep
    \/ Deopt \/ NullPass \/ PrimCall \/ Finish \/ GetCont \/ Call \/ FusedCall \/ IfCall
    \/ NoBudget \/ OnNull \/ OnClosure \/ OnCont \/ OnPrim \/ OnOther
    \/ Returns \/ Leaves \/ Escapes \/ Errs

Spec == Init /\ [][Next]_vars

FairSpec == Spec /\ WF_vars(Next)

(***************************************************************************)
(* What must hold of the Rust calls                                        *)
(***************************************************************************)
\* The registers and values that exist between two steps of the VM hold no
\* trace of Rust calls: none is running, and every continuation has its whole
\* CChain (owner 0).  While some run, the CChain of the VProc and of every
\* continuation made in them ends with the base of the innermost one it
\* belongs to, which ends with the bases of those around it: else a splice
\* would lose CFrames (the debug_assert of splice).
CallsNest ==
    /\ next = Vm => frames = <<>>
    /\ \A k \in DOMAIN cfg.conts :
          LET o == cfg.conts[k].owner IN
          o # 0 => \E i \in DOMAIN frames : /\ frames[i].id = o
                                            /\ k \in frames[i].conts
                                            /\ EndsWith(cfg.conts[k].chain, frames[i].base)
    /\ \A i \in 2..Len(frames) : EndsWith(frames[i].base, frames[i - 1].base)
    /\ next # Err /\ frames # <<>> => EndsWith(cfg.chain, Last(frames).base)

\* A run of transpiled code hands the VProc back to the VM, also a program
\* that loops: the other VProcs run (BUDGET).
Yields == (next # Vm) ~> (next = Vm)
=============================================================================
