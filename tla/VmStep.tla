------------------------------ MODULE VmStep --------------------------------
(***************************************************************************)
(* One step of a VProc of the Rust VM: src/vm/src/step.rs, the registers   *)
(* of vproc.rs and the primitives of prim/cchain.rs, prim/control.rs and   *)
(* others that tell apart the ways a Body can go on.                       *)
(*                                                                         *)
(* Values are records with a tag `t'.  A CChain is a sequence of CFrames,  *)
(* the top first.  With Named, the cells of a CChain have identities (what *)
(* Rc::ptr_eq compares) and a continuation is the name of an object of the *)
(* table `conts', whose CChain and owner may change; without it, cells     *)
(* have none and a continuation holds its CChain.                          *)
(***************************************************************************)
EXTENDS Integers, Sequences

CONSTANT Named

Null == [t |-> "null"]
None == [t |-> "none"]
Broken == [t |-> "error"]
Atom(a) == [t |-> "atom", a |-> a]
Prim(p) == [t |-> "prim", p |-> p]
Clo(f, env) == [t |-> "clo", f |-> f, skip |-> 0, env |-> env]
Bool(b) == Clo(IF b THEN "true" ELSE "false", <<>>)
Nop == Clo("nop", <<>>)
Select == Clo("select", <<>>)

Local(i) == [x |-> "L", i |-> i]
Const(v) == [x |-> "C", v |-> v]
Func(f) == [x |-> "F", f |-> f]

Fn(params, op, args, lc) ==
    [params |-> params, variadic |-> FALSE, op |-> op, args |-> args, lc |-> lc]

\* The Closures the machine makes itself: they belong to no module.
Builtin == [true   |-> Fn(2, Const(Null), <<Local(1)>>, "none"),
            false  |-> Fn(2, Const(Null), <<Local(0)>>, "none"),
            nop    |-> Fn(0, Const(Null), <<>>, "none"),
            select |-> Fn(1, Local(0), <<>>, "none")]

Registers(op, olist) ==
    [op |-> op, olist |-> olist, lcont |-> None, chain |-> <<>>, pdict |-> None,
     fresh |-> 0, conts |-> <<>>]

Terminal(c) == c.op = Null /\ c.lcont = None /\ c.chain = <<>>

Stopped(c) == Terminal(c) \/ c.op = Broken


Eval(e, env) ==
    CASE e.x = "L" -> env[e.i + 1]
      [] e.x = "C" -> e.v
      [] e.x = "F" -> Clo(e.f, env)

Evals(es, env) == [i \in DOMAIN es |-> Eval(es[i], env)]

\* lv_push of each value in turn: the last one is the innermost variable.
Bind(env, vs) == [i \in DOMAIN vs |-> vs[Len(vs) + 1 - i]] \o env

LoadBody(code, c, f, env) ==
    [c EXCEPT !.op = Eval(code[f].op, env),
              !.olist = Evals(code[f].args, env),
              !.lcont = IF code[f].lc = "none" THEN None ELSE Clo(code[f].lc, env)]

Push(c, v) ==
    [c EXCEPT !.chain = <<[clo |-> v, id |-> IF Named THEN <<c.fresh + 1>> ELSE <<>>]>> \o @,
              !.fresh = IF Named THEN @ + 1 ELSE @]

PushLCont(c) == IF c.lcont = None THEN c ELSE [Push(c, c.lcont) EXCEPT !.lcont = None]

PopInto(c) == [c EXCEPT !.op = Head(c.chain).clo, !.chain = Tail(@)]

\* The VProc ends with an error: its registers are no longer used.
Fail(c) == [c EXCEPT !.op = Broken, !.olist = <<>>, !.lcont = None, !.chain = <<>>, !.pdict = None]

PrimReturn(c, results) ==
    [c EXCEPT !.op = IF c.lcont = None THEN Null ELSE c.lcont,
              !.lcont = None,
              !.olist = results]

\* A new continuation with this CChain, made in the Rust call `owner'.
NewCont(c, chain, owner) ==
    IF Named
    THEN <<[c EXCEPT !.conts = Append(@, [chain |-> chain, owner |-> owner])],
           [t |-> "cont", k |-> Len(c.conts) + 1]>>
    ELSE <<c, [t |-> "cont", chain |-> chain]>>

ChainOf(c, k) == IF Named THEN c.conts[k.k].chain ELSE k.chain

IsBool(v) == v.t = "clo" /\ v.f \in {"true", "false"} /\ v.skip = 0

(***************************************************************************)
(* The primitives.  "divide" stands for those with an onError, "suspend"   *)
(* for those that need the scheduler.                                      *)
(***************************************************************************)
Choose(c, boolean, then, els) ==
    LET clause == IF boolean.f = "true" THEN then ELSE els IN
    IF IsBool(boolean)
    THEN IF clause = Nop THEN PrimReturn(c, <<>>)
         ELSE [c EXCEPT !.op = clause, !.olist = <<>>]
    ELSE [PushLCont(c) EXCEPT !.op = boolean, !.olist = <<then, els>>, !.lcont = Select]

ContGet(c) ==
    LET d == IF c.lcont = None THEN PopInto(c) ELSE [c EXCEPT !.op = c.lcont]
        new == NewCont(d, d.chain, 0)
    IN  IF c.lcont = None /\ c.chain = <<>> THEN Fail(c)
        ELSE [new[1] EXCEPT !.lcont = None, !.olist = <<new[2]>>]

CChainSet(c, chain) ==
    IF chain.t = "chain"
    THEN [PrimReturn(c, <<>>) EXCEPT !.chain = chain.chain]
    ELSE Fail(c)

PushFrame(c, frame) ==
    IF frame.t = "cframe" THEN PrimReturn(Push(c, frame.clo), <<>>) ELSE Fail(c)

PopFrame(c) ==
    IF c.chain = <<>> THEN PrimReturn(c, <<Null>>)
    ELSE [PrimReturn(c, <<[t |-> "cframe", clo |-> Head(c.chain).clo]>>)
             EXCEPT !.chain = Tail(@)]

Divide(c, onError, x) ==
    IF x.t # "atom" THEN Fail(c)
    ELSE IF x.a = "zero" THEN [c EXCEPT !.op = onError, !.olist = <<Atom("error")>>]
    ELSE PrimReturn(c, <<x>>)

LookupOr(c, onMissing) ==
    IF c.pdict = None THEN [c EXCEPT !.op = onMissing, !.olist = <<Atom("key")>>]
    ELSE PrimReturn(c, <<c.pdict>>)

Arity == [is_null |-> 1, divide |-> 2, put |-> 1, lookup |-> 1, choose |-> 3,
          if |-> 2, unless |-> 2, cont_get |-> 0, chain_get |-> 0, chain_set |-> 1,
          push |-> 1, pop |-> 0, suspend |-> 0]

PrimStep(c, p) ==
    LET a == c.olist IN
    IF Len(a) < Arity[p] THEN Fail(c)
    ELSE CASE p = "is_null"   -> PrimReturn(c, <<Bool(a[1] = Null)>>)
           [] p = "divide"    -> Divide(c, a[1], a[2])
           [] p = "put"       -> PrimReturn([c EXCEPT !.pdict = a[1]], <<>>)
           [] p = "lookup"    -> LookupOr(c, a[1])
           [] p = "choose"    -> Choose(c, a[1], a[2], a[3])
           [] p = "if"        -> Choose(c, a[1], a[2], Nop)
           [] p = "unless"    -> Choose(c, a[1], Nop, a[2])
           [] p = "cont_get"  -> ContGet(c)
           [] p = "chain_get" -> PrimReturn(c, <<[t |-> "chain", chain |-> c.chain]>>)
           [] p = "chain_set" -> CChainSet(c, a[1])
           [] p = "push"      -> PushFrame(c, a[1])
           [] p = "pop"       -> PopFrame(c)
           [] p = "suspend"   -> PrimReturn(c, <<>>)

(***************************************************************************)
(* The step.  Applying a Closure may end in loading a Body, which          *)
(* transpiled code does instead of the VM: [cfg, f, env] with f = "none"   *)
(* when nothing is loaded.                                                 *)
(***************************************************************************)
Done(c) == [cfg |-> c, f |-> "none", env |-> <<>>]

ApplyClosure(code, c, v) ==
    LET fn == code[v.f]
        params == fn.params - v.skip
        d == PushLCont(c)
        n == IF params < Len(c.olist) THEN params ELSE Len(c.olist)
        seq == [t |-> "seq", olist |-> c.olist]
    IN  CASE fn.variadic ->
                [cfg |-> [d EXCEPT !.olist = <<>>], f |-> v.f, env |-> Bind(v.env, <<seq>>)]
          [] ~fn.variadic /\ params = 0 ->
                [cfg |-> [(IF c.olist = <<>> THEN d ELSE Push(d, seq)) EXCEPT !.olist = <<>>],
                 f |-> v.f, env |-> v.env]
          [] ~fn.variadic /\ params > 0 /\ n > 0 ->
                Done([c EXCEPT !.op = [v EXCEPT !.skip = @ + n,
                                                !.env = Bind(@, SubSeq(c.olist, 1, n))],
                               !.olist = SubSeq(@, n + 1, Len(@))])
          [] ~fn.variadic /\ params > 0 /\ n = 0 ->
                Done(IF c.lcont # None
                     THEN [c EXCEPT !.op = c.lcont, !.lcont = None, !.olist = <<v>>]
                     ELSE IF c.chain # <<>> THEN [PopInto(c) EXCEPT !.olist = <<v>>]
                     ELSE Fail(c))

ApplyNull(c) ==
    IF c.lcont # None THEN [c EXCEPT !.op = c.lcont, !.lcont = None]
    ELSE IF c.chain # <<>> THEN PopInto(c)
    ELSE Fail(c)

ApplySeq(c, seq) ==
    IF c.olist # <<>> THEN [c EXCEPT !.op = Head(c.olist), !.olist = seq.olist]
    ELSE IF c.chain # <<>> THEN [PopInto(c) EXCEPT !.olist = seq.olist]
    ELSE Fail(c)

ApplyCont(c, k) ==
    LET d == [c EXCEPT !.lcont = None, !.chain = ChainOf(c, k)] IN
    IF d.chain = <<>> THEN [d EXCEPT !.op = Null, !.olist = <<>>] ELSE PopInto(d)

StepTo(code, c) ==
    CASE c.op.t = "null" -> Done(ApplyNull(c))
      [] c.op.t = "seq"  -> Done(ApplySeq(c, c.op))
      [] c.op.t = "prim" -> Done(PrimStep(c, c.op.p))
      [] c.op.t = "cont" -> Done(ApplyCont(c, c.op))
      [] c.op.t = "clo"  -> ApplyClosure(code, c, c.op)
      [] OTHER           -> Done(Fail(c))

Step(code, c) ==
    LET s == StepTo(code, c)
    IN  IF s.f = "none" THEN s.cfg ELSE LoadBody(code, s.cfg, s.f, s.env)

(***************************************************************************)
(* The LCont register and the top of the CChain are the same to all but    *)
(* the primitives that look at the CChain and a Seq: what they apply or    *)
(* return goes to the LCont first, then to the top CFrame.  Settled is a   *)
(* VProc with its values passed on and the LCont on top of the CChain.     *)
(***************************************************************************)
LooksAtChain(v) ==
    v.t = "seq" \/ (v.t = "prim" /\ v.p \in {"chain_get", "chain_set", "push", "pop"})

Settled(c) ==
    LET d == IF c.op = Null /\ ~Terminal(c) THEN ApplyNull(c) ELSE c
    IN  IF LooksAtChain(d.op) THEN d ELSE PushLCont(d)
=============================================================================
