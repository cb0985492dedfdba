---------------------------- MODULE TranspiledVm ----------------------------
(***************************************************************************)
(* The VProc of Transpiled as the VM alone would have it, and the theorem  *)
(* of src/vm/src/transpiled.rs:23-25 as a property.  A module of its own:  *)
(* values hold continuations, which hold values, so the mapping recurs.    *)
(***************************************************************************)
EXTENDS Transpiled

CONSTANT Longest        \* see Vm

ASSUME LongestAssumption == Longest \in Nat

(***************************************************************************)
(* What transpiled code promises                                           *)
(***************************************************************************)
\* The registers as the VM would have them: each Rust call's CFrame in its
\* place, continuations with all of their CChain.  A continuation as the
\* Operator is applied at once: the Rust calls it escapes from are left
\* without putting their CFrames into the CChain it replaces.
Plain == INSTANCE VmStep WITH Named <- FALSE

RECURSIVE Full(_, _)
Full(chain, n) ==
    IF n = 0 THEN chain ELSE Full(Splice(chain, frames[n].base, Node(frames[n]), 0), n - 1)

Depth(owner) == CHOOSE n \in 0..Len(frames) : (IF n = 0 THEN 0 ELSE frames[n].id) = owner

\* (A set of one element binds its value: TLC evaluates it once.)
RECURSIVE Seen(_), SeenAll(_), SeenChain(_, _)
Seen(v) ==
    CASE v.t = "clo" -> [v EXCEPT !.env = SeenAll(@)]
      [] v.t = "seq" -> [v EXCEPT !.olist = SeenAll(@)]
      [] v.t = "cframe" -> [v EXCEPT !.clo = Seen(@)]
      [] v.t = "chain" -> [v EXCEPT !.chain = SeenChain(@, 0)]
      [] v.t = "cont" ->
            [t |-> "cont", chain |-> SeenChain(cfg.conts[v.k].chain, Depth(cfg.conts[v.k].owner))]
      [] OTHER -> v
SeenAll(vs) == <<>> \o [i \in DOMAIN vs |-> CHOOSE w \in {Seen(v) : v \in {vs[i]}} : TRUE]
SeenChain(chain, n) ==
    CHOOSE s \in {<<>> \o [i \in DOMAIN full |->
                              [clo |-> CHOOSE w \in {Seen(v) : v \in {full[i].clo}} : TRUE,
                               id |-> <<>>]] : full \in {Full(chain, n)}} : TRUE

\* A continuation as the Operator, applied.
Resumed(c) ==
    IF c.op.t # "cont" THEN c
    ELSE IF c.op.chain = <<>>
    THEN [c EXCEPT !.op = Null, !.olist = <<>>, !.lcont = None, !.chain = <<>>]
    ELSE [c EXCEPT !.op = Head(c.op.chain).clo, !.lcont = None, !.chain = Tail(c.op.chain)]

SeenRegisters(c) ==
    [op |-> Seen(c.op), olist |-> SeenAll(c.olist), lcont |-> Seen(c.lcont),
     chain |-> SeenChain(c.chain, IF next = Err THEN 0 ELSE Len(frames)), pdict |-> Seen(c.pdict),
     fresh |-> 0, conts |-> <<>>]

AsVm ==
    CHOOSE r \in
        {Plain!Settled(Resumed(c)) :
            c \in {SeenRegisters(now) :
                now \in {IF next.n = "enter" THEN LoadBody(code, cfg, next.f, next.env) ELSE cfg}}}
        : TRUE

TheVm == INSTANCE Vm WITH cfg <- AsVm

\* "So the results are those of the VM" (transpiled.rs:23-25): whatever mix of
\* Rust calls, pushed CFrames, escapes and handing back to the VM a run
\* takes, each of its states is one the VM reaches, in the VM's order.
Promise == TheVm!Spec
=============================================================================
