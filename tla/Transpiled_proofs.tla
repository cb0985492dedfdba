------------------------- MODULE Transpiled_proofs -------------------------
(***************************************************************************)
(* Rust calls nest, for every program and every mix of Rust calls and      *)
(* pushed CFrames (CallsNestRight).                                        *)
(*                                                                         *)
(* Two invariants: the registers hold values of the VM (Typed), so that a  *)
(* CChain is a list of cells wherever it comes from; and NestInv.          *)
(***************************************************************************)
EXTENDS Transpiled, TLAPS

----------------------------------------------------------------------------
(***************************************************************************)
(* CChains.                                                                *)
(***************************************************************************)
LEMMA Same ==
  ASSUME NEW S, NEW a \in Seq(S), NEW b \in Seq(S)
  PROVE  SameChain(a, b) <=> Len(a) = Len(b) /\ \A i \in 1 .. Len(a) : a[i].id = b[i].id
<1>1. DOMAIN a = 1 .. Len(a) /\ DOMAIN b = 1 .. Len(b) /\ Len(a) \in Nat /\ Len(b) \in Nat
  OBVIOUS
<1>2. ASSUME SameChain(a, b) PROVE Len(a) = Len(b) /\ \A i \in 1 .. Len(a) : a[i].id = b[i].id
  <2>1. Ids(a) = Ids(b) /\ DOMAIN Ids(a) = DOMAIN a /\ DOMAIN Ids(b) = DOMAIN b
    BY <1>2 DEF SameChain, Ids
  <2>2. Len(a) = Len(b)
    <3>1. 1 .. Len(a) = 1 .. Len(b)
      BY <1>1, <2>1
    <3>2. \A i \in Nat : i \in 1 .. Len(a) <=> i \in 1 .. Len(b)
      BY <3>1
    <3>3. Len(a) \in Nat /\ Len(b) \in Nat
      OBVIOUS
    <3>4. Len(a) <= Len(b)
      BY <3>2, <3>3
    <3>5. Len(b) <= Len(a)
      BY <3>2, <3>3
    <3> QED BY <3>3, <3>4, <3>5
  <2>3. ASSUME NEW i \in 1 .. Len(a) PROVE a[i].id = b[i].id
    <3>1. Ids(a)[i] = a[i].id /\ Ids(b)[i] = b[i].id
      BY <1>1, <2>2 DEF Ids
    <3> QED BY <2>1, <3>1
  <2> QED BY <2>2, <2>3
<1>3. ASSUME Len(a) = Len(b), \A i \in 1 .. Len(a) : a[i].id = b[i].id PROVE SameChain(a, b)
  BY <1>1, <1>3 DEF SameChain, Ids
<1> QED BY <1>2, <1>3

\* The cells of base are the last of chain.
LEMMA Ends ==
  ASSUME NEW S, NEW chain \in Seq(S), NEW base \in Seq(S)
  PROVE  EndsWith(chain, base) <=>
           /\ Len(base) <= Len(chain)
           /\ \A i \in 1 .. Len(base) : chain[Len(chain) - Len(base) + i].id = base[i].id
<1> DEFINE m == Len(chain)
           n == Len(base)
           part == SubSeq(chain, m - n + 1, m)
<1>1. m \in Nat /\ n \in Nat
  OBVIOUS
<1>2. ASSUME n <= m
      PROVE  /\ part \in Seq(S) /\ Len(part) = n
             /\ \A i \in 1 .. n : part[i] = chain[m - n + i]
  BY <1>1, <1>2
<1>3. ASSUME n <= m
      PROVE  SameChain(part, base) <=> \A i \in 1 .. n : chain[m - n + i].id = base[i].id
  <2>1. SameChain(part, base) <=> Len(part) = n /\ \A i \in 1 .. Len(part) : part[i].id = base[i].id
    BY <1>2, <1>3, Same
  <2> QED BY <1>2, <1>3, <2>1
<1> QED BY <1>1, <1>3 DEF EndsWith

LEMMA EndsSelf ==
  ASSUME NEW S, NEW a \in Seq(S)
  PROVE  EndsWith(a, a)
<1>1. Len(a) \in Nat
  OBVIOUS
<1>2. \A i \in 1 .. Len(a) : Len(a) - Len(a) + i = i
  BY <1>1
<1> QED BY <1>1, <1>2, Ends

LEMMA EndsTwice ==
  ASSUME NEW S, NEW a \in Seq(S), NEW b \in Seq(S), NEW c \in Seq(S),
         EndsWith(a, b), EndsWith(b, c)
  PROVE  EndsWith(a, c)
<1>1. Len(a) \in Nat /\ Len(b) \in Nat /\ Len(c) \in Nat
  OBVIOUS
<1>2. /\ Len(b) <= Len(a)
      /\ \A i \in 1 .. Len(b) : a[Len(a) - Len(b) + i].id = b[i].id
  BY Ends
<1>3. /\ Len(c) <= Len(b)
      /\ \A i \in 1 .. Len(c) : b[Len(b) - Len(c) + i].id = c[i].id
  BY Ends
<1>4. ASSUME NEW i \in 1 .. Len(c) PROVE a[Len(a) - Len(c) + i].id = c[i].id
  <2> DEFINE j == Len(b) - Len(c) + i
  <2>1. j \in 1 .. Len(b) /\ Len(a) - Len(b) + j = Len(a) - Len(c) + i
    BY <1>1, <1>3
  <2> QED BY <1>2, <1>3, <2>1
<1> QED BY <1>1, <1>2, <1>3, <1>4, Ends

LEMMA EndsPush ==
  ASSUME NEW S, NEW a \in Seq(S), NEW b \in Seq(S), NEW x \in S, EndsWith(a, b)
  PROVE  <<x>> \o a \in Seq(S) /\ EndsWith(<<x>> \o a, b)
<1> DEFINE l == <<x>> \o a
<1>1. Len(a) \in Nat /\ Len(b) \in Nat
  OBVIOUS
<1>2. l \in Seq(S) /\ Len(l) = Len(a) + 1 /\ \A i \in 1 .. Len(a) : l[i + 1] = a[i]
  OBVIOUS
<1>3. /\ Len(b) <= Len(a)
      /\ \A i \in 1 .. Len(b) : a[Len(a) - Len(b) + i].id = b[i].id
  BY Ends
<1>4. ASSUME NEW i \in 1 .. Len(b) PROVE l[Len(l) - Len(b) + i].id = b[i].id
  <2>1. Len(a) - Len(b) + i \in 1 .. Len(a) /\ Len(l) - Len(b) + i = (Len(a) - Len(b) + i) + 1
    BY <1>1, <1>2, <1>3
  <2> QED BY <1>2, <1>3, <2>1
<1>5. l \in Seq(S) /\ Len(b) <= Len(l)
  BY <1>1, <1>2, <1>3
<1> HIDE DEF l
<1>6. EndsWith(l, b)
  BY <1>4, <1>5, Ends
<1> QED BY <1>5, <1>6 DEF l

LEMMA EndsPop ==
  ASSUME NEW S, NEW a \in Seq(S), NEW b \in Seq(S), EndsWith(a, b), ~SameChain(a, b)
  PROVE  a # <<>> /\ EndsWith(Tail(a), b)
<1>1. Len(a) \in Nat /\ Len(b) \in Nat
  OBVIOUS
<1>2. /\ Len(b) <= Len(a)
      /\ \A i \in 1 .. Len(b) : a[Len(a) - Len(b) + i].id = b[i].id
  BY Ends
<1>3. Len(a) # Len(b)
  <2> SUFFICES ASSUME Len(a) = Len(b) PROVE FALSE
    OBVIOUS
  <2>1. \A i \in 1 .. Len(a) : Len(a) - Len(b) + i = i
    BY <1>1
  <2> QED BY <1>2, <2>1, Same
<1>4. a # <<>> /\ Tail(a) \in Seq(S) /\ Len(Tail(a)) = Len(a) - 1
      /\ \A i \in 1 .. Len(a) - 1 : Tail(a)[i] = a[i + 1]
  BY <1>1, <1>2, <1>3
<1>5. ASSUME NEW i \in 1 .. Len(b) PROVE Tail(a)[Len(Tail(a)) - Len(b) + i].id = b[i].id
  <2>1. /\ Len(Tail(a)) - Len(b) + i \in 1 .. Len(a) - 1
        /\ (Len(Tail(a)) - Len(b) + i) + 1 = Len(a) - Len(b) + i
    BY <1>1, <1>2, <1>3, <1>4
  <2> QED BY <1>2, <1>4, <2>1
<1> DEFINE t == Tail(a)
<1>6. t \in Seq(S) /\ Len(b) <= Len(t)
  BY <1>1, <1>2, <1>3, <1>4
<1>7. \A i \in 1 .. Len(b) : t[Len(t) - Len(b) + i].id = b[i].id
  BY <1>5
<1> HIDE DEF t
<1>8. EndsWith(t, b)
  BY <1>6, <1>7, Ends
<1> QED BY <1>4, <1>8 DEF t

LEMMA EndsSame ==
  ASSUME NEW S, NEW a \in Seq(S), NEW b \in Seq(S), SameChain(a, b)
  PROVE  EndsWith(a, b)
<1>1. Len(a) \in Nat /\ Len(b) = Len(a) /\ \A i \in 1 .. Len(a) : a[i].id = b[i].id
  BY Same
<1>2. \A i \in 1 .. Len(b) : Len(a) - Len(b) + i = i
  BY <1>1
<1> QED BY <1>1, <1>2, Ends

LEMMA EndsJoin ==
  ASSUME NEW S, NEW a \in Seq(S), NEW b \in Seq(S), NEW c \in Seq(S), EndsWith(b, c)
  PROVE  EndsWith(a \o b, c)
<1> DEFINE l == a \o b
<1>1. Len(a) \in Nat /\ Len(b) \in Nat /\ Len(c) \in Nat
  OBVIOUS
<1>2. l \in Seq(S) /\ Len(l) = Len(a) + Len(b) /\ \A i \in 1 .. Len(b) : l[Len(a) + i] = b[i]
  OBVIOUS
<1>3. /\ Len(c) <= Len(b)
      /\ \A i \in 1 .. Len(c) : b[Len(b) - Len(c) + i].id = c[i].id
  BY Ends
<1>4. ASSUME NEW i \in 1 .. Len(c) PROVE l[Len(l) - Len(c) + i].id = c[i].id
  <2>1. Len(b) - Len(c) + i \in 1 .. Len(b) /\ Len(l) - Len(c) + i = Len(a) + (Len(b) - Len(c) + i)
    BY <1>1, <1>2, <1>3
  <2> QED BY <1>2, <1>3, <2>1
<1>5. l \in Seq(S) /\ Len(c) <= Len(l)
  BY <1>1, <1>2, <1>3
<1> HIDE DEF l
<1>6. EndsWith(l, c)
  BY <1>4, <1>5, Ends
<1> QED BY <1>6 DEF l

\* A CFrame, and the cell of a CChain that holds it.
Cells(S) == [clo : S, id : Seq(Int)]

\* A splice keeps the cells before base, and ends with what node ends with.
LEMMA SpliceEnds ==
  ASSUME NEW S, NEW chain \in Seq(Cells(S)), NEW base \in Seq(Cells(S)),
         NEW node \in Seq(Cells(S)), NEW by \in Int
  PROVE  /\ Splice(chain, base, node, by) \in Seq(Cells(S))
         /\ ~EndsWith(chain, base) => Splice(chain, base, node, by) = chain
         /\ \A b \in Seq(Cells(S)) :
              EndsWith(chain, base) /\ EndsWith(node, b) => EndsWith(Splice(chain, base, node, by), b)
<1> DEFINE heads == [i \in 1 .. (Len(chain) - Len(base)) |-> [chain[i] EXCEPT !.id = Append(@, by)]]
<1>1. CASE ~EndsWith(chain, base)
  BY <1>1 DEF Splice
<1>2. CASE EndsWith(chain, base)
  <2>1. Splice(chain, base, node, by) = heads \o node
    BY <1>2 DEF Splice
  <2>2. Len(chain) \in Nat /\ Len(base) \in Nat /\ Len(base) <= Len(chain)
    BY <1>2, Ends
  <2>3. ASSUME NEW i \in 1 .. (Len(chain) - Len(base))
        PROVE  [chain[i] EXCEPT !.id = Append(@, by)] \in Cells(S)
    <3>1. chain[i] \in Cells(S)
      BY <2>2
    <3>2. Append(chain[i].id, by) \in Seq(Int)
      BY <3>1 DEF Cells
    <3> QED BY <3>1, <3>2 DEF Cells
  <2>4. heads \in Seq(Cells(S))
    <3>1. PICK n \in Nat : n = Len(chain) - Len(base)
      BY <2>2
    <3>2. heads \in [1 .. n -> Cells(S)]
      BY <2>3, <3>1
    <3> HIDE DEF heads
    <3> QED BY <3>2
  <2> HIDE DEF heads
  <2>5. heads \o node \in Seq(Cells(S))
    BY <2>4
  <2>6. \A b \in Seq(Cells(S)) : EndsWith(node, b) => EndsWith(heads \o node, b)
    BY <2>4, EndsJoin
  <2> QED BY <1>2, <2>1, <2>5, <2>6
<1> QED BY <1>1, <1>2

----------------------------------------------------------------------------
(***************************************************************************)
(* Values.  A set of values is sound for n continuations when it holds the *)
(* parts of its members.                                                   *)
(***************************************************************************)
Closures(S) ==
  {v \in [t : {"clo"}, f : DOMAIN code, skip : Nat, env : Seq(S)] :
     /\ Scope(code, v.f) + v.skip <= Len(v.env)
     /\ code[v.f].variadic \/ v.skip <= code[v.f].params}

Fits(v, S, n) ==
  /\ v.t = "clo" => v \in Closures(S)
  /\ v.t = "seq" => v.olist \in Seq(S)
  /\ v.t = "cframe" => v.clo \in S
  /\ v.t = "chain" => v.chain \in Seq(Cells(S))
  /\ v.t = "cont" => v.k \in 1 .. n
  /\ v.t = "prim" => v.p \in DOMAIN Arity

\* The values that are there from the start.
Given == {None, Null, Broken, Nop, Select, Bool(TRUE), Bool(FALSE), Atom("error"), Atom("key")}

Sound(S, n) ==
  /\ Given \subseteq S
  /\ \A f \in DOMAIN code :
       /\ code[f].op.x = "C" => code[f].op.v \in S
       /\ \A i \in DOMAIN code[f].args : code[f].args[i].x = "C" => code[f].args[i].v \in S
  /\ \A v \in S : Fits(v, S, n)

\* The values that can be made of those in S.
Grow(S, n) ==
  S \cup Closures(S)
    \cup [t : {"seq"}, olist : Seq(S)]
    \cup [t : {"cframe"}, clo : S]
    \cup [t : {"chain"}, chain : Seq(Cells(S))]
    \cup [t : {"cont"}, k : 1 .. n]

LEMMA FitsGrows ==
  ASSUME NEW S, NEW G, S \subseteq G, NEW m \in Nat, NEW n \in Nat, m <= n, NEW v, Fits(v, S, m)
  PROVE  Fits(v, G, n)
<1>1. Seq(S) \subseteq Seq(G)
  OBVIOUS
<1>2. Cells(S) \subseteq Cells(G)
  BY DEF Cells
<1>3. Seq(Cells(S)) \subseteq Seq(Cells(G))
  BY <1>2
<1>4. Closures(S) \subseteq Closures(G)
  BY <1>1 DEF Closures
<1> QED BY <1>1, <1>3, <1>4 DEF Fits

LEMMA GrowIsSound ==
  ASSUME NEW S, NEW m \in Nat, NEW n \in Nat, m <= n, Sound(S, m)
  PROVE  Sound(Grow(S, n), n) /\ S \subseteq Grow(S, n)
<1> DEFINE G == Grow(S, n)
<1>1. S \subseteq G
  BY DEF Grow
<1>2. ASSUME NEW v \in G PROVE Fits(v, S, n)
  <2>1. CASE v \in S
    <3>1. Fits(v, S, m)
      BY <2>1 DEF Sound
    <3> QED BY <3>1, FitsGrows
  <2>2. CASE v \in Closures(S)
    BY <2>2 DEF Fits, Closures
  <2>3. CASE v \notin S /\ v \notin Closures(S)
    BY <2>3, <1>2 DEF Grow, Fits
  <2> QED BY <2>1, <2>2, <2>3
<1>3. ASSUME NEW v \in G PROVE Fits(v, G, n)
  <2>1. n <= n
    OBVIOUS
  <2> HIDE DEF G
  <2> QED BY <1>1, <1>2, <1>3, <2>1, FitsGrows
<1>4. Sound(G, n)
  BY <1>1, <1>3 DEF Sound
<1> QED BY <1>1, <1>4

\* A Body that is run in an environment with all that it uses.
Runnable(f, env, S) == f \in DOMAIN code /\ env \in Seq(S) /\ Visible(code, f) <= Len(env)

\* The same of the LCont Function of a Body.
Passable(lc, env, S) == lc \in DOMAIN code /\ env \in Seq(S) /\ Scope(code, lc) <= Len(env)

LEMMA Program ==
  ASSUME WellFormed(code), NEW f \in DOMAIN code
  PROVE  /\ Scope(code, f) \in Nat /\ Visible(code, f) \in Nat /\ Scope(code, f) <= Visible(code, f)
         /\ code[f].params \in Nat /\ code[f].variadic \in BOOLEAN
         /\ ~code[f].variadic => Visible(code, f) = Scope(code, f) + code[f].params
         /\ code[f].variadic => Visible(code, f) = Scope(code, f) + 1
  BY DEF WellFormed, Visible

LEMMA EvalGrows ==
  ASSUME WellFormed(code), NEW S, NEW n, NEW f, NEW env, Runnable(f, env, S),
         NEW e, InScope(code, f, e), e.x = "C" => e.v \in S
  PROVE  Eval(e, env) \in Grow(S, n)
<1>1. CASE e.x = "L"
  <2>1. e.i + 1 \in 1 .. Len(env)
    BY <1>1, Program DEF InScope, Runnable
  <2>2. env[e.i + 1] \in S
    BY <2>1 DEF Runnable
  <2> QED BY <1>1, <2>2 DEF Eval, Grow
<1>2. CASE e.x = "C"
  BY <1>2 DEF Eval, Grow
<1>3. CASE e.x = "F"
  <2>1. e.f \in DOMAIN code /\ Scope(code, e.f) <= Len(env) /\ Scope(code, e.f) \in Nat /\ code[e.f].params \in Nat
    BY <1>3, Program DEF InScope, Runnable
  <2>2. Clo(e.f, env) \in Closures(S)
    BY <2>1 DEF Clo, Closures, Runnable
  <2> QED BY <1>3, <2>2 DEF Eval, Grow
<1> QED BY <1>1, <1>2, <1>3 DEF InScope

LEMMA EvalsGrow ==
  ASSUME WellFormed(code), NEW S, NEW m, Sound(S, m), NEW n, NEW f, NEW env, Runnable(f, env, S)
  PROVE  /\ Evals(code[f].args, env) \in Seq(Grow(S, n))
         /\ Len(Evals(code[f].args, env)) = Len(code[f].args)
         /\ Eval(code[f].op, env) \in Grow(S, n)
<1>1. f \in DOMAIN code
  BY DEF Runnable
<1>2. /\ Len(code[f].args) \in Nat /\ DOMAIN code[f].args = 1 .. Len(code[f].args)
      /\ InScope(code, f, code[f].op)
      /\ \A i \in DOMAIN code[f].args : InScope(code, f, code[f].args[i])
  BY <1>1 DEF WellFormed
<1>3. Eval(code[f].op, env) \in Grow(S, n)
  BY <1>1, <1>2, EvalGrows DEF Sound
<1>4. \A i \in DOMAIN code[f].args : Eval(code[f].args[i], env) \in Grow(S, n)
  BY <1>1, <1>2, EvalGrows DEF Sound
<1>5. PICK k \in Nat : k = Len(code[f].args)
  BY <1>2
<1>6. Evals(code[f].args, env) \in [1 .. k -> Grow(S, n)]
  BY <1>2, <1>4, <1>5 DEF Evals
<1> QED BY <1>3, <1>5, <1>6

LEMMA LContGrows ==
  ASSUME WellFormed(code), NEW S, NEW n, NEW lc, NEW env, Passable(lc, env, S)
  PROVE  Clo(lc, env) \in Grow(S, n)
<1>1. Scope(code, lc) \in Nat /\ code[lc].params \in Nat
  BY Program DEF Passable
<1>2. Clo(lc, env) \in Closures(S)
  BY <1>1 DEF Clo, Closures, Passable
<1> QED BY <1>2 DEF Grow

LEMMA BodyPasses ==
  ASSUME WellFormed(code), NEW S, NEW f, NEW env, Runnable(f, env, S), code[f].lc # "none"
  PROVE  Passable(code[f].lc, env, S)
<1>1. f \in DOMAIN code
  BY DEF Runnable
<1>2. code[f].lc \in DOMAIN code /\ Scope(code, code[f].lc) <= Visible(code, f)
  BY <1>1 DEF WellFormed
<1>3. Scope(code, code[f].lc) \in Nat /\ Visible(code, f) \in Nat
  BY <1>1, <1>2, Program
<1> QED BY <1>2, <1>3 DEF Runnable, Passable

LEMMA BindSeq ==
  ASSUME NEW S, NEW env \in Seq(S), NEW vs \in Seq(S)
  PROVE  Bind(env, vs) \in Seq(S) /\ Len(Bind(env, vs)) = Len(vs) + Len(env)
<1> DEFINE r == [i \in DOMAIN vs |-> vs[Len(vs) + 1 - i]]
<1>1. PICK k \in Nat : k = Len(vs) /\ DOMAIN vs = 1 .. k
  OBVIOUS
<1>2. \A i \in 1 .. k : k + 1 - i \in 1 .. k
  OBVIOUS
<1>3. r \in [1 .. k -> S]
  BY <1>1, <1>2
<1>4. r \in Seq(S) /\ Len(r) = k
  <2> HIDE DEF r
  <2> QED BY <1>3
<1>5. Bind(env, vs) = r \o env
  BY DEF Bind
<1> HIDE DEF r
<1>6. r \o env \in Seq(S) /\ Len(r \o env) = Len(r) + Len(env)
  BY <1>4
<1> QED BY <1>1, <1>4, <1>5, <1>6

----------------------------------------------------------------------------
(***************************************************************************)
(* The registers.                                                          *)
(***************************************************************************)
Configs(S) ==
  [op : S, olist : Seq(S), lcont : S, chain : Seq(Cells(S)), pdict : S, fresh : Nat,
   conts : Seq([chain : Seq(Cells(S)), owner : Nat])]

LEMMA SeqGrows ==
  ASSUME NEW A, NEW B, A \subseteq B
  PROVE  Seq(A) \subseteq Seq(B)
OBVIOUS

LEMMA ConfigsGrow ==
  ASSUME NEW S, NEW G, S \subseteq G
  PROVE  /\ Configs(S) \subseteq Configs(G)
         /\ Seq(S) \subseteq Seq(G) /\ Seq(Cells(S)) \subseteq Seq(Cells(G))
<1>1. Seq(S) \subseteq Seq(G)
  OBVIOUS
<1>2. Cells(S) \subseteq Cells(G)
  BY DEF Cells
<1>3. Seq(Cells(S)) \subseteq Seq(Cells(G))
  BY <1>2
<1>4. [chain : Seq(Cells(S)), owner : Nat] \subseteq [chain : Seq(Cells(G)), owner : Nat]
  BY <1>3
<1>5. Seq([chain : Seq(Cells(S)), owner : Nat]) \subseteq Seq([chain : Seq(Cells(G)), owner : Nat])
  BY <1>4, SeqGrows
<1> QED BY <1>1, <1>3, <1>5 DEF Configs

LEMMA LoadBodyGrows ==
  ASSUME WellFormed(code), NEW S, NEW c \in Configs(S), Sound(S, Len(c.conts)),
         NEW f, NEW env, Runnable(f, env, S)
  PROVE  /\ LoadBody(code, c, f, env) \in Configs(Grow(S, Len(c.conts)))
         /\ LoadBody(code, c, f, env).conts = c.conts
         /\ LoadBody(code, c, f, env).chain = c.chain
<1> DEFINE G == Grow(S, Len(c.conts))
<1>1. Len(c.conts) \in Nat
  BY DEF Configs
<1>2. S \subseteq G
  BY <1>1, GrowIsSound
<1>3. c \in Configs(G)
  BY <1>2, ConfigsGrow
<1>4. Evals(code[f].args, env) \in Seq(G) /\ Eval(code[f].op, env) \in G
  BY EvalsGrow
<1>5. (IF code[f].lc = "none" THEN None ELSE Clo(code[f].lc, env)) \in G
  BY <1>2, BodyPasses, LContGrows DEF Sound, Given
<1> HIDE DEF G
<1>6. LoadBody(code, c, f, env) \in Configs(G)
  BY <1>3, <1>4, <1>5 DEF LoadBody, Configs
<1> QED BY <1>6 DEF LoadBody, G, Configs

LEMMA PushKeeps ==
  ASSUME NEW S, NEW c \in Configs(S), NEW v \in S
  PROVE  /\ Push(c, v) \in Configs(S) /\ Push(c, v).conts = c.conts
         /\ \A b \in Seq(Cells(S)) : EndsWith(c.chain, b) => EndsWith(Push(c, v).chain, b)
<1> DEFINE cell == [clo |-> v, id |-> <<c.fresh + 1>>]
<1>1. c.chain \in Seq(Cells(S)) /\ c.fresh + 1 \in Nat
  BY DEF Configs
<1>2. <<c.fresh + 1>> \in Seq(Int)
  BY <1>1
<1>3. cell \in Cells(S)
  BY <1>2 DEF Cells
<1>4. Push(c, v) = [c EXCEPT !.chain = <<cell>> \o @, !.fresh = @ + 1]
  BY DEF Push
<1> HIDE DEF cell
<1>5. <<cell>> \o c.chain \in Seq(Cells(S))
  BY <1>1, <1>3
<1>6. /\ Push(c, v) \in Configs(S) /\ Push(c, v).conts = c.conts
      /\ Push(c, v).chain = <<cell>> \o c.chain
  BY <1>1, <1>4, <1>5 DEF Configs
<1> QED BY <1>1, <1>3, <1>6, EndsPush

LEMMA PushLContKeeps ==
  ASSUME NEW S, Given \subseteq S, NEW c \in Configs(S)
  PROVE  /\ PushLCont(c) \in Configs(S) /\ PushLCont(c).conts = c.conts
         /\ PushLCont(c).olist = c.olist /\ PushLCont(c).op = c.op
         /\ \A b \in Seq(Cells(S)) : EndsWith(c.chain, b) => EndsWith(PushLCont(c).chain, b)
<1>1. CASE c.lcont = None
  BY <1>1 DEF PushLCont
<1>2. CASE c.lcont # None
  <2> DEFINE d == Push(c, c.lcont)
  <2>1. PushLCont(c) = [d EXCEPT !.lcont = None]
    BY <1>2 DEF PushLCont
  <2>2. /\ d \in Configs(S) /\ d.conts = c.conts
        /\ \A b \in Seq(Cells(S)) : EndsWith(c.chain, b) => EndsWith(d.chain, b)
    BY PushKeeps DEF Configs
  <2>3. d.olist = c.olist /\ d.op = c.op
    BY DEF Push, Configs
  <2> HIDE DEF d
  <2>4. None \in S
    BY DEF Given
  <2>5. [d EXCEPT !.lcont = None] \in Configs(S)
    BY <2>2, <2>4 DEF Configs
  <2>6. /\ [d EXCEPT !.lcont = None].chain = d.chain /\ [d EXCEPT !.lcont = None].conts = d.conts
        /\ [d EXCEPT !.lcont = None].olist = d.olist /\ [d EXCEPT !.lcont = None].op = d.op
    BY <2>2 DEF Configs
  <2> QED BY <2>1, <2>2, <2>3, <2>5, <2>6
<1> QED BY <1>1, <1>2

LEMMA PopIntoKeeps ==
  ASSUME NEW S, NEW c \in Configs(S), c.chain # <<>>
  PROVE  /\ PopInto(c) \in Configs(S) /\ PopInto(c).conts = c.conts
         /\ PopInto(c).chain = Tail(c.chain)
<1>1. c.chain \in Seq(Cells(S))
  BY DEF Configs
<1>2. Head(c.chain) \in Cells(S) /\ Tail(c.chain) \in Seq(Cells(S))
  BY <1>1
<1>3. Head(c.chain).clo \in S
  BY <1>2 DEF Cells
<1> QED BY <1>2, <1>3 DEF PopInto, Configs

LEMMA FailKeeps ==
  ASSUME NEW S, Given \subseteq S, NEW c \in Configs(S)
  PROVE  Fail(c) \in Configs(S) /\ Fail(c).conts = c.conts /\ Fail(c).op = Broken
<1>1. Broken \in S /\ None \in S
  BY DEF Given
<1>2. <<>> \in Seq(S) /\ <<>> \in Seq(Cells(S))
  OBVIOUS
<1> QED BY <1>1, <1>2 DEF Fail, Configs

LEMMA PrimReturnKeeps ==
  ASSUME NEW S, Given \subseteq S, NEW c \in Configs(S), NEW results \in Seq(S)
  PROVE  /\ PrimReturn(c, results) \in Configs(S) /\ PrimReturn(c, results).conts = c.conts
         /\ PrimReturn(c, results).chain = c.chain
<1>1. Null \in S /\ None \in S
  BY DEF Given
<1> QED BY <1>1 DEF PrimReturn, Configs

\* What a primitive does that is neither __Cont_get__ nor one of the CChain.
Keeps(c, d, S) ==
  /\ d \in Configs(S) /\ d.conts = c.conts
  /\ d.op # Broken => \A b \in Seq(Cells(S)) : EndsWith(c.chain, b) => EndsWith(d.chain, b)

LEMMA ReturnKeeps ==
  ASSUME NEW S, Given \subseteq S, NEW c \in Configs(S), NEW results \in Seq(S)
  PROVE  Keeps(c, PrimReturn(c, results), S)
<1> DEFINE d == PrimReturn(c, results)
<1>1. d \in Configs(S) /\ d.conts = c.conts /\ d.chain = c.chain
  BY PrimReturnKeeps
<1> HIDE DEF d
<1> QED BY <1>1 DEF Keeps, d

LEMMA ChooseKeeps ==
  ASSUME NEW S, Given \subseteq S, NEW c \in Configs(S), NEW x \in S, NEW y \in S, NEW z \in S
  PROVE  Keeps(c, Choose(c, x, y, z), S)
<1>1. /\ Null \in S /\ None \in S /\ Select \in S /\ Nop \in S
      /\ <<>> \in Seq(S) /\ <<y, z>> \in Seq(S)
  BY DEF Given
<1>2. CASE IsBool(x) /\ (IF x.f = "true" THEN y ELSE z) = Nop
  <2>1. Choose(c, x, y, z) = PrimReturn(c, <<>>)
    BY <1>2 DEF Choose
  <2> QED BY <1>1, <2>1, ReturnKeeps
<1>3. CASE IsBool(x) /\ (IF x.f = "true" THEN y ELSE z) # Nop
  <2>1. PICK w \in S : w = IF x.f = "true" THEN y ELSE z
    OBVIOUS
  <2>2. Choose(c, x, y, z) = [c EXCEPT !.op = w, !.olist = <<>>]
    BY <1>3, <2>1 DEF Choose
  <2> QED BY <1>1, <2>2 DEF Configs, Keeps
<1>4. CASE ~IsBool(x)
  <2> DEFINE d == PushLCont(c)
  <2>1. Choose(c, x, y, z) = [d EXCEPT !.op = x, !.olist = <<y, z>>, !.lcont = Select]
    BY <1>4 DEF Choose
  <2>2. /\ d \in Configs(S) /\ d.conts = c.conts
        /\ \A b \in Seq(Cells(S)) : EndsWith(c.chain, b) => EndsWith(d.chain, b)
    BY PushLContKeeps
  <2> HIDE DEF d
  <2> QED BY <1>1, <2>1, <2>2 DEF Configs, Keeps
<1> QED BY <1>2, <1>3, <1>4

\* The primitives of SAFE_PRIMS.
LEMMA SafeKeeps ==
  ASSUME NEW S, Given \subseteq S, NEW c \in Configs(S), NEW p \in Safe \ {"cont_get"}
  PROVE  /\ Keeps(c, PrimStep(c, p), S)
         /\ p \in Direct \cup Chain /\ PrimStep(c, p).op # Broken => PrimStep(c, p).chain = c.chain
<1> DEFINE a == c.olist
<1>1. a \in Seq(S) /\ Len(a) \in Nat /\ Null \in S /\ Nop \in S /\ <<>> \in Seq(S)
  BY DEF Configs, Given
<1>2. CASE Len(a) < Arity[p]
  <2>1. PrimStep(c, p) = Fail(c)
    BY <1>2 DEF PrimStep
  <2> QED BY <2>1, FailKeeps DEF Keeps
<1>3. CASE ~(Len(a) < Arity[p]) /\ p = "is_null"
  <2>1. PrimStep(c, p) = PrimReturn(c, <<Bool(a[1] = Null)>>)
    BY <1>3 DEF PrimStep
  <2>2. Bool(a[1] = Null) \in S
    BY DEF Given
  <2>4. <<Bool(a[1] = Null)>> \in Seq(S)
    BY <2>2
  <2>5. PICK r \in Seq(S) : r = <<Bool(a[1] = Null)>>
    BY <2>4
  <2>6. Keeps(c, PrimReturn(c, r), S) /\ PrimReturn(c, r).chain = c.chain
    BY ReturnKeeps, PrimReturnKeeps
  <2> QED BY <2>1, <2>5, <2>6
<1>4. CASE ~(Len(a) < Arity[p]) /\ p = "divide"
  <2>1. a[1] \in S /\ a[2] \in S
    BY <1>1, <1>4 DEF Arity
  <2>2. PrimStep(c, p) = Divide(c, a[1], a[2])
    BY <1>4 DEF PrimStep
  <2>3. CASE a[2].t # "atom"
    <3>1. Divide(c, a[1], a[2]) = Fail(c)
      BY <2>3 DEF Divide
    <3> QED BY <2>2, <3>1, FailKeeps DEF Keeps
  <2>4. CASE a[2].t = "atom" /\ a[2].a = "zero"
    <3>1. Divide(c, a[1], a[2]) = [c EXCEPT !.op = a[1], !.olist = <<Atom("error")>>]
      BY <2>4 DEF Divide
    <3>2. <<Atom("error")>> \in Seq(S)
      BY DEF Given
    <3> QED BY <2>1, <2>2, <3>1, <3>2, ZenonT(60) DEF Keeps, Configs
  <2>5. CASE a[2].t = "atom" /\ a[2].a # "zero"
    <3>1. Divide(c, a[1], a[2]) = PrimReturn(c, <<a[2]>>)
      BY <2>5 DEF Divide
    <3>2. <<a[2]>> \in Seq(S)
      BY <2>1
    <3>3. PICK r \in Seq(S) : r = <<a[2]>>
      BY <3>2
    <3>4. Keeps(c, PrimReturn(c, r), S) /\ PrimReturn(c, r).chain = c.chain
      BY ReturnKeeps, PrimReturnKeeps
    <3> QED BY <2>2, <3>1, <3>3, <3>4
  <2> QED BY <2>3, <2>4, <2>5
<1>5. CASE ~(Len(a) < Arity[p]) /\ p = "put"
  <2>1. a[1] \in S
    BY <1>1, <1>5 DEF Arity
  <2> DEFINE d == [c EXCEPT !.pdict = a[1]]
  <2>2. PrimStep(c, p) = PrimReturn(d, <<>>)
    BY <1>5 DEF PrimStep
  <2>3. d \in Configs(S) /\ d.conts = c.conts /\ d.chain = c.chain
    BY <2>1 DEF Configs
  <2> DEFINE r == PrimReturn(d, <<>>)
  <2> HIDE DEF d
  <2>4. Keeps(d, r, S) /\ r.chain = d.chain
    BY <1>1, <2>3, ReturnKeeps, PrimReturnKeeps
  <2> HIDE DEF r
  <2>5. Keeps(c, r, S) /\ r.chain = c.chain
    BY <2>3, <2>4 DEF Keeps
  <2> QED BY <2>2, <2>5 DEF r
<1>6. CASE ~(Len(a) < Arity[p]) /\ p = "lookup"
  <2>1. a[1] \in S
    BY <1>1, <1>6 DEF Arity
  <2>2. PrimStep(c, p) = LookupOr(c, a[1])
    BY <1>6 DEF PrimStep
  <2>3. CASE c.pdict = None
    <3>1. LookupOr(c, a[1]) = [c EXCEPT !.op = a[1], !.olist = <<Atom("key")>>]
      BY <2>3 DEF LookupOr
    <3>2. <<Atom("key")>> \in Seq(S)
      BY DEF Given
    <3> QED BY <2>1, <2>2, <3>1, <3>2, ZenonT(60) DEF Keeps, Configs
  <2>4. CASE c.pdict # None
    <3>1. LookupOr(c, a[1]) = PrimReturn(c, <<c.pdict>>)
      BY <2>4 DEF LookupOr
    <3>2. <<c.pdict>> \in Seq(S)
      BY DEF Configs
    <3>3. PICK r \in Seq(S) : r = <<c.pdict>>
      BY <3>2
    <3>4. Keeps(c, PrimReturn(c, r), S) /\ PrimReturn(c, r).chain = c.chain
      BY ReturnKeeps, PrimReturnKeeps
    <3> QED BY <2>2, <3>1, <3>3, <3>4
  <2> QED BY <2>3, <2>4
<1>7. CASE ~(Len(a) < Arity[p]) /\ p = "choose"
  <2>1. a[1] \in S /\ a[2] \in S /\ a[3] \in S
    BY <1>1, <1>7 DEF Arity
  <2>2. PrimStep(c, p) = Choose(c, a[1], a[2], a[3])
    BY <1>7 DEF PrimStep
  <2> QED BY <1>7, <2>1, <2>2, ChooseKeeps DEF Direct, Chain
<1>8. CASE ~(Len(a) < Arity[p]) /\ p = "if"
  <2>1. a[1] \in S /\ a[2] \in S
    BY <1>1, <1>8 DEF Arity
  <2>2. PrimStep(c, p) = Choose(c, a[1], a[2], Nop)
    BY <1>8 DEF PrimStep
  <2> QED BY <1>1, <1>8, <2>1, <2>2, ChooseKeeps DEF Direct, Chain
<1>9. CASE ~(Len(a) < Arity[p]) /\ p = "unless"
  <2>1. a[1] \in S /\ a[2] \in S
    BY <1>1, <1>9 DEF Arity
  <2>2. PrimStep(c, p) = Choose(c, a[1], Nop, a[2])
    BY <1>9 DEF PrimStep
  <2> QED BY <1>1, <1>9, <2>1, <2>2, ChooseKeeps DEF Direct, Chain
<1> QED BY <1>2, <1>3, <1>4, <1>5, <1>6, <1>7, <1>8, <1>9 DEF Safe, Direct, Chain, Ifs

----------------------------------------------------------------------------
(***************************************************************************)
(* A step of the VM.                                                       *)
(***************************************************************************)
LEMMA NewContKeeps ==
  ASSUME NEW S, NEW c \in Configs(S), Sound(S, Len(c.conts)),
         NEW chain \in Seq(Cells(S)), NEW owner \in Nat
  PROVE  /\ NewCont(c, chain, owner)[1] \in Configs(Grow(S, Len(c.conts) + 1))
         /\ NewCont(c, chain, owner)[2] \in Grow(S, Len(c.conts) + 1)
         /\ NewCont(c, chain, owner)[1].conts = Append(c.conts, [chain |-> chain, owner |-> owner])
         /\ NewCont(c, chain, owner)[1].chain = c.chain
         /\ Len(NewCont(c, chain, owner)[1].conts) = Len(c.conts) + 1
         /\ Sound(Grow(S, Len(c.conts) + 1), Len(c.conts) + 1)
         /\ S \subseteq Grow(S, Len(c.conts) + 1)
<1> DEFINE n == Len(c.conts)
           T == Grow(S, n + 1)
           k == [chain |-> chain, owner |-> owner]
           K == [chain : Seq(Cells(T)), owner : Nat]
<1>1. c.conts \in Seq([chain : Seq(Cells(S)), owner : Nat]) /\ n \in Nat /\ n + 1 \in Nat /\ n <= n + 1
  BY DEF Configs
<1>2. Sound(T, n + 1) /\ S \subseteq T
  BY <1>1, GrowIsSound
<1>3. c \in Configs(T) /\ chain \in Seq(Cells(T))
  BY <1>2, ConfigsGrow
<1>4. k \in K
  BY <1>3
<1>5. Append(c.conts, k) \in Seq(K)
  BY <1>3, <1>4 DEF Configs
<1>6. /\ NewCont(c, chain, owner)[1] = [c EXCEPT !.conts = Append(@, k)]
      /\ NewCont(c, chain, owner)[2] = [t |-> "cont", k |-> n + 1]
  BY DEF NewCont
<1>7. [c EXCEPT !.conts = Append(@, k)] \in Configs(T)
  BY <1>3, <1>5 DEF Configs
<1>8. [t |-> "cont", k |-> n + 1] \in T
  BY <1>1 DEF Grow
<1>9. Len(Append(c.conts, k)) = n + 1
  BY <1>1
<1>10. /\ [c EXCEPT !.conts = Append(@, k)].conts = Append(c.conts, k)
       /\ [c EXCEPT !.conts = Append(@, k)].chain = c.chain
  BY DEF Configs
<1> QED BY <1>2, <1>6, <1>7, <1>8, <1>9, <1>10

\* What a step of the VM makes of the registers c: the values it has are
\* sound, and a continuation that is new has its whole CChain.
Made(c, d, f, env, S) ==
  /\ \E T : /\ S \subseteq T /\ Sound(T, Len(d.conts)) /\ d \in Configs(T)
            /\ f = "none" \/ Runnable(f, env, T)
  /\ d.conts = c.conts \/ \E chain : d.conts = Append(c.conts, [chain |-> chain, owner |-> 0])

LEMMA MadeOf ==
  ASSUME WellFormed(code), NEW S, NEW c \in Configs(S), Sound(S, Len(c.conts)),
         NEW d \in Configs(Grow(S, Len(c.conts))), d.conts = c.conts,
         NEW f, NEW env, f = "none" \/ Runnable(f, env, Grow(S, Len(c.conts)))
  PROVE  Made(c, d, f, env, S)
<1> DEFINE T == Grow(S, Len(c.conts))
<1>1. Len(c.conts) \in Nat
  BY DEF Configs
<1>2. Sound(T, Len(c.conts)) /\ S \subseteq T
  BY <1>1, GrowIsSound
<1> HIDE DEF T
<1>3. d \in Configs(T) /\ (f = "none" \/ Runnable(f, env, T))
  BY DEF T
<1> QED BY <1>2, <1>3 DEF Made

LEMMA ContGetMakes ==
  ASSUME WellFormed(code), NEW S, NEW c \in Configs(S), Sound(S, Len(c.conts))
  PROVE  Made(c, ContGet(c), "none", <<>>, S)
<1> DEFINE G == Grow(S, Len(c.conts))
<1>1. Len(c.conts) \in Nat /\ Given \subseteq S
  BY DEF Configs, Sound
<1>2. S \subseteq G
  BY <1>1, GrowIsSound
<1>3. CASE c.lcont = None /\ c.chain = <<>>
  <2>1. ContGet(c) = Fail(c)
    BY <1>3 DEF ContGet
  <2>2. Fail(c) \in Configs(G) /\ Fail(c).conts = c.conts
    BY <1>1, <1>2, FailKeeps, ConfigsGrow
  <2> QED BY <2>1, <2>2, MadeOf
<1>4. CASE ~(c.lcont = None /\ c.chain = <<>>)
  <2> DEFINE d == IF c.lcont = None THEN PopInto(c) ELSE [c EXCEPT !.op = c.lcont]
             new == NewCont(d, d.chain, 0)
             T == Grow(S, Len(c.conts) + 1)
  <2>1. ContGet(c) = [new[1] EXCEPT !.lcont = None, !.olist = <<new[2]>>]
    BY <1>4 DEF ContGet
  <2>2. d \in Configs(S) /\ d.conts = c.conts
    BY <1>4, PopIntoKeeps DEF Configs
  <2> HIDE DEF d
  <2>3. d.chain \in Seq(Cells(S)) /\ 0 \in Nat
    BY <2>2 DEF Configs
  <2>4. /\ new[1] \in Configs(T) /\ new[2] \in T
        /\ new[1].conts = Append(c.conts, [chain |-> d.chain, owner |-> 0])
        /\ Len(new[1].conts) = Len(c.conts) + 1
        /\ Sound(T, Len(c.conts) + 1) /\ S \subseteq T
    <3>1. Sound(S, Len(d.conts)) /\ Len(d.conts) = Len(c.conts)
      BY <2>2
    <3>2. /\ new[1] \in Configs(Grow(S, Len(d.conts) + 1)) /\ new[2] \in Grow(S, Len(d.conts) + 1)
          /\ new[1].conts = Append(d.conts, [chain |-> d.chain, owner |-> 0])
          /\ Len(new[1].conts) = Len(d.conts) + 1
          /\ Sound(Grow(S, Len(d.conts) + 1), Len(d.conts) + 1) /\ S \subseteq Grow(S, Len(d.conts) + 1)
      BY <2>2, <2>3, <3>1, NewContKeeps, SMTT(30)
    <3> QED BY <2>2, <3>1, <3>2
  <2> HIDE DEF new, T
  <2>5. None \in T /\ <<new[2]>> \in Seq(T)
    BY <1>1, <2>4 DEF Given
  <2>6. ContGet(c) \in Configs(T) /\ ContGet(c).conts = new[1].conts
    BY <2>1, <2>4, <2>5 DEF Configs
  <2> QED BY <2>4, <2>6 DEF Made
<1> QED BY <1>3, <1>4

LEMMA ReturnMakes ==
  ASSUME WellFormed(code), NEW S, NEW c \in Configs(S), Sound(S, Len(c.conts)),
         NEW d \in Configs(Grow(S, Len(c.conts))), d.conts = c.conts,
         NEW results \in Seq(Grow(S, Len(c.conts)))
  PROVE  Made(c, PrimReturn(d, results), "none", <<>>, S)
<1>1. Len(c.conts) \in Nat /\ Given \subseteq S
  BY DEF Configs, Sound
<1>2. Given \subseteq Grow(S, Len(c.conts))
  BY <1>1, GrowIsSound
<1>3. /\ PrimReturn(d, results) \in Configs(Grow(S, Len(c.conts)))
      /\ PrimReturn(d, results).conts = c.conts
  BY <1>2, PrimReturnKeeps
<1> QED BY <1>3, MadeOf

LEMMA FailMakes ==
  ASSUME WellFormed(code), NEW S, NEW c \in Configs(S), Sound(S, Len(c.conts))
  PROVE  Made(c, Fail(c), "none", <<>>, S)
<1>1. Len(c.conts) \in Nat /\ Given \subseteq S
  BY DEF Configs, Sound
<1>2. S \subseteq Grow(S, Len(c.conts))
  BY <1>1, GrowIsSound
<1>3. Fail(c) \in Configs(Grow(S, Len(c.conts))) /\ Fail(c).conts = c.conts
  BY <1>1, <1>2, FailKeeps, ConfigsGrow
<1> QED BY <1>3, MadeOf

LEMMA One ==
  ASSUME NEW S, NEW x \in S
  PROVE  <<x>> \in Seq(S)
OBVIOUS

LEMMA PrimMakes ==
  ASSUME WellFormed(code), NEW S, NEW c \in Configs(S), Sound(S, Len(c.conts)), NEW p \in DOMAIN Arity
  PROVE  Made(c, PrimStep(c, p), "none", <<>>, S)
<1> DEFINE a == c.olist
           G == Grow(S, Len(c.conts))
<1>1. /\ a \in Seq(S) /\ Len(a) \in Nat /\ Len(c.conts) \in Nat
      /\ Given \subseteq S /\ \A v \in S : Fits(v, S, Len(c.conts))
      /\ c.chain \in Seq(Cells(S))
  BY DEF Configs, Sound
<1>2. S \subseteq G /\ c \in Configs(G) /\ <<>> \in Seq(G) /\ Seq(Cells(S)) \subseteq Seq(Cells(G))
  <2>1. S \subseteq G
    BY <1>1, GrowIsSound
  <2> HIDE DEF G
  <2>2. Seq(Cells(S)) \subseteq Seq(Cells(G))
    BY <2>1, ConfigsGrow, Zenon
  <2>3. <<>> \in Seq(G)
    OBVIOUS
  <2>4. c \in Configs(G)
    BY <2>1, ConfigsGrow
  <2> QED BY <2>1, <2>2, <2>3, <2>4, Zenon
<1>3. CASE p \in Safe \ {"cont_get"}
  <2>1. Keeps(c, PrimStep(c, p), S)
    BY <1>1, <1>3, SafeKeeps
  <2>2. PrimStep(c, p) \in Configs(G) /\ PrimStep(c, p).conts = c.conts
    BY <1>2, <2>1, ConfigsGrow DEF Keeps
  <2> QED BY <2>2, MadeOf
<1>4. CASE Len(a) < Arity[p]
  <2>1. PrimStep(c, p) = Fail(c)
    BY <1>4 DEF PrimStep
  <2> QED BY <2>1, FailMakes
<1>5. CASE ~(Len(a) < Arity[p]) /\ p = "cont_get"
  <2>1. PrimStep(c, p) = ContGet(c)
    BY <1>5 DEF PrimStep
  <2> QED BY <2>1, ContGetMakes
<1>6. CASE ~(Len(a) < Arity[p]) /\ p = "chain_get"
  <2>1. PrimStep(c, p) = PrimReturn(c, <<[t |-> "chain", chain |-> c.chain]>>)
    BY <1>6 DEF PrimStep
  <2>2. [t |-> "chain", chain |-> c.chain] \in G
    BY <1>1 DEF Grow
  <2>3. PICK r \in Seq(G) : r = <<[t |-> "chain", chain |-> c.chain]>>
    BY <2>2, One
  <2>4. Made(c, PrimReturn(c, r), "none", <<>>, S)
    BY <1>2, ReturnMakes
  <2> QED BY <2>1, <2>3, <2>4
<1>7. CASE ~(Len(a) < Arity[p]) /\ p = "chain_set"
  <2>1. a[1] \in S /\ Fits(a[1], S, Len(c.conts))
    BY <1>1, <1>7 DEF Arity
  <2>2. PrimStep(c, p) = CChainSet(c, a[1])
    BY <1>7 DEF PrimStep
  <2>3. CASE a[1].t # "chain"
    <3>1. CChainSet(c, a[1]) = Fail(c)
      BY <2>3 DEF CChainSet
    <3> QED BY <2>2, <3>1, FailMakes
  <2>4. CASE a[1].t = "chain"
    <3>1. a[1].chain \in Seq(Cells(S))
      BY <2>1, <2>4 DEF Fits
    <3> DEFINE r == PrimReturn(c, <<>>)
    <3>2. CChainSet(c, a[1]) = [r EXCEPT !.chain = a[1].chain]
      BY <2>4 DEF CChainSet
    <3>3. <<>> \in Seq(S)
      OBVIOUS
    <3>4. r \in Configs(S) /\ r.conts = c.conts
      BY <1>1, <3>3, PrimReturnKeeps
    <3> HIDE DEF r
    <3>5. [r EXCEPT !.chain = a[1].chain] \in Configs(S) /\ [r EXCEPT !.chain = a[1].chain].conts = c.conts
      BY <3>1, <3>4 DEF Configs
    <3>6. CChainSet(c, a[1]) \in Configs(G)
      BY <1>2, <3>2, <3>5, ConfigsGrow
    <3> QED BY <2>2, <3>2, <3>5, <3>6, MadeOf
  <2> QED BY <2>3, <2>4
<1>8. CASE ~(Len(a) < Arity[p]) /\ p = "push"
  <2>1. a[1] \in S /\ Fits(a[1], S, Len(c.conts))
    BY <1>1, <1>8 DEF Arity
  <2>2. PrimStep(c, p) = PushFrame(c, a[1])
    BY <1>8 DEF PrimStep
  <2>3. CASE a[1].t # "cframe"
    <3>1. PushFrame(c, a[1]) = Fail(c)
      BY <2>3 DEF PushFrame
    <3> QED BY <2>2, <3>1, FailMakes
  <2>4. CASE a[1].t = "cframe"
    <3>1. a[1].clo \in S
      BY <2>1, <2>4 DEF Fits
    <3> DEFINE d == Push(c, a[1].clo)
    <3>2. PushFrame(c, a[1]) = PrimReturn(d, <<>>)
      BY <2>4 DEF PushFrame
    <3>3. d \in Configs(S) /\ d.conts = c.conts
      BY <3>1, PushKeeps
    <3> HIDE DEF d
    <3>4. d \in Configs(G)
      BY <1>2, <3>3, ConfigsGrow
    <3>5. Made(c, PrimReturn(d, <<>>), "none", <<>>, S)
      BY <1>2, <3>3, <3>4, ReturnMakes
    <3> QED BY <2>2, <3>2, <3>5
  <2> QED BY <2>3, <2>4
<1>9. CASE ~(Len(a) < Arity[p]) /\ p = "pop"
  <2>1. PrimStep(c, p) = PopFrame(c)
    BY <1>9 DEF PrimStep
  <2>2. CASE c.chain = <<>>
    <3>1. PopFrame(c) = PrimReturn(c, <<Null>>)
      BY <2>2 DEF PopFrame
    <3>2. Null \in G
      BY <1>1, <1>2 DEF Given
    <3>3. PICK r \in Seq(G) : r = <<Null>>
      BY <3>2, One
    <3>4. Made(c, PrimReturn(c, r), "none", <<>>, S)
      BY <1>2, ReturnMakes
    <3> QED BY <2>1, <3>1, <3>3, <3>4
  <2>3. CASE c.chain # <<>>
    <3> DEFINE v == [t |-> "cframe", clo |-> Head(c.chain).clo]
               r == PrimReturn(c, <<v>>)
    <3>1. PopFrame(c) = [r EXCEPT !.chain = Tail(@)]
      BY <2>3 DEF PopFrame
    <3>2. Head(c.chain) \in Cells(S) /\ Tail(c.chain) \in Seq(Cells(S))
      BY <1>1, <2>3
    <3>3. Head(c.chain).clo \in S
      BY <3>2 DEF Cells
    <3>4. v \in G
      BY <3>3 DEF Grow
    <3>5. PICK s \in Seq(G) : s = <<v>>
      BY <3>4, One
    <3>6. Given \subseteq G
      BY <1>1, <1>2
    <3>7. /\ PrimReturn(c, s) \in Configs(G) /\ PrimReturn(c, s).conts = c.conts
          /\ PrimReturn(c, s).chain = c.chain
      BY <1>2, <3>6, PrimReturnKeeps
    <3>8. r \in Configs(G) /\ r.conts = c.conts /\ r.chain = c.chain
      BY <3>5, <3>7
    <3> HIDE DEF r
    <3>9. Tail(c.chain) \in Seq(Cells(G))
      BY <1>2, <3>2
    <3>10. [r EXCEPT !.chain = Tail(@)] \in Configs(G) /\ [r EXCEPT !.chain = Tail(@)].conts = c.conts
      BY <3>8, <3>9 DEF Configs
    <3> QED BY <2>1, <3>1, <3>10, MadeOf
  <2> QED BY <2>2, <2>3
<1>10. CASE ~(Len(a) < Arity[p]) /\ p = "suspend"
  <2>1. PrimStep(c, p) = PrimReturn(c, <<>>)
    BY <1>10 DEF PrimStep
  <2> QED BY <1>2, <2>1, ReturnMakes
<1> QED
  BY <1>3, <1>4, <1>5, <1>6, <1>7, <1>8, <1>9, <1>10 DEF Arity, Safe, Direct, Chain, Ifs

LEMMA ApplyNullKeeps ==
  ASSUME NEW S, Given \subseteq S, NEW c \in Configs(S)
  PROVE  ApplyNull(c) \in Configs(S) /\ ApplyNull(c).conts = c.conts
<1>1. CASE c.lcont # None
  <2>1. ApplyNull(c) = [c EXCEPT !.op = c.lcont, !.lcont = None]
    BY <1>1 DEF ApplyNull
  <2>2. None \in S /\ c.lcont \in S
    BY DEF Given, Configs
  <2> QED BY <2>1, <2>2 DEF Configs
<1>2. CASE c.lcont = None /\ c.chain # <<>>
  <2>1. ApplyNull(c) = PopInto(c)
    BY <1>2 DEF ApplyNull
  <2> QED BY <1>2, <2>1, PopIntoKeeps
<1>3. CASE c.lcont = None /\ c.chain = <<>>
  <2>1. ApplyNull(c) = Fail(c)
    BY <1>3 DEF ApplyNull
  <2> QED BY <2>1, FailKeeps
<1> QED BY <1>1, <1>2, <1>3

LEMMA ApplySeqKeeps ==
  ASSUME NEW S, Given \subseteq S, NEW c \in Configs(S), NEW seq, seq.olist \in Seq(S)
  PROVE  ApplySeq(c, seq) \in Configs(S) /\ ApplySeq(c, seq).conts = c.conts
<1>1. CASE c.olist # <<>>
  <2>1. ApplySeq(c, seq) = [c EXCEPT !.op = Head(c.olist), !.olist = seq.olist]
    BY <1>1 DEF ApplySeq
  <2>2. c.olist \in Seq(S)
    BY DEF Configs
  <2>3. Head(c.olist) \in S
    BY <1>1, <2>2
  <2> QED BY <2>1, <2>3 DEF Configs
<1>2. CASE c.olist = <<>> /\ c.chain # <<>>
  <2> DEFINE d == PopInto(c)
  <2>1. ApplySeq(c, seq) = [d EXCEPT !.olist = seq.olist]
    BY <1>2 DEF ApplySeq
  <2>2. d \in Configs(S) /\ d.conts = c.conts
    BY <1>2, PopIntoKeeps
  <2> HIDE DEF d
  <2> QED BY <2>1, <2>2 DEF Configs
<1>3. CASE c.olist = <<>> /\ c.chain = <<>>
  <2>1. ApplySeq(c, seq) = Fail(c)
    BY <1>3 DEF ApplySeq
  <2> QED BY <2>1, FailKeeps
<1> QED BY <1>1, <1>2, <1>3

LEMMA ApplyContKeeps ==
  ASSUME NEW S, Given \subseteq S, NEW c \in Configs(S), NEW k, k.k \in DOMAIN c.conts
  PROVE  ApplyCont(c, k) \in Configs(S) /\ ApplyCont(c, k).conts = c.conts
<1> DEFINE d == [c EXCEPT !.lcont = None, !.chain = ChainOf(c, k)]
<1>1. ApplyCont(c, k) = IF d.chain = <<>> THEN [d EXCEPT !.op = Null, !.olist = <<>>] ELSE PopInto(d)
  BY DEF ApplyCont
<1>2. ChainOf(c, k) \in Seq(Cells(S))
  <2> DEFINE K == [chain : Seq(Cells(S)), owner : Nat]
  <2>1. c.conts \in Seq(K)
    BY DEF Configs
  <2> HIDE DEF K
  <2>2. c.conts[k.k] \in K
    BY <2>1
  <2> QED BY <2>2 DEF ChainOf, K
<1>3. None \in S /\ Null \in S
  BY DEF Given
<1>4. d \in Configs(S) /\ d.conts = c.conts
  BY <1>2, <1>3 DEF Configs
<1> HIDE DEF d
<1>5. CASE d.chain = <<>>
  <2>1. <<>> \in Seq(S)
    OBVIOUS
  <2> QED BY <1>1, <1>3, <1>4, <1>5, <2>1 DEF Configs
<1>6. CASE d.chain # <<>>
  BY <1>1, <1>4, <1>6, PopIntoKeeps
<1> QED BY <1>5, <1>6

LEMMA ApplyClosureMakes ==
  ASSUME WellFormed(code), NEW S, NEW c \in Configs(S), Sound(S, Len(c.conts)), NEW v \in Closures(S)
  PROVE  Made(c, ApplyClosure(code, c, v).cfg,
              ApplyClosure(code, c, v).f, ApplyClosure(code, c, v).env, S)
<1> DEFINE G == Grow(S, Len(c.conts))
           fn == code[v.f]
           params == fn.params - v.skip
           d == PushLCont(c)
           n == IF params < Len(c.olist) THEN params ELSE Len(c.olist)
           seq == [t |-> "seq", olist |-> c.olist]
           s == ApplyClosure(code, c, v)
<1> SUFFICES Made(c, s.cfg, s.f, s.env, S)
  OBVIOUS
<1>1. /\ c.olist \in Seq(S) /\ Len(c.olist) \in Nat /\ Len(c.conts) \in Nat
      /\ Given \subseteq S /\ c.chain \in Seq(Cells(S))
  BY DEF Configs, Sound
<1>2. S \subseteq G /\ Given \subseteq G
  BY <1>1, GrowIsSound
<1>3. /\ v \in [t : {"clo"}, f : DOMAIN code, skip : Nat, env : Seq(S)]
      /\ v.f \in DOMAIN code /\ v.skip \in Nat /\ v.env \in Seq(S)
      /\ Scope(code, v.f) + v.skip <= Len(v.env)
      /\ fn.variadic \/ v.skip <= fn.params
  BY DEF Closures
<1>4. /\ Scope(code, v.f) \in Nat /\ fn.params \in Nat /\ fn.variadic \in BOOLEAN
      /\ ~fn.variadic => Visible(code, v.f) = Scope(code, v.f) + fn.params
      /\ fn.variadic => Visible(code, v.f) = Scope(code, v.f) + 1
  BY <1>3, Program
<1>5. seq \in G
  BY <1>1 DEF Grow
<1> HIDE DEF G
<1>6. d \in Configs(S) /\ d.conts = c.conts
  BY <1>1, PushLContKeeps
<1>7. c \in Configs(G) /\ d \in Configs(G) /\ v.env \in Seq(G) /\ <<>> \in Seq(G)
  <2>1. Configs(S) \subseteq Configs(G) /\ Seq(S) \subseteq Seq(G)
    BY <1>2, ConfigsGrow
  <2>2. <<>> \in Seq(G)
    OBVIOUS
  <2> QED BY <1>3, <1>6, <2>1, <2>2, Zenon
<1>8. ASSUME NEW e \in Configs(G), e.conts = c.conts,
              NEW f, NEW env, f = "none" \/ Runnable(f, env, G)
       PROVE  Made(c, e, f, env, S)
  BY <1>8, MadeOf DEF G
<1>9. CASE fn.variadic
  <2>1. s = [cfg |-> [d EXCEPT !.olist = <<>>], f |-> v.f, env |-> Bind(v.env, <<seq>>)]
    BY <1>9 DEF ApplyClosure
  <2> HIDE DEF seq
  <2>2. PICK q \in Seq(G) : q = <<seq>> /\ Len(q) = 1
    <3>1. <<seq>> \in Seq(G) /\ Len(<<seq>>) = 1
      BY <1>5
    <3> QED BY <3>1
  <2>3. Bind(v.env, q) \in Seq(G) /\ Len(Bind(v.env, q)) = 1 + Len(v.env)
    BY <1>7, <2>2, BindSeq
  <2>4. Visible(code, v.f) <= 1 + Len(v.env)
    BY <1>3, <1>4, <1>9
  <2>5. Runnable(v.f, Bind(v.env, q), G)
    BY <1>3, <2>3, <2>4 DEF Runnable
  <2> HIDE DEF d
  <2>6. [d EXCEPT !.olist = <<>>] \in Configs(G) /\ [d EXCEPT !.olist = <<>>].conts = c.conts
    BY <1>6, <1>7 DEF Configs
  <2>7. s.cfg = [d EXCEPT !.olist = <<>>] /\ s.f = v.f /\ s.env = Bind(v.env, q)
    BY <2>1, <2>2
  <2> HIDE DEF s
  <2> QED BY <1>8, <2>5, <2>6, <2>7
<1>10. CASE ~fn.variadic /\ params = 0
  <2> DEFINE e == IF c.olist = <<>> THEN d ELSE Push(d, seq)
  <2>1. s = [cfg |-> [e EXCEPT !.olist = <<>>], f |-> v.f, env |-> v.env]
    BY <1>10 DEF ApplyClosure
  <2>2. e \in Configs(G) /\ e.conts = c.conts
    BY <1>5, <1>6, <1>7, PushKeeps
  <2>3. Runnable(v.f, v.env, G)
    BY <1>3, <1>4, <1>7, <1>10 DEF Runnable
  <2> HIDE DEF e
  <2>4. [e EXCEPT !.olist = <<>>] \in Configs(G) /\ [e EXCEPT !.olist = <<>>].conts = c.conts
    BY <1>7, <2>2 DEF Configs
  <2>5. s.cfg = [e EXCEPT !.olist = <<>>] /\ s.f = v.f /\ s.env = v.env
    BY <2>1
  <2> HIDE DEF s
  <2> QED BY <1>8, <2>3, <2>4, <2>5
<1>11. CASE ~fn.variadic /\ params > 0 /\ n > 0
  <2> DEFINE some == SubSeq(c.olist, 1, n)
             rest == SubSeq(c.olist, n + 1, Len(c.olist))
             w == [v EXCEPT !.skip = @ + n, !.env = Bind(@, some)]
             e == [c EXCEPT !.op = w, !.olist = rest]
  <2>1. s = Done(e)
    BY <1>11 DEF ApplyClosure
  <2>2. n \in Nat /\ n <= Len(c.olist) /\ v.skip + n <= fn.params
    BY <1>1, <1>3, <1>4, <1>11, SMTT(30)
  <2> HIDE DEF n
  <2>3. some \in Seq(S) /\ Len(some) = n /\ rest \in Seq(S)
    BY <1>1, <2>2
  <2> HIDE DEF some
  <2>4. Bind(v.env, some) \in Seq(S) /\ Len(Bind(v.env, some)) = n + Len(v.env)
    BY <1>3, <2>3, BindSeq
  <2>5. Scope(code, v.f) + (v.skip + n) <= n + Len(v.env)
    BY <1>3, <1>4, <2>2
  <2>6. v.skip + n \in Nat
    BY <1>3, <2>2
  <2>7. /\ w \in [t : {"clo"}, f : DOMAIN code, skip : Nat, env : Seq(S)]
        /\ w.f = v.f /\ w.skip = v.skip + n /\ w.env = Bind(v.env, some)
    BY <1>3, <2>4, <2>6
  <2> HIDE DEF w
  <2>8. w \in Closures(S)
    BY <2>2, <2>4, <2>5, <2>7 DEF Closures
  <2>9. w \in G
    BY <2>8 DEF G, Grow
  <2>10. rest \in Seq(G)
    BY <1>2, <2>3, SeqGrows, Zenon
  <2> HIDE DEF rest
  <2>11. e \in Configs(G) /\ e.conts = c.conts
    BY <1>7, <2>9, <2>10 DEF Configs
  <2>12. s.cfg = e /\ s.f = "none" /\ s.env = <<>>
    BY <2>1 DEF Done
  <2> HIDE DEF s
  <2> QED BY <1>8, <2>11, <2>12
<1>12. CASE ~fn.variadic /\ params > 0 /\ n = 0
  <2>1. v \in G
    BY DEF G, Grow
  <2>2. PICK q \in Seq(G) : q = <<v>>
    BY <2>1, One
  <2>3. CASE c.lcont # None
    <3>1. s = Done([c EXCEPT !.op = c.lcont, !.lcont = None, !.olist = <<v>>])
      BY <1>12, <2>3 DEF ApplyClosure
    <3>2. c.lcont \in G /\ None \in G
      BY <1>2, <1>7 DEF Configs, Given
    <3> DEFINE e == [c EXCEPT !.op = c.lcont, !.lcont = None, !.olist = q]
    <3>3. e \in Configs(G) /\ e.conts = c.conts
      BY <1>7, <3>2 DEF Configs
    <3>4. s.cfg = e /\ s.f = "none" /\ s.env = <<>>
      BY <2>2, <3>1 DEF Done
    <3> HIDE DEF s
    <3> QED BY <1>8, <3>3, <3>4
  <2>4. CASE c.lcont = None /\ c.chain # <<>>
    <3> DEFINE p == PopInto(c)
               e == [p EXCEPT !.olist = q]
    <3>1. s = Done(e)
      BY <1>12, <2>2, <2>4 DEF ApplyClosure
    <3>2. p \in Configs(G) /\ p.conts = c.conts
      BY <1>7, <2>4, PopIntoKeeps
    <3> HIDE DEF p
    <3>3. e \in Configs(G) /\ e.conts = c.conts
      BY <3>2 DEF Configs
    <3>4. s.cfg = e /\ s.f = "none" /\ s.env = <<>>
      BY <3>1 DEF Done
    <3> HIDE DEF s
    <3> QED BY <1>8, <3>3, <3>4
  <2>5. CASE c.lcont = None /\ c.chain = <<>>
    <3>1. s = Done(Fail(c))
      BY <1>12, <2>5 DEF ApplyClosure
    <3>2. s.cfg = Fail(c) /\ s.f = "none" /\ s.env = <<>>
      BY <3>1 DEF Done
    <3> QED BY <3>2, FailMakes
  <2> QED BY <2>3, <2>4, <2>5
<1>13. params >= 0 \/ fn.variadic
  BY <1>3, <1>4
<1> QED BY <1>1, <1>3, <1>4, <1>9, <1>10, <1>11, <1>12, <1>13

LEMMA StepMakes ==
  ASSUME WellFormed(code), NEW S, NEW c \in Configs(S), Sound(S, Len(c.conts))
  PROVE  Made(c, StepTo(code, c).cfg, StepTo(code, c).f, StepTo(code, c).env, S)
<1> DEFINE s == StepTo(code, c)
<1>1. /\ c.op \in S /\ Fits(c.op, S, Len(c.conts)) /\ Given \subseteq S /\ Len(c.conts) \in Nat
      /\ DOMAIN c.conts = 1 .. Len(c.conts)
  BY DEF Configs, Sound
<1>2. ASSUME NEW d \in Configs(S), d.conts = c.conts, s = Done(d)
      PROVE  Made(c, s.cfg, s.f, s.env, S)
  <2>1. S \subseteq Grow(S, Len(c.conts))
    BY <1>1, GrowIsSound
  <2>2. d \in Configs(Grow(S, Len(c.conts)))
    BY <2>1, ConfigsGrow
  <2>3. s.cfg = d /\ s.f = "none" /\ s.env = <<>>
    BY <1>2 DEF Done
  <2> QED BY <1>2, <2>2, <2>3, MadeOf
<1>3. CASE c.op.t = "null"
  <2>1. s = Done(ApplyNull(c))
    BY <1>3 DEF StepTo
  <2> QED BY <1>1, <1>2, <2>1, ApplyNullKeeps
<1>4. CASE c.op.t = "seq"
  <2>1. s = Done(ApplySeq(c, c.op))
    BY <1>4 DEF StepTo
  <2>2. c.op.olist \in Seq(S)
    BY <1>1, <1>4 DEF Fits
  <2> QED BY <1>1, <1>2, <2>1, <2>2, ApplySeqKeeps
<1>5. CASE c.op.t = "prim"
  <2>1. s = Done(PrimStep(c, c.op.p)) /\ c.op.p \in DOMAIN Arity
    BY <1>1, <1>5 DEF StepTo, Fits
  <2>2. s.cfg = PrimStep(c, c.op.p) /\ s.f = "none" /\ s.env = <<>>
    BY <2>1 DEF Done
  <2> QED BY <2>1, <2>2, PrimMakes
<1>6. CASE c.op.t = "cont"
  <2>1. s = Done(ApplyCont(c, c.op))
    BY <1>6 DEF StepTo
  <2>2. c.op.k \in DOMAIN c.conts
    BY <1>1, <1>6 DEF Fits
  <2> QED BY <1>1, <1>2, <2>1, <2>2, ApplyContKeeps
<1>7. CASE c.op.t = "clo"
  <2>1. s = ApplyClosure(code, c, c.op) /\ c.op \in Closures(S)
    BY <1>1, <1>7 DEF StepTo, Fits
  <2> QED BY <2>1, ApplyClosureMakes
<1>8. CASE c.op.t \notin {"null", "seq", "prim", "cont", "clo"}
  <2>1. s = Done(Fail(c))
    BY <1>8 DEF StepTo
  <2> QED BY <1>1, <1>2, <2>1, FailKeeps
<1> QED BY <1>3, <1>4, <1>5, <1>6, <1>7, <1>8

----------------------------------------------------------------------------
(***************************************************************************)
(* The invariants.                                                         *)
(***************************************************************************)
\* The value that lets Bodies go on, and one that Rust functions return.
Going(x, S) == x = Apply \/ \E f, env : x = Enter(f, env) /\ Runnable(f, env, S)

Comes(x, S) == x \in {Vm, Return, Leave, Escape, Err} \/ Going(x, S)

RustCalls(S) ==
  {f \in [id : Nat, base : Seq(Cells(S)), conts : SUBSET Nat, lc : DOMAIN code, env : Seq(S)] :
     Passable(f.lc, f.env, S)}

\* All values are of S.
Typed(S) ==
  /\ prog \in Programs
  /\ Sound(S, Len(cfg.conts)) /\ cfg \in Configs(S)
  /\ Comes(next, S)
  /\ frames \in Seq(RustCalls(S))
  /\ ids \in Nat

TypeInv == \E S : Typed(S)

\* Rust calls have numbers of their own, higher the further in they are.
Numbered ==
  \A i \in DOMAIN frames :
    /\ 0 < frames[i].id /\ frames[i].id <= ids
    /\ \A j \in DOMAIN frames : j < i => frames[j].id < frames[i].id

\* A Rust call knows the continuations that belong to it, and no others.
Known ==
  \A i \in DOMAIN frames : \A k \in frames[i].conts :
    k \in DOMAIN cfg.conts /\ cfg.conts[k].owner = frames[i].id

Belongs(k) ==
  \E i \in DOMAIN frames : /\ frames[i].id = cfg.conts[k].owner
                           /\ k \in frames[i].conts
                           /\ EndsWith(cfg.conts[k].chain, frames[i].base)

Owned == \A k \in DOMAIN cfg.conts : cfg.conts[k].owner # 0 => Belongs(k)

Nested == \A i \in 2 .. Len(frames) : EndsWith(frames[i].base, frames[i - 1].base)

Inside(c, x) ==
  /\ x # Err /\ frames # <<>> => EndsWith(c.chain, Last(frames).base)
  /\ x = Vm => frames = <<>>
  /\ x = Return => frames # <<>> /\ SameChain(c.chain, Last(frames).base)

NestInv == Numbered /\ Known /\ Owned /\ Nested /\ Inside(cfg, next)

LEMMA NestIsEnough == ASSUME NestInv PROVE CallsNest
  BY DEF NestInv, Owned, Belongs, Nested, Inside, CallsNest

LEMMA IsWellFormed == ASSUME NEW S, Typed(S) PROVE WellFormed(code)
  BY ProgramAssumption DEF Typed, code

\* prog stays: what is typed by it is typed after a step.
LEMMA TypedNext ==
  ASSUME prog' = prog, prog \in Programs, NEW S, Sound(S, Len(cfg'.conts)), cfg' \in Configs(S),
         Comes(next', S), frames' \in Seq(RustCalls(S)), ids' \in Nat
  PROVE  TypeInv'
<1>1. code' = code
  BY DEF code
<1>2. Closures(S)' = Closures(S)
  BY <1>1 DEF Closures, Scope
<1>3. \A v : \A n : Fits(v, S, n)' = Fits(v, S, n)
  BY <1>2 DEF Fits
<1>4. Sound(S, Len(cfg.conts))'
  BY <1>1, <1>3 DEF Sound
<1>5. (cfg \in Configs(S))'
  BY DEF Configs
<1>6. Comes(next, S)'
  BY <1>1 DEF Comes, Going, Runnable, Visible, Scope, Enter, Apply, Vm, Return, Leave, Escape, Err
<1>7. RustCalls(S)' = RustCalls(S)
  BY <1>1 DEF RustCalls, Passable, Scope
<1>8. (frames \in Seq(RustCalls(S)))'
  BY <1>7
<1>9. Typed(S)'
  BY <1>4, <1>5, <1>6, <1>8 DEF Typed
<1> QED BY <1>9 DEF TypeInv

Inv == TypeInv /\ NestInv

LEMMA TypedIs ==
  ASSUME NEW S, Typed(S)
  PROVE  /\ prog \in Programs /\ WellFormed(code) /\ Sound(S, Len(cfg.conts)) /\ cfg \in Configs(S)
         /\ Comes(next, S) /\ frames \in Seq(RustCalls(S)) /\ ids \in Nat
         /\ Given \subseteq S /\ Len(cfg.conts) \in Nat /\ cfg.chain \in Seq(Cells(S))
<1>1. /\ prog \in Programs /\ Sound(S, Len(cfg.conts)) /\ cfg \in Configs(S)
      /\ Comes(next, S) /\ frames \in Seq(RustCalls(S)) /\ ids \in Nat
  BY DEF Typed
<1>2. Given \subseteq S
  BY <1>1 DEF Sound
<1>3. Len(cfg.conts) \in Nat /\ cfg.chain \in Seq(Cells(S))
  BY <1>1 DEF Configs
<1> QED BY <1>1, <1>2, <1>3, IsWellFormed, Zenon

LEMMA CallsGrow ==
  ASSUME NEW S, NEW T, S \subseteq T
  PROVE  Seq(RustCalls(S)) \subseteq Seq(RustCalls(T))
<1>1. Seq(S) \subseteq Seq(T) /\ Seq(Cells(S)) \subseteq Seq(Cells(T))
  BY ConfigsGrow
<1>2. RustCalls(S) \subseteq RustCalls(T)
  <2> SUFFICES ASSUME NEW f \in RustCalls(S) PROVE f \in RustCalls(T)
    OBVIOUS
  <2> QED BY <1>1 DEF RustCalls, Passable
<1> QED BY <1>2, SeqGrows

\* The rust calls and the continuations stay as they are.
LEMMA Steady ==
  ASSUME NEW S, Typed(S), NestInv, NEW T, S \subseteq T,
         Sound(T, Len(cfg.conts)), cfg' \in Configs(T), cfg'.conts = cfg.conts, Comes(next', T),
         prog' = prog, frames' = frames, ids' = ids,
         Inside(cfg', next')
  PROVE  Inv'
<1>1. /\ prog \in Programs /\ frames \in Seq(RustCalls(S)) /\ ids \in Nat
  BY TypedIs
<1>2. frames' \in Seq(RustCalls(T))
  BY <1>1, CallsGrow
<1>3. Sound(T, Len(cfg'.conts)) /\ ids' \in Nat
  BY <1>1
<1>4. TypeInv'
  BY <1>1, <1>2, <1>3, TypedNext
<1>5. NestInv'
  <2>1. Numbered'
    BY DEF NestInv, Numbered
  <2>2. Known'
    BY DEF NestInv, Known
  <2>3. Owned'
    BY DEF NestInv, Owned, Belongs
  <2>4. Nested'
    BY DEF NestInv, Nested
  <2>5. Inside(cfg, next)'
    BY DEF Inside
  <2> QED BY <2>1, <2>2, <2>3, <2>4, <2>5 DEF NestInv
<1> QED BY <1>4, <1>5 DEF Inv

LEMMA LastCall ==
  ASSUME NEW S, frames \in Seq(RustCalls(S)), frames # <<>>
  PROVE  /\ Len(frames) \in DOMAIN frames /\ Last(frames) = frames[Len(frames)]
         /\ Last(frames) \in RustCalls(S)
         /\ Last(frames).base \in Seq(Cells(S)) /\ Last(frames).id \in Nat
         /\ Last(frames).lc \in DOMAIN code /\ Last(frames).env \in Seq(S)
         /\ Passable(Last(frames).lc, Last(frames).env, S)
<1>1. Len(frames) \in Nat /\ Len(frames) # 0 /\ DOMAIN frames = 1 .. Len(frames)
  OBVIOUS
<1>2. Last(frames) = frames[Len(frames)]
  BY DEF Last
<1>3. Len(frames) \in DOMAIN frames /\ frames[Len(frames)] \in RustCalls(S)
  BY <1>1
<1> QED BY <1>2, <1>3 DEF RustCalls

\* The same, while Bodies are run and the CChain only gets longer.
LEMMA Onward ==
  ASSUME NEW S, Typed(S), NestInv, next # Err, NEW T, S \subseteq T,
         Sound(T, Len(cfg.conts)), cfg' \in Configs(T), cfg'.conts = cfg.conts,
         Comes(next', T), next' \notin {Vm, Return},
         prog' = prog, frames' = frames, ids' = ids,
         next' # Err => \A b \in Seq(Cells(S)) : EndsWith(cfg.chain, b) => EndsWith(cfg'.chain, b)
  PROVE  Inv'
<1>1. ASSUME next' # Err, frames # <<>> PROVE EndsWith(cfg'.chain, Last(frames).base)
  <2>1. EndsWith(cfg.chain, Last(frames).base)
    BY <1>1 DEF NestInv, Inside
  <2>2. Last(frames).base \in Seq(Cells(S))
    BY <1>1, TypedIs, LastCall
  <2> QED BY <1>1, <2>1, <2>2
<1>2. Inside(cfg', next')
  BY <1>1 DEF Inside
<1> QED BY <1>2, Steady

----------------------------------------------------------------------------
(***************************************************************************)
(* The transpiled code of a Body.                                          *)
(***************************************************************************)
LEMMA GoingOn ==
  ASSUME NEW S, NEW x, Going(x, S)
  PROVE  Comes(x, S) /\ x \notin {Vm, Return, Leave, Escape, Err}
<1>1. x.n \in {"apply", "enter"}
  BY DEF Going, Apply, Enter
<1>2. x \notin {Vm, Return, Leave, Escape, Err}
  BY <1>1 DEF Vm, Return, Leave, Escape, Err
<1> QED BY <1>2 DEF Comes

LEMMA EnterRuns ==
  ASSUME NEW S, Typed(S), next.n = "enter"
  PROVE  Runnable(next.f, next.env, S) /\ next # Err /\ next.f \in DOMAIN code
<1>1. next \notin {Vm, Return, Leave, Escape, Err} /\ next # Apply
  BY DEF Vm, Return, Leave, Escape, Err, Apply
<1>2. PICK f, env : next = Enter(f, env) /\ Runnable(f, env, S)
  BY <1>1 DEF Typed, Comes, Going
<1>3. next.f = f /\ next.env = env
  BY <1>2 DEF Enter
<1> QED BY <1>1, <1>2, <1>3 DEF Runnable

LEMMA RunnableGrows ==
  ASSUME NEW S, NEW T, S \subseteq T
  PROVE  /\ \A f, env : Runnable(f, env, S) => Runnable(f, env, T)
         /\ \A f, env : Passable(f, env, S) => Passable(f, env, T)
         /\ \A x : Going(x, S) => Going(x, T)
<1>1. Seq(S) \subseteq Seq(T)
  BY ConfigsGrow
<1> QED BY <1>1 DEF Runnable, Passable, Going

LEMMA ClearedKeeps ==
  ASSUME NEW S, Typed(S)
  PROVE  Cleared \in Configs(S) /\ Cleared.conts = cfg.conts /\ Cleared.chain = cfg.chain
<1>1. Null \in S /\ None \in S /\ cfg \in Configs(S)
  BY TypedIs DEF Given
<1>2. <<>> \in Seq(S)
  OBVIOUS
<1> QED BY <1>1, <1>2 DEF Cleared, Configs

\* Values are passed on in the CChain there is.
LEMMA PassKeeps ==
  ASSUME WellFormed(code), NEW S, NEW c \in Configs(S), Sound(S, Len(c.conts)),
         NEW env, NEW lc, lc = "none" \/ Passable(lc, env, S)
  PROVE  /\ PassResults(c, env, lc)[1] \in Configs(Grow(S, Len(c.conts)))
         /\ PassResults(c, env, lc)[1].conts = c.conts
         /\ PassResults(c, env, lc)[1].chain = c.chain
         /\ Going(PassResults(c, env, lc)[2], Grow(S, Len(c.conts)))
<1> DEFINE G == Grow(S, Len(c.conts))
           r == PassResults(c, env, lc)
<1>1. Len(c.conts) \in Nat /\ c.olist \in Seq(S)
  BY DEF Configs
<1>2. S \subseteq G
  BY <1>1, GrowIsSound
<1>3. c \in Configs(G)
  BY <1>2, ConfigsGrow
<1>4. lc # "none" => Clo(lc, env) \in G
  BY LContGrows
<1> HIDE DEF G
<1>5. CASE lc = "none"
  <2>1. r = <<c, Apply>>
    BY <1>5 DEF PassResults
  <2> QED BY <1>3, <2>1 DEF Going, G
<1>6. CASE lc # "none" /\ (code[lc].variadic \/ Len(c.olist) # code[lc].params)
  <2>1. r = <<[c EXCEPT !.op = Clo(lc, env)], Apply>>
    BY <1>6 DEF PassResults
  <2> DEFINE d == [c EXCEPT !.op = Clo(lc, env)]
  <2>2. d \in Configs(G) /\ d.conts = c.conts /\ d.chain = c.chain
    BY <1>3, <1>4, <1>6 DEF Configs
  <2>3. r[1] = d /\ r[2] = Apply
    BY <2>1
  <2>4. Going(r[2], G)
    BY <2>3 DEF Going
  <2> HIDE DEF d, r
  <2>5. r[1] \in Configs(G) /\ r[1].conts = c.conts /\ r[1].chain = c.chain /\ Going(r[2], G)
    BY <2>2, <2>3, <2>4
  <2> QED BY <2>5 DEF r, G
<1>7. CASE lc # "none" /\ ~code[lc].variadic /\ Len(c.olist) = code[lc].params
  <2> DEFINE d == [c EXCEPT !.olist = <<>>]
  <2>1. r = <<d, Enter(lc, Bind(env, c.olist))>>
    BY <1>7 DEF PassResults
  <2>2. lc \in DOMAIN code /\ env \in Seq(S) /\ Scope(code, lc) <= Len(env)
    BY <1>7 DEF Passable
  <2>3. Bind(env, c.olist) \in Seq(S) /\ Len(Bind(env, c.olist)) = Len(c.olist) + Len(env)
    BY <1>1, <2>2, BindSeq
  <2>4. Visible(code, lc) <= Len(c.olist) + Len(env)
    BY <1>7, <2>2, Program
  <2>5. Runnable(lc, Bind(env, c.olist), S)
    BY <2>2, <2>3, <2>4 DEF Runnable
  <2>6. Runnable(lc, Bind(env, c.olist), G)
    BY <1>2, <2>5, RunnableGrows
  <2>7. <<>> \in Seq(G)
    OBVIOUS
  <2>8. d \in Configs(G) /\ d.conts = c.conts /\ d.chain = c.chain
    BY <1>3, <2>7 DEF Configs
  <2>9. r[1] = d /\ r[2] = Enter(lc, Bind(env, c.olist))
    BY <2>1
  <2>10. Going(r[2], G)
    BY <2>6, <2>9 DEF Going
  <2> HIDE DEF d, r
  <2>11. r[1] \in Configs(G) /\ r[1].conts = c.conts /\ r[1].chain = c.chain /\ Going(r[2], G)
    BY <2>8, <2>9, <2>10
  <2> QED BY <2>11 DEF r, G
<1> QED BY <1>5, <1>6, <1>7

\* Values for the Rust call that runs go back to it from its CChain only.
LEMMA ToCallerIs ==
  ASSUME NEW S, NEW c
  PROVE  /\ Comes(ToCaller(c), S) /\ ToCaller(c) \notin {Vm, Err}
         /\ ToCaller(c) = Return => frames # <<>> /\ SameChain(c.chain, Last(frames).base)
<1>1. Return \notin {Vm, Err, Apply} /\ Apply \notin {Vm, Err}
  BY DEF Return, Vm, Err, Apply
<1> QED BY <1>1 DEF ToCaller, Comes, Going

\* What a Body gives: its operands, its Operator and its LCont.
LEMMA BodyGives ==
  ASSUME NEW S, Typed(S), next.n = "enter"
  PROVE  LET G == Grow(S, Len(cfg.conts)) IN
         /\ S \subseteq G /\ Given \subseteq G /\ Sound(G, Len(cfg.conts)) /\ Cleared \in Configs(G)
         /\ cfg \in Configs(G) /\ Len(cfg.conts) \in Nat
         /\ Evals(Body.args, next.env) \in Seq(G) /\ Eval(Body.op, next.env) \in G
         /\ Len(Evals(Body.args, next.env)) = Len(Body.args)
         /\ Body.lc = "none" \/ Passable(Body.lc, next.env, G)
         /\ (IF Body.lc = "none" THEN None ELSE Clo(Body.lc, next.env)) \in G
<1> DEFINE G == Grow(S, Len(cfg.conts))
<1>1. Runnable(next.f, next.env, S)
  BY EnterRuns
<1>2. WellFormed(code) /\ Sound(S, Len(cfg.conts)) /\ Len(cfg.conts) \in Nat /\ Given \subseteq S
      /\ Cleared \in Configs(S) /\ cfg \in Configs(S)
  BY TypedIs, ClearedKeeps
<1>3. S \subseteq G /\ Sound(G, Len(cfg.conts))
  BY <1>2, GrowIsSound
<1>4. /\ Evals(Body.args, next.env) \in Seq(G) /\ Eval(Body.op, next.env) \in G
      /\ Len(Evals(Body.args, next.env)) = Len(Body.args)
  BY <1>1, <1>2, EvalsGrow DEF Body
<1>5. Body.lc # "none" => Passable(Body.lc, next.env, S) /\ Clo(Body.lc, next.env) \in G
  BY <1>1, <1>2, BodyPasses, LContGrows DEF Body
<1> HIDE DEF G
<1>6. Cleared \in Configs(G) /\ cfg \in Configs(G) /\ Given \subseteq G
  BY <1>2, <1>3, ConfigsGrow
<1>7. Body.lc = "none" \/ Passable(Body.lc, next.env, G)
  BY <1>3, <1>5, RunnableGrows
<1>8. (IF Body.lc = "none" THEN None ELSE Clo(Body.lc, next.env)) \in G
  BY <1>5, <1>6 DEF Given
<1> QED BY <1>2, <1>3, <1>4, <1>6, <1>7, <1>8 DEF G

\* Values are passed on to the LCont Function of a Body.
LEMMA Passes ==
  ASSUME NEW S, Typed(S), NestInv, next # Err,
         NEW T, S \subseteq T, Sound(T, Len(cfg.conts)), NEW c \in Configs(T), c.conts = cfg.conts,
         \A b \in Seq(Cells(S)) : EndsWith(cfg.chain, b) => EndsWith(c.chain, b),
         NEW env, NEW lc, lc = "none" \/ Passable(lc, env, T),
         Goes(PassResults(c, env, lc)), prog' = prog, frames' = frames, ids' = ids
  PROVE  Inv'
<1> DEFINE G == Grow(T, Len(c.conts))
<1>1. WellFormed(code) /\ Sound(T, Len(c.conts)) /\ Len(cfg.conts) \in Nat
  BY TypedIs
<1>2. /\ cfg' \in Configs(G) /\ cfg'.conts = cfg.conts /\ cfg'.chain = c.chain /\ Going(next', G)
  BY <1>1, PassKeeps DEF Goes
<1>3. Sound(G, Len(cfg.conts)) /\ T \subseteq G
  BY <1>1, GrowIsSound
<1> HIDE DEF G
<1>4. Comes(next', G) /\ next' \notin {Vm, Return}
  BY <1>2, GoingOn
<1>5. S \subseteq G
  BY <1>3
<1>6. \A b \in Seq(Cells(S)) : EndsWith(cfg.chain, b) => EndsWith(cfg'.chain, b)
  BY <1>2
<1> QED BY <1>2, <1>3, <1>4, <1>5, <1>6, Onward

\* A value is applied.
LEMMA GoesOn ==
  ASSUME NEW S, Typed(S), NestInv, next # Err,
         NEW T, S \subseteq T, Sound(T, Len(cfg.conts)), NEW c \in Configs(T), c.conts = cfg.conts,
         \A b \in Seq(Cells(S)) : EndsWith(cfg.chain, b) => EndsWith(c.chain, b),
         NEW x, Going(x, T), Goes(<<c, x>>), prog' = prog, frames' = frames, ids' = ids
  PROVE  Inv'
<1>1. cfg' = c /\ next' = x
  BY DEF Goes
<1>2. Comes(next', T) /\ next' \notin {Vm, Return}
  BY <1>1, GoingOn
<1> QED BY <1>1, <1>2, Onward

LEMMA ApplyGoes == \A S : Going(Apply, S)
  BY DEF Going

\* A primitive failed.
LEMMA FailsOn ==
  ASSUME NEW S, Typed(S), NestInv, next # Err,
         NEW T, S \subseteq T, Sound(T, Len(cfg.conts)), NEW c \in Configs(T), c.conts = cfg.conts,
         Goes(<<c, Err>>), prog' = prog, frames' = frames, ids' = ids
  PROVE  Inv'
<1>1. cfg' = c /\ next' = Err
  BY DEF Goes
<1>2. Comes(Err, T) /\ Err \notin {Vm, Return}
  BY DEF Comes, Err, Vm, Return
<1> QED BY <1>1, <1>2, Onward

LEMMA DeoptOk ==
  ASSUME NEW S, Typed(S), NestInv, next.n = "enter", DeoptTo(cfg),
         prog' = prog, frames' = frames, ids' = ids
  PROVE  Inv'
<1> DEFINE G == Grow(S, Len(cfg.conts))
           d == LoadBody(code, cfg, next.f, next.env)
<1>1. Runnable(next.f, next.env, S) /\ next # Err
  BY EnterRuns
<1>2. WellFormed(code) /\ Sound(S, Len(cfg.conts)) /\ cfg \in Configs(S)
  BY TypedIs
<1>3. d \in Configs(G) /\ d.conts = cfg.conts /\ d.chain = cfg.chain
  BY <1>1, <1>2, LoadBodyGrows
<1>4. S \subseteq G /\ Sound(G, Len(cfg.conts))
  BY BodyGives
<1>5. Goes(<<d, Apply>>)
  BY DEF DeoptTo
<1> HIDE DEF G, d
<1> QED BY <1>1, <1>3, <1>4, <1>5, ApplyGoes, GoesOn

LEMMA NullPassOk ==
  ASSUME NEW S, Typed(S), NestInv, NullPass
  PROVE  Inv'
<1> DEFINE G == Grow(S, Len(cfg.conts))
           c == [Cleared EXCEPT !.olist = Evals(Body.args, next.env)]
<1>1. /\ next.n = "enter" /\ prog' = prog /\ frames' = frames /\ ids' = ids
      /\ Goes(PassResults(c, next.env, Body.lc)) \/ Goes(<<c, ToCaller(c)>>)
  BY DEF NullPass, Runs, Machine
<1>2. /\ S \subseteq G /\ Sound(G, Len(cfg.conts)) /\ Cleared \in Configs(G)
      /\ Evals(Body.args, next.env) \in Seq(G)
      /\ Body.lc = "none" \/ Passable(Body.lc, next.env, G)
  BY <1>1, BodyGives
<1>3. Cleared.conts = cfg.conts /\ Cleared.chain = cfg.chain /\ next # Err
  BY <1>1, ClearedKeeps, EnterRuns
<1> HIDE DEF G
<1>4. c \in Configs(G) /\ c.conts = cfg.conts /\ c.chain = cfg.chain
  BY <1>2, <1>3 DEF Configs
<1> HIDE DEF c
<1>5. CASE Goes(PassResults(c, next.env, Body.lc))
  BY <1>1, <1>2, <1>3, <1>4, <1>5, Passes
<1>6. CASE Goes(<<c, ToCaller(c)>>)
  <2>1. cfg' = c /\ next' = ToCaller(c)
    BY <1>6 DEF Goes
  <2>2. Comes(next', G) /\ next' \notin {Vm, Err}
        /\ (next' = Return => frames # <<>> /\ SameChain(cfg'.chain, Last(frames).base))
    BY <2>1, ToCallerIs
  <2>3. frames # <<>> => EndsWith(cfg'.chain, Last(frames).base)
    BY <1>3, <1>4, <2>1 DEF NestInv, Inside
  <2>4. Inside(cfg', next')
    BY <2>2, <2>3 DEF Inside
  <2> QED BY <1>1, <1>2, <1>4, <2>1, <2>2, <2>4, Steady
<1> QED BY <1>1, <1>5, <1>6

LEMMA HelperIs ==
  ASSUME NEW b
  PROVE  /\ Helper(b) = "prim_call" => PrimOf(b) \in Chain
         /\ Helper(b) = "finish" => PrimOf(b) \in Direct
         /\ Helper(b) = "if_call" => PrimOf(b) \in Ifs /\ Len(b.args) = Arity[PrimOf(b)]
  BY DEF Helper

\* A primitive applied to the operands of a Body, with some LCont.
LEMMA PrimGives ==
  ASSUME NEW S, Typed(S), next.n = "enter", NEW p \in Direct \cup Chain,
         NEW d, d.chain = cfg.chain, d.conts = cfg.conts, d \in Configs(Grow(S, Len(cfg.conts)))
  PROVE  /\ PrimStep(d, p) \in Configs(Grow(S, Len(cfg.conts))) /\ PrimStep(d, p).conts = cfg.conts
         /\ PrimStep(d, p).op # Broken => PrimStep(d, p).chain = cfg.chain
<1> DEFINE G == Grow(S, Len(cfg.conts))
<1>1. Given \subseteq G
  BY BodyGives
<1>2. p \in Safe \ {"cont_get"}
  BY DEF Safe, Direct, Chain, Ifs
<1> HIDE DEF G
<1>3. d \in Configs(G)
  BY DEF G
<1>4. Keeps(d, PrimStep(d, p), G) /\ (PrimStep(d, p).op # Broken => PrimStep(d, p).chain = d.chain)
  BY <1>1, <1>2, <1>3, SafeKeeps
<1> QED BY <1>4 DEF Keeps, G

LEMMA PrimCallOk ==
  ASSUME NEW S, Typed(S), NestInv, PrimCall
  PROVE  Inv'
<1> DEFINE G == Grow(S, Len(cfg.conts))
           d == [Cleared EXCEPT !.olist = Evals(Body.args, next.env), !.lcont = Mark]
           c == PrimStep(d, PrimOf(Body))
           real == IF Body.lc = "none" THEN None ELSE Clo(Body.lc, next.env)
           e == [c EXCEPT !.lcont = IF @ = Mark THEN real ELSE @]
<1>1. /\ next.n = "enter" /\ prog' = prog /\ frames' = frames /\ ids' = ids
      /\ PrimOf(Body) \in Chain
      /\ IF c.op = Broken THEN Goes(<<c, Err>>)
         ELSE IF c.op = Null /\ c.lcont = None THEN Goes(PassResults(c, next.env, Body.lc))
         ELSE Goes(<<e, Apply>>)
  BY HelperIs DEF PrimCall, Runs, Machine, Fails
<1>2. /\ S \subseteq G /\ Given \subseteq G /\ Sound(G, Len(cfg.conts)) /\ Cleared \in Configs(G)
      /\ Evals(Body.args, next.env) \in Seq(G) /\ real \in G
      /\ Body.lc = "none" \/ Passable(Body.lc, next.env, G)
  BY <1>1, BodyGives
<1>3. Cleared.conts = cfg.conts /\ Cleared.chain = cfg.chain /\ next # Err
  BY <1>1, ClearedKeeps, EnterRuns
<1> HIDE DEF G
<1>4. Mark \in G
  BY <1>2 DEF Mark, Given
<1>5. d \in Configs(G) /\ d.conts = cfg.conts /\ d.chain = cfg.chain
  BY <1>2, <1>3, <1>4 DEF Configs
<1> HIDE DEF d, real
<1>6. c \in Configs(G) /\ c.conts = cfg.conts /\ (c.op # Broken => c.chain = cfg.chain)
  BY <1>1, <1>5, PrimGives DEF G
<1> HIDE DEF c
<1>7. e \in Configs(G) /\ e.conts = cfg.conts /\ e.chain = c.chain
  BY <1>2, <1>6 DEF Configs
<1> HIDE DEF e
<1>8. CASE c.op = Broken
  BY <1>1, <1>2, <1>3, <1>6, <1>8, FailsOn
<1>9. CASE c.op # Broken /\ c.op = Null /\ c.lcont = None
  BY <1>1, <1>2, <1>3, <1>6, <1>9, Passes
<1>10. CASE c.op # Broken /\ ~(c.op = Null /\ c.lcont = None)
  BY <1>1, <1>2, <1>3, <1>6, <1>7, <1>10, GoesOn, ApplyGoes
<1> QED BY <1>8, <1>9, <1>10

LEMMA FinishOk ==
  ASSUME NEW S, Typed(S), NestInv, Finish
  PROVE  Inv'
<1> DEFINE G == Grow(S, Len(cfg.conts))
           d == [Cleared EXCEPT !.olist = Evals(Body.args, next.env)]
           c == PrimStep(d, PrimOf(Body))
           real == IF Body.lc = "none" THEN None ELSE Clo(Body.lc, next.env)
           e == [c EXCEPT !.lcont = real]
<1>1. /\ next.n = "enter" /\ prog' = prog /\ frames' = frames /\ ids' = ids
      /\ PrimOf(Body) \in Direct
      /\ \/ c.op = Broken /\ Goes(<<c, Err>>)
         \/ c.op = Null /\ Goes(PassResults(c, next.env, Body.lc))
         \/ c.op = Null /\ Goes(<<c, ToCaller(c)>>)
         \/ c.op \notin {Broken, Null} /\ Goes(<<e, Apply>>)
  BY HelperIs DEF Finish, Runs, Machine, Fails
<1>2. /\ S \subseteq G /\ Given \subseteq G /\ Sound(G, Len(cfg.conts)) /\ Cleared \in Configs(G)
      /\ Evals(Body.args, next.env) \in Seq(G) /\ real \in G
      /\ Body.lc = "none" \/ Passable(Body.lc, next.env, G)
  BY <1>1, BodyGives
<1>3. Cleared.conts = cfg.conts /\ Cleared.chain = cfg.chain /\ next # Err
  BY <1>1, ClearedKeeps, EnterRuns
<1> HIDE DEF G
<1>4. d \in Configs(G) /\ d.conts = cfg.conts /\ d.chain = cfg.chain
  BY <1>2, <1>3 DEF Configs
<1> HIDE DEF d, real
<1>5. c \in Configs(G) /\ c.conts = cfg.conts /\ (c.op # Broken => c.chain = cfg.chain)
  BY <1>1, <1>4, PrimGives DEF G
<1> HIDE DEF c
<1>6. e \in Configs(G) /\ e.conts = cfg.conts /\ e.chain = c.chain
  BY <1>2, <1>5 DEF Configs
<1> HIDE DEF e
<1>7. Null # Broken
  BY DEF Null, Broken
<1>8. CASE c.op = Broken /\ Goes(<<c, Err>>)
  BY <1>1, <1>2, <1>3, <1>5, <1>8, FailsOn
<1>9. CASE c.op = Null /\ Goes(PassResults(c, next.env, Body.lc))
  BY <1>1, <1>2, <1>3, <1>5, <1>7, <1>9, Passes
<1>10. CASE c.op = Null /\ Goes(<<c, ToCaller(c)>>)
  <2>1. cfg' = c /\ next' = ToCaller(c)
    BY <1>10 DEF Goes
  <2>2. Comes(next', G) /\ next' \notin {Vm, Err}
        /\ (next' = Return => frames # <<>> /\ SameChain(cfg'.chain, Last(frames).base))
    BY <2>1, ToCallerIs
  <2>3. frames # <<>> => EndsWith(cfg'.chain, Last(frames).base)
    BY <1>3, <1>5, <1>7, <1>10, <2>1 DEF NestInv, Inside
  <2>4. Inside(cfg', next')
    BY <2>2, <2>3 DEF Inside
  <2> QED BY <1>1, <1>2, <1>5, <2>1, <2>2, <2>4, Steady
<1>11. CASE c.op \notin {Broken, Null} /\ Goes(<<e, Apply>>)
  BY <1>1, <1>2, <1>3, <1>5, <1>6, <1>11, GoesOn, ApplyGoes
<1> QED BY <1>1, <1>8, <1>9, <1>10, <1>11

LEMMA FusedCallOk ==
  ASSUME NEW S, Typed(S), NestInv, FusedCall
  PROVE  Inv'
<1> DEFINE G == Grow(S, Len(cfg.conts))
           lcont == Clo(Body.lc, next.env)
           c == IF Body.lc = "none" THEN Cleared ELSE Push(Cleared, lcont)
           e == [c EXCEPT !.op = Eval(Body.op, next.env), !.olist = Evals(Body.args, next.env)]
<1>1. /\ next.n = "enter" /\ prog' = prog /\ frames' = frames /\ ids' = ids
      /\ Goes(<<e, Apply>>)
  BY DEF FusedCall, Runs, Machine
<1>2. /\ S \subseteq G /\ Sound(G, Len(cfg.conts)) /\ Cleared \in Configs(G)
      /\ Evals(Body.args, next.env) \in Seq(G) /\ Eval(Body.op, next.env) \in G
      /\ (IF Body.lc = "none" THEN None ELSE lcont) \in G
  BY <1>1, BodyGives
<1>3. Cleared.conts = cfg.conts /\ Cleared.chain = cfg.chain /\ next # Err
  BY <1>1, ClearedKeeps, EnterRuns
<1> HIDE DEF G, lcont
<1>4. /\ c \in Configs(G) /\ c.conts = cfg.conts
      /\ \A b \in Seq(Cells(G)) : EndsWith(cfg.chain, b) => EndsWith(c.chain, b)
  <2>1. CASE Body.lc = "none"
    BY <1>2, <1>3, <2>1
  <2>2. CASE Body.lc # "none"
    <3>1. lcont \in G
      BY <1>2, <2>2
    <3> QED BY <1>2, <1>3, <2>2, <3>1, PushKeeps
  <2> QED BY <2>1, <2>2
<1> HIDE DEF c
<1>5. e \in Configs(G) /\ e.conts = cfg.conts /\ e.chain = c.chain
  BY <1>2, <1>4 DEF Configs
<1> HIDE DEF e
<1>6. \A b \in Seq(Cells(S)) : EndsWith(cfg.chain, b) => EndsWith(e.chain, b)
  BY <1>2, <1>4, <1>5, ConfigsGrow
<1> QED BY <1>1, <1>2, <1>3, <1>5, <1>6, GoesOn, ApplyGoes

----------------------------------------------------------------------------
(***************************************************************************)
(* Rust calls.                                                             *)
(***************************************************************************)
\* A Rust call begins: its base is the CChain there is.
LEMMA Begins ==
  ASSUME NEW S, Typed(S), NestInv, next # Err, NEW T, S \subseteq T, Sound(T, Len(cfg.conts)),
         NEW x, Going(x, T), NEW lc, NEW lenv, Passable(lc, lenv, T),
         cfg' = Cleared, next' = x, ids' = ids + 1, prog' = prog,
         frames' = Append(frames, [id |-> ids + 1, base |-> cfg.chain, conts |-> {},
                                   lc |-> lc, env |-> lenv])
  PROVE  Inv'
<1> DEFINE new == [id |-> ids + 1, base |-> cfg.chain, conts |-> {}, lc |-> lc, env |-> lenv]
           n == Len(frames)
<1>1. /\ prog \in Programs /\ frames \in Seq(RustCalls(S)) /\ ids \in Nat
      /\ cfg.chain \in Seq(Cells(S)) /\ n \in Nat
  BY TypedIs
<1>2. cfg' \in Configs(T) /\ cfg'.conts = cfg.conts /\ cfg'.chain = cfg.chain
  BY ClearedKeeps, ConfigsGrow
<1>3. new \in RustCalls(T)
  <2>1. cfg.chain \in Seq(Cells(T))
    BY <1>1, ConfigsGrow
  <2> QED BY <1>1, <2>1 DEF RustCalls, Passable
<1> HIDE DEF new
<1>4. frames \in Seq(RustCalls(T))
  BY <1>1, CallsGrow
<1>5. /\ frames' \in Seq(RustCalls(T)) /\ Len(frames') = n + 1 /\ DOMAIN frames' = 1 .. n + 1
      /\ DOMAIN frames = 1 .. n
      /\ frames'[n + 1] = new /\ \A i \in DOMAIN frames : frames'[i] = frames[i]
  BY <1>3, <1>4 DEF new
<1>6. new.id = ids + 1 /\ new.base = cfg.chain /\ new.conts = {}
  BY DEF new
<1>7. Comes(next', T) /\ next' \notin {Vm, Return, Err}
  BY GoingOn
<1>8. TypeInv'
  <2>1. ids' \in Nat /\ Sound(T, Len(cfg'.conts))
    BY <1>1, <1>2
  <2> QED BY <1>1, <1>2, <1>5, <1>7, <2>1, TypedNext
<1>9. Numbered'
  <2>1. \A i \in DOMAIN frames : frames[i].id \in Nat
    BY <1>1 DEF RustCalls
  <2> QED BY <1>1, <1>5, <1>6, <2>1 DEF NestInv, Numbered
<1>10. Known'
  <2> SUFFICES ASSUME NEW i \in DOMAIN frames', NEW k \in frames'[i].conts
               PROVE  k \in DOMAIN cfg'.conts /\ cfg'.conts[k].owner = frames'[i].id
    BY DEF Known
  <2>1. i # n + 1
    BY <1>5, <1>6
  <2>2. i \in DOMAIN frames /\ frames'[i] = frames[i]
    BY <1>1, <1>5, <2>1
  <2> QED BY <1>2, <2>2 DEF NestInv, Known
<1>11. Owned'
  <2> SUFFICES ASSUME NEW k \in DOMAIN cfg'.conts, cfg'.conts[k].owner # 0
               PROVE  Belongs(k)'
    BY DEF Owned
  <2>1. PICK i \in DOMAIN frames : /\ frames[i].id = cfg.conts[k].owner
                                   /\ k \in frames[i].conts
                                   /\ EndsWith(cfg.conts[k].chain, frames[i].base)
    BY <1>2 DEF NestInv, Owned, Belongs
  <2>2. i \in DOMAIN frames' /\ frames'[i] = frames[i]
    BY <1>1, <1>5
  <2> QED BY <1>2, <2>1, <2>2 DEF Belongs
<1>12. Nested'
  <2> SUFFICES ASSUME NEW i \in 2 .. n + 1
               PROVE  EndsWith(frames'[i].base, frames'[i - 1].base)
    BY <1>5 DEF Nested
  <2>1. CASE i <= n
    <3>1. i \in DOMAIN frames /\ i - 1 \in DOMAIN frames /\ i \in 2 .. n
      BY <1>1, <1>5, <2>1
    <3> QED BY <1>5, <3>1 DEF NestInv, Nested
  <2>2. CASE i = n + 1
    <3>1. n \in DOMAIN frames /\ i - 1 = n /\ frames # <<>>
      BY <1>1, <1>5, <2>2
    <3>2. EndsWith(cfg.chain, Last(frames).base) /\ Last(frames) = frames[n]
      BY <1>1, <3>1, LastCall DEF NestInv, Inside
    <3> QED BY <1>5, <1>6, <2>2, <3>1, <3>2
  <2> QED BY <1>1, <2>1, <2>2
<1>13. Inside(cfg, next)'
  <2>1. frames' # <<>> /\ Last(frames') = new
    BY <1>1, <1>5 DEF Last
  <2>2. EndsWith(cfg.chain, cfg.chain)
    BY <1>1, EndsSelf
  <2> QED BY <1>2, <1>6, <1>7, <2>1, <2>2 DEF Inside
<1> QED BY <1>8, <1>9, <1>10, <1>11, <1>12, <1>13 DEF Inv, NestInv

LEMMA CallOfOk ==
  ASSUME NEW S, Typed(S), NestInv, next # Err, NEW T, S \subseteq T, Sound(T, Len(cfg.conts)),
         NEW f, NEW env, Runnable(f, env, T),
         NEW lc, NEW lenv, lc = "none" \/ Passable(lc, lenv, T),
         NEW ok \in BOOLEAN, CallOf(f, env, lc, lenv, ok), prog' = prog
  PROVE  Inv'
<1> DEFINE x == Enter(f, env)
<1>1. Going(x, T)
  BY DEF Going
<1> HIDE DEF x
<1>2. CASE lc # "none" /\ ok /\ Len(frames) < MaxDepth
  <2>1. /\ cfg' = Cleared /\ next' = x /\ ids' = ids + 1
        /\ frames' = Append(frames, [id |-> ids + 1, base |-> cfg.chain, conts |-> {},
                                     lc |-> lc, env |-> lenv])
    BY <1>2 DEF CallOf, Goes, x
  <2> QED BY <1>1, <1>2, <2>1, Begins
<1>3. CASE ~(lc # "none" /\ ok /\ Len(frames) < MaxDepth)
  <2> DEFINE lcont == Clo(lc, lenv)
             c == IF lc = "none" THEN Cleared ELSE Push(Cleared, lcont)
             G == Grow(T, Len(cfg.conts))
  <2>1. Goes(<<c, x>>) /\ frames' = frames /\ ids' = ids
    BY <1>3 DEF CallOf, x
  <2>2. Len(cfg.conts) \in Nat /\ WellFormed(code)
    BY TypedIs
  <2>3. Sound(G, Len(cfg.conts)) /\ T \subseteq G
    BY <2>2, GrowIsSound
  <2>4. lc # "none" => lcont \in G
    BY <2>2, LContGrows
  <2> HIDE DEF lcont, G
  <2>5. Going(x, G) /\ S \subseteq G
    BY <1>1, <2>3, RunnableGrows
  <2>6. Cleared \in Configs(G) /\ Cleared.conts = cfg.conts /\ Cleared.chain = cfg.chain
    BY <2>5, ClearedKeeps, ConfigsGrow
  <2>7. /\ c \in Configs(G) /\ c.conts = cfg.conts
        /\ \A b \in Seq(Cells(G)) : EndsWith(cfg.chain, b) => EndsWith(c.chain, b)
    <3>1. CASE lc = "none"
      BY <2>6, <3>1
    <3>2. CASE lc # "none"
      BY <2>4, <2>6, <3>2, PushKeeps
    <3> QED BY <3>1, <3>2
  <2> HIDE DEF c
  <2>8. \A b \in Seq(Cells(S)) : EndsWith(cfg.chain, b) => EndsWith(c.chain, b)
    BY <2>5, <2>7, ConfigsGrow
  <2> QED BY <2>1, <2>3, <2>5, <2>7, <2>8, GoesOn
<1> QED BY <1>2, <1>3

\* A Closure that has a place for each of its values.
LEMMA CallableRuns ==
  ASSUME WellFormed(code), NEW S, NEW v, v.t = "clo" => v \in Closures(S),
         NEW vs \in Seq(S), Callable(v, Len(vs))
  PROVE  Runnable(v.f, Bind(v.env, vs), S)
<1>1. /\ v \in Closures(S) /\ ~code[v.f].variadic /\ code[v.f].params - v.skip = Len(vs)
  BY DEF Callable
<1>2. /\ v.f \in DOMAIN code /\ v.skip \in Nat /\ v.env \in Seq(S)
      /\ Scope(code, v.f) + v.skip <= Len(v.env)
  BY <1>1 DEF Closures
<1>3. Visible(code, v.f) = Scope(code, v.f) + code[v.f].params /\ code[v.f].params \in Nat
      /\ Scope(code, v.f) \in Nat
  BY <1>1, <1>2, Program
<1>4. Bind(v.env, vs) \in Seq(S) /\ Len(Bind(v.env, vs)) = Len(vs) + Len(v.env)
  BY <1>2, BindSeq
<1>5. Visible(code, v.f) <= Len(vs) + Len(v.env)
  BY <1>1, <1>2, <1>3
<1> QED BY <1>2, <1>4, <1>5 DEF Runnable

LEMMA CallOk ==
  ASSUME NEW S, Typed(S), NestInv, Call
  PROVE  Inv'
<1> DEFINE f == Eval(Body.op, next.env)
           args == Evals(Body.args, next.env)
           G == Grow(S, Len(cfg.conts))
<1>1. /\ next.n = "enter" /\ prog' = prog
      /\ \/ /\ Callable(f, Len(args))
            /\ \E ok \in BOOLEAN : CallOf(f.f, Bind(f.env, args), Body.lc, next.env, ok)
         \/ DeoptTo(cfg) /\ frames' = frames /\ ids' = ids
  BY DEF Call, Runs, Machine
<1>2. /\ S \subseteq G /\ Sound(G, Len(cfg.conts))
      /\ args \in Seq(G) /\ f \in G /\ (Body.lc = "none" \/ Passable(Body.lc, next.env, G))
  BY <1>1, BodyGives
<1>3. WellFormed(code) /\ next # Err
  BY <1>1, TypedIs, EnterRuns
<1> HIDE DEF G, f, args
<1>4. f.t = "clo" => f \in Closures(G)
  BY <1>2 DEF Sound, Fits
<1>5. ASSUME Callable(f, Len(args)), NEW ok \in BOOLEAN,
             CallOf(f.f, Bind(f.env, args), Body.lc, next.env, ok)
      PROVE  Inv'
  <2>1. Runnable(f.f, Bind(f.env, args), G)
    BY <1>2, <1>3, <1>4, <1>5, CallableRuns
  <2> QED BY <1>1, <1>2, <1>3, <1>5, <2>1, CallOfOk
<1>6. CASE DeoptTo(cfg) /\ frames' = frames /\ ids' = ids
  BY <1>1, <1>6, DeoptOk
<1> QED BY <1>1, <1>5, <1>6

LEMMA IfCallOk ==
  ASSUME NEW S, Typed(S), NestInv, IfCall
  PROVE  Inv'
<1> DEFINE bool == Condition(Body.args[1], next.env)
           clause == ClauseOf(Body, bool.f = "true")
           G == Grow(S, Len(cfg.conts))
<1>1. /\ next.n = "enter" /\ prog' = prog
      /\ PrimOf(Body) \in Ifs /\ Len(Body.args) = Arity[PrimOf(Body)]
      /\ \/ DeoptTo(cfg) /\ frames' = frames /\ ids' = ids
         \/ /\ IsThunk(clause)
            /\ \E ok \in BOOLEAN : CallOf(clause.f, next.env, Body.lc, next.env, ok)
         \/ Goes(PassResults(Cleared, next.env, Body.lc)) /\ frames' = frames /\ ids' = ids
  BY HelperIs DEF IfCall, Runs, Machine
<1>2. /\ S \subseteq G /\ Sound(G, Len(cfg.conts)) /\ Cleared \in Configs(G)
      /\ (Body.lc = "none" \/ Passable(Body.lc, next.env, G))
  BY <1>1, BodyGives
<1>3. /\ WellFormed(code) /\ next # Err /\ Runnable(next.f, next.env, S)
      /\ Cleared.conts = cfg.conts /\ Cleared.chain = cfg.chain
  BY <1>1, TypedIs, EnterRuns, ClearedKeeps
<1> HIDE DEF G
<1>4. Runnable(next.f, next.env, G)
  BY <1>2, <1>3, RunnableGrows
<1>5. CASE DeoptTo(cfg) /\ frames' = frames /\ ids' = ids
  BY <1>1, <1>5, DeoptOk
<1>6. CASE Goes(PassResults(Cleared, next.env, Body.lc)) /\ frames' = frames /\ ids' = ids
  BY <1>1, <1>2, <1>3, <1>6, Passes
<1>7. ASSUME IsThunk(clause), NEW ok \in BOOLEAN,
             CallOf(clause.f, next.env, Body.lc, next.env, ok)
      PROVE  Inv'
  <2>1. clause.x = "F" /\ code[clause.f].params = 0 /\ ~code[clause.f].variadic
    BY <1>7 DEF IsThunk
  <2>2. clause \in {Body.args[2], Const(Nop)} \/ (clause = Body.args[3] /\ Len(Body.args) = 3)
    BY <1>1 DEF ClauseOf, Ifs, Arity
  <2>3. Len(Body.args) \in {2, 3}
    BY <1>1 DEF Ifs, Arity
  <2>4. clause # Const(Nop)
    BY <2>1 DEF Const
  <2> HIDE DEF clause
  <2>5. DOMAIN Body.args = 1 .. Len(Body.args) /\ \A i \in DOMAIN Body.args : InScope(code, next.f, Body.args[i])
    BY <1>3 DEF WellFormed, Runnable, Body
  <2>6. InScope(code, next.f, clause)
    BY <2>2, <2>3, <2>4, <2>5
  <2>7. clause.f \in DOMAIN code /\ Scope(code, clause.f) <= Visible(code, next.f)
    BY <2>1, <2>6 DEF InScope
  <2>8. Visible(code, clause.f) <= Visible(code, next.f)
    BY <1>3, <2>1, <2>7, Program
  <2>9. Runnable(clause.f, next.env, G)
    <3>1. Visible(code, clause.f) \in Nat /\ Visible(code, next.f) \in Nat
      BY <1>3, <1>4, <2>7, Program DEF Runnable
    <3> QED BY <1>4, <2>7, <2>8, <3>1 DEF Runnable
  <2> QED BY <1>1, <1>2, <1>3, <1>7, <2>9, CallOfOk DEF clause
<1> QED BY <1>1, <1>5, <1>6, <1>7

\* A continuation is made in the innermost Rust call, which learns of it.
LEMMA Makes ==
  ASSUME NEW S, Typed(S), NestInv, next # Err, NEW T, S \subseteq T,
         cfg' \in Configs(T), Sound(T, Len(cfg'.conts)), cfg'.chain = cfg.chain,
         cfg'.conts = Append(cfg.conts, [chain |-> cfg.chain, owner |-> Current]),
         NEW m, Len(m.conts) = Len(cfg.conts) + 1, frames' = Recorded(m),
         Going(next', T), prog' = prog, ids' = ids
  PROVE  Inv'
<1> DEFINE n == Len(frames)
           new == Len(cfg.conts) + 1
           k0 == [chain |-> cfg.chain, owner |-> Current]
<1>1. /\ prog \in Programs /\ frames \in Seq(RustCalls(S)) /\ ids \in Nat
      /\ cfg.chain \in Seq(Cells(S)) /\ n \in Nat /\ Len(cfg.conts) \in Nat
  BY TypedIs
<1>2. /\ cfg.conts \in Seq([chain : Seq(Cells(S)), owner : Nat])
      /\ DOMAIN cfg.conts = 1 .. Len(cfg.conts)
  <2>1. cfg \in Configs(S)
    BY TypedIs
  <2> QED BY <2>1 DEF Configs
<1>3. /\ DOMAIN cfg'.conts = 1 .. new /\ cfg'.conts[new] = k0
      /\ \A k \in DOMAIN cfg.conts : cfg'.conts[k] = cfg.conts[k]
  <2> HIDE DEF k0
  <2>1. cfg'.conts = Append(cfg.conts, k0)
    BY DEF k0
  <2>2. PICK C : cfg.conts \in Seq(C)
    BY <1>2
  <2> QED BY <1>1, <1>2, <2>1, <2>2
<1>4. k0.chain = cfg.chain /\ k0.owner = Current
  OBVIOUS
<1> HIDE DEF k0
<1>5. Comes(next', T) /\ next' \notin {Vm, Return, Err}
  BY GoingOn
<1>6. new \notin DOMAIN cfg.conts /\ \A k \in DOMAIN cfg'.conts : k = new \/ k \in DOMAIN cfg.conts
  BY <1>1, <1>2, <1>3
<1>7. CASE frames = <<>>
  <2>1. frames' = frames /\ frames' = <<>> /\ k0.owner = 0
    BY <1>4, <1>7 DEF Recorded, Current
  <2>2. frames' \in Seq(RustCalls(T)) /\ ids' \in Nat
    BY <1>1, <2>1
  <2>3. TypeInv'
    BY <1>1, <1>5, <2>2, TypedNext
  <2>4. ASSUME NEW k \in DOMAIN cfg'.conts PROVE cfg'.conts[k].owner = 0
    <3>1. CASE k = new
      BY <1>3, <2>1, <3>1
    <3>2. CASE k \in DOMAIN cfg.conts
      <4>1. ~Belongs(k)
        BY <1>7 DEF Belongs
      <4> QED BY <1>3, <3>2, <4>1 DEF NestInv, Owned
    <3> QED BY <1>6, <3>1, <3>2
  <2>5. NestInv'
    BY <1>5, <1>7, <2>1, <2>4 DEF NestInv, Numbered, Known, Owned, Nested, Inside
  <2> QED BY <2>3, <2>5 DEF Inv
<1>8. CASE frames # <<>>
  <2> DEFINE last == frames[n]
             more == [last EXCEPT !.conts = @ \cup {new}]
  <2>1. n \in DOMAIN frames /\ Last(frames) = last /\ last \in RustCalls(S) /\ DOMAIN frames = 1 .. n
    BY <1>1, <1>8, LastCall
  <2>2. /\ frames' = [frames EXCEPT ![n] = more] /\ k0.owner = last.id
    BY <1>4, <1>8, <2>1 DEF Recorded, Current
  <2>3. more \in RustCalls(S) /\ more.id = last.id /\ more.base = last.base
        /\ more.conts = last.conts \cup {new}
    <3> HIDE DEF last
    <3>1. last.conts \cup {new} \in SUBSET Nat
      BY <1>1, <2>1 DEF RustCalls
    <3> HIDE DEF new
    <3> QED BY <2>1, <3>1 DEF RustCalls
  <2> HIDE DEF more
  <2>4. /\ frames' \in Seq(RustCalls(S)) /\ DOMAIN frames' = DOMAIN frames /\ Len(frames') = n
        /\ frames'[n] = more /\ \A i \in DOMAIN frames : i # n => frames'[i] = frames[i]
    BY <1>1, <2>1, <2>2, <2>3
  <2> HIDE DEF last
  <2>5. \A i \in DOMAIN frames : /\ frames'[i].id = frames[i].id
                                 /\ frames'[i].base = frames[i].base
                                 /\ frames[i].conts \subseteq frames'[i].conts
                                 /\ \A k \in frames'[i].conts : k \in frames[i].conts \/ (i = n /\ k = new)
    BY <2>1, <2>3, <2>4 DEF last
  <2>6. TypeInv'
    <3>1. frames' \in Seq(RustCalls(T)) /\ ids' \in Nat
      BY <1>1, <2>4, CallsGrow
    <3> QED BY <1>1, <1>5, <3>1, TypedNext
  <2>7. Numbered'
    BY <2>4, <2>5 DEF NestInv, Numbered
  <2>8. Known'
    <3> SUFFICES ASSUME NEW i \in DOMAIN frames, NEW k \in frames'[i].conts
                 PROVE  k \in DOMAIN cfg'.conts /\ cfg'.conts[k].owner = frames'[i].id
      BY <2>4 DEF Known
    <3>1. CASE k \in frames[i].conts
      <4>1. k \in DOMAIN cfg.conts /\ cfg.conts[k].owner = frames[i].id
        BY <3>1 DEF NestInv, Known
      <4>2. k \in DOMAIN cfg'.conts
        BY <1>1, <1>2, <1>3, <4>1
      <4> QED BY <1>3, <2>5, <4>1, <4>2
    <3>2. CASE i = n /\ k = new
      <4>1. new \in DOMAIN cfg'.conts
        BY <1>1, <1>3
      <4> QED BY <1>3, <2>2, <2>5, <3>2, <4>1 DEF last
    <3> QED BY <2>5, <3>1, <3>2
  <2>9. Owned'
    <3> SUFFICES ASSUME NEW k \in DOMAIN cfg'.conts, cfg'.conts[k].owner # 0
                 PROVE  Belongs(k)'
      BY DEF Owned
    <3>1. CASE k = new
      <4>1. EndsWith(cfg.chain, last.base)
        BY <1>8, <2>1 DEF NestInv, Inside
      <4>2. /\ n \in DOMAIN frames' /\ frames'[n].id = cfg'.conts[k].owner
            /\ k \in frames'[n].conts
            /\ cfg'.conts[k].chain = cfg.chain /\ frames'[n].base = last.base
        BY <1>3, <1>4, <2>1, <2>2, <2>3, <2>4, <3>1
      <4> QED BY <4>1, <4>2 DEF Belongs
    <3>2. CASE k \in DOMAIN cfg.conts
      <4>1. PICK i \in DOMAIN frames : /\ frames[i].id = cfg.conts[k].owner
                                       /\ k \in frames[i].conts
                                       /\ EndsWith(cfg.conts[k].chain, frames[i].base)
        BY <1>3, <3>2 DEF NestInv, Owned, Belongs
      <4>2. /\ i \in DOMAIN frames' /\ frames'[i].id = cfg'.conts[k].owner /\ k \in frames'[i].conts
            /\ EndsWith(cfg'.conts[k].chain, frames'[i].base)
        BY <1>3, <2>4, <2>5, <3>2, <4>1
      <4> QED BY <4>2 DEF Belongs
    <3> QED BY <1>6, <3>1, <3>2
  <2>10. Nested'
    <3> SUFFICES ASSUME NEW i \in 2 .. n
                 PROVE  EndsWith(frames'[i].base, frames'[i - 1].base)
      BY <2>4 DEF Nested
    <3>1. i \in DOMAIN frames /\ i - 1 \in DOMAIN frames
      BY <1>1, <2>1
    <3> QED BY <2>5, <3>1 DEF NestInv, Nested
  <2>11. Inside(cfg, next)'
    <3>1. frames' # <<>> /\ Last(frames') = more
      BY <1>1, <2>1, <2>4 DEF Last
    <3>2. EndsWith(cfg.chain, last.base)
      BY <1>8, <2>1 DEF NestInv, Inside
    <3> QED BY <1>5, <2>3, <3>1, <3>2 DEF Inside
  <2> QED BY <2>6, <2>7, <2>8, <2>9, <2>10, <2>11 DEF Inv, NestInv
<1> QED BY <1>7, <1>8

\* A step without Rust calls.
LEMMA Idle ==
  ASSUME NEW S, Typed(S), NestInv, frames = <<>>, NEW T, S \subseteq T,
         cfg' \in Configs(T), Sound(T, Len(cfg'.conts)),
         cfg'.conts = cfg.conts
           \/ \E chain : cfg'.conts = Append(cfg.conts, [chain |-> chain, owner |-> 0]),
         Comes(next', T), next' # Return, prog' = prog, frames' = frames, ids' = ids
  PROVE  Inv'
<1>1. /\ prog \in Programs /\ frames \in Seq(RustCalls(S)) /\ ids \in Nat /\ cfg \in Configs(S)
  BY TypedIs
<1>2. cfg.conts \in Seq([chain : Seq(Cells(S)), owner : Nat])
  BY <1>1 DEF Configs
<1>3. TypeInv'
  <2>1. frames' \in Seq(RustCalls(T)) /\ ids' \in Nat
    BY <1>1
  <2> QED BY <1>1, <2>1, TypedNext
<1>4. ASSUME NEW k \in DOMAIN cfg.conts PROVE cfg.conts[k].owner = 0
  <2>1. ~Belongs(k)
    BY DEF Belongs
  <2> QED BY <2>1 DEF NestInv, Owned
<1>5. ASSUME NEW k \in DOMAIN cfg'.conts PROVE cfg'.conts[k].owner = 0
  <2>1. CASE cfg'.conts = cfg.conts
    BY <1>4, <2>1
  <2>2. ASSUME NEW chain, cfg'.conts = Append(cfg.conts, [chain |-> chain, owner |-> 0])
        PROVE  cfg'.conts[k].owner = 0
    <3> DEFINE k0 == [chain |-> chain, owner |-> 0]
    <3>1. k0.owner = 0
      OBVIOUS
    <3>2. cfg'.conts = Append(cfg.conts, k0)
      BY <2>2
    <3> HIDE DEF k0
    <3>3. PICK C : cfg.conts \in Seq(C)
      BY <1>2
    <3>4. \/ k \in DOMAIN cfg.conts /\ cfg'.conts[k] = cfg.conts[k]
          \/ cfg'.conts[k] = k0
      BY <3>2, <3>3
    <3> QED BY <1>4, <3>1, <3>4
  <2> QED BY <2>1, <2>2
<1>6. NestInv'
  BY <1>5 DEF NestInv, Numbered, Known, Owned, Nested, Inside
<1> QED BY <1>3, <1>6 DEF Inv

----------------------------------------------------------------------------
(***************************************************************************)
(* The end of a Rust call.                                                 *)
(***************************************************************************)
\* The CFrame of a Rust call on its base.
LEMMA NodeIs ==
  ASSUME WellFormed(code), NEW S, NEW f \in RustCalls(S), NEW n
  PROVE  /\ Node(f) \in Seq(Cells(Grow(S, n)))
         /\ \A b \in Seq(Cells(S)) : EndsWith(f.base, b) => EndsWith(Node(f), b)
<1> DEFINE G == Grow(S, n)
           cell == [clo |-> Clo(f.lc, f.env), id |-> <<0, f.id>>]
<1>1. f.id \in Nat /\ f.base \in Seq(Cells(S)) /\ Passable(f.lc, f.env, S)
  BY DEF RustCalls
<1>2. Clo(f.lc, f.env) \in G
  BY <1>1, LContGrows
<1>3. <<0, f.id>> \in Seq(Int)
  BY <1>1
<1>4. cell \in Cells(G)
  BY <1>2, <1>3 DEF Cells
<1>5. Node(f) = <<cell>> \o f.base
  BY DEF Node
<1>6. S \subseteq G
  BY DEF Grow
<1> HIDE DEF G, cell
<1>7. Seq(Cells(S)) \subseteq Seq(Cells(G))
  BY <1>6, ConfigsGrow, Zenon
<1>8. f.base \in Seq(Cells(G))
  BY <1>1, <1>7, Zenon
<1>9. Node(f) \in Seq(Cells(G))
  BY <1>4, <1>5, <1>8
<1>10. ASSUME NEW b \in Seq(Cells(S)), EndsWith(f.base, b) PROVE EndsWith(Node(f), b)
  <2>1. b \in Seq(Cells(G))
    BY <1>7, Zenon
  <2>2. EndsWith(<<cell>> \o f.base, b)
    BY <1>4, <1>8, <1>10, <2>1, EndsPush
  <2> QED BY <1>5, <2>2
<1> QED BY <1>9, <1>10 DEF G

\* What the continuations of c become when Rust call f ends.
HandedOver(S, c, d, f, parent) ==
  /\ DOMAIN d.conts = DOMAIN c.conts
  /\ \A k \in DOMAIN c.conts \ f.conts : d.conts[k] = c.conts[k]
  /\ \A k \in DOMAIN c.conts \cap f.conts :
       /\ d.conts[k].owner = parent
       /\ \A b \in Seq(Cells(S)) :
            EndsWith(c.conts[k].chain, f.base) /\ EndsWith(f.base, b) => EndsWith(d.conts[k].chain, b)

\* The continuations made in a Rust call get its CFrame.
LEMMA HandOverKeeps ==
  ASSUME WellFormed(code), NEW S, NEW c, NEW f \in RustCalls(S), NEW parent \in Nat,
         c \in Configs(Grow(S, Len(c.conts))),
         c.conts \in Seq([chain : Seq(Cells(S)), owner : Nat])
  PROVE  /\ HandOver(c, f, parent) \in Configs(Grow(S, Len(c.conts)))
         /\ HandOver(c, f, parent).chain = c.chain
         /\ Len(HandOver(c, f, parent).conts) = Len(c.conts)
         /\ HandedOver(S, c, HandOver(c, f, parent), f, parent)
<1> DEFINE n == Len(c.conts)
           G == Grow(S, n)
           K == [chain : Seq(Cells(G)), owner : Nat]
           spliced(k) == Splice(c.conts[k].chain, f.base, Node(f), k)
           conts == [k \in DOMAIN c.conts |-> IF k \in f.conts
                                              THEN [chain |-> spliced(k), owner |-> parent]
                                              ELSE c.conts[k]]
<1>1. HandOver(c, f, parent) = [c EXCEPT !.conts = conts]
  BY DEF HandOver
<1>2. n \in Nat /\ DOMAIN c.conts = 1 .. n /\ f.base \in Seq(Cells(S))
  BY DEF RustCalls
<1>3. S \subseteq G
  BY DEF Grow
<1>4. Node(f) \in Seq(Cells(G)) /\ \A b \in Seq(Cells(S)) : EndsWith(f.base, b) => EndsWith(Node(f), b)
  BY NodeIs
<1> HIDE DEF G
<1>5. Seq(Cells(S)) \subseteq Seq(Cells(G))
  BY <1>3, ConfigsGrow, Zenon
<1>6. f.base \in Seq(Cells(G))
  BY <1>2, <1>5, Zenon
<1>7. ASSUME NEW k \in DOMAIN c.conts
      PROVE  c.conts[k].chain \in Seq(Cells(G)) /\ c.conts[k] \in K
  <2> DEFINE K0 == [chain : Seq(Cells(S)), owner : Nat]
  <2>1. c.conts \in Seq(K0)
    OBVIOUS
  <2> HIDE DEF K0
  <2>2. c.conts[k] \in K0
    BY <1>7, <2>1
  <2> QED BY <1>5, <2>2 DEF K0
<1>8. ASSUME NEW k \in DOMAIN c.conts
      PROVE  /\ spliced(k) \in Seq(Cells(G))
             /\ \A b \in Seq(Cells(S)) :
                  EndsWith(c.conts[k].chain, f.base) /\ EndsWith(f.base, b) => EndsWith(spliced(k), b)
  <2>1. k \in Int
    BY <1>2
  <2>2. /\ spliced(k) \in Seq(Cells(G))
        /\ \A b \in Seq(Cells(G)) :
             EndsWith(c.conts[k].chain, f.base) /\ EndsWith(Node(f), b) => EndsWith(spliced(k), b)
    BY <1>4, <1>6, <1>7, <2>1, SpliceEnds, ZenonT(60)
  <2> HIDE DEF spliced
  <2>3. ASSUME NEW b \in Seq(Cells(S)), EndsWith(c.conts[k].chain, f.base), EndsWith(f.base, b)
        PROVE  EndsWith(spliced(k), b)
    <3>1. b \in Seq(Cells(G)) /\ EndsWith(Node(f), b)
      BY <1>4, <1>5, <2>3, Zenon
    <3> QED BY <2>2, <2>3, <3>1
  <2> QED BY <2>2, <2>3
<1> HIDE DEF spliced
<1>9. conts \in [1 .. n -> K]
  <2> SUFFICES ASSUME NEW k \in 1 .. n PROVE conts[k] \in K
    BY <1>2
  <2> QED BY <1>2, <1>7, <1>8
<1>10. conts \in Seq(K) /\ Len(conts) = n /\ DOMAIN conts = DOMAIN c.conts
  <2> HIDE DEF conts, K
  <2>1. n \in Nat
    BY <1>2
  <2> HIDE DEF n
  <2> QED BY <1>2, <1>9, <2>1
<1>11. /\ \A k \in DOMAIN c.conts \ f.conts : conts[k] = c.conts[k]
       /\ \A k \in DOMAIN c.conts \cap f.conts : conts[k].owner = parent /\ conts[k].chain = spliced(k)
  OBVIOUS
<1> HIDE DEF conts
<1>12. /\ [c EXCEPT !.conts = conts] \in Configs(G)
       /\ [c EXCEPT !.conts = conts].chain = c.chain /\ [c EXCEPT !.conts = conts].conts = conts
  <2>1. c \in Configs(G)
    BY DEF G
  <2> QED BY <1>10, <2>1 DEF Configs
<1> DEFINE d == [c EXCEPT !.conts = conts]
<1> HIDE DEF d
<1>13. d \in Configs(G) /\ d.chain = c.chain /\ d.conts = conts
  BY <1>12 DEF d
<1>14. HandedOver(S, c, d, f, parent)
  BY <1>8, <1>10, <1>11, <1>13 DEF HandedOver
<1> QED BY <1>1, <1>10, <1>13, <1>14 DEF G, d

LEMMA PoppedIs ==
  ASSUME NEW S, frames \in Seq(RustCalls(S)), frames # <<>>
  PROVE  LET n == Len(frames) - 1 IN
         /\ n \in Nat /\ Popped \in Seq(RustCalls(S)) /\ Len(Popped) = n /\ DOMAIN Popped = 1 .. n
         /\ DOMAIN frames = 1 .. n + 1 /\ Last(frames) = frames[n + 1]
         /\ \A i \in 1 .. n :
              /\ Popped[i].id = frames[i].id /\ Popped[i].base = frames[i].base
              /\ Popped[i].conts = frames[i].conts \cup (IF i = n THEN frames[n + 1].conts ELSE {})
<1> DEFINE n == Len(frames) - 1
           rest == Front(frames)
           f == Last(frames)
<1>1. n \in Nat /\ Len(frames) = n + 1 /\ DOMAIN frames = 1 .. n + 1
  OBVIOUS
<1>2. rest \in Seq(RustCalls(S)) /\ Len(rest) = n /\ \A i \in 1 .. n : rest[i] = frames[i]
  BY <1>1 DEF Front
<1>3. f = frames[n + 1] /\ f \in RustCalls(S)
  BY <1>1, LastCall
<1> HIDE DEF f, rest, n
<1>4. CASE n = 0
  <2>1. Popped = rest
    BY <1>2, <1>4 DEF Popped, rest
  <2>2. /\ Popped \in Seq(RustCalls(S)) /\ Len(Popped) = n /\ DOMAIN Popped = 1 .. n
        /\ \A i \in 1 .. n : FALSE
    BY <1>2, <1>4, <2>1
  <2> QED BY <1>1, <1>3, <2>2 DEF n, f
<1>5. CASE n # 0
  <2> DEFINE more == [rest[n] EXCEPT !.conts = @ \cup f.conts]
  <2>1. Popped = [rest EXCEPT ![n] = more]
    BY <1>2, <1>5 DEF Popped, rest, f
  <2>2. rest[n] \in RustCalls(S) /\ n \in 1 .. n
    BY <1>1, <1>2, <1>5
  <2>3. rest[n].conts \cup f.conts \in SUBSET Nat
    BY <1>3, <2>2 DEF RustCalls
  <2>4. /\ more \in RustCalls(S) /\ more.id = rest[n].id /\ more.base = rest[n].base
        /\ more.conts = rest[n].conts \cup f.conts
    BY <2>2, <2>3 DEF RustCalls
  <2> HIDE DEF more
  <2>5. /\ Popped \in Seq(RustCalls(S)) /\ Len(Popped) = n /\ DOMAIN Popped = 1 .. n
        /\ Popped[n] = more /\ \A i \in 1 .. n : i # n => Popped[i] = rest[i]
    BY <1>1, <1>2, <2>1, <2>2, <2>4
  <2>6. \A i \in 1 .. n :
          /\ Popped[i].id = frames[i].id /\ Popped[i].base = frames[i].base
          /\ Popped[i].conts = frames[i].conts \cup (IF i = n THEN frames[n + 1].conts ELSE {})
    BY <1>2, <1>3, <2>4, <2>5
  <2> QED BY <1>1, <1>3, <2>5, <2>6 DEF n, f
<1> QED BY <1>4, <1>5

LEMMA ParentIs ==
  ASSUME NEW S, frames \in Seq(RustCalls(S)), frames # <<>>
  PROVE  LET n == Len(frames) - 1 IN Parent \in Nat /\ Parent = IF n = 0 THEN 0 ELSE frames[n].id
<1>1. Len(frames) \in Nat /\ Len(frames) # 0 /\ DOMAIN frames = 1 .. Len(frames)
  OBVIOUS
<1>2. \A i \in DOMAIN frames : frames[i].id \in Nat
  BY DEF RustCalls
<1> QED BY <1>1, <1>2 DEF Parent

\* A Rust call ends: its continuations end with the base of the one around
\* it, as does its own base.
LEMMA Pops ==
  ASSUME NEW S, Typed(S), NestInv, frames # <<>>, NEW T, S \subseteq T,
         cfg' \in Configs(T), Sound(T, Len(cfg'.conts)),
         NEW c, c \in Configs(Grow(S, Len(cfg.conts))), c.conts = cfg.conts,
         cfg'.conts = HandOver(c, Last(frames), Parent).conts,
         frames' = Popped, Comes(next', T), next' \notin {Vm, Return}, prog' = prog, ids' = ids,
         next' # Err =>
           \A b \in Seq(Cells(S)) : EndsWith(Last(frames).base, b) => EndsWith(cfg'.chain, b)
  PROVE  Inv'
<1> DEFINE n == Len(frames) - 1
           f == Last(frames)
<1>1. /\ prog \in Programs /\ frames \in Seq(RustCalls(S)) /\ ids \in Nat
      /\ cfg \in Configs(S) /\ WellFormed(code)
  BY TypedIs
<1>2. /\ n \in Nat /\ frames' \in Seq(RustCalls(S)) /\ Len(frames') = n /\ DOMAIN frames' = 1 .. n
      /\ DOMAIN frames = 1 .. n + 1 /\ f = frames[n + 1]
      /\ \A i \in 1 .. n :
           /\ frames'[i].id = frames[i].id /\ frames'[i].base = frames[i].base
           /\ frames'[i].conts = frames[i].conts \cup (IF i = n THEN f.conts ELSE {})
  BY <1>1, PoppedIs
<1>3. Parent \in Nat /\ Parent = IF n = 0 THEN 0 ELSE frames[n].id
  BY <1>1, ParentIs
<1>4. f \in RustCalls(S) /\ \A i \in 1 .. n + 1 : frames[i].base \in Seq(Cells(S))
  BY <1>1, <1>2 DEF RustCalls
<1>5. c.conts \in Seq([chain : Seq(Cells(S)), owner : Nat]) /\ c \in Configs(Grow(S, Len(c.conts)))
  BY <1>1 DEF Configs
<1>6. /\ DOMAIN cfg'.conts = DOMAIN cfg.conts
      /\ \A k \in DOMAIN cfg.conts \ f.conts : cfg'.conts[k] = cfg.conts[k]
      /\ \A k \in DOMAIN cfg.conts \cap f.conts :
           /\ cfg'.conts[k].owner = Parent
           /\ \A b \in Seq(Cells(S)) :
                EndsWith(cfg.conts[k].chain, f.base) /\ EndsWith(f.base, b)
                  => EndsWith(cfg'.conts[k].chain, b)
  <2> DEFINE h == HandOver(c, f, Parent)
  <2>1. HandedOver(S, c, h, f, Parent)
    <3> HIDE DEF f, n
    <3> QED BY <1>1, <1>3, <1>4, <1>5, HandOverKeeps
  <2>2. cfg'.conts = h.conts
    OBVIOUS
  <2> HIDE DEF h
  <2> QED BY <2>1, <2>2 DEF HandedOver
<1>7. TypeInv'
  <2>1. frames' \in Seq(RustCalls(T)) /\ ids' \in Nat
    BY <1>1, <1>2, CallsGrow
  <2> QED BY <1>1, <2>1, TypedNext
<1> HIDE DEF n
<1>8. Numbered
  BY DEF NestInv
<1>9. \A i \in 1 .. n : frames[i].id < f.id /\ frames[i].id # f.id
  <2>1. \A i \in 1 .. n + 1 : frames[i].id \in Nat
    BY <1>1, <1>2 DEF RustCalls
  <2> SUFFICES ASSUME NEW i \in 1 .. n PROVE frames[i].id < f.id /\ frames[i].id # f.id
    OBVIOUS
  <2>2. i \in DOMAIN frames /\ n + 1 \in DOMAIN frames /\ i < n + 1
    BY <1>2
  <2>3. frames[i].id < frames[n + 1].id
    BY <1>8, <2>2 DEF Numbered
  <2>4. frames[i].id \in Nat /\ frames[n + 1].id \in Nat
    BY <1>2, <2>1
  <2> QED BY <1>2, <2>3, <2>4
<1>10. n # 0 => n \in 1 .. n /\ n + 1 \in 2 .. Len(frames) /\ EndsWith(f.base, frames[n].base)
  <2>1. n + 1 = Len(frames) /\ (n + 1) - 1 = n
    BY <1>2 DEF n
  <2> QED BY <1>2, <2>1 DEF NestInv, Nested
<1>11. \A i \in 1 .. n + 1 : \A k \in frames[i].conts :
         k \in DOMAIN cfg.conts /\ cfg.conts[k].owner = frames[i].id
  BY <1>2 DEF NestInv, Known
<1>12. Numbered'
  <2> SUFFICES ASSUME NEW i \in 1 .. n
               PROVE  /\ 0 < frames'[i].id /\ frames'[i].id <= ids'
                      /\ \A j \in 1 .. n : j < i => frames'[j].id < frames'[i].id
    BY <1>2 DEF Numbered
  <2>1. i \in DOMAIN frames /\ \A j \in 1 .. n : j \in DOMAIN frames
    BY <1>2
  <2>2. /\ 0 < frames[i].id /\ frames[i].id <= ids
        /\ \A j \in 1 .. n : j < i => frames[j].id < frames[i].id
    BY <1>8, <2>1 DEF Numbered
  <2> QED BY <1>2, <2>2
<1>13. Known'
  <2> SUFFICES ASSUME NEW i \in 1 .. n, NEW k \in frames'[i].conts
               PROVE  k \in DOMAIN cfg'.conts /\ cfg'.conts[k].owner = frames'[i].id
    BY <1>2 DEF Known
  <2>1. i \in 1 .. n + 1 /\ n + 1 \in 1 .. n + 1
    BY <1>2
  <2>2. CASE k \in f.conts
    <3>1. k \in DOMAIN cfg.conts /\ cfg.conts[k].owner = f.id
      BY <1>2, <1>11, <2>1, <2>2
    <3>2. k \notin frames[i].conts
      BY <1>9, <1>11, <2>1, <3>1
    <3>3. i = n
      BY <1>2, <3>2
    <3>4. cfg'.conts[k].owner = Parent /\ Parent = frames[i].id
      BY <1>2, <1>3, <1>6, <2>2, <3>1, <3>3
    <3> QED BY <1>2, <1>6, <3>1, <3>4
  <2>3. CASE k \notin f.conts
    <3>1. k \in frames[i].conts
      BY <1>2, <2>3
    <3> QED BY <1>2, <1>6, <1>11, <2>1, <2>3, <3>1
  <2> QED BY <2>2, <2>3
<1>14. Owned'
  <2> SUFFICES ASSUME NEW k \in DOMAIN cfg'.conts, cfg'.conts[k].owner # 0
               PROVE  Belongs(k)'
    BY DEF Owned
  <2>1. CASE k \in f.conts
    <3>1. cfg'.conts[k].owner = Parent /\ n # 0 /\ Parent = frames[n].id
      BY <1>3, <1>6, <2>1
    <3>2. k \in DOMAIN cfg.conts /\ n + 1 \in 1 .. n + 1
      BY <1>2, <1>6
    <3>3. cfg.conts[k].owner = f.id
      BY <1>2, <1>11, <2>1, <3>2
    <3>4. f.id # 0
      BY <1>2, <1>8, <3>2 DEF Numbered
    <3>5. PICK i \in DOMAIN frames : /\ frames[i].id = cfg.conts[k].owner
                                     /\ EndsWith(cfg.conts[k].chain, frames[i].base)
      BY <3>2, <3>3, <3>4 DEF NestInv, Owned, Belongs
    <3>6. i = n + 1
      BY <1>2, <1>9, <3>3, <3>5
    <3>7. EndsWith(cfg'.conts[k].chain, frames[n].base)
      <4>1. frames[n].base \in Seq(Cells(S)) /\ EndsWith(f.base, frames[n].base)
        BY <1>2, <1>4, <1>10, <3>1
      <4>2. EndsWith(cfg.conts[k].chain, f.base)
        BY <1>2, <3>5, <3>6
      <4> QED BY <1>6, <2>1, <3>2, <4>1, <4>2
    <3>8. /\ n \in DOMAIN frames' /\ frames'[n].id = Parent /\ k \in frames'[n].conts
          /\ frames'[n].base = frames[n].base
      BY <1>2, <1>10, <2>1, <3>1
    <3> QED BY <3>1, <3>7, <3>8 DEF Belongs
  <2>2. CASE k \notin f.conts
    <3>1. k \in DOMAIN cfg.conts /\ cfg'.conts[k] = cfg.conts[k]
      BY <1>6, <2>2
    <3>2. PICK i \in DOMAIN frames : /\ frames[i].id = cfg.conts[k].owner
                                     /\ k \in frames[i].conts
                                     /\ EndsWith(cfg.conts[k].chain, frames[i].base)
      BY <3>1 DEF NestInv, Owned, Belongs
    <3>3. i \in 1 .. n
      BY <1>2, <2>2, <3>2
    <3> QED BY <1>2, <3>1, <3>2, <3>3 DEF Belongs
  <2> QED BY <2>1, <2>2
<1>15. Nested'
  <2> SUFFICES ASSUME NEW i \in 2 .. n
               PROVE  EndsWith(frames'[i].base, frames'[i - 1].base)
    BY <1>2 DEF Nested
  <2>1. i \in 1 .. n /\ i - 1 \in 1 .. n /\ i \in 2 .. Len(frames)
    BY <1>2 DEF n
  <2> QED BY <1>2, <2>1 DEF NestInv, Nested
<1>16. Inside(cfg, next)'
  <2>1. ASSUME next' # Err, frames' # <<>> PROVE EndsWith(cfg'.chain, Last(frames').base)
    <3>1. n # 0 /\ Last(frames') = frames'[n]
      BY <1>2, <2>1 DEF Last
    <3>2. Last(frames').base = frames[n].base /\ frames[n].base \in Seq(Cells(S))
          /\ EndsWith(f.base, frames[n].base)
      BY <1>2, <1>4, <1>10, <3>1
    <3> QED BY <2>1, <3>2
  <2> QED BY <2>1 DEF Inside
<1> QED BY <1>7, <1>12, <1>13, <1>14, <1>15, <1>16 DEF Inv, NestInv

\* What is known when a Rust call ends.
LEMMA Ending ==
  ASSUME NEW S, Typed(S), NestInv, frames # <<>>
  PROVE  LET G == Grow(S, Len(cfg.conts)) IN
         /\ S \subseteq G /\ Given \subseteq S /\ Sound(G, Len(cfg.conts)) /\ WellFormed(code)
         /\ cfg \in Configs(G) /\ cfg \in Configs(S) /\ Len(cfg.conts) \in Nat
         /\ cfg.conts \in Seq([chain : Seq(Cells(S)), owner : Nat])
         /\ Last(frames) \in RustCalls(S) /\ Last(frames).base \in Seq(Cells(S))
         /\ Passable(Last(frames).lc, Last(frames).env, G)
         /\ Parent \in Nat
         /\ next # Err => /\ EndsWith(cfg.chain, Last(frames).base)
                          /\ \A b \in Seq(Cells(S)) :
                               EndsWith(Last(frames).base, b) => EndsWith(cfg.chain, b)
<1> DEFINE G == Grow(S, Len(cfg.conts))
           f == Last(frames)
<1>1. /\ WellFormed(code) /\ Sound(S, Len(cfg.conts)) /\ Len(cfg.conts) \in Nat /\ Given \subseteq S
      /\ cfg \in Configs(S) /\ frames \in Seq(RustCalls(S)) /\ cfg.chain \in Seq(Cells(S))
  BY TypedIs
<1>2. Sound(G, Len(cfg.conts)) /\ S \subseteq G
  BY <1>1, GrowIsSound
<1>3. f \in RustCalls(S) /\ f.base \in Seq(Cells(S)) /\ Passable(f.lc, f.env, S)
  BY <1>1, LastCall
<1>4. Parent \in Nat
  BY <1>1, ParentIs
<1>5. cfg.conts \in Seq([chain : Seq(Cells(S)), owner : Nat])
  BY <1>1 DEF Configs
<1> HIDE DEF G
<1>6. cfg \in Configs(G) /\ Passable(f.lc, f.env, G)
  BY <1>1, <1>2, <1>3, ConfigsGrow, RunnableGrows
<1>7. next # Err => EndsWith(cfg.chain, f.base)
  BY DEF NestInv, Inside
<1> HIDE DEF f
<1>8. ASSUME EndsWith(cfg.chain, f.base), NEW b \in Seq(Cells(S)), EndsWith(f.base, b)
      PROVE  EndsWith(cfg.chain, b)
  BY <1>1, <1>3, <1>8, EndsTwice
<1> QED BY <1>1, <1>2, <1>3, <1>4, <1>5, <1>6, <1>7, <1>8 DEF G, f

\* HandOver of registers that have the continuations of cfg.
LEMMA EndingKeeps ==
  ASSUME NEW S, Typed(S), NestInv, frames # <<>>,
         NEW c, c \in Configs(Grow(S, Len(cfg.conts))), c.conts = cfg.conts
  PROVE  /\ HandOver(c, Last(frames), Parent) \in Configs(Grow(S, Len(cfg.conts)))
         /\ HandOver(c, Last(frames), Parent).chain = c.chain
         /\ Len(HandOver(c, Last(frames), Parent).conts) = Len(cfg.conts)
<1>1. c.conts \in Seq([chain : Seq(Cells(S)), owner : Nat]) /\ c \in Configs(Grow(S, Len(c.conts)))
  BY Ending
<1>2. WellFormed(code) /\ Last(frames) \in RustCalls(S) /\ Parent \in Nat
  BY Ending
<1>3. /\ HandOver(c, Last(frames), Parent) \in Configs(Grow(S, Len(c.conts)))
      /\ HandOver(c, Last(frames), Parent).chain = c.chain
      /\ Len(HandOver(c, Last(frames), Parent).conts) = Len(c.conts)
  BY <1>1, <1>2, HandOverKeeps
<1> QED BY <1>3

LEMMA ReturnsOk ==
  ASSUME NEW S, Typed(S), NestInv, Returns
  PROVE  Inv'
<1> DEFINE G == Grow(S, Len(cfg.conts))
           T == Grow(G, Len(cfg.conts))
           f == Last(frames)
           c0 == [cfg EXCEPT !.op = Null, !.lcont = None]
           c == HandOver(c0, f, Parent)
<1>1. next = Return /\ Goes(PassResults(c, f.env, f.lc)) /\ frames' = Popped /\ prog' = prog /\ ids' = ids
  BY DEF Returns, Machine
<1>2. frames # <<>> /\ next # Err
  BY <1>1 DEF NestInv, Inside, Return, Err
<1>3. /\ S \subseteq G /\ Given \subseteq S /\ Sound(G, Len(cfg.conts)) /\ WellFormed(code)
      /\ cfg \in Configs(G) /\ Len(cfg.conts) \in Nat /\ Passable(f.lc, f.env, G)
      /\ \A b \in Seq(Cells(S)) : EndsWith(f.base, b) => EndsWith(cfg.chain, b)
  BY <1>2, Ending
<1>4. Sound(T, Len(cfg.conts)) /\ G \subseteq T
  BY <1>3, GrowIsSound
<1> HIDE DEF G
<1>5. c0 \in Configs(G) /\ c0.conts = cfg.conts /\ c0.chain = cfg.chain
  BY <1>3 DEF Configs, Given
<1> HIDE DEF c0
<1>6. c \in Configs(G) /\ c.chain = cfg.chain /\ Len(c.conts) = Len(cfg.conts)
  BY <1>2, <1>5, EndingKeeps DEF G
<1>7. /\ PassResults(c, f.env, f.lc)[1] \in Configs(T)
      /\ PassResults(c, f.env, f.lc)[1].conts = c.conts
      /\ PassResults(c, f.env, f.lc)[1].chain = c.chain
      /\ Going(PassResults(c, f.env, f.lc)[2], T)
  <2> HIDE DEF c, T
  <2>1. Sound(G, Len(c.conts)) /\ T = Grow(G, Len(c.conts))
    BY <1>3, <1>6 DEF T
  <2> QED BY <1>3, <1>6, <2>1, PassKeeps
<1>8. cfg' \in Configs(T) /\ cfg'.conts = c.conts /\ cfg'.chain = cfg.chain /\ Going(next', T)
  BY <1>1, <1>6, <1>7 DEF Goes
<1> HIDE DEF T
<1>9. Comes(next', T) /\ next' \notin {Vm, Return}
  BY <1>8, GoingOn
<1>10. Sound(T, Len(cfg'.conts)) /\ S \subseteq T
  BY <1>3, <1>4, <1>6, <1>8
<1>11. \A b \in Seq(Cells(S)) : EndsWith(f.base, b) => EndsWith(cfg'.chain, b)
  BY <1>3, <1>8
<1>12. cfg'.conts = HandOver(c0, Last(frames), Parent).conts /\ c0 \in Configs(Grow(S, Len(cfg.conts)))
  BY <1>5, <1>8 DEF G
<1> QED BY <1>1, <1>2, <1>5, <1>8, <1>9, <1>10, <1>11, <1>12, Pops

\* The Rust calls are left: nothing is.
LEMMA EmptyOk ==
  ASSUME NEW S, Typed(S), NestInv, frames = <<>>, cfg' = cfg, frames' = frames, prog' = prog, ids' = ids,
         next' \in {Apply, Vm}
  PROVE  Inv'
<1>1. Comes(next', S) /\ next' # Return
  BY DEF Comes, Going, Apply, Vm, Return
<1>2. cfg' \in Configs(S) /\ Sound(S, Len(cfg'.conts))
  BY TypedIs
<1> QED BY <1>1, <1>2, Idle

LEMMA LeavesOk ==
  ASSUME NEW S, Typed(S), NestInv, Leaves
  PROVE  Inv'
<1> DEFINE G == Grow(S, Len(cfg.conts))
           f == Last(frames)
           c == [cfg EXCEPT !.chain = Splice(@, f.base, Node(f), 0)]
<1>1. CASE frames = <<>>
  <2>1. next' = Apply /\ cfg' = cfg /\ frames' = frames /\ prog' = prog /\ ids' = ids
    BY <1>1 DEF Leaves, Machine
  <2> QED BY <1>1, <2>1, EmptyOk
<1>2. CASE frames # <<>>
  <2>1. /\ next = Leave /\ cfg' = HandOver(c, f, Parent) /\ frames' = Popped /\ next' = next
        /\ prog' = prog /\ ids' = ids
    BY <1>2 DEF Leaves, Machine
  <2>2. next # Err /\ next \notin {Vm, Return} /\ \A U : Comes(next, U)
    BY <2>1 DEF Leave, Err, Vm, Return, Comes
  <2>3. /\ S \subseteq G /\ Sound(G, Len(cfg.conts)) /\ WellFormed(code)
        /\ cfg \in Configs(G) /\ f \in RustCalls(S) /\ f.base \in Seq(Cells(S))
        /\ EndsWith(cfg.chain, f.base)
    BY <1>2, <2>2, Ending
  <2>4. Node(f) \in Seq(Cells(G)) /\ \A b \in Seq(Cells(S)) : EndsWith(f.base, b) => EndsWith(Node(f), b)
    <3> HIDE DEF f
    <3> QED BY <2>3, NodeIs
  <2> DEFINE spliced == Splice(cfg.chain, f.base, Node(f), 0)
  <2> HIDE DEF G
  <2>5. Seq(Cells(S)) \subseteq Seq(Cells(G))
    BY <2>3, ConfigsGrow, Zenon
  <2>6. f.base \in Seq(Cells(G)) /\ cfg.chain \in Seq(Cells(G))
    <3>1. f.base \in Seq(Cells(G))
      BY <2>3, <2>5, Zenon
    <3>2. cfg.chain \in Seq(Cells(G))
      BY <2>3 DEF Configs
    <3> QED BY <3>1, <3>2
  <2>7. /\ spliced \in Seq(Cells(G))
        /\ \A b \in Seq(Cells(G)) : EndsWith(Node(f), b) => EndsWith(spliced, b)
    <3>1. PICK base \in Seq(Cells(G)), node \in Seq(Cells(G)), chain \in Seq(Cells(G)) :
            base = f.base /\ node = Node(f) /\ chain = cfg.chain
      BY <2>4, <2>6
    <3>2. 0 \in Int
      OBVIOUS
    <3>3. /\ Splice(chain, base, node, 0) \in Seq(Cells(G))
          /\ \A b \in Seq(Cells(G)) :
               EndsWith(chain, base) /\ EndsWith(node, b) => EndsWith(Splice(chain, base, node, 0), b)
      BY <3>2, SpliceEnds
    <3> QED BY <2>3, <3>1, <3>3
  <2>8. \A b \in Seq(Cells(S)) : EndsWith(f.base, b) => EndsWith(spliced, b)
    <3> SUFFICES ASSUME NEW b \in Seq(Cells(S)), EndsWith(f.base, b) PROVE EndsWith(spliced, b)
      OBVIOUS
    <3>1. b \in Seq(Cells(G)) /\ EndsWith(Node(f), b)
      BY <2>4, <2>5, Zenon
    <3> HIDE DEF spliced
    <3> QED BY <2>7, <3>1
  <2>9. c = [cfg EXCEPT !.chain = spliced]
    OBVIOUS
  <2> HIDE DEF spliced, c
  <2>10. c \in Configs(G) /\ c.conts = cfg.conts /\ c.chain = spliced
    BY <2>3, <2>7, <2>9 DEF Configs
  <2>11. cfg' \in Configs(G) /\ cfg'.chain = c.chain /\ Len(cfg'.conts) = Len(cfg.conts)
    BY <1>2, <2>1, <2>10, EndingKeeps DEF G
  <2>12. \A b \in Seq(Cells(S)) : EndsWith(f.base, b) => EndsWith(cfg'.chain, b)
    BY <2>8, <2>10, <2>11
  <2>13. Sound(G, Len(cfg'.conts)) /\ c \in Configs(Grow(S, Len(cfg.conts)))
         /\ cfg'.conts = HandOver(c, Last(frames), Parent).conts
    BY <2>1, <2>3, <2>10, <2>11 DEF G
  <2>14. Comes(next', G) /\ next' \notin {Vm, Return}
    BY <2>1, <2>2
  <2> QED BY <1>2, <2>1, <2>3, <2>10, <2>11, <2>12, <2>13, <2>14, Pops
<1> QED BY <1>1, <1>2

\* A Rust call is left, the CChain stays.
LEMMA Abandons ==
  ASSUME NEW S, Typed(S), NestInv, frames # <<>>, next \in {Escape, Err},
         cfg' = HandOver(cfg, Last(frames), Parent), frames' = Popped, next' = next,
         prog' = prog, ids' = ids
  PROVE  Inv'
<1> DEFINE G == Grow(S, Len(cfg.conts))
<1>1. next' \notin {Vm, Return} /\ \A U : Comes(next', U)
  BY DEF Escape, Err, Vm, Return, Comes
<1>2. /\ S \subseteq G /\ Sound(G, Len(cfg.conts)) /\ cfg \in Configs(G)
      /\ next # Err => \A b \in Seq(Cells(S)) : EndsWith(Last(frames).base, b) => EndsWith(cfg.chain, b)
  BY Ending
<1>3. cfg' \in Configs(G) /\ cfg'.chain = cfg.chain /\ Len(cfg'.conts) = Len(cfg.conts)
  BY <1>2, EndingKeeps
<1> HIDE DEF G
<1>4. Sound(G, Len(cfg'.conts)) /\ cfg'.conts = HandOver(cfg, Last(frames), Parent).conts
      /\ cfg \in Configs(Grow(S, Len(cfg.conts)))
  BY <1>2, <1>3 DEF G
<1>5. next' # Err => \A b \in Seq(Cells(S)) : EndsWith(Last(frames).base, b) => EndsWith(cfg'.chain, b)
  BY <1>2, <1>3
<1> QED BY <1>1, <1>2, <1>3, <1>4, <1>5, Pops

LEMMA EscapesOk ==
  ASSUME NEW S, Typed(S), NestInv, Escapes
  PROVE  Inv'
<1>1. next = Escape /\ prog' = prog /\ ids' = ids
  BY DEF Escapes, Machine
<1>2. CASE frames # <<>> /\ cfg.conts[cfg.op.k].owner # Current
  BY <1>1, <1>2, Abandons DEF Escapes
<1>3. CASE ~(frames # <<>> /\ cfg.conts[cfg.op.k].owner # Current)
  <2>1. next' = Apply /\ cfg' = cfg /\ frames' = frames
    BY <1>3 DEF Escapes
  <2>2. Going(next', S) /\ cfg \in Configs(S) /\ Sound(S, Len(cfg.conts))
    BY <2>1, TypedIs, ApplyGoes
  <2>3. Comes(next', S) /\ next' \notin {Vm, Return} /\ next # Err
    BY <1>1, <2>2, GoingOn DEF Escape, Err
  <2> QED BY <1>1, <2>1, <2>2, <2>3, Onward
<1> QED BY <1>2, <1>3

LEMMA ErrsOk ==
  ASSUME NEW S, Typed(S), NestInv, Errs
  PROVE  Inv'
<1>1. next = Err /\ prog' = prog /\ ids' = ids
  BY DEF Errs, Machine
<1>2. CASE frames = <<>>
  <2>1. next' = Vm /\ cfg' = cfg /\ frames' = frames
    BY <1>2 DEF Errs
  <2> QED BY <1>1, <1>2, <2>1, EmptyOk
<1>3. CASE frames # <<>>
  BY <1>1, <1>3, Abandons DEF Errs
<1> QED BY <1>2, <1>3

----------------------------------------------------------------------------
(***************************************************************************)
(* Values are applied.                                                     *)
(***************************************************************************)
\* A continuation made of registers that have the CChain of cfg.
LEMMA ContGiven ==
  ASSUME NEW S, Typed(S), NEW d \in Configs(S), d.conts = cfg.conts, d.chain = cfg.chain
  PROVE  LET T == Grow(S, Len(cfg.conts) + 1)
             m == MakeCont(d)
             e == [m[1] EXCEPT !.olist = <<m[2]>>]
         IN  /\ e \in Configs(T) /\ Sound(T, Len(cfg.conts) + 1) /\ S \subseteq T
             /\ e.chain = cfg.chain
             /\ e.conts = Append(cfg.conts, [chain |-> cfg.chain, owner |-> Current])
             /\ Len(m[1].conts) = Len(cfg.conts) + 1 /\ Len(e.conts) = Len(cfg.conts) + 1
<1> DEFINE T == Grow(S, Len(cfg.conts) + 1)
           m == MakeCont(d)
           e == [m[1] EXCEPT !.olist = <<m[2]>>]
           k0 == [chain |-> cfg.chain, owner |-> Current]
<1>1. /\ Sound(S, Len(cfg.conts)) /\ frames \in Seq(RustCalls(S)) /\ cfg.chain \in Seq(Cells(S))
  BY TypedIs
<1>2. Current \in Nat
  <2>1. CASE frames = <<>>
    BY <2>1 DEF Current
  <2>2. CASE frames # <<>>
    BY <1>1, <2>2, LastCall DEF Current
  <2> QED BY <2>1, <2>2
<1>3. Sound(S, Len(d.conts)) /\ Len(d.conts) = Len(cfg.conts) /\ d.chain \in Seq(Cells(S))
  BY <1>1
<1>4. m = NewCont(d, d.chain, Current)
  BY DEF MakeCont
<1> HIDE DEF m
<1>5. /\ m[1] \in Configs(Grow(S, Len(d.conts) + 1)) /\ m[2] \in Grow(S, Len(d.conts) + 1)
      /\ m[1].conts = Append(d.conts, [chain |-> d.chain, owner |-> Current])
      /\ m[1].chain = d.chain /\ Len(m[1].conts) = Len(d.conts) + 1
      /\ Sound(Grow(S, Len(d.conts) + 1), Len(d.conts) + 1) /\ S \subseteq Grow(S, Len(d.conts) + 1)
  BY <1>2, <1>3, <1>4, NewContKeeps, SMTT(30)
<1>6. /\ m[1] \in Configs(T) /\ m[2] \in T /\ m[1].conts = Append(cfg.conts, k0)
      /\ m[1].chain = cfg.chain /\ Len(m[1].conts) = Len(cfg.conts) + 1
      /\ Sound(T, Len(cfg.conts) + 1) /\ S \subseteq T
  BY <1>3, <1>5
<1> HIDE DEF T, k0
<1>7. <<m[2]>> \in Seq(T)
  BY <1>6, One
<1>8. e \in Configs(T) /\ e.conts = m[1].conts /\ e.chain = m[1].chain
  BY <1>6, <1>7 DEF Configs
<1> HIDE DEF e
<1>9. /\ e \in Configs(T) /\ Sound(T, Len(cfg.conts) + 1) /\ S \subseteq T
      /\ e.chain = cfg.chain /\ e.conts = Append(cfg.conts, k0)
      /\ Len(m[1].conts) = Len(cfg.conts) + 1 /\ Len(e.conts) = Len(cfg.conts) + 1
  BY <1>6, <1>8
<1> QED BY <1>9 DEF T, m, e, k0

LEMMA GetContOk ==
  ASSUME NEW S, Typed(S), NestInv, GetCont
  PROVE  Inv'
<1> DEFINE n == Len(cfg.conts)
           G == Grow(S, n + 1)
           T == Grow(G, n + 1)
           m == MakeCont(Cleared)
           c == [m[1] EXCEPT !.olist = <<m[2]>>]
           r == PassResults(c, next.env, Body.lc)
<1>1. /\ next.n = "enter" /\ Goes(r) /\ frames' = Recorded(m[1]) /\ prog' = prog /\ ids' = ids
  BY DEF GetCont, Runs, Machine
<1>2. /\ c \in Configs(G) /\ Sound(G, n + 1) /\ S \subseteq G /\ c.chain = cfg.chain
      /\ c.conts = Append(cfg.conts, [chain |-> cfg.chain, owner |-> Current])
      /\ Len(m[1].conts) = n + 1 /\ Len(c.conts) = n + 1
  BY ClearedKeeps, ContGiven
<1>3. WellFormed(code) /\ n \in Nat /\ n + 1 \in Nat /\ next # Err
  BY <1>1, TypedIs, EnterRuns
<1>4. Sound(T, n + 1) /\ G \subseteq T
  BY <1>2, <1>3, GrowIsSound
<1> HIDE DEF G
<1>5. Body.lc = "none" \/ Passable(Body.lc, next.env, G)
  <2>1. Runnable(next.f, next.env, S)
    BY <1>1, EnterRuns
  <2>2. Body.lc = "none" \/ Passable(Body.lc, next.env, S)
    BY <1>3, <2>1, BodyPasses DEF Body
  <2> QED BY <1>2, <2>2, RunnableGrows
<1> HIDE DEF c, m, n
<1>6. /\ r[1] \in Configs(T) /\ r[1].conts = c.conts /\ r[1].chain = c.chain /\ Going(r[2], T)
  <2>1. Sound(G, Len(c.conts)) /\ T = Grow(G, Len(c.conts))
    BY <1>2
  <2> HIDE DEF T
  <2> QED BY <1>2, <1>3, <1>5, <2>1, PassKeeps
<1> HIDE DEF T, r
<1>7. cfg' = r[1] /\ next' = r[2]
  BY <1>1 DEF Goes
<1>8. /\ cfg' \in Configs(T) /\ Sound(T, Len(cfg'.conts)) /\ cfg'.chain = cfg.chain
      /\ cfg'.conts = Append(cfg.conts, [chain |-> cfg.chain, owner |-> Current])
      /\ Going(next', T) /\ S \subseteq T
  BY <1>2, <1>4, <1>6, <1>7
<1>9. Len(m[1].conts) = Len(cfg.conts) + 1
  BY <1>2 DEF n
<1> QED BY <1>1, <1>3, <1>8, <1>9, Makes

LEMMA NotHereOk ==
  ASSUME NEW S, Typed(S), NestInv, next = Apply, NotHere, prog' = prog
  PROVE  Inv'
<1>1. /\ cfg' = cfg /\ frames' = frames /\ ids' = ids
      /\ next' = IF frames = <<>> THEN Vm ELSE Leave
  BY DEF NotHere
<1>2. Comes(next', S)
  BY <1>1 DEF Comes
<1>3. Inside(cfg', next')
  BY <1>1 DEF NestInv, Inside, Apply, Vm, Leave, Return, Err
<1>4. cfg' \in Configs(S) /\ Sound(S, Len(cfg.conts)) /\ cfg'.conts = cfg.conts
  BY <1>1, TypedIs
<1> QED BY <1>1, <1>2, <1>3, <1>4, Steady

LEMMA NotErr == Apply \notin {Err, Vm, Return}
  BY DEF Apply, Err, Vm, Return

LEMMA OnNullOk ==
  ASSUME NEW S, Typed(S), NestInv, OnNull
  PROVE  Inv'
<1>1. next = Apply /\ prog' = prog /\ next # Err
  BY NotErr DEF OnNull, Applies, Machine
<1>2. /\ cfg \in Configs(S) /\ Sound(S, Len(cfg.conts)) /\ Given \subseteq S
      /\ frames \in Seq(RustCalls(S)) /\ cfg.chain \in Seq(Cells(S))
  BY TypedIs
<1>3. frames # <<>> => EndsWith(cfg.chain, Last(frames).base)
  BY <1>1 DEF NestInv, Inside
<1>4. CASE cfg.lcont = None /\ AtBase(cfg)
  <2>1. next' = Return /\ cfg' = cfg /\ frames' = frames /\ ids' = ids
    BY <1>4 DEF OnNull
  <2>2. Comes(next', S) /\ next' \notin {Err, Vm}
    BY <2>1 DEF Comes, Return, Err, Vm
  <2>3. Inside(cfg', next')
    BY <1>3, <1>4, <2>1, <2>2 DEF Inside, AtBase
  <2> QED BY <1>1, <1>2, <2>1, <2>2, <2>3, Steady
<1>5. CASE ~(cfg.lcont = None /\ AtBase(cfg)) /\ cfg.lcont = None /\ cfg.chain = <<>>
  <2>1. NotHere
    BY <1>5 DEF OnNull
  <2> QED BY <1>1, <2>1, NotHereOk
<1>6. CASE ~(cfg.lcont = None /\ AtBase(cfg)) /\ ~(cfg.lcont = None /\ cfg.chain = <<>>)
  <2>1. cfg' = ApplyNull(cfg) /\ next' = Apply /\ frames' = frames /\ ids' = ids
    BY <1>6 DEF OnNull, Goes
  <2>2. cfg' \in Configs(S) /\ cfg'.conts = cfg.conts
    BY <1>2, <2>1, ApplyNullKeeps
  <2>3. ASSUME frames # <<>> PROVE EndsWith(cfg'.chain, Last(frames).base)
    <3>1. CASE cfg.lcont # None
      <4>1. cfg'.chain = cfg.chain
        BY <1>2, <2>1, <3>1 DEF ApplyNull, Configs
      <4> QED BY <1>3, <2>3, <4>1
    <3>2. CASE cfg.lcont = None
      <4>1. cfg.chain # <<>> /\ ~SameChain(cfg.chain, Last(frames).base)
        BY <1>6, <2>3, <3>2 DEF AtBase
      <4>2. cfg' = PopInto(cfg)
        BY <2>1, <3>2, <4>1 DEF ApplyNull
      <4>3. cfg'.chain = Tail(cfg.chain)
        BY <1>2, <4>1, <4>2, PopIntoKeeps
      <4>4. Last(frames).base \in Seq(Cells(S))
        BY <1>2, <2>3, LastCall
      <4>5. EndsWith(Tail(cfg.chain), Last(frames).base)
        BY <1>2, <1>3, <2>3, <4>1, <4>4, EndsPop
      <4> QED BY <4>3, <4>5
    <3> QED BY <3>1, <3>2
  <2>4. Inside(cfg', next')
    BY <2>1, <2>3, NotErr DEF Inside
  <2>5. Comes(next', S)
    BY <2>1, ApplyGoes, GoingOn
  <2> QED BY <1>1, <1>2, <2>1, <2>2, <2>4, <2>5, Steady
<1> QED BY <1>4, <1>5, <1>6

LEMMA OnClosureOk ==
  ASSUME NEW S, Typed(S), NestInv, OnClosure
  PROVE  Inv'
<1>1. next = Apply /\ prog' = prog /\ next # Err /\ cfg.op.t = "clo"
  BY NotErr DEF OnClosure, Applies, Machine
<1>2. /\ cfg \in Configs(S) /\ Sound(S, Len(cfg.conts)) /\ Given \subseteq S /\ WellFormed(code)
  BY TypedIs
<1>3. cfg.op \in Closures(S) /\ cfg.olist \in Seq(S)
  BY <1>1, <1>2 DEF Configs, Sound, Fits
<1>4. <<>> \in Seq(S) /\ Null \in S
  BY <1>2 DEF Given
<1>5. CASE Callable(cfg.op, Len(cfg.olist))
  <2> DEFINE d == PushLCont(cfg)
             c == [d EXCEPT !.op = Null, !.olist = <<>>]
             x == Enter(cfg.op.f, Bind(cfg.op.env, cfg.olist))
  <2>1. Goes(<<c, x>>) /\ frames' = frames /\ ids' = ids
    BY <1>5 DEF OnClosure
  <2>2. Runnable(cfg.op.f, Bind(cfg.op.env, cfg.olist), S)
    BY <1>2, <1>3, <1>5, CallableRuns
  <2>3. Going(x, S)
    BY <2>2 DEF Going
  <2>4. /\ d \in Configs(S) /\ d.conts = cfg.conts
        /\ \A b \in Seq(Cells(S)) : EndsWith(cfg.chain, b) => EndsWith(d.chain, b)
    BY <1>2, PushLContKeeps
  <2> HIDE DEF d, x
  <2>5. c \in Configs(S) /\ c.conts = cfg.conts /\ c.chain = d.chain
    BY <1>4, <2>4 DEF Configs
  <2> HIDE DEF c
  <2> QED BY <1>1, <1>2, <2>1, <2>3, <2>4, <2>5, GoesOn
<1>6. CASE ~Callable(cfg.op, Len(cfg.olist)) /\ IsBool(cfg.op) /\ Len(cfg.olist) = 2
  <2> DEFINE i == IF cfg.op.f = "true" THEN 1 ELSE 2
             v == cfg.olist[i]
             c == [cfg EXCEPT !.op = Null, !.olist = <<@[i]>>]
  <2>1. Goes(<<c, Apply>>) /\ frames' = frames /\ ids' = ids
    BY <1>6 DEF OnClosure
  <2>2. v \in S
    BY <1>3, <1>6
  <2>3. c = [cfg EXCEPT !.op = Null, !.olist = <<v>>]
    OBVIOUS
  <2> HIDE DEF v, c
  <2>4. <<v>> \in Seq(S)
    BY <2>2, One
  <2>5. c \in Configs(S) /\ c.conts = cfg.conts /\ c.chain = cfg.chain
    BY <1>2, <1>4, <2>3, <2>4 DEF Configs
  <2> QED BY <1>1, <1>2, <2>1, <2>5, GoesOn, ApplyGoes
<1>7. CASE ~Callable(cfg.op, Len(cfg.olist)) /\ ~(IsBool(cfg.op) /\ Len(cfg.olist) = 2)
  <2>1. NotHere
    BY <1>7 DEF OnClosure
  <2> QED BY <1>1, <2>1, NotHereOk
<1> QED BY <1>5, <1>6, <1>7

\* A continuation of the Rust call that runs ends with its base; of another
\* one, the Rust calls are left first.
LEMMA OnContOk ==
  ASSUME NEW S, Typed(S), NestInv, OnCont
  PROVE  Inv'
<1> DEFINE k == cfg.conts[cfg.op.k]
           ends == k.chain = <<>> /\ ~(frames # <<>> /\ Last(frames).base = <<>>)
           c == [cfg EXCEPT !.lcont = None, !.op = Null, !.chain = k.chain,
                            !.olist = IF ends THEN <<>> ELSE @]
<1>1. /\ next = Apply /\ prog' = prog /\ next # Err /\ cfg.op.t = "cont"
      /\ frames' = frames /\ ids' = ids
  BY NotErr DEF OnCont, Applies, Machine
<1>2. /\ cfg \in Configs(S) /\ Sound(S, Len(cfg.conts)) /\ Given \subseteq S
      /\ frames \in Seq(RustCalls(S))
  BY TypedIs
<1>3. cfg.op.k \in DOMAIN cfg.conts /\ k \in [chain : Seq(Cells(S)), owner : Nat]
  <2>1. cfg.op.k \in 1 .. Len(cfg.conts)
    BY <1>1, <1>2 DEF Configs, Sound, Fits
  <2> DEFINE K == [chain : Seq(Cells(S)), owner : Nat]
  <2>2. cfg.conts \in Seq(K)
    BY <1>2 DEF Configs
  <2> HIDE DEF K
  <2>3. cfg.op.k \in DOMAIN cfg.conts /\ cfg.conts[cfg.op.k] \in K
    BY <2>1, <2>2
  <2> QED BY <2>3 DEF K
<1> HIDE DEF k
<1>4. CASE k.owner # Current /\ frames # <<>>
  <2>1. cfg' = cfg /\ next' \in {Escape, Leave}
    BY <1>4 DEF OnCont, k
  <2>2. Comes(next', S) /\ next' \notin {Vm, Return, Err}
    BY <2>1 DEF Comes, Escape, Leave, Vm, Return, Err
  <2>3. Inside(cfg', next')
    BY <1>1, <2>1, <2>2 DEF NestInv, Inside
  <2> QED BY <1>1, <1>2, <2>1, <2>2, <2>3, Steady
<1>5. CASE ~(k.owner # Current /\ frames # <<>>)
  <2>1. Goes(<<c, Apply>>)
    BY <1>5 DEF OnCont, k
  <2>2. cfg' = c /\ next' = Apply
    BY <2>1 DEF Goes
  <2>3. (IF ends THEN <<>> ELSE cfg.olist) \in Seq(S) /\ None \in S /\ Null \in S
    BY <1>2 DEF Configs, Given
  <2> HIDE DEF ends
  <2>4. c \in Configs(S) /\ c.conts = cfg.conts /\ c.chain = k.chain
    BY <1>2, <1>3, <2>3 DEF Configs
  <2> HIDE DEF c
  <2>5. ASSUME frames # <<>> PROVE EndsWith(cfg'.chain, Last(frames).base)
    <3> DEFINE n == Len(frames)
    <3>1. n \in DOMAIN frames /\ Last(frames) = frames[n] /\ DOMAIN frames = 1 .. n /\ n \in Nat
      BY <1>2, <2>5, LastCall
    <3>2. k.owner = frames[n].id
      BY <1>5, <2>5, <3>1 DEF Current
    <3>3. 0 < frames[n].id /\ frames[n].id # 0
      BY <3>1 DEF NestInv, Numbered
    <3>4. PICK i \in DOMAIN frames : /\ frames[i].id = k.owner
                                     /\ EndsWith(k.chain, frames[i].base)
      BY <1>3, <3>2, <3>3 DEF NestInv, Owned, Belongs, k
    <3>5. \A j \in DOMAIN frames : frames[j].id \in Nat
      BY <1>2 DEF RustCalls
    <3>6. i = n
      BY <3>1, <3>2, <3>4, <3>5 DEF NestInv, Numbered
    <3> QED BY <2>2, <2>4, <3>1, <3>4, <3>6
  <2>6. Inside(cfg', next')
    BY <2>2, <2>5, NotErr DEF Inside
  <2>7. Comes(next', S)
    BY <2>2, ApplyGoes, GoingOn
  <2> QED BY <1>1, <1>2, <2>2, <2>4, <2>6, <2>7, Steady
<1> QED BY <1>4, <1>5

LEMMA OnPrimOk ==
  ASSUME NEW S, Typed(S), NestInv, OnPrim
  PROVE  Inv'
<1> DEFINE p == cfg.op.p
           d == [cfg EXCEPT !.op = cfg.lcont, !.lcont = None]
           m == MakeCont(d)
           e == [m[1] EXCEPT !.olist = <<m[2]>>]
           c == PrimStep(cfg, p)
<1>1. /\ next = Apply /\ prog' = prog /\ next # Err /\ cfg.op.t = "prim" /\ ids' = ids
  BY NotErr DEF OnPrim, Applies, Machine
<1>2. /\ cfg \in Configs(S) /\ Sound(S, Len(cfg.conts)) /\ Given \subseteq S /\ WellFormed(code)
      /\ Len(cfg.conts) \in Nat
  BY TypedIs
<1>3. p \in DOMAIN Arity
  BY <1>1, <1>2 DEF Configs, Sound, Fits
<1>4. CASE p \notin Safe
  <2>1. NotHere
    BY <1>4 DEF OnPrim
  <2> QED BY <1>1, <2>1, NotHereOk
<1>5. CASE p \in Safe /\ p = "cont_get" /\ cfg.lcont # None
  <2> DEFINE T == Grow(S, Len(cfg.conts) + 1)
  <2>1. Goes(<<e, Apply>>) /\ frames' = Recorded(m[1])
    BY <1>5 DEF OnPrim
  <2>2. d \in Configs(S) /\ d.conts = cfg.conts /\ d.chain = cfg.chain
    BY <1>2 DEF Configs, Given
  <2> HIDE DEF d
  <2>3. /\ e \in Configs(T) /\ Sound(T, Len(cfg.conts) + 1) /\ S \subseteq T
        /\ e.chain = cfg.chain
        /\ e.conts = Append(cfg.conts, [chain |-> cfg.chain, owner |-> Current])
        /\ Len(m[1].conts) = Len(cfg.conts) + 1 /\ Len(e.conts) = Len(cfg.conts) + 1
    BY <2>2, ContGiven
  <2> HIDE DEF e, m, T
  <2>4. cfg' = e /\ next' = Apply
    BY <2>1 DEF Goes
  <2>5. Sound(T, Len(cfg'.conts)) /\ Going(next', T)
    BY <2>3, <2>4, ApplyGoes
  <2> QED BY <1>1, <2>1, <2>3, <2>4, <2>5, Makes
<1>6. CASE p \in Safe /\ p = "cont_get" /\ cfg.lcont = None /\ frames # <<>>
  <2>1. NotHere
    BY <1>6 DEF OnPrim
  <2> QED BY <1>1, <2>1, NotHereOk
<1>7. CASE p \in Safe /\ ~(p = "cont_get" /\ cfg.lcont # None) /\ ~(p = "cont_get" /\ frames # <<>>)
  <2>1. Goes(<<c, IF c.op = Broken THEN Err ELSE Apply>>) /\ frames' = frames
    BY <1>7 DEF OnPrim
  <2>2. CASE p # "cont_get"
    <3>1. Keeps(cfg, c, S)
      BY <1>2, <1>7, <2>2, SafeKeeps
    <3> HIDE DEF c
    <3>2. c \in Configs(S) /\ c.conts = cfg.conts
      BY <3>1 DEF Keeps
    <3>3. CASE c.op = Broken
      <4>1. Goes(<<c, Err>>)
        BY <2>1, <3>3
      <4> QED BY <1>1, <1>2, <2>1, <3>2, <4>1, FailsOn
    <3>4. CASE c.op # Broken
      <4>1. Goes(<<c, Apply>>)
        BY <2>1, <3>4
      <4>2. \A b \in Seq(Cells(S)) : EndsWith(cfg.chain, b) => EndsWith(c.chain, b)
        BY <3>1, <3>4 DEF Keeps
      <4> QED BY <1>1, <1>2, <2>1, <3>2, <4>1, <4>2, GoesOn, ApplyGoes
    <3> QED BY <3>3, <3>4
  <2>3. CASE p = "cont_get"
    <3>1. frames = <<>>
      BY <1>7, <2>3
    <3>2. Made(cfg, c, "none", <<>>, S)
      BY <1>2, <1>3, PrimMakes
    <3> HIDE DEF c
    <3>3. cfg' = c /\ next' \in {Err, Apply}
      BY <2>1 DEF Goes
    <3>4. PICK T : S \subseteq T /\ Sound(T, Len(c.conts)) /\ c \in Configs(T)
      BY <3>2 DEF Made
    <3>5. Comes(next', T) /\ next' # Return
      BY <3>3, NotErr DEF Comes, Going, Err, Return
    <3>6. \/ cfg'.conts = cfg.conts
          \/ \E chain : cfg'.conts = Append(cfg.conts, [chain |-> chain, owner |-> 0])
      BY <3>2, <3>3 DEF Made
    <3>7. cfg' \in Configs(T) /\ Sound(T, Len(cfg'.conts))
      BY <3>3, <3>4
    <3> QED BY <1>1, <2>1, <3>1, <3>4, <3>5, <3>6, <3>7, Idle
  <2> QED BY <2>2, <2>3
<1> QED BY <1>4, <1>5, <1>6, <1>7

LEMMA VmStepOk ==
  ASSUME NEW S, Typed(S), NestInv, VmStep
  PROVE  Inv'
<1> DEFINE s == StepTo(code, cfg)
           loaded == LoadBody(code, s.cfg, s.f, s.env)
           entered == [s.cfg EXCEPT !.op = Null]
<1>1. /\ next = Vm /\ prog' = prog /\ frames' = frames /\ ids' = ids
      /\ \/ Goes(<<entered, Enter(s.f, s.env)>>) /\ s.f # "none"
         \/ Goes(<<s.cfg, Vm>>)
         \/ Goes(<<loaded, Vm>>) /\ s.f # "none"
  BY DEF VmStep
<1>2. frames = <<>>
  BY <1>1 DEF NestInv, Inside
<1>3. /\ cfg \in Configs(S) /\ Sound(S, Len(cfg.conts)) /\ WellFormed(code)
  BY TypedIs
<1>4. Made(cfg, s.cfg, s.f, s.env, S)
  BY <1>3, StepMakes
<1> HIDE DEF s
<1>5. PICK T : /\ S \subseteq T /\ Sound(T, Len(s.cfg.conts)) /\ s.cfg \in Configs(T)
               /\ (s.f = "none" \/ Runnable(s.f, s.env, T))
  BY <1>4 DEF Made
<1>6. \/ s.cfg.conts = cfg.conts
      \/ \E chain : s.cfg.conts = Append(cfg.conts, [chain |-> chain, owner |-> 0])
  BY <1>4 DEF Made
<1>7. Given \subseteq T /\ Len(s.cfg.conts) \in Nat
  BY <1>5 DEF Sound, Configs
<1>8. \A U : Comes(Vm, U) /\ Vm # Return
  BY DEF Comes, Vm, Return
<1>9. CASE Goes(<<entered, Enter(s.f, s.env)>>) /\ s.f # "none"
  <2>1. cfg' = entered /\ next' = Enter(s.f, s.env)
    BY <1>9 DEF Goes
  <2>2. entered \in Configs(T) /\ entered.conts = s.cfg.conts
    BY <1>5, <1>7 DEF Configs, Given
  <2> HIDE DEF entered
  <2>3. Going(next', T)
    BY <1>5, <1>9, <2>1 DEF Going
  <2>4. Comes(next', T) /\ next' # Return
    BY <2>3, GoingOn
  <2>5. cfg' \in Configs(T) /\ Sound(T, Len(cfg'.conts)) /\ cfg'.conts = s.cfg.conts
    BY <1>5, <2>1, <2>2
  <2> QED BY <1>1, <1>2, <1>5, <1>6, <2>4, <2>5, Idle
<1>10. CASE Goes(<<s.cfg, Vm>>)
  <2>1. cfg' = s.cfg /\ next' = Vm
    BY <1>10 DEF Goes
  <2> QED BY <1>1, <1>2, <1>5, <1>6, <1>8, <2>1, Idle
<1>11. CASE Goes(<<loaded, Vm>>) /\ s.f # "none"
  <2> DEFINE G == Grow(T, Len(s.cfg.conts))
  <2>1. cfg' = loaded /\ next' = Vm
    BY <1>11 DEF Goes
  <2>2. loaded \in Configs(G) /\ loaded.conts = s.cfg.conts
    BY <1>3, <1>5, <1>11, LoadBodyGrows
  <2>3. Sound(G, Len(s.cfg.conts)) /\ T \subseteq G
    BY <1>5, <1>7, GrowIsSound
  <2> HIDE DEF G, loaded
  <2>4. cfg' \in Configs(G) /\ Sound(G, Len(cfg'.conts)) /\ S \subseteq G /\ cfg'.conts = s.cfg.conts
    BY <1>5, <2>1, <2>2, <2>3
  <2> QED BY <1>1, <1>2, <1>6, <1>8, <2>1, <2>4, Idle
<1> QED BY <1>1, <1>9, <1>10, <1>11

----------------------------------------------------------------------------
(***************************************************************************)
(* The theorem.                                                            *)
(***************************************************************************)
LEMMA InitOk == Init => Inv
<1> SUFFICES ASSUME Init PROVE Inv
  OBVIOUS
<1> DEFINE main == Clo("main", <<>>)
           Ops == {f \in DOMAIN code : code[f].op.x = "C"}
           Args(f) == {i \in DOMAIN code[f].args : code[f].args[i].x = "C"}
           S == Given \cup {main} \cup {code[f].op.v : f \in Ops}
                  \cup UNION {{code[f].args[i].v : i \in Args(f)} : f \in DOMAIN code}
<1>1. /\ prog \in Programs /\ cfg = Registers(main, <<>>) /\ next = Vm /\ frames = <<>> /\ ids = 0
  BY DEF Init
<1>2. WellFormed(code)
  BY <1>1, ProgramAssumption DEF code
<1>3. \A v : Literal(code, v) => \A T : Fits(v, T, 0)
  <2> SUFFICES ASSUME NEW v, Literal(code, v), NEW T PROVE Fits(v, T, 0)
    OBVIOUS
  <2>1. CASE v = Null \/ v.t = "atom"
    BY <2>1 DEF Fits, Null
  <2>2. CASE v.t = "prim" /\ v.p \in DOMAIN Arity
    BY <2>2 DEF Fits
  <2>3. CASE v.t = "clo" /\ v.f \in DOMAIN code /\ v = Clo(v.f, <<>>) /\ Scope(code, v.f) = 0
    <3>1. PICK f \in DOMAIN code : v = Clo(f, <<>>) /\ Scope(code, f) = 0
      BY <2>3
    <3>2. code[f].params \in Nat /\ code[f].variadic \in BOOLEAN
      BY <1>2, Program
    <3>3. <<>> \in Seq(T) /\ Len(<<>>) = 0
      OBVIOUS
    <3>4. v \in Closures(T)
      BY <3>1, <3>2, <3>3 DEF Clo, Closures
    <3> QED BY <2>3, <3>4 DEF Fits
  <2> QED BY <2>1, <2>2, <2>3 DEF Literal
<1>4. \A f \in DOMAIN Builtin \cup {"main"} : Literal(code, Clo(f, <<>>))
  <2>1. \A f \in DOMAIN Builtin \cup {"main"} : f \in DOMAIN code /\ Scope(code, f) = 0
    BY <1>2 DEF WellFormed, Scope
  <2>2. \A f : Clo(f, <<>>).t = "clo" /\ Clo(f, <<>>).f = f
    BY DEF Clo
  <2> QED BY <2>1, <2>2 DEF Literal
<1>5. \A v \in Given \cup {main} : \A T : Fits(v, T, 0)
  <2>1. \A f \in DOMAIN Builtin \cup {"main"} : \A T : Fits(Clo(f, <<>>), T, 0)
    BY <1>3, <1>4
  <2>2. {"true", "false", "nop", "select"} = DOMAIN Builtin
    BY DEF Builtin
  <2>3. \A T : /\ Fits(Nop, T, 0) /\ Fits(Select, T, 0) /\ Fits(main, T, 0)
               /\ Fits(Bool(TRUE), T, 0) /\ Fits(Bool(FALSE), T, 0)
    BY <2>1, <2>2 DEF Nop, Select, Bool
  <2>4. \A T : /\ Fits(None, T, 0) /\ Fits(Null, T, 0) /\ Fits(Broken, T, 0)
               /\ Fits(Atom("error"), T, 0) /\ Fits(Atom("key"), T, 0)
    BY DEF Fits, None, Null, Broken, Atom
  <2> QED BY <2>3, <2>4 DEF Given
<1>6. ASSUME NEW f \in DOMAIN code
      PROVE  /\ code[f].op.x = "C" => Literal(code, code[f].op.v)
             /\ \A i \in DOMAIN code[f].args : code[f].args[i].x = "C" => Literal(code, code[f].args[i].v)
  BY <1>2 DEF WellFormed, InScope
<1>7. \A v \in S : \A T : Fits(v, T, 0)
  BY <1>3, <1>5, <1>6
<1>8. /\ Given \subseteq S /\ main \in S
      /\ \A f \in DOMAIN code :
           /\ code[f].op.x = "C" => code[f].op.v \in S
           /\ \A i \in DOMAIN code[f].args : code[f].args[i].x = "C" => code[f].args[i].v \in S
  OBVIOUS
<1> HIDE DEF S
<1>9. Sound(S, 0)
  BY <1>7, <1>8 DEF Sound
<1>10. cfg \in Configs(S) /\ Len(cfg.conts) = 0 /\ cfg.conts = <<>>
  BY <1>1, <1>8 DEF Registers, Configs, Given
<1>11. Typed(S)
  <2>1. Comes(next, S)
    BY <1>1 DEF Comes
  <2>2. frames \in Seq(RustCalls(S)) /\ ids \in Nat
    BY <1>1
  <2> QED BY <1>1, <1>9, <1>10, <2>1, <2>2 DEF Typed
<1>12. NestInv
  <2>1. Vm # Return
    BY DEF Vm, Return
  <2> QED BY <1>1, <1>10, <2>1 DEF NestInv, Numbered, Known, Owned, Nested, Inside
<1> QED BY <1>11, <1>12 DEF Inv, TypeInv

LEMMA StepOk == Inv /\ [Next]_vars => Inv'
<1> SUFFICES ASSUME Inv, [Next]_vars PROVE Inv'
  OBVIOUS
<1>1. PICK S : Typed(S)
  BY DEF Inv, TypeInv
<1>2. NestInv
  BY DEF Inv
<1>3. CASE VmStep
  BY <1>1, <1>2, <1>3, VmStepOk
<1>4. CASE Deopt
  BY <1>1, <1>2, <1>4, DeoptOk DEF Deopt, Machine
<1>5. CASE NullPass
  BY <1>1, <1>2, <1>5, NullPassOk
<1>6. CASE PrimCall
  BY <1>1, <1>2, <1>6, PrimCallOk
<1>7. CASE Finish
  BY <1>1, <1>2, <1>7, FinishOk
<1>8. CASE GetCont
  BY <1>1, <1>2, <1>8, GetContOk
<1>9. CASE Call
  BY <1>1, <1>2, <1>9, CallOk
<1>10. CASE FusedCall
  BY <1>1, <1>2, <1>10, FusedCallOk
<1>11. CASE IfCall
  BY <1>1, <1>2, <1>11, IfCallOk
<1>12. CASE NoBudget
  BY <1>1, <1>2, <1>12, NotHereOk DEF NoBudget, Machine
<1>13. CASE OnNull
  BY <1>1, <1>2, <1>13, OnNullOk
<1>14. CASE OnClosure
  BY <1>1, <1>2, <1>14, OnClosureOk
<1>15. CASE OnCont
  BY <1>1, <1>2, <1>15, OnContOk
<1>16. CASE OnPrim
  BY <1>1, <1>2, <1>16, OnPrimOk
<1>17. CASE OnOther
  BY <1>1, <1>2, <1>17, NotHereOk DEF OnOther, Applies, Machine
<1>18. CASE Returns
  BY <1>1, <1>2, <1>18, ReturnsOk
<1>19. CASE Leaves
  BY <1>1, <1>2, <1>19, LeavesOk
<1>20. CASE Escapes
  BY <1>1, <1>2, <1>20, EscapesOk
<1>21. CASE Errs
  BY <1>1, <1>2, <1>21, ErrsOk
<1>22. CASE UNCHANGED vars
  <2>1. cfg' = cfg /\ next' = next /\ frames' = frames /\ ids' = ids /\ prog' = prog
    BY <1>22 DEF vars
  <2>2. /\ Sound(S, Len(cfg.conts)) /\ cfg \in Configs(S) /\ Comes(next, S)
    BY <1>1, TypedIs
  <2>3. Inside(cfg', next')
    BY <1>2, <2>1 DEF NestInv
  <2> QED BY <1>1, <1>2, <2>1, <2>2, <2>3, Steady
<1> QED
  BY <1>3, <1>4, <1>5, <1>6, <1>7, <1>8, <1>9, <1>10, <1>11, <1>12, <1>13, <1>14, <1>15,
     <1>16, <1>17, <1>18, <1>19, <1>20, <1>21, <1>22 DEF Next

\* Whatever program is run, with whatever budget and depth: the Rust calls
\* nest, each continuation made in one knows where it is to be spliced, and
\* none outlives it with a part of its CChain missing.
THEOREM CallsNestRight == Spec => []CallsNest
<1>1. Inv => CallsNest
  BY NestIsEnough DEF Inv
<1> QED BY InitOk, StepOk, <1>1, PTL DEF Spec

=============================================================================
