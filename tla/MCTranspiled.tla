---------------------------- MODULE MCTranspiled ----------------------------
(***************************************************************************)
(* Programs for Transpiled: main takes its continuation k and calls g,     *)
(* which may call h; each Body is one of a few that pass values on, call   *)
(* them (they may be continuations of any of the calls), keep them in the  *)
(* PDict, or need the VM.  In a comment, a Body is in ConMa's notation.    *)
(***************************************************************************)
EXTENDS TranspiledVm, TLC

A == Const(Atom("a"))
G(f) == Const(Clo(f, <<>>))
P(p) == Const(Prim(p))
Nil == Const(Null)

Make(k, x, g, y, h, bare) ==
    [f \in DOMAIN Builtin |-> Builtin[f]] @@
    [f \in {"main", "k", "x", "g", "y", "h", "c", "t", "s", "u"} |->
        LET fn == CASE f = "main" -> Fn(0, P("cont_get"), <<>>, "k")
                    [] f = "k" -> k
                    [] f = "x" -> x
                    [] f = "g" -> g
                    [] f = "y" -> y
                    [] f = "h" -> h
                    [] f = "c" -> Fn(0, P("is_null"), <<Nil>>, "none")   \* ,() __is_null__ null
                    [] f = "t" -> Fn(0, G("g"), <<Local(0)>>, "none")    \* ,() g k
                    [] f = "s" -> Fn(1, P("chain_set"), <<Local(0)>>, "none")   \* __CChain_set__ s
                    [] f = "u" -> Fn(1, P("push"), <<Local(0)>>, "none")   \* __CChain_push_CFrame__ u
        IN  [bare |-> f = bare, scope |-> IF f \in {"x", "y", "t"} THEN 1 ELSE 0] @@ fn]

\* The Body of main's LCont ,(k).
Ks == <<Fn(1, G("g"), <<Local(0)>>, "x"),                           \* g k ,(x) ...
        Fn(1, P("if"), <<Func("c"), Func("t")>>, "x"),              \* __if__ (,() __is_null__ null) (,() g k) ,(x) ...
        Fn(1, P("if"), <<Const(Bool(TRUE)), G("h")>>, "x"),         \* __if__ __TRUE__ h ,(x) ...
       Fn(1, P("unless"), <<Const(Bool(TRUE)), Func("t")>>, "y")>> \* __unless__ __TRUE__ (,() g k) ,(y) ...

\* ... of the LCont ,(x) in it.
Xs == <<Fn(1, Const(Null), <<Local(0)>>, "none"),                   \* __NULL__ x
        Fn(1, Local(0), <<A>>, "none"),                             \* x a
        Fn(1, P("lookup"), <<Local(1)>>, "y"),                      \* __PDict_lookup_or__ k ,(y) ...
        Fn(1, Local(1), <<Local(0)>>, "none")>>                     \* k x

\* ... of g ,(p).
Gs == <<Fn(1, Local(0), <<A>>, "none"),                             \* p a
        Fn(1, G("h"), <<Local(0)>>, "y"),                           \* h p ,(y) ...
        Fn(1, P("cont_get"), <<>>, "y"),                            \* __Cont_get__ ,(y) ...
        Fn(1, P("divide"), <<G("h"), A>>, "y")>>                    \* __Number_divide__ h a ,(y) ...

\* ... of the LConts ,(y) in g and in main.
Ys == <<Fn(1, Const(Null), <<Local(0)>>, "none"),                   \* __NULL__ y
        Fn(1, G("h"), <<Local(0)>>, "x"),                           \* h y ,(x) ...
        [Fn(1, Local(0), <<G("h")>>, "none") EXCEPT !.variadic = TRUE],  \* , y: y h
        Fn(1, Local(0), <<Local(1)>>, "none")>>                     \* y p

\* ... of h ,(q).
Hs == <<Fn(1, Const(Null), <<Local(0)>>, "none"),                   \* __NULL__ q
        Fn(1, P("put"), <<Local(0)>>, "none"),                      \* __PDict_put__ key q
        Fn(1, Local(0), <<A>>, "none"),                             \* q a
        Fn(1, P("cont_get"), <<>>, "y"),                            \* __Cont_get__ ,(y) ...
        Fn(1, P("cont_get"), <<>>, "none"),                         \* __Cont_get__
        Fn(1, P("suspend"), <<>>, "none"),                          \* __VProc_suspend__
        Fn(1, P("chain_get"), <<>>, "s"),                           \* __CChain_get__ ,(s) ...
        Fn(1, P("pop"), <<>>, "u"),                                 \* __CChain_pop_CFrame__ ,(u) ...
        Fn(1, P("divide"), <<G("h"), Local(0)>>, "none"),           \* __Number_divide__ h q
        Fn(1, G("h"), <<Local(0)>>, "none")>>                       \* h q

Numbers(s) == 1..Len(s)

\* A program is named by the number of each of its Bodies, and whether h has
\* no transpiled code.  (Without the programs that make continuations of
\* continuations for ever: as values they grow exponentially.)
Names ==
    {p \in Numbers(Ks) \X Numbers(Xs) \X Numbers(Gs) \X Numbers(Ys) \X Numbers(Hs) \X {0, 1} :
        p[4] = 2 => p[5] # 4}

Table == [k \in DOMAIN Ks |-> [x \in DOMAIN Xs |-> [g \in DOMAIN Gs |-> [y \in DOMAIN Ys |->
            [h \in DOMAIN Hs |-> [i \in 1..2 |->
                Make(Ks[k], Xs[x], Gs[g], Ys[y], Hs[h], IF i = 2 THEN "h" ELSE "none")]]]]]]

ProgramOf(p) == Table[p[1]][p[2]][p[3]][p[4]][p[5]][p[6] + 1]
============================================================================
