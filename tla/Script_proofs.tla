---------------------------- MODULE Script_proofs ----------------------------
(***************************************************************************)
(* For scripts that have no full variable list or call no continuation:    *)
(* `meta' holds the resets that are being run and no others                *)
(* (MetaStaysLive), return, break and continue find their frame            *)
(* (FlowsArrive), and the nested runs and `meta' together are the one      *)
(* stack of Delimited (OneStack).                                          *)
(***************************************************************************)
EXTENDS Script, TLAPS, FiniteSetTheorems, SequenceTheorems, WellFoundedInduction

----------------------------------------------------------------------------
(***************************************************************************)
(* The first element of a sequence with a property.                        *)
(***************************************************************************)
LEMMA Least ==
  ASSUME NEW T, T \subseteq Nat, T # {}
  PROVE  Min(T) \in T /\ \A y \in T : Min(T) <= y
<1>1. PICK x \in T : \A y \in T : ~(<<y, x>> \in OpToRel(<, Nat))
  BY WFMin, NatLessThanWellFounded
<1>2. \A y \in T : x <= y
  <2> SUFFICES ASSUME NEW y \in T, y < x PROVE FALSE
    OBVIOUS
  <2>1. x \in Nat /\ y \in Nat
    OBVIOUS
  <2>2. <<y, x>> \in OpToRel(<, Nat)
    BY <2>1 DEF OpToRel
  <2> QED BY <1>1, <2>2
<1> QED BY <1>1, <1>2 DEF Min

HasReset(c, n) == \E m \in DOMAIN c : m >= n /\ c[m] = ResetEnd

\* The frames up to the end of the reset.
LEMMA UpTo ==
  ASSUME NEW F, NEW c \in Seq(F)
  PROVE  /\ ~HasReset(c, 1) => UpToReset(c) = c
         /\ HasReset(c, 1) =>
              \E n \in DOMAIN c : /\ c[n] = ResetEnd /\ UpToReset(c) = SubSeq(c, 1, n)
                                  /\ \A m \in 1 .. n - 1 : c[m] # ResetEnd
<1> DEFINE I == {i \in 1 .. Len(c) : c[i] = ResetEnd}
           n == IF I # {} THEN Min(I) ELSE 0
<1>1. UpToReset(c) = IF n = 0 THEN c ELSE SubSeq(c, 1, n)
  BY DEF UpToReset, FirstPlace
<1>2. DOMAIN c = 1 .. Len(c) /\ Len(c) \in Nat
  OBVIOUS
<1>3. CASE I = {}
  BY <1>1, <1>2, <1>3 DEF HasReset
<1>4. CASE I # {}
  <2>1. n = Min(I) /\ n \in I /\ \A y \in I : n <= y
    <3>1. I \subseteq Nat
      OBVIOUS
    <3> HIDE DEF I
    <3> QED BY <1>4, <3>1, Least
  <2>2. HasReset(c, 1) /\ n \in DOMAIN c /\ c[n] = ResetEnd /\ n # 0
    BY <1>2, <2>1 DEF HasReset
  <2> HIDE DEF n
  <2>3. ASSUME NEW m \in 1 .. n - 1, c[m] = ResetEnd PROVE FALSE
    <3>1. m \in I
      BY <1>2, <2>2, <2>3
    <3> QED BY <1>2, <2>1, <2>2, <2>3, <3>1
  <2> QED BY <1>1, <2>2, <2>3
<1> QED BY <1>3, <1>4

\* The frame at which a flow ends.
LEMMA PlaceIsFirst ==
  ASSUME NEW F, chain \in Seq(F)
  PROVE  /\ Place = 0 => \A m \in DOMAIN chain : ~Ends(chain[m], st.flow)
         /\ Place # 0 => /\ Place \in DOMAIN chain /\ Ends(chain[Place], st.flow)
                         /\ \A m \in DOMAIN chain : Ends(chain[m], st.flow) => Place <= m
<1> DEFINE I == {i \in 1 .. Len(chain) : Ends(chain[i], st.flow)}
<1>1. Place = IF I # {} THEN Min(I) ELSE 0
  BY DEF Place, FirstPlace
<1>2. DOMAIN chain = 1 .. Len(chain) /\ Len(chain) \in Nat
  OBVIOUS
<1>3. CASE I = {}
  BY <1>1, <1>2, <1>3
<1>4. CASE I # {}
  <2>1. Place = Min(I) /\ Place \in I /\ \A y \in I : Place <= y
    <3>1. I \subseteq Nat
      OBVIOUS
    <3> HIDE DEF I
    <3> QED BY <1>1, <1>4, <3>1, Least
  <2> QED BY <1>2, <2>1
<1> QED BY <1>3, <1>4

----------------------------------------------------------------------------
(***************************************************************************)
(* How many ends of resets a Chain has.                                    *)
(***************************************************************************)
At(c) == {j \in DOMAIN c : c[j] = ResetEnd}

LEMMA Counted ==
  ASSUME NEW F, NEW c \in Seq(F)
  PROVE  /\ IsFiniteSet(At(c)) /\ ResetEnds(c) = Cardinality(At(c)) /\ ResetEnds(c) \in Nat
         /\ ResetEnds(c) = 0 <=> ~HasReset(c, 1)
<1>1. At(c) \subseteq 1 .. Len(c) /\ Len(c) \in Nat
  BY DEF At
<1>2. IsFiniteSet(1 .. Len(c))
  BY <1>1, FS_Interval
<1>3. IsFiniteSet(At(c))
  BY <1>1, <1>2, FS_Subset
<1>4. ResetEnds(c) = Cardinality(At(c))
  BY DEF ResetEnds, At
<1>5. Cardinality(At(c)) \in Nat /\ (Cardinality(At(c)) = 0 <=> At(c) = {})
  BY <1>3, FS_CardinalityType, FS_EmptySet
<1>6. At(c) = {} <=> ~HasReset(c, 1)
  BY <1>1 DEF At, HasReset
<1> QED BY <1>3, <1>4, <1>5, <1>6

LEMMA CountJoined ==
  ASSUME NEW F, NEW a \in Seq(F), NEW b \in Seq(F)
  PROVE  ResetEnds(a \o b) = ResetEnds(a) + ResetEnds(b)
<1> DEFINE n == Len(a)
           up == {j \in n + 1 .. n + Len(b) : b[j - n] = ResetEnd}
           f == [j \in At(b) |-> j + n]
<1>1. n \in Nat /\ Len(b) \in Nat /\ DOMAIN a = 1 .. n /\ DOMAIN b = 1 .. Len(b)
      /\ a \o b \in Seq(F) /\ DOMAIN (a \o b) = 1 .. n + Len(b)
      /\ (\A j \in 1 .. n : (a \o b)[j] = a[j])
      /\ \A j \in n + 1 .. n + Len(b) : (a \o b)[j] = b[j - n]
  OBVIOUS
<1>2. At(a \o b) = At(a) \cup up
  <2>1. ASSUME NEW j \in At(a \o b) PROVE j \in At(a) \cup up
    BY <1>1 DEF At
  <2>2. ASSUME NEW j \in At(a) PROVE j \in At(a \o b)
    BY <1>1 DEF At
  <2>3. ASSUME NEW j \in up PROVE j \in At(a \o b)
    BY <1>1 DEF At
  <2> QED BY <2>1, <2>2, <2>3
<1>3. At(a) \cap up = {}
  BY <1>1 DEF At
<1>4. f \in Bijection(At(b), up)
  <2>1. \A j \in At(b) : f[j] \in up
    BY <1>1 DEF At
  <2>2. \A i \in At(b), j \in At(b) : f[i] = f[j] => i = j
    BY <1>1 DEF At
  <2>3. ASSUME NEW t \in up PROVE \E j \in At(b) : f[j] = t
    <3>1. t - n \in At(b) /\ (t - n) + n = t
      BY <1>1 DEF At
    <3> QED BY <3>1
  <2>4. f \in [At(b) -> up]
    BY <2>1
  <2> HIDE DEF f
  <2> QED BY <2>2, <2>3, <2>4 DEF Bijection, Injection, Surjection, IsInjective
<1>5. IsFiniteSet(At(a)) /\ IsFiniteSet(At(b)) /\ ResetEnds(a) = Cardinality(At(a))
      /\ ResetEnds(b) = Cardinality(At(b)) /\ ResetEnds(a) \in Nat /\ ResetEnds(b) \in Nat
  BY Counted
<1>6. ExistsBijection(At(b), up)
  BY <1>4 DEF ExistsBijection
<1>7. IsFiniteSet(up) /\ Cardinality(up) = Cardinality(At(b))
  <2> HIDE DEF up
  <2> QED BY <1>5, <1>6, FS_Bijection
<1>8. Cardinality(At(a) \cup up) = Cardinality(At(a)) + Cardinality(up) - Cardinality(At(a) \cap up)
  <2> HIDE DEF up
  <2> QED BY <1>5, <1>7, FS_Union
<1>9. Cardinality(At(a) \cap up) = 0
  BY <1>3, FS_EmptySet
<1>10. ResetEnds(a \o b) = Cardinality(At(a \o b))
  BY <1>1, Counted
<1> QED
  <2> HIDE DEF up, n
  <2> QED BY <1>2, <1>5, <1>7, <1>8, <1>9, <1>10

LEMMA Joined ==
  ASSUME NEW F, NEW a \in Seq(F), NEW b \in Seq(F), NEW c \in Seq(F), NEW n \in Nat, n <= Len(c),
         Len(a) = n, Len(b) = Len(c) - n, \A j \in 1 .. n : a[j] = c[j],
         \A j \in 1 .. Len(c) - n : b[j] = c[n + j]
  PROVE  c = a \o b
<1>1. Len(c) \in Nat /\ a \o b \in Seq(F) /\ Len(a \o b) = Len(c)
  OBVIOUS
<1>2. ASSUME NEW j \in 1 .. Len(c) PROVE (a \o b)[j] = c[j]
  <2>1. CASE j <= n
    BY <1>1, <2>1
  <2>2. CASE j > n
    <3>1. (a \o b)[j] = b[j - n] /\ j - n \in 1 .. Len(c) - n /\ n + (j - n) = j
      BY <1>1, <2>2
    <3> QED BY <3>1
  <2> QED BY <1>1, <2>1, <2>2
<1> QED BY <1>1, <1>2, SeqEqual

LEMMA Dropped ==
  ASSUME NEW F, NEW c \in Seq(F), NEW n \in 0 .. Len(c)
  PROVE  /\ Drop(c, n) \in Seq(F) /\ Len(Drop(c, n)) = Len(c) - n
         /\ \A j \in 1 .. Len(c) - n : Drop(c, n)[j] = c[n + j]
         /\ SubSeq(c, 1, n) \in Seq(F) /\ c = SubSeq(c, 1, n) \o Drop(c, n)
<1> DEFINE a == SubSeq(c, 1, n)
           b == SubSeq(c, n + 1, Len(c))
<1>1. Len(c) \in Nat /\ n \in Nat /\ n <= Len(c)
  OBVIOUS
<1>2. a \in Seq(F) /\ Len(a) = n /\ \A j \in 1 .. n : a[j] = c[j]
  BY <1>1
<1>3. b \in Seq(F) /\ Len(b) = Len(c) - n /\ \A j \in 1 .. Len(c) - n : b[j] = c[n + j]
  BY <1>1
<1>4. c = a \o b
  <2> HIDE DEF a, b
  <2> QED BY <1>1, <1>2, <1>3, Joined
<1> QED BY <1>2, <1>3, <1>4 DEF Drop

LEMMA CountDropped ==
  ASSUME NEW F, NEW c \in Seq(F), NEW n \in 0 .. Len(c)
  PROVE  ResetEnds(c) = ResetEnds(SubSeq(c, 1, n)) + ResetEnds(Drop(c, n))
<1>1. Drop(c, n) \in Seq(F) /\ SubSeq(c, 1, n) \in Seq(F) /\ c = SubSeq(c, 1, n) \o Drop(c, n)
  BY Dropped
<1> DEFINE a == SubSeq(c, 1, n)
           b == Drop(c, n)
<1>2. ResetEnds(a \o b) = ResetEnds(a) + ResetEnds(b)
  <2> HIDE DEF a, b
  <2>1. a \in Seq(F) /\ b \in Seq(F)
    BY <1>1 DEF a, b
  <2> QED BY <2>1, CountJoined
<1> QED BY <1>1, <1>2

----------------------------------------------------------------------------
(***************************************************************************)
(* Where return, break and continue go from a frame, and what a Chain is   *)
(* like that is run, or in meta, with q resets around it.                  *)
(***************************************************************************)
Flows == [k : {"return", "break", "continue"}, id : Nat]

Leads(sh, flow) ==
  \/ flow.k = "return" /\ ~sh.noReturn /\ sh.ret # 0 /\ flow.id = sh.ret
  \/ flow.k \in {"break", "continue"} /\ sh.loops # <<>> /\ flow.id = Head(sh.loops)

HasCtx(frame) == "sh" \in DOMAIN frame

\* From place n on there is a frame that ends the flow, in the same reset.
ReachIn(c, n, flow) ==
  \E m \in DOMAIN c : m >= n /\ Ends(c[m], flow) /\ \A x \in n .. m : c[x] # ResetEnd

\* ... or it ends outside of the Chain, at one of the flows in out.
Scoped(c, out) ==
  \A n \in DOMAIN c : \A flow \in Flows :
    HasCtx(c[n]) /\ Leads(c[n].sh, flow) =>
      ReachIn(c, n, flow) \/ (~HasReset(c, n) /\ flow \in out)

Marked(c) ==
  \A n \in DOMAIN c : HasCtx(c[n]) /\ ~HasReset(c, n) => c[n].sh.redirected

\* What is in a reset of its Chain is not redirected out of it, and, unless a
\* continuation was called, a full list stops the statement that has it.
Straight(c) == \A n \in DOMAIN c : HasCtx(c[n]) /\ HasReset(c, n) => ~c[n].sh.redirected

Tuned(exact, c) ==
  \A n \in DOMAIN c : HasCtx(c[n]) =>
    /\ HasReset(c, n) => ~c[n].sh.redirected
    /\ exact => c[n].sh.out = c[n].sh.abort

Piece(F, exact, c, q, g, out) ==
  /\ c \in Seq(F) /\ q \in Nat
  /\ HasReset(c, 1) <=> q > 0
  /\ exact => ResetEnds(c) = q
  /\ Scoped(c, out)
  /\ g # 0 => Marked(c)
  /\ Tuned(exact, c)

LEMMA DropScoped ==
  ASSUME NEW F, NEW c \in Seq(F), NEW n \in 0 .. Len(c), NEW out, Scoped(c, out)
  PROVE  Scoped(Drop(c, n), out)
<1> DEFINE e == Drop(c, n)
<1>1. e \in Seq(F) /\ Len(e) = Len(c) - n /\ \A j \in 1 .. Len(c) - n : e[j] = c[n + j]
  BY Dropped
<1>2. DOMAIN e = 1 .. Len(c) - n /\ DOMAIN c = 1 .. Len(c) /\ Len(c) \in Nat /\ n \in Nat
  BY <1>1
<1> HIDE DEF e
<1> SUFFICES ASSUME NEW m \in DOMAIN e, NEW flow \in Flows, HasCtx(e[m]), Leads(e[m].sh, flow)
             PROVE  ReachIn(e, m, flow) \/ (~HasReset(e, m) /\ flow \in out)
  BY DEF Scoped, e
<1>3. n + m \in DOMAIN c /\ c[n + m] = e[m] /\ m \in Nat
  BY <1>1, <1>2
<1>4. CASE ReachIn(c, n + m, flow)
  <2>1. PICK y \in DOMAIN c : y >= n + m /\ Ends(c[y], flow) /\ \A x \in n + m .. y : c[x] # ResetEnd
    BY <1>4 DEF ReachIn
  <2>2. y - n \in DOMAIN e /\ y - n >= m /\ e[y - n] = c[y]
    BY <1>1, <1>2, <1>3, <2>1
  <2>3. ASSUME NEW x \in m .. y - n PROVE e[x] # ResetEnd
    <3>1. e[x] = c[n + x] /\ n + x \in n + m .. y
      BY <1>1, <1>2, <1>3, <2>1, <2>2
    <3> QED BY <2>1, <3>1
  <2> QED BY <2>1, <2>2, <2>3 DEF ReachIn
<1>5. CASE ~HasReset(c, n + m) /\ flow \in out
  <2>1. ASSUME NEW y \in DOMAIN e, y >= m, e[y] = ResetEnd PROVE FALSE
    <3>1. n + y \in DOMAIN c /\ n + y >= n + m /\ c[n + y] = ResetEnd
      BY <1>1, <1>2, <1>3, <2>1
    <3> QED BY <1>5, <3>1 DEF HasReset
  <2> QED BY <1>5, <2>1 DEF HasReset
<1> QED BY <1>3, <1>4, <1>5 DEF Scoped

\* Frames are taken off a Chain, up to the end of its reset.
LEMMA PieceDrop ==
  ASSUME NEW F, NEW exact, NEW c, NEW q, NEW g, NEW out,
         Piece(F, exact, c, q, g, out), NEW n \in 0 .. Len(c),
         \A m \in 1 .. n : c[m] # ResetEnd
  PROVE  Piece(F, exact, Drop(c, n), q, g, out)
<1> DEFINE e == Drop(c, n)
<1>1. c \in Seq(F) /\ q \in Nat
  BY DEF Piece
<1>2. e \in Seq(F) /\ Len(e) = Len(c) - n /\ (\A j \in 1 .. Len(c) - n : e[j] = c[n + j])
      /\ SubSeq(c, 1, n) \in Seq(F)
  BY <1>1, Dropped
<1>3. DOMAIN e = 1 .. Len(c) - n /\ DOMAIN c = 1 .. Len(c) /\ Len(c) \in Nat /\ n \in Nat
  BY <1>1, <1>2
<1>4. Scoped(e, out)
  BY <1>1, DropScoped DEF Piece
<1>5. ~HasReset(SubSeq(c, 1, n), 1)
  BY <1>1 DEF HasReset
<1>6. ResetEnds(SubSeq(c, 1, n)) = 0 /\ ResetEnds(e) \in Nat
  BY <1>2, <1>5, Counted
<1>7. ResetEnds(c) = ResetEnds(SubSeq(c, 1, n)) + ResetEnds(e)
  BY <1>1, CountDropped
<1>8. ResetEnds(e) = ResetEnds(c)
  BY <1>6, <1>7
<1>9. HasReset(e, 1) <=> HasReset(c, 1)
  <2>1. (ResetEnds(e) = 0 <=> ~HasReset(e, 1)) /\ (ResetEnds(c) = 0 <=> ~HasReset(c, 1))
    BY <1>1, <1>2, Counted
  <2> QED BY <1>8, <2>1
<1> HIDE DEF e
<1>10. ASSUME Marked(c) PROVE Marked(e)
  <2> SUFFICES ASSUME NEW m \in DOMAIN e, HasCtx(e[m]), ~HasReset(e, m) PROVE e[m].sh.redirected
    BY DEF Marked
  <2>1. n + m \in DOMAIN c /\ c[n + m] = e[m] /\ m \in Nat
    BY <1>2, <1>3
  <2>2. ~HasReset(c, n + m)
    <3> SUFFICES ASSUME NEW y \in DOMAIN c, y >= n + m, c[y] = ResetEnd PROVE FALSE
      BY DEF HasReset
    <3>1. y - n \in DOMAIN e /\ y - n >= m /\ e[y - n] = c[y]
      BY <1>2, <1>3, <2>1
    <3> QED BY <3>1 DEF HasReset
  <2> QED BY <1>10, <2>1, <2>2 DEF Marked
<1>11. Tuned(exact, e)
  <2> SUFFICES ASSUME NEW m \in DOMAIN e, HasCtx(e[m])
               PROVE  /\ HasReset(e, m) => ~e[m].sh.redirected
                      /\ exact => e[m].sh.out = e[m].sh.abort
    BY DEF Tuned
  <2>1. n + m \in DOMAIN c /\ c[n + m] = e[m] /\ m \in Nat
    BY <1>2, <1>3
  <2>2. ASSUME HasReset(e, m) PROVE HasReset(c, n + m)
    <3>1. PICK y \in DOMAIN e : y >= m /\ e[y] = ResetEnd
      BY <2>2 DEF HasReset
    <3>2. n + y \in DOMAIN c /\ n + y >= n + m /\ c[n + y] = ResetEnd
      BY <1>2, <1>3, <2>1, <3>1
    <3> QED BY <3>2 DEF HasReset
  <2>3. Tuned(exact, c)
    BY DEF Piece
  <2> QED BY <2>1, <2>2, <2>3 DEF Tuned
<1>12. Piece(F, exact, e, q, g, out)
  BY <1>1, <1>2, <1>4, <1>8, <1>9, <1>10, <1>11 DEF Piece
<1> QED BY <1>12 DEF e

\* What a frame before a Chain may lead to.
Covers(k, out, flow) == ReachIn(k, 1, flow) \/ (~HasReset(k, 1) /\ flow \in out)

\* Frames without the end of a reset are pushed.
LEMMA PieceJoin ==
  ASSUME NEW F, NEW exact, NEW k, NEW q, NEW g, NEW out,
         Piece(F, exact, k, q, g, out),
         NEW a \in Seq(F), \A i \in DOMAIN a : a[i] # ResetEnd,
         \A i \in DOMAIN a : \A flow \in Flows :
           HasCtx(a[i]) /\ Leads(a[i].sh, flow) =>
             (\E m \in DOMAIN a : m >= i /\ Ends(a[m], flow)) \/ Covers(k, out, flow),
         g # 0 /\ ~HasReset(k, 1) => \A i \in DOMAIN a : HasCtx(a[i]) => a[i].sh.redirected,
         \A i \in DOMAIN a : HasCtx(a[i]) =>
           /\ HasReset(k, 1) => ~a[i].sh.redirected
           /\ exact => a[i].sh.out = a[i].sh.abort
  PROVE  Piece(F, exact, a \o k, q, g, out)
<1> DEFINE c == a \o k
           n == Len(a)
<1>1. k \in Seq(F) /\ q \in Nat
  BY DEF Piece
<1>2. n \in Nat /\ Len(k) \in Nat /\ DOMAIN a = 1 .. n /\ DOMAIN k = 1 .. Len(k)
      /\ c \in Seq(F) /\ DOMAIN c = 1 .. n + Len(k)
      /\ (\A j \in 1 .. n : c[j] = a[j])
      /\ (\A j \in n + 1 .. n + Len(k) : c[j] = k[j - n])
      /\ \A j \in 1 .. Len(k) : c[n + j] = k[j]
  BY <1>1
<1>3. ResetEnds(a) = 0
  <2>1. ~HasReset(a, 1)
    BY DEF HasReset
  <2> QED BY <2>1, Counted
<1>4. ResetEnds(c) = ResetEnds(a) + ResetEnds(k) /\ ResetEnds(k) \in Nat
  BY <1>1, CountJoined, Counted
<1>5. ResetEnds(c) = ResetEnds(k)
  BY <1>3, <1>4
<1>6. HasReset(c, 1) <=> HasReset(k, 1)
  <2>1. ResetEnds(c) = 0 <=> ~HasReset(c, 1)
    BY <1>2, Counted
  <2>2. ResetEnds(k) = 0 <=> ~HasReset(k, 1)
    BY <1>1, Counted
  <2> QED BY <1>5, <2>1, <2>2
<1> HIDE DEF c, n
\* The places of k in c.
<1>7. ASSUME NEW j \in DOMAIN k PROVE n + j \in DOMAIN c /\ c[n + j] = k[j]
  BY <1>2
<1>8. ASSUME NEW j \in DOMAIN c, j > n PROVE j - n \in DOMAIN k /\ c[j] = k[j - n]
  BY <1>2, <1>8
<1>9. ASSUME NEW i \in DOMAIN k, NEW flow, ReachIn(k, i, flow) PROVE ReachIn(c, n + i, flow)
  <2>1. PICK m \in DOMAIN k : m >= i /\ Ends(k[m], flow) /\ \A x \in i .. m : k[x] # ResetEnd
    BY <1>9 DEF ReachIn
  <2>2. n + m \in DOMAIN c /\ n + m >= n + i /\ Ends(c[n + m], flow)
    BY <1>2, <1>7, <2>1
  <2>3. ASSUME NEW x \in n + i .. n + m PROVE c[x] # ResetEnd
    <3>1. x - n \in i .. m /\ x \in DOMAIN c /\ x > n
      BY <1>2, <2>1
    <3> QED BY <1>8, <2>1, <3>1
  <2> QED BY <2>2, <2>3 DEF ReachIn
<1>10. ASSUME NEW i \in DOMAIN k, ~HasReset(k, i) PROVE ~HasReset(c, n + i)
  <2> SUFFICES ASSUME NEW y \in DOMAIN c, y >= n + i, c[y] = ResetEnd PROVE FALSE
    BY DEF HasReset
  <2>1. y - n \in DOMAIN k /\ k[y - n] = ResetEnd /\ y - n >= i
    BY <1>2, <1>8
  <2> QED BY <1>10, <2>1 DEF HasReset
<1>11. ASSUME NEW i \in DOMAIN a, NEW flow, ReachIn(k, 1, flow) PROVE ReachIn(c, i, flow)
  <2>1. PICK m \in DOMAIN k : m >= 1 /\ Ends(k[m], flow) /\ \A x \in 1 .. m : k[x] # ResetEnd
    BY <1>11 DEF ReachIn
  <2>2. n + m \in DOMAIN c /\ n + m >= i /\ Ends(c[n + m], flow)
    BY <1>2, <1>7, <2>1
  <2>3. ASSUME NEW x \in i .. n + m PROVE c[x] # ResetEnd
    <3>1. CASE x <= n
      <4>1. x \in DOMAIN a /\ c[x] = a[x]
        BY <1>2, <3>1
      <4> QED BY <4>1
    <3>2. CASE x > n
      <4>1. x - n \in 1 .. m /\ x \in DOMAIN c
        BY <1>2, <2>1, <3>2
      <4> QED BY <1>8, <2>1, <3>2, <4>1
    <3> QED BY <1>2, <3>1, <3>2
  <2> QED BY <2>2, <2>3 DEF ReachIn
<1>12. ASSUME NEW i \in DOMAIN a, ~HasReset(k, 1) PROVE ~HasReset(c, i)
  <2> SUFFICES ASSUME NEW y \in DOMAIN c, c[y] = ResetEnd PROVE FALSE
    BY DEF HasReset
  <2>1. HasReset(c, 1)
    BY <1>2 DEF HasReset
  <2> QED BY <1>6, <1>12, <2>1
<1>13. Scoped(c, out)
  <2> SUFFICES ASSUME NEW i \in DOMAIN c, NEW flow \in Flows, HasCtx(c[i]), Leads(c[i].sh, flow)
               PROVE  ReachIn(c, i, flow) \/ (~HasReset(c, i) /\ flow \in out)
    BY DEF Scoped
  <2>1. CASE i > n
    <3>1. i - n \in DOMAIN k /\ c[i] = k[i - n] /\ n + (i - n) = i
      BY <1>2, <1>8, <2>1
    <3>2. ReachIn(k, i - n, flow) \/ (~HasReset(k, i - n) /\ flow \in out)
      BY <3>1 DEF Piece, Scoped
    <3> QED BY <1>9, <1>10, <3>1, <3>2
  <2>2. CASE i <= n
    <3>1. i \in DOMAIN a /\ c[i] = a[i]
      BY <1>2, <2>2
    <3>2. CASE \E m \in DOMAIN a : m >= i /\ Ends(a[m], flow)
      <4>1. PICK m \in DOMAIN a : m >= i /\ Ends(a[m], flow)
        BY <3>2
      <4>2. m \in DOMAIN c /\ c[m] = a[m] /\ \A x \in i .. m : x \in DOMAIN a /\ c[x] = a[x]
        BY <1>2, <3>1
      <4> QED BY <4>1, <4>2 DEF ReachIn
    <3>3. CASE Covers(k, out, flow)
      BY <1>11, <1>12, <3>1, <3>3 DEF Covers
    <3> QED BY <3>1, <3>2, <3>3
  <2> QED BY <1>2, <2>1, <2>2
<1>14. ASSUME g # 0 PROVE Marked(c)
  <2> SUFFICES ASSUME NEW i \in DOMAIN c, HasCtx(c[i]), ~HasReset(c, i) PROVE c[i].sh.redirected
    BY DEF Marked
  <2>1. CASE i > n
    <3>1. i - n \in DOMAIN k /\ c[i] = k[i - n] /\ n + (i - n) = i
      BY <1>2, <1>8, <2>1
    <3>2. ~HasReset(k, i - n)
      <4> SUFFICES ASSUME NEW y \in DOMAIN k, y >= i - n, k[y] = ResetEnd PROVE FALSE
        BY DEF HasReset
      <4>1. n + y \in DOMAIN c /\ c[n + y] = ResetEnd /\ n + y >= i
        BY <1>2, <1>7
      <4> QED BY <4>1 DEF HasReset
    <3> QED BY <1>14, <3>1, <3>2 DEF Piece, Marked
  <2>2. CASE i <= n
    <3>1. i \in DOMAIN a /\ c[i] = a[i]
      BY <1>2, <2>2
    <3>2. ~HasReset(k, 1)
      <4> SUFFICES ASSUME NEW y \in DOMAIN k, k[y] = ResetEnd PROVE FALSE
        BY DEF HasReset
      <4>1. n + y \in DOMAIN c /\ c[n + y] = ResetEnd /\ n + y >= i
        BY <1>2, <1>7, <2>2
      <4> QED BY <4>1 DEF HasReset
    <3> QED BY <1>14, <3>1, <3>2
  <2> QED BY <1>2, <2>1, <2>2
<1>15. c \in Seq(F)
  BY <1>2
<1>16. Tuned(exact, c)
  <2> SUFFICES ASSUME NEW i \in DOMAIN c, HasCtx(c[i])
               PROVE  /\ HasReset(c, i) => ~c[i].sh.redirected
                      /\ exact => c[i].sh.out = c[i].sh.abort
    BY DEF Tuned
  <2>1. CASE i > n
    <3>1. i - n \in DOMAIN k /\ c[i] = k[i - n] /\ n + (i - n) = i
      BY <1>2, <1>8, <2>1
    <3>2. HasReset(c, i) => HasReset(k, i - n)
      BY <1>10, <3>1
    <3>3. Tuned(exact, k)
      BY DEF Piece
    <3> QED BY <3>1, <3>2, <3>3 DEF Tuned
  <2>2. CASE i <= n
    <3>1. i \in DOMAIN a /\ c[i] = a[i]
      BY <1>2, <2>2
    <3>2. HasReset(c, i) => HasReset(k, 1)
      BY <1>12, <3>1
    <3> QED BY <3>1, <3>2
  <2> QED BY <1>2, <2>1, <2>2
<1>17. Piece(F, exact, c, q, g, out)
  BY <1>1, <1>5, <1>6, <1>13, <1>14, <1>15, <1>16 DEF Piece
<1> QED BY <1>17 DEF c

\* The end of a reset is pushed.
LEMMA PieceReset ==
  ASSUME NEW F, NEW exact, NEW k, NEW q, NEW g, NEW out,
         Piece(F, exact, k, q, g, out), ResetEnd \in F
  PROVE  Piece(F, exact, <<ResetEnd>> \o k, q + 1, g, out)
<1> DEFINE c == <<ResetEnd>> \o k
<1>1. k \in Seq(F) /\ q \in Nat /\ <<ResetEnd>> \in Seq(F)
  BY DEF Piece
<1>2. Len(k) \in Nat /\ DOMAIN k = 1 .. Len(k) /\ c \in Seq(F) /\ DOMAIN c = 1 .. 1 + Len(k)
      /\ c[1] = ResetEnd /\ (\A j \in 2 .. 1 + Len(k) : c[j] = k[j - 1])
      /\ \A j \in 1 .. Len(k) : c[1 + j] = k[j]
  BY <1>1
<1>3. ResetEnds(<<ResetEnd>>) = 1
  <2>1. At(<<ResetEnd>>) = {} \cup {1}
    BY DEF At
  <2>2. IsFiniteSet({}) /\ Cardinality({}) = 0
    BY FS_EmptySet
  <2>3. Cardinality({} \cup {1}) = IF 1 \in {} THEN Cardinality({}) ELSE Cardinality({}) + 1
    BY <2>2, FS_AddElement
  <2>4. ResetEnds(<<ResetEnd>>) = Cardinality(At(<<ResetEnd>>))
    BY <1>1, Counted
  <2>5. Cardinality({} \cup {1}) = 1
    BY <2>2, <2>3
  <2> QED BY <2>1, <2>4, <2>5
<1>4. ResetEnds(c) = 1 + ResetEnds(k)
  BY <1>1, <1>3, CountJoined
<1> HIDE DEF c
<1>5. HasReset(c, 1)
  BY <1>2 DEF HasReset
<1>6. ~HasCtx(c[1])
  BY <1>2 DEF HasCtx, ResetEnd
<1>7. ASSUME NEW j \in DOMAIN c, j # 1 PROVE j - 1 \in DOMAIN k /\ c[j] = k[j - 1]
  BY <1>2, <1>7
<1>8. ASSUME NEW j \in DOMAIN k PROVE 1 + j \in DOMAIN c /\ c[1 + j] = k[j]
  BY <1>2
<1>9. Scoped(c, out)
  <2> SUFFICES ASSUME NEW i \in DOMAIN c, NEW flow \in Flows, HasCtx(c[i]), Leads(c[i].sh, flow)
               PROVE  ReachIn(c, i, flow) \/ (~HasReset(c, i) /\ flow \in out)
    BY DEF Scoped
  <2>1. i - 1 \in DOMAIN k /\ c[i] = k[i - 1] /\ i \in Nat
    BY <1>2, <1>6, <1>7
  <2>2. CASE ReachIn(k, i - 1, flow)
    <3>1. PICK m \in DOMAIN k : m >= i - 1 /\ Ends(k[m], flow) /\ \A x \in i - 1 .. m : k[x] # ResetEnd
      BY <2>2 DEF ReachIn
    <3>2. 1 + m \in DOMAIN c /\ 1 + m >= i /\ Ends(c[1 + m], flow)
      BY <1>2, <1>8, <2>1, <3>1
    <3>3. ASSUME NEW x \in i .. 1 + m PROVE c[x] # ResetEnd
      <4>1. x - 1 \in i - 1 .. m /\ x \in DOMAIN c /\ x # 1
        BY <1>2, <2>1, <3>1
      <4> QED BY <1>7, <3>1, <4>1
    <3> QED BY <3>2, <3>3 DEF ReachIn
  <2>3. CASE ~HasReset(k, i - 1) /\ flow \in out
    <3>1. ASSUME NEW y \in DOMAIN c, y >= i, c[y] = ResetEnd PROVE FALSE
      <4>1. y - 1 \in DOMAIN k /\ k[y - 1] = ResetEnd /\ y - 1 >= i - 1
        BY <1>2, <1>7, <2>1, <3>1
      <4> QED BY <2>3, <4>1 DEF HasReset
    <3> QED BY <2>3, <3>1 DEF HasReset
  <2> QED BY <2>1, <2>2, <2>3 DEF Piece, Scoped
<1>10. ASSUME g # 0 PROVE Marked(c)
  <2> SUFFICES ASSUME NEW i \in DOMAIN c, HasCtx(c[i]), ~HasReset(c, i) PROVE c[i].sh.redirected
    BY DEF Marked
  <2>1. i - 1 \in DOMAIN k /\ c[i] = k[i - 1] /\ i \in Nat
    BY <1>2, <1>6, <1>7
  <2>2. ~HasReset(k, i - 1)
    <3> SUFFICES ASSUME NEW y \in DOMAIN k, y >= i - 1, k[y] = ResetEnd PROVE FALSE
      BY DEF HasReset
    <3>1. 1 + y \in DOMAIN c /\ c[1 + y] = ResetEnd /\ 1 + y >= i
      BY <1>2, <1>8, <2>1
    <3> QED BY <3>1 DEF HasReset
  <2> QED BY <1>10, <2>1, <2>2 DEF Piece, Marked
<1>11. exact => ResetEnds(c) = q + 1
  BY <1>1, <1>4 DEF Piece
<1>12. q + 1 > 0 /\ q + 1 \in Nat
  BY <1>1
<1>13. c \in Seq(F)
  BY <1>2
<1>14. Tuned(exact, c)
  <2> SUFFICES ASSUME NEW i \in DOMAIN c, HasCtx(c[i])
               PROVE  /\ HasReset(c, i) => ~c[i].sh.redirected
                      /\ exact => c[i].sh.out = c[i].sh.abort
    BY DEF Tuned
  <2>1. i - 1 \in DOMAIN k /\ c[i] = k[i - 1] /\ i \in Nat
    BY <1>2, <1>6, <1>7
  <2>2. ASSUME HasReset(c, i) PROVE HasReset(k, i - 1)
    <3>1. PICK y \in DOMAIN c : y >= i /\ c[y] = ResetEnd
      BY <2>2 DEF HasReset
    <3>2. y - 1 \in DOMAIN k /\ k[y - 1] = ResetEnd /\ y - 1 >= i - 1
      BY <1>2, <1>7, <2>1, <3>1
    <3> QED BY <3>2 DEF HasReset
  <2>3. Tuned(exact, k)
    BY DEF Piece
  <2> QED BY <2>1, <2>2, <2>3 DEF Tuned
<1>15. Piece(F, exact, c, q + 1, g, out)
  BY <1>5, <1>9, <1>10, <1>11, <1>12, <1>13, <1>14 DEF Piece
<1> QED BY <1>15 DEF c

----------------------------------------------------------------------------
(***************************************************************************)
(* The stretches of meta.                                                  *)
(***************************************************************************)
\* The flows that end in the runs from the j-th on.
Reached(rs, j) ==
  {flow \in Flows : \E l \in DOMAIN rs : /\ l >= j /\ ReachIn(rs[l].chain, 1, flow)
                                         /\ \A x \in j .. l - 1 : ~HasReset(rs[x].chain, 1)}

Chained(rs, mt, last, j, i) == IF i = last[j - 1] THEN rs[j].chain ELSE mt[i].k

\* A division of L entries among N runs, and one in which all but 0 is moved by d.
Division(N, L, last) ==
  /\ last \in [0 .. N -> 0 .. L] /\ last[0] = 0 /\ last[N] = L
  /\ \A i, j \in 0 .. N : i <= j => last[i] <= last[j]

MovedBy(N, last, d) == [j \in 0 .. N |-> IF j = 0 THEN 0 ELSE last[j] + d]

IsMoved(N, l, last, d) == l[0] = 0 /\ \A j \in 1 .. N : l[j] = last[j] + d /\ l[j] \in Int

Parted(F, exact, rs, mt, last) ==
  /\ Division(Len(rs), Len(mt), last)
  /\ \A j \in 1 .. Len(rs) : \A i \in last[j - 1] .. last[j] :
       Piece(F, exact, Chained(rs, mt, last, j, i), last[j] - i, rs[j].g, Reached(rs, j + 1))

LEMMA ReachedPushed ==
  ASSUME NEW R, NEW rs \in Seq(R), NEW r \in R, NEW j \in Nat, j >= 1
  PROVE  Reached(<<r>> \o rs, j + 1) = Reached(rs, j)
<1> DEFINE t == <<r>> \o rs
<1>1. Len(rs) \in Nat /\ DOMAIN rs = 1 .. Len(rs) /\ DOMAIN t = 1 .. 1 + Len(rs)
      /\ (\A l \in 1 .. Len(rs) : t[1 + l] = rs[l])
      /\ \A l \in 2 .. 1 + Len(rs) : t[l] = rs[l - 1]
  OBVIOUS
<1> HIDE DEF t
<1>2. ASSUME NEW flow \in Reached(t, j + 1) PROVE flow \in Reached(rs, j)
  <2>1. PICK l \in DOMAIN t : /\ l >= j + 1 /\ ReachIn(t[l].chain, 1, flow)
                              /\ \A x \in j + 1 .. l - 1 : ~HasReset(t[x].chain, 1)
    BY <1>2 DEF Reached
  <2>2. l - 1 \in DOMAIN rs /\ l - 1 >= j /\ t[l] = rs[l - 1]
    BY <1>1, <2>1
  <2>3. ASSUME NEW x \in j .. (l - 1) - 1 PROVE ~HasReset(rs[x].chain, 1)
    <3>1. 1 + x \in j + 1 .. l - 1 /\ x \in 1 .. Len(rs)
      BY <1>1, <2>1, <2>2
    <3> QED BY <1>1, <2>1, <3>1
  <2> QED BY <1>2, <2>1, <2>2, <2>3 DEF Reached
<1>3. ASSUME NEW flow \in Reached(rs, j) PROVE flow \in Reached(t, j + 1)
  <2>1. PICK l \in DOMAIN rs : /\ l >= j /\ ReachIn(rs[l].chain, 1, flow)
                               /\ \A x \in j .. l - 1 : ~HasReset(rs[x].chain, 1)
    BY <1>3 DEF Reached
  <2>2. 1 + l \in DOMAIN t /\ 1 + l >= j + 1 /\ t[1 + l] = rs[l]
    BY <1>1, <2>1
  <2>3. ASSUME NEW x \in j + 1 .. (1 + l) - 1 PROVE ~HasReset(t[x].chain, 1)
    <3>1. x - 1 \in j .. l - 1 /\ x \in 2 .. 1 + Len(rs)
      BY <1>1, <2>1
    <3> QED BY <1>1, <2>1, <3>1
  <2> QED BY <1>3, <2>1, <2>2, <2>3 DEF Reached
<1> QED BY <1>2, <1>3 DEF t

\* What the innermost run does changes nothing for the runs around it.
LEMMA ReachedSame ==
  ASSUME NEW R, NEW rs \in Seq(R), NEW c, NEW j \in Nat, j >= 2
  PROVE  Reached([rs EXCEPT ![1].chain = c], j) = Reached(rs, j)
<1> DEFINE t == [rs EXCEPT ![1].chain = c]
<1>1. DOMAIN t = DOMAIN rs /\ DOMAIN rs \subseteq Nat /\ \A l \in DOMAIN rs : l >= 2 => t[l] = rs[l]
  OBVIOUS
<1>2. DOMAIN rs = 1 .. Len(rs) /\ Len(rs) \in Nat
  OBVIOUS
<1> HIDE DEF t
<1>3. ASSUME NEW flow \in Flows, NEW l \in DOMAIN rs, l >= j
      PROVE  /\ ReachIn(t[l].chain, 1, flow) <=> ReachIn(rs[l].chain, 1, flow)
             /\ \A x \in j .. l - 1 : t[x].chain = rs[x].chain
  <2>1. t[l] = rs[l]
    BY <1>1, <1>2, <1>3
  <2>2. ASSUME NEW x \in j .. l - 1 PROVE t[x] = rs[x]
    BY <1>1, <1>2, <1>3
  <2> QED BY <2>1, <2>2
<1> QED BY <1>1, <1>3 DEF Reached, t

IsRun(r) == {"chain", "g"} \subseteq DOMAIN r

LEMMA Shifted ==
  ASSUME NEW N \in Nat, N >= 1, NEW L \in Nat, NEW last, Division(N, L, last),
         NEW d \in Int, last[1] + d >= 0, NEW l, l = MovedBy(N, last, d), NEW K, K = L + d
  PROVE  K \in Nat /\ Division(N, K, l) /\ IsMoved(N, l, last, d)
<1> USE DEF Division, MovedBy, IsMoved
<1>1. ASSUME NEW j \in 1 .. N PROVE last[1] <= last[j] /\ last[j] \in 0 .. L
  OBVIOUS
<1>2. ASSUME NEW j \in 1 .. N PROVE last[j] + d \in 0 .. L + d
  BY <1>1
<1>3. l[0] = 0 /\ l[N] = L + d /\ \A j \in 1 .. N : l[j] = last[j] + d /\ l[j] \in Int
  BY <1>1
<1>4. 0 \in 0 .. L + d
  OBVIOUS
<1>5. l \in [0 .. N -> 0 .. L + d]
  BY <1>2, <1>4
<1>6. ASSUME NEW i \in 0 .. N, NEW j \in 0 .. N, i <= j PROVE l[i] <= l[j]
  <2>1. CASE i = 0
    BY <1>3, <1>5, <2>1
  <2>2. CASE i > 0
    BY <1>3, <1>6, <2>2
  <2> QED BY <2>1, <2>2
<1>7. K \in Nat
  <2>1. N \in 1 .. N
    OBVIOUS
  <2> QED BY <1>2, <2>1
<1> QED BY <1>3, <1>5, <1>6, <1>7

LEMMA Concat ==
  ASSUME NEW S, NEW a \in Seq(S), NEW b \in Seq(S)
  PROVE  /\ a \o b \in Seq(S) /\ Len(a \o b) = Len(a) + Len(b)
         /\ \A i \in 1 .. Len(a) : (a \o b)[i] = a[i]
         /\ \A i \in 1 .. Len(b) : (a \o b)[Len(a) + i] = b[i]
  OBVIOUS

\* m has front where mt had other entries: its length differs by d.
Put(mt, front, d, m) ==
  /\ Len(m) = Len(mt) + d
  /\ \A i \in 1 .. Len(front) : m[i] = front[i]
  /\ \A i \in Len(front) + 1 .. Len(mt) + d : i - d \in 1 .. Len(mt) /\ m[i] = mt[i - d]

LEMMA TakenAndPut ==
  ASSUME NEW M, NEW mt \in Seq(M), NEW front \in Seq(M), NEW n \in 0 .. Len(mt),
         NEW d, d = Len(front) - n, NEW m, m = front \o Drop(mt, n)
  PROVE  m \in Seq(M) /\ Put(mt, front, d, m)
<1>1. PICK e : e = Drop(mt, n)
  OBVIOUS
<1>2. e \in Seq(M) /\ Len(e) = Len(mt) - n /\ \A i \in 1 .. Len(mt) - n : e[i] = mt[n + i]
  BY <1>1, Dropped
<1>3. /\ m \in Seq(M) /\ Len(m) = Len(front) + Len(e)
      /\ \A i \in 1 .. Len(front) : m[i] = front[i]
      /\ \A i \in 1 .. Len(e) : m[Len(front) + i] = e[i]
  <2>1. m = front \o e /\ e \in Seq(M)
    BY <1>1, <1>2
  <2> QED BY <2>1, Concat
<1>4. Len(front) \in Nat /\ Len(mt) \in Nat /\ n \in Nat /\ n <= Len(mt) /\ d \in Int
  OBVIOUS
<1>5. ASSUME NEW i \in Len(front) + 1 .. Len(mt) + d PROVE i - d \in 1 .. Len(mt) /\ m[i] = mt[i - d]
  <2>1. PICK x : x = i - Len(front)
    OBVIOUS
  <2>2. x \in 1 .. Len(mt) - n /\ Len(front) + x = i /\ n + x = i - d /\ i - d \in 1 .. Len(mt)
    BY <1>4, <2>1
  <2>3. m[Len(front) + x] = e[x] /\ e[x] = mt[n + x]
    <3>1. Len(e) = Len(mt) - n
      BY <1>2
    <3> QED BY <1>2, <1>3, <2>2, <3>1
  <2> QED BY <2>2, <2>3
<1> QED BY <1>2, <1>3, <1>4, <1>5 DEF Put

\* The calls of `run', the innermost with the Chain c.
IsTurned(t, rs, c) ==
  /\ Len(t) = Len(rs) /\ t[1].chain = c /\ t[1].g = rs[1].g
  /\ \A j \in 2 .. Len(rs) : t[j] = rs[j]
  /\ \A j \in 2 .. Len(rs) + 1 : Reached(t, j) = Reached(rs, j)

\* The Chain c and those of the new entries of meta.
Pieces(F, exact, c, front, q, g, out) ==
  \A i \in 0 .. Len(front) :
    Piece(F, exact, IF i = 0 THEN c ELSE front[i].k, q - i, g, out)

\* The stretches, moved by d.
LEMMA TurnParts ==
  ASSUME NEW F, NEW exact, NEW rs, NEW mt, NEW last, NEW N \in Nat, N >= 1, N = Len(rs),
         NEW L \in Nat, L = Len(mt), Parted(F, exact, rs, mt, last),
         NEW c, NEW front, NEW p \in Nat, p = Len(front), NEW d \in Int, d <= p,
         NEW q, q = last[1] + d, Pieces(F, exact, c, front, q, rs[1].g, Reached(rs, 2)),
         NEW t, IsTurned(t, rs, c), NEW m, Put(mt, front, d, m),
         NEW l, IsMoved(N, l, last, d), last[1] + d >= p,
         NEW j \in 1 .. N, NEW i \in l[j - 1] .. l[j]
  PROVE  Piece(F, exact, Chained(t, m, l, j, i), l[j] - i, t[j].g, Reached(t, j + 1))
<1> USE DEF IsTurned, Put, IsMoved
<1>0. d \in Int /\ l[j - 1] \in Int /\ l[j] \in Int /\ i \in Int /\ l[j - 1] <= i /\ i <= l[j]
  <2>1. j - 1 = 0 \/ j - 1 \in 1 .. N
    OBVIOUS
  <2>2. l[j - 1] \in Int /\ l[j] \in Int
    BY <2>1
  <2> QED BY <2>2
<1>1. /\ last \in [0 .. N -> 0 .. L] /\ last[0] = 0
      /\ \A x, y \in 0 .. N : x <= y => last[x] <= last[y]
      /\ \A x \in 1 .. N : \A y \in last[x - 1] .. last[x] :
           Piece(F, exact, Chained(rs, mt, last, x, y), last[x] - y, rs[x].g, Reached(rs, x + 1))
  BY DEF Parted, Division
<1>2. last[j] \in 0 .. L /\ last[j - 1] \in 0 .. L /\ last[1] \in 0 .. L /\ last[1] <= last[j]
  <2>1. j \in 0 .. N /\ j - 1 \in 0 .. N /\ 1 \in 0 .. N /\ 1 <= j
    OBVIOUS
  <2> QED BY <1>1, <2>1
<1>3. CASE j = 1
  <2>1. 0 <= i /\ i <= q /\ l[j] = q /\ l[j - 1] = 0 /\ q \in Int /\ i \in Int
    BY <1>0, <1>2, <1>3
  <2>2. Reached(t, j + 1) = Reached(rs, 2) /\ t[j].g = rs[1].g
    BY <1>3
  <2>3. CASE i <= p
    <3>1. i \in 0 .. Len(front)
      BY <2>1, <2>3
    <3>2. Chained(t, m, l, j, i) = IF i = 0 THEN c ELSE front[i].k
      BY <1>3, <2>1, <2>3 DEF Chained
    <3>3. Piece(F, exact, IF i = 0 THEN c ELSE front[i].k, q - i, rs[1].g, Reached(rs, 2))
      BY <3>1 DEF Pieces
    <3> QED BY <2>1, <2>2, <3>2, <3>3
  <2>4. CASE i > p
    <3>1. i \in p + 1 .. L + d
      <4>1. /\ i \in Int /\ p \in Int /\ L \in Int /\ d \in Int /\ last[1] \in Int
            /\ i > p /\ i <= last[1] + d /\ last[1] <= L
        BY <1>2, <2>1, <2>4
      <4> QED BY ONLY <4>1
    <3>2. PICK y \in Int : y = i - d
      OBVIOUS
    <3>3. y \in 1 .. L /\ m[i] = mt[y] /\ i # 0
      BY <2>4, <3>1, <3>2
    <3>4. y \in last[0] .. last[1] /\ last[1] - y = l[j] - i /\ y # last[0]
      <4>1. last[0] = 0 /\ last[1] \in Int /\ q = last[1] + d
        BY <1>1, <1>2
      <4>2. y >= 1 /\ y = i - d /\ i <= q /\ i \in Int /\ q \in Int /\ d \in Int
        BY <2>1, <3>2, <3>3
      <4>3. y >= 0 /\ y <= last[1] /\ last[1] - y = q - i /\ y # 0
        BY ONLY <4>1, <4>2
      <4> QED BY <2>1, <3>2, <4>1, <4>3
    <3>5. Piece(F, exact, Chained(rs, mt, last, 1, y), last[1] - y, rs[1].g, Reached(rs, 2))
      <4>1. 1 \in 1 .. N /\ 1 - 1 = 0 /\ 1 + 1 = 2
        OBVIOUS
      <4> QED BY <1>1, <3>4, <4>1
    <3>6. Chained(rs, mt, last, 1, y) = mt[y].k /\ Chained(t, m, l, j, i) = m[i].k
      BY <1>3, <2>1, <3>3, <3>4 DEF Chained
    <3> QED BY <2>2, <3>3, <3>4, <3>5, <3>6
  <2> QED BY <2>1, <2>3, <2>4
<1>4. CASE j # 1
  <2>1. j \in 2 .. N /\ j - 1 \in 1 .. N /\ j + 1 \in 2 .. N + 1
    BY <1>4
  <2>2. t[j] = rs[j] /\ Reached(t, j + 1) = Reached(rs, j + 1)
    BY <2>1
  <2>3. l[j - 1] = last[j - 1] + d /\ l[j] = last[j] + d /\ last[1] <= last[j - 1]
    <3>1. 1 \in 0 .. N /\ j - 1 \in 0 .. N /\ 1 <= j - 1
      BY <2>1
    <3> QED BY <1>1, <2>1, <3>1
  <2>4. PICK y \in Int : y = i - d
    OBVIOUS
  <2>5. y \in last[j - 1] .. last[j] /\ l[j] - i = last[j] - y /\ (i = l[j - 1] <=> y = last[j - 1])
    <3>1. last[j - 1] \in Int /\ last[j] \in Int /\ last[j - 1] + d <= i /\ i <= last[j] + d
      BY <1>0, <1>2, <2>3
    <3>2. /\ y \in last[j - 1] .. last[j] /\ (last[j] + d) - i = last[j] - y
          /\ (i = last[j - 1] + d <=> y = last[j - 1])
      BY ONLY <1>0, <2>4, <3>1
    <3> QED BY <2>3, <3>2
  <2>6. Piece(F, exact, Chained(rs, mt, last, j, y), last[j] - y, rs[j].g, Reached(rs, j + 1))
    BY <1>1, <2>5
  <2>7. Chained(t, m, l, j, i) = Chained(rs, mt, last, j, y)
    <3>1. CASE i = l[j - 1]
      BY <2>2, <2>5, <3>1 DEF Chained
    <3>2. CASE i # l[j - 1]
      <4>1. i \in p + 1 .. L + d
        <5>1. /\ last[j - 1] \in Int /\ last[j] \in Int /\ last[1] \in Int /\ p \in Int /\ L \in Int
              /\ last[j - 1] + d <= i /\ i <= last[j] + d /\ i # last[j - 1] + d /\ last[j] <= L
          <6>1. last[j - 1] + d <= i /\ i <= last[j] + d /\ i # last[j - 1] + d
            BY <1>0, <2>3, <3>2
          <6>2. /\ last[j - 1] \in Int /\ last[j] \in Int /\ last[1] \in Int /\ p \in Int /\ L \in Int
                /\ last[j] <= L
            BY <1>2
          <6> QED BY ONLY <6>1, <6>2
        <5>2. i > last[j - 1] + d /\ last[j - 1] + d >= p /\ i <= L + d
          <6>1. last[1] + d >= p /\ last[1] <= last[j - 1] /\ i # last[j - 1] + d /\ last[j] <= L
            BY <2>3, <5>1
          <6> QED BY ONLY <1>0, <5>1, <6>1
        <5> QED BY <1>0, <5>1, <5>2
      <4>2. m[i] = mt[y]
        BY <2>4, <4>1
      <4> QED BY <2>5, <3>2, <4>2 DEF Chained
    <3> QED BY <3>1, <3>2
  <2> QED BY <2>2, <2>5, <2>6, <2>7
<1> QED BY <1>3, <1>4

\* The innermost run goes on with the Chain c, after n entries were taken from
\* meta and those of front were put there.
LEMMA Turn ==
  ASSUME NEW F, NEW exact, NEW R, NEW rs \in Seq(R), Len(rs) >= 1, NEW M, NEW mt \in Seq(M), NEW last,
         Parted(F, exact, rs, mt, last), IsRun(rs[1]),
         NEW c, NEW front \in Seq(M), NEW n \in Nat, n <= last[1],
         Pieces(F, exact, c, front, last[1] - n + Len(front), rs[1].g, Reached(rs, 2))
  PROVE  \E l : Parted(F, exact, [rs EXCEPT ![1].chain = c], front \o Drop(mt, n), l)
<1>1. Len(rs) \in Nat /\ Len(mt) \in Nat /\ Len(front) \in Nat
  OBVIOUS
<1>2. PICK t : t = [rs EXCEPT ![1].chain = c]
  OBVIOUS
<1>3. Len(t) = Len(rs) /\ t[1].chain = c /\ t[1].g = rs[1].g /\ \A j \in 2 .. Len(rs) : t[j] = rs[j]
  BY <1>2 DEF IsRun
<1>4. IsTurned(t, rs, c)
  <2> SUFFICES ASSUME NEW j \in 2 .. Len(rs) + 1 PROVE Reached(t, j) = Reached(rs, j)
    BY <1>3 DEF IsTurned
  <2>1. j \in Nat /\ j >= 2
    BY <1>1
  <2> QED BY <1>2, <2>1, ReachedSame
<1>5. Division(Len(rs), Len(mt), last)
  BY DEF Parted
<1>6. last[1] \in 0 .. Len(mt)
  <2>1. 1 \in 0 .. Len(rs) /\ last \in [0 .. Len(rs) -> 0 .. Len(mt)]
    BY <1>1, <1>5 DEF Division
  <2> QED BY <2>1
<1>7. PICK d : d = Len(front) - n
  OBVIOUS
<1>8. PICK m : m = front \o Drop(mt, n)
  OBVIOUS
<1>9. m \in Seq(M) /\ Put(mt, front, d, m)
  <2>1. n \in 0 .. Len(mt)
    BY <1>6
  <2> QED BY <1>7, <1>8, <2>1, TakenAndPut
<1>10. PICK l : l = MovedBy(Len(rs), last, d)
  OBVIOUS
<1>11. d \in Int /\ last[1] + d >= Len(front) /\ d <= Len(front) /\ last[1] + d >= 0
  BY <1>1, <1>6, <1>7
<1>12. Division(Len(rs), Len(m), l) /\ IsMoved(Len(rs), l, last, d)
  <2>1. Len(m) = Len(mt) + d
    BY <1>9 DEF Put
  <2> QED BY <1>1, <1>5, <1>10, <1>11, <2>1, Shifted
<1>13. PICK q : q = last[1] + d
  OBVIOUS
<1>14. Pieces(F, exact, c, front, q, rs[1].g, Reached(rs, 2))
  <2>1. q = last[1] - n + Len(front)
    BY <1>1, <1>6, <1>7, <1>13
  <2> QED BY <2>1
<1>15. ASSUME NEW j \in 1 .. Len(rs), NEW i \in l[j - 1] .. l[j]
       PROVE  Piece(F, exact, Chained(t, m, l, j, i), l[j] - i, t[j].g, Reached(t, j + 1))
  BY <1>1, <1>4, <1>9, <1>11, <1>12, <1>13, <1>14, <1>15, TurnParts
<1>16. Parted(F, exact, t, m, l)
  BY <1>3, <1>12, <1>15 DEF Parted
<1> QED BY <1>2, <1>8, <1>16

----------------------------------------------------------------------------
(***************************************************************************)
(* The types: v calls of functions and g groups of variable lists were     *)
(* made so far.                                                            *)
(***************************************************************************)
Contexts(v, g) ==
  [vars : 1 .. v, ret : Nat, loops : Seq(Nat), noReturn : BOOLEAN, out : 0 .. g, abort : 0 .. g,
   redirected : BOOLEAN]

LineFrames(S, v, g) == [f : {"lines"}, sh : Contexts(v, g), script : Seq(S), pos : Nat \ {0}]
IfFrames(S, v, g) == [f : {"if"}, sh : Contexts(v, g), s : {s \in S : s.t = "if"}, test : BOOLEAN]
ForFrames(S, v, g) == [f : {"for"}, sh : Contexts(v, g), s : {s \in S : s.t = "for"},
                       index : Nat \ {0}, id : Nat]
CallFrames == [f : {"call"}, id : Nat]

Frames(S, v, g) ==
  LineFrames(S, v, g) \cup IfFrames(S, v, g) \cup ForFrames(S, v, g) \cup CallFrames
    \cup {ResetEnd}

\* A continuation has the end of its reset, and no flow of it goes beyond.
Saved(frames) ==
  HasReset(frames, 1) /\ Scoped(UpToReset(frames), {}) /\ Straight(UpToReset(frames))

Conts(S, v, g) == {c \in [frames : Seq(Frames(S, v, g)), vars : 1 .. v] : Saved(c.frames)}

Locals(S, v, g) == [k : Seq(Conts(S, v, g)), i : Int]
Values(S, v, g) == [v : Int, k : Seq(Conts(S, v, g))]
Groups(S, v, g) == [names : Seq(STRING), rest : BOOLEAN, items : Seq(Values(S, v, g)),
                    stopped : BOOLEAN]

AllFlows == Flows \cup [k : {"abort"}, id : Nat] \cup {Onward, Failed}

States(S, v, g) ==
  [vars : Seq(Locals(S, v, g)), groups : Seq(Groups(S, v, g)), status : Int, output : Seq(Int),
   ids : Nat, flow : AllFlows]

IsState(s, S, v, g) == s \in States(S, v, g) /\ Len(s.vars) = v /\ Len(s.groups) = g

Calls(S, v, g) == [chain : Seq(Frames(S, v, g)), g : 0 .. g, sh : Contexts(v, g)]
Infos(S, v, g) == [k : Seq(Frames(S, v, g)), sh : Contexts(v, g)]

LEMMA SeqMono ==
  ASSUME NEW X, NEW Y, X \subseteq Y
  PROVE  Seq(X) \subseteq Seq(Y)
<1> SUFFICES ASSUME NEW s \in Seq(X) PROVE s \in Seq(Y)
  OBVIOUS
<1>1. Len(s) \in Nat /\ s \in [1 .. Len(s) -> X]
  OBVIOUS
<1>2. s \in [1 .. Len(s) -> Y]
  BY <1>1
<1> QED BY <1>1, <1>2

LEMMA FramesMono ==
  ASSUME NEW S, NEW v \in Nat, NEW g \in Nat, NEW w \in Nat, NEW h \in Nat, v <= w, g <= h
  PROVE  /\ Contexts(v, g) \subseteq Contexts(w, h) /\ Frames(S, v, g) \subseteq Frames(S, w, h)
         /\ Seq(Frames(S, v, g)) \subseteq Seq(Frames(S, w, h))
<1>1. 1 .. v \subseteq 1 .. w /\ 0 .. g \subseteq 0 .. h
  OBVIOUS
<1>2. Contexts(v, g) \subseteq Contexts(w, h)
  BY <1>1 DEF Contexts
<1>3. LineFrames(S, v, g) \subseteq LineFrames(S, w, h)
  BY <1>2 DEF LineFrames
<1>4. IfFrames(S, v, g) \subseteq IfFrames(S, w, h)
  BY <1>2 DEF IfFrames
<1>5. ForFrames(S, v, g) \subseteq ForFrames(S, w, h)
  BY <1>2 DEF ForFrames
<1>6. Frames(S, v, g) \subseteq Frames(S, w, h)
  BY <1>3, <1>4, <1>5 DEF Frames
<1> QED BY <1>2, <1>6, SeqMono

LEMMA TypesMono ==
  ASSUME NEW S, NEW v \in Nat, NEW g \in Nat, NEW w \in Nat, NEW h \in Nat, v <= w, g <= h
  PROVE  /\ Conts(S, v, g) \subseteq Conts(S, w, h)
         /\ Seq(Conts(S, v, g)) \subseteq Seq(Conts(S, w, h))
         /\ Seq(Locals(S, v, g)) \subseteq Seq(Locals(S, w, h))
         /\ Seq(Groups(S, v, g)) \subseteq Seq(Groups(S, w, h))
         /\ Seq(Calls(S, v, g)) \subseteq Seq(Calls(S, w, h))
         /\ Seq(Infos(S, v, g)) \subseteq Seq(Infos(S, w, h))
         /\ Locals(S, v, g) \subseteq Locals(S, w, h)
<1>1. 1 .. v \subseteq 1 .. w /\ 0 .. g \subseteq 0 .. h
  OBVIOUS
<1>2. /\ Contexts(v, g) \subseteq Contexts(w, h)
      /\ Seq(Frames(S, v, g)) \subseteq Seq(Frames(S, w, h))
  BY FramesMono
<1>3. Conts(S, v, g) \subseteq Conts(S, w, h)
  BY <1>1, <1>2 DEF Conts
<1>4. Seq(Conts(S, v, g)) \subseteq Seq(Conts(S, w, h))
  BY <1>3, SeqMono
<1>5. Locals(S, v, g) \subseteq Locals(S, w, h) /\ Values(S, v, g) \subseteq Values(S, w, h)
  BY <1>4 DEF Locals, Values
<1>6. Seq(Locals(S, v, g)) \subseteq Seq(Locals(S, w, h))
      /\ Seq(Values(S, v, g)) \subseteq Seq(Values(S, w, h))
  BY <1>5, SeqMono
<1>7. Groups(S, v, g) \subseteq Groups(S, w, h)
  BY <1>6 DEF Groups
<1>8. Calls(S, v, g) \subseteq Calls(S, w, h) /\ Infos(S, v, g) \subseteq Infos(S, w, h)
  BY <1>1, <1>2 DEF Calls, Infos
<1> QED BY <1>3, <1>4, <1>5, <1>6, <1>7, <1>8, SeqMono

----------------------------------------------------------------------------
(***************************************************************************)
(* The state under the steps of statements.                                *)
(***************************************************************************)
AllRest(s) == \A n \in DOMAIN s.groups : s.groups[n].rest

LEMMA HasTypes ==
  ASSUME NEW S, NEW v \in Nat, NEW g \in Nat, NEW s, IsState(s, S, v, g)
  PROVE  /\ s.vars \in Seq(Locals(S, v, g)) /\ Len(s.vars) = v
         /\ s.groups \in Seq(Groups(S, v, g)) /\ Len(s.groups) = g
         /\ s.ids \in Nat /\ s.flow \in AllFlows /\ s.output \in Seq(Int)
  BY DEF IsState, States

LEMMA LocalTypes ==
  ASSUME NEW S, NEW v \in Nat, NEW g \in Nat, NEW s, IsState(s, S, v, g), NEW x \in 1 .. v
  PROVE  /\ s.vars[x] \in Locals(S, v, g) /\ s.vars[x].i \in Int
         /\ s.vars[x].k \in Seq(Conts(S, v, g))
<1>1. s.vars[x] \in Locals(S, v, g)
  BY HasTypes
<1> QED BY <1>1 DEF Locals

LEMMA GroupTypes ==
  ASSUME NEW S, NEW v \in Nat, NEW g \in Nat, NEW s, IsState(s, S, v, g), NEW n \in 1 .. g
  PROVE  s.groups[n] \in Groups(S, v, g)
  BY HasTypes

LEMMA SetsStatus ==
  ASSUME NEW S, NEW v \in Nat, NEW g \in Nat, NEW s, IsState(s, S, v, g), NEW n \in Int,
         NEW u, u = [s EXCEPT !.status = n]
  PROVE  IsState(u, S, v, g) /\ u.groups = s.groups /\ u.flow = s.flow /\ u.vars = s.vars
  BY DEF IsState, States

\* The same with its equation under a name, where a proof has many records.
StatusIs(u, s, n) == u = [s EXCEPT !.status = n]

LEMMA StatusSet ==
  ASSUME NEW S, NEW v \in Nat, NEW g \in Nat, NEW s, IsState(s, S, v, g), NEW n \in Int,
         NEW u, StatusIs(u, s, n)
  PROVE  IsState(u, S, v, g) /\ u.groups = s.groups /\ u.flow = s.flow
  BY SetsStatus DEF StatusIs

LEMMA SetsIds ==
  ASSUME NEW S, NEW v \in Nat, NEW g \in Nat, NEW s, IsState(s, S, v, g), NEW n \in Nat,
         NEW u, u = [s EXCEPT !.ids = n]
  PROVE  IsState(u, S, v, g) /\ u.groups = s.groups /\ u.flow = s.flow /\ u.vars = s.vars
  BY DEF IsState, States

LEMMA SetsFlow ==
  ASSUME NEW S, NEW v \in Nat, NEW g \in Nat, NEW s, IsState(s, S, v, g),
         NEW flow \in AllFlows, NEW u, u = [s EXCEPT !.flow = flow]
  PROVE  IsState(u, S, v, g) /\ u.groups = s.groups /\ u.flow = flow /\ u.vars = s.vars
  BY DEF IsState, States

LEMMA AddsOutput ==
  ASSUME NEW S, NEW v \in Nat, NEW g \in Nat, NEW s, IsState(s, S, v, g), NEW n \in Int,
         NEW u, u = [s EXCEPT !.output = Append(@, n)]
  PROVE  IsState(u, S, v, g) /\ u.groups = s.groups /\ u.flow = s.flow /\ u.vars = s.vars
<1>1. PICK z : z = Append(s.output, n)
  OBVIOUS
<1>2. z \in Seq(Int)
  BY <1>1, HasTypes
<1> QED BY <1>1, <1>2 DEF IsState, States

LEMMA SetsVars ==
  ASSUME NEW S, NEW v \in Nat, NEW g \in Nat, NEW s, IsState(s, S, v, g), NEW x \in 1 .. v,
         NEW y, y \in Locals(S, v, g)
  PROVE  /\ IsState([s EXCEPT !.vars = [s.vars EXCEPT ![x] = y]], S, v, g)
         /\ [s EXCEPT !.vars = [s.vars EXCEPT ![x] = y]].groups = s.groups
         /\ [s EXCEPT !.vars = [s.vars EXCEPT ![x] = y]].flow = s.flow
<1>1. s.vars \in Seq(Locals(S, v, g)) /\ Len(s.vars) = v
  BY DEF IsState, States
<1>2. PICK z : z = [s.vars EXCEPT ![x] = y]
  OBVIOUS
<1>3. z \in Seq(Locals(S, v, g)) /\ Len(z) = v
  BY <1>1, <1>2
<1> QED BY <1>2, <1>3 DEF IsState, States

LEMMA SetsItem ==
  ASSUME NEW S, NEW v \in Nat, NEW g \in Nat, NEW s, IsState(s, S, v, g), NEW x \in 1 .. v,
         NEW n \in Int
  PROVE  /\ IsState([s EXCEPT !.vars[x].i = n], S, v, g)
         /\ [s EXCEPT !.vars[x].i = n].groups = s.groups
         /\ [s EXCEPT !.vars[x].i = n].flow = s.flow
<1>1. s.vars \in Seq(Locals(S, v, g)) /\ Len(s.vars) = v /\ s.vars[x] \in Locals(S, v, g)
  BY DEF IsState, States
<1>2. PICK y : y = [s.vars[x] EXCEPT !.i = n]
  OBVIOUS
<1>3. y \in Locals(S, v, g)
  BY <1>1, <1>2 DEF Locals
<1>4. [s EXCEPT !.vars[x].i = n] = [s EXCEPT !.vars = [s.vars EXCEPT ![x] = y]]
  BY <1>1, <1>2
<1> QED BY <1>3, <1>4, SetsVars

LEMMA AddsVars ==
  ASSUME NEW S, NEW v \in Nat, NEW g \in Nat, NEW s, IsState(s, S, v, g),
         NEW y, y \in Locals(S, v, g)
  PROVE  /\ IsState([s EXCEPT !.vars = Append(@, y)], S, v + 1, g)
         /\ [s EXCEPT !.vars = Append(@, y)].groups = s.groups
         /\ [s EXCEPT !.vars = Append(@, y)].flow = s.flow
<1>1. /\ s.vars \in Seq(Locals(S, v, g)) /\ Len(s.vars) = v
      /\ s.groups \in Seq(Groups(S, v, g)) /\ Len(s.groups) = g
  BY DEF IsState, States
<1>2. /\ s.vars \in Seq(Locals(S, v + 1, g)) /\ y \in Locals(S, v + 1, g)
      /\ s.groups \in Seq(Groups(S, v + 1, g))
  <2>1. v + 1 \in Nat /\ v <= v + 1 /\ g <= g
    OBVIOUS
  <2> QED BY <1>1, <2>1, TypesMono
<1>3. PICK z : z = Append(s.vars, y)
  OBVIOUS
<1>4. z \in Seq(Locals(S, v + 1, g)) /\ Len(z) = v + 1
  BY <1>1, <1>2, <1>3
<1> QED BY <1>1, <1>2, <1>3, <1>4 DEF IsState, States

LEMMA SetsGroups ==
  ASSUME NEW S, NEW v \in Nat, NEW g \in Nat, NEW s, IsState(s, S, v, g), NEW n \in 1 .. g,
         NEW y, y \in Groups(S, v, g), y.rest = s.groups[n].rest
  PROVE  /\ IsState([s EXCEPT !.groups = [s.groups EXCEPT ![n] = y]], S, v, g)
         /\ AllRest(s) => AllRest([s EXCEPT !.groups = [s.groups EXCEPT ![n] = y]])
         /\ [s EXCEPT !.groups = [s.groups EXCEPT ![n] = y]].flow = s.flow
<1>1. s.groups \in Seq(Groups(S, v, g)) /\ Len(s.groups) = g
  BY DEF IsState, States
<1>2. PICK z : z = [s.groups EXCEPT ![n] = y]
  OBVIOUS
<1>3. z \in Seq(Groups(S, v, g)) /\ Len(z) = g
  BY <1>1, <1>2
<1>4. [s EXCEPT !.groups = z].groups = z
  BY DEF IsState, States
<1>5. AllRest(s) => AllRest([s EXCEPT !.groups = z])
  <2>1. \A x \in DOMAIN z : z[x].rest = s.groups[x].rest /\ x \in DOMAIN s.groups
    BY <1>1, <1>2
  <2> QED BY <1>4, <2>1 DEF AllRest
<1> QED BY <1>2, <1>3, <1>5 DEF IsState, States

\* A write to a variable list, the standard output, or what ends in an error.
LEMMA Writes ==
  ASSUME NEW S, NEW v \in Nat, NEW g \in Nat, NEW s, IsState(s, S, v, g),
         NEW sh \in Contexts(v, g), NEW x \in Values(S, v, g), NEW stop \in 0 .. g
  PROVE  \E u : /\ Write(s, sh, x, stop) = Pushing(<<>>, u) /\ IsState(u, S, v, g)
                /\ AllRest(s) => AllRest(u)
                /\ \/ u.flow \in {s.flow, Failed}
                   \/ u.flow.k = "abort" /\ ~AllRest(s)
<1>1. sh.out \in 0 .. g /\ x.v \in Int
  BY DEF Contexts, Values
<1>2. CASE sh.out = 0 /\ x.k = <<>>
  <2>1. PICK t : t = [s EXCEPT !.output = Append(@, x.v)]
    OBVIOUS
  <2>2. IsState(t, S, v, g) /\ t.groups = s.groups /\ t.flow = s.flow
    BY <1>1, <2>1, AddsOutput
  <2>3. PICK u : u = [t EXCEPT !.status = 0]
    OBVIOUS
  <2>4. IsState(u, S, v, g) /\ u.groups = s.groups /\ u.flow = s.flow
    BY <2>2, <2>3, SetsStatus
  <2>5. Write(s, sh, x, stop) = Pushing(<<>>, u)
    BY <1>2, <2>1, <2>3 DEF Write, Status
  <2> QED BY <2>4, <2>5 DEF AllRest
<1>3. CASE sh.out = 0 /\ x.k # <<>>
  <2>1. PICK u : u = [s EXCEPT !.flow = Failed]
    OBVIOUS
  <2>2. IsState(u, S, v, g) /\ u.groups = s.groups /\ u.flow = Failed
    BY <2>1, SetsFlow DEF AllFlows
  <2>3. Write(s, sh, x, stop) = Pushing(<<>>, u)
    BY <1>3, <2>1 DEF Write, Leaving
  <2> QED BY <2>2, <2>3 DEF AllRest
<1>4. CASE sh.out # 0
  <2>1. sh.out \in 1 .. g /\ s.groups[sh.out] \in Groups(S, v, g)
    BY <1>1, <1>4, GroupTypes
  <2>2. PICK n : n = sh.out
    OBVIOUS
  <2>3. n \in 1 .. g /\ s.groups[n] \in Groups(S, v, g)
    BY <2>1, <2>2
  <2>4. s.groups \in Seq(Groups(S, v, g)) /\ Len(s.groups) = g
    BY DEF IsState, States
  <2>5. Write(s, sh, x, stop) = CapturePut(s, n, x, stop)
    BY <1>4, <2>2 DEF Write
  <2>6. CASE s.groups[n].rest \/ Len(s.groups[n].items) < Len(s.groups[n].names)
    <3>1. PICK y : y = [s.groups[n] EXCEPT !.items = Append(@, x)]
      OBVIOUS
    <3>2. y \in Groups(S, v, g) /\ y.rest = s.groups[n].rest
      <4>1. PICK z : z = Append(s.groups[n].items, x)
        OBVIOUS
      <4>2. z \in Seq(Values(S, v, g))
        BY <2>3, <4>1 DEF Groups
      <4> QED BY <2>3, <3>1, <4>1, <4>2 DEF Groups
    <3>3. PICK t : t = [s EXCEPT !.groups = [s.groups EXCEPT ![n] = y]]
      OBVIOUS
    <3>4. IsState(t, S, v, g) /\ (AllRest(s) => AllRest(t)) /\ t.flow = s.flow
      BY <2>3, <3>2, <3>3, SetsGroups
    <3>5. PICK u : u = [t EXCEPT !.status = 0]
      OBVIOUS
    <3>6. IsState(u, S, v, g) /\ u.groups = t.groups /\ u.flow = s.flow
      BY <3>4, <3>5, SetsStatus
    <3>7. t = [s EXCEPT !.groups[n].items = Append(@, x)]
      BY <2>3, <2>4, <3>1, <3>3 DEF IsState, States
    <3>8. CapturePut(s, n, x, stop) = Pushing(<<>>, u)
      BY <2>6, <3>5, <3>7 DEF CapturePut, Status
    <3> QED BY <2>5, <3>4, <3>6, <3>8 DEF AllRest
  <2>7. CASE ~(s.groups[n].rest \/ Len(s.groups[n].items) < Len(s.groups[n].names))
    <3>1. PICK y : y = [s.groups[n] EXCEPT !.stopped = TRUE]
      OBVIOUS
    <3>2. y \in Groups(S, v, g) /\ y.rest = s.groups[n].rest
      BY <2>3, <3>1 DEF Groups
    <3>3. PICK t : t = [s EXCEPT !.groups = [s.groups EXCEPT ![n] = y]]
      OBVIOUS
    <3>4. IsState(t, S, v, g) /\ (AllRest(s) => AllRest(t)) /\ t.flow = s.flow
      BY <2>3, <3>2, <3>3, SetsGroups
    <3>5. PICK flow : flow = IF stop = 0 THEN Failed ELSE Flow("abort", stop)
      OBVIOUS
    <3>6. flow \in AllFlows /\ (flow = Failed \/ flow.k = "abort")
      BY <3>5 DEF AllFlows, Flow
    <3>7. PICK u : u = [t EXCEPT !.flow = flow]
      OBVIOUS
    <3>8. IsState(u, S, v, g) /\ u.groups = t.groups /\ u.flow = flow
      BY <3>4, <3>6, <3>7, SetsFlow
    <3>9. t = [s EXCEPT !.groups[n].stopped = TRUE]
      BY <2>3, <2>4, <3>1, <3>3 DEF IsState, States
    <3>10. CapturePut(s, n, x, stop) = Pushing(<<>>, u)
      BY <2>7, <3>5, <3>7, <3>9 DEF CapturePut, Leaving
    <3>11. ~AllRest(s)
      BY <2>3, <2>4, <2>7 DEF AllRest
    <3> QED BY <2>5, <3>4, <3>6, <3>8, <3>10, <3>11 DEF AllRest
  <2> QED BY <2>6, <2>7
<1> QED BY <1>1, <1>2, <1>3, <1>4

----------------------------------------------------------------------------
(***************************************************************************)
(* The steps of statements.                                                *)
(***************************************************************************)
LEMMA Kinds ==
  ASSUME NEW S, NEW v, NEW g, NEW frame \in Frames(S, v, g)
  PROVE  /\ frame.f = "lines" => frame \in LineFrames(S, v, g)
         /\ frame.f = "if" => frame \in IfFrames(S, v, g)
         /\ frame.f = "for" => frame \in ForFrames(S, v, g)
         /\ frame.f = "call" => frame \in CallFrames
         /\ frame = ResetEnd <=> frame.f = "resetEnd"
         /\ HasCtx(frame) <=> frame.f \in {"lines", "if", "for"}
         /\ HasCtx(frame) => frame.sh \in Contexts(v, g)
<1>1. CASE frame \in LineFrames(S, v, g)
  <2>1. frame.f = "lines" /\ HasCtx(frame) /\ frame.sh \in Contexts(v, g)
    BY <1>1 DEF LineFrames, HasCtx
  <2> QED BY <1>1, <2>1 DEF ResetEnd
<1>2. CASE frame \in IfFrames(S, v, g)
  <2>1. frame.f = "if" /\ HasCtx(frame) /\ frame.sh \in Contexts(v, g)
    BY <1>2 DEF IfFrames, HasCtx
  <2> QED BY <1>2, <2>1 DEF ResetEnd
<1>3. CASE frame \in ForFrames(S, v, g)
  <2>1. frame.f = "for" /\ HasCtx(frame) /\ frame.sh \in Contexts(v, g)
    BY <1>3 DEF ForFrames, HasCtx
  <2> QED BY <1>3, <2>1 DEF ResetEnd
<1>4. CASE frame \in CallFrames
  <2>1. frame.f = "call" /\ ~HasCtx(frame)
    BY <1>4 DEF CallFrames, HasCtx
  <2> QED BY <1>4, <2>1 DEF ResetEnd
<1>5. CASE frame = ResetEnd
  <2>1. frame.f = "resetEnd" /\ ~HasCtx(frame)
    BY <1>5 DEF ResetEnd, HasCtx
  <2> QED BY <1>5, <2>1
<1> QED BY <1>1, <1>2, <1>3, <1>4, <1>5 DEF Frames

\* The frames that the constructors make.
LEMMA MadeLines ==
  ASSUME NEW S, NEW v, NEW g, NEW sh \in Contexts(v, g), NEW script \in Seq(S)
  PROVE  /\ Lines(sh, script) \in Frames(S, v, g) /\ Lines(sh, script).f = "lines"
         /\ Lines(sh, script).sh = sh
<1>1. /\ Lines(sh, script) \in LineFrames(S, v, g) /\ Lines(sh, script).f = "lines"
      /\ Lines(sh, script).sh = sh
  BY DEF Lines, LineFrames
<1> QED BY <1>1 DEF Frames

LEMMA MadeIf ==
  ASSUME NEW S, NEW v, NEW g, NEW sh \in Contexts(v, g), NEW s \in S, s.t = "if",
         NEW test \in BOOLEAN
  PROVE  /\ Clauses(sh, s, test) \in Frames(S, v, g) /\ Clauses(sh, s, test).f = "if"
         /\ Clauses(sh, s, test).sh = sh
<1>1. /\ Clauses(sh, s, test) \in IfFrames(S, v, g) /\ Clauses(sh, s, test).f = "if"
      /\ Clauses(sh, s, test).sh = sh
  BY DEF Clauses, IfFrames
<1> QED BY <1>1 DEF Frames

LEMMA MadeFor ==
  ASSUME NEW S, NEW v, NEW g, NEW sh \in Contexts(v, g), NEW s \in S, s.t = "for", NEW id \in Nat
  PROVE  /\ Items(sh, s, 1, id) \in Frames(S, v, g) /\ Items(sh, s, 1, id).f = "for"
         /\ Items(sh, s, 1, id).sh = sh /\ Items(sh, s, 1, id).id = id
<1>1. /\ Items(sh, s, 1, id) \in ForFrames(S, v, g) /\ Items(sh, s, 1, id).f = "for"
      /\ Items(sh, s, 1, id).sh = sh /\ Items(sh, s, 1, id).id = id
  BY DEF Items, ForFrames
<1> QED BY <1>1 DEF Frames

LEMMA MadeCall ==
  ASSUME NEW S, NEW v, NEW g, NEW id \in Nat
  PROVE  CallEnd(id) \in Frames(S, v, g) /\ CallEnd(id).f = "call" /\ CallEnd(id).id = id
<1>1. CallEnd(id) \in CallFrames /\ CallEnd(id).f = "call" /\ CallEnd(id).id = id
  BY DEF CallEnd, CallFrames
<1> QED BY <1>1 DEF Frames

LEMMA Advanced ==
  ASSUME NEW S, NEW v \in Nat, NEW g \in Nat, NEW frame \in LineFrames(S, v, g)
  PROVE  /\ Advance(frame) \in Frames(S, v, g) /\ Advance(frame) # ResetEnd
         /\ Advance(frame).f = "lines" /\ Advance(frame).sh = frame.sh /\ HasCtx(Advance(frame))
<1>1. /\ Advance(frame) \in LineFrames(S, v, g) /\ Advance(frame).f = "lines"
      /\ Advance(frame).sh = frame.sh
  BY DEF Advance, LineFrames
<1>2. Advance(frame) \in Frames(S, v, g)
  BY <1>1 DEF Frames
<1> QED BY <1>1, <1>2, Kinds

\* What a statement keeps of the context of the statement around it.
Alike(sh, other) ==
  sh.redirected = other.redirected /\ sh.out = other.out /\ sh.abort = other.abort

\* The frames a take the place of a frame: no more flows leave them, other than
\* those that end in them.
StepsTo(frame, a) ==
  /\ \A i \in DOMAIN a : a[i] # ResetEnd
  /\ \A i \in DOMAIN a : HasCtx(a[i]) =>
       /\ HasCtx(frame) /\ Alike(a[i].sh, frame.sh)
       /\ \A flow \in Flows : Leads(a[i].sh, flow) =>
            \/ \E m \in DOMAIN a : m >= i /\ Ends(a[m], flow)
            \/ Leads(frame.sh, flow) /\ ~Ends(frame, flow)

StepOf(S, v, g, frame, s, a, u) ==
  \E w \in Nat :
    /\ v <= w /\ IsState(u, S, w, g) /\ a \in Seq(Frames(S, w, g)) /\ StepsTo(frame, a)
    /\ AllRest(s) => AllRest(u)
    /\ \/ u.flow \in {s.flow, Failed}
       \/ u.flow.k = "abort" /\ ~AllRest(s)
       \/ u.flow \in Flows /\ HasCtx(frame) /\ Leads(frame.sh, u.flow) /\ ~Ends(frame, u.flow)

LEMMA StepsThen ==
  ASSUME NEW S, NEW v \in Nat, NEW g \in Nat, NEW frame \in Frames(S, v, g),
         frame.f \in {"lines", "if"},
         NEW z \in Frames(S, v, g), z.f \in {"lines", "if"}, z.sh = frame.sh,
         NEW a, NEW s, NEW u, StepOf(S, v, g, frame, s, a, u)
  PROVE  StepOf(S, v, g, frame, s, Append(a, z), u)
<1>1. PICK w \in Nat :
    /\ v <= w /\ IsState(u, S, w, g) /\ a \in Seq(Frames(S, w, g)) /\ StepsTo(frame, a)
    /\ AllRest(s) => AllRest(u)
    /\ \/ u.flow \in {s.flow, Failed}
       \/ u.flow.k = "abort" /\ ~AllRest(s)
       \/ u.flow \in Flows /\ HasCtx(frame) /\ Leads(frame.sh, u.flow) /\ ~Ends(frame, u.flow)
  BY DEF StepOf
<1>2. z \in Frames(S, w, g)
  BY <1>1, g <= g, FramesMono
<1>3. PICK b : b = Append(a, z)
  OBVIOUS
<1>4. /\ b \in Seq(Frames(S, w, g)) /\ DOMAIN b = 1 .. Len(a) + 1 /\ DOMAIN a = 1 .. Len(a)
      /\ Len(a) \in Nat /\ b[Len(a) + 1] = z /\ \A i \in 1 .. Len(a) : b[i] = a[i]
  BY <1>1, <1>2, <1>3
<1>5. HasCtx(frame) /\ HasCtx(z) /\ z # ResetEnd
  BY Kinds
<1>6. \A flow : ~Ends(frame, flow)
  BY DEF Ends
<1>7. ASSUME NEW i \in DOMAIN b
      PROVE  /\ b[i] # ResetEnd
             /\ HasCtx(b[i]) =>
                  /\ HasCtx(frame) /\ Alike(b[i].sh, frame.sh)
                  /\ \A flow \in Flows : Leads(b[i].sh, flow) =>
                       \/ \E m \in DOMAIN b : m >= i /\ Ends(b[m], flow)
                       \/ Leads(frame.sh, flow) /\ ~Ends(frame, flow)
  <2>1. CASE i = Len(a) + 1
    BY <1>4, <1>5, <1>6, <2>1 DEF Alike
  <2>2. CASE i # Len(a) + 1
    <3>1. i \in DOMAIN a /\ b[i] = a[i] /\ DOMAIN a \subseteq DOMAIN b
      BY <1>4, <2>2
    <3>2. \A m \in DOMAIN a : b[m] = a[m]
      BY <1>4
    <3> QED BY <1>1, <3>1, <3>2 DEF StepsTo
  <2> QED BY <2>1, <2>2
<1>8. StepsTo(frame, b)
  BY <1>7 DEF StepsTo
<1>9. StepOf(S, v, g, frame, s, b, u)
  BY <1>1, <1>4, <1>8 DEF StepOf
<1> QED BY <1>3, <1>9

\* Nothing is pushed.
LEMMA StepsNone ==
  ASSUME NEW S, NEW v \in Nat, NEW g \in Nat, NEW frame, NEW s, NEW u,
         IsState(u, S, v, g), AllRest(s) => AllRest(u),
         \/ u.flow \in {s.flow, Failed}
         \/ u.flow.k = "abort" /\ ~AllRest(s)
         \/ u.flow \in Flows /\ HasCtx(frame) /\ Leads(frame.sh, u.flow) /\ ~Ends(frame, u.flow)
  PROVE  StepOf(S, v, g, frame, s, <<>>, u)
<1>1. <<>> \in Seq(Frames(S, v, g)) /\ StepsTo(frame, <<>>) /\ v <= v
  BY DEF StepsTo
<1> QED BY <1>1 DEF StepOf

\* One frame is pushed.
LEMMA StepsOne ==
  ASSUME NEW S, NEW v \in Nat, NEW g \in Nat, NEW frame \in Frames(S, v, g),
         NEW z \in Frames(S, v, g), HasCtx(frame), HasCtx(z),
         Alike(z.sh, frame.sh),
         \A flow \in Flows : Leads(z.sh, flow) =>
           Ends(z, flow) \/ (Leads(frame.sh, flow) /\ ~Ends(frame, flow)),
         NEW s, NEW u, IsState(u, S, v, g), u.groups = s.groups, u.flow = s.flow
  PROVE  StepOf(S, v, g, frame, s, <<z>>, u)
<1>1. PICK a : a = <<z>>
  OBVIOUS
<1>2. a \in Seq(Frames(S, v, g)) /\ DOMAIN a = {1} /\ a[1] = z /\ 1 >= 1
  BY <1>1
<1>3. z # ResetEnd
  BY Kinds
<1>4. StepsTo(frame, a)
  BY <1>2, <1>3 DEF StepsTo
<1>5. v <= v /\ (AllRest(s) => AllRest(u))
  BY DEF AllRest
<1> QED BY <1>1, <1>2, <1>4, <1>5 DEF StepOf

\* A flow that leaves the context of a frame.
LEMMA LeadsFrom ==
  ASSUME NEW v, NEW g, NEW sh \in Contexts(v, g)
  PROVE  /\ ~(sh.noReturn \/ sh.ret = 0) =>
              Flow("return", sh.ret) \in Flows /\ Leads(sh, Flow("return", sh.ret))
         /\ sh.loops # <<>> =>
              \A k \in {"break", "continue"} :
                Flow(k, Head(sh.loops)) \in Flows /\ Leads(sh, Flow(k, Head(sh.loops)))
<1>1. sh.ret \in Nat /\ sh.loops \in Seq(Nat)
  BY DEF Contexts
<1>2. sh.loops # <<>> => Head(sh.loops) \in Nat
  BY <1>1
<1> QED BY <1>1, <1>2 DEF Flow, Flows, Leads

\* The frames of a call of a function: its return ends in them.
Closed(sh, a) ==
  /\ \A i \in DOMAIN a : a[i] # ResetEnd
  /\ \A i \in DOMAIN a : HasCtx(a[i]) =>
       /\ Alike(a[i].sh, sh)
       /\ \A flow \in Flows : Leads(a[i].sh, flow) => \E m \in DOMAIN a : m >= i /\ Ends(a[m], flow)

LEMMA Pushes ==
  ASSUME NEW S, NEW v \in Nat, NEW g \in Nat, NEW s, IsState(s, S, v, g),
         NEW sh \in Contexts(v, g), NEW y, y \in Locals(S, v, g), NEW body \in Seq(S)
  PROVE  \E a, u : /\ FuncPush(s, sh, y, body) = Pushing(a, u)
                   /\ IsState(u, S, v + 1, g) /\ u.groups = s.groups /\ u.flow = s.flow
                   /\ a \in Seq(Frames(S, v + 1, g)) /\ Closed(sh, a)
<1>1. Len(s.vars) = v /\ s.ids \in Nat
  BY HasTypes
<1>2. PICK id : id = s.ids + 1
  OBVIOUS
<1>3. PICK callee : callee = [sh EXCEPT !.vars = v + 1, !.ret = id, !.loops = <<>>, !.noReturn = FALSE]
  OBVIOUS
<1>4. id \in Nat /\ v + 1 \in Nat /\ g <= g /\ v <= v + 1
  BY <1>1, <1>2
<1>5. /\ callee \in Contexts(v + 1, g) /\ Alike(callee, sh) /\ callee.ret = id
      /\ callee.loops = <<>>
  <2>1. 1 .. v \subseteq 1 .. v + 1 /\ v + 1 \in 1 .. v + 1
    OBVIOUS
  <2>2. <<>> \in Seq(Nat)
    OBVIOUS
  <2> QED BY <1>3, <1>4, <2>1, <2>2 DEF Contexts, Alike
<1>6. PICK a : a = <<Lines(callee, body), CallEnd(id)>>
  OBVIOUS
<1>7. /\ Lines(callee, body) \in Frames(S, v + 1, g) /\ Lines(callee, body).f = "lines"
      /\ Lines(callee, body).sh = callee /\ CallEnd(id) \in Frames(S, v + 1, g)
      /\ CallEnd(id).f = "call" /\ CallEnd(id).id = id
  BY <1>4, <1>5, MadeLines, MadeCall
<1>8. /\ a \in Seq(Frames(S, v + 1, g)) /\ DOMAIN a = {1, 2}
      /\ a[1] = Lines(callee, body) /\ a[2] = CallEnd(id)
  BY <1>6, <1>7
<1>9. a[1] # ResetEnd /\ a[2] # ResetEnd /\ ~HasCtx(a[2])
  BY <1>4, <1>7, <1>8, Kinds
<1>10. ASSUME NEW flow \in Flows, Leads(callee, flow) PROVE Ends(a[2], flow)
  BY <1>5, <1>7, <1>8, <1>10 DEF Leads, Ends
<1>11. Closed(sh, a)
  BY <1>5, <1>7, <1>8, <1>9, <1>10, 2 >= 1 DEF Closed
<1>12. PICK t : t = [s EXCEPT !.vars = Append(@, y)]
  OBVIOUS
<1>13. IsState(t, S, v + 1, g) /\ t.groups = s.groups /\ t.flow = s.flow
  BY <1>12, AddsVars
<1>14. PICK r : r = [t EXCEPT !.ids = id]
  OBVIOUS
<1>15. IsState(r, S, v + 1, g) /\ r.groups = s.groups /\ r.flow = s.flow
  BY <1>4, <1>13, <1>14, SetsIds
<1>16. PICK u : u = [r EXCEPT !.status = 0]
  OBVIOUS
<1>17. IsState(u, S, v + 1, g) /\ u.groups = s.groups /\ u.flow = s.flow
  <2>1. PICK w : w = v + 1
    OBVIOUS
  <2>2. w \in Nat /\ IsState(r, S, w, g)
    BY <1>15, <2>1
  <2>3. IsState(u, S, w, g) /\ u.groups = r.groups /\ u.flow = r.flow
    <3>1. StatusIs(u, r, 0)
      BY ONLY <1>16 DEF StatusIs
    <3>2. w \in Nat /\ g \in Nat /\ IsState(r, S, w, g) /\ 0 \in Int
      BY <2>2
    <3> QED BY ONLY <3>1, <3>2, StatusSet
  <2> QED BY <1>15, <2>1, <2>3
<1>18. FuncPush(s, sh, y, body) = Pushing(a, u)
  BY <1>1, <1>2, <1>3, <1>6, <1>12, <1>14, <1>16 DEF FuncPush, Status
<1> QED BY <1>8, <1>11, <1>17, <1>18

LEMMA ClosedSteps ==
  ASSUME NEW frame, HasCtx(frame), NEW a, Closed(frame.sh, a)
  PROVE  StepsTo(frame, a)
  BY DEF Closed, StepsTo

\* A statement that does not look at the rest of the computation.
LEMMA ExecPlainSteps ==
  ASSUME NEW S, Statements(S), NEW v \in Nat, NEW g \in Nat, NEW s, IsState(s, S, v, g),
         NEW frame \in LineFrames(S, v, g), NEW c \in S, IsPlain(c), NEW stop \in 0 .. g
  PROVE  \E a, u : /\ ExecPlain(s, frame.sh, c, stop) = Pushing(a, u)
                   /\ StepOf(S, v, g, frame, s, a, u)
<1> DEFINE sh == frame.sh
<1>1. sh \in Contexts(v, g) /\ sh.vars \in 1 .. v /\ frame.f = "lines" /\ frame \in Frames(S, v, g)
      /\ HasCtx(frame)
  <2>1. sh \in Contexts(v, g) /\ frame.f = "lines" /\ frame \in Frames(S, v, g)
    BY DEF LineFrames, Frames
  <2> QED BY <2>1, Kinds DEF Contexts
<1>2. \A flow : ~Ends(frame, flow)
  BY <1>1 DEF Ends
<1>3. Inner(c) \subseteq Seq(S)
  BY DEF Statements
<1>4. /\ s.vars[sh.vars] \in Locals(S, v, g) /\ s.vars[sh.vars].i \in Int
      /\ s.vars[sh.vars].k \in Seq(Conts(S, v, g))
  BY <1>1, LocalTypes
<1>5. c.t \in {"echo", "echok", "false", "if", "for", "break", "continue", "call", "return"}
  BY DEF Statements, IsPlain
<1> HIDE DEF sh
<1>6. CASE c.t = "echo"
  <2>1. c.v \in Int
    BY <1>6 DEF Statements
  <2>2. PICK x : x = Plain(IF c.v = 0 THEN s.vars[sh.vars].i ELSE c.v)
    OBVIOUS
  <2>3. x \in Values(S, v, g)
    BY <1>4, <2>1, <2>2 DEF Plain, Values
  <2>4. PICK u : /\ Write(s, sh, x, stop) = Pushing(<<>>, u) /\ IsState(u, S, v, g)
                 /\ AllRest(s) => AllRest(u)
                 /\ u.flow \in {s.flow, Failed} \/ (u.flow.k = "abort" /\ ~AllRest(s))
    BY <1>1, <2>3, Writes
  <2>5. ExecPlain(s, sh, c, stop) = Pushing(<<>>, u)
    BY <1>6, <2>2, <2>4 DEF ExecPlain
  <2> QED BY <2>4, <2>5, StepsNone DEF sh
<1>7. CASE c.t = "echok"
  <2>1. PICK x : x = Func(s.vars[sh.vars].k)
    OBVIOUS
  <2>2. x \in Values(S, v, g)
    BY <1>4, <2>1 DEF Func, Values
  <2>3. PICK u : /\ Write(s, sh, x, stop) = Pushing(<<>>, u) /\ IsState(u, S, v, g)
                 /\ AllRest(s) => AllRest(u)
                 /\ u.flow \in {s.flow, Failed} \/ (u.flow.k = "abort" /\ ~AllRest(s))
    BY <1>1, <2>2, Writes
  <2>4. ExecPlain(s, sh, c, stop) = Pushing(<<>>, u)
    BY <1>7, <2>1, <2>3 DEF ExecPlain
  <2> QED BY <2>3, <2>4, StepsNone DEF sh
<1>8. CASE c.t = "false"
  <2>1. PICK u : u = [s EXCEPT !.status = 1]
    OBVIOUS
  <2>2. IsState(u, S, v, g) /\ u.groups = s.groups /\ u.flow = s.flow
    BY <2>1, 1 \in Int, SetsStatus
  <2>3. ExecPlain(s, sh, c, stop) = Pushing(<<>>, u)
    BY <1>8, <2>1 DEF ExecPlain, Status
  <2>4. AllRest(s) => AllRest(u)
    BY <2>2 DEF AllRest
  <2> QED BY <2>2, <2>3, <2>4, StepsNone DEF sh
<1>9. CASE c.t = "if"
  <2>1. PICK z : z = Clauses(sh, c, FALSE)
    OBVIOUS
  <2>2. z \in Frames(S, v, g) /\ z.f = "if" /\ z.sh = sh
    BY <1>1, <1>9, <2>1 DEF Clauses, IfFrames, Frames
  <2>3. HasCtx(z)
    BY <2>2, Kinds
  <2>4. StepOf(S, v, g, frame, s, <<z>>, s)
    BY <1>1, <1>2, <2>2, <2>3, StepsOne DEF sh, Alike
  <2>5. ExecPlain(s, sh, c, stop) = Pushing(<<z>>, s)
    BY <1>9, <2>1 DEF ExecPlain
  <2> QED BY <2>4, <2>5 DEF sh
<1>10. CASE c.t = "for"
  <2>1. PICK id : id = s.ids + 1
    OBVIOUS
  <2>2. id \in Nat
    BY <2>1, HasTypes
  <2>3. PICK lh : lh = [sh EXCEPT !.loops = <<id>> \o @]
    OBVIOUS
  <2>4. lh \in Contexts(v, g) /\ Head(lh.loops) = id /\ Alike(lh, sh)
        /\ lh.noReturn = sh.noReturn /\ lh.ret = sh.ret
    <3>1. PICK l : l = <<id>> \o sh.loops
      OBVIOUS
    <3>2. l \in Seq(Nat) /\ Head(l) = id
      BY <1>1, <2>2, <3>1 DEF Contexts
    <3>3. lh = [sh EXCEPT !.loops = l]
      BY <2>3, <3>1
    <3> QED BY <1>1, <3>2, <3>3 DEF Contexts, Alike
  <2>5. PICK z : z = Items(lh, c, 1, id)
    OBVIOUS
  <2>6. z \in Frames(S, v, g) /\ z.f = "for" /\ z.sh = lh /\ z.id = id
    BY <1>10, <2>2, <2>4, <2>5 DEF Items, ForFrames, Frames
  <2>7. PICK u : u = [s EXCEPT !.ids = id]
    OBVIOUS
  <2>8. IsState(u, S, v, g) /\ u.groups = s.groups /\ u.flow = s.flow
    BY <2>2, <2>7, SetsIds
  <2>9. ASSUME NEW flow \in Flows, Leads(z.sh, flow)
        PROVE  Ends(z, flow) \/ (Leads(frame.sh, flow) /\ ~Ends(frame, flow))
    BY <1>2, <2>4, <2>6, <2>9 DEF Leads, Ends, sh
  <2>10. HasCtx(z) /\ Alike(z.sh, frame.sh)
    BY <2>4, <2>6, Kinds DEF sh
  <2>11. StepOf(S, v, g, frame, s, <<z>>, u)
    BY <1>1, <2>6, <2>8, <2>9, <2>10, StepsOne
  <2>12. ExecPlain(s, sh, c, stop) = Pushing(<<z>>, u)
    BY <1>10, <2>1, <2>3, <2>5, <2>7 DEF ExecPlain, ForStart
  <2> QED BY <2>11, <2>12 DEF sh
<1>11. CASE c.t \in {"break", "continue"}
  <2>1. CASE sh.loops = <<>>
    <3>1. PICK u : u = [s EXCEPT !.flow = Failed]
      OBVIOUS
    <3>2. IsState(u, S, v, g) /\ u.groups = s.groups /\ u.flow = Failed
      BY <3>1, SetsFlow DEF AllFlows
    <3>3. ExecPlain(s, sh, c, stop) = Pushing(<<>>, u)
      BY <1>11, <2>1, <3>1 DEF ExecPlain, Jump, Leaving
    <3>4. AllRest(s) => AllRest(u)
      BY <3>2 DEF AllRest
    <3> QED BY <3>2, <3>3, <3>4, StepsNone DEF sh
  <2>2. CASE sh.loops # <<>>
    <3>1. PICK flow : flow = Flow(c.t, Head(sh.loops))
      OBVIOUS
    <3>2. flow \in Flows /\ Leads(sh, flow)
      BY <1>1, <1>11, <2>2, <3>1, LeadsFrom
    <3>3. PICK t : t = [s EXCEPT !.status = 0]
      OBVIOUS
    <3>4. IsState(t, S, v, g) /\ t.groups = s.groups /\ t.flow = s.flow
      BY <3>3, 0 \in Int, SetsStatus
    <3>5. PICK u : u = [t EXCEPT !.flow = flow]
      OBVIOUS
    <3>6. IsState(u, S, v, g) /\ u.groups = s.groups /\ u.flow = flow
      BY <3>2, <3>4, <3>5, SetsFlow DEF AllFlows
    <3>7. ExecPlain(s, sh, c, stop) = Pushing(<<>>, u)
      BY <1>11, <2>2, <3>1, <3>3, <3>5 DEF ExecPlain, Jump, Leaving, Status
    <3>8. AllRest(s) => AllRest(u)
      BY <3>6 DEF AllRest
    <3>9. u.flow \in Flows /\ HasCtx(frame) /\ Leads(frame.sh, u.flow) /\ ~Ends(frame, u.flow)
      BY <1>1, <1>2, <3>2, <3>6 DEF sh
    <3> QED BY <3>6, <3>7, <3>8, <3>9, StepsNone DEF sh
  <2> QED BY <2>1, <2>2
<1>12. CASE c.t = "call"
  <2>1. c.body \in Seq(S)
    BY <1>3, <1>12 DEF Inner
  <2>2. PICK a, u : /\ FuncPush(s, sh, s.vars[sh.vars], c.body) = Pushing(a, u)
                    /\ IsState(u, S, v + 1, g) /\ u.groups = s.groups /\ u.flow = s.flow
                    /\ a \in Seq(Frames(S, v + 1, g)) /\ Closed(sh, a)
    BY <1>1, <1>4, <2>1, Pushes
  <2>3. StepsTo(frame, a)
    BY <1>1, <2>2, ClosedSteps DEF sh
  <2>4. v + 1 \in Nat /\ v <= v + 1 /\ (AllRest(s) => AllRest(u))
    BY <2>2 DEF AllRest
  <2>5. StepOf(S, v, g, frame, s, a, u)
    BY <2>2, <2>3, <2>4 DEF StepOf
  <2>6. ExecPlain(s, sh, c, stop) = Pushing(a, u)
    BY <1>12, <2>2 DEF ExecPlain
  <2> QED BY <2>5, <2>6 DEF sh
<1>13. CASE c.t = "return"
  <2>1. CASE sh.noReturn \/ sh.ret = 0
    <3>1. PICK u : u = [s EXCEPT !.flow = Failed]
      OBVIOUS
    <3>2. IsState(u, S, v, g) /\ u.groups = s.groups /\ u.flow = Failed
      BY <3>1, SetsFlow DEF AllFlows
    <3>3. ExecPlain(s, sh, c, stop) = Pushing(<<>>, u)
      BY <1>13, <2>1, <3>1 DEF ExecPlain, EvalReturn, Leaving
    <3>4. AllRest(s) => AllRest(u)
      BY <3>2 DEF AllRest
    <3> QED BY <3>2, <3>3, <3>4, StepsNone DEF sh
  <2>2. CASE ~(sh.noReturn \/ sh.ret = 0)
    <3>1. PICK flow : flow = Flow("return", sh.ret)
      OBVIOUS
    <3>2. flow \in Flows /\ Leads(sh, flow)
      BY <1>1, <2>2, <3>1, LeadsFrom
    <3>3. PICK t : t = [s EXCEPT !.status = 1]
      OBVIOUS
    <3>4. IsState(t, S, v, g) /\ t.groups = s.groups /\ t.flow = s.flow
      BY <3>3, 1 \in Int, SetsStatus
    <3>5. PICK u : u = [t EXCEPT !.flow = flow]
      OBVIOUS
    <3>6. IsState(u, S, v, g) /\ u.groups = s.groups /\ u.flow = flow
      BY <3>2, <3>4, <3>5, SetsFlow DEF AllFlows
    <3>7. ExecPlain(s, sh, c, stop) = Pushing(<<>>, u)
      BY <1>13, <2>2, <3>1, <3>3, <3>5 DEF ExecPlain, EvalReturn, Leaving, Status
    <3>8. AllRest(s) => AllRest(u)
      BY <3>6 DEF AllRest
    <3>9. u.flow \in Flows /\ HasCtx(frame) /\ Leads(frame.sh, u.flow) /\ ~Ends(frame, u.flow)
      BY <1>1, <1>2, <3>2, <3>6 DEF sh
    <3> QED BY <3>6, <3>7, <3>8, <3>9, StepsNone DEF sh
  <2> QED BY <2>1, <2>2
<1> QED BY <1>5, <1>6, <1>7, <1>8, <1>9, <1>10, <1>11, <1>12, <1>13 DEF sh

LEMMA PushScriptSteps ==
  ASSUME NEW S, NEW v \in Nat, NEW g \in Nat, NEW s, IsState(s, S, v, g),
         NEW frame \in IfFrames(S, v, g), NEW script \in Seq(S)
  PROVE  \E a, u : /\ PushScript(frame.sh, script, s) = Pushing(a, u)
                   /\ StepOf(S, v, g, frame, s, a, u)
<1>1. frame.sh \in Contexts(v, g) /\ frame.f = "if" /\ frame \in Frames(S, v, g)
  BY DEF IfFrames, Frames
<1>2. HasCtx(frame) /\ \A flow : ~Ends(frame, flow)
  BY <1>1, Kinds DEF Ends
<1>3. CASE script = <<>>
  <2>1. PICK u : u = [s EXCEPT !.status = 0]
    OBVIOUS
  <2>2. IsState(u, S, v, g) /\ u.groups = s.groups /\ u.flow = s.flow
    BY <2>1, 0 \in Int, SetsStatus
  <2>3. PushScript(frame.sh, script, s) = Pushing(<<>>, u)
    BY <1>3, <2>1 DEF PushScript, Status
  <2>4. AllRest(s) => AllRest(u)
    BY <2>2 DEF AllRest
  <2> QED BY <2>2, <2>3, <2>4, StepsNone
<1>4. CASE script # <<>>
  <2>1. PICK z : z = Lines(frame.sh, script)
    OBVIOUS
  <2>2. z \in Frames(S, v, g) /\ z.f = "lines" /\ z.sh = frame.sh
    BY <1>1, <2>1, MadeLines
  <2>3. HasCtx(z)
    BY <2>2, Kinds
  <2>4. StepOf(S, v, g, frame, s, <<z>>, s)
    BY <1>1, <1>2, <2>2, <2>3, StepsOne DEF Alike
  <2>5. PushScript(frame.sh, script, s) = Pushing(<<z>>, s)
    BY <1>4, <2>1 DEF PushScript
  <2> QED BY <2>4, <2>5
<1> QED BY <1>3, <1>4

LEMMA LinesStep ==
  ASSUME NEW S, Statements(S), NEW v \in Nat, NEW g \in Nat, NEW s, IsState(s, S, v, g),
         NEW frame \in LineFrames(S, v, g), ~AtEnd(frame) => IsPlain(Statement(frame)),
         NEW stop \in 0 .. g
  PROVE  \E a, u : StepLines(frame, s, stop) = Pushing(a, u) /\ StepOf(S, v, g, frame, s, a, u)
<1>1. CASE AtEnd(frame)
  <2>1. StepLines(frame, s, stop) = Pushing(<<>>, s)
    BY <1>1 DEF StepLines
  <2> QED BY <2>1, StepsNone
<1>2. CASE ~AtEnd(frame)
  <2>1. frame.script \in Seq(S) /\ frame.pos \in Nat \ {0} /\ frame.f = "lines"
        /\ frame \in Frames(S, v, g)
    BY DEF LineFrames, Frames
  <2>2. Statement(frame) \in S
    BY <1>2, <2>1 DEF AtEnd, Statement
  <2>3. PICK a, u : /\ ExecPlain(s, frame.sh, Statement(frame), stop) = Pushing(a, u)
                    /\ StepOf(S, v, g, frame, s, a, u)
    BY <1>2, <2>2, ExecPlainSteps
  <2>4. StepOf(S, v, g, frame, s, Append(a, Advance(frame)), u)
    BY <2>1, <2>3, Advanced, StepsThen
  <2>5. StepLines(frame, s, stop) = Pushing(Append(a, Advance(frame)), u)
    BY <1>2, <2>3 DEF StepLines, Pushing
  <2> QED BY <2>4, <2>5
<1> QED BY <1>1, <1>2

LEMMA IfStep ==
  ASSUME NEW S, Statements(S), NEW v \in Nat, NEW g \in Nat, NEW s, IsState(s, S, v, g),
         NEW frame \in IfFrames(S, v, g)
  PROVE  \E a, u : StepIf(frame, s) = Pushing(a, u) /\ StepOf(S, v, g, frame, s, a, u)
<1>1. /\ frame.sh \in Contexts(v, g) /\ frame.f = "if" /\ frame \in Frames(S, v, g)
      /\ frame.s \in S /\ frame.s.t = "if"
  BY DEF IfFrames, Frames
<1>2. frame.s.c \in Seq(S) /\ frame.s.a \in Seq(S) /\ frame.s.b \in Seq(S)
  BY <1>1 DEF Statements, Inner
<1>3. CASE ~frame.test
  <2>1. PICK a, u : /\ PushScript(frame.sh, frame.s.c, s) = Pushing(a, u)
                    /\ StepOf(S, v, g, frame, s, a, u)
    BY <1>2, PushScriptSteps
  <2>2. PICK z : z = Clauses(frame.sh, frame.s, TRUE)
    OBVIOUS
  <2>3. z \in Frames(S, v, g) /\ z.f = "if" /\ z.sh = frame.sh
    BY <1>1, <2>2 DEF Clauses, IfFrames, Frames
  <2>4. StepOf(S, v, g, frame, s, Append(a, z), u)
    BY <1>1, <2>1, <2>3, StepsThen
  <2>5. StepIf(frame, s) = Pushing(Append(a, z), u)
    <3>1. StepIf(frame, s) = [Pushing(a, u) EXCEPT !.frames = Append(@, z)]
      BY <1>3, <2>1, <2>2 DEF StepIf
    <3>2. [Pushing(a, u) EXCEPT !.frames = Append(@, z)] = Pushing(Append(a, z), u)
      BY DEF Pushing
    <3> QED BY <3>1, <3>2
  <2> QED BY <2>4, <2>5
<1>4. CASE frame.test
  <2>1. PICK script : script = IF s.status = 0 THEN frame.s.a ELSE frame.s.b
    OBVIOUS
  <2>2. script \in Seq(S) /\ StepIf(frame, s) = PushScript(frame.sh, script, s)
    BY <1>2, <1>4, <2>1 DEF StepIf
  <2> QED BY <2>2, PushScriptSteps
<1> QED BY <1>3, <1>4

LEMMA ForStep ==
  ASSUME NEW S, Statements(S), NEW v \in Nat, NEW g \in Nat, NEW s, IsState(s, S, v, g),
         NEW frame \in ForFrames(S, v, g)
  PROVE  \E a, u : StepFor(frame, s) = Pushing(a, u) /\ StepOf(S, v, g, frame, s, a, u)
<1>1. /\ frame.sh \in Contexts(v, g) /\ frame.f = "for" /\ frame \in Frames(S, v, g)
      /\ frame.s \in S /\ frame.s.t = "for" /\ frame.index \in Nat \ {0} /\ frame.id \in Nat
  BY DEF ForFrames, Frames
<1>2. frame.s.body \in Seq(S) /\ frame.s.vs \in Seq(Int) /\ frame.sh.vars \in 1 .. v /\ HasCtx(frame)
  <2>1. frame.s.body \in Seq(S) /\ frame.s.vs \in Seq(Int)
    BY <1>1 DEF Statements, Inner
  <2> QED BY <1>1, <2>1, Kinds DEF Contexts
<1>3. CASE frame.index > Len(frame.s.vs)
  <2>1. PICK u : u = [s EXCEPT !.status = 0]
    OBVIOUS
  <2>2. IsState(u, S, v, g) /\ u.groups = s.groups /\ u.flow = s.flow
    BY <2>1, 0 \in Int, SetsStatus
  <2>3. StepFor(frame, s) = Pushing(<<>>, u)
    BY <1>3, <2>1 DEF StepFor, Status
  <2>4. AllRest(s) => AllRest(u)
    BY <2>2 DEF AllRest
  <2> QED BY <2>2, <2>3, <2>4, StepsNone
<1>4. CASE ~(frame.index > Len(frame.s.vs))
  <2>1. PICK n : n = frame.s.vs[frame.index]
    OBVIOUS
  <2>2. n \in Int
    BY <1>1, <1>2, <1>4, <2>1
  <2>3. PICK u : u = [s EXCEPT !.vars[frame.sh.vars].i = n]
    OBVIOUS
  <2>4. IsState(u, S, v, g) /\ u.groups = s.groups /\ u.flow = s.flow
    <3>1. PICK x : x = frame.sh.vars
      OBVIOUS
    <3>2. x \in 1 .. v /\ u = [s EXCEPT !.vars[x].i = n]
      BY <1>2, <2>3, <3>1
    <3> QED BY <2>2, <3>2, SetsItem
  <2>5. PICK y, z : y = Lines(frame.sh, frame.s.body) /\ z = [frame EXCEPT !.index = @ + 1]
    OBVIOUS
  <2>6. y \in Frames(S, v, g) /\ y.f = "lines" /\ y.sh = frame.sh
    BY <1>1, <1>2, <2>5, MadeLines
  <2>7. z \in Frames(S, v, g) /\ z.f = "for" /\ z.sh = frame.sh /\ z.id = frame.id
    BY <1>1, <2>5 DEF ForFrames, Frames
  <2>8. y # ResetEnd /\ z # ResetEnd
    BY <2>6, <2>7, Kinds
  <2>9. PICK a : a = <<y, z>>
    OBVIOUS
  <2>10. a \in Seq(Frames(S, v, g)) /\ DOMAIN a = {1, 2} /\ a[1] = y /\ a[2] = z
    BY <2>6, <2>7, <2>9
  <2>11. ASSUME NEW flow \in Flows PROVE Ends(z, flow) <=> Ends(frame, flow)
    BY <1>1, <2>7 DEF Ends
  <2>12. StepsTo(frame, a)
    BY <1>2, <2>6, <2>7, <2>8, <2>10, <2>11, 2 >= 1, 2 >= 2 DEF StepsTo, Alike
  <2>13. StepOf(S, v, g, frame, s, a, u)
    BY <2>4, <2>10, <2>12, v <= v DEF StepOf, AllRest
  <2>14. StepFor(frame, s) = Pushing(a, u)
    BY <1>4, <2>1, <2>3, <2>5, <2>9 DEF StepFor
  <2> QED BY <2>13, <2>14
<1> QED BY <1>3, <1>4

LEMMA LocalStep ==
  ASSUME NEW S, Statements(S), NEW v \in Nat, NEW g \in Nat, NEW s, IsState(s, S, v, g),
         NEW frame \in Frames(S, v, g), IsLocal(frame), NEW stop \in 0 .. g
  PROVE  \E a, u : StepLocal(frame, s, stop) = Pushing(a, u) /\ StepOf(S, v, g, frame, s, a, u)
<1>1. frame.f \in {"lines", "if", "for", "call"}
  BY DEF IsLocal
<1>2. CASE frame.f = "lines"
  <2>1. frame \in LineFrames(S, v, g) /\ (~AtEnd(frame) => IsPlain(Statement(frame)))
    BY <1>2, Kinds DEF IsLocal
  <2>2. StepLocal(frame, s, stop) = StepLines(frame, s, stop)
    BY <1>2 DEF StepLocal
  <2> QED BY <2>1, <2>2, LinesStep
<1>3. CASE frame.f = "if"
  <2>1. frame \in IfFrames(S, v, g) /\ StepLocal(frame, s, stop) = StepIf(frame, s)
    BY <1>3, Kinds DEF StepLocal
  <2> QED BY <2>1, IfStep
<1>4. CASE frame.f = "for"
  <2>1. frame \in ForFrames(S, v, g) /\ StepLocal(frame, s, stop) = StepFor(frame, s)
    BY <1>4, Kinds DEF StepLocal
  <2> QED BY <2>1, ForStep
<1>5. CASE frame.f = "call"
  <2>1. StepLocal(frame, s, stop) = Pushing(<<>>, s)
    BY <1>5 DEF StepLocal
  <2> QED BY <2>1, StepsNone
<1> QED BY <1>1, <1>2, <1>3, <1>4, <1>5

----------------------------------------------------------------------------
(***************************************************************************)
(* The Chain under the steps.                                              *)
(***************************************************************************)
LEMMA TailIsDrop ==
  ASSUME NEW F, NEW c \in Seq(F), c # <<>>
  PROVE  /\ Tail(c) = Drop(c, 1) /\ 1 \in 0 .. Len(c) /\ 1 \in DOMAIN c /\ Tail(c) \in Seq(F)
         /\ Len(Tail(c)) = Len(c) - 1 /\ \A j \in 1 .. Len(c) - 1 : Tail(c)[j] = c[j + 1]
<1>1. Len(c) \in Nat /\ Len(c) > 0
  OBVIOUS
<1>2. 1 \in 0 .. Len(c) /\ 1 \in DOMAIN c
  BY <1>1
<1>3. Tail(c) \in Seq(F) /\ Len(Tail(c)) = Len(c) - 1 /\ \A j \in 1 .. Len(c) - 1 : Tail(c)[j] = c[j + 1]
  BY <1>1
<1>4. /\ Drop(c, 1) \in Seq(F) /\ Len(Drop(c, 1)) = Len(c) - 1
      /\ \A j \in 1 .. Len(c) - 1 : Drop(c, 1)[j] = c[1 + j]
  BY <1>2, Dropped
<1>5. Tail(c) = Drop(c, 1)
  <2>1. PICK a, b : a = Tail(c) /\ b = Drop(c, 1)
    OBVIOUS
  <2>2. \A j \in 1 .. Len(c) - 1 : a[j] = b[j]
    BY <1>1, <1>3, <1>4, <2>1
  <2>3. a \in Seq(F) /\ b \in Seq(F) /\ Len(a) = Len(b) /\ \A j \in 1 .. Len(a) : a[j] = b[j]
    BY <1>3, <1>4, <2>1, <2>2
  <2>4. a = b
    BY <2>3, SeqEqual
  <2> QED BY <2>1, <2>4
<1> QED BY <1>2, <1>3, <1>5

LEMMA DropNone ==
  ASSUME NEW F, NEW c \in Seq(F)
  PROVE  Drop(c, 0) = c
  BY DEF Drop

LEMMA EmptyJoin ==
  ASSUME NEW F, NEW c \in Seq(F)
  PROVE  <<>> \o c = c
  OBVIOUS

\* What leaves the first frame ends in the frames after it, or outside.
LEMMA HeadCovers ==
  ASSUME NEW F, NEW exact, NEW c, NEW q, NEW g, NEW out, Piece(F, exact, c, q, g, out),
         c # <<>>, c[1] # ResetEnd, HasCtx(c[1]),
         NEW flow \in Flows, Leads(c[1].sh, flow), ~Ends(c[1], flow)
  PROVE  Covers(Tail(c), out, flow)
<1>1. c \in Seq(F) /\ Scoped(c, out)
  BY DEF Piece
<1>2. PICK k : k = Tail(c)
  OBVIOUS
<1>3. /\ 1 \in DOMAIN c /\ DOMAIN c = 1 .. Len(c) /\ DOMAIN k = 1 .. Len(c) - 1 /\ Len(c) \in Nat
      /\ \A j \in 1 .. Len(c) - 1 : k[j] = c[j + 1]
  BY <1>1, <1>2, TailIsDrop
<1>4. ReachIn(c, 1, flow) \/ (~HasReset(c, 1) /\ flow \in out)
  BY <1>1, <1>3 DEF Scoped
<1>5. CASE ReachIn(c, 1, flow)
  <2>1. PICK m \in DOMAIN c : m >= 1 /\ Ends(c[m], flow) /\ \A x \in 1 .. m : c[x] # ResetEnd
    BY <1>5 DEF ReachIn
  <2>2. m # 1
    BY <2>1
  <2>3. m - 1 \in DOMAIN k /\ m - 1 >= 1 /\ k[m - 1] = c[m]
    BY <1>3, <2>1, <2>2
  <2>4. ASSUME NEW x \in 1 .. m - 1 PROVE k[x] # ResetEnd
    <3>1. k[x] = c[x + 1] /\ x + 1 \in 1 .. m
      BY <1>3, <2>1
    <3> QED BY <2>1, <3>1
  <2>5. ReachIn(k, 1, flow)
    BY <2>1, <2>3, <2>4 DEF ReachIn
  <2> QED BY <1>2, <2>5 DEF Covers
<1>6. CASE ~HasReset(c, 1) /\ flow \in out
  <2>1. ASSUME NEW m \in DOMAIN k, k[m] = ResetEnd PROVE FALSE
    <3>1. m + 1 \in DOMAIN c /\ m + 1 >= 1 /\ c[m + 1] = ResetEnd
      BY <1>3, <2>1
    <3> QED BY <1>6, <3>1 DEF HasReset
  <2>2. ~HasReset(k, 1)
    BY <2>1 DEF HasReset
  <2> QED BY <1>2, <1>6, <2>2 DEF Covers
<1> QED BY <1>4, <1>5, <1>6

\* The first frame is replaced.
LEMMA PieceStep ==
  ASSUME NEW F, NEW exact, NEW c, NEW q, NEW g, NEW out, Piece(F, exact, c, q, g, out),
         c # <<>>, c[1] # ResetEnd, NEW a \in Seq(F), StepsTo(c[1], a)
  PROVE  Piece(F, exact, a \o Tail(c), q, g, out)
<1>1. c \in Seq(F)
  BY DEF Piece
<1>2. PICK k : k = Tail(c)
  OBVIOUS
<1>3. k = Drop(c, 1) /\ 1 \in 0 .. Len(c) /\ 1 \in DOMAIN c
  BY <1>1, <1>2, TailIsDrop
<1>4. Piece(F, exact, k, q, g, out)
  <2>1. \A m \in 1 .. 1 : c[m] # ResetEnd
    OBVIOUS
  <2> QED BY <1>3, <2>1, PieceDrop
<1>5. ASSUME NEW i \in DOMAIN a, NEW flow \in Flows, HasCtx(a[i]), Leads(a[i].sh, flow)
      PROVE  (\E m \in DOMAIN a : m >= i /\ Ends(a[m], flow)) \/ Covers(k, out, flow)
  <2>1. CASE \E m \in DOMAIN a : m >= i /\ Ends(a[m], flow)
    BY <2>1
  <2>2. CASE HasCtx(c[1]) /\ Leads(c[1].sh, flow) /\ ~Ends(c[1], flow)
    BY <1>2, <2>2, HeadCovers
  <2> QED BY <1>5, <2>1, <2>2 DEF StepsTo
<1>6. ASSUME g # 0, ~HasReset(k, 1), NEW i \in DOMAIN a, HasCtx(a[i]) PROVE a[i].sh.redirected
  <2>1. HasCtx(c[1]) /\ a[i].sh.redirected = c[1].sh.redirected
    BY <1>6 DEF StepsTo, Alike
  <2>2. ~HasReset(c, 1)
    <3>1. (HasReset(c, 1) <=> q > 0) /\ (HasReset(k, 1) <=> q > 0)
      BY <1>4 DEF Piece
    <3> QED BY <1>6, <3>1
  <2>3. c[1].sh.redirected
    BY <1>3, <1>6, <2>1, <2>2 DEF Piece, Marked
  <2> QED BY <2>1, <2>3
<1>7. \A i \in DOMAIN a : a[i] # ResetEnd
  BY DEF StepsTo
<1>8. ASSUME NEW i \in DOMAIN a, HasCtx(a[i])
      PROVE  /\ HasReset(k, 1) => ~a[i].sh.redirected
             /\ exact => a[i].sh.out = a[i].sh.abort
  <2>1. HasCtx(c[1]) /\ Alike(a[i].sh, c[1].sh)
    BY <1>8 DEF StepsTo
  <2>2. HasReset(k, 1) => HasReset(c, 1)
    <3>1. (HasReset(c, 1) <=> q > 0) /\ (HasReset(k, 1) <=> q > 0)
      BY <1>4 DEF Piece
    <3> QED BY <3>1
  <2>3. Tuned(exact, c)
    BY DEF Piece
  <2>4. (HasReset(c, 1) => ~c[1].sh.redirected) /\ (exact => c[1].sh.out = c[1].sh.abort)
    BY <1>3, <2>1, <2>3 DEF Tuned
  <2> QED BY <2>1, <2>2, <2>4 DEF Alike
<1>9. Piece(F, exact, a \o k, q, g, out)
  BY <1>4, <1>5, <1>6, <1>7, <1>8, PieceJoin
<1> QED BY <1>2, <1>9

\* A flow that ends in the frames after a ends in the Chain with a.
LEMMA CoversJoined ==
  ASSUME NEW F, NEW a \in Seq(F), NEW k \in Seq(F), \A i \in DOMAIN a : a[i] # ResetEnd,
         NEW out, NEW flow, Covers(k, out, flow)
  PROVE  Covers(a \o k, out, flow)
<1>1. PICK c : c = a \o k
  OBVIOUS
<1>2. PICK n : n = Len(a)
  OBVIOUS
<1>3. /\ n \in Nat /\ Len(k) \in Nat /\ DOMAIN a = 1 .. n /\ DOMAIN k = 1 .. Len(k)
      /\ DOMAIN c = 1 .. n + Len(k) /\ \A j \in 1 .. n : c[j] = a[j]
  BY <1>1, <1>2
<1>4. ASSUME NEW j \in DOMAIN c, j > n PROVE j - n \in DOMAIN k /\ c[j] = k[j - n]
  BY <1>1, <1>2, <1>4
<1>5. ASSUME NEW j \in DOMAIN k PROVE n + j \in DOMAIN c /\ c[n + j] = k[j]
  BY <1>1, <1>2
<1>6. CASE ReachIn(k, 1, flow)
  <2>1. PICK m \in DOMAIN k : m >= 1 /\ Ends(k[m], flow) /\ \A x \in 1 .. m : k[x] # ResetEnd
    BY <1>6 DEF ReachIn
  <2>2. n + m \in DOMAIN c /\ n + m >= 1 /\ Ends(c[n + m], flow)
    BY <1>3, <1>5, <2>1
  <2>3. ASSUME NEW x \in 1 .. n + m PROVE c[x] # ResetEnd
    <3>1. CASE x <= n
      BY <1>3, <3>1
    <3>2. CASE x > n
      <4>1. x \in DOMAIN c /\ x - n \in 1 .. m
        BY <1>3, <2>1, <3>2
      <4> QED BY <1>4, <2>1, <3>2, <4>1
    <3> QED BY <1>3, <2>1, <3>1, <3>2
  <2>4. ReachIn(c, 1, flow)
    BY <2>2, <2>3 DEF ReachIn
  <2> QED BY <1>1, <2>4 DEF Covers
<1>7. CASE ~HasReset(k, 1) /\ flow \in out
  <2>1. ASSUME NEW m \in DOMAIN c, c[m] = ResetEnd PROVE FALSE
    <3>1. m > n
      BY <1>3, <2>1
    <3>2. m - n \in DOMAIN k /\ k[m - n] = ResetEnd /\ m - n >= 1
      BY <1>3, <1>4, <2>1, <3>1
    <3> QED BY <1>7, <3>2 DEF HasReset
  <2>2. ~HasReset(c, 1)
    BY <2>1 DEF HasReset
  <2> QED BY <1>1, <1>7, <2>2 DEF Covers
<1> QED BY <1>6, <1>7 DEF Covers

\* The flows that end in all the runs.
LEMMA ReachedSplit ==
  ASSUME NEW R, NEW rs \in Seq(R), rs # <<>>, NEW flow \in Flows
  PROVE  flow \in Reached(rs, 1) <=> Covers(rs[1].chain, Reached(rs, 2), flow)
<1>1. DOMAIN rs = 1 .. Len(rs) /\ Len(rs) \in Nat /\ 1 \in DOMAIN rs
  OBVIOUS
<1>2. ASSUME flow \in Reached(rs, 1) PROVE Covers(rs[1].chain, Reached(rs, 2), flow)
  <2>1. PICK l \in DOMAIN rs : /\ l >= 1 /\ ReachIn(rs[l].chain, 1, flow)
                               /\ \A x \in 1 .. l - 1 : ~HasReset(rs[x].chain, 1)
    BY <1>2 DEF Reached
  <2>2. CASE l = 1
    BY <2>1, <2>2 DEF Covers
  <2>3. CASE l # 1
    <3>1. l >= 2 /\ 1 \in 1 .. l - 1 /\ \A x \in 2 .. l - 1 : x \in 1 .. l - 1
      BY <1>1, <2>3
    <3>2. flow \in Reached(rs, 2)
      BY <2>1, <3>1 DEF Reached
    <3> QED BY <2>1, <3>1, <3>2 DEF Covers
  <2> QED BY <2>2, <2>3
<1>3. CASE ReachIn(rs[1].chain, 1, flow)
  <2>1. \A x \in 1 .. 1 - 1 : FALSE
    OBVIOUS
  <2>2. \E l \in DOMAIN rs : /\ l >= 1 /\ ReachIn(rs[l].chain, 1, flow)
                             /\ \A x \in 1 .. l - 1 : ~HasReset(rs[x].chain, 1)
    BY <1>1, <1>3, <2>1, 1 >= 1
  <2>3. flow \in Reached(rs, 1)
    BY <2>2 DEF Reached
  <2> QED BY <1>3, <2>3 DEF Covers
<1>4. CASE ~HasReset(rs[1].chain, 1) /\ flow \in Reached(rs, 2)
  <2>1. PICK l \in DOMAIN rs : /\ l >= 2 /\ ReachIn(rs[l].chain, 1, flow)
                               /\ \A x \in 2 .. l - 1 : ~HasReset(rs[x].chain, 1)
    BY <1>4 DEF Reached
  <2>2. ASSUME NEW x \in 1 .. l - 1 PROVE ~HasReset(rs[x].chain, 1)
    BY <1>1, <1>4, <2>1
  <2>3. l >= 1
    BY <1>1, <2>1
  <2>4. flow \in Reached(rs, 1)
    BY <2>1, <2>2, <2>3 DEF Reached
  <2> QED BY <1>4, <2>4 DEF Covers
<1> QED BY <1>2, <1>3, <1>4 DEF Covers

LEMMA PartedMono ==
  ASSUME NEW F, NEW G, F \subseteq G, NEW exact, NEW rs, NEW mt, NEW last,
         Parted(F, exact, rs, mt, last)
  PROVE  Parted(G, exact, rs, mt, last)
<1>1. Seq(F) \subseteq Seq(G)
  BY SeqMono
<1>2. ASSUME NEW c, NEW q, NEW g, NEW out, Piece(F, exact, c, q, g, out)
      PROVE  Piece(G, exact, c, q, g, out)
  BY <1>1, <1>2 DEF Piece
<1> QED BY <1>2 DEF Parted

----------------------------------------------------------------------------
(***************************************************************************)
(* The inductive invariant, of scripts with statements of S.               *)
(***************************************************************************)
\* The statement of a reset is that of the rest of its Chain.
Headed(mt) ==
  \A i \in DOMAIN mt : mt[i].k # <<>> /\ HasCtx(mt[i].k[1]) /\ mt[i].k[1].sh = mt[i].sh

GoodAt(S, exact, rs, mt, s, v, g) ==
  /\ v \in Nat /\ g \in Nat /\ IsState(s, S, v, g)
  /\ rs \in Seq(Calls(S, v, g)) /\ mt \in Seq(Infos(S, v, g)) /\ Headed(mt)
  /\ \A j \in DOMAIN rs : rs[j].g = 0 => j = Len(rs)
  /\ \E last : Parted(Frames(S, v, g), exact, rs, mt, last)
  /\ s.flow \in Flows => s.flow \in Reached(rs, 1)
  /\ s.flow.k = "abort" => exact
  /\ exact \/ AllRest(s)

\* The flow of the state ends in the Chain c or in the runs around it.
FlowIn(exact, u, c, out) ==
  /\ u.flow \in Flows => Covers(c, out, u.flow)
  /\ u.flow.k = "abort" => exact
  /\ exact \/ AllRest(u)

LEMMA GoodParts ==
  ASSUME NEW S, NEW exact, NEW v, NEW g, NEW rs, NEW mt, NEW s, GoodAt(S, exact, rs, mt, s, v, g),
         NEW w \in Nat, v <= w, NEW h \in Nat, g <= h
  PROVE  /\ v \in Nat /\ g \in Nat /\ IsState(s, S, v, g)
         /\ rs \in Seq(Calls(S, w, h)) /\ mt \in Seq(Infos(S, w, h)) /\ Headed(mt)
         /\ \A j \in DOMAIN rs : rs[j].g = 0 => j = Len(rs)
         /\ \E last : Parted(Frames(S, w, h), exact, rs, mt, last)
<1>1. v \in Nat /\ g \in Nat /\ rs \in Seq(Calls(S, v, g)) /\ mt \in Seq(Infos(S, v, g))
  BY DEF GoodAt
<1>2. rs \in Seq(Calls(S, w, h)) /\ mt \in Seq(Infos(S, w, h))
  BY <1>1, TypesMono
<1>3. Frames(S, v, g) \subseteq Frames(S, w, h)
  BY <1>1, FramesMono
<1>4. \E last : Parted(Frames(S, v, g), exact, rs, mt, last)
  BY DEF GoodAt
<1>5. \E last : Parted(Frames(S, w, h), exact, rs, mt, last)
  BY <1>3, <1>4, PartedMono
<1> QED BY <1>1, <1>2, <1>5 DEF GoodAt

LEMMA GoesOn ==
  ASSUME NEW S, NEW exact, NEW w \in Nat, NEW h \in Nat, NEW rs \in Seq(Calls(S, w, h)), rs # <<>>,
         NEW mt \in Seq(Infos(S, w, h)), Headed(mt), \A j \in DOMAIN rs : rs[j].g = 0 => j = Len(rs),
         NEW last, Parted(Frames(S, w, h), exact, rs, mt, last),
         NEW u, IsState(u, S, w, h), NEW c, FlowIn(exact, u, c, Reached(rs, 2)),
         NEW front \in Seq(Infos(S, w, h)), Headed(front), NEW n \in Nat, n <= last[1],
         Pieces(Frames(S, w, h), exact, c, front, last[1] - n + Len(front), rs[1].g, Reached(rs, 2))
  PROVE  GoodAt(S, exact, [rs EXCEPT ![1].chain = c], front \o Drop(mt, n), u, w, h)
<1>1. Len(rs) \in Nat /\ Len(rs) >= 1 /\ Len(front) \in Nat /\ 1 \in DOMAIN rs /\ DOMAIN rs = 1 .. Len(rs)
  OBVIOUS
<1>2. rs[1] \in Calls(S, w, h) /\ IsRun(rs[1])
  <2>1. rs[1] \in Calls(S, w, h)
    BY <1>1
  <2>2. DOMAIN rs[1] = {"chain", "g", "sh"}
    BY <2>1 DEF Calls
  <2> QED BY <2>1, <2>2 DEF IsRun
<1>3. c \in Seq(Frames(S, w, h))
  <2>1. 0 \in 0 .. Len(front)
    BY <1>1
  <2> QED BY <2>1 DEF Pieces, Piece
<1>4. PICK t : t = [rs EXCEPT ![1].chain = c]
  OBVIOUS
<1>5. /\ t \in Seq(Calls(S, w, h)) /\ DOMAIN t = DOMAIN rs /\ Len(t) = Len(rs)
      /\ t[1].chain = c /\ \A j \in DOMAIN rs : t[j].g = rs[j].g
  <2>1. PICK r : r = [rs[1] EXCEPT !.chain = c]
    OBVIOUS
  <2>2. r \in Calls(S, w, h) /\ r.g = rs[1].g /\ r.chain = c
    BY <1>2, <1>3, <2>1 DEF Calls
  <2>3. t = [rs EXCEPT ![1] = r]
    BY <1>4, <2>1
  <2> QED BY <1>1, <2>2, <2>3
<1>6. last[1] \in 0 .. Len(mt)
  BY <1>1 DEF Parted, Division
<1>7. PICK m : m = front \o Drop(mt, n)
  OBVIOUS
<1>8. PICK d : d = Len(front) - n
  OBVIOUS
<1>9. m \in Seq(Infos(S, w, h)) /\ Put(mt, front, d, m)
  <2>1. n \in 0 .. Len(mt)
    BY <1>6
  <2> QED BY <1>7, <1>8, <2>1, TakenAndPut
<1>10. Headed(m)
  <2> SUFFICES ASSUME NEW i \in DOMAIN m
               PROVE  m[i] \in {mt[x] : x \in DOMAIN mt} \cup {front[x] : x \in DOMAIN front}
    BY DEF Headed
  <2>1. i \in 1 .. Len(mt) + d /\ Len(mt) \in Nat /\ DOMAIN mt = 1 .. Len(mt)
        /\ DOMAIN front = 1 .. Len(front)
    BY <1>9 DEF Put
  <2>2. CASE i <= Len(front)
    <3>1. i \in 1 .. Len(front) /\ m[i] = front[i]
      BY <1>1, <1>9, <2>1, <2>2 DEF Put
    <3> QED BY <2>1, <3>1
  <2>3. CASE i > Len(front)
    <3>1. i \in Len(front) + 1 .. Len(mt) + d
      BY <1>1, <1>8, <2>1, <2>3
    <3>2. i - d \in 1 .. Len(mt) /\ m[i] = mt[i - d]
      BY <1>9, <3>1 DEF Put
    <3> QED BY <2>1, <3>2
  <2> QED BY <1>1, <2>1, <2>2, <2>3
<1>11. \E l : Parted(Frames(S, w, h), exact, t, m, l)
  BY <1>1, <1>2, <1>4, <1>7, Turn
<1>12. u.flow \in Flows => u.flow \in Reached(t, 1)
  <2> SUFFICES ASSUME u.flow \in Flows PROVE u.flow \in Reached(t, 1)
    OBVIOUS
  <2>1. Reached(t, 2) = Reached(rs, 2)
    BY <1>4, 2 \in Nat, 2 >= 2, ReachedSame
  <2>2. t # <<>>
    BY <1>1, <1>5
  <2> QED BY <1>5, <2>1, <2>2, ReachedSplit DEF FlowIn
<1>13. \A j \in DOMAIN t : t[j].g = 0 => j = Len(t)
  BY <1>5
<1>14. GoodAt(S, exact, t, m, u, w, h)
  BY <1>5, <1>9, <1>10, <1>11, <1>12, <1>13 DEF GoodAt, FlowIn
<1> QED BY <1>4, <1>7, <1>14

\* ... and meta is as it was.
LEMMA GoesOnIn ==
  ASSUME NEW S, NEW exact, NEW w \in Nat, NEW h \in Nat, NEW rs \in Seq(Calls(S, w, h)), rs # <<>>,
         NEW mt \in Seq(Infos(S, w, h)), Headed(mt), \A j \in DOMAIN rs : rs[j].g = 0 => j = Len(rs),
         NEW last, Parted(Frames(S, w, h), exact, rs, mt, last),
         NEW u, IsState(u, S, w, h), NEW c, FlowIn(exact, u, c, Reached(rs, 2)),
         Piece(Frames(S, w, h), exact, c, last[1], rs[1].g, Reached(rs, 2))
  PROVE  GoodAt(S, exact, [rs EXCEPT ![1].chain = c], mt, u, w, h)
<1>1. PICK front : front = <<>>
  OBVIOUS
<1>2. front \in Seq(Infos(S, w, h)) /\ Headed(front) /\ Len(front) = 0
  BY <1>1 DEF Headed
<1>3. last[1] \in Nat
  <2>1. Len(rs) \in Nat /\ Len(rs) >= 1 /\ Len(mt) \in Nat
    OBVIOUS
  <2> QED BY <2>1 DEF Parted, Division
<1>4. Pieces(Frames(S, w, h), exact, c, front, last[1] - 0 + Len(front), rs[1].g, Reached(rs, 2))
  BY <1>2, <1>3 DEF Pieces
<1>5. 0 \in Nat /\ 0 <= last[1]
  BY <1>3
<1>6. GoodAt(S, exact, [rs EXCEPT ![1].chain = c], front \o Drop(mt, 0), u, w, h)
  BY <1>2, <1>4, <1>5, GoesOn
<1>7. front \o Drop(mt, 0) = mt
  BY <1>1, DropNone, EmptyJoin
<1> QED BY <1>6, <1>7

\* The Chain of the innermost run.
LEMMA ChainIs ==
  ASSUME NEW S, NEW exact, NEW w \in Nat, NEW h \in Nat, NEW rs \in Seq(Calls(S, w, h)), rs # <<>>,
         NEW mt \in Seq(Infos(S, w, h)), NEW last, Parted(Frames(S, w, h), exact, rs, mt, last)
  PROVE  /\ Piece(Frames(S, w, h), exact, rs[1].chain, last[1], rs[1].g, Reached(rs, 2))
         /\ rs[1] \in Calls(S, w, h) /\ last[1] \in 0 .. Len(mt) /\ Len(mt) \in Nat
         /\ rs[1].chain \in Seq(Frames(S, w, h)) /\ rs[1].g \in 0 .. h /\ rs[1].sh \in Contexts(w, h)
         /\ \A i \in 1 .. last[1] :
              Piece(Frames(S, w, h), exact, mt[i].k, last[1] - i, rs[1].g, Reached(rs, 2))
<1>1. Len(rs) \in Nat /\ Len(rs) >= 1 /\ Len(mt) \in Nat /\ 1 \in DOMAIN rs
  OBVIOUS
<1>2. last[0] = 0 /\ last[1] \in 0 .. Len(mt)
  BY <1>1 DEF Parted, Division
<1>3. ASSUME NEW i \in 0 .. last[1]
      PROVE  Piece(Frames(S, w, h), exact, Chained(rs, mt, last, 1, i), last[1] - i, rs[1].g,
                   Reached(rs, 2))
  <2>1. 1 \in 1 .. Len(rs) /\ 1 - 1 = 0 /\ 1 + 1 = 2 /\ i \in last[0] .. last[1]
    BY <1>1, <1>2
  <2> QED BY <2>1 DEF Parted
<1>4. Piece(Frames(S, w, h), exact, rs[1].chain, last[1], rs[1].g, Reached(rs, 2))
  <2>1. 0 \in 0 .. last[1] /\ last[1] - 0 = last[1] /\ Chained(rs, mt, last, 1, 0) = rs[1].chain
    BY <1>2 DEF Chained
  <2> QED BY <1>3, <2>1
<1>5. ASSUME NEW i \in 1 .. last[1]
      PROVE  Piece(Frames(S, w, h), exact, mt[i].k, last[1] - i, rs[1].g, Reached(rs, 2))
  <2>1. i \in 0 .. last[1] /\ Chained(rs, mt, last, 1, i) = mt[i].k
    BY <1>2 DEF Chained
  <2> QED BY <1>3, <2>1
<1>6. rs[1] \in Calls(S, w, h)
  BY <1>1
<1>7. rs[1].chain \in Seq(Frames(S, w, h)) /\ rs[1].g \in 0 .. h /\ rs[1].sh \in Contexts(w, h)
  BY <1>6 DEF Calls
<1> QED BY <1>1, <1>2, <1>4, <1>5, <1>6, <1>7

----------------------------------------------------------------------------
(***************************************************************************)
(* The invariant under the actions.                                        *)
(***************************************************************************)
Allowed(S, exact) == Statements(S) /\ (exact => NoResume(S)) /\ (exact \/ NoFullList(S))

Good(S, exact) == \E v, g : GoodAt(S, exact, runs, meta, st, v, g)

LEMMA OnwardIs ==
  /\ Onward \notin Flows /\ Onward.k = "onward" /\ Onward # Failed
  /\ Failed \notin Flows /\ Failed.k = "error"
  BY DEF Onward, Failed, Flows

\* An allowed statement that looks at the rest of the computation, and what is left.
LEMMA Controls ==
  ASSUME NEW S, Statements(S), NEW v \in Nat, NEW g \in Nat, NEW t, ControlAt(t),
         NEW exact, NEW q, NEW gr, NEW out, Piece(Frames(S, v, g), exact, chain, q, gr, out)
  PROVE  /\ Stmt \in S /\ Stmt.t = t /\ Here \in Contexts(v, g)
         /\ chain[1] \in LineFrames(S, v, g) /\ chain[1] # ResetEnd /\ HasCtx(chain[1])
         /\ chain \in Seq(Frames(S, v, g))
         /\ Piece(Frames(S, v, g), exact, After, q, gr, out)
         /\ After \in Seq(Frames(S, v, g)) /\ After # <<>> /\ HasCtx(After[1]) /\ After[1].sh = Here
         /\ \A flow \in Flows : Leads(Here, flow) => Covers(After, out, flow)
<1>1. chain \in Seq(Frames(S, v, g)) /\ chain # <<>> /\ chain[1].f = "lines" /\ ~AtEnd(chain[1])
      /\ Statement(chain[1]).t = t
  BY DEF ControlAt, Piece
<1>2. chain[1] \in Frames(S, v, g)
  BY <1>1
<1>3. chain[1] \in LineFrames(S, v, g) /\ chain[1] # ResetEnd /\ HasCtx(chain[1])
  BY <1>1, <1>2, Kinds
<1>4. Here \in Contexts(v, g) /\ chain[1].script \in Seq(S) /\ chain[1].pos \in Nat \ {0}
  BY <1>3 DEF Here, LineFrames
<1>5. Stmt \in S /\ Stmt.t = t
  BY <1>1, <1>4 DEF Stmt, Statement, AtEnd
<1>6. PICK z : z = Advance(chain[1])
  OBVIOUS
<1>7. z \in Frames(S, v, g) /\ z # ResetEnd /\ z.sh = Here /\ HasCtx(z)
  BY <1>3, <1>6, Advanced DEF Here
<1>8. PICK a : a = <<z>>
  OBVIOUS
<1>9. a \in Seq(Frames(S, v, g)) /\ DOMAIN a = {1} /\ a[1] = z
  BY <1>7, <1>8
<1>10. \A flow : ~Ends(chain[1], flow)
  BY <1>1 DEF Ends
<1>11. StepsTo(chain[1], a)
  BY <1>3, <1>7, <1>9, <1>10 DEF StepsTo, Alike, Here
<1>12. Tail(chain) \in Seq(Frames(S, v, g))
  BY <1>1, TailIsDrop
<1>13. After = a \o Tail(chain)
  BY <1>6, <1>8 DEF After
<1>14. Piece(Frames(S, v, g), exact, After, q, gr, out)
  BY <1>1, <1>3, <1>9, <1>11, <1>13, PieceStep
<1>15. After \in Seq(Frames(S, v, g)) /\ After # <<>> /\ After[1] = z
  BY <1>7, <1>8, <1>12, <1>13
<1>16. ASSUME NEW flow \in Flows, Leads(Here, flow) PROVE Covers(After, out, flow)
  <2>1. Covers(Tail(chain), out, flow)
    BY <1>1, <1>3, <1>10, <1>16, HeadCovers DEF Here
  <2>2. \A i \in DOMAIN a : a[i] # ResetEnd
    BY <1>7, <1>9
  <2> QED BY <1>9, <1>12, <1>13, <2>1, <2>2, CoversJoined
<1> QED BY <1>1, <1>3, <1>4, <1>5, <1>7, <1>14, <1>15, <1>16

\* The state of a step that does not end in an error.
LEMMA FlowGoesOn ==
  ASSUME NEW exact, NEW s, NEW u, u.flow = Onward, exact \/ AllRest(s), AllRest(s) => AllRest(u),
         NEW c, NEW out
  PROVE  FlowIn(exact, u, c, out)
  BY OnwardIs DEF FlowIn

\* What is known before a step of the innermost run, in the types after it.
LEMMA Begins ==
  ASSUME NEW S, NEW exact, NEW v, NEW g, GoodAt(S, exact, runs, meta, st, v, g), runs # <<>>,
         NEW w \in Nat, v <= w, NEW h \in Nat, g <= h
  PROVE  \E last :
           /\ Parted(Frames(S, w, h), exact, runs, meta, last)
           /\ Piece(Frames(S, w, h), exact, chain, last[1], runs[1].g, Reached(runs, 2))
           /\ last[1] \in 0 .. Len(meta) /\ Len(meta) \in Nat
           /\ \A i \in 1 .. last[1] :
                Piece(Frames(S, w, h), exact, meta[i].k, last[1] - i, runs[1].g, Reached(runs, 2))
<1>1. /\ runs \in Seq(Calls(S, w, h)) /\ meta \in Seq(Infos(S, w, h))
      /\ \E last : Parted(Frames(S, w, h), exact, runs, meta, last)
  BY GoodParts
<1>2. PICK last : Parted(Frames(S, w, h), exact, runs, meta, last)
  BY <1>1
<1>3. /\ Piece(Frames(S, w, h), exact, runs[1].chain, last[1], runs[1].g, Reached(runs, 2))
      /\ last[1] \in 0 .. Len(meta) /\ Len(meta) \in Nat
      /\ \A i \in 1 .. last[1] :
           Piece(Frames(S, w, h), exact, meta[i].k, last[1] - i, runs[1].g, Reached(runs, 2))
  BY <1>1, <1>2, ChainIs
<1> QED BY <1>2, <1>3 DEF chain

LEMMA StepFrameGood ==
  ASSUME NEW S, NEW exact, Allowed(S, exact), NEW v, NEW g, GoodAt(S, exact, runs, meta, st, v, g),
         StepFrame
  PROVE  st'.flow = Failed \/ Good(S, exact)'
<1>1. runs # <<>> /\ st.flow = Onward /\ chain # <<>> /\ IsLocal(chain[1])
  BY DEF StepFrame, Going
<1>2. v \in Nat /\ g \in Nat /\ IsState(st, S, v, g) /\ (exact \/ AllRest(st))
  BY DEF GoodAt
<1>3. v <= v /\ g <= g
  BY <1>2
<1>4. \E last : Piece(Frames(S, v, g), exact, chain, last[1], runs[1].g, Reached(runs, 2))
  BY <1>1, <1>2, <1>3, Begins
<1>5. chain \in Seq(Frames(S, v, g))
  BY <1>4 DEF Piece
<1>6. PICK frame : frame = chain[1]
  OBVIOUS
<1>7. frame \in Frames(S, v, g) /\ IsLocal(frame)
  BY <1>1, <1>5, <1>6
<1>8. PICK stop : stop = IF "sh" \in DOMAIN chain[1] THEN Here.abort ELSE 0
  OBVIOUS
<1>9. stop \in 0 .. g
  <2>1. 0 \in 0 .. g
    BY <1>2
  <2>2. HasCtx(frame) => frame.sh.abort \in 0 .. g
    BY <1>7, Kinds DEF Contexts
  <2> QED BY <1>6, <1>8, <2>1, <2>2 DEF HasCtx, Here
<1>10. PICK a, u : StepLocal(frame, st, stop) = Pushing(a, u) /\ StepOf(S, v, g, frame, st, a, u)
  BY <1>2, <1>7, <1>9, LocalStep DEF Allowed
<1>11. PICK w \in Nat :
         /\ v <= w /\ IsState(u, S, w, g) /\ a \in Seq(Frames(S, w, g)) /\ StepsTo(frame, a)
         /\ AllRest(st) => AllRest(u)
         /\ \/ u.flow \in {st.flow, Failed}
            \/ u.flow.k = "abort" /\ ~AllRest(st)
            \/ u.flow \in Flows /\ HasCtx(frame) /\ Leads(frame.sh, u.flow) /\ ~Ends(frame, u.flow)
  BY <1>10 DEF StepOf
<1>12. PICK last :
         /\ Parted(Frames(S, w, g), exact, runs, meta, last)
         /\ Piece(Frames(S, w, g), exact, chain, last[1], runs[1].g, Reached(runs, 2))
  BY <1>1, <1>2, <1>3, <1>11, Begins
<1>13. chain[1] # ResetEnd
  BY <1>6, <1>7, Kinds DEF IsLocal
<1>14. PICK c : c = a \o Tail(chain)
  OBVIOUS
<1>15. Piece(Frames(S, w, g), exact, c, last[1], runs[1].g, Reached(runs, 2))
  BY <1>1, <1>6, <1>11, <1>12, <1>13, <1>14, PieceStep
<1>16. runs' = [runs EXCEPT ![1].chain = c] /\ st' = u /\ meta' = meta
  <2>1. PICK r : r = StepLocal(chain[1], st, IF "sh" \in DOMAIN chain[1] THEN Here.abort ELSE 0)
    OBVIOUS
  <2>2. r = Pushing(a, u)
    BY <1>6, <1>8, <1>10, <2>1
  <2>3. r.frames = a /\ r.st = u
    BY <2>2 DEF Pushing
  <2>4. GoOn(r.frames \o Tail(chain)) /\ st' = r.st /\ meta' = meta
    BY <2>1 DEF StepFrame
  <2> QED BY <1>14, <2>3, <2>4 DEF GoOn
<1>17. CASE u.flow = Failed
  BY <1>16, <1>17
<1>18. CASE u.flow # Failed
  <2>1. FlowIn(exact, u, c, Reached(runs, 2))
    <3>1. CASE u.flow = Onward
      BY <1>2, <1>11, <3>1, FlowGoesOn
    <3>2. CASE u.flow.k = "abort" /\ ~AllRest(st)
      BY <1>2, <3>2 DEF FlowIn, Flows
    <3>3. CASE u.flow \in Flows /\ HasCtx(frame) /\ Leads(frame.sh, u.flow) /\ ~Ends(frame, u.flow)
      <4>1. Covers(Tail(chain), Reached(runs, 2), u.flow)
        BY <1>1, <1>6, <1>12, <1>13, <3>3, HeadCovers
      <4>2. Tail(chain) \in Seq(Frames(S, w, g))
        BY <1>1, <1>12, TailIsDrop DEF Piece
      <4>3. Covers(c, Reached(runs, 2), u.flow)
        BY <1>11, <1>14, <4>1, <4>2, CoversJoined DEF StepsTo
      <4>4. u.flow.k # "abort"
        BY <3>3 DEF Flows
      <4> QED BY <1>2, <1>11, <4>3, <4>4 DEF FlowIn
    <3> QED BY <1>1, <1>11, <1>18, <3>1, <3>2, <3>3
  <2>2. /\ runs \in Seq(Calls(S, w, g)) /\ meta \in Seq(Infos(S, w, g)) /\ Headed(meta)
        /\ \A j \in DOMAIN runs : runs[j].g = 0 => j = Len(runs)
    BY <1>2, <1>3, <1>11, GoodParts
  <2>3. GoodAt(S, exact, [runs EXCEPT ![1].chain = c], meta, u, w, g)
    BY <1>1, <1>2, <1>11, <1>12, <1>15, <2>1, <2>2, GoesOnIn
  <2> QED BY <1>16, <2>3 DEF Good
<1> QED BY <1>17, <1>18

LEMMA ExecResetGood ==
  ASSUME NEW S, NEW exact, Allowed(S, exact), NEW v, NEW g, GoodAt(S, exact, runs, meta, st, v, g),
         ExecReset
  PROVE  Good(S, exact)'
<1>1. runs # <<>> /\ st.flow = Onward /\ ControlAt("reset")
  BY DEF ExecReset, ControlAt, Going
<1>2. v \in Nat /\ g \in Nat /\ IsState(st, S, v, g) /\ (exact \/ AllRest(st)) /\ v <= v /\ g <= g
  BY DEF GoodAt
<1>3. PICK last :
        /\ Parted(Frames(S, v, g), exact, runs, meta, last)
        /\ Piece(Frames(S, v, g), exact, chain, last[1], runs[1].g, Reached(runs, 2))
        /\ last[1] \in 0 .. Len(meta) /\ Len(meta) \in Nat
  BY <1>1, <1>2, Begins
<1>4. PICK k : k = After
  OBVIOUS
<1>5. /\ Stmt \in S /\ Stmt.t = "reset" /\ Here \in Contexts(v, g)
      /\ Piece(Frames(S, v, g), exact, k, last[1], runs[1].g, Reached(runs, 2))
      /\ k \in Seq(Frames(S, v, g)) /\ k # <<>> /\ HasCtx(k[1]) /\ k[1].sh = Here
  BY <1>1, <1>2, <1>3, <1>4, Controls DEF Allowed
<1>6. PICK sh : sh = [Here EXCEPT !.redirected = FALSE, !.loops = <<>>, !.noReturn = TRUE]
  OBVIOUS
<1>7. /\ sh \in Contexts(v, g) /\ \A flow \in Flows : ~Leads(sh, flow)
      /\ ~sh.redirected /\ (exact => sh.out = sh.abort)
  <2>1. <<>> \in Seq(Nat)
    OBVIOUS
  <2>2. /\ sh \in Contexts(v, g) /\ sh.loops = <<>> /\ sh.noReturn = TRUE
        /\ ~sh.redirected /\ sh.out = Here.out /\ sh.abort = Here.abort
    BY <1>5, <1>6, <2>1 DEF Contexts
  <2>3. exact => Here.out = Here.abort
    <3>1. Tuned(exact, k) /\ 1 \in DOMAIN k
      BY <1>5 DEF Piece
    <3> QED BY <1>5, <3>1 DEF Tuned
  <2> QED BY <2>2, <2>3 DEF Leads
<1>8. Stmt.body \in Seq(S)
  BY <1>5 DEF Allowed, Statements, Inner
<1>9. PICK z : z = Lines(sh, Stmt.body)
  OBVIOUS
<1>10. z \in Frames(S, v, g) /\ z.f = "lines" /\ z.sh = sh
  BY <1>7, <1>8, <1>9, MadeLines
<1>11. PICK a, e : a = <<z>> /\ e = <<ResetEnd>> \o k
  OBVIOUS
<1>12. a \in Seq(Frames(S, v, g)) /\ DOMAIN a = {1} /\ a[1] = z /\ z # ResetEnd
  BY <1>10, <1>11, Kinds
<1>13. Piece(Frames(S, v, g), exact, e, last[1] + 1, runs[1].g, Reached(runs, 2))
  <2>1. ResetEnd \in Frames(S, v, g)
    BY DEF Frames
  <2> QED BY <1>5, <1>11, <2>1, PieceReset
<1>14. HasReset(e, 1)
  <2>1. last[1] + 1 > 0
    BY <1>3
  <2> QED BY <1>13, <2>1 DEF Piece
<1>15. PICK c : c = a \o e
  OBVIOUS
<1>16. Piece(Frames(S, v, g), exact, c, last[1] + 1, runs[1].g, Reached(runs, 2))
  <2>1. \A i \in DOMAIN a : a[i] # ResetEnd
    BY <1>12
  <2>2. \A i \in DOMAIN a : \A flow \in Flows : ~Leads(a[i].sh, flow)
    BY <1>7, <1>10, <1>12
  <2>3. \A i \in DOMAIN a : ~a[i].sh.redirected /\ (exact => a[i].sh.out = a[i].sh.abort)
    BY <1>7, <1>10, <1>12
  <2> QED BY <1>12, <1>13, <1>14, <1>15, <2>1, <2>2, <2>3, PieceJoin
<1>17. PICK info, front : info = ResetInfo(k, Here) /\ front = <<info>>
  OBVIOUS
<1>18. /\ front \in Seq(Infos(S, v, g)) /\ Len(front) = 1 /\ DOMAIN front = {1} /\ front[1] = info
       /\ info.k = k /\ info.sh = Here
  <2>1. info \in Infos(S, v, g) /\ info.k = k /\ info.sh = Here
    BY <1>5, <1>17 DEF Infos, ResetInfo
  <2> QED BY <1>17, <2>1
<1>19. Headed(front)
  BY <1>5, <1>18 DEF Headed
<1>20. Pieces(Frames(S, v, g), exact, c, front, last[1] - 0 + Len(front), runs[1].g, Reached(runs, 2))
  <2> SUFFICES ASSUME NEW i \in 0 .. 1
               PROVE  Piece(Frames(S, v, g), exact, IF i = 0 THEN c ELSE front[i].k,
                            (last[1] - 0 + 1) - i, runs[1].g, Reached(runs, 2))
    BY <1>18 DEF Pieces
  <2>1. (last[1] - 0 + 1) - 0 = last[1] + 1 /\ (last[1] - 0 + 1) - 1 = last[1]
    BY <1>3
  <2>2. CASE i = 0
    BY <1>16, <2>1, <2>2
  <2>3. CASE i = 1
    BY <1>5, <1>18, <2>1, <2>3
  <2> QED BY <2>2, <2>3
<1>21. /\ runs \in Seq(Calls(S, v, g)) /\ meta \in Seq(Infos(S, v, g)) /\ Headed(meta)
       /\ \A j \in DOMAIN runs : runs[j].g = 0 => j = Len(runs)
  BY <1>2, GoodParts
<1>22. FlowIn(exact, st, c, Reached(runs, 2))
  BY <1>1, <1>2, FlowGoesOn
<1>23. 0 \in Nat /\ 0 <= last[1]
  BY <1>3
<1>24. GoodAt(S, exact, [runs EXCEPT ![1].chain = c], front \o Drop(meta, 0), st, v, g)
  BY <1>1, <1>2, <1>3, <1>18, <1>19, <1>20, <1>21, <1>22, <1>23, GoesOn
<1>25. Drop(meta, 0) = meta
  BY <1>21, DropNone
<1>26. runs' = [runs EXCEPT ![1].chain = <<z, ResetEnd>> \o k] /\ meta' = front \o meta /\ st' = st
  BY <1>4, <1>6, <1>9, <1>17 DEF ExecReset, GoOn
<1>27. <<z, ResetEnd>> \o k = c
  BY <1>5, <1>11, <1>15
<1> QED BY <1>24, <1>25, <1>26, <1>27 DEF Good

LEMMA StepResetEndGood ==
  ASSUME NEW S, NEW exact, Allowed(S, exact), NEW v, NEW g, GoodAt(S, exact, runs, meta, st, v, g),
         StepResetEnd
  PROVE  Good(S, exact)'
<1>1. runs # <<>> /\ st.flow = Onward /\ chain # <<>> /\ chain[1] = ResetEnd
  BY DEF StepResetEnd, Going
<1>2. v \in Nat /\ g \in Nat /\ IsState(st, S, v, g) /\ (exact \/ AllRest(st)) /\ v <= v /\ g <= g
  BY DEF GoodAt
<1>3. PICK last :
        /\ Parted(Frames(S, v, g), exact, runs, meta, last)
        /\ Piece(Frames(S, v, g), exact, chain, last[1], runs[1].g, Reached(runs, 2))
        /\ last[1] \in 0 .. Len(meta) /\ Len(meta) \in Nat
        /\ \A i \in 1 .. last[1] :
             Piece(Frames(S, v, g), exact, meta[i].k, last[1] - i, runs[1].g, Reached(runs, 2))
  BY <1>1, <1>2, Begins
<1>4. last[1] >= 1
  <2>1. chain \in Seq(Frames(S, v, g)) /\ 1 \in DOMAIN chain
    BY <1>1, <1>3 DEF Piece
  <2>2. HasReset(chain, 1)
    BY <1>1, <2>1, 1 >= 1 DEF HasReset
  <2> QED BY <1>3, <2>2 DEF Piece
<1>5. PICK c : c = meta[1].k
  OBVIOUS
<1>6. Piece(Frames(S, v, g), exact, c, last[1] - 1, runs[1].g, Reached(runs, 2))
  BY <1>3, <1>4, <1>5
<1>7. PICK front : front = <<>>
  OBVIOUS
<1>8. front \in Seq(Infos(S, v, g)) /\ Headed(front) /\ Len(front) = 0
  BY <1>7 DEF Headed
<1>9. Pieces(Frames(S, v, g), exact, c, front, last[1] - 1 + Len(front), runs[1].g, Reached(runs, 2))
  <2> SUFFICES ASSUME NEW i \in 0 .. 0
               PROVE  Piece(Frames(S, v, g), exact, IF i = 0 THEN c ELSE front[i].k,
                            (last[1] - 1 + 0) - i, runs[1].g, Reached(runs, 2))
    BY <1>8 DEF Pieces
  <2>1. (last[1] - 1 + 0) - i = last[1] - 1 /\ i = 0
    BY <1>3
  <2> QED BY <1>6, <2>1
<1>10. /\ runs \in Seq(Calls(S, v, g)) /\ meta \in Seq(Infos(S, v, g)) /\ Headed(meta)
       /\ \A j \in DOMAIN runs : runs[j].g = 0 => j = Len(runs)
  BY <1>2, GoodParts
<1>11. FlowIn(exact, st, c, Reached(runs, 2))
  BY <1>1, <1>2, FlowGoesOn
<1>12. GoodAt(S, exact, [runs EXCEPT ![1].chain = c], front \o Drop(meta, 1), st, v, g)
  BY <1>1, <1>2, <1>3, <1>4, <1>8, <1>9, <1>10, <1>11, 1 \in Nat, GoesOn
<1>13. front \o Drop(meta, 1) = Tail(meta)
  <2>1. meta # <<>>
    BY <1>3, <1>4, <1>10
  <2>2. Tail(meta) = Drop(meta, 1) /\ Tail(meta) \in Seq(Infos(S, v, g))
    BY <1>10, <2>1, TailIsDrop
  <2> QED BY <1>7, <2>2, EmptyJoin
<1>14. runs' = [runs EXCEPT ![1].chain = c] /\ meta' = Tail(meta) /\ st' = st
  BY <1>5 DEF StepResetEnd, GoOn
<1> QED BY <1>12, <1>13, <1>14 DEF Good

\* The frames up to the end of a reset are saved as a continuation.
LEMMA SavedIs ==
  ASSUME NEW F, NEW k \in Seq(F), HasReset(k, 1), NEW out, Scoped(k, out),
         NEW exact, Tuned(exact, k)
  PROVE  Saved(k)
<1>1. PICK n \in DOMAIN k : /\ k[n] = ResetEnd /\ UpToReset(k) = SubSeq(k, 1, n)
                            /\ \A m \in 1 .. n - 1 : k[m] # ResetEnd
  BY UpTo
<1>2. PICK e : e = SubSeq(k, 1, n)
  OBVIOUS
<1>3. /\ DOMAIN k = 1 .. Len(k) /\ Len(k) \in Nat /\ n \in 1 .. Len(k)
      /\ DOMAIN e = 1 .. n /\ \A j \in 1 .. n : e[j] = k[j]
  BY <1>1, <1>2
<1>4. ASSUME NEW i \in DOMAIN e, NEW flow \in Flows, HasCtx(e[i]), Leads(e[i].sh, flow)
      PROVE  ReachIn(e, i, flow)
  <2>1. i \in DOMAIN k /\ e[i] = k[i] /\ n >= i
    BY <1>3
  <2>2. HasReset(k, i)
    BY <1>1, <2>1 DEF HasReset
  <2>3. ReachIn(k, i, flow)
    BY <1>4, <2>1, <2>2 DEF Scoped
  <2>4. PICK m \in DOMAIN k : m >= i /\ Ends(k[m], flow) /\ \A x \in i .. m : k[x] # ResetEnd
    BY <2>3 DEF ReachIn
  <2>5. m < n
    <3> SUFFICES ASSUME m >= n PROVE FALSE
      BY <1>3
    <3>1. n \in i .. m
      BY <1>3, <2>1
    <3> QED BY <1>1, <2>4, <3>1
  <2>6. m \in DOMAIN e /\ e[m] = k[m] /\ \A x \in i .. m : x \in 1 .. n
    BY <1>3, <2>1, <2>5
  <2>7. \A x \in i .. m : e[x] = k[x]
    BY <1>3, <2>6
  <2> QED BY <2>4, <2>6, <2>7 DEF ReachIn
<1>5. Scoped(e, {})
  BY <1>4 DEF Scoped
<1>6. Straight(e)
  <2> SUFFICES ASSUME NEW i \in DOMAIN e, HasCtx(e[i]) PROVE ~e[i].sh.redirected
    BY DEF Straight
  <2>1. i \in DOMAIN k /\ e[i] = k[i] /\ n >= i
    BY <1>3
  <2>2. HasReset(k, i)
    BY <1>1, <2>1 DEF HasReset
  <2> QED BY <2>1, <2>2 DEF Tuned
<1> QED BY <1>1, <1>2, <1>5, <1>6 DEF Saved

LEMMA FailsGood ==
  ASSUME NEW S, NEW v, NEW g, IsState(st, S, v, g), Fails
  PROVE  st'.flow = Failed
  BY DEF Fails, IsState, States

LEMMA ExecShiftGood ==
  ASSUME NEW S, NEW exact, Allowed(S, exact), NEW v, NEW g, GoodAt(S, exact, runs, meta, st, v, g),
         ExecShift
  PROVE  st'.flow = Failed \/ Good(S, exact)'
<1>1. runs # <<>> /\ st.flow = Onward /\ ControlAt("shift")
  BY DEF ExecShift, ControlAt, Going
<1>2. v \in Nat /\ g \in Nat /\ IsState(st, S, v, g) /\ (exact \/ AllRest(st)) /\ v <= v /\ g <= g
  BY DEF GoodAt
<1>3. CASE meta = <<>> \/ Here.redirected
  <2>1. Fails
    BY <1>3 DEF ExecShift
  <2> QED BY <1>2, <2>1, FailsGood
<1>4. CASE ~(meta = <<>> \/ Here.redirected)
  <2>1. PICK last :
          /\ Parted(Frames(S, v, g), exact, runs, meta, last)
          /\ Piece(Frames(S, v, g), exact, chain, last[1], runs[1].g, Reached(runs, 2))
          /\ last[1] \in 0 .. Len(meta) /\ Len(meta) \in Nat
          /\ \A i \in 1 .. last[1] :
               Piece(Frames(S, v, g), exact, meta[i].k, last[1] - i, runs[1].g, Reached(runs, 2))
    BY <1>1, <1>2, Begins
  <2>2. PICK k : k = After
    OBVIOUS
  <2>3. /\ Stmt \in S /\ Stmt.t = "shift" /\ Here \in Contexts(v, g)
        /\ Piece(Frames(S, v, g), exact, k, last[1], runs[1].g, Reached(runs, 2))
        /\ k \in Seq(Frames(S, v, g)) /\ chain \in Seq(Frames(S, v, g)) /\ HasCtx(chain[1])
    BY <1>1, <1>2, <2>1, <2>2, Controls DEF Allowed
  <2>4. /\ runs \in Seq(Calls(S, v, g)) /\ meta \in Seq(Infos(S, v, g)) /\ Headed(meta)
        /\ \A j \in DOMAIN runs : runs[j].g = 0 => j = Len(runs)
    BY <1>2, GoodParts
  <2>5. 1 \in DOMAIN meta /\ meta[1] \in Infos(S, v, g) /\ 1 \in DOMAIN runs /\ Len(runs) \in Nat
    BY <1>1, <1>4, <2>4
  \* There is a reset in this run: else the statement is redirected, or this is
  \* the outermost run and meta is empty.
  <2>6. last[1] >= 1
    <3> SUFFICES ASSUME last[1] = 0 PROVE FALSE
      BY <2>1
    <3>1. ~HasReset(chain, 1) /\ 1 \in DOMAIN chain
      <4>1. ~HasReset(chain, 1)
        BY <2>1 DEF Piece
      <4>2. chain # <<>>
        BY <1>1 DEF ControlAt
      <4> QED BY <2>3, <4>1, <4>2
    <3>2. CASE runs[1].g # 0
      <4>1. chain[1].sh.redirected
        BY <2>1, <2>3, <3>1, <3>2 DEF Piece, Marked
      <4> QED BY <1>4, <4>1 DEF Here
    <3>3. CASE runs[1].g = 0
      <4>1. Len(runs) = 1
        BY <2>4, <2>5, <3>3
      <4>2. last[1] = Len(meta)
        BY <2>1, <4>1 DEF Parted, Division
      <4> QED BY <1>4, <2>4, <4>2
    <3> QED BY <3>2, <3>3
  <2>7. PICK mk : mk = meta[1].k
    OBVIOUS
  <2>8. /\ Piece(Frames(S, v, g), exact, mk, last[1] - 1, runs[1].g, Reached(runs, 2))
        /\ mk \in Seq(Frames(S, v, g)) /\ mk # <<>> /\ HasCtx(mk[1]) /\ mk[1].sh = meta[1].sh
        /\ meta[1].sh \in Contexts(v, g) /\ 1 \in DOMAIN mk
    <3>1. Piece(Frames(S, v, g), exact, mk, last[1] - 1, runs[1].g, Reached(runs, 2))
      BY <2>1, <2>6, <2>7
    <3>2. mk \in Seq(Frames(S, v, g)) /\ meta[1].sh \in Contexts(v, g)
      BY <2>5, <2>7 DEF Infos
    <3>3. mk # <<>> /\ HasCtx(mk[1]) /\ mk[1].sh = meta[1].sh
      BY <2>4, <2>5, <2>7 DEF Headed
    <3> QED BY <3>1, <3>2, <3>3
  <2>9. Saved(k)
    <3>1. HasReset(k, 1) /\ Scoped(k, Reached(runs, 2)) /\ Tuned(exact, k)
      BY <2>1, <2>3, <2>6 DEF Piece
    <3> QED BY <2>3, <3>1, SavedIs
  <2>10. PICK cont : cont = Cont(k, Here.vars)
    OBVIOUS
  <2>11. cont \in Conts(S, v, g) /\ Here.vars \in 1 .. v
    <3>1. Here.vars \in 1 .. v
      BY <2>3 DEF Contexts
    <3> QED BY <2>3, <2>9, <2>10, <3>1 DEF Cont, Conts
  <2>12. PICK y : y = [st.vars[Here.vars] EXCEPT !.k = <<cont>>]
    OBVIOUS
  <2>13. y \in Locals(S, v, g)
    <3>1. st.vars[Here.vars] \in Locals(S, v, g)
      BY <1>2, <2>11, LocalTypes
    <3>2. <<cont>> \in Seq(Conts(S, v, g))
      BY <2>11
    <3> QED BY <2>12, <3>1, <3>2 DEF Locals
  <2>14. Stmt.body \in Seq(S)
    BY <2>3 DEF Allowed, Statements, Inner
  <2>15. PICK a, u : /\ FuncPush(st, meta[1].sh, y, Stmt.body) = Pushing(a, u)
                     /\ IsState(u, S, v + 1, g) /\ u.groups = st.groups /\ u.flow = st.flow
                     /\ a \in Seq(Frames(S, v + 1, g)) /\ Closed(meta[1].sh, a)
    BY <1>2, <2>8, <2>13, <2>14, Pushes
  <2>16. PICK w : w = v + 1
    OBVIOUS
  <2>17. w \in Nat /\ v <= w /\ IsState(u, S, w, g) /\ a \in Seq(Frames(S, w, g))
    BY <1>2, <2>15, <2>16
  <2>18. PICK l :
           /\ Parted(Frames(S, w, g), exact, runs, meta, l)
           /\ Piece(Frames(S, w, g), exact, chain, l[1], runs[1].g, Reached(runs, 2))
           /\ l[1] \in 0 .. Len(meta) /\ Len(meta) \in Nat
           /\ \A i \in 1 .. l[1] :
                Piece(Frames(S, w, g), exact, meta[i].k, l[1] - i, runs[1].g, Reached(runs, 2))
    BY <1>1, <1>2, <2>17, Begins
  <2>19. l[1] >= 1
    <3>1. HasReset(chain, 1)
      BY <2>1, <2>6 DEF Piece
    <3> QED BY <2>18, <3>1 DEF Piece
  <2>20. Piece(Frames(S, w, g), exact, mk, l[1] - 1, runs[1].g, Reached(runs, 2))
    BY <2>7, <2>18, <2>19
  <2>21. PICK c : c = a \o mk
    OBVIOUS
  <2>22. Piece(Frames(S, w, g), exact, c, l[1] - 1, runs[1].g, Reached(runs, 2))
    <3>1. \A i \in DOMAIN a : a[i] # ResetEnd
      BY <2>15 DEF Closed
    <3>2. \A i \in DOMAIN a : \A flow \in Flows :
            HasCtx(a[i]) /\ Leads(a[i].sh, flow) => \E m \in DOMAIN a : m >= i /\ Ends(a[m], flow)
      BY <2>15 DEF Closed
    <3>3. runs[1].g # 0 /\ ~HasReset(mk, 1) => mk[1].sh.redirected
      BY <2>8 DEF Piece, Marked
    <3>4. runs[1].g # 0 /\ ~HasReset(mk, 1) => \A i \in DOMAIN a : HasCtx(a[i]) => a[i].sh.redirected
      BY <2>8, <2>15, <3>3 DEF Closed, Alike
    <3>5. /\ HasReset(mk, 1) => ~mk[1].sh.redirected
          /\ exact => mk[1].sh.out = mk[1].sh.abort
      <4>1. Tuned(exact, mk)
        BY <2>8 DEF Piece
      <4> QED BY <2>8, <4>1 DEF Tuned
    <3>6. \A i \in DOMAIN a : HasCtx(a[i]) =>
            /\ HasReset(mk, 1) => ~a[i].sh.redirected
            /\ exact => a[i].sh.out = a[i].sh.abort
      BY <2>8, <2>15, <3>5 DEF Closed, Alike
    <3> QED BY <2>17, <2>20, <2>21, <3>1, <3>2, <3>4, <3>6, PieceJoin
  <2>23. PICK front : front = <<>>
    OBVIOUS
  <2>24. front \in Seq(Infos(S, w, g)) /\ Headed(front) /\ Len(front) = 0
    BY <2>23 DEF Headed
  <2>25. Pieces(Frames(S, w, g), exact, c, front, l[1] - 1 + Len(front), runs[1].g, Reached(runs, 2))
    <3> SUFFICES ASSUME NEW i \in 0 .. 0
                 PROVE  Piece(Frames(S, w, g), exact, IF i = 0 THEN c ELSE front[i].k,
                              (l[1] - 1 + 0) - i, runs[1].g, Reached(runs, 2))
      BY <2>24 DEF Pieces
    <3>1. (l[1] - 1 + 0) - i = l[1] - 1 /\ i = 0
      BY <2>18
    <3> QED BY <2>22, <3>1
  <2>26. /\ runs \in Seq(Calls(S, w, g)) /\ meta \in Seq(Infos(S, w, g))
    BY <1>2, <2>17, GoodParts
  <2>27. FlowIn(exact, u, c, Reached(runs, 2))
    <3>1. AllRest(st) => AllRest(u)
      BY <2>15 DEF AllRest
    <3> QED BY <1>1, <1>2, <2>15, <3>1, FlowGoesOn
  <2>28. GoodAt(S, exact, [runs EXCEPT ![1].chain = c], front \o Drop(meta, 1), u, w, g)
    BY <1>1, <1>2, <2>4, <2>17, <2>18, <2>19, <2>24, <2>25, <2>26, <2>27, 1 \in Nat, GoesOn
  <2>29. front \o Drop(meta, 1) = Tail(meta)
    <3>1. Tail(meta) = Drop(meta, 1) /\ Tail(meta) \in Seq(Infos(S, v, g))
      BY <1>4, <2>4, TailIsDrop
    <3> QED BY <2>23, <3>1, EmptyJoin
  <2>30. runs' = [runs EXCEPT ![1].chain = c] /\ meta' = Tail(meta) /\ st' = u
    <3>1. PICK r : r = FuncPush(st, meta[1].sh,
                                [st.vars[Here.vars] EXCEPT !.k = <<Cont(After, Here.vars)>>], Stmt.body)
      OBVIOUS
    <3>2. r = Pushing(a, u)
      BY <2>2, <2>10, <2>12, <2>15, <3>1
    <3>3. r.frames = a /\ r.st = u
      BY <3>2 DEF Pushing
    <3>4. GoOn(r.frames \o meta[1].k) /\ st' = r.st /\ meta' = Tail(meta)
      BY <1>4, <3>1 DEF ExecShift
    <3> QED BY <2>7, <2>21, <3>3, <3>4 DEF GoOn
  <2> QED BY <2>28, <2>29, <2>30 DEF Good
<1> QED BY <1>3, <1>4

SameBut(S, v, g, r, frame) ==
  /\ r \in Frames(S, v, g)
  /\ r = ResetEnd <=> frame = ResetEnd
  /\ HasCtx(r) <=> HasCtx(frame)
  /\ \A flow : Ends(r, flow) <=> Ends(frame, flow)
  /\ HasCtx(frame) => \A flow : Leads(r.sh, flow) <=> Leads(frame.sh, flow)
  /\ HasCtx(frame) => r.sh.redirected = frame.sh.redirected

LEMMA RetargetIs ==
  ASSUME NEW S, NEW v, NEW g, NEW frame \in Frames(S, v, g), NEW out \in 0 .. g,
         NEW r, r = Retarget(frame, out)
  PROVE  SameBut(S, v, g, r, frame)
<1>1. CASE ~HasCtx(frame)
  <2>1. r = frame
    BY <1>1 DEF Retarget, HasCtx
  <2> QED BY <1>1, <2>1 DEF SameBut
<1>2. CASE HasCtx(frame)
  <2>1. PICK sh : sh = [frame.sh EXCEPT !.out = out]
    OBVIOUS
  <2>2. frame.sh \in Contexts(v, g) /\ frame.f \in {"lines", "if", "for"}
    BY <1>2, Kinds
  <2>3. /\ sh \in Contexts(v, g) /\ sh.ret = frame.sh.ret /\ sh.noReturn = frame.sh.noReturn
        /\ sh.loops = frame.sh.loops /\ sh.redirected = frame.sh.redirected
    BY <2>1, <2>2 DEF Contexts
  <2>4. r = [frame EXCEPT !.sh = sh]
    <3>1. Retarget(frame, out) = [frame EXCEPT !.sh.out = out]
      BY <1>2 DEF Retarget, HasCtx
    <3> QED BY <1>2, <2>1, <3>1 DEF HasCtx
  <2>5. r \in Frames(S, v, g) /\ r.sh = sh /\ r.f = frame.f /\ (frame.f = "for" => r.id = frame.id)
    <3>1. CASE frame \in LineFrames(S, v, g)
      <4>1. r \in LineFrames(S, v, g) /\ r.sh = sh /\ r.f = frame.f /\ frame.f = "lines"
        BY <2>3, <2>4, <3>1 DEF LineFrames
      <4> QED BY <4>1 DEF Frames
    <3>2. CASE frame \in IfFrames(S, v, g)
      <4>1. r \in IfFrames(S, v, g) /\ r.sh = sh /\ r.f = frame.f /\ frame.f = "if"
        BY <2>3, <2>4, <3>2 DEF IfFrames
      <4> QED BY <4>1 DEF Frames
    <3>3. CASE frame \in ForFrames(S, v, g)
      <4>1. r \in ForFrames(S, v, g) /\ r.sh = sh /\ r.f = frame.f /\ r.id = frame.id
        BY <2>3, <2>4, <3>3 DEF ForFrames
      <4> QED BY <4>1 DEF Frames
    <3> QED BY <2>2, <3>1, <3>2, <3>3, Kinds
  <2>6. HasCtx(r) /\ r # ResetEnd /\ frame # ResetEnd
    BY <2>2, <2>5, Kinds
  <2>7. \A flow : Ends(r, flow) <=> Ends(frame, flow)
    BY <2>2, <2>5 DEF Ends
  <2>8. \A flow : Leads(r.sh, flow) <=> Leads(frame.sh, flow)
    BY <2>3, <2>5 DEF Leads
  <2> QED BY <1>2, <2>3, <2>5, <2>6, <2>7, <2>8 DEF SameBut
<1> QED BY <1>1, <1>2

LEMMA RetargetedIs ==
  ASSUME NEW S, NEW v, NEW g, NEW e \in Seq(Frames(S, v, g)), NEW out \in 0 .. g,
         NEW r, r = Retargeted(e, out)
  PROVE  /\ r \in Seq(Frames(S, v, g)) /\ DOMAIN r = DOMAIN e
         /\ \A n \in DOMAIN e : r[n] = ResetEnd <=> e[n] = ResetEnd
         /\ \A to : Scoped(e, to) => Scoped(r, to)
         /\ Straight(e) => Straight(r)
<1>1. DOMAIN r = DOMAIN e /\ DOMAIN e = 1 .. Len(e) /\ Len(e) \in Nat
      /\ \A n \in DOMAIN e : e[n] \in Frames(S, v, g) /\ r[n] = Retarget(e[n], out)
  BY DEF Retargeted
<1>2. ASSUME NEW n \in DOMAIN e
      PROVE  /\ r[n] \in Frames(S, v, g)
             /\ r[n] = ResetEnd <=> e[n] = ResetEnd
             /\ HasCtx(r[n]) <=> HasCtx(e[n])
             /\ \A flow : Ends(r[n], flow) <=> Ends(e[n], flow)
             /\ HasCtx(e[n]) => \A flow : Leads(r[n].sh, flow) <=> Leads(e[n].sh, flow)
             /\ HasCtx(e[n]) => r[n].sh.redirected = e[n].sh.redirected
  <2>1. PICK x, z : x = e[n] /\ z = r[n]
    OBVIOUS
  <2>2. x \in Frames(S, v, g) /\ z = Retarget(x, out) /\ out \in 0 .. g
    BY <1>1, <2>1
  <2>3. SameBut(S, v, g, z, x)
    BY ONLY <2>2, RetargetIs
  <2> QED BY <2>1, <2>3 DEF SameBut
<1>3. r \in Seq(Frames(S, v, g))
  <2>1. r = [n \in 1 .. Len(e) |-> r[n]]
    BY <1>1 DEF Retargeted
  <2>2. \A n \in 1 .. Len(e) : r[n] \in Frames(S, v, g)
    BY <1>1, <1>2
  <2>3. r \in [1 .. Len(e) -> Frames(S, v, g)]
    BY <2>1, <2>2
  <2> QED BY <1>1, <2>3
<1>4. \A n \in DOMAIN e : r[n] = ResetEnd <=> e[n] = ResetEnd
  BY <1>2
<1>5. \A n \in DOMAIN e : \A flow : Ends(r[n], flow) <=> Ends(e[n], flow)
  BY <1>2
<1>6. ASSUME NEW n \in DOMAIN e PROVE HasReset(r, n) => HasReset(e, n)
  BY <1>1, <1>4 DEF HasReset
<1>7. ASSUME NEW n \in DOMAIN e, NEW flow, ReachIn(e, n, flow) PROVE ReachIn(r, n, flow)
  <2>1. PICK m \in DOMAIN e : m >= n /\ Ends(e[m], flow) /\ \A x \in n .. m : e[x] # ResetEnd
    BY <1>7 DEF ReachIn
  <2>2. \A x \in n .. m : x \in DOMAIN e
    BY <1>1, <2>1
  <2>3. Ends(r[m], flow) /\ \A x \in n .. m : r[x] # ResetEnd
    BY <1>4, <1>5, <2>1, <2>2
  <2> QED BY <1>1, <2>1, <2>3 DEF ReachIn
<1>8. ASSUME NEW n \in DOMAIN e PROVE HasReset(e, n) => HasReset(r, n)
  BY <1>1, <1>4 DEF HasReset
<1>9. ASSUME NEW to, Scoped(e, to) PROVE Scoped(r, to)
  <2> SUFFICES ASSUME NEW n \in DOMAIN e, NEW flow \in Flows, HasCtx(r[n]), Leads(r[n].sh, flow)
               PROVE  ReachIn(r, n, flow) \/ (~HasReset(r, n) /\ flow \in to)
    BY <1>1 DEF Scoped
  <2>1. HasCtx(e[n]) /\ Leads(e[n].sh, flow)
    BY <1>2
  <2>2. ReachIn(e, n, flow) \/ (~HasReset(e, n) /\ flow \in to)
    BY <1>9, <2>1 DEF Scoped
  <2> QED BY <1>6, <1>7, <2>2
<1>10. Straight(e) => Straight(r)
  BY <1>1, <1>2, <1>6 DEF Straight
<1> QED BY <1>1, <1>2, <1>3, <1>9, <1>10

\* A continuation with the outputs of its call is a Chain that ends at a reset.
LEMMA PieceCalled ==
  ASSUME NEW S, NEW v, NEW g, NEW frames \in Seq(Frames(S, v, g)), Saved(frames),
         NEW to \in 0 .. g, NEW r, r = Retargeted(UpToReset(frames), to),
         NEW exact, ~exact, NEW q \in Nat, q > 0, NEW gr, NEW out
  PROVE  Piece(Frames(S, v, g), exact, r, q, gr, out)
<1>1. PICK n \in DOMAIN frames : frames[n] = ResetEnd /\ UpToReset(frames) = SubSeq(frames, 1, n)
  BY UpTo DEF Saved
<1>2. PICK e : e = SubSeq(frames, 1, n)
  OBVIOUS
<1>3. /\ e \in Seq(Frames(S, v, g)) /\ DOMAIN e = 1 .. n /\ e[n] = ResetEnd /\ n \in Nat /\ n >= 1
  BY <1>1, <1>2
<1>4. Scoped(e, {}) /\ Straight(e) /\ r = Retargeted(e, to)
  BY <1>1, <1>2 DEF Saved
<1>5. /\ r \in Seq(Frames(S, v, g)) /\ DOMAIN r = 1 .. n /\ r[n] = ResetEnd /\ Scoped(r, {})
      /\ Straight(r)
  <2>1. /\ r \in Seq(Frames(S, v, g)) /\ DOMAIN r = DOMAIN e
        /\ \A m \in DOMAIN e : r[m] = ResetEnd <=> e[m] = ResetEnd
        /\ \A out1 : Scoped(e, out1) => Scoped(r, out1)
        /\ Straight(e) => Straight(r)
    BY ONLY <1>3, <1>4, to \in 0 .. g, RetargetedIs
  <2> QED BY <1>3, <1>4, <2>1
<1>6. \A i \in DOMAIN r : HasReset(r, i)
  BY <1>3, <1>5 DEF HasReset
<1>7. HasReset(r, 1)
  BY <1>3, <1>5, <1>6
<1>8. Scoped(r, out) /\ Marked(r) /\ Tuned(exact, r)
  BY <1>5, <1>6 DEF Scoped, Marked, Straight, Tuned
<1> QED BY <1>5, <1>7, <1>8 DEF Piece

LEMMA ContCallGood ==
  ASSUME NEW S, NEW exact, Allowed(S, exact), NEW v, NEW g, GoodAt(S, exact, runs, meta, st, v, g),
         ContCall
  PROVE  st'.flow = Failed \/ Good(S, exact)'
<1>1. runs # <<>> /\ st.flow = Onward /\ ControlAt("resume")
  BY Zenon DEF ContCall, ControlAt, Going
<1>2. v \in Nat /\ g \in Nat /\ IsState(st, S, v, g) /\ (exact \/ AllRest(st)) /\ v <= v /\ g <= g
  BY DEF GoodAt
<1>3. CASE st.vars[Here.vars].k = <<>>
  <2>1. Fails
    BY <1>3 DEF ContCall
  <2> QED BY <1>2, <2>1, FailsGood
<1>4. CASE st.vars[Here.vars].k # <<>>
  <2>1. PICK last :
          /\ Parted(Frames(S, v, g), exact, runs, meta, last)
          /\ Piece(Frames(S, v, g), exact, chain, last[1], runs[1].g, Reached(runs, 2))
          /\ last[1] \in 0 .. Len(meta) /\ Len(meta) \in Nat
    BY <1>1, <1>2, Begins
  <2>2. PICK k : k = After
    OBVIOUS
  <2>3. /\ Stmt \in S /\ Stmt.t = "resume" /\ Here \in Contexts(v, g)
        /\ Piece(Frames(S, v, g), exact, k, last[1], runs[1].g, Reached(runs, 2))
        /\ k \in Seq(Frames(S, v, g)) /\ k # <<>> /\ HasCtx(k[1]) /\ k[1].sh = Here
    BY <1>1, <1>2, <2>1, <2>2, Controls DEF Allowed
  <2>4. ~exact /\ Stmt.v \in Int
    BY <2>3 DEF Allowed, NoResume, Statements
  <2>5. PICK cont : cont = st.vars[Here.vars].k[1]
    OBVIOUS
  <2>6. Here.vars \in 1 .. v /\ Here.out \in 0 .. g
    BY <2>3 DEF Contexts
  <2>7. cont \in Conts(S, v, g)
    <3>1. st.vars[Here.vars].k \in Seq(Conts(S, v, g))
      BY <1>2, <2>6, LocalTypes
    <3> QED BY <1>4, <2>5, <3>1
  <2>8. cont.frames \in Seq(Frames(S, v, g)) /\ Saved(cont.frames) /\ cont.vars \in 1 .. v
    BY <2>7 DEF Conts
  <2>9. PICK c : c = Retargeted(UpToReset(cont.frames), Here.out)
    OBVIOUS
  <2>10. Piece(Frames(S, v, g), exact, c, last[1] + 1, runs[1].g, Reached(runs, 2))
    <3>1. last[1] + 1 \in Nat /\ last[1] + 1 > 0
      BY <2>1
    <3> QED BY <2>4, <2>6, <2>8, <2>9, <3>1, PieceCalled
  <2>11. PICK info, front : info = ResetInfo(k, Here) /\ front = <<info>>
    OBVIOUS
  <2>12. /\ front \in Seq(Infos(S, v, g)) /\ Len(front) = 1 /\ DOMAIN front = {1} /\ front[1] = info
         /\ info.k = k /\ info.sh = Here
    <3>1. info \in Infos(S, v, g) /\ info.k = k /\ info.sh = Here
      BY <2>3, <2>11 DEF Infos, ResetInfo
    <3> QED BY <2>11, <3>1
  <2>13. Headed(front)
    BY <2>3, <2>12 DEF Headed
  <2>14. Pieces(Frames(S, v, g), exact, c, front, last[1] - 0 + Len(front), runs[1].g, Reached(runs, 2))
    <3> SUFFICES ASSUME NEW i \in 0 .. 1
                 PROVE  Piece(Frames(S, v, g), exact, IF i = 0 THEN c ELSE front[i].k,
                              (last[1] - 0 + 1) - i, runs[1].g, Reached(runs, 2))
      BY <2>12 DEF Pieces
    <3>1. (last[1] - 0 + 1) - 0 = last[1] + 1 /\ (last[1] - 0 + 1) - 1 = last[1]
      BY <2>1
    <3>2. CASE i = 0
      BY <2>10, <3>1, <3>2
    <3>3. CASE i = 1
      BY <2>3, <2>12, <3>1, <3>3
    <3> QED BY <3>2, <3>3
  <2>15. PICK t : t = [st EXCEPT !.vars[cont.vars].i = Stmt.v]
    OBVIOUS
  <2>16. IsState(t, S, v, g) /\ t.groups = st.groups /\ t.flow = st.flow
    BY <1>2, <2>4, <2>8, <2>15, SetsItem
  <2>17. PICK u : u = [t EXCEPT !.status = 0]
    OBVIOUS
  <2>18. IsState(u, S, v, g) /\ u.groups = st.groups /\ u.flow = st.flow
    BY <1>2, <2>16, <2>17, 0 \in Int, SetsStatus
  <2>19. /\ runs \in Seq(Calls(S, v, g)) /\ meta \in Seq(Infos(S, v, g)) /\ Headed(meta)
         /\ \A j \in DOMAIN runs : runs[j].g = 0 => j = Len(runs)
    BY <1>2, GoodParts
  <2>20. FlowIn(exact, u, c, Reached(runs, 2))
    <3>1. AllRest(st) => AllRest(u)
      BY <2>18 DEF AllRest
    <3> QED BY <1>1, <1>2, <2>18, <3>1, FlowGoesOn
  <2>21. 0 \in Nat /\ 0 <= last[1]
    BY <2>1
  <2>22. GoodAt(S, exact, [runs EXCEPT ![1].chain = c], front \o Drop(meta, 0), u, v, g)
    BY <1>1, <1>2, <2>1, <2>12, <2>13, <2>14, <2>18, <2>19, <2>20, <2>21, GoesOn, Zenon
  <2>23. Drop(meta, 0) = meta
    BY <2>19, DropNone
  <2>24. runs' = [runs EXCEPT ![1].chain = c] /\ meta' = front \o meta /\ st' = u
    BY <1>4, <2>2, <2>5, <2>9, <2>11, <2>15, <2>17, Zenon DEF ContCall, GoOn, Status
  <2> QED BY <2>22, <2>23, <2>24 DEF Good
<1> QED BY <1>3, <1>4, Zenon

\* A run is put in front, with no entries of meta.
LEMMA Pushed ==
  ASSUME NEW F, NEW exact, NEW R, NEW rs \in Seq(R), NEW r \in R, NEW M, NEW mt \in Seq(M), NEW last,
         Parted(F, exact, rs, mt, last), Piece(F, exact, r.chain, 0, r.g, Reached(rs, 1))
  PROVE  \E l : Parted(F, exact, <<r>> \o rs, mt, l)
<1>1. PICK t, N, L : t = <<r>> \o rs /\ N = Len(rs) /\ L = Len(mt)
  OBVIOUS
<1>2. /\ N \in Nat /\ L \in Nat /\ N + 1 \in Nat /\ Len(t) = N + 1 /\ t[1] = r
      /\ \A j \in 2 .. N + 1 : t[j] = rs[j - 1]
  BY <1>1
<1>3. /\ last \in [0 .. N -> 0 .. L] /\ last[0] = 0 /\ last[N] = L
      /\ \A i, j \in 0 .. N : i <= j => last[i] <= last[j]
  BY <1>1 DEF Parted, Division
<1>4. ASSUME NEW j \in 1 .. N, NEW i \in last[j - 1] .. last[j]
      PROVE  Piece(F, exact, Chained(rs, mt, last, j, i), last[j] - i, rs[j].g, Reached(rs, j + 1))
  BY <1>1 DEF Parted
<1>5. PICK l : l = [j \in 0 .. N + 1 |-> IF j = 0 THEN 0 ELSE last[j - 1]]
  OBVIOUS
<1>6. /\ l[0] = 0 /\ l[1] = 0 /\ l[N + 1] = L /\ 0 \in 0 .. L
      /\ \A j \in 1 .. N + 1 : l[j] = last[j - 1] /\ j - 1 \in 0 .. N /\ last[j - 1] \in 0 .. L
  BY <1>2, <1>3, <1>5
<1>7. l \in [0 .. N + 1 -> 0 .. L]
  <2>1. ASSUME NEW j \in 0 .. N + 1 PROVE l[j] \in 0 .. L
    <3>1. j = 0 \/ j \in 1 .. N + 1
      BY <1>2
    <3> QED BY <1>6, <3>1
  <2> QED BY <1>5, <2>1
<1>8. ASSUME NEW i \in 0 .. N + 1, NEW j \in 0 .. N + 1, i <= j PROVE l[i] <= l[j]
  <2>1. CASE i = 0
    <3>1. l[j] \in 0 .. L
      BY <1>7
    <3> QED BY <1>2, <1>6, <2>1, <3>1
  <2>2. CASE i # 0
    <3>1. i \in 1 .. N + 1 /\ j \in 1 .. N + 1 /\ i - 1 <= j - 1
      BY <1>2, <1>8, <2>2
    <3> QED BY <1>3, <1>6, <3>1
  <2> QED BY <2>1, <2>2
<1>9. Division(Len(t), Len(mt), l)
  BY <1>1, <1>2, <1>6, <1>7, <1>8 DEF Division
<1>10. ASSUME NEW j \in 1 .. N + 1, NEW i \in l[j - 1] .. l[j]
       PROVE  Piece(F, exact, Chained(t, mt, l, j, i), l[j] - i, t[j].g, Reached(t, j + 1))
  <2>1. CASE j = 1
    <3>1. i = 0 /\ l[j] - i = 0 /\ Chained(t, mt, l, j, i) = r.chain /\ t[j].g = r.g
      BY <1>2, <1>6, <2>1 DEF Chained
    <3>2. Reached(t, j + 1) = Reached(rs, 1)
      BY <1>1, <2>1, 1 \in Nat, 1 >= 1, ReachedPushed
    <3> QED BY <3>1, <3>2
  <2>2. CASE j # 1
    <3>1. PICK x : x = j - 1
      OBVIOUS
    <3>2. /\ x \in 1 .. N /\ x \in Nat /\ x >= 1 /\ j = x + 1 /\ j - 1 \in 1 .. N + 1
          /\ j \in 2 .. N + 1
      BY <1>2, <2>2, <3>1
    <3>3. l[j] = last[x] /\ l[j - 1] = last[x - 1] /\ t[j] = rs[x]
      BY <1>2, <1>6, <3>1, <3>2
    <3>4. Reached(t, j + 1) = Reached(rs, x + 1)
      <4>1. x + 1 \in Nat /\ x + 1 >= 1 /\ j + 1 = (x + 1) + 1
        BY <3>2
      <4> QED BY <1>1, <4>1, ReachedPushed
    <3>5. Chained(t, mt, l, j, i) = Chained(rs, mt, last, x, i)
      BY <3>3 DEF Chained
    <3>6. Piece(F, exact, Chained(rs, mt, last, x, i), last[x] - i, rs[x].g, Reached(rs, x + 1))
      BY <1>4, <3>2, <3>3
    <3> QED BY <3>3, <3>4, <3>5, <3>6
  <2> QED BY <2>1, <2>2
<1>11. Parted(F, exact, t, mt, l)
  BY <1>2, <1>9, <1>10 DEF Parted
<1> QED BY <1>1, <1>11

\* The innermost run is taken away, with its entries of meta.
LEMMA Popped ==
  ASSUME NEW F, NEW exact, NEW R, NEW ts \in Seq(R), ts # <<>>, NEW M, NEW mt \in Seq(M), NEW last,
         Parted(F, exact, ts, mt, last)
  PROVE  \E l : Parted(F, exact, Tail(ts), Drop(mt, last[1]), l)
<1>1. PICK rs, N, L, d, m : /\ rs = Tail(ts) /\ N = Len(rs) /\ L = Len(mt) /\ d = last[1]
                            /\ m = Drop(mt, d)
  OBVIOUS
<1>2. /\ N \in Nat /\ L \in Nat /\ Len(ts) = N + 1 /\ rs \in Seq(R) /\ ts[1] \in R
      /\ ts = <<ts[1]>> \o rs /\ \A j \in 1 .. N : rs[j] = ts[j + 1]
  BY <1>1
<1>3. /\ last \in [0 .. N + 1 -> 0 .. L] /\ last[0] = 0 /\ last[N + 1] = L
      /\ \A i, j \in 0 .. N + 1 : i <= j => last[i] <= last[j]
  BY <1>1, <1>2 DEF Parted, Division
<1>4. ASSUME NEW j \in 1 .. N + 1, NEW i \in last[j - 1] .. last[j]
      PROVE  Piece(F, exact, Chained(ts, mt, last, j, i), last[j] - i, ts[j].g, Reached(ts, j + 1))
  BY <1>2 DEF Parted
<1>5. d \in 0 .. L /\ \A j \in 1 .. N + 1 : last[j] \in 0 .. L /\ d <= last[j]
  <2>1. 1 \in 0 .. N + 1 /\ \A j \in 1 .. N + 1 : j \in 0 .. N + 1 /\ 1 <= j
    BY <1>2
  <2> QED BY <1>1, <1>3, <2>1
<1>6. Len(m) = L - d /\ \A i \in 1 .. L - d : m[i] = mt[d + i]
  <2>1. d \in 0 .. Len(mt) /\ m = Drop(mt, d) /\ L = Len(mt)
    BY <1>1, <1>5
  <2> QED BY <2>1, Dropped
<1>7. PICK l : l = [j \in 0 .. N |-> last[j + 1] - d]
  OBVIOUS
<1>8. ASSUME NEW j \in 0 .. N
      PROVE  l[j] = last[j + 1] - d /\ j + 1 \in 1 .. N + 1 /\ last[j + 1] \in 0 .. L /\ l[j] \in 0 .. L - d
  <2>1. j + 1 \in 1 .. N + 1
    BY <1>2
  <2> QED BY <1>2, <1>5, <1>7, <2>1
<1>9. Division(N, L - d, l)
  <2>1. l \in [0 .. N -> 0 .. L - d]
    BY <1>7, <1>8
  <2>2. l[0] = 0
    <3>1. 0 \in 0 .. N /\ 0 + 1 = 1
      BY <1>2
    <3> QED BY <1>1, <1>5, <1>8, <3>1
  <2>3. l[N] = L - d
    <3>1. N \in 0 .. N
      BY <1>2
    <3> QED BY <1>3, <1>8, <3>1
  <2>4. ASSUME NEW i \in 0 .. N, NEW j \in 0 .. N, i <= j PROVE l[i] <= l[j]
    <3>1. last[i + 1] <= last[j + 1]
      <4>1. i + 1 \in 0 .. N + 1 /\ j + 1 \in 0 .. N + 1 /\ i + 1 <= j + 1
        BY <1>2, <2>4
      <4> QED BY <1>3, <4>1
    <3>2. l[i] = last[i + 1] - d /\ l[j] = last[j + 1] - d /\ last[i + 1] \in 0 .. L /\ last[j + 1] \in 0 .. L
      BY <1>8
    <3> QED BY <1>2, <1>5, <3>1, <3>2
  <2> QED BY <2>1, <2>2, <2>3, <2>4 DEF Division
<1>10. ASSUME NEW j \in 1 .. N, NEW i \in l[j - 1] .. l[j]
       PROVE  Piece(F, exact, Chained(rs, m, l, j, i), l[j] - i, rs[j].g, Reached(rs, j + 1))
  <2>1. j \in 0 .. N /\ j - 1 \in 0 .. N /\ (j - 1) + 1 = j /\ j + 1 \in 1 .. N + 1 /\ (j + 1) - 1 = j
    BY <1>2
  <2>2. /\ l[j] = last[j + 1] - d /\ l[j - 1] = last[j] - d /\ last[j + 1] \in 0 .. L
        /\ last[j] \in 0 .. L /\ l[j] \in 0 .. L - d /\ l[j - 1] \in 0 .. L - d
    BY <1>8, <2>1
  <2>3. PICK y : y = i + d
    OBVIOUS
  <2>4. /\ y \in last[j] .. last[j + 1] /\ l[j] - i = last[j + 1] - y /\ (y = last[j] <=> i = l[j - 1])
        /\ (i # l[j - 1] => i \in 1 .. L - d /\ d + i = y)
    <3>1. d \in Int /\ L \in Int /\ i \in Int /\ l[j - 1] <= i /\ i <= l[j] /\ l[j - 1] >= 0 /\ l[j] <= L - d
      BY <1>2, <1>5, <2>2
    <3>2. PICK a, b, e, k : a = last[j] /\ b = last[j + 1] /\ e = l[j - 1] /\ k = l[j]
      OBVIOUS
    <3>3. /\ a \in Int /\ b \in Int /\ e = a - d /\ k = b - d /\ y = i + d /\ d \in Int /\ L \in Int
          /\ i \in Int /\ e <= i /\ i <= k /\ e >= 0 /\ k <= L - d
      BY <2>2, <2>3, <3>1, <3>2
    <3>4. y \in a .. b /\ k - i = b - y /\ (y = a <=> i = e)
      BY ONLY <3>3
    <3>5. i # e => i \in 1 .. L - d /\ d + i = y
      BY ONLY <3>3
    <3> QED BY <3>2, <3>4, <3>5
  <2>5. Piece(F, exact, Chained(ts, mt, last, j + 1, y), last[j + 1] - y, ts[j + 1].g,
              Reached(ts, (j + 1) + 1))
    BY <1>4, <2>1, <2>4
  <2>6. Reached(ts, (j + 1) + 1) = Reached(rs, j + 1)
    <3>1. j + 1 \in Nat /\ j + 1 >= 1
      BY <2>1
    <3>2. PICK r : r = ts[1]
      OBVIOUS
    <3>3. Reached(<<r>> \o rs, (j + 1) + 1) = Reached(rs, j + 1)
      BY <1>2, <3>1, <3>2, ReachedPushed
    <3> QED BY <1>2, <3>2, <3>3
  <2>7. Chained(rs, m, l, j, i) = Chained(ts, mt, last, j + 1, y)
    <3>1. rs[j] = ts[j + 1]
      BY <1>2
    <3>2. CASE i = l[j - 1]
      BY <2>1, <2>4, <3>1, <3>2 DEF Chained
    <3>3. CASE i # l[j - 1]
      <4>1. m[i] = mt[y]
        BY <1>6, <2>4, <3>3
      <4> QED BY <2>1, <2>4, <3>3, <4>1 DEF Chained
    <3> QED BY <3>2, <3>3
  <2>8. rs[j].g = ts[j + 1].g
    BY <1>2
  <2> QED BY <2>4, <2>5, <2>6, <2>7, <2>8
<1>11. Parted(F, exact, rs, m, l)
  BY <1>1, <1>6, <1>9, <1>10 DEF Parted
<1> QED BY <1>1, <1>11

\* A run that starts with nothing of meta.
LEMMA RunStarts ==
  ASSUME NEW S, NEW exact, NEW w, NEW h, NEW t, NEW mt, NEW u, GoodAt(S, exact, t, mt, u, w, h),
         u.flow = Onward, NEW r \in Calls(S, w, h), r.g # 0,
         Piece(Frames(S, w, h), exact, r.chain, 0, r.g, Reached(t, 1))
  PROVE  GoodAt(S, exact, <<r>> \o t, mt, u, w, h)
<1>1. /\ w \in Nat /\ h \in Nat /\ IsState(u, S, w, h) /\ t \in Seq(Calls(S, w, h))
      /\ mt \in Seq(Infos(S, w, h)) /\ Headed(mt) /\ (exact \/ AllRest(u))
      /\ \A j \in DOMAIN t : t[j].g = 0 => j = Len(t)
      /\ \E last : Parted(Frames(S, w, h), exact, t, mt, last)
  BY DEF GoodAt
<1>2. PICK x : x = <<r>> \o t
  OBVIOUS
<1>3. \E l : Parted(Frames(S, w, h), exact, x, mt, l)
  BY <1>1, <1>2, Pushed
<1>4. /\ x \in Seq(Calls(S, w, h)) /\ Len(x) = Len(t) + 1 /\ Len(t) \in Nat /\ x[1] = r
      /\ DOMAIN x = 1 .. Len(t) + 1 /\ DOMAIN t = 1 .. Len(t)
      /\ \A j \in 2 .. Len(t) + 1 : x[j] = t[j - 1]
  BY <1>1, <1>2
<1>5. ASSUME NEW j \in DOMAIN x, x[j].g = 0 PROVE j = Len(x)
  <2>1. j # 1
    BY <1>4, <1>5
  <2>2. j - 1 \in DOMAIN t /\ x[j] = t[j - 1]
    BY <1>4, <2>1
  <2>3. j - 1 = Len(t)
    BY <1>1, <1>5, <2>2
  <2> QED BY <1>4, <2>3
<1>6. GoodAt(S, exact, x, mt, u, w, h)
  BY <1>1, <1>3, <1>4, <1>5, OnwardIs DEF GoodAt
<1> QED BY <1>2, <1>6

LEMMA AddsGroup ==
  ASSUME NEW S, NEW v \in Nat, NEW g \in Nat, NEW s, IsState(s, S, v, g), NEW c,
         c.names \in Seq(STRING), c.rest \in BOOLEAN, NEW u, u = NewGroup(s, c)
  PROVE  /\ IsState(u, S, v, g + 1) /\ u.flow = s.flow
         /\ c.rest /\ AllRest(s) => AllRest(u)
<1>1. PICK y : y = [names |-> c.names, rest |-> c.rest, items |-> <<>>, stopped |-> FALSE]
  OBVIOUS
<1>2. PICK h : h = g + 1
  OBVIOUS
<1>3. h \in Nat /\ g <= h /\ v <= v
  BY <1>2
<1>4. y \in Groups(S, v, h) /\ y.rest = c.rest
  <2>1. <<>> \in Seq(Values(S, v, h))
    OBVIOUS
  <2> QED BY <1>1, <2>1 DEF Groups
<1>5. /\ s.vars \in Seq(Locals(S, v, h)) /\ s.groups \in Seq(Groups(S, v, h))
      /\ Len(s.vars) = v /\ Len(s.groups) = g
  <2>1. /\ s.vars \in Seq(Locals(S, v, g)) /\ s.groups \in Seq(Groups(S, v, g))
        /\ Len(s.vars) = v /\ Len(s.groups) = g
    BY HasTypes
  <2>2. /\ Seq(Locals(S, v, g)) \subseteq Seq(Locals(S, v, h))
        /\ Seq(Groups(S, v, g)) \subseteq Seq(Groups(S, v, h))
    BY <1>3, TypesMono
  <2> QED BY <2>1, <2>2
<1>6. PICK z : z = Append(s.groups, y)
  OBVIOUS
<1>7. /\ z \in Seq(Groups(S, v, h)) /\ Len(z) = h /\ DOMAIN z = 1 .. h /\ z[h] = y
      /\ DOMAIN s.groups = 1 .. g /\ \A n \in 1 .. g : z[n] = s.groups[n]
  BY <1>2, <1>4, <1>5, <1>6
<1>8. u = [s EXCEPT !.groups = z]
  BY <1>1, <1>6 DEF NewGroup
<1>9. IsState(u, S, v, h) /\ u.flow = s.flow /\ u.groups = z
  BY <1>5, <1>7, <1>8 DEF IsState, States
<1>10. ASSUME c.rest, AllRest(s), NEW n \in DOMAIN z PROVE z[n].rest
  <2>1. CASE n = h
    BY <1>4, <1>7, <1>10, <2>1
  <2>2. CASE n # h
    <3>1. n \in 1 .. g
      BY <1>2, <1>7, <2>2
    <3> QED BY <1>7, <1>10, <3>1 DEF AllRest
  <2> QED BY <2>1, <2>2
<1>11. c.rest /\ AllRest(s) => AllRest(u)
  BY <1>9, <1>10 DEF AllRest
<1> QED BY <1>2, <1>9, <1>11

LEMMA ExecRedirectedGood ==
  ASSUME NEW S, NEW exact, Allowed(S, exact), NEW v, NEW g, GoodAt(S, exact, runs, meta, st, v, g),
         ExecRedirected
  PROVE  Good(S, exact)'
<1>1. runs # <<>> /\ st.flow = Onward /\ ControlAt("to")
  BY DEF ExecRedirected, ControlAt, Going
<1>2. v \in Nat /\ g \in Nat /\ IsState(st, S, v, g) /\ (exact \/ AllRest(st)) /\ v <= v
      /\ Len(st.groups) = g
  BY DEF GoodAt, IsState
<1>3. PICK h : h = g + 1
  OBVIOUS
<1>4. h \in Nat /\ g <= h /\ h # 0 /\ h \in 0 .. h
  BY <1>2, <1>3
<1>5. PICK last :
        /\ Parted(Frames(S, v, h), exact, runs, meta, last)
        /\ Piece(Frames(S, v, h), exact, chain, last[1], runs[1].g, Reached(runs, 2))
        /\ last[1] \in 0 .. Len(meta) /\ Len(meta) \in Nat
  BY <1>1, <1>2, <1>4, Begins
<1>6. PICK k : k = After
  OBVIOUS
<1>7. /\ Stmt \in S /\ Stmt.t = "to" /\ Here \in Contexts(v, h)
      /\ Piece(Frames(S, v, h), exact, k, last[1], runs[1].g, Reached(runs, 2))
      /\ \A flow \in Flows : Leads(Here, flow) => Covers(k, Reached(runs, 2), flow)
  BY <1>1, <1>2, <1>4, <1>5, <1>6, Controls DEF Allowed
<1>8. /\ Stmt.names \in Seq(STRING) /\ Stmt.rest \in BOOLEAN /\ <<Stmt.s>> \in Seq(S)
      /\ exact \/ Stmt.rest
  BY <1>7 DEF Allowed, NoFullList, Statements, Inner
<1>9. PICK u : u = NewGroup(st, Stmt)
  OBVIOUS
<1>10. IsState(u, S, v, h) /\ u.flow = Onward /\ (exact \/ AllRest(u))
  <2>1. IsState(u, S, v, g + 1) /\ u.flow = st.flow /\ (Stmt.rest /\ AllRest(st) => AllRest(u))
    BY <1>2, <1>8, <1>9, AddsGroup
  <2> QED BY <1>1, <1>2, <1>3, <1>8, <2>1
<1>11. /\ runs \in Seq(Calls(S, v, h)) /\ meta \in Seq(Infos(S, v, h)) /\ Headed(meta)
       /\ \A j \in DOMAIN runs : runs[j].g = 0 => j = Len(runs)
  BY <1>2, <1>4, GoodParts
<1>12. FlowIn(exact, u, k, Reached(runs, 2))
  BY <1>10, OnwardIs DEF FlowIn
<1>13. PICK t : t = [runs EXCEPT ![1].chain = k]
  OBVIOUS
<1>14. GoodAt(S, exact, t, meta, u, v, h)
  BY <1>1, <1>2, <1>4, <1>5, <1>7, <1>10, <1>11, <1>12, <1>13, GoesOnIn
<1>15. ASSUME NEW flow \in Flows, Leads(Here, flow) PROVE flow \in Reached(t, 1)
  <2>1. 1 \in DOMAIN runs /\ runs[1] \in Calls(S, v, h)
    BY <1>1, <1>11
  <2>2. t # <<>> /\ t \in Seq(Calls(S, v, h))
    <3>1. t \in Seq(Calls(S, v, h))
      BY <1>14 DEF GoodAt
    <3>2. DOMAIN t = DOMAIN runs
      BY <1>13
    <3> QED BY <2>1, <3>1, <3>2
  <2>3. t[1].chain = k
    <3>1. "chain" \in DOMAIN runs[1]
      BY <2>1 DEF Calls
    <3> QED BY <1>11, <1>13, <2>1, <3>1
  <2>4. Reached(t, 2) = Reached(runs, 2)
    BY <1>11, <1>13, 2 \in Nat, 2 >= 2, ReachedSame
  <2>5. Covers(k, Reached(runs, 2), flow)
    BY <1>7, <1>15
  <2> QED BY <2>2, <2>3, <2>4, <2>5, ReachedSplit
<1>16. PICK sh : sh = InGroup(Here, h)
  OBVIOUS
<1>17. /\ sh \in Contexts(v, h) /\ sh.redirected /\ sh.out = sh.abort
       /\ \A flow : Leads(sh, flow) => Leads(Here, flow)
  <2>1. /\ sh \in Contexts(v, h) /\ sh.redirected = TRUE /\ sh.noReturn = Here.noReturn
        /\ sh.out = h /\ sh.abort = h /\ sh.ret = Here.ret /\ sh.loops = Here.loops
    BY <1>4, <1>7, <1>16 DEF InGroup, Contexts
  <2> QED BY <2>1 DEF Leads
<1>18. PICK z, c, script : script = <<Stmt.s>> /\ z = Lines(sh, script) /\ c = <<z>>
  OBVIOUS
<1>19. z \in Frames(S, v, h) /\ z.f = "lines" /\ z.sh = sh
  <2>1. script \in Seq(S)
    BY <1>8, <1>18
  <2> QED BY <1>17, <1>18, <2>1 DEF Lines, LineFrames, Frames
<1>20. c \in Seq(Frames(S, v, h)) /\ DOMAIN c = {1} /\ c[1] = z /\ z # ResetEnd
  BY <1>18, <1>19, Kinds
<1>21. Piece(Frames(S, v, h), exact, c, 0, h, Reached(t, 1))
  <2>1. \A n : ~HasReset(c, n)
    BY <1>20 DEF HasReset
  <2>2. ResetEnds(c) = 0
    BY <1>20, <2>1, Counted
  <2>3. Scoped(c, Reached(t, 1)) /\ Marked(c) /\ Tuned(exact, c)
    BY <1>15, <1>17, <1>19, <1>20, <2>1 DEF Scoped, Marked, Tuned
  <2> QED BY <1>20, <2>1, <2>2, <2>3 DEF Piece
<1>22. PICK r : r = [chain |-> c, g |-> h, sh |-> Here]
  OBVIOUS
<1>23. r \in Calls(S, v, h) /\ r.g = h /\ r.chain = c
  BY <1>4, <1>7, <1>20, <1>22 DEF Calls
<1>24. GoodAt(S, exact, <<r>> \o t, meta, u, v, h)
  BY <1>4, <1>10, <1>14, <1>21, <1>23, RunStarts
<1>25. runs' = <<r>> \o t /\ meta' = meta /\ st' = u
  BY <1>2, <1>3, <1>6, <1>9, <1>13, <1>16, <1>18, <1>22 DEF ExecRedirected
<1> QED BY <1>24, <1>25 DEF Good

----------------------------------------------------------------------------
(***************************************************************************)
(* The ends of runs.                                                       *)
(***************************************************************************)
\* The variables of a statement get what its lists hold.
\* The element for a variable of the statement.
LEMMA ItemIs ==
  ASSUME NEW S, NEW v, NEW g, NEW group \in Groups(S, v, g), NEW name, HasName(group.names, name)
  PROVE  Item(group, name) \in Values(S, v, g)
<1> DEFINE I == {i \in 1 .. Len(group.names) : group.names[i] = name}
           n == IF I # {} THEN Min(I) ELSE 0
<1>1. Item(group, name) = IF n > Len(group.items) THEN Plain(0) ELSE group.items[n]
  BY Zenon DEF Item, FirstPlace
<1>2. group.names \in Seq(STRING) /\ group.items \in Seq(Values(S, v, g))
  BY DEF Groups
<1>3. I # {} /\ I \subseteq Nat /\ \A i \in I : i >= 1
  BY <1>2 DEF HasName
<1>4. Min(I) \in I
  <2> HIDE DEF I
  <2> QED BY <1>3, Least
<1>5. n \in Nat /\ n >= 1
  BY <1>3, <1>4
<1>6. Plain(0) \in Values(S, v, g)
  <2>1. <<>> \in Seq(Conts(S, v, g))
    OBVIOUS
  <2> QED BY <2>1 DEF Plain, Values
<1> HIDE DEF n
<1>7. CASE n > Len(group.items)
  BY <1>1, <1>6, <1>7
<1>8. CASE ~(n > Len(group.items))
  <2>1. n \in 1 .. Len(group.items)
    BY <1>2, <1>5, <1>8
  <2> QED BY <1>1, <1>2, <1>8, <2>1
<1> QED BY <1>7, <1>8

LEMMA Assigns ==
  ASSUME NEW S, NEW v \in Nat, NEW g \in Nat, NEW s, IsState(s, S, v, g),
         NEW sh \in Contexts(v, g), NEW n \in 1 .. g, NEW u, u = CaptureAssign(s, sh, n)
  PROVE  IsState(u, S, v, g) /\ u.groups = s.groups /\ u.flow = s.flow
<1>1. PICK x, group : x = sh.vars /\ group = s.groups[n]
  OBVIOUS
<1>2. x \in 1 .. v /\ group \in Groups(S, v, g)
  BY <1>1, GroupTypes DEF Contexts
<1>4. PICK y : y = Assigned(s.vars[x], group)
  OBVIOUS
<1>5. PICK w, status : /\ w = [s EXCEPT !.vars = [s.vars EXCEPT ![x] = y]]
                       /\ status = IF group.stopped THEN 0 ELSE s.status
  OBVIOUS
<1>6. u = [w EXCEPT !.status = status]
  <2>1. u = [s EXCEPT !.vars[x] = y, !.status = status]
    BY <1>1, <1>4, <1>5 DEF CaptureAssign
  <2> QED BY <1>5, <2>1
<1>7. y \in Locals(S, v, g)
  <2>1. HasName(group.names, "i") => Item(group, "i").v \in Int
    BY <1>2, ItemIs DEF Values
  <2>2. HasName(group.names, "k") => Item(group, "k").k \in Seq(Conts(S, v, g))
    BY <1>2, ItemIs DEF Values
  <2>3. s.vars[x].i \in Int /\ s.vars[x].k \in Seq(Conts(S, v, g))
    BY <1>2, LocalTypes
  <2> QED BY <1>4, <2>1, <2>2, <2>3 DEF Assigned, Locals
<1>8. IsState(w, S, v, g) /\ w.groups = s.groups /\ w.flow = s.flow
  BY <1>2, <1>5, <1>7, SetsVars
<1>9. status \in Int
  BY <1>5 DEF IsState, States
<1>10. StatusIs(u, w, status)
  BY ONLY <1>6 DEF StatusIs
<1>11. IsState(u, S, v, g) /\ u.groups = w.groups /\ u.flow = w.flow
  <2>1. v \in Nat /\ g \in Nat /\ IsState(w, S, v, g)
    BY <1>8
  <2> QED BY ONLY <1>9, <1>10, <2>1, StatusSet
<1> QED BY <1>8, <1>11

LEMMA Catches ==
  ASSUME NEW S, NEW v \in Nat, NEW g \in Nat, NEW s, IsState(s, S, v, g), s.flow # Failed,
         NEW sh \in Contexts(v, g), NEW n \in 1 .. g, NEW u, u = Caught(s, sh, n)
  PROVE  /\ IsState(u, S, v, g) /\ u.groups = s.groups
         /\ u.flow = IF s.flow = Flow("abort", n) THEN Onward ELSE s.flow
<1>1. PICK r : r = CaptureAssign(s, sh, n)
  OBVIOUS
<1>2. IsState(r, S, v, g) /\ r.groups = s.groups /\ r.flow = s.flow
  BY <1>1, Assigns
<1>3. u = IF s.flow = Flow("abort", n) THEN [r EXCEPT !.flow = Onward] ELSE r
  BY <1>1 DEF Caught
<1>4. Onward \in AllFlows
  BY DEF AllFlows
<1> QED BY <1>2, <1>3, <1>4, SetsFlow

\* The innermost run ends: the entries of meta that are left are those of the
\* runs around it.
LEMMA RunGone ==
  ASSUME NEW S, NEW exact, NEW v \in Nat, NEW g \in Nat, NEW rs \in Seq(Calls(S, v, g)), rs # <<>>,
         NEW mt \in Seq(Infos(S, v, g)), Headed(mt), \A j \in DOMAIN rs : rs[j].g = 0 => j = Len(rs),
         NEW last, Parted(Frames(S, v, g), exact, rs, mt, last),
         NEW u, IsState(u, S, v, g), u.flow \in Flows => u.flow \in Reached(Tail(rs), 1),
         u.flow.k = "abort" => exact, exact \/ AllRest(u)
  PROVE  GoodAt(S, exact, Tail(rs), Drop(mt, last[1]), u, v, g)
<1>1. PICK t, m : t = Tail(rs) /\ m = Drop(mt, last[1])
  OBVIOUS
<1>2. \E l : Parted(Frames(S, v, g), exact, t, m, l)
  BY <1>1, Popped
<1>3. /\ t \in Seq(Calls(S, v, g)) /\ Len(t) = Len(rs) - 1 /\ Len(rs) \in Nat
      /\ DOMAIN t = 1 .. Len(rs) - 1 /\ DOMAIN rs = 1 .. Len(rs)
      /\ \A j \in 1 .. Len(rs) - 1 : t[j] = rs[j + 1]
  BY <1>1, TailIsDrop
<1>4. last[1] \in 0 .. Len(mt)
  BY ChainIs
<1>5. m \in Seq(Infos(S, v, g)) /\ Headed(m)
  <2>1. /\ m \in Seq(Infos(S, v, g)) /\ Len(m) = Len(mt) - last[1]
        /\ \A j \in 1 .. Len(mt) - last[1] : m[j] = mt[last[1] + j]
    <3>1. PICK n : n = last[1]
      OBVIOUS
    <3>2. n \in 0 .. Len(mt) /\ m = Drop(mt, n)
      BY <1>1, <1>4, <3>1
    <3>3. /\ m \in Seq(Infos(S, v, g)) /\ Len(m) = Len(mt) - n
          /\ \A j \in 1 .. Len(mt) - n : m[j] = mt[n + j]
      BY <3>2, Dropped
    <3> QED BY <3>1, <3>3
  <2>2. ASSUME NEW i \in DOMAIN m PROVE m[i] = mt[last[1] + i] /\ last[1] + i \in DOMAIN mt
    <3>1. /\ DOMAIN m = 1 .. Len(mt) - last[1] /\ DOMAIN mt = 1 .. Len(mt) /\ Len(mt) \in Nat
          /\ last[1] \in Nat /\ last[1] <= Len(mt)
      BY <1>4, <2>1
    <3>2. i \in 1 .. Len(mt) - last[1]
      BY <3>1
    <3> QED BY <2>1, <3>1, <3>2
  <2> QED BY <2>1, <2>2 DEF Headed
<1>6. ASSUME NEW j \in DOMAIN t, t[j].g = 0 PROVE j = Len(t)
  <2>1. j + 1 \in DOMAIN rs /\ t[j] = rs[j + 1]
    BY <1>3
  <2>2. j + 1 = Len(rs)
    BY <1>6, <2>1
  <2> QED BY <1>3, <2>2
<1>7. u.flow \in Flows => u.flow \in Reached(t, 1)
  BY <1>1
<1>8. GoodAt(S, exact, t, m, u, v, g)
  BY <1>2, <1>3, <1>5, <1>6, <1>7 DEF GoodAt
<1> QED BY <1>1, <1>8

LEMMA RunEndsGood ==
  ASSUME NEW S, NEW exact, Allowed(S, exact), NEW v, NEW g, GoodAt(S, exact, runs, meta, st, v, g),
         RunEnds
  PROVE  Good(S, exact)'
<1>1. runs # <<>> /\ st.flow = Onward /\ chain = <<>>
  BY DEF RunEnds, Going
<1>2. v \in Nat /\ g \in Nat /\ IsState(st, S, v, g) /\ (exact \/ AllRest(st)) /\ v <= v /\ g <= g
  BY DEF GoodAt
<1>3. /\ runs \in Seq(Calls(S, v, g)) /\ meta \in Seq(Infos(S, v, g)) /\ Headed(meta)
      /\ \A j \in DOMAIN runs : runs[j].g = 0 => j = Len(runs)
      /\ \E last : Parted(Frames(S, v, g), exact, runs, meta, last)
  BY <1>2, GoodParts
<1>4. PICK last : Parted(Frames(S, v, g), exact, runs, meta, last)
  BY <1>3
<1>5. /\ Piece(Frames(S, v, g), exact, runs[1].chain, last[1], runs[1].g, Reached(runs, 2))
      /\ last[1] \in 0 .. Len(meta) /\ runs[1].g \in 0 .. g /\ runs[1].sh \in Contexts(v, g)
  BY <1>1, <1>2, <1>3, <1>4, ChainIs
<1>6. last[1] = 0
  <2>1. runs[1].chain = <<>>
    BY <1>1 DEF chain
  <2>2. ~HasReset(runs[1].chain, 1)
    BY <2>1 DEF HasReset
  <2> QED BY <1>5, <2>2 DEF Piece
<1>7. PICK u : u = IF runs[1].g = 0 THEN st ELSE CaptureAssign(st, runs[1].sh, runs[1].g)
  OBVIOUS
<1>8. IsState(u, S, v, g) /\ u.flow = Onward /\ (AllRest(st) => AllRest(u))
  <2>1. CASE runs[1].g = 0
    BY <1>1, <1>2, <1>7, <2>1
  <2>2. CASE runs[1].g # 0
    <3>1. runs[1].g \in 1 .. g
      BY <1>2, <1>5, <2>2
    <3>2. PICK n, sh : n = runs[1].g /\ sh = runs[1].sh
      OBVIOUS
    <3>3. u = CaptureAssign(st, sh, n) /\ n \in 1 .. g /\ sh \in Contexts(v, g)
      BY <1>5, <1>7, <2>2, <3>1, <3>2
    <3>4. IsState(u, S, v, g) /\ u.groups = st.groups /\ u.flow = st.flow
      BY ONLY <1>2, <3>3, Assigns
    <3> QED BY <1>1, <3>4 DEF AllRest
  <2> QED BY <2>1, <2>2
<1>9. GoodAt(S, exact, Tail(runs), Drop(meta, last[1]), u, v, g)
  BY <1>1, <1>2, <1>3, <1>4, <1>8, OnwardIs, RunGone
<1>10. Drop(meta, 0) = meta
  BY <1>3, DropNone
<1>11. runs' = Tail(runs) /\ meta' = meta /\ st' = u
  BY <1>7 DEF RunEnds
<1> QED BY <1>6, <1>9, <1>10, <1>11 DEF Good

\* A flow that has found its frame: no reset lies before it.
LEMMA LandsGood ==
  ASSUME NEW S, NEW exact, Allowed(S, exact), NEW v, NEW g, GoodAt(S, exact, runs, meta, st, v, g),
         Lands
  PROVE  Good(S, exact)'
<1>1. runs # <<>> /\ st.flow # Onward /\ Place # 0
  BY DEF Lands
<1>2. v \in Nat /\ g \in Nat /\ IsState(st, S, v, g) /\ (exact \/ AllRest(st)) /\ v <= v /\ g <= g
  BY DEF GoodAt
<1>3. /\ runs \in Seq(Calls(S, v, g)) /\ meta \in Seq(Infos(S, v, g)) /\ Headed(meta)
      /\ \A j \in DOMAIN runs : runs[j].g = 0 => j = Len(runs)
  BY <1>2, GoodParts
<1>4. PICK last :
        /\ Parted(Frames(S, v, g), exact, runs, meta, last)
        /\ Piece(Frames(S, v, g), exact, chain, last[1], runs[1].g, Reached(runs, 2))
  BY <1>1, <1>2, Begins
<1>5. PICK F, p : F = Frames(S, v, g) /\ p = Place
  OBVIOUS
<1>6. chain \in Seq(F) /\ DOMAIN chain = 1 .. Len(chain) /\ Len(chain) \in Nat
  BY <1>4, <1>5 DEF Piece
<1>7. /\ p \in 1 .. Len(chain) /\ Ends(chain[p], st.flow)
      /\ \A m \in DOMAIN chain : Ends(chain[m], st.flow) => p <= m
  BY <1>1, <1>5, <1>6, PlaceIsFirst
<1>8. st.flow \in Flows
  <2>1. st.flow \in AllFlows
    BY <1>2, HasTypes
  <2>2. st.flow.k \in {"return", "break", "continue"}
    BY <1>7 DEF Ends
  <2> QED BY <1>1, <2>1, <2>2, OnwardIs DEF AllFlows
<1>9. Covers(chain, Reached(runs, 2), st.flow)
  <2>1. st.flow \in Reached(runs, 1)
    BY <1>8 DEF GoodAt
  <2> QED BY <1>1, <1>3, <1>8, <2>1, ReachedSplit DEF chain
<1>10. ASSUME NEW m \in 1 .. p PROVE chain[m] # ResetEnd
  <2>1. CASE ReachIn(chain, 1, st.flow)
    <3>1. PICK y \in DOMAIN chain : Ends(chain[y], st.flow) /\ \A x \in 1 .. y : chain[x] # ResetEnd
      BY <2>1 DEF ReachIn
    <3>2. m \in 1 .. y
      BY <1>6, <1>7, <3>1
    <3> QED BY <3>1, <3>2
  <2>2. CASE ~HasReset(chain, 1)
    <3>1. m \in DOMAIN chain /\ m >= 1
      BY <1>6, <1>7
    <3> QED BY <2>2, <3>1 DEF HasReset
  <2> QED BY <1>9, <2>1, <2>2 DEF Covers
<1>11. ResetEnds(SubSeq(chain, 1, p)) = 0
  <2>1. PICK a : a = SubSeq(chain, 1, p)
    OBVIOUS
  <2>2. a \in Seq(F) /\ DOMAIN a = 1 .. p /\ \A m \in 1 .. p : a[m] = chain[m]
    BY <1>6, <1>7, <2>1
  <2>3. ~HasReset(a, 1)
    BY <1>10, <2>2 DEF HasReset
  <2> QED BY <2>1, <2>2, <2>3, Counted
<1>12. PICK c : c = Landing(chain[p], st.flow) \o Drop(chain, p)
  OBVIOUS
<1>13. \E n \in 0 .. p : c = Drop(chain, n)
  <2>1. PICK d : d = Drop(chain, p)
    OBVIOUS
  <2>2. p \in 0 .. Len(chain)
    BY <1>7
  <2>3. /\ d \in Seq(F) /\ Len(d) = Len(chain) - p
        /\ \A j \in 1 .. Len(chain) - p : d[j] = chain[p + j]
    BY <1>6, <2>1, <2>2, Dropped, Zenon
  <2>4. CASE st.flow.k # "continue"
    <3>1. c = <<>> \o d
      BY <1>12, <2>1, <2>4 DEF Landing
    <3>2. c = d
      BY <2>3, <3>1, EmptyJoin
    <3> QED BY <1>7, <2>1, <3>2
  <2>5. CASE st.flow.k = "continue"
    <3>1. PICK n, e : n = p - 1 /\ e = Drop(chain, n)
      OBVIOUS
    <3>2. n \in 0 .. Len(chain) /\ n \in 0 .. p
      BY <1>6, <1>7, <3>1
    <3>3. /\ e \in Seq(F) /\ Len(e) = Len(chain) - n
          /\ \A j \in 1 .. Len(chain) - n : e[j] = chain[n + j]
      BY <1>6, <3>1, <3>2, Dropped
    <3>4. PICK a : a = <<chain[p]>>
      OBVIOUS
    <3>5. a \in Seq(F) /\ Len(a) = 1 /\ a[1] = chain[p]
      BY <1>6, <1>7, <3>4
    <3>6. Len(e) = Len(chain) - p + 1 /\ 1 <= Len(e) /\ Len(d) = Len(e) - 1 /\ 1 \in Nat
      BY <1>6, <1>7, <2>3, <3>1, <3>3
    <3>7. \A j \in 1 .. 1 : a[j] = e[j]
      <4>1. e[1] = chain[n + 1] /\ n + 1 = p
        BY <1>6, <1>7, <3>1, <3>3
      <4> QED BY <3>5, <4>1
    <3>8. \A j \in 1 .. Len(e) - 1 : d[j] = e[1 + j]
      <4> SUFFICES ASSUME NEW j \in 1 .. Len(e) - 1 PROVE d[j] = e[1 + j]
        OBVIOUS
      <4>1. j \in 1 .. Len(chain) - p /\ 1 + j \in 1 .. Len(chain) - n /\ n + (1 + j) = p + j
        BY <1>6, <1>7, <3>1, <3>6
      <4> QED BY <2>3, <3>3, <4>1
    <3>9. e = a \o d
      BY <2>3, <3>3, <3>5, <3>6, <3>7, <3>8, Joined
    <3>10. c = e
      BY <1>12, <2>1, <2>5, <3>4, <3>9 DEF Landing
    <3> QED BY <3>1, <3>2, <3>10
  <2> QED BY <2>4, <2>5
<1>14. PICK n \in 0 .. p : c = Drop(chain, n)
  BY <1>13
<1>15. Piece(F, exact, c, last[1], runs[1].g, Reached(runs, 2))
  <2>1. n \in 0 .. Len(chain) /\ \A m \in 1 .. n : m \in 1 .. p
    BY <1>6, <1>7
  <2>2. \A m \in 1 .. n : chain[m] # ResetEnd
    BY <1>10, <2>1
  <2> QED BY <1>4, <1>5, <1>14, <2>1, <2>2, PieceDrop
<1>16. PICK u : u = Landed(st)
  OBVIOUS
<1>17. IsState(u, S, v, g) /\ u.flow = Onward /\ (AllRest(st) => AllRest(u))
  <2>1. PICK w, status : /\ w = [st EXCEPT !.flow = Onward]
                         /\ status = IF st.flow.k = "break" THEN 0 ELSE st.status
    OBVIOUS
  <2>2. Onward \in AllFlows
    BY DEF AllFlows
  <2>3. IsState(w, S, v, g) /\ w.groups = st.groups /\ w.flow = Onward
    BY <1>2, <2>1, <2>2, SetsFlow
  <2>4. status \in Int
    BY <1>2, <2>1 DEF IsState, States
  <2>5. u = [w EXCEPT !.status = status]
    BY <1>2, <1>16, <2>1 DEF Landed, IsState, States
  <2>6. IsState(u, S, v, g) /\ u.groups = w.groups /\ u.flow = w.flow
    BY <1>2, <2>3, <2>4, <2>5, SetsStatus
  <2> QED BY <2>3, <2>6 DEF AllRest
<1>18. FlowIn(exact, u, c, Reached(runs, 2))
  BY <1>2, <1>17, FlowGoesOn
<1>19. GoodAt(S, exact, [runs EXCEPT ![1].chain = c], meta, u, v, g)
  BY <1>1, <1>2, <1>3, <1>4, <1>5, <1>15, <1>17, <1>18, GoesOnIn
<1>20. Drop(meta, 0) = meta
  BY <1>3, DropNone
<1>21. runs' = [runs EXCEPT ![1].chain = c] /\ meta' = meta /\ st' = u
  BY <1>5, <1>11, <1>12, <1>16, <1>20 DEF Lands, GoOn
<1> QED BY <1>19, <1>21 DEF Good

\* The flows that end in the runs around the innermost.
LEMMA ReachedTail ==
  ASSUME NEW R, NEW rs \in Seq(R), rs # <<>>
  PROVE  Reached(rs, 2) = Reached(Tail(rs), 1)
<1>1. PICK r, t : r = rs[1] /\ t = Tail(rs)
  OBVIOUS
<1>2. r \in R /\ t \in Seq(R) /\ rs = <<r>> \o t
  BY <1>1
<1>3. Reached(<<r>> \o t, 1 + 1) = Reached(t, 1)
  BY <1>2, 1 \in Nat, 1 >= 1, ReachedPushed
<1>4. 1 + 1 = 2
  OBVIOUS
<1> QED BY <1>1, <1>2, <1>3, <1>4

\* A flow that does not end in the innermost run.
LEMMA RunFailsGood ==
  ASSUME NEW S, NEW exact, Allowed(S, exact), NEW v, NEW g, GoodAt(S, exact, runs, meta, st, v, g),
         RunFails
  PROVE  st'.flow = Failed \/ Good(S, exact)'
<1>1. runs # <<>> /\ st.flow # Onward /\ Place = 0
  BY DEF RunFails
<1>2. v \in Nat /\ g \in Nat /\ IsState(st, S, v, g) /\ (exact \/ AllRest(st)) /\ v <= v /\ g <= g
      /\ (st.flow.k = "abort" => exact)
  BY DEF GoodAt
<1>3. /\ runs \in Seq(Calls(S, v, g)) /\ meta \in Seq(Infos(S, v, g)) /\ Headed(meta)
      /\ \A j \in DOMAIN runs : runs[j].g = 0 => j = Len(runs)
      /\ \E last : Parted(Frames(S, v, g), exact, runs, meta, last)
  BY <1>2, GoodParts
<1>4. PICK last : Parted(Frames(S, v, g), exact, runs, meta, last)
  BY <1>3
<1>5. /\ Piece(Frames(S, v, g), exact, chain, last[1], runs[1].g, Reached(runs, 2))
      /\ last[1] \in 0 .. Len(meta) /\ runs[1].g \in 0 .. g /\ runs[1].sh \in Contexts(v, g)
  BY <1>1, <1>2, <1>3, <1>4, ChainIs DEF chain
<1>6. PICK u : u = IF runs[1].g = 0 THEN st ELSE Caught(st, runs[1].sh, runs[1].g)
  OBVIOUS
<1>7. st' = u
  BY <1>6 DEF RunFails
<1>8. CASE st.flow = Failed
  BY <1>6, <1>7, <1>8 DEF Caught
<1>9. CASE st.flow # Failed
  <2>1. chain \in Seq(Frames(S, v, g))
    BY <1>5 DEF Piece
  <2>2. IsState(u, S, v, g) /\ u.groups = st.groups /\ u.flow \in {Onward, st.flow}
    <3>1. CASE runs[1].g = 0
      BY <1>2, <1>6, <3>1
    <3>2. CASE runs[1].g # 0
      <4>1. PICK n, sh : n = runs[1].g /\ sh = runs[1].sh
        OBVIOUS
      <4>2. u = Caught(st, sh, n) /\ n \in 1 .. g /\ sh \in Contexts(v, g)
        BY <1>2, <1>5, <1>6, <3>2, <4>1
      <4>3. /\ IsState(u, S, v, g) /\ u.groups = st.groups
            /\ u.flow = IF st.flow = Flow("abort", n) THEN Onward ELSE st.flow
        BY ONLY <1>2, <1>9, <4>2, Catches
      <4> QED BY <4>3
    <3> QED BY <3>1, <3>2
  <2>3. st.flow \in Flows => ~HasReset(chain, 1) /\ st.flow \in Reached(runs, 2)
    <3> SUFFICES ASSUME st.flow \in Flows PROVE ~HasReset(chain, 1) /\ st.flow \in Reached(runs, 2)
      OBVIOUS
    <3>1. st.flow \in Reached(runs, 1)
      BY DEF GoodAt
    <3>2. Covers(chain, Reached(runs, 2), st.flow)
      BY <1>1, <1>3, <3>1, ReachedSplit DEF chain
    <3>3. ~ReachIn(chain, 1, st.flow)
      BY <1>1, <2>1, PlaceIsFirst DEF ReachIn
    <3> QED BY <3>2, <3>3 DEF Covers
  <2>4. ResetEnds(chain) = last[1]
    <3>1. CASE st.flow \in Flows
      <4>1. ResetEnds(chain) = 0
        BY <2>1, <2>3, <3>1, Counted
      <4>2. last[1] = 0
        BY <1>5, <2>3, <3>1 DEF Piece
      <4> QED BY <4>1, <4>2
    <3>2. CASE st.flow \notin Flows
      <4>1. st.flow \in AllFlows
        BY <1>2, HasTypes
      <4>2. st.flow.k = "abort"
        BY <1>1, <1>9, <3>2, <4>1 DEF AllFlows
      <4> QED BY <1>2, <1>5, <4>2 DEF Piece
    <3> QED BY <3>1, <3>2
  <2>5. u.flow \in Flows => u.flow \in Reached(Tail(runs), 1)
    BY <1>1, <1>3, <2>2, <2>3, OnwardIs, ReachedTail
  <2>6. (u.flow.k = "abort" => exact) /\ (exact \/ AllRest(u))
    BY <1>2, <2>2, OnwardIs DEF AllRest
  <2>7. GoodAt(S, exact, Tail(runs), Drop(meta, last[1]), u, v, g)
    BY <1>1, <1>2, <1>3, <1>4, <2>2, <2>5, <2>6, RunGone
  <2>8. runs' = Tail(runs) /\ meta' = Drop(meta, last[1])
    BY <2>4 DEF RunFails
  <2> QED BY <1>7, <2>7, <2>8 DEF Good
<1> QED BY <1>8, <1>9

----------------------------------------------------------------------------
(***************************************************************************)
(* The theorems.                                                           *)
(***************************************************************************)
LEMMA StartGood ==
  ASSUME NEW S, NEW exact, NEW p \in Seq(S), meta = <<>>, st = Fresh,
         runs = <<[chain |-> <<Lines(Top, p)>>, g |-> 0, sh |-> Top]>>
  PROVE  Good(S, exact)
<1>1. Top \in Contexts(1, 0) /\ Top.ret = 0 /\ Top.loops = <<>> /\ Top.out = Top.abort
  <2>1. <<>> \in Seq(Nat)
    OBVIOUS
  <2> QED BY <2>1 DEF Top, Contexts
<1>2. IsState(Fresh, S, 1, 0) /\ Fresh.flow = Onward /\ AllRest(Fresh)
  <2>1. [k |-> <<>>, i |-> 9] \in Locals(S, 1, 0)
    <3>1. <<>> \in Seq(Conts(S, 1, 0))
      OBVIOUS
    <3> QED BY <3>1 DEF Locals
  <2>2. /\ <<[k |-> <<>>, i |-> 9]>> \in Seq(Locals(S, 1, 0)) /\ Len(<<[k |-> <<>>, i |-> 9]>>) = 1
    BY <2>1
  <2>3. <<>> \in Seq(Groups(S, 1, 0)) /\ Len(<<>>) = 0 /\ <<>> \in Seq(Int)
    OBVIOUS
  <2>4. Onward \in AllFlows
    BY DEF AllFlows
  <2>5. Fresh \in States(S, 1, 0)
    BY <2>2, <2>3, <2>4 DEF Fresh, States
  <2>6. Fresh.vars = <<[k |-> <<>>, i |-> 9]>> /\ Fresh.groups = <<>> /\ Fresh.flow = Onward
    BY DEF Fresh
  <2> QED BY <2>2, <2>3, <2>5, <2>6 DEF IsState, AllRest
<1>3. PICK F, z, c : F = Frames(S, 1, 0) /\ z = Lines(Top, p) /\ c = <<z>>
  OBVIOUS
<1>4. z \in F /\ z.f = "lines" /\ z.sh = Top
  BY <1>1, <1>3, MadeLines
<1>5. c \in Seq(F) /\ DOMAIN c = {1} /\ c[1] = z /\ z # ResetEnd
  BY <1>3, <1>4, Kinds
<1>6. ASSUME NEW out PROVE Piece(F, exact, c, 0, 0, out)
  <2>1. \A n : ~HasReset(c, n)
    BY <1>5 DEF HasReset
  <2>2. ResetEnds(c) = 0
    BY <1>5, <2>1, Counted
  <2>3. Scoped(c, out) /\ Tuned(exact, c)
    BY <1>1, <1>4, <1>5, <2>1 DEF Scoped, Leads, Tuned
  <2> QED BY <1>5, <2>1, <2>2, <2>3 DEF Piece
<1>7. PICK r : r = [chain |-> c, g |-> 0, sh |-> Top]
  OBVIOUS
<1>8. /\ runs = <<r>> /\ Len(runs) = 1 /\ DOMAIN runs = {1} /\ runs[1] = r
      /\ r.chain = c /\ r.g = 0 /\ r \in Calls(S, 1, 0) /\ runs \in Seq(Calls(S, 1, 0))
  <2>1. r \in Calls(S, 1, 0)
    BY <1>1, <1>3, <1>5, <1>7 DEF Calls
  <2> QED BY <1>3, <1>7, <2>1
<1>9. meta \in Seq(Infos(S, 1, 0)) /\ Len(meta) = 0 /\ Headed(meta)
  BY DEF Headed
<1>10. PICK last : last = [j \in 0 .. 1 |-> 0]
  OBVIOUS
<1>11. last[0] = 0 /\ last[1] = 0 /\ last \in [0 .. 1 -> 0 .. 0]
  BY <1>10
<1>12. Division(Len(runs), Len(meta), last)
  BY <1>8, <1>9, <1>10, <1>11 DEF Division
<1>13. ASSUME NEW j \in 1 .. Len(runs), NEW i \in last[j - 1] .. last[j]
       PROVE  Piece(F, exact, Chained(runs, meta, last, j, i), last[j] - i, runs[j].g,
                    Reached(runs, j + 1))
  <2>1. j = 1 /\ i = 0 /\ last[j] - i = 0 /\ last[j - 1] = 0
    BY <1>8, <1>11
  <2>2. Chained(runs, meta, last, j, i) = c /\ runs[j].g = 0
    BY <1>8, <2>1 DEF Chained
  <2> QED BY <1>6, <2>1, <2>2
<1>14. Parted(F, exact, runs, meta, last)
  BY <1>12, <1>13 DEF Parted
<1>15. GoodAt(S, exact, runs, meta, st, 1, 0)
  BY <1>2, <1>3, <1>8, <1>9, <1>14, OnwardIs DEF GoodAt
<1> QED BY <1>15 DEF Good

LEMMA StepGood ==
  ASSUME NEW S, NEW exact, Allowed(S, exact), Good(S, exact), [Next]_vars
  PROVE  st'.flow = Failed \/ Good(S, exact)'
<1>1. PICK v, g : GoodAt(S, exact, runs, meta, st, v, g)
  BY DEF Good
<1>2. CASE UNCHANGED vars
  BY <1>1, <1>2 DEF Good, vars
<1>3. CASE StepFrame
  BY <1>1, <1>3, StepFrameGood
<1>4. CASE ExecReset
  BY <1>1, <1>4, ExecResetGood
<1>5. CASE StepResetEnd
  BY <1>1, <1>5, StepResetEndGood
<1>6. CASE ExecShift
  BY <1>1, <1>6, ExecShiftGood
<1>7. CASE ContCall
  BY <1>1, <1>7, ContCallGood
<1>8. CASE ExecRedirected
  BY <1>1, <1>8, ExecRedirectedGood
<1>9. CASE RunEnds
  BY <1>1, <1>9, RunEndsGood
<1>10. CASE Lands
  BY <1>1, <1>10, LandsGood
<1>11. CASE RunFails
  BY <1>1, <1>11, RunFailsGood
<1> QED BY <1>2, <1>3, <1>4, <1>5, <1>6, <1>7, <1>8, <1>9, <1>10, <1>11 DEF Next

\* An error ends every run.
LEMMA StepFailed ==
  ASSUME st.flow = Failed, [Next]_vars
  PROVE  st'.flow = Failed
<1>1. \A frame : ~Ends(frame, st.flow)
  BY OnwardIs DEF Ends
<1>2. Place = 0
  BY <1>1 DEF Place, FirstPlace
<1>3. CASE UNCHANGED vars
  BY <1>3 DEF vars
<1>4. CASE RunFails
  BY <1>4 DEF RunFails, Caught
<1>5. ~Going /\ ~Lands
  BY <1>2, OnwardIs DEF Going, Lands
<1> QED BY <1>3, <1>4, <1>5, Zenon DEF Next, StepFrame, ExecReset, StepResetEnd, ExecShift, ContCall,
                                ExecRedirected, RunEnds, ControlAt

LEMMA GoodIsLive ==
  ASSUME NEW S, NEW exact, Good(S, exact)
  PROVE  MetaIsLive
<1>1. PICK v, g : GoodAt(S, exact, runs, meta, st, v, g)
  BY DEF Good
<1>2. PICK last : Parted(Frames(S, v, g), exact, runs, meta, last)
  BY <1>1 DEF GoodAt
<1>3. runs \in Seq(Calls(S, v, g)) /\ Len(runs) \in Nat /\ meta \in Seq(Infos(S, v, g))
  BY <1>1 DEF GoodAt
<1>4. /\ last \in [0 .. Len(runs) -> 0 .. Len(meta)] /\ last[0] = 0 /\ last[Len(runs)] = Len(meta)
      /\ \A i, j \in 0 .. Len(runs) : i <= j => last[i] <= last[j]
  BY <1>2 DEF Parted, Division
<1>5. ASSUME NEW j \in 1 .. Len(runs)
      PROVE  /\ last[j - 1] <= last[j] /\ last[j - 1] \in Int /\ last[j] \in Int
  <2>1. j - 1 \in 0 .. Len(runs) /\ j \in 0 .. Len(runs) /\ j - 1 <= j
    BY <1>3
  <2>2. last[j - 1] \in 0 .. Len(meta) /\ last[j] \in 0 .. Len(meta)
    BY <1>4, <2>1
  <2> QED BY <1>4, <2>1, <2>2
<1>6. ASSUME NEW j \in 1 .. Len(runs), NEW i \in last[j - 1] .. last[j]
      PROVE  ResetEnds(IF i = last[j - 1] THEN runs[j].chain ELSE meta[i].k) > 0 <=> i < last[j]
  <2>1. PICK c : c = IF i = last[j - 1] THEN runs[j].chain ELSE meta[i].k
    OBVIOUS
  <2>2. Piece(Frames(S, v, g), exact, c, last[j] - i, runs[j].g, Reached(runs, j + 1))
    BY <1>2, <2>1 DEF Parted, Chained
  <2>3. c \in Seq(Frames(S, v, g)) /\ (HasReset(c, 1) <=> last[j] - i > 0)
    BY <2>2 DEF Piece
  <2>4. ResetEnds(c) \in Nat /\ (ResetEnds(c) = 0 <=> ~HasReset(c, 1))
    BY <2>3, Counted
  <2>5. last[j] - i > 0 <=> i < last[j]
    BY <1>5
  <2> QED BY <2>1, <2>3, <2>4, <2>5
<1> QED BY <1>4, <1>5, <1>6 DEF MetaIsLive

\* A return, a break or a continue that is on its way.
Arrives == st.flow.k \in {"return", "break", "continue"} => st.flow \in Reached(runs, 1)

LEMMA GoodArrives ==
  ASSUME NEW S, NEW exact, Good(S, exact)
  PROVE  Arrives
<1>1. PICK v, g : GoodAt(S, exact, runs, meta, st, v, g)
  BY DEF Good
<1>2. st.flow \in AllFlows
  BY <1>1, HasTypes DEF GoodAt
<1>3. st.flow.k \in {"return", "break", "continue"} => st.flow \in Flows
  BY <1>2, OnwardIs DEF AllFlows
<1> QED BY <1>1, <1>3 DEF GoodAt, Arrives

\* The inductive invariant.
Inv(A, B) == st.flow = Failed \/ Good(A, FALSE) \/ Good(B, TRUE)

LEMMA InvHolds ==
  ASSUME NEW A, NEW B, Statements(A), Statements(B), NoFullList(A), NoResume(B),
         Programs \subseteq Seq(A) \cup Seq(B)
  PROVE  Spec => []Inv(A, B)
<1>1. Init => Inv(A, B)
  <2> SUFFICES ASSUME Init PROVE Inv(A, B)
    OBVIOUS
  <2>1. PICK p \in Programs : /\ runs = <<[chain |-> <<Lines(Top, p)>>, g |-> 0, sh |-> Top]>>
                              /\ meta = <<>> /\ st = Fresh
    BY DEF Init
  <2>2. CASE p \in Seq(A)
    BY <2>1, <2>2, StartGood DEF Inv
  <2>3. CASE p \in Seq(B)
    BY <2>1, <2>3, StartGood DEF Inv
  <2> QED BY <2>2, <2>3
<1>2. Inv(A, B) /\ [Next]_vars => Inv(A, B)'
  <2> SUFFICES ASSUME Inv(A, B), [Next]_vars PROVE Inv(A, B)'
    OBVIOUS
  <2>1. Allowed(A, FALSE) /\ Allowed(B, TRUE)
    BY DEF Allowed
  <2>2. CASE st.flow = Failed
    BY <2>2, StepFailed DEF Inv
  <2>3. CASE Good(A, FALSE)
    BY <2>1, <2>3, StepGood DEF Inv
  <2>4. CASE Good(B, TRUE)
    BY <2>1, <2>4, StepGood DEF Inv
  <2> QED BY <2>2, <2>3, <2>4 DEF Inv
<1> QED BY <1>1, <1>2, PTL DEF Spec

\* `meta' holds the resets that are being run and no others, through any number
\* of nested runs, shifts and calls of continuations, when no script has both a
\* full variable list and a call of a continuation.  (With both it does not hold:
\* a stop that leaves a continuation passes the one end of its reset, and the
\* entries of meta for the resets around its call are left there.)
THEOREM MetaStaysLive ==
  ASSUME NEW A, NEW B, Statements(A), Statements(B), NoFullList(A), NoResume(B),
         Programs \subseteq Seq(A) \cup Seq(B)
  PROVE  Spec => []MetaIsLive
<1>1. Inv(A, B) => MetaIsLive
  BY GoodIsLive, OnwardIs DEF Inv, MetaIsLive
<1> QED BY <1>1, InvHolds, PTL

\* A return, break or continue finds the frame of its function or loop, in its
\* run or in one around it, and no reset lies between: none is lost with the
\* frames that a shift takes away or that a continuation brings back.
THEOREM FlowsArrive ==
  ASSUME NEW A, NEW B, Statements(A), Statements(B), NoFullList(A), NoResume(B),
         Programs \subseteq Seq(A) \cup Seq(B)
  PROVE  Spec => []Arrives
<1>1. Inv(A, B) => Arrives
  BY GoodArrives, OnwardIs DEF Inv, Arrives
<1> QED BY <1>1, InvHolds, PTL

----------------------------------------------------------------------------
(***************************************************************************)
(* What is left at a place: RestOf is the function that Pile describes.    *)
(***************************************************************************)
Left(rs, mt, p) == (Len(mt) - p[1]) + (Len(rs) - p[2])

\* A place as a triple.
LEMMA PlaceIs ==
  ASSUME NEW R, NEW rs \in Seq(R), NEW M, NEW mt \in Seq(M), NEW p \in Places(rs, mt)
  PROVE  /\ p[1] \in 0 .. Len(mt) /\ p[2] \in 0 .. Len(rs) /\ p[3] \in BOOLEAN
         /\ p = <<p[1], p[2], p[3]>> /\ Left(rs, mt, p) \in Nat
BY DEF Places, Left

\* What is left at a place depends on what is left at the places after it.
LEMMA PileLocal ==
  ASSUME NEW R, NEW rs \in Seq(R), NEW M, NEW mt \in Seq(M), NEW p \in Places(rs, mt),
         NEW h, NEW o,
         \A q \in Places(rs, mt) : Left(rs, mt, q) < Left(rs, mt, p) => h[q] = o[q]
  PROVE  Pile(rs, mt, h, p[1], p[2], p[3]) = Pile(rs, mt, o, p[1], p[2], p[3])
<1>1. PICK i, j, r : i = p[1] /\ j = p[2] /\ r = p[3]
  OBVIOUS
<1>2. i \in 0 .. Len(mt) /\ j \in 0 .. Len(rs) /\ Len(mt) \in Nat /\ Len(rs) \in Nat
  BY <1>1, PlaceIs
<1>3. Left(rs, mt, p) = (Len(mt) - i) + (Len(rs) - j)
  BY <1>1 DEF Left
<1>4. i < Len(mt) => h[<<i + 1, j, TRUE>>] = o[<<i + 1, j, TRUE>>]
  <2> SUFFICES ASSUME i < Len(mt) PROVE h[<<i + 1, j, TRUE>>] = o[<<i + 1, j, TRUE>>]
    OBVIOUS
  <2>1. PICK q : q = <<i + 1, j, TRUE>>
    OBVIOUS
  <2>2. i + 1 \in 0 .. Len(mt)
    BY <1>2
  <2>3. q \in Places(rs, mt) /\ q[1] = i + 1 /\ q[2] = j
    BY <1>2, <2>1, <2>2 DEF Places
  <2>4. Left(rs, mt, q) < Left(rs, mt, p)
    BY <1>2, <1>3, <2>3 DEF Left
  <2> QED BY <2>1, <2>3, <2>4
<1>5. j < Len(rs) => h[<<i, j + 1, FALSE>>] = o[<<i, j + 1, FALSE>>]
  <2> SUFFICES ASSUME j < Len(rs) PROVE h[<<i, j + 1, FALSE>>] = o[<<i, j + 1, FALSE>>]
    OBVIOUS
  <2>1. PICK q : q = <<i, j + 1, FALSE>>
    OBVIOUS
  <2>2. j + 1 \in 0 .. Len(rs)
    BY <1>2
  <2>3. q \in Places(rs, mt) /\ q[1] = i /\ q[2] = j + 1
    BY <1>2, <2>1, <2>2 DEF Places
  <2>4. Left(rs, mt, q) < Left(rs, mt, p)
    BY <1>2, <1>3, <2>3 DEF Left
  <2> QED BY <2>1, <2>3, <2>4
<1>6. CASE j = Len(rs)
  BY <1>1, <1>6, Zenon DEF Pile
<1>7. CASE j # Len(rs)
  <2>1. j < Len(rs)
    BY <1>2, <1>7
  <2>2. PICK c : c = IF r THEN mt[i].k ELSE rs[j + 1].chain
    OBVIOUS
  <2>3. Follow(rs, mt, h, c, i, j) = Follow(rs, mt, o, c, i, j)
    BY <1>4, <1>5, <2>1, Zenon DEF Follow
  <2> QED BY <1>1, <1>7, <2>2, <2>3, Zenon DEF Pile
<1> QED BY <1>6, <1>7

\* h is right at the places after which n or fewer things are left.
Solves(rs, mt, h, n) ==
  /\ h = [p \in Places(rs, mt) |-> h[p]]
  /\ \A p \in Places(rs, mt) :
       Left(rs, mt, p) < n => h[p] = Pile(rs, mt, h, p[1], p[2], p[3])

\* There is a function that is right at every place.
LEMMA Solved ==
  ASSUME NEW R, NEW rs \in Seq(R), NEW M, NEW mt \in Seq(M), NEW n \in Nat
  PROVE  \E h : Solves(rs, mt, h, n)
<1>1. PICK T : T = {m \in Nat : ~\E h : Solves(rs, mt, h, m)}
  OBVIOUS
<1>2. SUFFICES ASSUME T # {} PROVE FALSE
  BY <1>1
<1>3. PICK m : m = Min(T)
  OBVIOUS
<1>4. m \in T /\ \A y \in T : m <= y
  BY <1>1, <1>2, <1>3, Least
<1>5. m \in Nat /\ ~\E h : Solves(rs, mt, h, m)
  BY <1>1, <1>4
<1>6. CASE m = 0
  <2>1. PICK h : h = [p \in Places(rs, mt) |-> <<>>]
    OBVIOUS
  <2>2. h = [p \in Places(rs, mt) |-> h[p]]
    BY <2>1
  <2>3. \A p \in Places(rs, mt) : ~(Left(rs, mt, p) < 0)
    BY PlaceIs
  <2>4. Solves(rs, mt, h, 0)
    BY <2>2, <2>3 DEF Solves
  <2> QED BY <1>5, <1>6, <2>4
<1>7. CASE m # 0
  <2>1. m - 1 \in Nat /\ ~(m <= m - 1)
    BY <1>5, <1>7
  <2>2. m - 1 \notin T
    BY <1>4, <2>1
  <2>3. PICK h : Solves(rs, mt, h, m - 1)
    BY <1>1, <2>1, <2>2
  <2>4. PICK o : o = [p \in Places(rs, mt) |-> Pile(rs, mt, h, p[1], p[2], p[3])]
    OBVIOUS
  <2>5. o = [p \in Places(rs, mt) |-> o[p]]
    BY <2>4
  <2>6. ASSUME NEW p \in Places(rs, mt), Left(rs, mt, p) < m
        PROVE  o[p] = Pile(rs, mt, o, p[1], p[2], p[3])
    <3>1. ASSUME NEW q \in Places(rs, mt), Left(rs, mt, q) < Left(rs, mt, p) PROVE h[q] = o[q]
      <4>1. Left(rs, mt, q) \in Nat /\ Left(rs, mt, p) \in Nat
        BY PlaceIs
      <4>2. Left(rs, mt, q) < m - 1
        BY <1>5, <2>6, <3>1, <4>1
      <4>3. h[q] = Pile(rs, mt, h, q[1], q[2], q[3])
        BY <2>3, <4>2 DEF Solves
      <4> QED BY <2>4, <4>3
    <3>2. Pile(rs, mt, h, p[1], p[2], p[3]) = Pile(rs, mt, o, p[1], p[2], p[3])
      BY <3>1, PileLocal
    <3> QED BY <2>4, <3>2
  <2>7. Solves(rs, mt, o, m)
    BY <2>5, <2>6 DEF Solves
  <2> QED BY <1>5, <2>7
<1> QED BY <1>6, <1>7

\* RestOf is right at every place.
LEMMA RestIs ==
  ASSUME NEW R, NEW rs \in Seq(R), NEW M, NEW mt \in Seq(M)
  PROVE  RestOf(rs, mt) =
           [p \in Places(rs, mt) |-> Pile(rs, mt, RestOf(rs, mt), p[1], p[2], p[3])]
<1>1. PICK n : n = Len(mt) + Len(rs) + 1
  OBVIOUS
<1>2. n \in Nat /\ Len(mt) \in Nat /\ Len(rs) \in Nat
  BY <1>1
<1>3. \A p \in Places(rs, mt) : Left(rs, mt, p) < n
  BY <1>1, <1>2, PlaceIs DEF Left
<1>4. PICK h : Solves(rs, mt, h, n)
  BY <1>2, Solved
<1>5. /\ h = [p \in Places(rs, mt) |-> h[p]]
      /\ \A p \in Places(rs, mt) : h[p] = Pile(rs, mt, h, p[1], p[2], p[3])
  BY <1>3, <1>4 DEF Solves
<1>6. h = [p \in Places(rs, mt) |-> Pile(rs, mt, h, p[1], p[2], p[3])]
  BY <1>5
<1>7. RestOf(rs, mt) =
        CHOOSE f : f = [p \in Places(rs, mt) |-> Pile(rs, mt, f, p[1], p[2], p[3])]
  BY Zenon DEF RestOf
<1> QED BY <1>6, <1>7, Zenon

Rest(rs, mt, i, j, r) == RestOf(rs, mt)[<<i, j, r>>]

\* What comes after the Chain c of a place.
Below(rs, mt, c, i, j) == Follow(rs, mt, RestOf(rs, mt), c, i, j)

\* What is left at a place.
LEMMA RestAt ==
  ASSUME NEW R, NEW rs \in Seq(R), NEW M, NEW mt \in Seq(M),
         NEW i \in 0 .. Len(mt), NEW j \in 0 .. Len(rs), NEW r \in BOOLEAN,
         NEW c, c = IF r THEN mt[i].k ELSE rs[j + 1].chain
  PROVE  Rest(rs, mt, i, j, r) = IF j = Len(rs) THEN <<>> ELSE Before(c) \o Below(rs, mt, c, i, j)
<1>1. PICK p : p = <<i, j, r>>
  OBVIOUS
<1>2. p \in Places(rs, mt) /\ p[1] = i /\ p[2] = j /\ p[3] = r
  BY <1>1 DEF Places
<1>3. RestOf(rs, mt)[p] = Pile(rs, mt, RestOf(rs, mt), i, j, r)
  <2>1. PICK h : h = RestOf(rs, mt)
    OBVIOUS
  <2>2. h = [q \in Places(rs, mt) |-> Pile(rs, mt, h, q[1], q[2], q[3])]
    BY <2>1, RestIs
  <2>3. h[p] = Pile(rs, mt, h, p[1], p[2], p[3])
    BY <1>2, <2>2
  <2> QED BY <1>2, <2>1, <2>3
<1> QED BY <1>1, <1>3 DEF Rest, Below, Pile

\* What is left at a place that has a Chain c.
LeftOf(rs, mt, c, i, j) == IF j = Len(rs) THEN <<>> ELSE Before(c) \o Below(rs, mt, c, i, j)

LEMMA LeftIs ==
  ASSUME NEW R, NEW rs \in Seq(R), NEW M, NEW mt \in Seq(M),
         NEW i \in 0 .. Len(mt), NEW j \in 0 .. Len(rs), NEW r \in BOOLEAN,
         NEW c, c = IF r THEN mt[i].k ELSE rs[j + 1].chain
  PROVE  Rest(rs, mt, i, j, r) = LeftOf(rs, mt, c, i, j)
BY RestAt DEF LeftOf

\* From the place i, j on the other runs and the other meta are the same, moved
\* by e and d; only the Chain of the run of the place may differ.
Moved(rs, mt, os, ot, i, j, d, e) ==
  /\ i \in 0 .. Len(mt) /\ j \in Nat /\ j < Len(rs)
  /\ d \in Int /\ e \in Int /\ i + d >= 0 /\ j + e >= 0
  /\ Len(ot) = Len(mt) + d /\ Len(os) = Len(rs) + e
  /\ \A x \in i + 1 .. Len(mt) : ot[x + d] = mt[x]
  /\ \A y \in j + 2 .. Len(rs) : os[y + e] = rs[y]
  /\ os[j + 1 + e].g = rs[j + 1].g /\ os[j + 1 + e].sh = rs[j + 1].sh

\* The same comes after the two places.
SameAfter(rs, mt, i, j, os, ot, x, y) ==
  /\ i < Len(mt) <=> x < Len(ot)
  /\ i < Len(mt) => /\ ot[x + 1].sh = mt[i + 1].sh
                    /\ Rest(os, ot, x + 1, y, TRUE) = Rest(rs, mt, i + 1, j, TRUE)
  /\ os[y + 1].g = rs[j + 1].g /\ os[y + 1].sh = rs[j + 1].sh
  /\ Rest(os, ot, x, y + 1, FALSE) = Rest(rs, mt, i, j + 1, FALSE)

\* What comes after the Chain c of a place.
LEMMA BelowAt ==
  ASSUME NEW rs, NEW mt, NEW c, NEW i, NEW j, NEW os, NEW ot, NEW x, NEW y,
         SameAfter(rs, mt, i, j, os, ot, x, y)
  PROVE  Below(os, ot, c, x, y) = Below(rs, mt, c, i, j)
<1>1. CASE ResetEnds(c) > 0 /\ i < Len(mt)
  BY <1>1, Zenon DEF SameAfter, Below, Follow, Rest
<1>2. CASE ~(ResetEnds(c) > 0 /\ i < Len(mt))
  BY <1>2, Zenon DEF SameAfter, Below, Follow, Rest
<1> QED BY <1>1, <1>2

\* What is left is the same at a place and at the place it has moved to.
LEMMA RestMoves ==
  ASSUME NEW R, NEW rs \in Seq(R), NEW M, NEW mt \in Seq(M), NEW os \in Seq(R), NEW ot \in Seq(M),
         NEW I, NEW J, NEW d, NEW e, Moved(rs, mt, os, ot, I, J, d, e),
         NEW i \in I .. Len(mt), NEW j \in J .. Len(rs), NEW r \in BOOLEAN,
         IF r THEN i > I ELSE j > J
  PROVE  Rest(os, ot, i + d, j + e, r) = Rest(rs, mt, i, j, r)
<1> DEFINE Bad(n) == \E a \in I .. Len(mt), b \in J .. Len(rs), q \in BOOLEAN :
                       /\ IF q THEN a > I ELSE b > J
                       /\ n = (Len(mt) - a) + (Len(rs) - b)
                       /\ Rest(os, ot, a + d, b + e, q) # Rest(rs, mt, a, b, q)
<1>1. /\ I \in 0 .. Len(mt) /\ J \in Nat /\ J < Len(rs) /\ Len(mt) \in Nat /\ Len(rs) \in Nat
      /\ d \in Int /\ e \in Int /\ I + d >= 0 /\ J + e >= 0
      /\ Len(ot) = Len(mt) + d /\ Len(os) = Len(rs) + e
  <2>1. Len(mt) \in Nat /\ Len(rs) \in Nat
    OBVIOUS
  <2> QED BY <2>1, Zenon DEF Moved
<1>2. PICK T : T = {n \in Nat : Bad(n)}
  OBVIOUS
<1>3. SUFFICES ASSUME T # {} PROVE FALSE
  <2> SUFFICES ASSUME Rest(os, ot, i + d, j + e, r) # Rest(rs, mt, i, j, r) PROVE T # {}
    OBVIOUS
  <2>1. PICK n : n = (Len(mt) - i) + (Len(rs) - j)
    OBVIOUS
  <2>2. n \in Nat
    BY <1>1, <2>1
  <2>3. Bad(n)
    BY <2>1
  <2> HIDE DEF Bad
  <2> QED BY <1>2, <2>2, <2>3
<1>4. PICK n : n = Min(T)
  OBVIOUS
<1>5. n \in Nat /\ Bad(n) /\ \A y \in T : n <= y
  <2> HIDE DEF Bad
  <2>1. n \in T /\ \A y \in T : n <= y
    BY <1>2, <1>3, <1>4, Least
  <2> QED BY <1>2, <2>1
<1>6. PICK a \in I .. Len(mt), b \in J .. Len(rs), q \in BOOLEAN :
        /\ IF q THEN a > I ELSE b > J
        /\ n = (Len(mt) - a) + (Len(rs) - b)
        /\ Rest(os, ot, a + d, b + e, q) # Rest(rs, mt, a, b, q)
  BY <1>5
<1>7. ASSUME NEW x \in I .. Len(mt), NEW y \in J .. Len(rs), NEW z \in BOOLEAN,
             IF z THEN x > I ELSE y > J, (Len(mt) - x) + (Len(rs) - y) < n
      PROVE  Rest(os, ot, x + d, y + e, z) = Rest(rs, mt, x, y, z)
  <2>1. PICK l : l = (Len(mt) - x) + (Len(rs) - y)
    OBVIOUS
  <2>2. ASSUME Rest(os, ot, x + d, y + e, z) # Rest(rs, mt, x, y, z) PROVE Bad(l)
    BY <1>7, <2>1, <2>2
  <2> HIDE DEF Bad
  <2>3. l \in Nat /\ ~(n <= l)
    <3>1. PICK k, m : k = Len(mt) /\ m = Len(rs)
      OBVIOUS
    <3>2. k \in Nat /\ m \in Nat /\ I \in Nat /\ J \in Nat /\ n \in Nat
      BY <1>1, <1>5, <3>1
    <3>3. x \in I .. k /\ y \in J .. m /\ l = (k - x) + (m - y) /\ l < n
      BY <1>7, <2>1, <3>1
    <3> QED BY ONLY <3>2, <3>3
  <2>4. l \notin T
    BY <1>5, <2>3
  <2> QED BY <1>2, <2>2, <2>3, <2>4
<1> HIDE DEF Bad
<1>8. a + d \in 0 .. Len(ot) /\ b + e \in 0 .. Len(os) /\ a \in 0 .. Len(mt) /\ b \in 0 .. Len(rs)
  <2>1. PICK k, m : k = Len(mt) /\ m = Len(rs)
    OBVIOUS
  <2>2. /\ k \in Nat /\ m \in Nat /\ I \in Nat /\ J \in Nat /\ a \in I .. k /\ b \in J .. m
        /\ d \in Int /\ e \in Int /\ I + d >= 0 /\ J + e >= 0
    BY <1>1, <1>6, <2>1
  <2>3. a + d \in 0 .. k + d /\ b + e \in 0 .. m + e /\ a \in 0 .. k /\ b \in 0 .. m
    BY ONLY <2>2
  <2> QED BY <1>1, <2>1, <2>3
<1>9. PICK c, o : /\ c = IF q THEN mt[a].k ELSE rs[b + 1].chain
                  /\ o = IF q THEN ot[a + d].k ELSE os[b + e + 1].chain
  OBVIOUS
<1>10. Rest(rs, mt, a, b, q) = IF b = Len(rs) THEN <<>> ELSE Before(c) \o Below(rs, mt, c, a, b)
  <2>1. /\ a \in 0 .. Len(mt) /\ b \in 0 .. Len(rs) /\ rs \in Seq(R) /\ mt \in Seq(M)
        /\ q \in BOOLEAN /\ c = IF q THEN mt[a].k ELSE rs[b + 1].chain
    BY <1>8, <1>9
  <2>2. Rest(rs, mt, a, b, q) = LeftOf(rs, mt, c, a, b)
    BY ONLY <2>1, LeftIs
  <2> QED BY <2>2, Zenon DEF LeftOf
<1>11. Rest(os, ot, a + d, b + e, q) =
         IF b + e = Len(os) THEN <<>> ELSE Before(o) \o Below(os, ot, o, a + d, b + e)
  <2>1. PICK x, y : x = a + d /\ y = b + e
    OBVIOUS
  <2>2. x \in 0 .. Len(ot) /\ y \in 0 .. Len(os) /\ o = IF q THEN ot[x].k ELSE os[y + 1].chain
    BY <1>8, <1>9, <2>1
  <2>3. Rest(os, ot, x, y, q) = LeftOf(os, ot, o, x, y)
    <3>1. os \in Seq(R) /\ ot \in Seq(M) /\ q \in BOOLEAN
      OBVIOUS
    <3> QED BY ONLY <2>2, <3>1, LeftIs
  <2> QED BY <2>1, <2>3, Zenon DEF LeftOf
<1>12. b # Len(rs)
  <2> SUFFICES ASSUME b = Len(rs) PROVE FALSE
    OBVIOUS
  <2>1. b + e = Len(os)
    BY <1>1
  <2> QED BY <1>6, <1>10, <1>11, <2>1
<1>13. b < Len(rs) /\ b + e # Len(os) /\ b \in Int /\ a \in Int
  BY <1>1, <1>8, <1>12
<1>14. o = c
  <2>1. CASE q
    <3>1. a \in I + 1 .. Len(mt)
      BY <1>1, <1>6, <2>1
    <3>2. ot[a + d] = mt[a]
      BY <3>1 DEF Moved
    <3> QED BY <1>9, <2>1, <3>2
  <2>2. CASE ~q
    <3>1. b + 1 \in J + 2 .. Len(rs)
      BY <1>1, <1>6, <1>13, <2>2
    <3>2. os[(b + 1) + e] = rs[b + 1]
      BY <3>1 DEF Moved
    <3>3. (b + 1) + e = b + e + 1
      BY <1>1, <1>13
    <3> QED BY <1>9, <2>2, <3>2, <3>3
  <2> QED BY <2>1, <2>2
<1>15. Below(os, ot, c, a + d, b + e) = Below(rs, mt, c, a, b)
  <2>1. PICK x, y : x = a + d /\ y = b + e
    OBVIOUS
  <2>2. a < Len(mt) <=> x < Len(ot)
    BY <1>1, <1>13, <2>1
  <2>3. a < Len(mt) => /\ ot[x + 1].sh = mt[a + 1].sh
                       /\ Rest(os, ot, x + 1, y, TRUE) = Rest(rs, mt, a + 1, b, TRUE)
    <3> SUFFICES ASSUME a < Len(mt)
                 PROVE  /\ ot[x + 1].sh = mt[a + 1].sh
                        /\ Rest(os, ot, x + 1, y, TRUE) = Rest(rs, mt, a + 1, b, TRUE)
      OBVIOUS
    <3>1. a + 1 \in I + 1 .. Len(mt) /\ (a + 1) + d = x + 1 /\ a + 1 \in I .. Len(mt) /\ a + 1 > I
      BY <1>1, <1>6, <1>13, <2>1
    <3>2. ot[(a + 1) + d] = mt[a + 1]
      BY <3>1 DEF Moved
    <3>3. (Len(mt) - (a + 1)) + (Len(rs) - b) < n
      BY <1>1, <1>6, <1>13
    <3>4. Rest(os, ot, (a + 1) + d, b + e, TRUE) = Rest(rs, mt, a + 1, b, TRUE)
      BY <1>7, <3>1, <3>3
    <3> QED BY <2>1, <3>1, <3>2, <3>4
  <2>4. Rest(os, ot, x, y + 1, FALSE) = Rest(rs, mt, a, b + 1, FALSE)
    <3>1. b + 1 \in J .. Len(rs) /\ b + 1 > J /\ (b + 1) + e = y + 1
      BY <1>1, <1>6, <1>13, <2>1
    <3>2. (Len(mt) - a) + (Len(rs) - (b + 1)) < n
      BY <1>1, <1>6, <1>13
    <3>3. Rest(os, ot, a + d, (b + 1) + e, FALSE) = Rest(rs, mt, a, b + 1, FALSE)
      BY <1>7, <3>1, <3>2
    <3> QED BY <2>1, <3>1, <3>3
  <2>5. os[y + 1].g = rs[b + 1].g /\ os[y + 1].sh = rs[b + 1].sh
    <3>1. CASE b = J
      <4>1. y + 1 = J + 1 + e
        BY <1>1, <2>1, <3>1
      <4> QED BY <3>1, <4>1 DEF Moved
    <3>2. CASE b # J
      <4>1. b + 1 \in J + 2 .. Len(rs) /\ (b + 1) + e = y + 1
        BY <1>1, <1>6, <1>13, <2>1, <3>2
      <4>2. os[(b + 1) + e] = rs[b + 1]
        BY <4>1 DEF Moved
      <4> QED BY <4>1, <4>2
    <3> QED BY <3>1, <3>2
  <2>6. Below(os, ot, c, x, y) = Below(rs, mt, c, a, b)
    <3>1. SameAfter(rs, mt, a, b, os, ot, x, y)
      BY ONLY <2>2, <2>3, <2>4, <2>5 DEF SameAfter
    <3> QED BY ONLY <3>1, BelowAt
  <2> QED BY <2>1, <2>6
<1> QED BY <1>6, <1>10, <1>11, <1>12, <1>13, <1>14, <1>15

\* What comes after the Chain of the place is the same.
LEMMA BelowMoves ==
  ASSUME NEW R, NEW rs \in Seq(R), NEW M, NEW mt \in Seq(M), NEW os \in Seq(R), NEW ot \in Seq(M),
         NEW i, NEW j, NEW d, NEW e, Moved(rs, mt, os, ot, i, j, d, e), NEW c
  PROVE  Below(os, ot, c, i + d, j + e) = Below(rs, mt, c, i, j)
<1>1. /\ i \in 0 .. Len(mt) /\ j \in Nat /\ j < Len(rs) /\ Len(mt) \in Nat /\ Len(rs) \in Nat
      /\ d \in Int /\ e \in Int /\ Len(ot) = Len(mt) + d /\ Len(os) = Len(rs) + e
      /\ os[j + 1 + e].g = rs[j + 1].g /\ os[j + 1 + e].sh = rs[j + 1].sh
  BY DEF Moved
<1>2. PICK x, y : x = i + d /\ y = j + e
  OBVIOUS
<1>3. (i < Len(mt) <=> x < Len(ot)) /\ j + 1 + e = y + 1
  BY <1>1, <1>2
<1>4. i < Len(mt) => /\ ot[x + 1].sh = mt[i + 1].sh
                     /\ Rest(os, ot, x + 1, y, TRUE) = Rest(rs, mt, i + 1, j, TRUE)
  <2> SUFFICES ASSUME i < Len(mt)
               PROVE  /\ ot[x + 1].sh = mt[i + 1].sh
                      /\ Rest(os, ot, x + 1, y, TRUE) = Rest(rs, mt, i + 1, j, TRUE)
    OBVIOUS
  <2>1. /\ i + 1 \in i + 1 .. Len(mt) /\ (i + 1) + d = x + 1 /\ i + 1 \in i .. Len(mt) /\ i + 1 > i
        /\ j \in j .. Len(rs)
    <3>1. PICK a, b : a = Len(mt) /\ b = Len(rs)
      OBVIOUS
    <3>2. i \in 0 .. a /\ i < a /\ a \in Nat /\ d \in Int /\ x = i + d /\ j \in Nat /\ j < b /\ b \in Nat
      BY <1>1, <1>2, <3>1
    <3>3. /\ i + 1 \in i + 1 .. a /\ (i + 1) + d = x + 1 /\ i + 1 \in i .. a /\ i + 1 > i
          /\ j \in j .. b
      BY ONLY <3>2
    <3> QED BY <3>1, <3>3
  <2>2. ot[(i + 1) + d] = mt[i + 1]
    BY <2>1 DEF Moved
  <2>3. Rest(os, ot, (i + 1) + d, j + e, TRUE) = Rest(rs, mt, i + 1, j, TRUE)
    <3>0. PICK r \in BOOLEAN : r = TRUE
      OBVIOUS
    <3>1. PICK a : r = TRUE /\ a = i + 1
      BY <3>0
    <3>2. a \in i .. Len(mt) /\ (IF r THEN a > i ELSE j > j)
      BY <2>1, <3>1
    <3>3. Rest(os, ot, a + d, j + e, r) = Rest(rs, mt, a, j, r)
      BY <2>1, <3>2, RestMoves
    <3> QED BY <3>1, <3>3
  <2> QED BY <1>2, <2>1, <2>2, <2>3
<1>5. Rest(os, ot, x, y + 1, FALSE) = Rest(rs, mt, i, j + 1, FALSE)
  <2>1. j + 1 \in j .. Len(rs) /\ j + 1 > j /\ (j + 1) + e = y + 1 /\ i \in i .. Len(mt)
    BY <1>1, <1>2
  <2>2. Rest(os, ot, i + d, (j + 1) + e, FALSE) = Rest(rs, mt, i, j + 1, FALSE)
    <3>0. PICK r \in BOOLEAN : r = FALSE
      OBVIOUS
    <3>1. PICK b : r = FALSE /\ b = j + 1
      BY <3>0
    <3>2. b \in j .. Len(rs) /\ (IF r THEN i > i ELSE b > j)
      BY <1>1, <3>1
    <3>3. Rest(os, ot, i + d, b + e, r) = Rest(rs, mt, i, b, r)
      BY <2>1, <3>2, RestMoves
    <3> QED BY <3>1, <3>3
  <2> QED BY <1>2, <2>1, <2>2
<1>6. Below(os, ot, c, x, y) = Below(rs, mt, c, i, j)
  <2>1. SameAfter(rs, mt, i, j, os, ot, x, y)
    BY ONLY <1>1, <1>3, <1>4, <1>5 DEF SameAfter
  <2> QED BY ONLY <2>1, BelowAt
<1> QED BY <1>2, <1>6

----------------------------------------------------------------------------
(***************************************************************************)
(* A Chain up to the end of its reset.                                     *)
(***************************************************************************)
\* Before, by the first end of a reset.
LEMMA BeforeIs ==
  ASSUME NEW F, NEW c \in Seq(F)
  PROVE  /\ ~HasReset(c, 1) => Before(c) = c
         /\ \A n \in DOMAIN c :
              c[n] = ResetEnd /\ (\A m \in 1 .. n - 1 : c[m] # ResetEnd) => Before(c) = SubSeq(c, 1, n - 1)
<1> DEFINE T == {j \in 1 .. Len(c) : c[j] = ResetEnd}
<1>1. DOMAIN c = 1 .. Len(c) /\ Len(c) \in Nat
  OBVIOUS
<1>2. PICK x : x = (IF T # {} THEN Min(T) ELSE 0)
  OBVIOUS
<1>3. FirstPlace(c, LAMBDA frame : frame = ResetEnd) = x
  BY <1>2 DEF FirstPlace
<1>4. Before(c) = IF x = 0 THEN c ELSE SubSeq(c, 1, x - 1)
  BY <1>3, Zenon DEF Before
<1>5. T \subseteq Nat
  BY <1>1
<1>6. ASSUME ~HasReset(c, 1) PROVE Before(c) = c
  <2>1. T = {}
    BY <1>1, <1>6 DEF HasReset
  <2> QED BY <1>2, <1>4, <2>1
<1>7. ASSUME NEW n \in DOMAIN c, c[n] = ResetEnd, \A m \in 1 .. n - 1 : c[m] # ResetEnd
      PROVE  Before(c) = SubSeq(c, 1, n - 1)
  <2>1. n \in T
    BY <1>1, <1>7
  <2>2. x \in T /\ x <= n
    <3> HIDE DEF T
    <3> QED BY <1>2, <1>5, <2>1, Least
  <2>3. x = n /\ x # 0
    BY <1>1, <1>7, <2>2
  <2> QED BY <1>4, <2>3
<1> QED BY <1>6, <1>7

\* The first end of a reset.
LEMMA FirstReset ==
  ASSUME NEW F, NEW c \in Seq(F), HasReset(c, 1)
  PROVE  \E n \in DOMAIN c : c[n] = ResetEnd /\ \A m \in 1 .. n - 1 : c[m] # ResetEnd
BY UpTo

\* Before takes frames of the Chain.
LEMMA BeforeType ==
  ASSUME NEW F, NEW c \in Seq(F)
  PROVE  /\ Before(c) \in Seq(F) /\ \A m \in DOMAIN Before(c) : Before(c)[m] # ResetEnd
         /\ \A m \in DOMAIN Before(c) : m \in DOMAIN c /\ Before(c)[m] = c[m]
<1>1. CASE ~HasReset(c, 1)
  BY <1>1, BeforeIs DEF HasReset
<1>2. CASE HasReset(c, 1)
  <2>1. PICK n \in DOMAIN c : c[n] = ResetEnd /\ \A m \in 1 .. n - 1 : c[m] # ResetEnd
    BY <1>2, FirstReset
  <2>2. PICK e : e = SubSeq(c, 1, n - 1)
    OBVIOUS
  <2>3. Before(c) = e
    BY <2>1, <2>2, BeforeIs
  <2>4. e \in Seq(F) /\ DOMAIN e = 1 .. n - 1 /\ \A m \in 1 .. n - 1 : m \in DOMAIN c /\ e[m] = c[m]
    BY <2>2
  <2> QED BY <2>1, <2>3, <2>4
<1> QED BY <1>1, <1>2

\* A Chain that begins with the end of a reset.
LEMMA BeforeReset ==
  ASSUME NEW F, NEW c \in Seq(F), c # <<>>, c[1] = ResetEnd
  PROVE  Before(c) = <<>>
<1>1. 1 \in DOMAIN c /\ \A m \in 1 .. 1 - 1 : c[m] # ResetEnd
  OBVIOUS
<1>2. Before(c) = SubSeq(c, 1, 1 - 1)
  BY <1>1, BeforeIs
<1> QED BY <1>2

\* Frames without the end of a reset before others.
LEMMA BeforeJoin ==
  ASSUME NEW F, NEW a \in Seq(F), NEW k \in Seq(F), \A i \in DOMAIN a : a[i] # ResetEnd
  PROVE  /\ Before(a \o k) = a \o Before(k)
         /\ HasReset(a \o k, 1) <=> HasReset(k, 1)
<1>1. PICK c, l, n : c = a \o k /\ l = Len(a) /\ n = Len(k)
  OBVIOUS
<1>2. /\ l \in Nat /\ n \in Nat /\ c \in Seq(F) /\ Len(c) = l + n /\ DOMAIN c = 1 .. l + n
      /\ DOMAIN a = 1 .. l /\ DOMAIN k = 1 .. n
      /\ \A i \in 1 .. l : c[i] = a[i]
      /\ \A i \in 1 .. n : c[l + i] = k[i]
  BY <1>1
<1>3. CASE ~HasReset(k, 1)
  <2>1. ASSUME NEW i \in DOMAIN c PROVE c[i] # ResetEnd
    <3>1. CASE i <= l
      BY <1>2, <3>1
    <3>2. CASE ~(i <= l)
      <4>1. i - l \in 1 .. n /\ l + (i - l) = i /\ i - l >= 1
        BY <1>2, <3>2
      <4>2. c[i] = k[i - l]
        BY <1>2, <4>1
      <4> QED BY <1>2, <1>3, <4>1, <4>2 DEF HasReset
    <3> QED BY <3>1, <3>2
  <2>2. ~HasReset(c, 1)
    BY <2>1 DEF HasReset
  <2>3. Before(c) = c /\ Before(k) = k
    BY <1>2, <1>3, <2>2, BeforeIs
  <2> QED BY <1>1, <1>3, <2>2, <2>3
<1>4. CASE HasReset(k, 1)
  <2>1. PICK m \in DOMAIN k : k[m] = ResetEnd /\ \A i \in 1 .. m - 1 : k[i] # ResetEnd
    BY <1>4, FirstReset
  <2>2. PICK e : e = SubSeq(k, 1, m - 1)
    OBVIOUS
  <2>3. Before(k) = e
    BY <2>1, <2>2, BeforeIs
  <2>4. l + m \in DOMAIN c /\ c[l + m] = ResetEnd /\ l + m >= 1 /\ m \in 1 .. n
    BY <1>2, <2>1
  <2>5. ASSUME NEW i \in 1 .. (l + m) - 1 PROVE c[i] # ResetEnd
    <3>1. CASE i <= l
      <4>1. i \in 1 .. l
        <5>1. l \in Nat /\ m \in Nat /\ i \in 1 .. (l + m) - 1 /\ i <= l
          BY <1>2, <2>4, <3>1
        <5> QED BY ONLY <5>1
      <4>2. c[i] = a[i] /\ a[i] # ResetEnd
        BY <1>2, <4>1
      <4> QED BY <4>2
    <3>2. CASE ~(i <= l)
      <4>1. i - l \in 1 .. m - 1 /\ i - l \in 1 .. n /\ l + (i - l) = i
        <5>1. l \in Nat /\ n \in Nat /\ m \in 1 .. n /\ i \in 1 .. (l + m) - 1 /\ ~(i <= l)
          BY <1>2, <2>4, <3>2
        <5> QED BY ONLY <5>1
      <4>2. c[i] = k[i - l]
        BY <1>2, <4>1
      <4> QED BY <2>1, <4>1, <4>2
    <3> QED BY <3>1, <3>2
  <2>6. PICK d : d = SubSeq(c, 1, (l + m) - 1)
    OBVIOUS
  <2>7. Before(c) = d
    BY <1>2, <2>4, <2>5, <2>6, BeforeIs
  <2>8. d = a \o e
    <3>1. /\ d \in Seq(F) /\ Len(d) = l + (m - 1) /\ \A i \in 1 .. l + (m - 1) : d[i] = c[i]
          /\ e \in Seq(F) /\ Len(e) = m - 1 /\ \A i \in 1 .. m - 1 : e[i] = k[i]
      <4>1. l + m - 1 \in 0 .. Len(c) /\ m - 1 \in 0 .. Len(k) /\ l + m - 1 = l + (m - 1)
        BY <1>1, <1>2, <2>4
      <4>2. d \in Seq(F) /\ Len(d) = l + m - 1 /\ \A i \in 1 .. l + m - 1 : d[i] = c[i]
        <5>1. PICK w : w = l + m - 1
          OBVIOUS
        <5>2. c \in Seq(F) /\ w \in 0 .. Len(c) /\ d = SubSeq(c, 1, w)
          BY <1>2, <2>6, <4>1, <5>1
        <5>3. d \in Seq(F) /\ Len(d) = w /\ \A i \in 1 .. w : d[i] = c[i]
          BY ONLY <5>2
        <5> QED BY <5>1, <5>3
      <4>3. e \in Seq(F) /\ Len(e) = m - 1 /\ \A i \in 1 .. m - 1 : e[i] = k[i]
        BY <2>2, <4>1
      <4> QED BY <4>1, <4>2, <4>3
    <3>2. \A i \in 1 .. l : a[i] = d[i]
      <4> SUFFICES ASSUME NEW i \in 1 .. l PROVE a[i] = d[i]
        OBVIOUS
      <4>1. i \in 1 .. l + (m - 1)
        BY <1>2, <2>4
      <4> QED BY <1>2, <3>1, <4>1
    <3>3. ASSUME NEW i \in 1 .. Len(d) - l PROVE e[i] = d[l + i]
      <4>1. i \in 1 .. m - 1 /\ i \in 1 .. n /\ l + i \in 1 .. l + (m - 1)
        BY <1>2, <2>4, <3>1
      <4> QED BY <1>2, <3>1, <4>1
    <3>4. l <= Len(d) /\ Len(a) = l /\ Len(e) = Len(d) - l
      BY <1>1, <1>2, <2>4, <3>1
    <3>5. a \in Seq(F) /\ d \in Seq(F) /\ e \in Seq(F) /\ l \in Nat
      BY <1>2, <3>1
    <3> QED BY ONLY <3>2, <3>3, <3>4, <3>5, Joined
  <2>9. HasReset(c, 1)
    BY <2>4 DEF HasReset
  <2> QED BY <1>1, <1>4, <2>3, <2>7, <2>8, <2>9
<1> QED BY <1>3, <1>4

\* The first frame and what follows it.
LEMMA BeforeTail ==
  ASSUME NEW F, NEW c \in Seq(F), c # <<>>, c[1] # ResetEnd
  PROVE  /\ Before(c) = <<c[1]>> \o Before(Tail(c))
         /\ HasReset(c, 1) <=> HasReset(Tail(c), 1)
<1>1. PICK a, k : a = <<c[1]>> /\ k = Tail(c)
  OBVIOUS
<1>2. a \in Seq(F) /\ k \in Seq(F) /\ DOMAIN a = {1} /\ a[1] = c[1]
  BY <1>1
<1>3. c = a \o k
  BY <1>1
<1>4. \A i \in DOMAIN a : a[i] # ResetEnd
  BY <1>2
<1>5. Before(a \o k) = a \o Before(k) /\ (HasReset(a \o k, 1) <=> HasReset(k, 1))
  BY <1>2, <1>4, BeforeJoin
<1> QED BY <1>1, <1>3, <1>5

\* A continuation is put on the stack up to the end of its reset.
LEMMA BeforeCalled ==
  ASSUME NEW S, NEW v, NEW g, NEW frames \in Seq(Frames(S, v, g)), HasReset(frames, 1),
         NEW out \in 0 .. g
  PROVE  /\ Before(Retargeted(UpToReset(frames), out)) = Retargeted(Before(frames), out)
         /\ HasReset(Retargeted(UpToReset(frames), out), 1)
         /\ Retargeted(UpToReset(frames), out) \in Seq(Frames(S, v, g))
<1>1. PICK n \in DOMAIN frames : /\ frames[n] = ResetEnd /\ UpToReset(frames) = SubSeq(frames, 1, n)
                                 /\ \A m \in 1 .. n - 1 : frames[m] # ResetEnd
  BY UpTo
<1>2. PICK e, b : e = SubSeq(frames, 1, n) /\ b = SubSeq(frames, 1, n - 1)
  OBVIOUS
<1>3. UpToReset(frames) = e /\ Before(frames) = b
  BY <1>1, <1>2, BeforeIs
<1>4. /\ n \in Nat /\ n >= 1 /\ e \in Seq(Frames(S, v, g)) /\ Len(e) = n /\ DOMAIN e = 1 .. n
      /\ b \in Seq(Frames(S, v, g)) /\ DOMAIN b = 1 .. n - 1
      /\ \A i \in 1 .. n : e[i] = frames[i]
      /\ \A i \in 1 .. n - 1 : b[i] = frames[i]
  BY <1>1, <1>2
<1>5. PICK r, q : r = Retargeted(e, out) /\ q = Retargeted(b, out)
  OBVIOUS
<1>6. /\ r \in Seq(Frames(S, v, g)) /\ DOMAIN r = DOMAIN e
      /\ \A i \in DOMAIN e : r[i] = ResetEnd <=> e[i] = ResetEnd
  <2>1. e \in Seq(Frames(S, v, g)) /\ out \in 0 .. g /\ r = Retargeted(e, out)
    BY <1>4, <1>5
  <2> QED BY ONLY <2>1, RetargetedIs
<1>7. n \in DOMAIN r /\ r[n] = ResetEnd /\ \A m \in 1 .. n - 1 : r[m] # ResetEnd
  <2>1. n \in 1 .. n /\ \A m \in 1 .. n - 1 : m \in 1 .. n
    BY <1>4
  <2> QED BY <1>1, <1>4, <1>6, <2>1
<1>8. Before(r) = SubSeq(r, 1, n - 1)
  BY <1>6, <1>7, BeforeIs
<1>9. SubSeq(r, 1, n - 1) = q
  <2>1. PICK z : z = SubSeq(r, 1, n - 1)
    OBVIOUS
  <2>2. Len(r) = n
    BY <1>4, <1>6
  <2>3. z = [i \in 1 .. n - 1 |-> r[i]]
    BY <1>4, <1>6, <2>1, <2>2
  <2>4. \A i \in 1 .. n - 1 : r[i] = Retarget(b[i], out)
    <3> SUFFICES ASSUME NEW i \in 1 .. n - 1 PROVE r[i] = Retarget(b[i], out)
      OBVIOUS
    <3>1. i \in 1 .. n
      BY <1>4
    <3>2. r[i] = Retarget(e[i], out)
      BY <1>4, <1>5, <3>1 DEF Retargeted
    <3> QED BY <1>4, <3>1, <3>2
  <2>5. q = [i \in 1 .. n - 1 |-> Retarget(b[i], out)]
    BY <1>4, <1>5 DEF Retargeted
  <2> QED BY <2>1, <2>3, <2>4, <2>5
<1>10. HasReset(r, 1)
  BY <1>4, <1>7 DEF HasReset
<1> QED BY <1>3, <1>5, <1>6, <1>8, <1>9, <1>10

----------------------------------------------------------------------------
(***************************************************************************)
(* Delimited extends ScriptStep as Script does: its operators are the same.*)
(***************************************************************************)
\* The frames, the states and the flows.
LEMMA SameFrames ==
  /\ TheStack!Onward = Onward /\ TheStack!Failed = Failed /\ TheStack!Top = Top
  /\ TheStack!Fresh = Fresh
  /\ \A a, b : TheStack!Flow(a, b) = Flow(a, b)
  /\ \A a, b : TheStack!Lines(a, b) = Lines(a, b)
  /\ \A a, b, c : TheStack!Clauses(a, b, c) = Clauses(a, b, c)
  /\ \A a, b, c, d : TheStack!Items(a, b, c, d) = Items(a, b, c, d)
  /\ \A a : TheStack!CallEnd(a) = CallEnd(a)
  /\ \A a, b : TheStack!Pushing(a, b) = Pushing(a, b)
  /\ \A a, b : TheStack!Status(a, b) = Status(a, b)
  /\ \A a : TheStack!Plain(a) = Plain(a)
  /\ \A a : TheStack!Func(a) = Func(a)
BY Zenon DEF TheStack!Onward, Onward, TheStack!Failed, Failed, TheStack!Top, Top, TheStack!Fresh, Fresh,
   TheStack!Flow, Flow, TheStack!Lines, Lines, TheStack!Clauses, Clauses, TheStack!Items, Items,
   TheStack!CallEnd, CallEnd, TheStack!Pushing, Pushing, TheStack!Status, Status,
   TheStack!Plain, Plain, TheStack!Func, Func

\* What reads and sets a state.
LEMMA SameParts ==
  /\ \A a, b : TheStack!Leaving(a, b) = Leaving(a, b)
  /\ \A a, b, c : TheStack!PushScript(a, b, c) = PushScript(a, b, c)
  /\ \A a, b, c, d : TheStack!CapturePut(a, b, c, d) = CapturePut(a, b, c, d)
  /\ \A a, b, c, d : TheStack!FuncPush(a, b, c, d) = FuncPush(a, b, c, d)
  /\ \A a, b, c : TheStack!ForStart(a, b, c) = ForStart(a, b, c)
  /\ \A a : TheStack!AtEnd(a) <=> AtEnd(a)
  /\ \A a : TheStack!Statement(a) = Statement(a)
  /\ \A a : TheStack!Advance(a) = Advance(a)
  /\ \A a : TheStack!IsPlain(a) <=> IsPlain(a)
<1>1. \A a, b : TheStack!Leaving(a, b) = Leaving(a, b)
  BY SameFrames, Zenon DEF TheStack!Leaving, Leaving
<1>2. \A a, b, c : TheStack!PushScript(a, b, c) = PushScript(a, b, c)
  BY SameFrames, Zenon DEF TheStack!PushScript, PushScript
<1>3. \A a, b, c, d : TheStack!CapturePut(a, b, c, d) = CapturePut(a, b, c, d)
  <2> SUFFICES ASSUME NEW a, NEW b, NEW c, NEW d
               PROVE  TheStack!CapturePut(a, b, c, d) = CapturePut(a, b, c, d)
    OBVIOUS
  <2> QED BY <1>1, SameFrames DEF TheStack!CapturePut, CapturePut
<1>4. \A a, b, c, d : TheStack!FuncPush(a, b, c, d) = FuncPush(a, b, c, d)
  BY SameFrames, Zenon DEF TheStack!FuncPush, FuncPush
<1>5. \A a, b, c : TheStack!ForStart(a, b, c) = ForStart(a, b, c)
  BY SameFrames, Zenon DEF TheStack!ForStart, ForStart
<1>6. \A a : (TheStack!AtEnd(a) <=> AtEnd(a)) /\ TheStack!Statement(a) = Statement(a)
  BY Zenon DEF TheStack!AtEnd, AtEnd, TheStack!Statement, Statement
<1>7. \A a : TheStack!Advance(a) = Advance(a) /\ (TheStack!IsPlain(a) <=> IsPlain(a))
  BY Zenon DEF TheStack!Advance, Advance, TheStack!IsPlain, IsPlain
<1> QED BY <1>1, <1>2, <1>3, <1>4, <1>5, <1>6, <1>7, Zenon

\* The statements.
LEMMA SamePlain ==
  \A a, b, c, d : TheStack!ExecPlain(a, b, c, d) = ExecPlain(a, b, c, d)
<1>1. \A a, b, c, d : TheStack!Write(a, b, c, d) = Write(a, b, c, d)
  BY SameFrames, SameParts, Zenon DEF TheStack!Write, Write
<1>2. \A a, b, c : TheStack!Jump(a, b, c) = Jump(a, b, c)
  BY SameFrames, SameParts, Zenon DEF TheStack!Jump, Jump
<1>3. \A a, b : TheStack!EvalReturn(a, b) = EvalReturn(a, b)
  BY SameFrames, SameParts, Zenon DEF TheStack!EvalReturn, EvalReturn
<1> SUFFICES ASSUME NEW a, NEW b, NEW c, NEW d
             PROVE  TheStack!ExecPlain(a, b, c, d) = ExecPlain(a, b, c, d)
  OBVIOUS
<1> QED BY <1>1, <1>2, <1>3, SameFrames, SameParts, Zenon DEF TheStack!ExecPlain, ExecPlain

\* The steps of a frame.
LEMMA SameSteps ==
  /\ \A a : TheStack!IsLocal(a) <=> IsLocal(a)
  /\ \A a, b, c : TheStack!StepLocal(a, b, c) = StepLocal(a, b, c)
<1>1. \A a : TheStack!IsLocal(a) <=> IsLocal(a)
  BY SameParts, Zenon DEF TheStack!IsLocal, IsLocal
<1>2. \A a, b, c : TheStack!StepLines(a, b, c) = StepLines(a, b, c)
  BY SameFrames, SameParts, SamePlain, Zenon DEF TheStack!StepLines, StepLines
<1>3. \A a, b : TheStack!StepIf(a, b) = StepIf(a, b)
  BY SameFrames, SameParts, Zenon DEF TheStack!StepIf, StepIf
<1>4. \A a, b : TheStack!StepFor(a, b) = StepFor(a, b)
  BY SameFrames, SameParts, Zenon DEF TheStack!StepFor, StepFor
<1>5. \A a, b, c : TheStack!StepLocal(a, b, c) = StepLocal(a, b, c)
  BY <1>2, <1>3, <1>4, SameFrames, Zenon DEF TheStack!StepLocal, StepLocal
<1> QED BY <1>1, <1>5

\* The variable lists.
LEMMA SameLists ==
  /\ \A a, b : TheStack!NewGroup(a, b) = NewGroup(a, b)
  /\ \A a, b : TheStack!InGroup(a, b) = InGroup(a, b)
  /\ \A a, b, c : TheStack!CaptureAssign(a, b, c) = CaptureAssign(a, b, c)
  /\ \A a, b, c : TheStack!Caught(a, b, c) = Caught(a, b, c)
  /\ \A a, b : TheStack!Retargeted(a, b) = Retargeted(a, b)
<1>1. \A a, b : TheStack!NewGroup(a, b) = NewGroup(a, b)
  BY Zenon DEF TheStack!NewGroup, NewGroup
<1>2. \A a, b : TheStack!InGroup(a, b) = InGroup(a, b)
  BY Zenon DEF TheStack!InGroup, InGroup
<1>3. \A a, b, c : TheStack!CaptureAssign(a, b, c) = CaptureAssign(a, b, c)
  <2>1. \A a, b : TheStack!HasName(a, b) <=> HasName(a, b)
    BY Zenon DEF TheStack!HasName, HasName
  <2>2. \A a : TheStack!Min(a) = Min(a)
    BY Zenon DEF TheStack!Min, Min
  <2>3. \A a, b : TheStack!Item(a, b) = Item(a, b)
    BY <2>2, SameFrames, Zenon DEF TheStack!Item, Item, TheStack!FirstPlace, FirstPlace
  <2>4. \A a, b : TheStack!Assigned(a, b) = Assigned(a, b)
    BY <2>1, <2>3, Zenon DEF TheStack!Assigned, Assigned
  <2> SUFFICES ASSUME NEW a, NEW b, NEW c
               PROVE  TheStack!CaptureAssign(a, b, c) = CaptureAssign(a, b, c)
    OBVIOUS
  <2> QED BY <2>4 DEF TheStack!CaptureAssign, CaptureAssign
<1>4. \A a, b, c : TheStack!Caught(a, b, c) = Caught(a, b, c)
  BY <1>3, SameFrames, Zenon DEF TheStack!Caught, Caught
<1>5. \A a, b : TheStack!Retarget(a, b) = Retarget(a, b)
  BY Zenon DEF TheStack!Retarget, Retarget
<1>6. \A a, b : TheStack!Retargeted(a, b) = Retargeted(a, b)
  BY <1>5, Zenon DEF TheStack!Retargeted, Retargeted
<1> QED BY <1>1, <1>2, <1>3, <1>4, <1>6

\* Where a flow ends.
LEMMA SameFlows ==
  /\ \A a, b : TheStack!Ends(a, b) <=> Ends(a, b)
  /\ \A a, b : TheStack!Landing(a, b) = Landing(a, b)
  /\ \A a : TheStack!Landed(a) = Landed(a)
BY SameFrames, Zenon DEF TheStack!Ends, Ends, TheStack!Landing, Landing, TheStack!Landed, Landed

----------------------------------------------------------------------------
(***************************************************************************)
(* A step does to the cut state what it does to the state.                 *)
(***************************************************************************)
StateFields == {"vars", "groups", "status", "output", "ids", "flow"}
HasFields(s) == s = [f \in StateFields |-> s[f]]

LEMMA StateHas ==
  ASSUME NEW S, NEW v, NEW g, NEW s, IsState(s, S, v, g)
  PROVE  HasFields(s)
BY DEF IsState, States, HasFields, StateFields

\* The fields of a cut state.
LEMMA CutAllIs ==
  ASSUME NEW s, HasFields(s)
  PROVE  /\ CutAll(s) = [s EXCEPT !.vars = CutEach(s.vars), !.groups = CutGroups(s.groups)]
         /\ HasFields(CutAll(s))
         /\ CutAll(s).vars = CutEach(s.vars) /\ CutAll(s).groups = CutGroups(s.groups)
         /\ CutAll(s).status = s.status /\ CutAll(s).output = s.output
         /\ CutAll(s).ids = s.ids /\ CutAll(s).flow = s.flow
<1>1. CutAll(s) = [s EXCEPT !.vars = CutEach(s.vars), !.groups = CutGroups(s.groups)]
  BY DEF CutAll
<1>2. PICK a, b : a = CutEach(s.vars) /\ b = CutGroups(s.groups)
  OBVIOUS
<1>3. PICK t : t = [s EXCEPT !.vars = a, !.groups = b]
  OBVIOUS
<1>4. /\ HasFields(t) /\ t.vars = a /\ t.groups = b /\ t.status = s.status /\ t.output = s.output
      /\ t.ids = s.ids /\ t.flow = s.flow
  BY <1>3 DEF HasFields, StateFields
<1> QED BY <1>1, <1>2, <1>3, <1>4

\* A field that is set before or after the cut.
LEMMA CutSets ==
  ASSUME NEW s, HasFields(s), NEW z
  PROVE  /\ CutAll([s EXCEPT !.status = z]) = [CutAll(s) EXCEPT !.status = z]
         /\ CutAll([s EXCEPT !.ids = z]) = [CutAll(s) EXCEPT !.ids = z]
         /\ CutAll([s EXCEPT !.flow = z]) = [CutAll(s) EXCEPT !.flow = z]
         /\ CutAll([s EXCEPT !.output = z]) = [CutAll(s) EXCEPT !.output = z]
         /\ CutAll([s EXCEPT !.vars = z]) = [CutAll(s) EXCEPT !.vars = CutEach(z)]
         /\ CutAll([s EXCEPT !.groups = z]) = [CutAll(s) EXCEPT !.groups = CutGroups(z)]
<1> DEFINE A(t) == [t EXCEPT !.vars = CutEach(t.vars), !.groups = CutGroups(t.groups)]
<1>1. \A t : HasFields(t) => CutAll(t) = A(t)
  BY CutAllIs
<1>2. PICK t1 : t1 = [s EXCEPT !.status = z]
  OBVIOUS
<1>3. CutAll(t1) = [CutAll(s) EXCEPT !.status = z]
  <2>1. HasFields(t1) /\ A(t1) = [A(s) EXCEPT !.status = z]
    BY <1>2 DEF HasFields, StateFields
  <2> QED BY <1>1, <2>1
<1>4. PICK t2 : t2 = [s EXCEPT !.ids = z]
  OBVIOUS
<1>5. CutAll(t2) = [CutAll(s) EXCEPT !.ids = z]
  <2>1. HasFields(t2) /\ A(t2) = [A(s) EXCEPT !.ids = z]
    BY <1>4 DEF HasFields, StateFields
  <2> QED BY <1>1, <2>1
<1>6. PICK t3 : t3 = [s EXCEPT !.flow = z]
  OBVIOUS
<1>7. CutAll(t3) = [CutAll(s) EXCEPT !.flow = z]
  <2>1. HasFields(t3) /\ A(t3) = [A(s) EXCEPT !.flow = z]
    BY <1>6 DEF HasFields, StateFields
  <2> QED BY <1>1, <2>1
<1>8. PICK t4 : t4 = [s EXCEPT !.output = z]
  OBVIOUS
<1>9. CutAll(t4) = [CutAll(s) EXCEPT !.output = z]
  <2>1. HasFields(t4) /\ A(t4) = [A(s) EXCEPT !.output = z]
    BY <1>8 DEF HasFields, StateFields
  <2> QED BY <1>1, <2>1
<1>10. PICK t5 : t5 = [s EXCEPT !.vars = z]
  OBVIOUS
<1>11. CutAll(t5) = [CutAll(s) EXCEPT !.vars = CutEach(z)]
  <2>1. HasFields(t5) /\ A(t5) = [A(s) EXCEPT !.vars = CutEach(z)]
    BY <1>10 DEF HasFields, StateFields
  <2> QED BY <1>1, <2>1
<1>12. PICK t6 : t6 = [s EXCEPT !.groups = z]
  OBVIOUS
<1>13. CutAll(t6) = [CutAll(s) EXCEPT !.groups = CutGroups(z)]
  <2>1. HasFields(t6) /\ A(t6) = [A(s) EXCEPT !.groups = CutGroups(z)]
    BY <1>12 DEF HasFields, StateFields
  <2> QED BY <1>1, <2>1
<1> QED BY <1>2, <1>3, <1>4, <1>5, <1>6, <1>7, <1>8, <1>9, <1>10, <1>11, <1>12, <1>13

\* Local variables are cut one by one.
LEMMA EachIs ==
  ASSUME NEW X, NEW c \in Seq(X)
  PROVE  /\ CutEach(c) \in Seq({CutOf(y) : y \in X}) /\ Len(CutEach(c)) = Len(c)
         /\ DOMAIN CutEach(c) = DOMAIN c
         /\ \A n \in DOMAIN c : CutEach(c)[n] = CutOf(c[n])
         /\ \A y \in X : CutEach(Append(c, y)) = Append(CutEach(c), CutOf(y))
         /\ \A n \in DOMAIN c, y \in X : CutEach([c EXCEPT ![n] = y]) = [CutEach(c) EXCEPT ![n] = CutOf(y)]
<1>1. PICK Y, e : Y = {CutOf(y) : y \in X} /\ e = CutEach(c)
  OBVIOUS
<1>2. \A y \in X : CutOf(y) \in Y
  BY <1>1
<1>3. DOMAIN e = DOMAIN c /\ DOMAIN c = 1 .. Len(c) /\ \A n \in DOMAIN c : c[n] \in X /\ e[n] = CutOf(c[n])
  BY <1>1 DEF CutEach
<1>4. e \in Seq(Y) /\ Len(e) = Len(c)
  <2>1. e = [n \in 1 .. Len(c) |-> e[n]]
    BY <1>1, <1>3 DEF CutEach
  <2>2. \A n \in 1 .. Len(c) : e[n] \in Y
    BY <1>2, <1>3
  <2>3. e \in [1 .. Len(c) -> Y] /\ Len(c) \in Nat
    BY <2>1, <2>2
  <2> QED BY <2>3
<1>5. ASSUME NEW y \in X PROVE CutEach(Append(c, y)) = Append(e, CutOf(y))
  <2>1. PICK d, l : d = Append(c, y) /\ l = Append(e, CutOf(y))
    OBVIOUS
  <2>2. /\ DOMAIN d = 1 .. Len(c) + 1 /\ Len(c) \in Nat
        /\ \A n \in 1 .. Len(c) + 1 : d[n] = IF n = Len(c) + 1 THEN y ELSE c[n]
    BY <2>1
  <2>3. /\ l \in Seq(Y) /\ Len(l) = Len(c) + 1
        /\ \A n \in 1 .. Len(c) + 1 : l[n] = IF n = Len(c) + 1 THEN CutOf(y) ELSE e[n]
    BY <1>2, <1>4, <2>1
  <2>4. l = [n \in 1 .. Len(c) + 1 |-> l[n]]
    BY <2>3
  <2>5. \A n \in 1 .. Len(c) + 1 : l[n] = CutOf(d[n])
    BY <1>3, <2>2, <2>3
  <2>6. CutEach(d) = [n \in 1 .. Len(c) + 1 |-> CutOf(d[n])]
    BY <2>2 DEF CutEach
  <2> QED BY <2>1, <2>4, <2>5, <2>6
<1>6. ASSUME NEW n \in DOMAIN c, NEW y \in X PROVE CutEach([c EXCEPT ![n] = y]) = [e EXCEPT ![n] = CutOf(y)]
  <2>1. PICK d, l : d = [c EXCEPT ![n] = y] /\ l = [e EXCEPT ![n] = CutOf(y)]
    OBVIOUS
  <2>2. DOMAIN d = DOMAIN c /\ \A m \in DOMAIN c : d[m] = IF m = n THEN y ELSE c[m]
    BY <2>1
  <2>3. l = [m \in DOMAIN c |-> IF m = n THEN CutOf(y) ELSE e[m]]
    BY <1>3, <2>1
  <2>4. \A m \in DOMAIN c : CutOf(d[m]) = IF m = n THEN CutOf(y) ELSE e[m]
    BY <1>3, <2>2
  <2>5. CutEach(d) = [m \in DOMAIN c |-> CutOf(d[m])]
    BY <2>2 DEF CutEach
  <2> QED BY <2>1, <2>3, <2>4, <2>5
<1> QED BY <1>1, <1>3, <1>4, <1>5, <1>6

LEMMA EachAppend ==
  ASSUME NEW X, NEW c \in Seq(X), NEW y \in X
  PROVE  CutEach(Append(c, y)) = Append(CutEach(c), CutOf(y)) /\ Len(CutEach(c)) = Len(c)
<1>1. \A z \in X : CutEach(Append(c, z)) = Append(CutEach(c), CutOf(z))
  BY EachIs
<1>2. Len(CutEach(c)) = Len(c)
  BY EachIs
<1> QED BY <1>1, <1>2

LEMMA CutSetsVars ==
  ASSUME NEW s, HasFields(s), NEW z
  PROVE  CutAll([s EXCEPT !.vars = z]) = [CutAll(s) EXCEPT !.vars = CutEach(z)]
BY CutSets

LEMMA CutSetsGroups ==
  ASSUME NEW s, HasFields(s), NEW z
  PROVE  CutAll([s EXCEPT !.groups = z]) = [CutAll(s) EXCEPT !.groups = CutGroups(z)]
BY CutSets

LEMMA CutSetsStatus ==
  ASSUME NEW s, HasFields(s), NEW z
  PROVE  CutAll([s EXCEPT !.status = z]) = [CutAll(s) EXCEPT !.status = z]
BY CutSets

LEMMA EachSet ==
  ASSUME NEW X, NEW c \in Seq(X), NEW n \in DOMAIN c, NEW y \in X
  PROVE  CutEach([c EXCEPT ![n] = y]) = [CutEach(c) EXCEPT ![n] = CutOf(y)]
<1>1. PICK d, e : d = [c EXCEPT ![n] = y] /\ e = CutEach(c)
  OBVIOUS
<1>2. /\ DOMAIN d = DOMAIN c /\ \A m \in DOMAIN c : d[m] = IF m = n THEN y ELSE c[m]
      /\ e = [m \in DOMAIN c |-> CutOf(c[m])]
  BY <1>1 DEF CutEach
<1>3. CutEach(d) = [m \in DOMAIN c |-> CutOf(d[m])]
  BY <1>2 DEF CutEach
<1>4. \A m \in DOMAIN c : CutOf(d[m]) = IF m = n THEN CutOf(y) ELSE e[m]
  BY <1>2
<1>5. CutEach(d) = [m \in DOMAIN c |-> IF m = n THEN CutOf(y) ELSE e[m]]
  BY <1>3, <1>4
<1>6. [e EXCEPT ![n] = CutOf(y)] = [m \in DOMAIN c |-> IF m = n THEN CutOf(y) ELSE e[m]]
  BY <1>2
<1> QED BY <1>1, <1>5, <1>6

CutGroup(group) == [group EXCEPT !.items = CutEach(@)]

\* Variable lists are cut one by one.
LEMMA GroupsAre ==
  ASSUME NEW X, NEW c \in Seq(X)
  PROVE  /\ DOMAIN CutGroups(c) = DOMAIN c /\ Len(CutGroups(c)) = Len(c)
         /\ \A n \in DOMAIN c : CutGroups(c)[n] = CutGroup(c[n])
         /\ \A y : CutGroups(Append(c, y)) = Append(CutGroups(c), CutGroup(y))
         /\ \A n \in DOMAIN c : \A y :
              CutGroups([c EXCEPT ![n] = y]) = [CutGroups(c) EXCEPT ![n] = CutGroup(y)]
<1>1. PICK Y, e : Y = {CutGroup(y) : y \in X} /\ e = CutGroups(c)
  OBVIOUS
<1>2. \A y \in X : CutGroup(y) \in Y
  BY <1>1
<1>3. DOMAIN e = DOMAIN c /\ DOMAIN c = 1 .. Len(c) /\ \A n \in DOMAIN c : c[n] \in X /\ e[n] = CutGroup(c[n])
  BY <1>1 DEF CutGroups, CutGroup
<1>4. e = [n \in 1 .. Len(c) |-> CutGroup(c[n])] /\ Len(c) \in Nat
  BY <1>1 DEF CutGroups, CutGroup
<1>5. e \in Seq(Y) /\ Len(e) = Len(c)
  <2>1. \A n \in 1 .. Len(c) : CutGroup(c[n]) \in Y
    BY <1>2, <1>3
  <2>2. e \in [1 .. Len(c) -> Y]
    BY <1>4, <2>1
  <2> QED BY <1>4, <2>2
<1>6. ASSUME NEW y PROVE CutGroups(Append(c, y)) = Append(e, CutGroup(y))
  <2>1. PICK d, l, Z : d = Append(c, y) /\ l = Append(e, CutGroup(y)) /\ Z = Y \cup {CutGroup(y)}
    OBVIOUS
  <2>2. /\ DOMAIN d = 1 .. Len(c) + 1
        /\ \A n \in 1 .. Len(c) + 1 : d[n] = IF n = Len(c) + 1 THEN y ELSE c[n]
    <3>1. c \in Seq(X \cup {y}) /\ y \in X \cup {y}
      OBVIOUS
    <3> QED BY <2>1, <3>1
  <2>3. /\ l \in Seq(Z) /\ Len(l) = Len(c) + 1
        /\ \A n \in 1 .. Len(c) + 1 : l[n] = IF n = Len(c) + 1 THEN CutGroup(y) ELSE e[n]
    <3>1. e \in Seq(Z) /\ CutGroup(y) \in Z
      BY <1>5, <2>1
    <3> QED BY <1>5, <2>1, <3>1
  <2>4. l = [n \in 1 .. Len(c) + 1 |-> l[n]]
    BY <2>3
  <2>5. \A n \in 1 .. Len(c) + 1 : l[n] = CutGroup(d[n])
    BY <1>3, <2>2, <2>3
  <2>6. CutGroups(d) = [n \in 1 .. Len(c) + 1 |-> CutGroup(d[n])]
    BY <2>2 DEF CutGroups, CutGroup
  <2> QED BY <2>1, <2>4, <2>5, <2>6
<1>7. ASSUME NEW n \in DOMAIN c, NEW y
      PROVE CutGroups([c EXCEPT ![n] = y]) = [e EXCEPT ![n] = CutGroup(y)]
  <2>1. PICK d, l : d = [c EXCEPT ![n] = y] /\ l = [e EXCEPT ![n] = CutGroup(y)]
    OBVIOUS
  <2>2. DOMAIN d = DOMAIN c /\ \A m \in DOMAIN c : d[m] = IF m = n THEN y ELSE c[m]
    BY <2>1
  <2>3. l = [m \in DOMAIN c |-> IF m = n THEN CutGroup(y) ELSE e[m]]
    BY <1>3, <2>1
  <2>4. \A m \in DOMAIN c : CutGroup(d[m]) = IF m = n THEN CutGroup(y) ELSE e[m]
    BY <1>3, <2>2
  <2>5. CutGroups(d) = [m \in DOMAIN c |-> CutGroup(d[m])]
    BY <2>2 DEF CutGroups, CutGroup
  <2> QED BY <2>1, <2>3, <2>4, <2>5
<1> QED BY <1>1, <1>3, <1>5, <1>6, <1>7

LEMMA GroupSet ==
  ASSUME NEW X, NEW c \in Seq(X), NEW n \in DOMAIN c, NEW y
  PROVE  CutGroups([c EXCEPT ![n] = y]) = [CutGroups(c) EXCEPT ![n] = CutGroup(y)]
BY GroupsAre

\* What a step leaves, cut.
CutPush(r) == Pushing(r.frames, CutAll(r.st))

LEMMA CutPushes ==
  ASSUME NEW a, NEW u
  PROVE  /\ CutPush(Pushing(a, u)) = Pushing(a, CutAll(u))
         /\ \A z : CutPush([Pushing(a, u) EXCEPT !.frames = Append(@, z)])
                     = [Pushing(a, CutAll(u)) EXCEPT !.frames = Append(@, z)]
BY DEF CutPush, Pushing

LEMMA CutStatus ==
  ASSUME NEW s, HasFields(s), NEW n
  PROVE  Status(CutAll(s), n) = CutAll(Status(s, n)) /\ HasFields(Status(s, n))
<1>1. HasFields([s EXCEPT !.status = n])
  BY DEF HasFields, StateFields
<1>2. CutAll([s EXCEPT !.status = n]) = [CutAll(s) EXCEPT !.status = n]
  BY CutSetsStatus
<1> QED BY <1>1, <1>2, Zenon DEF Status

LEMMA CutLeaving ==
  ASSUME NEW s, HasFields(s), NEW flow
  PROVE  Leaving(CutAll(s), flow) = CutPush(Leaving(s, flow))
<1>1. CutAll([s EXCEPT !.flow = flow]) = [CutAll(s) EXCEPT !.flow = flow]
  BY CutSets
<1> QED BY <1>1, CutPushes DEF Leaving

\* A write to a variable list.
LEMMA CutPut ==
  ASSUME NEW S, NEW v \in Nat, NEW g \in Nat, NEW s, IsState(s, S, v, g), NEW n \in 1 .. g,
         NEW x \in Values(S, v, g), NEW stop, NEW other, stop = other \/ AllRest(s)
  PROVE  CapturePut(CutAll(s), n, CutOf(x), other) = CutPush(CapturePut(s, n, x, stop))
<1>1. PICK t, group : t = CutAll(s) /\ group = s.groups[n]
  OBVIOUS
<1>2. /\ HasFields(s) /\ s.groups \in Seq(Groups(S, v, g)) /\ n \in DOMAIN s.groups
      /\ group \in Groups(S, v, g)
  BY <1>1, StateHas, HasTypes
<1>3. /\ HasFields(t) /\ t.groups = CutGroups(s.groups) /\ t.groups[n] = CutGroup(group)
      /\ DOMAIN t.groups = DOMAIN s.groups
  <2>1. HasFields(t) /\ t.groups = CutGroups(s.groups)
    BY <1>1, <1>2, CutAllIs
  <2>2. DOMAIN CutGroups(s.groups) = DOMAIN s.groups /\ CutGroups(s.groups)[n] = CutGroup(s.groups[n])
    BY <1>2, GroupsAre
  <2> QED BY <1>1, <2>1, <2>2
<1>4. group.items \in Seq(Values(S, v, g))
  BY <1>2 DEF Groups
<1>5. PICK items : items = CutEach(group.items)
  OBVIOUS
<1>6. Len(items) = Len(group.items) /\ CutEach(Append(group.items, x)) = Append(items, CutOf(x))
  <2>1. PICK X, c : X = Values(S, v, g) /\ c = group.items
    OBVIOUS
  <2>2. c \in Seq(X) /\ x \in X
    BY <1>4, <2>1
  <2>3. Len(CutEach(c)) = Len(c) /\ CutEach(Append(c, x)) = Append(CutEach(c), CutOf(x))
    BY ONLY <2>2, EachAppend
  <2> QED BY <1>5, <2>1, <2>3
<1>7. PICK cut : cut = CutGroup(group)
  OBVIOUS
<1>8. /\ cut.items = items /\ cut.rest = group.rest /\ cut.names = group.names
      /\ [cut EXCEPT !.items = Append(@, CutOf(x))] = CutGroup([group EXCEPT !.items = Append(@, x)])
      /\ [cut EXCEPT !.stopped = TRUE] = CutGroup([group EXCEPT !.stopped = TRUE])
  BY <1>2, <1>5, <1>6, <1>7 DEF CutGroup, Groups
<1>9. ASSUME NEW y
      PROVE CutAll([s EXCEPT !.groups = [s.groups EXCEPT ![n] = y]])
              = [t EXCEPT !.groups = [t.groups EXCEPT ![n] = CutGroup(y)]]
  <2>1. PICK z : z = [s.groups EXCEPT ![n] = y]
    OBVIOUS
  <2>2. CutGroups(z) = [t.groups EXCEPT ![n] = CutGroup(y)]
    <3>1. PICK X, c : X = Groups(S, v, g) /\ c = s.groups
      OBVIOUS
    <3>2. c \in Seq(X) /\ n \in DOMAIN c
      BY <1>2, <3>1
    <3>3. CutGroups([c EXCEPT ![n] = y]) = [CutGroups(c) EXCEPT ![n] = CutGroup(y)]
      BY ONLY <3>2, GroupSet
    <3> QED BY <1>3, <2>1, <3>1, <3>3
  <2>3. CutAll([s EXCEPT !.groups = z]) = [t EXCEPT !.groups = CutGroups(z)]
    BY <1>1, <1>2, CutSets
  <2> QED BY <2>1, <2>2, <2>3
<1>10. CASE group.rest \/ Len(group.items) < Len(group.names)
  <2>1. PICK y : y = [group EXCEPT !.items = Append(@, x)]
    OBVIOUS
  <2>2. PICK u : u = [s EXCEPT !.groups = [s.groups EXCEPT ![n] = y]]
    OBVIOUS
  <2>3. HasFields(u)
    BY <1>2, <2>2 DEF HasFields, StateFields
  <2>4. CapturePut(s, n, x, stop) = Pushing(<<>>, Status(u, 0))
    <3>1. u = [s EXCEPT !.groups[n].items = Append(@, x)]
      BY <1>1, <1>2, <2>1, <2>2 DEF HasFields, StateFields
    <3> QED BY <1>1, <1>10, <3>1 DEF CapturePut
  <2>5. CapturePut(t, n, CutOf(x), other) = Pushing(<<>>, Status(CutAll(u), 0))
    <3>1. CutAll(u) = [t EXCEPT !.groups = [t.groups EXCEPT ![n] = [cut EXCEPT !.items = Append(@, CutOf(x))]]]
      BY <1>8, <1>9, <2>1, <2>2
    <3>2. CutAll(u) = [t EXCEPT !.groups[n].items = Append(@, CutOf(x))]
      BY <1>2, <1>3, <1>7, <3>1 DEF HasFields, StateFields
    <3> QED BY <1>3, <1>6, <1>7, <1>8, <1>10, <3>2 DEF CapturePut
  <2>6. Status(CutAll(u), 0) = CutAll(Status(u, 0))
    BY <2>3, CutStatus
  <2> QED BY <1>1, <2>4, <2>5, <2>6, CutPushes
<1>11. CASE ~(group.rest \/ Len(group.items) < Len(group.names))
  <2>1. stop = other
    BY <1>1, <1>2, <1>11 DEF AllRest
  <2>2. PICK flow : flow = IF stop = 0 THEN Failed ELSE Flow("abort", stop)
    OBVIOUS
  <2>3. PICK y : y = [group EXCEPT !.stopped = TRUE]
    OBVIOUS
  <2>4. PICK u : u = [s EXCEPT !.groups = [s.groups EXCEPT ![n] = y]]
    OBVIOUS
  <2>5. HasFields(u)
    BY <1>2, <2>4 DEF HasFields, StateFields
  <2>6. CapturePut(s, n, x, stop) = Leaving(u, flow)
    <3>1. u = [s EXCEPT !.groups[n].stopped = TRUE]
      BY <1>1, <1>2, <2>3, <2>4 DEF HasFields, StateFields
    <3> QED BY <1>1, <1>11, <2>2, <3>1 DEF CapturePut
  <2>7. CapturePut(t, n, CutOf(x), other) = Leaving(CutAll(u), flow)
    <3>1. CutAll(u) = [t EXCEPT !.groups = [t.groups EXCEPT ![n] = [cut EXCEPT !.stopped = TRUE]]]
      BY <1>8, <1>9, <2>3, <2>4
    <3>2. CutAll(u) = [t EXCEPT !.groups[n].stopped = TRUE]
      BY <1>2, <1>3, <1>7, <3>1 DEF HasFields, StateFields
    <3> QED BY <1>3, <1>6, <1>7, <1>8, <1>11, <2>1, <2>2, <3>2 DEF CapturePut
  <2> QED BY <1>1, <2>5, <2>6, <2>7, CutLeaving
<1> QED BY <1>10, <1>11

\* A write to a target.
LEMMA CutWrite ==
  ASSUME NEW S, NEW v \in Nat, NEW g \in Nat, NEW s, IsState(s, S, v, g),
         NEW sh \in Contexts(v, g), NEW x \in Values(S, v, g), NEW stop, NEW other,
         stop = other \/ AllRest(s)
  PROVE  Write(CutAll(s), sh, CutOf(x), other) = CutPush(Write(s, sh, x, stop))
<1>1. sh.out \in 0 .. g /\ HasFields(s)
  BY StateHas DEF Contexts
<1>2. CutOf(x).v = x.v /\ (CutOf(x).k = <<>> <=> x.k = <<>>)
  <2>1. x.k \in Seq(Conts(S, v, g)) /\ x = [v |-> x.v, k |-> x.k]
    BY DEF Values
  <2>2. PICK k : k = x.k
    OBVIOUS
  <2>3. Cut(k) = <<>> <=> k = <<>>
    <3>1. DOMAIN Cut(k) = DOMAIN k /\ k \in Seq(Conts(S, v, g))
      BY <2>1, <2>2 DEF Cut
    <3>2. CASE k = <<>>
      BY <3>1, <3>2 DEF Cut
    <3>3. CASE k # <<>>
      <4>1. 1 \in DOMAIN k
        BY <3>1, <3>3
      <4>2. DOMAIN Cut(k) # DOMAIN <<>>
        BY <3>1, <4>1
      <4> QED BY <3>3, <4>2
    <3> QED BY <3>2, <3>3
  <2> QED BY <2>1, <2>2, <2>3 DEF CutOf
<1>3. CASE sh.out # 0
  <2>1. PICK n : n = sh.out
    OBVIOUS
  <2>2. n \in 1 .. g
    BY <1>1, <1>3, <2>1
  <2>3. CapturePut(CutAll(s), n, CutOf(x), other) = CutPush(CapturePut(s, n, x, stop))
    BY <2>2, CutPut
  <2> QED BY <1>3, <2>1, <2>3, Zenon DEF Write
<1>4. CASE sh.out = 0 /\ x.k # <<>>
  <2>1. Leaving(CutAll(s), Failed) = CutPush(Leaving(s, Failed))
    BY <1>1, CutLeaving
  <2> QED BY <1>2, <1>4, <2>1 DEF Write
<1>5. CASE sh.out = 0 /\ x.k = <<>>
  <2>1. PICK t : t = CutAll(s)
    OBVIOUS
  <2>2. t.output = s.output
    BY <1>1, <2>1, CutAllIs
  <2>3. PICK o : o = Append(s.output, x.v)
    OBVIOUS
  <2>4. PICK u : u = [s EXCEPT !.output = o]
    OBVIOUS
  <2>5. HasFields(u) /\ CutAll(u) = [t EXCEPT !.output = o]
    BY <1>1, <2>1, <2>4, CutSets DEF HasFields, StateFields
  <2>6. Write(s, sh, x, stop) = Pushing(<<>>, Status(u, 0))
    BY <1>5, <2>3, <2>4 DEF Write
  <2>7. Write(t, sh, CutOf(x), other) = Pushing(<<>>, Status(CutAll(u), 0))
    BY <1>2, <1>5, <2>2, <2>3, <2>5 DEF Write
  <2>8. Status(CutAll(u), 0) = CutAll(Status(u, 0))
    BY <2>5, CutStatus
  <2> QED BY <2>1, <2>6, <2>7, <2>8, CutPushes
<1> QED BY <1>3, <1>4, <1>5

\* The variables of a cut state.
LEMMA CutVar ==
  ASSUME NEW S, NEW v \in Nat, NEW g \in Nat, NEW s, IsState(s, S, v, g), NEW x \in 1 .. v
  PROVE  /\ CutAll(s).vars[x] = CutOf(s.vars[x])
         /\ CutAll(s).vars[x].i = s.vars[x].i /\ CutAll(s).vars[x].k = Cut(s.vars[x].k)
         /\ Len(CutAll(s).vars) = Len(s.vars) /\ x \in DOMAIN s.vars /\ x \in DOMAIN CutAll(s).vars
<1>1. PICK c, y : c = s.vars /\ y = s.vars[x]
  OBVIOUS
<1>2. HasFields(s) /\ c \in Seq(Locals(S, v, g)) /\ x \in DOMAIN c /\ y \in Locals(S, v, g)
  BY <1>1, StateHas, HasTypes, LocalTypes
<1>3. CutAll(s).vars = CutEach(c)
  BY <1>1, <1>2, CutAllIs
<1>4. CutEach(c)[x] = CutOf(y) /\ Len(CutEach(c)) = Len(c) /\ DOMAIN CutEach(c) = DOMAIN c
  BY <1>1, <1>2, EachIs
<1>5. CutOf(y).i = y.i /\ CutOf(y).k = Cut(y.k)
  BY <1>2 DEF CutOf, Locals
<1> QED BY <1>1, <1>2, <1>3, <1>4, <1>5

\* The variable of a loop gets an item.
LEMMA CutItem ==
  ASSUME NEW S, NEW v \in Nat, NEW g \in Nat, NEW s, IsState(s, S, v, g), NEW x \in 1 .. v,
         NEW n \in Int
  PROVE  CutAll([s EXCEPT !.vars[x].i = n]) = [CutAll(s) EXCEPT !.vars[x].i = n]
<1>1. PICK c, y, t : c = s.vars /\ y = s.vars[x] /\ t = CutAll(s)
  OBVIOUS
<1>2. HasFields(s) /\ c \in Seq(Locals(S, v, g)) /\ x \in DOMAIN c /\ y \in Locals(S, v, g)
  BY <1>1, StateHas, HasTypes, LocalTypes
<1>3. PICK z : z = [y EXCEPT !.i = n]
  OBVIOUS
<1>4. z \in Locals(S, v, g) /\ CutOf(z) = [CutOf(y) EXCEPT !.i = n]
  BY <1>2, <1>3 DEF Locals, CutOf
<1>5. PICK d : d = [c EXCEPT ![x] = z]
  OBVIOUS
<1>6. CutEach(d) = [CutEach(c) EXCEPT ![x] = CutOf(z)]
  <2>1. PICK X : X = Locals(S, v, g)
    OBVIOUS
  <2>2. c \in Seq(X) /\ x \in DOMAIN c /\ z \in X
    BY <1>2, <1>4, <2>1
  <2>3. CutEach([c EXCEPT ![x] = z]) = [CutEach(c) EXCEPT ![x] = CutOf(z)]
    BY ONLY <2>2, EachSet
  <2> QED BY <1>5, <2>3
<1>7. [s EXCEPT !.vars[x].i = n] = [s EXCEPT !.vars = d]
  BY <1>1, <1>2, <1>3, <1>5 DEF HasFields, StateFields
<1>8. CutAll([s EXCEPT !.vars = d]) = [t EXCEPT !.vars = CutEach(d)]
  BY <1>1, <1>2, CutSets
<1>9. HasFields(t) /\ t.vars = CutEach(c) /\ t.vars[x] = CutOf(y) /\ x \in DOMAIN t.vars
  <2>1. HasFields(t) /\ t.vars = CutEach(c)
    BY <1>1, <1>2, CutAllIs
  <2>2. t.vars[x] = CutOf(y) /\ x \in DOMAIN t.vars
    <3>1. CutAll(s).vars[x] = CutOf(s.vars[x])
      <4>1. v \in Nat /\ g \in Nat /\ IsState(s, S, v, g) /\ x \in 1 .. v
        OBVIOUS
      <4> QED BY ONLY <4>1, CutVar
    <3>2. DOMAIN CutEach(c) = DOMAIN c
      BY <1>1 DEF CutEach
    <3> QED BY <1>1, <1>2, <2>1, <3>1, <3>2
  <2> QED BY <2>1, <2>2
<1>10. [t EXCEPT !.vars[x].i = n] = [t EXCEPT !.vars = CutEach(d)]
  <2>1. [t EXCEPT !.vars[x].i = n] = [t EXCEPT !.vars = [t.vars EXCEPT ![x] = [t.vars[x] EXCEPT !.i = n]]]
    BY <1>9 DEF HasFields, StateFields
  <2> QED BY <1>4, <1>6, <1>9, <2>1
<1> QED BY <1>1, <1>7, <1>8, <1>10

\* The call of a function.
LEMMA CutFuncPush ==
  ASSUME NEW S, NEW v \in Nat, NEW g \in Nat, NEW s, IsState(s, S, v, g), NEW sh,
         NEW y, y \in Locals(S, v, g), NEW body
  PROVE  FuncPush(CutAll(s), sh, CutOf(y), body) = CutPush(FuncPush(s, sh, y, body))
<1>1. PICK t, id, n : t = CutAll(s) /\ id = s.ids + 1 /\ n = Len(s.vars) + 1
  OBVIOUS
<1>2. PICK a, d, u : /\ a = Append(s.vars, y) /\ d = [s EXCEPT !.vars = a]
                     /\ u = [d EXCEPT !.ids = id]
  OBVIOUS
<1>3. HasFields(s) /\ s.vars \in Seq(Locals(S, v, g)) /\ y \in Locals(S, v, g)
  BY StateHas, HasTypes
<1>4. HasFields(t) /\ t.ids = s.ids /\ t.vars = CutEach(s.vars)
  BY <1>1, <1>3, CutAllIs
<1>5. Len(t.vars) = Len(s.vars) /\ CutEach(a) = Append(t.vars, CutOf(y))
  <2>1. PICK X, c : X = Locals(S, v, g) /\ c = s.vars
    OBVIOUS
  <2>2. c \in Seq(X) /\ y \in X
    BY <1>3, <2>1
  <2>3. CutEach(Append(c, y)) = Append(CutEach(c), CutOf(y)) /\ Len(CutEach(c)) = Len(c)
    BY ONLY <2>2, EachAppend
  <2> QED BY <1>2, <1>4, <2>1, <2>3
<1>6. HasFields(d) /\ HasFields(u)
  BY <1>2, <1>3 DEF HasFields, StateFields
<1>7. CutAll(d) = [t EXCEPT !.vars = CutEach(a)]
  BY <1>1, <1>2, <1>3, CutSetsVars
<1>8. CutAll(u) = [CutAll(d) EXCEPT !.ids = id]
  BY <1>2, <1>6, CutSets
<1>9. CutAll(u) = [t EXCEPT !.vars = Append(@, CutOf(y)), !.ids = id]
  BY <1>4, <1>5, <1>7, <1>8 DEF HasFields, StateFields
<1>10. u = [s EXCEPT !.vars = Append(@, y), !.ids = id]
  BY <1>2, <1>3 DEF HasFields, StateFields
<1>11. PICK callee : callee = [sh EXCEPT !.vars = n, !.ret = id, !.loops = <<>>, !.noReturn = FALSE]
  OBVIOUS
<1>12. FuncPush(s, sh, y, body) = Pushing(<<Lines(callee, body), CallEnd(id)>>, Status(u, 0))
  BY <1>1, <1>10, <1>11 DEF FuncPush
<1>13. FuncPush(t, sh, CutOf(y), body) = Pushing(<<Lines(callee, body), CallEnd(id)>>, Status(CutAll(u), 0))
  BY <1>1, <1>4, <1>5, <1>9, <1>11 DEF FuncPush
<1>14. Status(CutAll(u), 0) = CutAll(Status(u, 0))
  BY <1>6, CutStatus
<1> QED BY <1>1, <1>12, <1>13, <1>14, CutPushes

\* The start of a loop.
LEMMA CutForStart ==
  ASSUME NEW s, HasFields(s), NEW sh, NEW c
  PROVE  ForStart(CutAll(s), sh, c) = CutPush(ForStart(s, sh, c))
<1>1. PICK t, id, a : /\ t = CutAll(s) /\ id = s.ids + 1
                      /\ a = <<Items([sh EXCEPT !.loops = <<id>> \o @], c, 1, id)>>
  OBVIOUS
<1>2. t.ids = s.ids
  BY <1>1, CutAllIs
<1>3. PICK u : u = [s EXCEPT !.ids = id]
  OBVIOUS
<1>4. CutAll(u) = [t EXCEPT !.ids = id]
  BY <1>1, <1>3, CutSets
<1>5. ForStart(s, sh, c) = Pushing(a, u) /\ ForStart(t, sh, c) = Pushing(a, CutAll(u))
  BY <1>1, <1>2, <1>3, <1>4 DEF ForStart
<1> QED BY <1>1, <1>5, CutPushes

\* A break, a continue.
LEMMA CutJump ==
  ASSUME NEW s, HasFields(s), NEW sh, NEW k
  PROVE  /\ Jump(CutAll(s), sh, k) = CutPush(Jump(s, sh, k))
         /\ EvalReturn(CutAll(s), sh) = CutPush(EvalReturn(s, sh))
<1>1. \A flow : Leaving(CutAll(s), flow) = CutPush(Leaving(s, flow))
  BY CutLeaving
<1>2. \A n, flow : Leaving(Status(CutAll(s), n), flow) = CutPush(Leaving(Status(s, n), flow))
  <2> SUFFICES ASSUME NEW n, NEW flow
               PROVE  Leaving(Status(CutAll(s), n), flow) = CutPush(Leaving(Status(s, n), flow))
    OBVIOUS
  <2>1. Status(CutAll(s), n) = CutAll(Status(s, n)) /\ HasFields(Status(s, n))
    BY CutStatus
  <2> QED BY <2>1, CutLeaving
<1>3. Jump(CutAll(s), sh, k) = CutPush(Jump(s, sh, k))
  BY <1>1, <1>2, Zenon DEF Jump
<1>4. EvalReturn(CutAll(s), sh) = CutPush(EvalReturn(s, sh))
  BY <1>1, <1>2, Zenon DEF EvalReturn
<1> QED BY <1>3, <1>4

\* The script of a clause.
LEMMA CutScript ==
  ASSUME NEW s, HasFields(s), NEW sh, NEW script
  PROVE  PushScript(sh, script, CutAll(s)) = CutPush(PushScript(sh, script, s))
<1>1. Status(CutAll(s), 0) = CutAll(Status(s, 0))
  BY CutStatus
<1>2. CASE script = <<>>
  BY <1>1, <1>2, CutPushes, Zenon DEF PushScript
<1>3. CASE script # <<>>
  BY <1>3, CutPushes, Zenon DEF PushScript
<1> QED BY <1>2, <1>3

\* A statement does to the cut state what it does to the state.
LEMMA CutPlain ==
  ASSUME NEW S, Statements(S), NEW v \in Nat, NEW g \in Nat, NEW s, IsState(s, S, v, g),
         NEW sh \in Contexts(v, g), NEW c \in S, IsPlain(c),
         NEW stop, NEW other, stop = other \/ AllRest(s)
  PROVE  ExecPlain(CutAll(s), sh, c, other) = CutPush(ExecPlain(s, sh, c, stop))
<1>1. PICK t, x : t = CutAll(s) /\ x = sh.vars
  OBVIOUS
<1>2. HasFields(s) /\ x \in 1 .. v
  BY <1>1, StateHas DEF Contexts
<1>3. s.vars[x] \in Locals(S, v, g) /\ s.vars[x].i \in Int /\ s.vars[x].k \in Seq(Conts(S, v, g))
  BY <1>2, LocalTypes
<1>4. t.vars[x] = CutOf(s.vars[x]) /\ t.vars[x].i = s.vars[x].i /\ t.vars[x].k = Cut(s.vars[x].k)
  <2>1. /\ CutAll(s).vars[x] = CutOf(s.vars[x]) /\ CutAll(s).vars[x].i = s.vars[x].i
        /\ CutAll(s).vars[x].k = Cut(s.vars[x].k)
    BY <1>2, CutVar
  <2> QED BY <1>1, <2>1
<1>5. \A n : CutOf(Plain(n)) = Plain(n)
  BY DEF CutOf, Plain, Cut
<1>6. \A k : CutOf(Func(k)) = Func(Cut(k))
  BY DEF CutOf, Func
<1>7. CASE c.t = "echo"
  <2>1. PICK n : n = IF c.v = 0 THEN s.vars[x].i ELSE c.v
    OBVIOUS
  <2>2. n \in Int
    BY <1>3, <1>7, <2>1 DEF Statements
  <2>3. PICK z : z = Plain(n)
    OBVIOUS
  <2>4. z \in Values(S, v, g)
    BY <2>2, <2>3 DEF Plain, Values
  <2>5. Write(CutAll(s), sh, CutOf(z), other) = CutPush(Write(s, sh, z, stop))
    BY <2>4, CutWrite
  <2>6. ExecPlain(s, sh, c, stop) = Write(s, sh, z, stop)
    BY <1>1, <1>7, <2>1, <2>3 DEF ExecPlain
  <2>7. ExecPlain(t, sh, c, other) = Write(t, sh, z, other)
    BY <1>1, <1>4, <1>7, <2>1, <2>3 DEF ExecPlain
  <2>8. CutOf(z) = z
    BY <1>5, <2>3
  <2> QED BY <1>1, <2>5, <2>6, <2>7, <2>8
<1>8. CASE c.t = "echok"
  <2>1. PICK z : z = Func(s.vars[x].k)
    OBVIOUS
  <2>2. z \in Values(S, v, g)
    BY <1>3, <2>1, 0 \in Int DEF Func, Values
  <2>3. Write(CutAll(s), sh, CutOf(z), other) = CutPush(Write(s, sh, z, stop))
    BY <2>2, CutWrite
  <2>4. ExecPlain(s, sh, c, stop) = Write(s, sh, z, stop)
    BY <1>1, <1>8, <2>1 DEF ExecPlain
  <2>5. CutOf(z) = Func(t.vars[x].k)
    BY <1>4, <1>6, <2>1
  <2>6. ExecPlain(t, sh, c, other) = Write(t, sh, CutOf(z), other)
    BY <1>1, <1>8, <2>5 DEF ExecPlain
  <2> QED BY <1>1, <2>3, <2>4, <2>6
<1>9. CASE c.t = "false"
  <2>1. Status(CutAll(s), 1) = CutAll(Status(s, 1))
    BY <1>2, CutStatus
  <2>2. /\ ExecPlain(s, sh, c, stop) = Pushing(<<>>, Status(s, 1))
        /\ ExecPlain(t, sh, c, other) = Pushing(<<>>, Status(t, 1))
    BY <1>9 DEF ExecPlain
  <2> QED BY <1>1, <2>1, <2>2, CutPushes
<1>10. CASE c.t = "if"
  <2>1. /\ ExecPlain(s, sh, c, stop) = Pushing(<<Clauses(sh, c, FALSE)>>, s)
        /\ ExecPlain(t, sh, c, other) = Pushing(<<Clauses(sh, c, FALSE)>>, t)
    BY <1>10 DEF ExecPlain
  <2> QED BY <1>1, <2>1, CutPushes
<1>11. CASE c.t = "for"
  <2>1. /\ ExecPlain(s, sh, c, stop) = ForStart(s, sh, c)
        /\ ExecPlain(t, sh, c, other) = ForStart(t, sh, c)
    BY <1>11 DEF ExecPlain
  <2> QED BY <1>1, <1>2, <2>1, CutForStart
<1>12. CASE c.t \in {"break", "continue"}
  <2>1. /\ ExecPlain(s, sh, c, stop) = Jump(s, sh, c.t)
        /\ ExecPlain(t, sh, c, other) = Jump(t, sh, c.t)
    BY <1>12 DEF ExecPlain
  <2> QED BY <1>1, <1>2, <2>1, CutJump
<1>13. CASE c.t = "call"
  <2>1. PICK y : y = s.vars[x]
    OBVIOUS
  <2>2. y \in Locals(S, v, g)
    BY <1>3, <2>1
  <2>3. FuncPush(CutAll(s), sh, CutOf(y), c.body) = CutPush(FuncPush(s, sh, y, c.body))
    BY <2>2, CutFuncPush
  <2>4. /\ ExecPlain(s, sh, c, stop) = FuncPush(s, sh, y, c.body)
        /\ ExecPlain(t, sh, c, other) = FuncPush(t, sh, CutOf(y), c.body)
    BY <1>1, <1>4, <1>13, <2>1 DEF ExecPlain
  <2> QED BY <1>1, <2>3, <2>4
<1>14. CASE c.t = "return"
  <2>1. /\ ExecPlain(s, sh, c, stop) = EvalReturn(s, sh)
        /\ ExecPlain(t, sh, c, other) = EvalReturn(t, sh)
    BY <1>14 DEF ExecPlain
  <2> QED BY <1>1, <1>2, <2>1, CutJump
<1>15. c.t \in {"echo", "echok", "false", "if", "for", "break", "continue", "call", "return"}
  <2>1. c.t \in {"echok", "false", "if", "break", "continue", "call", "return", "reset", "shift"}
        \/ c.t \in {"echo", "resume"} \/ c.t = "for" \/ c.t = "to"
    BY DEF Statements
  <2> QED BY <2>1 DEF IsPlain
<1> QED BY <1>1, <1>7, <1>8, <1>9, <1>10, <1>11, <1>12, <1>13, <1>14, <1>15

\* A step of a frame does to the cut state what it does to the state.
LEMMA CutLocal ==
  ASSUME NEW S, Statements(S), NEW v \in Nat, NEW g \in Nat, NEW s, IsState(s, S, v, g),
         NEW frame \in Frames(S, v, g), IsLocal(frame),
         NEW stop \in 0 .. g, NEW other, stop = other \/ AllRest(s)
  PROVE  StepLocal(frame, CutAll(s), other) = CutPush(StepLocal(frame, s, stop))
<1>1. PICK t : t = CutAll(s)
  OBVIOUS
<1>2. HasFields(s) /\ t.status = s.status
  <2>1. HasFields(s)
    BY StateHas
  <2> QED BY <1>1, <2>1, CutAllIs
<1>3. CASE frame.f = "lines"
  <2>1. frame \in LineFrames(S, v, g)
    BY <1>3 DEF Frames, IfFrames, ForFrames, CallFrames, ResetEnd
  <2>2. /\ StepLocal(frame, s, stop) = StepLines(frame, s, stop)
        /\ StepLocal(frame, t, other) = StepLines(frame, t, other)
    BY <1>3 DEF StepLocal
  <2>3. CASE AtEnd(frame)
    <3>1. StepLines(frame, s, stop) = Pushing(<<>>, s) /\ StepLines(frame, t, other) = Pushing(<<>>, t)
      BY <2>3 DEF StepLines
    <3> QED BY <1>1, <2>2, <3>1, CutPushes
  <2>4. CASE ~AtEnd(frame)
    <3>1. /\ frame.script \in Seq(S) /\ frame.pos \in Nat \ {0} /\ frame.sh \in Contexts(v, g)
          /\ IsPlain(Statement(frame))
      BY <1>3, <2>1, <2>4 DEF LineFrames, IsLocal
    <3>2. PICK c, sh : c = Statement(frame) /\ sh = frame.sh
      OBVIOUS
    <3>3. c \in S /\ IsPlain(c) /\ sh \in Contexts(v, g)
      BY <2>4, <3>1, <3>2 DEF AtEnd, Statement
    <3>4. ExecPlain(CutAll(s), sh, c, other) = CutPush(ExecPlain(s, sh, c, stop))
      BY <3>3, CutPlain
    <3>5. PICK a, u : ExecPlain(s, sh, c, stop) = Pushing(a, u)
      BY <2>1, <3>2, <3>3, ExecPlainSteps
    <3>6. PICK z : z = Advance(frame)
      OBVIOUS
    <3>7. StepLines(frame, s, stop) = [Pushing(a, u) EXCEPT !.frames = Append(@, z)]
      BY <2>4, <3>2, <3>5, <3>6 DEF StepLines
    <3>8. StepLines(frame, t, other) = [Pushing(a, CutAll(u)) EXCEPT !.frames = Append(@, z)]
      <4>1. ExecPlain(t, sh, c, other) = Pushing(a, CutAll(u))
        BY <1>1, <3>4, <3>5, CutPushes
      <4> QED BY <2>4, <3>2, <3>6, <4>1 DEF StepLines
    <3>9. CutPush([Pushing(a, u) EXCEPT !.frames = Append(@, z)])
            = [Pushing(a, CutAll(u)) EXCEPT !.frames = Append(@, z)]
      BY CutPushes
    <3> QED BY <1>1, <2>2, <3>7, <3>8, <3>9
  <2> QED BY <2>3, <2>4
<1>4. CASE frame.f = "if"
  <2>1. /\ StepLocal(frame, s, stop) = StepIf(frame, s)
        /\ StepLocal(frame, t, other) = StepIf(frame, t)
    BY <1>4 DEF StepLocal
  <2>2. \A script : PushScript(frame.sh, script, t) = CutPush(PushScript(frame.sh, script, s))
    BY <1>1, <1>2, CutScript
  <2>3. CASE frame.test
    BY <1>1, <1>2, <2>1, <2>2, <2>3, Zenon DEF StepIf
  <2>4. CASE ~frame.test
    <3>1. PICK z, script : z = Clauses(frame.sh, frame.s, TRUE) /\ script = frame.s.c
      OBVIOUS
    <3>2. PICK a, u : PushScript(frame.sh, script, s) = Pushing(a, u)
      BY Zenon DEF PushScript
    <3>3. PushScript(frame.sh, script, t) = Pushing(a, CutAll(u))
      BY <2>2, <3>2, CutPushes
    <3>4. /\ StepIf(frame, s) = [Pushing(a, u) EXCEPT !.frames = Append(@, z)]
          /\ StepIf(frame, t) = [Pushing(a, CutAll(u)) EXCEPT !.frames = Append(@, z)]
      BY <2>4, <3>1, <3>2, <3>3 DEF StepIf
    <3>5. CutPush([Pushing(a, u) EXCEPT !.frames = Append(@, z)])
            = [Pushing(a, CutAll(u)) EXCEPT !.frames = Append(@, z)]
      BY CutPushes
    <3> QED BY <1>1, <2>1, <3>4, <3>5
  <2> QED BY <2>3, <2>4
<1>5. CASE frame.f = "for"
  <2>1. /\ StepLocal(frame, s, stop) = StepFor(frame, s)
        /\ StepLocal(frame, t, other) = StepFor(frame, t)
    BY <1>5 DEF StepLocal
  <2>2. frame \in ForFrames(S, v, g)
    BY <1>5 DEF Frames, IfFrames, LineFrames, CallFrames, ResetEnd
  <2>3. CASE frame.index > Len(frame.s.vs)
    <3>1. Status(CutAll(s), 0) = CutAll(Status(s, 0))
      BY <1>2, CutStatus
    <3>2. /\ StepFor(frame, s) = Pushing(<<>>, Status(s, 0))
          /\ StepFor(frame, t) = Pushing(<<>>, Status(t, 0))
      BY <2>3 DEF StepFor
    <3> QED BY <1>1, <2>1, <3>1, <3>2, CutPushes
  <2>4. CASE ~(frame.index > Len(frame.s.vs))
    <3>1. /\ frame.sh \in Contexts(v, g) /\ frame.s \in S /\ frame.s.t = "for"
          /\ frame.index \in Nat \ {0}
      BY <2>2 DEF ForFrames
    <3>2. frame.s.vs \in Seq(Int)
      BY <3>1 DEF Statements
    <3>3. PICK x, n : x = frame.sh.vars /\ n = frame.s.vs[frame.index]
      OBVIOUS
    <3>4. x \in 1 .. v
      BY <3>1, <3>3 DEF Contexts
    <3>5. n \in Int
      BY <2>4, <3>1, <3>2, <3>3
    <3>6. CutAll([s EXCEPT !.vars[x].i = n]) = [CutAll(s) EXCEPT !.vars[x].i = n]
      BY <3>4, <3>5, CutItem
    <3>7. PICK a, u : /\ a = <<Lines(frame.sh, frame.s.body), [frame EXCEPT !.index = @ + 1]>>
                      /\ u = [s EXCEPT !.vars[x].i = n]
      OBVIOUS
    <3>8. StepFor(frame, s) = Pushing(a, u)
      BY <2>4, <3>3, <3>7, Zenon DEF StepFor
    <3>9. StepFor(frame, t) = Pushing(a, [t EXCEPT !.vars[x].i = n])
      BY <2>4, <3>3, <3>7, Zenon DEF StepFor
    <3> QED BY <1>1, <2>1, <3>6, <3>7, <3>8, <3>9, CutPushes
  <2> QED BY <2>3, <2>4
<1>6. CASE frame.f = "call"
  <2>1. StepLocal(frame, s, stop) = Pushing(<<>>, s) /\ StepLocal(frame, t, other) = Pushing(<<>>, t)
    BY <1>6 DEF StepLocal
  <2> QED BY <1>1, <2>1, CutPushes
<1> QED BY <1>1, <1>3, <1>4, <1>5, <1>6 DEF IsLocal

LEMMA CutGroupIs ==
  ASSUME NEW S, NEW v \in Nat, NEW g \in Nat, NEW s, IsState(s, S, v, g), NEW n \in 1 .. g
  PROVE  CutAll(s).groups[n] = CutGroup(s.groups[n])
<1>1. PICK X, c : X = Groups(S, v, g) /\ c = s.groups
  OBVIOUS
<1>2. HasFields(s) /\ c \in Seq(X) /\ n \in DOMAIN c
  BY <1>1, StateHas, HasTypes
<1>3. CutAll(s).groups = CutGroups(c)
  BY <1>1, <1>2, CutAllIs
<1>4. CutGroups(c)[n] = CutGroup(c[n])
  BY ONLY <1>2, GroupsAre
<1> QED BY <1>1, <1>3, <1>4

\* A statement with variable lists begins.
LEMMA CutNewGroup ==
  ASSUME NEW S, NEW v \in Nat, NEW g \in Nat, NEW s, IsState(s, S, v, g), NEW c
  PROVE  NewGroup(CutAll(s), c) = CutAll(NewGroup(s, c)) /\ Len(CutAll(s).groups) = Len(s.groups)
<1>1. PICK t, y, gs : /\ t = CutAll(s) /\ gs = s.groups
                      /\ y = [names |-> c.names, rest |-> c.rest, items |-> <<>>, stopped |-> FALSE]
  OBVIOUS
<1>2. HasFields(s) /\ gs \in Seq(Groups(S, v, g))
  BY <1>1, StateHas, HasTypes
<1>3. HasFields(t) /\ t.groups = CutGroups(gs)
  BY <1>1, <1>2, CutAllIs
<1>4. CutGroup(y) = y
  <2>1. CutEach(<<>>) = <<>>
    BY DEF CutEach
  <2>2. y.items = <<>> /\ CutGroup(y) = [y EXCEPT !.items = CutEach(y.items)]
    BY <1>1 DEF CutGroup
  <2>3. CutGroup(y) = [y EXCEPT !.items = y.items]
    BY <2>1, <2>2
  <2> QED BY <1>1, <2>3
<1>5. CutGroups(Append(gs, y)) = Append(CutGroups(gs), y) /\ Len(CutGroups(gs)) = Len(gs)
  <2>1. \A z : CutGroups(Append(gs, z)) = Append(CutGroups(gs), CutGroup(z))
    BY <1>2, GroupsAre
  <2>2. Len(CutGroups(gs)) = Len(gs)
    BY <1>2, GroupsAre
  <2> QED BY <1>4, <2>1, <2>2
<1>6. NewGroup(s, c) = [s EXCEPT !.groups = Append(gs, y)]
  BY <1>1 DEF NewGroup
<1>7. NewGroup(t, c) = [t EXCEPT !.groups = Append(CutGroups(gs), y)]
  BY <1>1, <1>3 DEF NewGroup
<1>8. CutAll([s EXCEPT !.groups = Append(gs, y)]) = [t EXCEPT !.groups = CutGroups(Append(gs, y))]
  BY <1>1, <1>2, CutSetsGroups
<1> QED BY <1>1, <1>3, <1>5, <1>6, <1>7, <1>8

\* The element that a variable gets.
LEMMA CutTheItem ==
  ASSUME NEW S, NEW v, NEW g, NEW group \in Groups(S, v, g), NEW name, HasName(group.names, name)
  PROVE  /\ Item(CutGroup(group), name).v = Item(group, name).v
         /\ Item(CutGroup(group), name).k = Cut(Item(group, name).k)
<1> DEFINE I == {i \in 1 .. Len(group.names) : group.names[i] = name}
           n == IF I # {} THEN Min(I) ELSE 0
<1>1. Item(group, name) = IF n > Len(group.items) THEN Plain(0) ELSE group.items[n]
  BY Zenon DEF Item, FirstPlace
<1>2. group.names \in Seq(STRING) /\ group.items \in Seq(Values(S, v, g))
  BY DEF Groups
<1>3. I # {} /\ I \subseteq Nat /\ \A i \in I : i >= 1
  BY <1>2 DEF HasName
<1>4. Min(I) \in I
  <2> HIDE DEF I
  <2> QED BY <1>3, Least
<1>5. n \in Nat /\ n >= 1
  BY <1>3, <1>4
<1>6. PICK cut, items : cut = CutGroup(group) /\ items = group.items
  OBVIOUS
<1>7. cut.names = group.names /\ cut.items = CutEach(items)
  BY <1>6 DEF CutGroup, Groups
<1>8. Item(cut, name) = IF n > Len(CutEach(items)) THEN Plain(0) ELSE CutEach(items)[n]
  BY <1>7, Zenon DEF Item, FirstPlace
<1> HIDE DEF n
<1>9. /\ Len(CutEach(items)) = Len(items)
      /\ \A m \in DOMAIN items : CutEach(items)[m] = CutOf(items[m])
  <2>1. PICK X : X = Values(S, v, g)
    OBVIOUS
  <2>2. items \in Seq(X)
    BY <1>2, <1>6, <2>1
  <2> QED BY ONLY <2>2, EachIs
<1>10. CASE n > Len(items)
  <2>1. Item(group, name) = Plain(0) /\ Item(cut, name) = Plain(0)
    BY <1>1, <1>6, <1>8, <1>9, <1>10
  <2> QED BY <1>6, <2>1 DEF Plain, Cut
<1>11. CASE ~(n > Len(items))
  <2>1. n \in DOMAIN items /\ items[n] \in Values(S, v, g)
    BY <1>2, <1>5, <1>6, <1>11
  <2>2. Item(group, name) = items[n] /\ Item(cut, name) = CutOf(items[n])
    BY <1>1, <1>6, <1>8, <1>9, <1>11, <2>1
  <2>3. CutOf(items[n]).v = items[n].v /\ CutOf(items[n]).k = Cut(items[n].k)
    BY <2>1 DEF CutOf, Values
  <2> QED BY <1>6, <2>2, <2>3
<1> QED BY <1>10, <1>11

\* The variables that the lists have been assigned to.
LEMMA CutAssigned ==
  ASSUME NEW S, NEW v, NEW g, NEW group \in Groups(S, v, g), NEW y \in Locals(S, v, g)
  PROVE  Assigned(CutOf(y), CutGroup(group)) = CutOf(Assigned(y, group))
<1>1. PICK cut : cut = CutGroup(group)
  OBVIOUS
<1>2. cut.names = group.names
  BY <1>1 DEF CutGroup, Groups
<1>3. \A name : HasName(group.names, name) =>
        /\ Item(cut, name).v = Item(group, name).v
        /\ Item(cut, name).k = Cut(Item(group, name).k)
  BY <1>1, CutTheItem
<1>4. CutOf(y).i = y.i /\ CutOf(y).k = Cut(y.k)
  BY DEF CutOf, Locals
<1>5. PICK i, k : /\ i = IF HasName(group.names, "i") THEN Item(group, "i").v ELSE y.i
                  /\ k = IF HasName(group.names, "k") THEN Item(group, "k").k ELSE y.k
  OBVIOUS
<1>6. Assigned(y, group) = [i |-> i, k |-> k]
  BY <1>5 DEF Assigned
<1>7. Assigned(CutOf(y), cut) = [i |-> i, k |-> Cut(k)]
  <2>1. HasName(cut.names, "i") <=> HasName(group.names, "i")
    BY <1>2
  <2>2. i = IF HasName(cut.names, "i") THEN Item(cut, "i").v ELSE CutOf(y).i
    BY <1>3, <1>4, <1>5, <2>1
  <2>3. Cut(k) = IF HasName(cut.names, "k") THEN Item(cut, "k").k ELSE CutOf(y).k
    BY <1>2, <1>3, <1>4, <1>5
  <2> QED BY <2>2, <2>3 DEF Assigned
<1>8. CutOf([i |-> i, k |-> k]) = [i |-> i, k |-> Cut(k)]
  BY DEF CutOf
<1> QED BY <1>1, <1>6, <1>7, <1>8

\* The end of a statement with variable lists.
LEMMA CutAssign ==
  ASSUME NEW S, NEW v \in Nat, NEW g \in Nat, NEW s, IsState(s, S, v, g),
         NEW sh \in Contexts(v, g), NEW n \in 1 .. g
  PROVE  /\ CaptureAssign(CutAll(s), sh, n) = CutAll(CaptureAssign(s, sh, n))
         /\ HasFields(CaptureAssign(s, sh, n)) /\ CaptureAssign(s, sh, n).flow = s.flow
<1>1. PICK t, x, group : t = CutAll(s) /\ x = sh.vars /\ group = s.groups[n]
  OBVIOUS
<1>2. x \in 1 .. v /\ group \in Groups(S, v, g) /\ HasFields(s)
  BY <1>1, GroupTypes, StateHas DEF Contexts
<1>3. PICK c, y, z : c = s.vars /\ y = s.vars[x] /\ z = Assigned(y, group)
  OBVIOUS
<1>4. c \in Seq(Locals(S, v, g)) /\ x \in DOMAIN c /\ y \in Locals(S, v, g)
  BY <1>2, <1>3, HasTypes, LocalTypes
<1>5. z \in Locals(S, v, g)
  <2>1. HasName(group.names, "i") => Item(group, "i").v \in Int
    BY <1>2, ItemIs DEF Values
  <2>2. HasName(group.names, "k") => Item(group, "k").k \in Seq(Conts(S, v, g))
    BY <1>2, ItemIs DEF Values
  <2>3. y.i \in Int /\ y.k \in Seq(Conts(S, v, g))
    BY <1>4 DEF Locals
  <2> QED BY <1>3, <2>1, <2>2, <2>3 DEF Assigned, Locals
<1>6. /\ HasFields(t) /\ t.vars = CutEach(c) /\ t.vars[x] = CutOf(y) /\ t.groups[n] = CutGroup(group)
      /\ t.status = s.status
  <2>1. HasFields(t) /\ t.vars = CutEach(c) /\ t.status = s.status
    BY <1>1, <1>2, <1>3, CutAllIs
  <2>2. CutAll(s).vars[x] = CutOf(s.vars[x])
    BY <1>2, CutVar
  <2>3. CutAll(s).groups[n] = CutGroup(s.groups[n])
    BY CutGroupIs
  <2> QED BY <1>1, <1>3, <2>1, <2>2, <2>3
<1>7. CutGroup(group).stopped = group.stopped
  BY <1>2 DEF CutGroup, Groups
<1>8. PICK status, d : /\ status = IF group.stopped THEN 0 ELSE s.status
                       /\ d = [c EXCEPT ![x] = z]
  OBVIOUS
<1>9. CutEach(d) = [CutEach(c) EXCEPT ![x] = CutOf(z)]
  <2>1. PICK X : X = Locals(S, v, g)
    OBVIOUS
  <2>2. c \in Seq(X) /\ x \in DOMAIN c /\ z \in X
    BY <1>4, <1>5, <2>1
  <2>3. CutEach([c EXCEPT ![x] = z]) = [CutEach(c) EXCEPT ![x] = CutOf(z)]
    BY ONLY <2>2, EachSet
  <2> QED BY <1>8, <2>3
<1>10. Assigned(CutOf(y), CutGroup(group)) = CutOf(z)
  BY <1>2, <1>3, <1>4, CutAssigned
<1>11. PICK w, u : w = [s EXCEPT !.vars = d] /\ u = [w EXCEPT !.status = status]
  OBVIOUS
<1>12. HasFields(w) /\ HasFields(u) /\ u.flow = s.flow
  BY <1>2, <1>11 DEF HasFields, StateFields
<1>13. CutAll(w) = [t EXCEPT !.vars = CutEach(d)]
  BY <1>1, <1>2, <1>11, CutSets
<1>14. CutAll(u) = [CutAll(w) EXCEPT !.status = status]
  BY <1>11, <1>12, CutSets
<1>15. CaptureAssign(s, sh, n) = u
  <2>1. CaptureAssign(s, sh, n) = [s EXCEPT !.vars[x] = z, !.status = status]
    BY <1>1, <1>3, <1>8 DEF CaptureAssign
  <2>2. [s EXCEPT !.vars[x] = z, !.status = status] = u
    BY <1>2, <1>3, <1>8, <1>11 DEF HasFields, StateFields
  <2> QED BY <2>1, <2>2
<1>16. CaptureAssign(t, sh, n) = CutAll(u)
  <2>1. CaptureAssign(t, sh, n) = [t EXCEPT !.vars[x] = CutOf(z), !.status = status]
    BY <1>1, <1>6, <1>7, <1>8, <1>10 DEF CaptureAssign
  <2>2. [t EXCEPT !.vars[x] = CutOf(z), !.status = status] = CutAll(u)
    BY <1>6, <1>9, <1>13, <1>14 DEF HasFields, StateFields
  <2> QED BY <2>1, <2>2
<1> QED BY <1>1, <1>12, <1>15, <1>16

\* A flow that leaves a statement with variable lists.
LEMMA CutCaught ==
  ASSUME NEW S, NEW v \in Nat, NEW g \in Nat, NEW s, IsState(s, S, v, g),
         NEW sh \in Contexts(v, g), NEW n \in 1 .. g
  PROVE  Caught(CutAll(s), sh, n) = CutAll(Caught(s, sh, n))
<1>1. PICK t, r : t = CutAll(s) /\ r = CaptureAssign(s, sh, n)
  OBVIOUS
<1>2. t.flow = s.flow
  BY <1>1, StateHas, CutAllIs
<1>3. CaptureAssign(t, sh, n) = CutAll(r) /\ HasFields(r)
  BY <1>1, CutAssign
<1>4. CutAll([r EXCEPT !.flow = Onward]) = [CutAll(r) EXCEPT !.flow = Onward]
  BY <1>3, CutSets
<1>5. CASE s.flow = Failed
  BY <1>1, <1>2, <1>5 DEF Caught
<1>6. CASE s.flow # Failed
  <2>1. Caught(s, sh, n) = IF s.flow = Flow("abort", n) THEN [r EXCEPT !.flow = Onward] ELSE r
    BY <1>1, <1>6 DEF Caught
  <2>2. Caught(t, sh, n)
          = IF s.flow = Flow("abort", n) THEN [CutAll(r) EXCEPT !.flow = Onward] ELSE CutAll(r)
    BY <1>2, <1>3, <1>6 DEF Caught
  <2> QED BY <1>1, <1>4, <2>1, <2>2
<1> QED BY <1>5, <1>6

\* A flow that ends.
LEMMA CutLanded ==
  ASSUME NEW s, HasFields(s)
  PROVE  Landed(CutAll(s)) = CutAll(Landed(s))
<1>1. PICK t, status : t = CutAll(s) /\ status = IF s.flow.k = "break" THEN 0 ELSE s.status
  OBVIOUS
<1>2. HasFields(t) /\ t.flow = s.flow /\ t.status = s.status
  BY <1>1, CutAllIs
<1>3. PICK w, u : w = [s EXCEPT !.flow = Onward] /\ u = [w EXCEPT !.status = status]
  OBVIOUS
<1>4. HasFields(w)
  BY <1>3 DEF HasFields, StateFields
<1>5. CutAll(w) = [t EXCEPT !.flow = Onward] /\ CutAll(u) = [CutAll(w) EXCEPT !.status = status]
  BY <1>1, <1>3, <1>4, CutSets
<1>6. Landed(s) = u
  BY <1>1, <1>3 DEF Landed
<1>7. Landed(t) = CutAll(u)
  BY <1>1, <1>2, <1>5 DEF Landed
<1> QED BY <1>1, <1>6, <1>7

\* No continuation is there at the start.
LEMMA CutFresh == CutAll(Fresh) = Fresh
<1>1. CutEach(<<[k |-> <<>>, i |-> 9]>>) = <<[k |-> <<>>, i |-> 9]>>
  BY DEF CutEach, CutOf, Cut
<1>2. CutGroups(<<>>) = <<>>
  BY DEF CutGroups
<1>3. CutAll(Fresh) = [Fresh EXCEPT !.vars = CutEach(Fresh.vars), !.groups = CutGroups(Fresh.groups)]
  BY DEF CutAll
<1>4. Fresh.vars = <<[k |-> <<>>, i |-> 9]>> /\ Fresh.groups = <<>>
  BY DEF Fresh
<1>5. CutAll(Fresh) = [Fresh EXCEPT !.vars = Fresh.vars, !.groups = Fresh.groups]
  BY <1>1, <1>2, <1>3, <1>4
<1> QED BY <1>5 DEF Fresh

----------------------------------------------------------------------------
(***************************************************************************)
(* The one stack: its frames, and how it changes with the runs and meta.   *)
(***************************************************************************)
\* The frames of the stack: those of the Chains, and the marks.
ResetMarks(v, g) == [f : {"reset"}, sh : Contexts(v, g)]
ListMarks(v, g) == [f : {"list"}, sh : Contexts(v, g), g : 0 .. g]
StackFrames(S, v, g) == Frames(S, v, g) \cup ResetMarks(v, g) \cup ListMarks(v, g)

\* The mark of the variable lists of a run.
ListOf(r) == IF r.g = 0 THEN <<>> ELSE <<[f |-> "list", sh |-> r.sh, g |-> r.g]>>

\* The mark of a reset and what its entry of meta says.
ResetPile(rs, mt, i, j) == <<[f |-> "reset", sh |-> mt[i + 1].sh]>> \o Rest(rs, mt, i + 1, j, TRUE)

\* After a Chain with the end of a reset, that reset.
LEMMA BelowReset ==
  ASSUME NEW F, NEW c \in Seq(F), HasReset(c, 1), NEW rs, NEW mt, NEW i, NEW j, i < Len(mt)
  PROVE  Below(rs, mt, c, i, j) = ResetPile(rs, mt, i, j)
<1>1. ResetEnds(c) > 0
  BY Counted
<1> QED BY <1>1 DEF Below, Follow, Rest, ResetPile

\* After one without, the list of the run and the run around it.
LEMMA BelowList ==
  ASSUME NEW F, NEW c \in Seq(F), ~HasReset(c, 1), NEW rs, NEW mt, NEW i, NEW j, NEW y, y = j + 1
  PROVE  Below(rs, mt, c, i, j) = ListOf(rs[y]) \o Rest(rs, mt, i, y, FALSE)
<1>1. ~(ResetEnds(c) > 0)
  BY Counted
<1> QED BY <1>1 DEF Below, Follow, Rest, ListOf

\* Two Chains with the same ends.
LEMMA BelowSame ==
  ASSUME NEW F, NEW c \in Seq(F), NEW G, NEW d \in Seq(G), HasReset(c, 1) <=> HasReset(d, 1),
         NEW rs, NEW mt, NEW i, NEW j
  PROVE  Below(rs, mt, c, i, j) = Below(rs, mt, d, i, j)
<1>1. ResetEnds(c) > 0 <=> HasReset(c, 1)
  BY Counted
<1>2. ResetEnds(d) > 0 <=> HasReset(d, 1)
  BY Counted
<1>3. ResetEnds(c) > 0 <=> ResetEnds(d) > 0
  BY <1>1, <1>2
<1> QED BY <1>3 DEF Below, Follow

LEMMA ListOfType ==
  ASSUME NEW S, NEW v, NEW g, NEW r \in Calls(S, v, g)
  PROVE  ListOf(r) \in Seq(StackFrames(S, v, g))
<1>1. CASE r.g = 0
  BY <1>1 DEF ListOf
<1>2. CASE r.g # 0
  <2>1. PICK m : m = [f |-> "list", sh |-> r.sh, g |-> r.g]
    OBVIOUS
  <2>2. m \in StackFrames(S, v, g)
    BY <2>1 DEF StackFrames, ListMarks, Calls
  <2> QED BY <1>2, <2>1, <2>2 DEF ListOf
<1> QED BY <1>1, <1>2

\* The Chain of a place.
ChainAt(rs, mt, i, j, r) == IF r THEN mt[i].k ELSE rs[j + 1].chain

\* The Chain of a place is a sequence of frames.
LEMMA PartTypes ==
  ASSUME NEW S, NEW v, NEW g, NEW rs \in Seq(Calls(S, v, g)), NEW mt \in Seq(Infos(S, v, g))
  PROVE  /\ \A j \in 1 .. Len(rs) : rs[j].chain \in Seq(Frames(S, v, g)) /\ ListOf(rs[j]) \in Seq(StackFrames(S, v, g))
         /\ \A i \in 1 .. Len(mt) : mt[i].k \in Seq(Frames(S, v, g)) /\ mt[i].sh \in Contexts(v, g)
<1>1. \A j \in 1 .. Len(rs) : rs[j] \in Calls(S, v, g)
  OBVIOUS
<1>2. \A i \in 1 .. Len(mt) : mt[i] \in Infos(S, v, g)
  OBVIOUS
<1>3. ASSUME NEW j \in 1 .. Len(rs)
      PROVE  rs[j].chain \in Seq(Frames(S, v, g)) /\ ListOf(rs[j]) \in Seq(StackFrames(S, v, g))
  <2>1. rs[j] \in Calls(S, v, g)
    BY <1>1
  <2>2. rs[j].chain \in Seq(Frames(S, v, g))
    BY <2>1 DEF Calls
  <2> QED BY <2>1, <2>2, ListOfType
<1>4. ASSUME NEW i \in 1 .. Len(mt) PROVE mt[i].k \in Seq(Frames(S, v, g)) /\ mt[i].sh \in Contexts(v, g)
  BY <1>2 DEF Infos
<1> QED BY <1>3, <1>4

\* What comes after a Chain, when what is left at the places after it is typed.
LEMMA BelowTyped ==
  ASSUME NEW S, NEW v, NEW g, NEW rs \in Seq(Calls(S, v, g)), NEW mt \in Seq(Infos(S, v, g)),
         NEW i \in 0 .. Len(mt), NEW j \in Nat, j < Len(rs), NEW c \in Seq(Frames(S, v, g)),
         i < Len(mt) => Rest(rs, mt, i + 1, j, TRUE) \in Seq(StackFrames(S, v, g)),
         Rest(rs, mt, i, j + 1, FALSE) \in Seq(StackFrames(S, v, g))
  PROVE  Below(rs, mt, c, i, j) \in Seq(StackFrames(S, v, g))
<1>1. PICK X : X = StackFrames(S, v, g)
  OBVIOUS
<1>2. CASE HasReset(c, 1) /\ i < Len(mt)
  <2>1. PICK m, r : m = [f |-> "reset", sh |-> mt[i + 1].sh] /\ r = Rest(rs, mt, i + 1, j, TRUE)
    OBVIOUS
  <2>2. i + 1 \in 1 .. Len(mt)
    BY <1>2
  <2>3. mt[i + 1].sh \in Contexts(v, g)
    BY <2>2, PartTypes
  <2>4. <<m>> \in Seq(X) /\ r \in Seq(X)
    <3>1. m \in X
      BY <1>1, <2>1, <2>3 DEF StackFrames, ResetMarks
    <3>2. <<m>> \in Seq(X)
      BY ONLY <3>1
    <3>3. r \in Seq(X)
      BY <1>1, <1>2, <2>1
    <3> QED BY <3>2, <3>3
  <2>5. Below(rs, mt, c, i, j) = <<m>> \o r
    <3>1. Below(rs, mt, c, i, j) = ResetPile(rs, mt, i, j)
      BY <1>2, BelowReset
    <3> QED BY <2>1, <3>1, Zenon DEF ResetPile
  <2>6. <<m>> \o r \in Seq(X)
    BY ONLY <2>4, Concat
  <2> QED BY <1>1, <2>5, <2>6
<1>3. CASE ~(HasReset(c, 1) /\ i < Len(mt))
  <2>1. PICK l, r : l = ListOf(rs[j + 1]) /\ r = Rest(rs, mt, i, j + 1, FALSE)
    OBVIOUS
  <2>2. j + 1 \in 1 .. Len(rs)
    OBVIOUS
  <2>3. l \in Seq(X) /\ r \in Seq(X)
    BY <1>1, <2>1, <2>2, PartTypes
  <2>4. Below(rs, mt, c, i, j) = l \o r
    <3>1. ResetEnds(c) > 0 <=> HasReset(c, 1)
      BY Counted
    <3> QED BY <1>3, <2>1, <3>1 DEF Below, Follow, Rest, ListOf
  <2>5. l \o r \in Seq(X)
    BY ONLY <2>3, Concat
  <2> QED BY <1>1, <2>4, <2>5
<1> QED BY <1>2, <1>3

\* What is left is a sequence of frames of the stack.
LEMMA RestType ==
  ASSUME NEW S, NEW v, NEW g, NEW rs \in Seq(Calls(S, v, g)), NEW mt \in Seq(Infos(S, v, g)),
         NEW i \in 0 .. Len(mt), NEW j \in 0 .. Len(rs), NEW r \in BOOLEAN, r => i > 0
  PROVE  Rest(rs, mt, i, j, r) \in Seq(StackFrames(S, v, g))
<1> DEFINE X == StackFrames(S, v, g)
           Bad(n) == \E a \in 0 .. Len(mt), b \in 0 .. Len(rs), q \in BOOLEAN :
                       /\ q => a > 0
                       /\ n = (Len(mt) - a) + (Len(rs) - b)
                       /\ Rest(rs, mt, a, b, q) \notin Seq(X)
<1>1. Len(mt) \in Nat /\ Len(rs) \in Nat
  OBVIOUS
<1>2. PICK T : T = {n \in Nat : Bad(n)}
  OBVIOUS
<1>3. SUFFICES ASSUME T # {} PROVE FALSE
  <2> SUFFICES ASSUME Rest(rs, mt, i, j, r) \notin Seq(X) PROVE T # {}
    OBVIOUS
  <2>1. PICK n : n = (Len(mt) - i) + (Len(rs) - j)
    OBVIOUS
  <2>2. n \in Nat
    BY <1>1, <2>1
  <2>3. Bad(n)
    BY <2>1
  <2> HIDE DEF Bad
  <2> QED BY <1>2, <2>2, <2>3
<1>4. PICK n : n = Min(T)
  OBVIOUS
<1>5. n \in Nat /\ Bad(n) /\ \A y \in T : n <= y
  <2> HIDE DEF Bad
  <2>1. n \in T /\ \A y \in T : n <= y
    BY <1>2, <1>3, <1>4, Least
  <2> QED BY <1>2, <2>1
<1>6. PICK a \in 0 .. Len(mt), b \in 0 .. Len(rs), q \in BOOLEAN :
        /\ q => a > 0
        /\ n = (Len(mt) - a) + (Len(rs) - b)
        /\ Rest(rs, mt, a, b, q) \notin Seq(X)
  BY <1>5
<1>7. ASSUME NEW x \in 0 .. Len(mt), NEW y \in 0 .. Len(rs), NEW z \in BOOLEAN,
             z => x > 0, (Len(mt) - x) + (Len(rs) - y) < n
      PROVE  Rest(rs, mt, x, y, z) \in Seq(X)
  <2>1. PICK l : l = (Len(mt) - x) + (Len(rs) - y)
    OBVIOUS
  <2>2. ASSUME Rest(rs, mt, x, y, z) \notin Seq(X) PROVE Bad(l)
    BY <1>7, <2>1, <2>2
  <2> HIDE DEF Bad
  <2>3. l \in Nat /\ ~(n <= l)
    BY <1>1, <1>5, <1>7, <2>1
  <2>4. l \notin T
    BY <1>5, <2>3
  <2> QED BY <1>2, <2>2, <2>3, <2>4
<1> HIDE DEF Bad
<1>8. PICK c : c = ChainAt(rs, mt, a, b, q)
  OBVIOUS
<1>9. Rest(rs, mt, a, b, q) = IF b = Len(rs) THEN <<>> ELSE Before(c) \o Below(rs, mt, c, a, b)
  BY <1>8, RestAt DEF ChainAt
<1>10. b # Len(rs)
  <2>1. <<>> \in Seq(X)
    OBVIOUS
  <2> QED BY <1>6, <1>9, <2>1
<1>11. b < Len(rs) /\ b + 1 \in DOMAIN rs /\ b + 1 \in 0 .. Len(rs)
  BY <1>1, <1>10
<1>12. c \in Seq(Frames(S, v, g))
  <2>1. CASE q
    <3>1. a \in 1 .. Len(mt)
      BY <1>1, <1>6, <2>1
    <3>2. mt[a].k \in Seq(Frames(S, v, g))
      BY <3>1, PartTypes
    <3> QED BY <1>8, <2>1, <3>2 DEF ChainAt
  <2>2. CASE ~q
    <3>1. b + 1 \in 1 .. Len(rs)
      BY <1>1, <1>11
    <3>2. rs[b + 1].chain \in Seq(Frames(S, v, g))
      BY <3>1, PartTypes
    <3> QED BY <1>8, <2>2, <3>2 DEF ChainAt
  <2> QED BY <2>1, <2>2
<1>13. Before(c) \in Seq(X)
  <2>1. Before(c) \in Seq(Frames(S, v, g))
    BY <1>12, BeforeType
  <2>2. Frames(S, v, g) \subseteq X
    BY DEF StackFrames
  <2> HIDE DEF X
  <2> QED BY <2>1, <2>2, SeqMono
<1>14. Below(rs, mt, c, a, b) \in Seq(X)
  <2>1. a < Len(mt) => Rest(rs, mt, a + 1, b, TRUE) \in Seq(X)
    <3> SUFFICES ASSUME a < Len(mt) PROVE Rest(rs, mt, a + 1, b, TRUE) \in Seq(X)
      OBVIOUS
    <3>0. PICK z \in BOOLEAN : z = TRUE
      OBVIOUS
    <3>1. PICK y : z = TRUE /\ y = a + 1
      BY <3>0
    <3>2. y \in 0 .. Len(mt) /\ y > 0 /\ (Len(mt) - y) + (Len(rs) - b) < n
      BY <1>1, <1>6, <3>1
    <3>3. Rest(rs, mt, y, b, z) \in Seq(X)
      BY <1>7, <3>2
    <3> QED BY <3>1, <3>3
  <2>2. Rest(rs, mt, a, b + 1, FALSE) \in Seq(X)
    <3>0. PICK z \in BOOLEAN : z = FALSE
      OBVIOUS
    <3>1. PICK y : z = FALSE /\ y = b + 1
      BY <3>0
    <3>2. y \in 0 .. Len(rs) /\ (Len(mt) - a) + (Len(rs) - y) < n
      BY <1>1, <1>6, <1>11, <3>1
    <3>3. Rest(rs, mt, a, y, z) \in Seq(X)
      BY <1>7, <3>1, <3>2
    <3> QED BY <3>1, <3>3
  <2>3. b \in Nat /\ b < Len(rs)
    BY <1>11
  <2> QED BY <1>12, <2>1, <2>2, <2>3, BelowTyped
<1>15. Before(c) \o Below(rs, mt, c, a, b) \in Seq(X)
  BY ONLY <1>13, <1>14, Concat
<1> QED BY <1>6, <1>9, <1>10, <1>15

LEMMA BelowType ==
  ASSUME NEW S, NEW v, NEW g, NEW rs \in Seq(Calls(S, v, g)), NEW mt \in Seq(Infos(S, v, g)),
         NEW i \in 0 .. Len(mt), NEW j \in Nat, j < Len(rs), NEW c \in Seq(Frames(S, v, g))
  PROVE  Below(rs, mt, c, i, j) \in Seq(StackFrames(S, v, g))
<1>1. Len(mt) \in Nat /\ Len(rs) \in Nat /\ j \in 0 .. Len(rs)
  OBVIOUS
<1>2. i < Len(mt) => Rest(rs, mt, i + 1, j, TRUE) \in Seq(StackFrames(S, v, g))
  <2> SUFFICES ASSUME i < Len(mt) PROVE Rest(rs, mt, i + 1, j, TRUE) \in Seq(StackFrames(S, v, g))
    OBVIOUS
  <2>0. PICK z \in BOOLEAN : z = TRUE
    OBVIOUS
  <2>1. PICK y : z = TRUE /\ y = i + 1
    BY <2>0
  <2>2. y \in 0 .. Len(mt) /\ y > 0
    BY <1>1, <2>1
  <2>3. Rest(rs, mt, y, j, z) \in Seq(StackFrames(S, v, g))
    BY <1>1, <2>2, RestType
  <2> QED BY <2>1, <2>3
<1>3. Rest(rs, mt, i, j + 1, FALSE) \in Seq(StackFrames(S, v, g))
  <2>0. PICK z \in BOOLEAN : z = FALSE
    OBVIOUS
  <2>1. PICK y : z = FALSE /\ y = j + 1
    BY <2>0
  <2>2. y \in 0 .. Len(rs)
    BY <1>1, <2>1
  <2>3. Rest(rs, mt, i, y, z) \in Seq(StackFrames(S, v, g))
    BY <2>1, <2>2, RestType
  <2> QED BY <2>1, <2>3
<1> QED BY <1>2, <1>3, BelowTyped

\* What is left.
Whole(rs, mt) == Rest(rs, mt, 0, 0, FALSE)

LEMMA WholeIs ==
  ASSUME NEW R, NEW rs \in Seq(R), NEW M, NEW mt \in Seq(M)
  PROVE  /\ rs = <<>> => Whole(rs, mt) = <<>>
         /\ rs # <<>> => Whole(rs, mt) = Before(rs[1].chain) \o Below(rs, mt, rs[1].chain, 0, 0)
<1>0. PICK r \in BOOLEAN : r = FALSE
  OBVIOUS
<1>1. PICK i, c : r = FALSE /\ i = 0 /\ c = rs[1].chain
  BY <1>0
<1>2. i \in 0 .. Len(mt) /\ i \in 0 .. Len(rs) /\ c = IF r THEN mt[i].k ELSE rs[i + 1].chain
  BY <1>1
<1>3. Rest(rs, mt, i, i, r) = IF i = Len(rs) THEN <<>> ELSE Before(c) \o Below(rs, mt, c, i, i)
  BY ONLY <1>2, RestAt
<1>4. Whole(rs, mt) = IF 0 = Len(rs) THEN <<>> ELSE Before(c) \o Below(rs, mt, c, 0, 0)
  BY <1>1, <1>3 DEF Whole
<1>5. rs = <<>> <=> Len(rs) = 0
  OBVIOUS
<1> QED BY <1>1, <1>4, <1>5

\* The innermost run goes on with the Chain c.
Turned(os, rs, c) ==
  /\ Len(os) = Len(rs) /\ os[1].chain = c /\ os[1].g = rs[1].g /\ os[1].sh = rs[1].sh
  /\ \A y \in 2 .. Len(rs) : os[y] = rs[y]

\* The runs when the innermost one goes on with c.
TurnTo(rs, c) == [rs EXCEPT ![1].chain = c]

\* They are runs.
LEMMA TurnedIs ==
  ASSUME NEW S, NEW v, NEW g, NEW rs \in Seq(Calls(S, v, g)), rs # <<>>,
         NEW c \in Seq(Frames(S, v, g))
  PROVE  TurnTo(rs, c) \in Seq(Calls(S, v, g)) /\ TurnTo(rs, c) # <<>> /\ Turned(TurnTo(rs, c), rs, c)
<1>1. 1 \in DOMAIN rs /\ rs[1] \in Calls(S, v, g) /\ DOMAIN rs = 1 .. Len(rs) /\ Len(rs) \in Nat
  OBVIOUS
<1>2. PICK r : r = [rs[1] EXCEPT !.chain = c]
  OBVIOUS
<1>3. r \in Calls(S, v, g) /\ r.chain = c /\ r.g = rs[1].g /\ r.sh = rs[1].sh
  BY <1>1, <1>2 DEF Calls
<1>4. PICK os : os = [rs EXCEPT ![1] = r]
  OBVIOUS
<1>5. /\ os \in Seq(Calls(S, v, g)) /\ Len(os) = Len(rs) /\ os[1] = r
      /\ \A y \in 2 .. Len(rs) : os[y] = rs[y]
  BY <1>1, <1>3, <1>4
<1>6. TurnTo(rs, c) = os
  BY <1>1, <1>2, <1>4 DEF TurnTo
<1>7. Turned(os, rs, c) /\ os # <<>>
  BY <1>1, <1>3, <1>5 DEF Turned
<1> QED BY <1>5, <1>6, <1>7

\* meta is as it was.
LEMMA WholeTurned ==
  ASSUME NEW S, NEW v, NEW g, NEW rs \in Seq(Calls(S, v, g)), rs # <<>>, NEW mt \in Seq(Infos(S, v, g)),
         NEW c \in Seq(Frames(S, v, g)),
         NEW os \in Seq(Calls(S, v, g)), os # <<>>, Turned(os, rs, c)
  PROVE  Whole(os, mt) = Before(c) \o Below(rs, mt, c, 0, 0)
<1>1. os \in Seq(Calls(S, v, g)) /\ os # <<>> /\ Turned(os, rs, c)
  OBVIOUS
<1>2. Whole(os, mt) = Before(c) \o Below(os, mt, c, 0, 0)
  <2>1. os[1].chain = c
    BY <1>1 DEF Turned
  <2> QED BY <1>1, <2>1, WholeIs
<1>3. PICK o : o = 0
  OBVIOUS
<1>4. Moved(rs, mt, os, mt, o, o, o, o)
  BY <1>1, <1>3 DEF Moved, Turned
<1>5. Below(os, mt, c, o + o, o + o) = Below(rs, mt, c, o, o)
  BY ONLY <1>1, <1>4, BelowMoves, rs \in Seq(Calls(S, v, g)), mt \in Seq(Infos(S, v, g))
<1>6. o + o = 0
  BY <1>3
<1> QED BY <1>2, <1>3, <1>5, <1>6

\* The runs os are r and those of ts.
OnTop(os, r, ts) == os = <<r>> \o ts

\* An entry x of meta is added, and c has the end of a reset.
LEMMA WholeAdded ==
  ASSUME NEW S, NEW v, NEW g, NEW rs \in Seq(Calls(S, v, g)), rs # <<>>, NEW mt \in Seq(Infos(S, v, g)),
         NEW c \in Seq(Frames(S, v, g)), HasReset(c, 1), NEW x \in Infos(S, v, g),
         NEW os \in Seq(Calls(S, v, g)), os # <<>>, Turned(os, rs, c), NEW ot, OnTop(ot, x, mt)
  PROVE  Whole(os, ot) = Before(c) \o (<<[f |-> "reset", sh |-> x.sh]>> \o (Before(x.k) \o Below(rs, mt, x.k, 0, 0)))
<1>1. os \in Seq(Calls(S, v, g)) /\ os # <<>> /\ Turned(os, rs, c)
  OBVIOUS
<1>2. /\ ot \in Seq(Infos(S, v, g)) /\ Len(ot) = Len(mt) + 1 /\ ot[1] = x /\ Len(mt) \in Nat
      /\ \A y \in 1 .. Len(mt) : ot[y + 1] = mt[y]
  <2>1. <<x>> \in Seq(Infos(S, v, g)) /\ Len(<<x>>) = 1 /\ <<x>>[1] = x
    OBVIOUS
  <2>2. /\ ot \in Seq(Infos(S, v, g)) /\ Len(ot) = Len(<<x>>) + Len(mt)
        /\ \A i \in 1 .. Len(<<x>>) : ot[i] = <<x>>[i]
        /\ \A i \in 1 .. Len(mt) : ot[Len(<<x>>) + i] = mt[i]
    BY <2>1, Concat DEF OnTop
  <2> QED BY <2>1, <2>2
<1>3. Whole(os, ot) = Before(c) \o Below(os, ot, c, 0, 0)
  <2>1. os[1].chain = c
    BY <1>1 DEF Turned
  <2> QED BY <1>1, <1>2, <2>1, WholeIs
<1>4. Below(os, ot, c, 0, 0) = <<[f |-> "reset", sh |-> ot[1].sh]>> \o Rest(os, ot, 1, 0, TRUE)
  <2>1. PICK o : o = 0
    OBVIOUS
  <2>2. o < Len(ot) /\ o + 1 = 1
    BY <1>2, <2>1
  <2>3. Below(os, ot, c, o, o) = ResetPile(os, ot, o, o)
    <3>1. c \in Seq(Frames(S, v, g)) /\ HasReset(c, 1)
      OBVIOUS
    <3> QED BY ONLY <2>2, <3>1, BelowReset
  <2> QED BY <2>1, <2>2, <2>3, Zenon DEF ResetPile
<1>5. Rest(os, ot, 1, 0, TRUE) = Before(x.k) \o Below(os, ot, x.k, 1, 0)
  <2>0. PICK r \in BOOLEAN : r = TRUE
    OBVIOUS
  <2>1. PICK i, j, k : r = TRUE /\ i = 1 /\ j = 0 /\ k = x.k
    BY <2>0
  <2>2. /\ i \in 0 .. Len(ot) /\ j \in 0 .. Len(os) /\ j # Len(os)
        /\ k = IF r THEN ot[i].k ELSE os[j + 1].chain
    BY <1>1, <1>2, <2>1
  <2>3. Rest(os, ot, i, j, r) = LeftOf(os, ot, k, i, j)
    <3>1. os \in Seq(Calls(S, v, g)) /\ ot \in Seq(Infos(S, v, g)) /\ r \in BOOLEAN
      BY <1>2
    <3> QED BY ONLY <2>2, <3>1, LeftIs
  <2> QED BY <2>1, <2>2, <2>3 DEF LeftOf
<1>6. Below(os, ot, x.k, 1, 0) = Below(rs, mt, x.k, 0, 0)
  <2>1. PICK o, n : o = 0 /\ n = 1
    OBVIOUS
  <2>2. Moved(rs, mt, os, ot, o, o, n, o)
    BY <1>1, <1>2, <2>1 DEF Moved, Turned
  <2>3. PICK k : k = x.k
    OBVIOUS
  <2>4. Below(os, ot, k, o + n, o + o) = Below(rs, mt, k, o, o)
    <3>1. /\ os \in Seq(Calls(S, v, g)) /\ ot \in Seq(Infos(S, v, g))
          /\ rs \in Seq(Calls(S, v, g)) /\ mt \in Seq(Infos(S, v, g))
      BY <1>2
    <3> QED BY ONLY <2>2, <3>1, BelowMoves
  <2>5. o + n = 1 /\ o + o = 0
    BY <2>1
  <2> QED BY <2>1, <2>3, <2>4, <2>5
<1>7. Below(os, ot, c, 0, 0) = <<[f |-> "reset", sh |-> x.sh]>> \o Rest(os, ot, 1, 0, TRUE)
  BY <1>2, <1>4
<1> QED BY <1>3, <1>5, <1>6, <1>7

\* The first entry of meta is taken.
LEMMA WholeTaken ==
  ASSUME NEW S, NEW v, NEW g, NEW rs \in Seq(Calls(S, v, g)), rs # <<>>, NEW mt \in Seq(Infos(S, v, g)),
         mt # <<>>, NEW c \in Seq(Frames(S, v, g)),
         NEW os \in Seq(Calls(S, v, g)), os # <<>>, Turned(os, rs, c)
  PROVE  Whole(os, Tail(mt)) = Before(c) \o Below(rs, mt, c, 1, 0)
<1>1. os \in Seq(Calls(S, v, g)) /\ os # <<>> /\ Turned(os, rs, c)
  OBVIOUS
<1>2. PICK ot : ot = Tail(mt)
  OBVIOUS
<1>3. /\ ot \in Seq(Infos(S, v, g)) /\ Len(ot) = Len(mt) - 1 /\ Len(mt) \in Nat /\ Len(mt) >= 1
      /\ \A y \in 1 .. Len(mt) - 1 : ot[y] = mt[y + 1]
  BY <1>2, TailIsDrop
<1>4. Whole(os, ot) = Before(c) \o Below(os, ot, c, 0, 0)
  <2>1. os[1].chain = c
    BY <1>1 DEF Turned
  <2> QED BY <1>1, <1>3, <2>1, WholeIs
<1>5. Below(os, ot, c, 0, 0) = Below(rs, mt, c, 1, 0)
  <2>1. PICK o, n, m : o = 0 /\ n = 1 /\ m = -1
    OBVIOUS
  <2>2. \A y \in n + 1 .. Len(mt) : ot[y + m] = mt[y]
    <3> SUFFICES ASSUME NEW y \in n + 1 .. Len(mt) PROVE ot[y + m] = mt[y]
      OBVIOUS
    <3>1. PICK z : z = y - 1
      OBVIOUS
    <3>2. z \in 1 .. Len(mt) - 1 /\ z + 1 = y /\ y + m = z
      BY <1>3, <2>1, <3>1
    <3> QED BY <1>3, <3>2
  <2>3. Moved(rs, mt, os, ot, n, o, m, o)
    BY <1>1, <1>3, <2>1, <2>2 DEF Moved, Turned
  <2>4. Below(os, ot, c, n + m, o + o) = Below(rs, mt, c, n, o)
    BY ONLY <1>1, <1>3, <2>3, BelowMoves, rs \in Seq(Calls(S, v, g)), mt \in Seq(Infos(S, v, g))
  <2>5. n + m = 0 /\ o + o = 0
    BY <2>1
  <2> QED BY <2>1, <2>4, <2>5
<1> QED BY <1>2, <1>4, <1>5

\* The run r is put before those of ts, which are those of rs after c.
IsBegun(S, v, g, rs, mt, c, r, ts, os) ==
  /\ rs \in Seq(Calls(S, v, g)) /\ rs # <<>> /\ mt \in Seq(Infos(S, v, g))
  /\ c \in Seq(Frames(S, v, g)) /\ r \in Calls(S, v, g) /\ ~HasReset(r.chain, 1)
  /\ ts \in Seq(Calls(S, v, g)) /\ ts # <<>> /\ Turned(ts, rs, c) /\ OnTop(os, r, ts)

\* A run r is begun, without the end of a reset.
IsPut(w, c, l, x) == w = c \o (l \o x)

\* A run that is begun is put on what is left.
LEMMA WholeBegun ==
  ASSUME NEW S, NEW v, NEW g, NEW rs, NEW mt, NEW c, NEW r, NEW ts, NEW os,
         IsBegun(S, v, g, rs, mt, c, r, ts, os)
  PROVE  IsPut(Whole(os, mt), r.chain, ListOf(r), Before(c) \o Below(rs, mt, c, 0, 0))
<1>1. /\ rs \in Seq(Calls(S, v, g)) /\ rs # <<>> /\ mt \in Seq(Infos(S, v, g))
      /\ c \in Seq(Frames(S, v, g)) /\ r \in Calls(S, v, g) /\ ~HasReset(r.chain, 1)
      /\ ts \in Seq(Calls(S, v, g)) /\ ts # <<>> /\ Turned(ts, rs, c) /\ OnTop(os, r, ts)
  BY DEF IsBegun
<1> USE <1>1
<1>2. ts \in Seq(Calls(S, v, g)) /\ ts # <<>> /\ Turned(ts, rs, c)
  OBVIOUS
<1>3. /\ os \in Seq(Calls(S, v, g)) /\ Len(os) = Len(rs) + 1 /\ os[1] = r /\ Len(rs) \in Nat
      /\ Len(rs) >= 1 /\ \A y \in 1 .. Len(rs) : os[y + 1] = ts[y]
  <2>1. <<r>> \in Seq(Calls(S, v, g)) /\ Len(<<r>>) = 1 /\ <<r>>[1] = r
    OBVIOUS
  <2>2. /\ os \in Seq(Calls(S, v, g)) /\ Len(os) = Len(<<r>>) + Len(ts)
        /\ \A i \in 1 .. Len(<<r>>) : os[i] = <<r>>[i]
        /\ \A i \in 1 .. Len(ts) : os[Len(<<r>>) + i] = ts[i]
    BY <1>2, <2>1, Concat DEF OnTop
  <2>3. Len(ts) = Len(rs)
    BY <1>2 DEF Turned
  <2> QED BY <2>1, <2>2, <2>3
<1>4. r.chain \in Seq(Frames(S, v, g))
  BY DEF Calls
<1>5. Whole(os, mt) = r.chain \o Below(os, mt, r.chain, 0, 0)
  <2>1. Before(r.chain) = r.chain
    BY <1>4, BeforeIs
  <2>2. os # <<>> /\ os[1].chain = r.chain
    BY <1>3
  <2>3. Whole(os, mt) = Before(os[1].chain) \o Below(os, mt, os[1].chain, 0, 0)
    BY <1>3, <2>2, WholeIs
  <2> QED BY <2>1, <2>2, <2>3, Zenon
<1>6. Below(os, mt, r.chain, 0, 0) = ListOf(r) \o Rest(os, mt, 0, 1, FALSE)
  <2>1. PICK o, n, k : o = 0 /\ n = o + 1 /\ k = r.chain
    OBVIOUS
  <2>2. k \in Seq(Frames(S, v, g)) /\ ~HasReset(k, 1)
    BY <1>4, <2>1
  <2>3. Below(os, mt, k, o, o) = ListOf(os[n]) \o Rest(os, mt, o, n, FALSE)
    BY <2>1, <2>2, BelowList
  <2>4. n = 1 /\ os[1] = r
    BY <1>3, <2>1
  <2> QED BY <2>1, <2>3, <2>4, Zenon
<1>7. Rest(os, mt, 0, 1, FALSE) = Before(c) \o Below(os, mt, c, 0, 1)
  <2>0. PICK b \in BOOLEAN : b = FALSE
    OBVIOUS
  <2>1. PICK i, j : b = FALSE /\ i = 0 /\ j = 1
    BY <2>0
  <2>2. /\ i \in 0 .. Len(mt) /\ j \in 0 .. Len(os) /\ j # Len(os)
        /\ c = IF b THEN mt[i].k ELSE os[j + 1].chain
    BY <1>2, <1>3, <2>1 DEF Turned
  <2>3. Rest(os, mt, i, j, b) = IF j = Len(os) THEN <<>> ELSE Before(c) \o Below(os, mt, c, i, j)
    <3>1. os \in Seq(Calls(S, v, g)) /\ mt \in Seq(Infos(S, v, g)) /\ b \in BOOLEAN
      BY <1>3
    <3> QED BY ONLY <2>2, <3>1, RestAt
  <2> QED BY <2>1, <2>2, <2>3
<1>8. Below(os, mt, c, 0, 1) = Below(rs, mt, c, 0, 0)
  <2>1. PICK o, n : o = 0 /\ n = 1
    OBVIOUS
  <2>2. Moved(rs, mt, os, mt, o, o, o, n)
    <3>1. \A y \in o + 2 .. Len(rs) : os[y + n] = rs[y]
      BY <1>2, <1>3, <2>1 DEF Turned
    <3>2. os[o + 1 + n].g = rs[o + 1].g /\ os[o + 1 + n].sh = rs[o + 1].sh
      <4>1. os[1 + 1] = ts[1]
        BY <1>3
      <4> QED BY <1>2, <2>1, <4>1 DEF Turned
    <3>3. Len(mt) \in Nat /\ 0 \in 0 .. Len(mt) /\ 0 \in Nat
      OBVIOUS
    <3> QED BY <1>3, <2>1, <3>1, <3>2, <3>3 DEF Moved
  <2>3. Below(os, mt, c, o + o, o + n) = Below(rs, mt, c, o, o)
    BY ONLY <1>3, <2>2, BelowMoves, rs \in Seq(Calls(S, v, g)), mt \in Seq(Infos(S, v, g))
  <2>4. o + n = 1 /\ o + o = 0
    BY <2>1
  <2> QED BY <2>1, <2>3, <2>4
<1> QED BY <1>5, <1>6, <1>7, <1>8 DEF IsPut

\* What is left after the innermost run.
Outer(rs, mt, n) == Rest(rs, mt, n, 1, FALSE)

\* The innermost run is over, and n entries of meta are.
IsOver(S, v, g, rs, mt, n, ts, nt) ==
  /\ rs \in Seq(Calls(S, v, g)) /\ rs # <<>> /\ mt \in Seq(Infos(S, v, g)) /\ n \in 0 .. Len(mt)
  /\ ts = Tail(rs) /\ nt = Drop(mt, n)

\* What is left when a run is over.
LEMMA WholeOver ==
  ASSUME NEW S, NEW v, NEW g, NEW rs, NEW mt, NEW n, NEW ts, NEW nt, IsOver(S, v, g, rs, mt, n, ts, nt)
  PROVE  Whole(ts, nt) = Outer(rs, mt, n)
<1>1. /\ rs \in Seq(Calls(S, v, g)) /\ rs # <<>> /\ mt \in Seq(Infos(S, v, g)) /\ n \in 0 .. Len(mt)
      /\ ts = Tail(rs) /\ nt = Drop(mt, n)
  BY DEF IsOver
<1>2. /\ ts \in Seq(Calls(S, v, g)) /\ Len(ts) = Len(rs) - 1 /\ Len(rs) \in Nat /\ Len(rs) >= 1
      /\ \A y \in 1 .. Len(rs) - 1 : ts[y] = rs[y + 1]
  BY <1>1, TailIsDrop
<1>3. /\ nt \in Seq(Infos(S, v, g)) /\ Len(nt) = Len(mt) - n /\ Len(mt) \in Nat
      /\ \A y \in 1 .. Len(mt) - n : nt[y] = mt[n + y]
  BY <1>1, Dropped
<1>4. PICK c : c = rs[1 + 1].chain
  OBVIOUS
<1>5. Outer(rs, mt, n) = IF 1 = Len(rs) THEN <<>> ELSE Before(c) \o Below(rs, mt, c, n, 1)
  <2>0. PICK b \in BOOLEAN : b = FALSE
    OBVIOUS
  <2>1. PICK j : b = FALSE /\ j = 1
    BY <2>0
  <2>2. j \in 0 .. Len(rs) /\ c = IF b THEN mt[n].k ELSE rs[j + 1].chain
    BY <1>2, <1>4, <2>1
  <2>3. Rest(rs, mt, n, j, b) = IF j = Len(rs) THEN <<>> ELSE Before(c) \o Below(rs, mt, c, n, j)
    BY ONLY <1>1, <2>2, b \in BOOLEAN, RestAt
  <2> QED BY <2>1, <2>3 DEF Outer
<1>6. CASE Len(rs) = 1
  <2>1. ts = <<>>
    BY <1>2, <1>6
  <2> QED BY <1>1, <1>2, <1>3, <1>5, <1>6, <2>1, WholeIs
<1>7. CASE Len(rs) # 1
  <2>1. ts # <<>> /\ ts[1].chain = c
    BY <1>2, <1>4, <1>7
  <2>2. Whole(ts, nt) = Before(c) \o Below(ts, nt, c, 0, 0)
    BY <1>2, <1>3, <2>1, WholeIs
  <2>3. Below(rs, mt, c, n, 1) = Below(ts, nt, c, 0, 0)
    <3>1. PICK o, e : o = 0 /\ e = 1
      OBVIOUS
    <3>0. n \in Nat /\ n <= Len(mt)
      BY <1>1, <1>3
    <3>2. \A y \in o + 1 .. Len(nt) : mt[y + n] = nt[y]
      BY <1>3, <3>0, <3>1
    <3>3. \A y \in o + 2 .. Len(ts) : rs[y + e] = ts[y]
      BY <1>2, <3>1
    <3>4. rs[o + 1 + e] = ts[o + 1]
      BY <1>2, <1>7, <3>1
    <3>5. Moved(ts, nt, rs, mt, o, o, n, e)
      BY <1>2, <1>3, <1>7, <3>0, <3>1, <3>2, <3>3, <3>4 DEF Moved
    <3>6. Below(rs, mt, c, o + n, o + e) = Below(ts, nt, c, o, o)
      <4>1. /\ ts \in Seq(Calls(S, v, g)) /\ nt \in Seq(Infos(S, v, g))
            /\ rs \in Seq(Calls(S, v, g)) /\ mt \in Seq(Infos(S, v, g))
        BY <1>1, <1>2, <1>3
      <4> QED BY ONLY <3>5, <4>1, BelowMoves
    <3>7. o + n = n /\ o + e = 1
      BY <3>0, <3>1
    <3> QED BY <3>1, <3>6, <3>7
  <2> QED BY <1>1, <1>5, <1>7, <2>2, <2>3
<1> QED BY <1>6, <1>7

\* The stack is what is left, if there is no error.
LEMMA StackIs ==
  /\ st.flow # Failed => Stack = Whole(runs, meta)
  /\ st.flow = Failed => Stack = <<>>
  /\ st'.flow # Failed => Stack' = Whole(runs, meta)'
  /\ st'.flow = Failed => Stack' = <<>>
BY DEF Stack, Whole, Rest

\* A step of the stack: what is left is s, unless there is an error.
LEMMA StackStep ==
  ASSUME st.flow # Failed, Whole(runs, meta) # <<>>, NEW s, NEW u, CutAll(st)' = u,
         u.flow = st'.flow, TheStack!After(Whole(runs, meta), CutAll(st)) = TheStack!On(s, u),
         st'.flow # Failed => Whole(runs, meta)' = s
  PROVE  TheStack!Next
<1>1. PICK w, z : w = Stack /\ z = CutAll(st)
  OBVIOUS
<1>2. w = Whole(runs, meta)
  BY <1>1, StackIs
<1>3. PICK r : r = TheStack!After(w, z)
  OBVIOUS
<1>4. r = TheStack!On(s, u)
  BY <1>1, <1>2, <1>3
<1>5. r.st = u /\ r.stack = IF u.flow = Failed THEN <<>> ELSE s
  BY <1>4, SameFrames DEF TheStack!On
<1>6. Stack' = r.stack /\ CutAll(st)' = r.st
  BY <1>5, StackIs
<1>7. w # <<>> /\ \E q \in {TheStack!After(w, z)} : Stack' = q.stack /\ CutAll(st)' = q.st
  BY <1>2, <1>3, <1>6
<1> QED BY <1>1, <1>7 DEF TheStack!Next

\* The first frame is taken.
LEMMA FirstTaken ==
  ASSUME NEW X, NEW frame \in X, NEW b \in Seq(X), NEW u, u.flow = Onward
  PROVE  /\ <<frame>> \o b # <<>>
         /\ TheStack!After(<<frame>> \o b, u) = TheStack!StepOf(frame, b, u)
<1>1. PICK s : s = <<frame>> \o b
  OBVIOUS
<1>2. s # <<>> /\ Head(s) = frame /\ Tail(s) = b
  <2>1. s \in Seq(X) /\ Len(s) = 1 + Len(b) /\ s[1] = frame /\ \A i \in 1 .. Len(b) : s[i + 1] = b[i]
    BY <1>1
  <2>2. Tail(s) \in Seq(X) /\ Len(Tail(s)) = Len(s) - 1 /\ \A i \in 1 .. Len(s) - 1 : Tail(s)[i] = s[i + 1]
    BY <2>1, s # <<>>, TailIsDrop
  <2>3. Tail(s) = b
    BY <2>1, <2>2
  <2> QED BY <2>1, <2>3
<1>3. TheStack!After(s, u) = TheStack!StepOf(Head(s), Tail(s), u)
  BY SameFrames DEF TheStack!After
<1> QED BY <1>1, <1>2, <1>3

\* A frame of a Chain is no mark.
LEMMA NoMark ==
  ASSUME NEW S, NEW v, NEW g, NEW frame \in Frames(S, v, g)
  PROVE  ~TheStack!IsMark(frame) /\ ~TheStack!IsList(frame)
<1>1. frame.f \in {"lines", "if", "for", "call", "resetEnd"}
  BY DEF Frames, LineFrames, IfFrames, ForFrames, CallFrames, ResetEnd
<1> QED BY <1>1 DEF TheStack!IsMark, TheStack!IsList

\* Frames of a Chain are frames of the stack.
LEMMA Widened ==
  ASSUME NEW S, NEW v, NEW g, NEW c \in Seq(Frames(S, v, g))
  PROVE  c \in Seq(StackFrames(S, v, g)) /\ Before(c) \in Seq(StackFrames(S, v, g))
<1>1. Frames(S, v, g) \subseteq StackFrames(S, v, g)
  BY DEF StackFrames
<1>2. Before(c) \in Seq(Frames(S, v, g))
  BY BeforeType
<1> QED BY <1>1, <1>2, SeqMono

\* What is left, by the Chain of the innermost run.
LEMMA StackNow ==
  ASSUME NEW S, NEW exact, NEW v, NEW g, GoodAt(S, exact, runs, meta, st, v, g), runs # <<>>
  PROVE  /\ Whole(runs, meta) = Before(chain) \o Below(runs, meta, chain, 0, 0)
         /\ chain \in Seq(Frames(S, v, g)) /\ runs[1] \in Calls(S, v, g)
         /\ runs \in Seq(Calls(S, v, g)) /\ meta \in Seq(Infos(S, v, g))
         /\ v \in Nat /\ g \in Nat /\ IsState(st, S, v, g) /\ HasFields(st)
         /\ HasReset(chain, 1) => meta # <<>>
<1>1. /\ v \in Nat /\ g \in Nat /\ IsState(st, S, v, g)
      /\ runs \in Seq(Calls(S, v, g)) /\ meta \in Seq(Infos(S, v, g))
  BY DEF GoodAt
<1>2. v <= v /\ g <= g
  BY <1>1
<1>3. \E last : /\ Piece(Frames(S, v, g), exact, chain, last[1], runs[1].g, Reached(runs, 2))
                /\ last[1] \in 0 .. Len(meta)
  BY <1>1, <1>2, Begins
<1>4. chain \in Seq(Frames(S, v, g))
  BY <1>3 DEF Piece
<1>5. HasReset(chain, 1) => meta # <<>>
  <2> SUFFICES ASSUME HasReset(chain, 1) PROVE Len(meta) > 0
    BY <1>1
  <2>1. PICK last : /\ HasReset(chain, 1) <=> last[1] > 0
                    /\ last[1] \in 0 .. Len(meta)
    BY <1>3 DEF Piece
  <2>2. Len(meta) \in Nat
    BY <1>1
  <2> QED BY <2>1, <2>2
<1>6. Whole(runs, meta) = Before(chain) \o Below(runs, meta, chain, 0, 0)
  BY <1>1, WholeIs DEF chain
<1>7. HasFields(st) /\ runs[1] \in Calls(S, v, g)
  BY <1>1, StateHas
<1> QED BY <1>1, <1>4, <1>5, <1>6, <1>7

\* What is left when the first frame of the Chain is no end of a reset.
LEMMA StackFirst ==
  ASSUME NEW S, NEW exact, NEW v, NEW g, GoodAt(S, exact, runs, meta, st, v, g), runs # <<>>,
         chain # <<>>, chain[1] # ResetEnd
  PROVE  /\ Whole(runs, meta) = <<chain[1]>> \o (Before(Tail(chain)) \o Below(runs, meta, chain, 0, 0))
         /\ chain[1] \in StackFrames(S, v, g) /\ chain[1] \in Frames(S, v, g)
         /\ Tail(chain) \in Seq(Frames(S, v, g))
         /\ Before(Tail(chain)) \in Seq(StackFrames(S, v, g))
         /\ Below(runs, meta, chain, 0, 0) \in Seq(StackFrames(S, v, g))
         /\ Before(Tail(chain)) \o Below(runs, meta, chain, 0, 0) \in Seq(StackFrames(S, v, g))
         /\ HasReset(chain, 1) <=> HasReset(Tail(chain), 1)
<1>1. /\ Whole(runs, meta) = Before(chain) \o Below(runs, meta, chain, 0, 0)
      /\ chain \in Seq(Frames(S, v, g)) /\ v \in Nat /\ g \in Nat
      /\ runs \in Seq(Calls(S, v, g)) /\ meta \in Seq(Infos(S, v, g))
  BY StackNow
<1>2. PICK X, b, t : X = StackFrames(S, v, g) /\ b = Below(runs, meta, chain, 0, 0) /\ t = Before(Tail(chain))
  OBVIOUS
<1>3. Before(chain) = <<chain[1]>> \o t /\ (HasReset(chain, 1) <=> HasReset(Tail(chain), 1))
  BY <1>1, <1>2, BeforeTail
<1>4. Tail(chain) \in Seq(Frames(S, v, g)) /\ chain[1] \in Frames(S, v, g)
  BY <1>1, TailIsDrop
<1>5. chain[1] \in X /\ t \in Seq(X)
  BY <1>2, <1>4, Widened DEF StackFrames
<1>6. b \in Seq(X)
  <2>1. PICK o : o = 0
    OBVIOUS
  <2>2. o \in 0 .. Len(meta) /\ o \in Nat /\ o < Len(runs)
    BY <1>1, <2>1
  <2>3. Below(runs, meta, chain, o, o) \in Seq(StackFrames(S, v, g))
    BY <1>1, <2>2, BelowType
  <2> QED BY <1>2, <2>1, <2>3
<1>7. t \o b \in Seq(X)
  BY ONLY <1>5, <1>6, Concat
<1>8. (<<chain[1]>> \o t) \o b = <<chain[1]>> \o (t \o b)
  <2>1. PICK a : a = <<chain[1]>>
    OBVIOUS
  <2>2. a \in Seq(X)
    BY <1>5, <2>1
  <2>3. (a \o t) \o b = a \o (t \o b)
    BY ONLY <1>5, <1>6, <2>2
  <2> QED BY <2>1, <2>3
<1> QED BY <1>1, <1>2, <1>3, <1>4, <1>5, <1>6, <1>7, <1>8

----------------------------------------------------------------------------
(***************************************************************************)
(* Every action is a step of the stack, or nothing is seen of it.          *)
(***************************************************************************)
\* A frame is taken off the Chain: StepOf.
LEMMA StepFrameStack ==
  ASSUME NEW S, NEW exact, Allowed(S, exact), NEW v, NEW g, GoodAt(S, exact, runs, meta, st, v, g),
         StepFrame
  PROVE  TheStack!Next
<1>1. runs # <<>> /\ st.flow = Onward /\ chain # <<>> /\ IsLocal(chain[1]) /\ st.flow # Failed
  BY OnwardIs DEF StepFrame, Going
<1>2. /\ v \in Nat /\ g \in Nat /\ IsState(st, S, v, g) /\ HasFields(st)
      /\ runs \in Seq(Calls(S, v, g)) /\ meta \in Seq(Infos(S, v, g)) /\ chain \in Seq(Frames(S, v, g))
  BY <1>1, StackNow
<1>3. PICK frame : frame = chain[1]
  OBVIOUS
<1>4. frame \in Frames(S, v, g) /\ IsLocal(frame) /\ chain[1] # ResetEnd
  <2>1. frame \in Frames(S, v, g) /\ IsLocal(frame)
    BY <1>1, <1>2, <1>3
  <2> QED BY <1>3, <2>1, Kinds DEF IsLocal
<1>5. PICK b, t : b = Below(runs, meta, chain, 0, 0) /\ t = Tail(chain)
  OBVIOUS
<1>6. /\ Whole(runs, meta) = <<frame>> \o (Before(t) \o b)
      /\ frame \in StackFrames(S, v, g) /\ t \in Seq(Frames(S, v, g))
      /\ Before(t) \o b \in Seq(StackFrames(S, v, g))
      /\ Before(t) \in Seq(StackFrames(S, v, g)) /\ b \in Seq(StackFrames(S, v, g))
      /\ HasReset(chain, 1) <=> HasReset(t, 1)
  BY <1>1, <1>3, <1>4, <1>5, StackFirst
<1>7. PICK stop, other : /\ stop = IF "sh" \in DOMAIN frame THEN frame.sh.abort ELSE 0
                         /\ other = IF "sh" \in DOMAIN frame THEN frame.sh.out ELSE 0
  OBVIOUS
<1>8. stop \in 0 .. g
  <2>1. 0 \in 0 .. g
    BY <1>2
  <2>2. HasCtx(frame) => frame.sh.abort \in 0 .. g
    BY <1>4, Kinds DEF Contexts
  <2> QED BY <1>7, <2>1, <2>2 DEF HasCtx
<1>9. stop = other \/ AllRest(st)
  <2>1. exact \/ AllRest(st)
    BY DEF GoodAt
  <2>2. CASE exact
    <3>1. v <= v /\ g <= g
      BY <1>2
    <3>2. \E last : Piece(Frames(S, v, g), exact, chain, last[1], runs[1].g, Reached(runs, 2))
      BY <1>1, <1>2, <3>1, Begins
    <3>3. Tuned(exact, chain)
      BY <3>2 DEF Piece
    <3>4. 1 \in DOMAIN chain
      BY <1>1, <1>2
    <3>5. HasCtx(frame) => frame.sh.out = frame.sh.abort
      BY <1>3, <2>2, <3>3, <3>4 DEF Tuned
    <3> QED BY <1>7, <3>5 DEF HasCtx
  <2> QED BY <2>1, <2>2
<1>10. PICK a, u : StepLocal(frame, st, stop) = Pushing(a, u) /\ StepOf(S, v, g, frame, st, a, u)
  BY <1>2, <1>4, <1>8, LocalStep DEF Allowed
<1>11. PICK w \in Nat : v <= w /\ IsState(u, S, w, g) /\ a \in Seq(Frames(S, w, g)) /\ StepsTo(frame, a)
  BY <1>10 DEF StepOf
<1>12. StepLocal(frame, CutAll(st), other) = Pushing(a, CutAll(u))
  <2>1. StepLocal(frame, CutAll(st), other) = CutPush(StepLocal(frame, st, stop))
    BY <1>2, <1>4, <1>8, <1>9, CutLocal DEF Allowed
  <2> QED BY <1>10, <2>1, CutPushes
<1>13. PICK c : c = a \o t
  OBVIOUS
<1>14. runs' = [runs EXCEPT ![1].chain = c] /\ st' = u /\ meta' = meta
  <2>1. PICK r : r = StepLocal(chain[1], st, IF "sh" \in DOMAIN chain[1] THEN Here.abort ELSE 0)
    OBVIOUS
  <2>2. r = Pushing(a, u)
    BY <1>3, <1>7, <1>10, <2>1 DEF Here
  <2>3. r.frames = a /\ r.st = u
    BY <2>2 DEF Pushing
  <2>4. GoOn(r.frames \o Tail(chain)) /\ st' = r.st /\ meta' = meta
    BY <2>1 DEF StepFrame
  <2> QED BY <1>5, <1>13, <2>3, <2>4 DEF GoOn
<1>15. PICK z : z = CutAll(st)
  OBVIOUS
<1>16. z.flow = Onward /\ CutAll(u).flow = u.flow /\ HasFields(u)
  <2>1. z.flow = st.flow
    BY <1>2, <1>15, CutAllIs
  <2>2. HasFields(u)
    BY <1>11, <1>2, StateHas
  <2> QED BY <1>1, <2>1, <2>2, CutAllIs
<1>17. TheStack!After(Whole(runs, meta), z) = TheStack!On(a \o (Before(t) \o b), CutAll(u))
  <2>1. TheStack!After(<<frame>> \o (Before(t) \o b), z) = TheStack!StepOf(frame, Before(t) \o b, z)
    BY <1>6, <1>16, FirstTaken
  <2>2. ~TheStack!IsMark(frame) /\ TheStack!IsLocal(frame)
    BY <1>4, NoMark, SameSteps
  <2>3. TheStack!StepLocal(frame, z, other) = Pushing(a, CutAll(u))
    BY <1>12, <1>15, SameSteps
  <2>4. PICK r : r = Pushing(a, CutAll(u))
    OBVIOUS
  <2>5. r.frames = a /\ r.st = CutAll(u)
    BY <2>4 DEF Pushing
  <2>6. TheStack!StepOf(frame, Before(t) \o b, z) = TheStack!On(r.frames \o (Before(t) \o b), r.st)
    BY <1>7, <2>2, <2>3, <2>4, Zenon DEF TheStack!StepOf
  <2> QED BY <1>6, <2>1, <2>5, <2>6
<1>18. /\ runs \in Seq(Calls(S, w, g)) /\ meta \in Seq(Infos(S, w, g)) /\ t \in Seq(Frames(S, w, g))
       /\ chain \in Seq(Frames(S, w, g))
  <2>1. g <= g /\ v <= w
    BY <1>2, <1>11
  <2>2. /\ Seq(Frames(S, v, g)) \subseteq Seq(Frames(S, w, g))
        /\ Seq(Calls(S, v, g)) \subseteq Seq(Calls(S, w, g))
        /\ Seq(Infos(S, v, g)) \subseteq Seq(Infos(S, w, g))
    BY <1>2, <2>1, FramesMono, TypesMono
  <2> QED BY <1>2, <1>6, <2>2
<1>19. c \in Seq(Frames(S, w, g)) /\ Before(c) = a \o Before(t) /\ (HasReset(c, 1) <=> HasReset(chain, 1))
  <2>1. \A i \in DOMAIN a : a[i] # ResetEnd
    BY <1>11 DEF StepsTo
  <2>2. Before(c) = a \o Before(t) /\ (HasReset(c, 1) <=> HasReset(t, 1))
    BY <1>11, <1>13, <1>18, <2>1, BeforeJoin
  <2>3. c \in Seq(Frames(S, w, g))
    BY <1>11, <1>13, <1>18
  <2> QED BY <1>6, <2>2, <2>3
<1>20. Whole(runs, meta)' = a \o (Before(t) \o b)
  <2>1. PICK os : os = TurnTo(runs, c)
    OBVIOUS
  <2>0. /\ runs \in Seq(Calls(S, w, g)) /\ runs # <<>> /\ meta \in Seq(Infos(S, w, g))
        /\ c \in Seq(Frames(S, w, g))
    BY <1>1, <1>18, <1>19
  <2>2. os \in Seq(Calls(S, w, g)) /\ os # <<>> /\ Turned(os, runs, c)
    BY ONLY <2>0, <2>1, TurnedIs
  <2>3. Whole(os, meta) = Before(c) \o Below(runs, meta, c, 0, 0)
    BY ONLY <2>0, <2>2, WholeTurned
  <2>4. Below(runs, meta, c, 0, 0) = b
    BY <1>5, <1>18, <1>19, BelowSame
  <2>5. (a \o Before(t)) \o b = a \o (Before(t) \o b)
    <3>1. PICK X, e : X = StackFrames(S, w, g) \cup StackFrames(S, v, g) /\ e = Before(t)
      OBVIOUS
    <3>2. a \in Seq(StackFrames(S, w, g))
      BY <1>11, Widened
    <3>3. a \in Seq(X) /\ e \in Seq(X) /\ b \in Seq(X)
      BY <1>6, <3>1, <3>2, SeqMono
    <3>4. (a \o e) \o b = a \o (e \o b)
      BY ONLY <3>3
    <3> QED BY <3>1, <3>4
  <2>6. Whole(runs, meta)' = Whole(os, meta)
    BY <1>14, <2>1 DEF Whole, Rest, TurnTo
  <2> QED BY <1>19, <2>3, <2>4, <2>5, <2>6
<1>21. CutAll(st)' = CutAll(u)
  BY <1>14
<1> QED BY <1>1, <1>6, <1>14, <1>15, <1>16, <1>17, <1>20, <1>21, StackStep, FirstTaken

\* What is left at a statement that looks at the rest of the computation.
LEMMA ControlStack ==
  ASSUME NEW S, NEW exact, Allowed(S, exact), NEW v, NEW g, GoodAt(S, exact, runs, meta, st, v, g),
         NEW t \in {"reset", "shift", "resume", "to"}, ControlAt(t), NEW b, b = Below(runs, meta, chain, 0, 0)
  PROVE  /\ Whole(runs, meta) # <<>>
         /\ TheStack!After(Whole(runs, meta), CutAll(st)) = TheStack!Exec(Stmt, Here, Before(After) \o b, CutAll(st))
         /\ runs # <<>> /\ st.flow = Onward /\ st.flow # Failed /\ chain # <<>>
         /\ v \in Nat /\ g \in Nat /\ IsState(st, S, v, g) /\ HasFields(st)
         /\ runs \in Seq(Calls(S, v, g)) /\ meta \in Seq(Infos(S, v, g)) /\ chain \in Seq(Frames(S, v, g))
         /\ Stmt \in S /\ Stmt.t = t /\ Here \in Contexts(v, g)
         /\ After \in Seq(Frames(S, v, g)) /\ Before(After) \in Seq(StackFrames(S, v, g))
         /\ b \in Seq(StackFrames(S, v, g)) /\ b = Below(runs, meta, After, 0, 0)
         /\ HasReset(After, 1) <=> HasReset(chain, 1)
         /\ HasReset(chain, 1) => meta # <<>>
<1>1. runs # <<>> /\ st.flow = Onward /\ chain # <<>> /\ st.flow # Failed
  BY OnwardIs DEF ControlAt, Going
<1>2. /\ v \in Nat /\ g \in Nat /\ IsState(st, S, v, g) /\ HasFields(st)
      /\ runs \in Seq(Calls(S, v, g)) /\ meta \in Seq(Infos(S, v, g)) /\ chain \in Seq(Frames(S, v, g))
      /\ HasReset(chain, 1) => meta # <<>>
  BY <1>1, StackNow
<1>3. \E last : Piece(Frames(S, v, g), exact, chain, last[1], runs[1].g, Reached(runs, 2))
  <2>1. v <= v /\ g <= g
    BY <1>2
  <2> QED BY <1>1, <1>2, <2>1, Begins
<1>4. /\ Stmt \in S /\ Stmt.t = t /\ Here \in Contexts(v, g) /\ After \in Seq(Frames(S, v, g))
      /\ chain[1] \in LineFrames(S, v, g) /\ chain[1] # ResetEnd
  BY <1>2, <1>3, Controls DEF Allowed
<1>5. PICK frame, k : frame = chain[1] /\ k = Tail(chain)
  OBVIOUS
<1>6. /\ Whole(runs, meta) = <<frame>> \o (Before(k) \o b)
      /\ frame \in StackFrames(S, v, g) /\ frame \in Frames(S, v, g) /\ k \in Seq(Frames(S, v, g))
      /\ Before(k) \in Seq(StackFrames(S, v, g)) /\ b \in Seq(StackFrames(S, v, g))
      /\ Before(k) \o b \in Seq(StackFrames(S, v, g))
      /\ HasReset(chain, 1) <=> HasReset(k, 1)
  BY <1>1, <1>4, <1>5, StackFirst
<1>7. PICK d : d = Advance(frame)
  OBVIOUS
<1>8. d \in Frames(S, v, g) /\ d # ResetEnd
  <2>1. frame \in LineFrames(S, v, g)
    BY <1>4, <1>5
  <2>2. d \in LineFrames(S, v, g)
    BY <1>7, <2>1 DEF Advance, LineFrames
  <2> QED BY <2>2 DEF Frames, LineFrames, ResetEnd
<1>9. After = <<d>> \o k
  BY <1>5, <1>7 DEF After
<1>10. PICK a : a = <<d>>
  OBVIOUS
<1>11. a \in Seq(Frames(S, v, g)) /\ (\A i \in DOMAIN a : a[i] # ResetEnd) /\ a \in Seq(StackFrames(S, v, g))
  <2>1. a \in Seq(Frames(S, v, g)) /\ (\A i \in DOMAIN a : a[i] # ResetEnd)
    BY <1>8, <1>10
  <2> QED BY <2>1, Widened
<1>12. Before(After) = a \o Before(k) /\ (HasReset(After, 1) <=> HasReset(k, 1))
  <2>1. PICK F : F = Frames(S, v, g)
    OBVIOUS
  <2>2. a \in Seq(F) /\ k \in Seq(F) /\ \A i \in DOMAIN a : a[i] # ResetEnd
    BY <1>6, <1>11, <2>1
  <2>3. Before(a \o k) = a \o Before(k) /\ (HasReset(a \o k, 1) <=> HasReset(k, 1))
    BY ONLY <2>2, BeforeJoin
  <2> QED BY <1>9, <1>10, <2>3, Zenon
<1>13. Before(After) \in Seq(StackFrames(S, v, g))
  BY <1>4, Widened
<1>14. a \o (Before(k) \o b) = Before(After) \o b
  <2>1. PICK X, e : X = StackFrames(S, v, g) /\ e = Before(k)
    OBVIOUS
  <2>2. a \in Seq(X) /\ e \in Seq(X) /\ b \in Seq(X)
    BY <1>6, <1>11, <2>1
  <2>3. a \o (e \o b) = (a \o e) \o b
    BY ONLY <2>2
  <2> QED BY <1>12, <2>1, <2>3
<1>15. HasReset(After, 1) <=> HasReset(chain, 1)
  BY <1>6, <1>12
<1>16. b = Below(runs, meta, After, 0, 0)
  BY <1>2, <1>4, <1>15, BelowSame
<1>17. PICK z : z = CutAll(st)
  OBVIOUS
<1>18. z.flow = Onward
  BY <1>1, <1>2, <1>17, CutAllIs
<1>19. /\ Whole(runs, meta) # <<>>
       /\ TheStack!After(Whole(runs, meta), z) = TheStack!StepOf(frame, Before(k) \o b, z)
  BY <1>6, <1>18, FirstTaken
<1>20. TheStack!StepOf(frame, Before(k) \o b, z) = TheStack!Exec(Stmt, Here, Before(After) \o b, z)
  <2>1. ~TheStack!IsMark(frame)
    BY <1>6, NoMark
  <2>2. ~TheStack!IsLocal(frame)
    <3>1. ~IsLocal(frame)
      <4>1. frame.f = "lines" /\ ~AtEnd(frame) /\ Statement(frame).t = t
        BY <1>5 DEF ControlAt
      <4> QED BY <4>1 DEF IsLocal, IsPlain
    <3> QED BY <3>1, SameSteps
  <2>3. TheStack!Statement(frame) = Stmt /\ frame.sh = Here /\ TheStack!Advance(frame) = d
    BY <1>5, <1>7, SameParts DEF Stmt, Here
  <2>4. TheStack!StepOf(frame, Before(k) \o b, z) = TheStack!Exec(Stmt, Here, <<d>> \o (Before(k) \o b), z)
    BY <2>1, <2>2, <2>3, Zenon DEF TheStack!StepOf
  <2> QED BY <1>10, <1>14, <2>4
<1> QED BY <1>1, <1>2, <1>4, <1>6, <1>13, <1>15, <1>16, <1>17, <1>19, <1>20

\* What is left after a step.
LEMMA WholeNext ==
  ASSUME NEW os, NEW ot, runs' = os, meta' = ot
  PROVE  Whole(runs, meta)' = Whole(os, ot)
BY DEF Whole, Rest

LEMMA PairIs ==
  ASSUME NEW a, NEW b
  PROVE  <<a>> \o <<b>> = <<a, b>>
<1>1. PICK F : F = {a, b}
  OBVIOUS
<1>2. <<a>> \in Seq(F) /\ <<b>> \in Seq(F) /\ Len(<<a>>) = 1 /\ Len(<<b>>) = 1
  BY <1>1
<1>3. PICK c : c = <<a>> \o <<b>>
  OBVIOUS
<1>4. c \in Seq(F) /\ Len(c) = 2 /\ c[1] = a /\ c[2] = b
  BY <1>2, <1>3
<1>5. PICK d : d = <<a, b>>
  OBVIOUS
<1>6. d \in Seq(F) /\ Len(d) = 2 /\ d[1] = a /\ d[2] = b
  BY <1>1, <1>5
<1>7. c = d
  <2>1. \A i \in 1 .. 2 : c[i] = d[i]
    BY <1>4, <1>6
  <2> QED BY ONLY <1>4, <1>6, <2>1
<1> QED BY <1>3, <1>5, <1>7

\* A reset puts its mark on the stack: ResetTo.
LEMMA ExecResetStack ==
  ASSUME NEW S, NEW exact, Allowed(S, exact), NEW v, NEW g, GoodAt(S, exact, runs, meta, st, v, g),
         ExecReset
  PROVE  TheStack!Next
<1>1. ControlAt("reset")
  BY DEF ExecReset
<1>2. PICK b, t, k : b = Below(runs, meta, chain, 0, 0) /\ t = "reset" /\ k = After
  OBVIOUS
<1>3. /\ Whole(runs, meta) # <<>>
      /\ TheStack!After(Whole(runs, meta), CutAll(st)) = TheStack!Exec(Stmt, Here, Before(k) \o b, CutAll(st))
      /\ runs # <<>> /\ st.flow = Onward /\ st.flow # Failed
      /\ v \in Nat /\ g \in Nat /\ HasFields(st)
      /\ runs \in Seq(Calls(S, v, g)) /\ meta \in Seq(Infos(S, v, g))
      /\ Stmt \in S /\ Stmt.t = "reset" /\ Here \in Contexts(v, g)
      /\ k \in Seq(Frames(S, v, g)) /\ Before(k) \in Seq(StackFrames(S, v, g))
      /\ b \in Seq(StackFrames(S, v, g)) /\ b = Below(runs, meta, k, 0, 0)
  <2>1. t \in {"reset", "shift", "resume", "to"} /\ ControlAt(t)
    BY <1>1, <1>2
  <2> QED BY <1>2, <2>1, ControlStack
<1>4. PICK sh : sh = [Here EXCEPT !.redirected = FALSE, !.loops = <<>>, !.noReturn = TRUE]
  OBVIOUS
<1>5. sh = [Here EXCEPT !.loops = <<>>, !.noReturn = TRUE, !.redirected = FALSE] /\ sh \in Contexts(v, g)
  <2>1. <<>> \in Seq(Nat)
    OBVIOUS
  <2> QED BY <1>3, <1>4, <2>1 DEF Contexts
<1>6. Stmt.body \in Seq(S)
  BY <1>3 DEF Allowed, Statements, Inner
<1>7. PICK z, m : z = Lines(sh, Stmt.body) /\ m = [f |-> "reset", sh |-> Here]
  OBVIOUS
<1>8. z \in Frames(S, v, g) /\ z.f = "lines" /\ z # ResetEnd
  <2>1. PICK script : script = Stmt.body
    OBVIOUS
  <2>2. sh \in Contexts(v, g) /\ script \in Seq(S)
    BY <1>5, <1>6, <2>1
  <2>3. Lines(sh, script) \in Frames(S, v, g) /\ Lines(sh, script).f = "lines"
    BY ONLY <2>2, MadeLines
  <2> QED BY <1>7, <2>1, <2>3 DEF ResetEnd
<1>9. PICK a, e : a = <<z>> /\ e = <<ResetEnd>> \o k
  OBVIOUS
<1>10. a \in Seq(Frames(S, v, g)) /\ \A i \in DOMAIN a : a[i] # ResetEnd
  BY <1>8, <1>9
<1>11. e \in Seq(Frames(S, v, g)) /\ Before(e) = <<>> /\ HasReset(e, 1)
  <2>1. ResetEnd \in Frames(S, v, g)
    BY DEF Frames
  <2>2. e \in Seq(Frames(S, v, g)) /\ e # <<>> /\ e[1] = ResetEnd /\ 1 \in DOMAIN e
    BY <1>3, <1>9, <2>1
  <2> QED BY <2>2, 1 >= 1, BeforeReset DEF HasReset
<1>12. PICK c : c = a \o e
  OBVIOUS
<1>13. c \in Seq(Frames(S, v, g)) /\ Before(c) = a /\ HasReset(c, 1)
  <2>1. Before(c) = a \o Before(e) /\ HasReset(c, 1)
    BY <1>10, <1>11, <1>12, BeforeJoin
  <2>2. a \o <<>> = a
    BY <1>10
  <2> QED BY <1>10, <1>11, <1>12, <2>1, <2>2
<1>14. PICK x : x = ResetInfo(k, Here)
  OBVIOUS
<1>15. x \in Infos(S, v, g) /\ x.k = k /\ x.sh = Here
  BY <1>3, <1>14 DEF Infos, ResetInfo
<1>16. PICK os, ot : os = TurnTo(runs, c) /\ ot = <<x>> \o meta
  OBVIOUS
<1>17. runs' = os /\ meta' = ot /\ st' = st
  <2>1. <<z, ResetEnd>> \o k = c
    BY <1>3, <1>9, <1>12
  <2>2. runs' = [runs EXCEPT ![1].chain = <<z, ResetEnd>> \o k] /\ meta' = ot /\ st' = st
    BY <1>2, <1>4, <1>7, <1>14, <1>16 DEF ExecReset, GoOn
  <2> QED BY <1>16, <2>1, <2>2 DEF TurnTo
<1>18. Whole(os, ot) = a \o (<<m>> \o (Before(k) \o b))
  <2>1. os \in Seq(Calls(S, v, g)) /\ os # <<>> /\ Turned(os, runs, c)
    BY <1>3, <1>13, <1>16, TurnedIs
  <2>3. /\ runs \in Seq(Calls(S, v, g)) /\ runs # <<>> /\ meta \in Seq(Infos(S, v, g))
        /\ c \in Seq(Frames(S, v, g)) /\ HasReset(c, 1) /\ x \in Infos(S, v, g) /\ OnTop(ot, x, meta)
    BY <1>3, <1>13, <1>15, <1>16 DEF OnTop
  <2>2. Whole(os, ot) = Before(c) \o (<<[f |-> "reset", sh |-> x.sh]>> \o (Before(x.k) \o Below(runs, meta, x.k, 0, 0)))
    BY ONLY <2>1, <2>3, WholeAdded
  <2> QED BY <1>3, <1>7, <1>13, <1>15, <2>2
<1>19. Whole(runs, meta)' = a \o (<<m>> \o (Before(k) \o b))
  BY <1>17, <1>18, WholeNext
<1>20. PICK y : y = Before(k) \o b
  OBVIOUS
<1>21. y \in Seq(StackFrames(S, v, g))
  BY ONLY <1>3, <1>20, Concat
<1>22. a \o (<<m>> \o y) = <<z, m>> \o y
  <2>1. PICK X, mm : X = StackFrames(S, v, g) /\ mm = <<m>>
    OBVIOUS
  <2>2. a \in Seq(X)
    BY <1>10, <2>1, Widened
  <2>3. m \in X
    BY <1>3, <1>7, <2>1 DEF StackFrames, ResetMarks
  <2>4. mm \in Seq(X) /\ y \in Seq(X)
    BY <1>21, <2>1, <2>3
  <2>5. a \o mm = <<z, m>>
    BY <1>9, <2>1, PairIs
  <2>6. (a \o mm) \o y = a \o (mm \o y)
    BY ONLY <2>2, <2>4
  <2> QED BY <2>1, <2>5, <2>6
<1>23. TheStack!Exec(Stmt, Here, y, CutAll(st)) = TheStack!On(<<z, m>> \o y, CutAll(st))
  <2>1. TheStack!Exec(Stmt, Here, y, CutAll(st)) = TheStack!ResetTo(Here, Stmt.body, y, CutAll(st))
    BY <1>3 DEF TheStack!Exec
  <2>2. TheStack!Lines(sh, Stmt.body) = z /\ TheStack!ResetMark(Here) = m
    BY <1>7, SameFrames DEF TheStack!ResetMark
  <2> QED BY <1>5, <2>1, <2>2 DEF TheStack!ResetTo
<1>24. PICK u, s : u = CutAll(st) /\ s = <<z, m>> \o y
  OBVIOUS
<1>25. CutAll(st)' = u /\ u.flow = st'.flow
  BY <1>3, <1>17, <1>24, CutAllIs
<1>26. /\ TheStack!After(Whole(runs, meta), CutAll(st)) = TheStack!On(s, u)
       /\ Whole(runs, meta)' = s
  BY <1>3, <1>19, <1>20, <1>22, <1>23, <1>24
<1> QED BY <1>3, <1>25, <1>26, StackStep

\* The end of a reset takes it off: LeaveMark.
LEMMA StepResetEndStack ==
  ASSUME NEW S, NEW exact, Allowed(S, exact), NEW v, NEW g, GoodAt(S, exact, runs, meta, st, v, g),
         StepResetEnd
  PROVE  TheStack!Next
<1>1. /\ runs # <<>> /\ st.flow = Onward /\ chain # <<>> /\ chain[1] = ResetEnd /\ st.flow # Failed
      /\ st' = st
  BY OnwardIs DEF StepResetEnd, Going
<1>2. /\ Whole(runs, meta) = Before(chain) \o Below(runs, meta, chain, 0, 0)
      /\ v \in Nat /\ g \in Nat /\ HasFields(st)
      /\ runs \in Seq(Calls(S, v, g)) /\ meta \in Seq(Infos(S, v, g)) /\ chain \in Seq(Frames(S, v, g))
      /\ HasReset(chain, 1) => meta # <<>>
  BY <1>1, StackNow
<1>3. HasReset(chain, 1) /\ Before(chain) = <<>> /\ meta # <<>>
  <2>1. HasReset(chain, 1)
    BY <1>1, <1>2, 1 >= 1 DEF HasReset
  <2> QED BY <1>1, <1>2, <2>1, BeforeReset
<1>4. 1 \in DOMAIN meta /\ 0 < Len(meta) /\ Len(meta) \in Nat /\ Len(runs) \in Nat /\ 0 # Len(runs)
  BY <1>1, <1>2, <1>3
<1>5. PICK c, m, r : c = meta[1].k /\ m = [f |-> "reset", sh |-> meta[1].sh] /\ r = Rest(runs, meta, 1, 0, TRUE)
  OBVIOUS
<1>6. c \in Seq(Frames(S, v, g)) /\ m \in StackFrames(S, v, g)
  <2>1. meta[1] \in Infos(S, v, g)
    BY <1>2, <1>4
  <2> QED BY <1>5, <2>1 DEF Infos, StackFrames, ResetMarks
<1>7. r = Before(c) \o Below(runs, meta, c, 1, 0) /\ r \in Seq(StackFrames(S, v, g))
  <2>0. PICK q \in BOOLEAN : q = TRUE
    OBVIOUS
  <2>1. PICK i, j : q = TRUE /\ i = 1 /\ j = 0
    BY <2>0
  <2>2. /\ i \in 0 .. Len(meta) /\ j \in 0 .. Len(runs) /\ j # Len(runs) /\ i > 0
        /\ c = IF q THEN meta[i].k ELSE runs[j + 1].chain
    BY <1>4, <1>5, <2>1
  <2>3. Rest(runs, meta, i, j, q) = LeftOf(runs, meta, c, i, j)
    BY ONLY <1>2, <2>2, q \in BOOLEAN, LeftIs
  <2>4. Rest(runs, meta, i, j, q) \in Seq(StackFrames(S, v, g))
    BY ONLY <1>2, <2>2, q \in BOOLEAN, RestType
  <2> QED BY <1>5, <2>1, <2>2, <2>3, <2>4 DEF LeftOf
<1>8. Whole(runs, meta) = <<m>> \o r
  <2>1. PICK o : o = 0
    OBVIOUS
  <2>2. o < Len(meta) /\ o + 1 = 1
    BY <1>4, <2>1
  <2>3. Below(runs, meta, chain, o, o) = ResetPile(runs, meta, o, o)
    <3>1. PICK k, F : k = chain /\ F = Frames(S, v, g)
      OBVIOUS
    <3>2. k \in Seq(F) /\ HasReset(k, 1)
      BY <1>2, <1>3, <3>1
    <3>3. Below(runs, meta, k, o, o) = ResetPile(runs, meta, o, o)
      BY ONLY <2>2, <3>2, BelowReset
    <3> QED BY <3>1, <3>3
  <2>4. Below(runs, meta, chain, 0, 0) = <<m>> \o r
    BY <1>5, <2>1, <2>2, <2>3, Zenon DEF ResetPile
  <2>5. <<m>> \o r \in Seq(StackFrames(S, v, g)) /\ <<>> \o (<<m>> \o r) = <<m>> \o r
    BY <1>6, <1>7, EmptyJoin
  <2> QED BY <1>2, <1>3, <2>4, <2>5
<1>9. PICK os, ot : os = TurnTo(runs, c) /\ ot = Tail(meta)
  OBVIOUS
<1>10. runs' = os /\ meta' = ot
  BY <1>5, <1>9 DEF StepResetEnd, GoOn, TurnTo
<1>11. Whole(os, ot) = r
  <2>1. os \in Seq(Calls(S, v, g)) /\ os # <<>> /\ Turned(os, runs, c)
    BY <1>1, <1>2, <1>6, <1>9, TurnedIs
  <2>2. Whole(os, Tail(meta)) = Before(c) \o Below(runs, meta, c, 1, 0)
    BY <1>1, <1>2, <1>3, <1>6, <2>1, WholeTaken
  <2> QED BY <1>7, <1>9, <2>2
<1>12. PICK u : u = CutAll(st)
  OBVIOUS
<1>13. CutAll(st)' = u /\ u.flow = st'.flow /\ u.flow = Onward
  BY <1>1, <1>2, <1>12, CutAllIs
<1>14. /\ <<m>> \o r # <<>>
       /\ TheStack!After(<<m>> \o r, u) = TheStack!StepOf(m, r, u)
  BY <1>6, <1>7, <1>13, FirstTaken
<1>15. TheStack!StepOf(m, r, u) = TheStack!On(r, u)
  <2>1. TheStack!IsMark(m) /\ ~TheStack!IsList(m)
    BY <1>5 DEF TheStack!IsMark, TheStack!IsList
  <2>2. TheStack!StepOf(m, r, u) = TheStack!LeaveMark(m, r, u)
    BY <2>1, Zenon DEF TheStack!StepOf
  <2> QED BY <2>1, <2>2, Zenon DEF TheStack!LeaveMark
<1>16. TheStack!After(Whole(runs, meta), CutAll(st)) = TheStack!On(r, u) /\ Whole(runs, meta) # <<>>
  BY <1>8, <1>12, <1>14, <1>15
<1>17. Whole(runs, meta)' = r
  BY <1>10, <1>11, WholeNext
<1> QED BY <1>1, <1>13, <1>16, <1>17, StackStep

\* The parts of a sequence around one of its elements.
LEMMA Around ==
  ASSUME NEW X, NEW a \in Seq(X), NEW z \in X, NEW r \in Seq(X), NEW s, s = a \o (<<z>> \o r),
         NEW n, n = Len(a) + 1
  PROVE  /\ s \in Seq(X) /\ n \in DOMAIN s /\ s[n] = z /\ n # 0
         /\ SubSeq(s, 1, n - 1) = a /\ SubSeq(s, n + 1, Len(s)) = r
         /\ \A i \in 1 .. n - 1 : i \in DOMAIN a /\ s[i] = a[i]
<1>1. PICK l, o, q : l = Len(a) /\ o = Len(r) /\ q = <<z>> \o r
  OBVIOUS
<1>2. l \in Nat /\ o \in Nat /\ DOMAIN a = 1 .. l /\ DOMAIN r = 1 .. o /\ n = l + 1
  BY <1>1
<1>3. q \in Seq(X) /\ Len(q) = o + 1 /\ q[1] = z /\ \A i \in 1 .. o : q[i + 1] = r[i]
  <2>1. PICK e : e = <<z>>
    OBVIOUS
  <2>2. e \in Seq(X) /\ Len(e) = 1 /\ e[1] = z
    BY <2>1
  <2>3. /\ q \in Seq(X) /\ Len(q) = Len(e) + Len(r)
        /\ \A i \in 1 .. Len(e) : q[i] = e[i]
        /\ \A i \in 1 .. Len(r) : q[Len(e) + i] = r[i]
    BY <1>1, <2>1, <2>2, Concat
  <2>4. Len(q) = o + 1 /\ q[1] = z
    BY <1>1, <1>2, <2>2, <2>3
  <2>5. ASSUME NEW i \in 1 .. o PROVE q[i + 1] = r[i]
    <3>1. i \in 1 .. Len(r) /\ Len(e) + i = i + 1
      BY <1>1, <1>2, <2>2, <2>5
    <3> QED BY <2>3, <3>1
  <2> QED BY <2>3, <2>4, <2>5
<1>4. /\ s \in Seq(X) /\ Len(s) = l + (o + 1)
      /\ \A i \in 1 .. l : s[i] = a[i]
      /\ \A i \in 1 .. o + 1 : s[l + i] = q[i]
  BY <1>1, <1>3, Concat
<1>5. s[n] = z /\ n \in DOMAIN s
  <2>1. 1 \in 1 .. o + 1
    BY <1>2
  <2> QED BY <1>2, <1>3, <1>4, <2>1
<1>6. PICK e, f : e = SubSeq(s, 1, n - 1) /\ f = SubSeq(s, n + 1, Len(s))
  OBVIOUS
<1>7. e = a
  <2>1. e \in Seq(X) /\ Len(e) = l /\ \A i \in 1 .. l : e[i] = s[i]
    BY <1>2, <1>4, <1>6
  <2>2. a \in Seq(X) /\ Len(e) = Len(a) /\ \A i \in 1 .. Len(e) : e[i] = a[i]
    BY <1>1, <1>4, <2>1
  <2> QED BY <2>1, <2>2, SeqEqual
<1>8. f = r
  <2>1. f \in Seq(X) /\ Len(f) = o /\ \A i \in 1 .. o : f[i] = s[n + i]
    <3>1. s \in Seq(X) /\ n \in 0 .. Len(s)
      BY <1>2, <1>4
    <3>2. f = Drop(s, n)
      BY <1>6 DEF Drop
    <3>3. /\ Drop(s, n) \in Seq(X) /\ Len(Drop(s, n)) = Len(s) - n
          /\ \A i \in 1 .. Len(s) - n : Drop(s, n)[i] = s[n + i]
      BY ONLY <3>1, Dropped
    <3>4. Len(s) - n = o
      BY <1>2, <1>4
    <3> QED BY <3>2, <3>3, <3>4
  <2>2. ASSUME NEW i \in 1 .. o PROVE f[i] = r[i]
    <3>0. l \in Nat /\ o \in Nat /\ n = l + 1 /\ i \in 1 .. o
      BY <1>2, <2>2
    <3>1. i + 1 \in 1 .. o + 1 /\ n + i = l + (i + 1)
      BY ONLY <3>0
    <3>2. s[l + (i + 1)] = q[i + 1]
      BY <1>4, <3>1
    <3> QED BY <1>3, <2>1, <3>1, <3>2
  <2>3. r \in Seq(X) /\ Len(f) = Len(r) /\ \A i \in 1 .. Len(f) : f[i] = r[i]
    BY <1>1, <2>1, <2>2
  <2> QED BY <2>1, <2>3, SeqEqual
<1>9. \A i \in 1 .. n - 1 : i \in DOMAIN a /\ s[i] = a[i]
  BY <1>2, <1>4
<1>10. n # 0 /\ SubSeq(s, 1, n - 1) = a /\ SubSeq(s, n + 1, Len(s)) = r
  <2>1. n # 0
    BY <1>2
  <2>2. SubSeq(s, 1, n - 1) = a /\ SubSeq(s, n + 1, Len(s)) = r
    BY ONLY <1>6, <1>7, <1>8, Zenon
  <2> QED BY <2>1, <2>2
<1> QED BY <1>4, <1>5, <1>9, <1>10

\* The nearest mark.
LEMMA FirstMark ==
  ASSUME NEW X, NEW s \in Seq(X)
  PROVE  /\ \A n \in DOMAIN s :
              TheStack!IsMark(s[n]) /\ (\A i \in 1 .. n - 1 : ~TheStack!IsMark(s[i]))
                => TheStack!FirstPlace(s, TheStack!IsMark) = n
         /\ (\A n \in DOMAIN s : ~TheStack!IsMark(s[n])) => TheStack!FirstPlace(s, TheStack!IsMark) = 0
<1> DEFINE T == {j \in 1 .. Len(s) : TheStack!IsMark(s[j])}
<1>1. DOMAIN s = 1 .. Len(s) /\ Len(s) \in Nat
  OBVIOUS
<1>2. PICK x : x = (IF T # {} THEN Min(T) ELSE 0)
  OBVIOUS
<1>3. TheStack!FirstPlace(s, TheStack!IsMark) = x
  <2>1. TheStack!Min(T) = Min(T)
    BY Zenon DEF TheStack!Min, Min
  <2> QED BY <1>2, <2>1, Zenon DEF TheStack!FirstPlace
<1>4. T \subseteq Nat
  BY <1>1
<1>5. ASSUME NEW n \in DOMAIN s, TheStack!IsMark(s[n]), \A i \in 1 .. n - 1 : ~TheStack!IsMark(s[i])
      PROVE  x = n
  <2>1. n \in T
    BY <1>1, <1>5
  <2>2. x \in T /\ x <= n
    <3> HIDE DEF T
    <3> QED BY <1>2, <1>4, <2>1, Least
  <2>3. ~(x \in 1 .. n - 1)
    BY <1>5, <2>2
  <2> QED BY <1>1, <2>2, <2>3
<1>6. ASSUME \A n \in DOMAIN s : ~TheStack!IsMark(s[n]) PROVE x = 0
  <2>1. T = {}
    BY <1>1, <1>6
  <2> QED BY <1>2, <2>1
<1> QED BY <1>3, <1>5, <1>6

\* The first frame at which a flow ends, or a variable list.
StopsAt(frame, flow) == TheStack!IsList(frame) \/ Ends(frame, flow)

FirstStop(s, flow) == TheStack!FirstPlace(s, LAMBDA frame : TheStack!IsList(frame) \/ TheStack!Ends(frame, flow))

LEMMA FirstStopIs ==
  ASSUME NEW X, NEW s \in Seq(X), NEW flow
  PROVE  /\ \A n \in DOMAIN s :
              StopsAt(s[n], flow) /\ (\A i \in 1 .. n - 1 : ~StopsAt(s[i], flow))
                => FirstStop(s, flow) = n
         /\ (\A n \in DOMAIN s : ~StopsAt(s[n], flow)) => FirstStop(s, flow) = 0
<1> DEFINE T == {j \in 1 .. Len(s) : StopsAt(s[j], flow)}
<1>1. DOMAIN s = 1 .. Len(s) /\ Len(s) \in Nat
  OBVIOUS
<1>2. PICK x : x = (IF T # {} THEN Min(T) ELSE 0)
  OBVIOUS
<1>3. FirstStop(s, flow) = x
  <2>1. PICK U : U = {j \in 1 .. Len(s) : TheStack!IsList(s[j]) \/ TheStack!Ends(s[j], flow)}
    OBVIOUS
  <2>2. U = T
    BY <2>1, SameFlows DEF StopsAt
  <2>3. TheStack!Min(U) = Min(U)
    BY Zenon DEF TheStack!Min, Min
  <2>4. FirstStop(s, flow) = IF U # {} THEN TheStack!Min(U) ELSE 0
    BY <2>1, Zenon DEF FirstStop, TheStack!FirstPlace
  <2> QED BY <1>2, <2>2, <2>3, <2>4
<1>4. T \subseteq Nat
  BY <1>1
<1>5. ASSUME NEW n \in DOMAIN s, StopsAt(s[n], flow), \A i \in 1 .. n - 1 : ~StopsAt(s[i], flow)
      PROVE  x = n
  <2>1. n \in T
    BY <1>1, <1>5
  <2>2. x \in T /\ x <= n
    <3> HIDE DEF T
    <3> QED BY <1>2, <1>4, <2>1, Least
  <2>3. ~(x \in 1 .. n - 1)
    BY <1>5, <2>2
  <2> QED BY <1>1, <2>2, <2>3
<1>6. ASSUME \A n \in DOMAIN s : ~StopsAt(s[n], flow) PROVE x = 0
  <2>1. T = {}
    BY <1>1, <1>6
  <2> QED BY <1>2, <2>1
<1> QED BY <1>3, <1>5, <1>6

\* A step of the stack that fails.
LEMMA FailStack ==
  ASSUME Fails, st.flow # Failed, Whole(runs, meta) # <<>>, HasFields(st),
         TheStack!After(Whole(runs, meta), CutAll(st)) = TheStack!Fail(CutAll(st))
  PROVE  TheStack!Next
<1>1. PICK u, s : u = CutAll([st EXCEPT !.flow = Failed]) /\ s = <<>>
  OBVIOUS
<1>2. u = [CutAll(st) EXCEPT !.flow = Failed]
  BY <1>1, CutSets
<1>3. st' = [st EXCEPT !.flow = Failed]
  BY DEF Fails
<1>4. CutAll(st)' = u /\ st'.flow = Failed /\ u.flow = Failed
  <2>1. st'.flow = Failed
    BY <1>3 DEF HasFields, StateFields
  <2>2. HasFields(CutAll(st))
    BY CutAllIs
  <2> QED BY <1>1, <1>2, <1>3, <2>1, <2>2 DEF HasFields, StateFields
<1>5. TheStack!After(Whole(runs, meta), CutAll(st)) = TheStack!On(s, u)
  BY <1>1, <1>2, SameFrames DEF TheStack!Fail
<1> QED BY <1>4, <1>5, StackStep

\* What comes after a Chain with the end of a reset.
LEMMA BelowTaken ==
  ASSUME NEW S, NEW v, NEW g, NEW rs \in Seq(Calls(S, v, g)), rs # <<>>,
         NEW mt \in Seq(Infos(S, v, g)), mt # <<>>, NEW c \in Seq(Frames(S, v, g)), HasReset(c, 1),
         NEW k, k = mt[1].k, NEW m, m = [f |-> "reset", sh |-> mt[1].sh]
  PROVE  /\ Below(rs, mt, c, 0, 0) = <<m>> \o (Before(k) \o Below(rs, mt, k, 1, 0))
         /\ Before(k) \o Below(rs, mt, k, 1, 0) \in Seq(StackFrames(S, v, g))
         /\ m \in StackFrames(S, v, g) /\ k \in Seq(Frames(S, v, g)) /\ mt[1].sh \in Contexts(v, g)
<1>1. 1 \in DOMAIN mt /\ 0 < Len(mt) /\ Len(mt) \in Nat /\ Len(rs) \in Nat /\ 0 # Len(rs)
  OBVIOUS
<1>2. k \in Seq(Frames(S, v, g)) /\ m \in StackFrames(S, v, g) /\ mt[1].sh \in Contexts(v, g)
  <2>1. mt[1] \in Infos(S, v, g)
    BY <1>1
  <2> QED BY <2>1 DEF Infos, StackFrames, ResetMarks
<1>3. PICK r : r = Rest(rs, mt, 1, 0, TRUE)
  OBVIOUS
<1>4. r = Before(k) \o Below(rs, mt, k, 1, 0) /\ r \in Seq(StackFrames(S, v, g))
  <2>0. PICK q \in BOOLEAN : q = TRUE
    OBVIOUS
  <2>1. PICK i, j : q = TRUE /\ i = 1 /\ j = 0
    BY <2>0
  <2>2. /\ i \in 0 .. Len(mt) /\ j \in 0 .. Len(rs) /\ j # Len(rs) /\ i > 0
        /\ k = IF q THEN mt[i].k ELSE rs[j + 1].chain
        /\ rs \in Seq(Calls(S, v, g)) /\ mt \in Seq(Infos(S, v, g)) /\ q \in BOOLEAN
    BY <1>1, <2>1
  <2>3. Rest(rs, mt, i, j, q) = IF j = Len(rs) THEN <<>> ELSE Before(k) \o Below(rs, mt, k, i, j)
    BY ONLY <2>2, RestAt
  <2>4. Rest(rs, mt, i, j, q) \in Seq(StackFrames(S, v, g))
    BY ONLY <2>2, RestType
  <2> QED BY <1>3, <2>1, <2>2, <2>3, <2>4
<1>5. Below(rs, mt, c, 0, 0) = <<m>> \o r
  <2>1. PICK o : o = 0
    OBVIOUS
  <2>2. o < Len(mt) /\ o + 1 = 1
    BY <1>1, <2>1
  <2>3. Below(rs, mt, c, o, o) = ResetPile(rs, mt, o, o)
    <3>1. c \in Seq(Frames(S, v, g)) /\ HasReset(c, 1)
      OBVIOUS
    <3> QED BY ONLY <2>2, <3>1, BelowReset
  <2> QED BY <1>3, <2>1, <2>2, <2>3, Zenon DEF ResetPile
<1> QED BY <1>2, <1>4, <1>5

\* What a shift saves.
With(l, k, x) == [l EXCEPT !.k = <<[frames |-> k, vars |-> x]>>]

\* What a shift saves, cut.
LEMMA CutSaved ==
  ASSUME NEW S, NEW v \in Nat, NEW g \in Nat, NEW s, IsState(s, S, v, g), NEW x \in 1 .. v,
         NEW k
  PROVE  With(CutAll(s).vars[x], Before(k), x) = CutOf(With(s.vars[x], k, x))
<1>1. PICK l, d : l = s.vars[x] /\ d = Cut(l.k)
  OBVIOUS
<1>2. l = [k |-> l.k, i |-> l.i]
  <2>1. l \in Locals(S, v, g)
    BY <1>1, LocalTypes
  <2> QED BY <2>1 DEF Locals
<1>3. CutAll(s).vars[x] = [k |-> d, i |-> l.i]
  <2>1. CutAll(s).vars[x] = CutOf(l)
    BY <1>1, CutVar
  <2>2. CutOf(l) = [l EXCEPT !.k = d]
    BY <1>1 DEF CutOf
  <2> QED BY <1>2, <2>1, <2>2
<1>0. PICK y : y = With(s.vars[x], k, x)
  OBVIOUS
<1>4. PICK c, e : c = [frames |-> k, vars |-> x] /\ e = [frames |-> Before(k), vars |-> x]
  OBVIOUS
<1>5. Cut(<<c>>) = <<e>>
  <2>1. [c EXCEPT !.frames = Before(c.frames)] = e
    BY <1>4
  <2>2. Cut(<<c>>) = [n \in {1} |-> e]
    BY <2>1 DEF Cut
  <2> QED BY <2>2
<1>6. y = [k |-> <<c>>, i |-> l.i]
  BY <1>0, <1>1, <1>2, <1>4 DEF With
<1>7. CutOf(y) = [k |-> <<e>>, i |-> l.i]
  <2>1. PICK w, li, q : w = <<c>> /\ li = l.i /\ q = <<e>>
    OBVIOUS
  <2>2. y = [k |-> w, i |-> li] /\ Cut(w) = q
    BY <1>5, <1>6, <2>1
  <2>3. y.k = w
    BY ONLY <2>2
  <2>4. CutOf(y) = [y EXCEPT !.k = q]
    BY ONLY <2>2, <2>3 DEF CutOf
  <2>5. [y EXCEPT !.k = q] = [k |-> q, i |-> li]
    BY ONLY <2>2
  <2> QED BY <2>1, <2>4, <2>5
<1>8. With(CutAll(s).vars[x], Before(k), x) = [k |-> <<e>>, i |-> l.i]
  <2>1. PICK q : q = CutAll(s).vars[x]
    OBVIOUS
  <2>2. [q EXCEPT !.k = <<e>>] = [k |-> <<e>>, i |-> l.i]
    BY <1>3, <2>1
  <2> QED BY <1>4, <2>1, <2>2 DEF With
<1> QED BY <1>0, <1>7, <1>8

\* The frame m in the stack s, a above it and r below.
IsAround(s, a, m, r) == s = a \o (<<m>> \o r)
NoMarkIn(a) == \A i \in DOMAIN a : ~TheStack!IsMark(a[i])

\* What a shift does to a stack with a reset: the frames a come off, and those of
\* the body go on.
LEMMA ShiftToMark ==
  ASSUME NEW X, NEW a \in Seq(X), NEW m \in X, NEW r \in Seq(X), NEW s, IsAround(s, a, m, r),
         NoMarkIn(a), TheStack!IsMark(m), ~TheStack!IsList(m),
         NEW sh, NEW body, NEW z, NEW fr, NEW u,
         FuncPush(z, m.sh, With(z.vars[sh.vars], a, sh.vars), body) = Pushing(fr, u)
  PROVE  TheStack!ShiftTo(sh, body, s, z) = TheStack!On(fr \o r, u)
<1>1. PICK n : n = Len(a) + 1
  OBVIOUS
<1>2. /\ s \in Seq(X) /\ n \in DOMAIN s /\ s[n] = m /\ n # 0
      /\ SubSeq(s, 1, n - 1) = a /\ SubSeq(s, n + 1, Len(s)) = r
      /\ \A i \in 1 .. n - 1 : i \in DOMAIN a /\ s[i] = a[i]
  BY <1>1, Around DEF IsAround
<1>3. TheStack!FirstPlace(s, TheStack!IsMark) = n
  BY <1>2, FirstMark DEF NoMarkIn
<1>4. PICK q : q = Pushing(fr, u)
  OBVIOUS
<1>5. q.frames = fr /\ q.st = u
  BY <1>4 DEF Pushing
<1>6. TheStack!FuncPush(z, m.sh, [z.vars[sh.vars] EXCEPT !.k = <<[frames |-> a, vars |-> sh.vars]>>], body) = q
  BY <1>4, SameParts DEF With
<1>7. TheStack!ShiftTo(sh, body, s, z) = TheStack!On(q.frames \o r, q.st)
  BY <1>2, <1>3, <1>6, Zenon DEF TheStack!ShiftTo
<1> QED BY <1>5, <1>7

\* A shift out of a redirection.
LEMMA ShiftToList ==
  ASSUME NEW X, NEW a \in Seq(X), NEW m \in X, NEW r \in Seq(X), NEW s, IsAround(s, a, m, r),
         NoMarkIn(a), TheStack!IsMark(m), TheStack!IsList(m),
         NEW sh, NEW body, NEW z
  PROVE  TheStack!ShiftTo(sh, body, s, z) = TheStack!Fail(z)
<1>1. PICK n : n = Len(a) + 1
  OBVIOUS
<1>2. /\ s \in Seq(X) /\ n \in DOMAIN s /\ s[n] = m
      /\ \A i \in 1 .. n - 1 : i \in DOMAIN a /\ s[i] = a[i]
  BY <1>1, Around DEF IsAround
<1>3. TheStack!FirstPlace(s, TheStack!IsMark) = n
  BY <1>2, FirstMark DEF NoMarkIn
<1> QED BY <1>2, <1>3, Zenon DEF TheStack!ShiftTo

\* A shift without any mark below it.
LEMMA ShiftToNone ==
  ASSUME NEW X, NEW s \in Seq(X), \A i \in DOMAIN s : ~TheStack!IsMark(s[i]), NEW sh, NEW body, NEW z
  PROVE  TheStack!ShiftTo(sh, body, s, z) = TheStack!Fail(z)
<1>1. TheStack!FirstPlace(s, TheStack!IsMark) = 0
  BY FirstMark
<1> QED BY <1>1, Zenon DEF TheStack!ShiftTo

\* c is a and then k.
IsJoin(c, a, k) == c = a \o k
NoEnds(a) == \A i \in DOMAIN a : a[i] # ResetEnd

\* The Chain of the innermost run goes on with frames before k.
LEMMA JoinedStack ==
  ASSUME NEW S, NEW v, NEW g, NEW w \in Nat, NEW a \in Seq(Frames(S, w, g)), NEW k \in Seq(Frames(S, v, g)),
         v \in Nat, g \in Nat, v <= w, NoEnds(a), NEW b \in Seq(StackFrames(S, v, g)),
         NEW c, IsJoin(c, a, k), NEW r, IsJoin(r, Before(k), b)
  PROVE  /\ c \in Seq(Frames(S, w, g)) /\ (HasReset(c, 1) <=> HasReset(k, 1))
         /\ IsJoin(a \o r, Before(c), b)
<1>1. k \in Seq(Frames(S, w, g))
  <2>1. g <= g
    OBVIOUS
  <2>2. Frames(S, v, g) \subseteq Frames(S, w, g)
    BY <2>1, FramesMono
  <2> QED BY <2>2, SeqMono
<1>2. Before(a \o k) = a \o Before(k) /\ (HasReset(a \o k, 1) <=> HasReset(k, 1))
  BY <1>1, BeforeJoin DEF NoEnds
<1>3. a \o k \in Seq(Frames(S, w, g))
  BY <1>1, Concat
<1>4. (a \o Before(k)) \o b = a \o (Before(k) \o b)
  <2>1. PICK X, e : X = StackFrames(S, w, g) \cup StackFrames(S, v, g) /\ e = Before(k)
    OBVIOUS
  <2>2. a \in Seq(StackFrames(S, w, g)) /\ e \in Seq(StackFrames(S, v, g))
    BY <2>1, Widened
  <2>3. a \in Seq(X) /\ e \in Seq(X) /\ b \in Seq(X)
    BY <2>1, <2>2, SeqMono
  <2>4. (a \o e) \o b = a \o (e \o b)
    BY ONLY <2>3
  <2> QED BY <2>1, <2>4
<1>5. c = a \o k /\ r = Before(k) \o b
  BY DEF IsJoin
<1> QED BY <1>2, <1>3, <1>4, <1>5, Zenon DEF IsJoin

\* A Chain has no mark.
LEMMA Unmarked ==
  ASSUME NEW S, NEW v, NEW g, NEW c \in Seq(Frames(S, v, g))
  PROVE  \A i \in DOMAIN Before(c) : ~TheStack!IsMark(Before(c)[i]) /\ ~TheStack!IsList(Before(c)[i])
<1>1. PICK a : a = Before(c)
  OBVIOUS
<1>2. a \in Seq(Frames(S, v, g))
  BY <1>1, BeforeType
<1>3. ASSUME NEW i \in DOMAIN a PROVE ~TheStack!IsMark(a[i]) /\ ~TheStack!IsList(a[i])
  <2>1. a[i] \in Frames(S, v, g)
    BY <1>2, <1>3
  <2> QED BY <2>1, NoMark
<1> QED BY <1>1, <1>3

\* b comes after a Chain without the end of a reset, and o after its run.
IsEnd(S, v, g, rs, mt, b, o) ==
  /\ b = ListOf(rs[1]) \o o /\ o \in Seq(StackFrames(S, v, g))
  /\ ListOf(rs[1]) \in Seq(StackFrames(S, v, g))
  /\ o = Whole(Tail(rs), mt)
  /\ Len(rs) = 1 => o = <<>>
  /\ rs[1].g # 0 => /\ ListOf(rs[1]) = <<[f |-> "list", sh |-> rs[1].sh, g |-> rs[1].g]>>
                    /\ [f |-> "list", sh |-> rs[1].sh, g |-> rs[1].g] \in StackFrames(S, v, g)

\* What comes after the Chain of the innermost run when it has no end of a reset.
LEMMA EndIs ==
  ASSUME NEW S, NEW v, NEW g, NEW rs \in Seq(Calls(S, v, g)), rs # <<>>,
         NEW mt \in Seq(Infos(S, v, g)), NEW c \in Seq(Frames(S, v, g)), ~HasReset(c, 1),
         NEW b, b = Below(rs, mt, c, 0, 0), NEW o, o = Outer(rs, mt, 0)
  PROVE  IsEnd(S, v, g, rs, mt, b, o)
<1>1. Len(rs) \in Nat /\ Len(rs) >= 1 /\ Len(mt) \in Nat /\ 1 \in DOMAIN rs /\ rs[1] \in Calls(S, v, g)
  OBVIOUS
<1>2. Below(rs, mt, c, 0, 0) = ListOf(rs[1]) \o Outer(rs, mt, 0)
  <2>1. PICK i, n : i = 0 /\ n = i + 1
    OBVIOUS
  <2>2. c \in Seq(Frames(S, v, g)) /\ ~HasReset(c, 1)
    OBVIOUS
  <2>3. Below(rs, mt, c, i, i) = ListOf(rs[n]) \o Rest(rs, mt, i, n, FALSE)
    BY ONLY <2>1, <2>2, BelowList
  <2>4. n = 1
    BY <2>1
  <2> QED BY <2>1, <2>3, <2>4, Zenon DEF Outer
<1>3. ListOf(rs[1]) \in Seq(StackFrames(S, v, g))
  BY <1>1, ListOfType
<1>4. Outer(rs, mt, 0) = Whole(Tail(rs), mt)
  <2>1. PICK n, ts, nt : n = 0 /\ ts = Tail(rs) /\ nt = Drop(mt, n)
    OBVIOUS
  <2>2. n \in 0 .. Len(mt) /\ rs \in Seq(Calls(S, v, g)) /\ rs # <<>> /\ mt \in Seq(Infos(S, v, g))
    BY <1>1, <2>1
  <2>3. Whole(ts, nt) = Outer(rs, mt, n)
    <3>1. IsOver(S, v, g, rs, mt, n, ts, nt)
      BY <2>1, <2>2 DEF IsOver
    <3> QED BY ONLY <3>1, WholeOver
  <2>4. nt = mt
    BY <2>1, DropNone
  <2> QED BY <2>1, <2>3, <2>4
<1>5. /\ Outer(rs, mt, 0) \in Seq(StackFrames(S, v, g))
      /\ Len(rs) = 1 => Outer(rs, mt, 0) = <<>>
  <2>0. PICK q \in BOOLEAN : q = FALSE
    OBVIOUS
  <2>1. PICK i, j, k : q = FALSE /\ i = 0 /\ j = 1 /\ k = rs[j + 1].chain
    BY <2>0
  <2>2. /\ i \in 0 .. Len(mt) /\ j \in 0 .. Len(rs) /\ (q => i > 0)
        /\ k = IF q THEN mt[i].k ELSE rs[j + 1].chain
        /\ rs \in Seq(Calls(S, v, g)) /\ mt \in Seq(Infos(S, v, g)) /\ q \in BOOLEAN
    BY <1>1, <2>1
  <2>3. Rest(rs, mt, i, j, q) = IF j = Len(rs) THEN <<>> ELSE Before(k) \o Below(rs, mt, k, i, j)
    BY ONLY <2>2, RestAt
  <2>4. Rest(rs, mt, i, j, q) \in Seq(StackFrames(S, v, g))
    BY ONLY <2>2, RestType
  <2> QED BY <2>1, <2>3, <2>4 DEF Outer
<1>6. ASSUME rs[1].g # 0
      PROVE  /\ ListOf(rs[1]) = <<[f |-> "list", sh |-> rs[1].sh, g |-> rs[1].g]>>
             /\ [f |-> "list", sh |-> rs[1].sh, g |-> rs[1].g] \in StackFrames(S, v, g)
  <2>1. rs[1].sh \in Contexts(v, g) /\ rs[1].g \in 0 .. g
    BY <1>1 DEF Calls
  <2> QED BY <1>6, <2>1 DEF ListOf, StackFrames, ListMarks
<1>7. PICK l, m, h : l = ListOf(rs[1]) /\ m = [f |-> "list", sh |-> rs[1].sh, g |-> rs[1].g] /\ h = Whole(Tail(rs), mt)
  OBVIOUS
<1>8. /\ b = l \o o /\ o \in Seq(StackFrames(S, v, g)) /\ l \in Seq(StackFrames(S, v, g))
      /\ o = h /\ (Len(rs) = 1 => o = <<>>)
      /\ (rs[1].g # 0 => l = <<m>> /\ m \in StackFrames(S, v, g))
  BY <1>2, <1>3, <1>4, <1>5, <1>6, <1>7
<1> QED BY ONLY <1>7, <1>8 DEF IsEnd

\* Variables x of a typed state.
HasVar(s, S, v, g, x) == v \in Nat /\ g \in Nat /\ IsState(s, S, v, g) /\ x \in 1 .. v

LEMMA SavedCut ==
  ASSUME NEW S, NEW v, NEW g, NEW s, NEW x, HasVar(s, S, v, g, x), NEW k
  PROVE  With(CutAll(s).vars[x], Before(k), x) = CutOf(With(s.vars[x], k, x))
BY CutSaved DEF HasVar

\* A shift in a reset takes the frames up to its end.
LEMMA ShiftsStack ==
  ASSUME NEW S, NEW exact, Allowed(S, exact), NEW v, NEW g, GoodAt(S, exact, runs, meta, st, v, g),
         ExecShift, HasReset(After, 1), ~Here.redirected
  PROVE  TheStack!Next
<1>1. ControlAt("shift")
  BY DEF ExecShift
<1>2. PICK b, t, k : b = Below(runs, meta, chain, 0, 0) /\ t = "shift" /\ k = After
  OBVIOUS
<1>3. /\ Whole(runs, meta) # <<>>
      /\ TheStack!After(Whole(runs, meta), CutAll(st)) = TheStack!Exec(Stmt, Here, Before(k) \o b, CutAll(st))
      /\ runs # <<>> /\ st.flow = Onward /\ st.flow # Failed
      /\ v \in Nat /\ g \in Nat /\ HasFields(st) /\ IsState(st, S, v, g)
      /\ runs \in Seq(Calls(S, v, g)) /\ meta \in Seq(Infos(S, v, g)) /\ meta # <<>>
      /\ Stmt \in S /\ Stmt.t = "shift" /\ Here \in Contexts(v, g)
      /\ k \in Seq(Frames(S, v, g)) /\ Before(k) \in Seq(StackFrames(S, v, g))
      /\ b \in Seq(StackFrames(S, v, g)) /\ b = Below(runs, meta, k, 0, 0)
      /\ HasReset(k, 1)
  <2>1. t \in {"reset", "shift", "resume", "to"} /\ ControlAt(t)
    BY <1>1, <1>2
  <2> QED BY <1>2, <2>1, ControlStack
<1>4. PICK mk, m : mk = meta[1].k /\ m = [f |-> "reset", sh |-> meta[1].sh]
  OBVIOUS
<1>5. PICK r : r = Before(mk) \o Below(runs, meta, mk, 1, 0)
  OBVIOUS
<1>6. /\ b = <<m>> \o r /\ r \in Seq(StackFrames(S, v, g)) /\ m \in StackFrames(S, v, g)
      /\ mk \in Seq(Frames(S, v, g)) /\ meta[1].sh \in Contexts(v, g)
  <2>1. /\ runs \in Seq(Calls(S, v, g)) /\ runs # <<>> /\ meta \in Seq(Infos(S, v, g)) /\ meta # <<>>
        /\ k \in Seq(Frames(S, v, g)) /\ HasReset(k, 1)
        /\ mk = meta[1].k /\ m = [f |-> "reset", sh |-> meta[1].sh]
    BY <1>3, <1>4
  <2>2. /\ Below(runs, meta, k, 0, 0) = <<m>> \o (Before(mk) \o Below(runs, meta, mk, 1, 0))
        /\ Before(mk) \o Below(runs, meta, mk, 1, 0) \in Seq(StackFrames(S, v, g))
        /\ m \in StackFrames(S, v, g) /\ mk \in Seq(Frames(S, v, g)) /\ meta[1].sh \in Contexts(v, g)
    BY ONLY <2>1, BelowTaken
  <2> QED BY <1>3, <1>5, <2>2
<1>7. PICK hv, y : hv = Here.vars /\ y = With(st.vars[hv], k, hv)
  OBVIOUS
<1>8. hv \in 1 .. v
  BY <1>3, <1>7 DEF Contexts
<1>9. y \in Locals(S, v, g)
  <2>1. Saved(k)
    <3>1. v <= v /\ g <= g
      BY <1>3
    <3>2. \E last : Piece(Frames(S, v, g), exact, chain, last[1], runs[1].g, Reached(runs, 2))
      BY <1>3, <3>1, Begins
    <3>3. \E last : Piece(Frames(S, v, g), exact, k, last[1], runs[1].g, Reached(runs, 2))
      BY <1>1, <1>2, <1>3, <3>2, Controls DEF Allowed
    <3>4. Scoped(k, Reached(runs, 2)) /\ Tuned(exact, k)
      BY <3>3 DEF Piece
    <3> QED BY <1>3, <3>4, SavedIs
  <2>2. Cont(k, hv) \in Conts(S, v, g)
    BY <1>3, <1>8, <2>1 DEF Cont, Conts
  <2>3. st.vars[hv] \in Locals(S, v, g)
    BY <1>3, <1>8, LocalTypes
  <2>4. <<Cont(k, hv)>> \in Seq(Conts(S, v, g))
    BY <2>2
  <2> QED BY <1>7, <2>3, <2>4 DEF Locals, With, Cont
<1>10. PICK body : body = Stmt.body
  OBVIOUS
<1>11. body \in Seq(S)
  BY <1>3, <1>10 DEF Allowed, Statements, Inner
<1>12. PICK sh : sh = meta[1].sh
  OBVIOUS
<1>13. PICK a, u : /\ FuncPush(st, sh, y, body) = Pushing(a, u)
                   /\ IsState(u, S, v + 1, g) /\ u.groups = st.groups /\ u.flow = st.flow
                   /\ a \in Seq(Frames(S, v + 1, g)) /\ Closed(sh, a)
  <2>1. sh \in Contexts(v, g)
    BY <1>6, <1>12
  <2>2. v \in Nat /\ g \in Nat /\ IsState(st, S, v, g)
    BY <1>3
  <2> QED BY ONLY <1>9, <1>11, <2>1, <2>2, Pushes
<1>14. PICK w : w = v + 1
  OBVIOUS
<1>15. /\ w \in Nat /\ v <= w /\ a \in Seq(Frames(S, w, g)) /\ HasFields(u)
       /\ \A i \in DOMAIN a : a[i] # ResetEnd
  <2>1. w \in Nat /\ v <= w /\ a \in Seq(Frames(S, w, g)) /\ IsState(u, S, w, g)
    BY <1>3, <1>13, <1>14
  <2> QED BY <1>13, <2>1, StateHas DEF Closed
<1>16. PICK c : c = a \o mk
  OBVIOUS
<1>17. /\ c \in Seq(Frames(S, w, g)) /\ (HasReset(c, 1) <=> HasReset(mk, 1))
       /\ Before(c) \o Below(runs, meta, mk, 1, 0) = a \o r
  <2>1. Below(runs, meta, mk, 1, 0) \in Seq(StackFrames(S, v, g))
    <3>1. PICK i, j : i = 1 /\ j = 0
      OBVIOUS
    <3>2. i \in 0 .. Len(meta) /\ j \in Nat /\ j < Len(runs)
      BY <1>3, <3>1
    <3>3. runs \in Seq(Calls(S, v, g)) /\ meta \in Seq(Infos(S, v, g)) /\ mk \in Seq(Frames(S, v, g))
      BY <1>3, <1>6
    <3>4. Below(runs, meta, mk, i, j) \in Seq(StackFrames(S, v, g))
      BY ONLY <3>2, <3>3, BelowType
    <3> QED BY <3>1, <3>4
  <2>2. PICK d : d = Below(runs, meta, mk, 1, 0)
    OBVIOUS
  <2>3. /\ v \in Nat /\ g \in Nat /\ w \in Nat /\ v <= w /\ a \in Seq(Frames(S, w, g))
        /\ mk \in Seq(Frames(S, v, g)) /\ NoEnds(a) /\ d \in Seq(StackFrames(S, v, g))
        /\ IsJoin(c, a, mk) /\ IsJoin(r, Before(mk), d)
    BY <1>3, <1>5, <1>6, <1>15, <1>16, <2>1, <2>2 DEF IsJoin, NoEnds
  <2>4. /\ c \in Seq(Frames(S, w, g)) /\ (HasReset(c, 1) <=> HasReset(mk, 1))
        /\ IsJoin(a \o r, Before(c), d)
    BY ONLY <2>3, JoinedStack
  <2> QED BY <2>2, <2>4 DEF IsJoin
<1>18. runs' = TurnTo(runs, c) /\ meta' = Tail(meta) /\ st' = u
  <2>1. PICK q : q = FuncPush(st, meta[1].sh,
                              [st.vars[Here.vars] EXCEPT !.k = <<Cont(After, Here.vars)>>], Stmt.body)
    OBVIOUS
  <2>2. q = Pushing(a, u)
    BY <1>2, <1>7, <1>10, <1>12, <1>13, <2>1 DEF With, Cont
  <2>3. q.frames = a /\ q.st = u
    BY <2>2 DEF Pushing
  <2>4. GoOn(q.frames \o meta[1].k) /\ st' = q.st /\ meta' = Tail(meta)
    BY <1>3, <2>1 DEF ExecShift
  <2> QED BY <1>4, <1>16, <2>3, <2>4 DEF GoOn, TurnTo
<1>19. Whole(runs, meta)' = a \o r
  <2>1. PICK os, ot : os = TurnTo(runs, c) /\ ot = Tail(meta)
    OBVIOUS
  <2>2. runs \in Seq(Calls(S, w, g)) /\ meta \in Seq(Infos(S, w, g))
    <3>1. g <= g /\ v <= w
      BY <1>3, <1>15
    <3>2. /\ Seq(Calls(S, v, g)) \subseteq Seq(Calls(S, w, g))
          /\ Seq(Infos(S, v, g)) \subseteq Seq(Infos(S, w, g))
      BY <1>3, <1>15, <3>1, FramesMono, TypesMono
    <3> QED BY <1>3, <3>2
  <2>3. runs # <<>> /\ meta # <<>> /\ c \in Seq(Frames(S, w, g))
    BY <1>3, <1>17
  <2>4. os \in Seq(Calls(S, w, g)) /\ os # <<>> /\ Turned(os, runs, c)
    BY ONLY <2>1, <2>2, <2>3, TurnedIs
  <2>5. Whole(os, ot) = Before(c) \o Below(runs, meta, c, 1, 0)
    BY ONLY <2>1, <2>2, <2>3, <2>4, WholeTaken
  <2>6. Below(runs, meta, c, 1, 0) = Below(runs, meta, mk, 1, 0)
    BY <1>6, <1>17, BelowSame
  <2>7. Whole(runs, meta)' = Whole(os, ot)
    BY <1>18, <2>1, WholeNext
  <2> QED BY <1>17, <2>5, <2>6, <2>7
<1>20. PICK z, fr, e : z = CutAll(st) /\ fr = Before(k) /\ e = CutAll(u)
  OBVIOUS
<1>21. FuncPush(z, m.sh, With(z.vars[Here.vars], fr, Here.vars), body) = Pushing(a, e)
  <2>1. With(z.vars[hv], fr, hv) = CutOf(y)
    <3>1. v \in Nat /\ g \in Nat /\ IsState(st, S, v, g) /\ hv \in 1 .. v
      BY <1>3, <1>8
    <3>2. HasVar(st, S, v, g, hv)
      BY ONLY <3>1 DEF HasVar
    <3>3. With(CutAll(st).vars[hv], Before(k), hv) = CutOf(With(st.vars[hv], k, hv))
      BY ONLY <3>2, SavedCut
    <3> QED BY <1>7, <1>20, <3>3
  <2>2. FuncPush(z, sh, CutOf(y), body) = CutPush(FuncPush(st, sh, y, body))
    BY <1>3, <1>9, <1>20, CutFuncPush
  <2>3. CutPush(Pushing(a, u)) = Pushing(a, e)
    BY <1>20, CutPushes
  <2>4. m.sh = sh
    BY <1>4, <1>12
  <2> QED BY <1>7, <1>13, <2>1, <2>2, <2>3, <2>4
<1>22. PICK s : s = fr \o (<<m>> \o r)
  OBVIOUS
<1>23. TheStack!ShiftTo(Here, body, s, z) = TheStack!On(a \o r, e)
  <2>1. PICK X : X = StackFrames(S, v, g)
    OBVIOUS
  <2>2. fr \in Seq(X) /\ m \in X /\ r \in Seq(X) /\ IsAround(s, fr, m, r)
    BY <1>3, <1>6, <1>20, <1>22, <2>1 DEF IsAround
  <2>3. NoMarkIn(fr)
    BY <1>3, <1>20, Unmarked DEF NoMarkIn
  <2>4. TheStack!IsMark(m) /\ ~TheStack!IsList(m)
    BY <1>4 DEF TheStack!IsMark, TheStack!IsList
  <2> QED BY ONLY <1>21, <2>2, <2>3, <2>4, ShiftToMark
<1>24. TheStack!After(Whole(runs, meta), CutAll(st)) = TheStack!On(a \o r, e)
  <2>1. TheStack!Exec(Stmt, Here, s, z) = TheStack!ShiftTo(Here, body, s, z)
    BY <1>3, <1>10 DEF TheStack!Exec
  <2> QED BY <1>3, <1>6, <1>20, <1>22, <1>23, <2>1
<1>25. CutAll(st)' = e /\ e.flow = st'.flow
  BY <1>15, <1>18, <1>20, CutAllIs
<1> QED BY <1>3, <1>19, <1>24, <1>25, StackStep

\* Whether a shift has a reset.
LEMMA ShiftFacts ==
  ASSUME NEW S, NEW exact, Allowed(S, exact), NEW v, NEW g, GoodAt(S, exact, runs, meta, st, v, g),
         ControlAt("shift"), runs # <<>>
  PROVE  /\ HasReset(After, 1) => ~Here.redirected
         /\ ~HasReset(After, 1) => /\ runs[1].g # 0 => Here.redirected
                                   /\ runs[1].g = 0 => Len(runs) = 1 /\ meta = <<>>
<1>1. v \in Nat /\ g \in Nat /\ v <= v /\ g <= g /\ Statements(S)
  BY DEF GoodAt, Allowed
<1>2. PICK last : /\ Parted(Frames(S, v, g), exact, runs, meta, last)
                  /\ Piece(Frames(S, v, g), exact, chain, last[1], runs[1].g, Reached(runs, 2))
                  /\ last[1] \in 0 .. Len(meta) /\ Len(meta) \in Nat
  BY <1>1, Begins
<1>3. PICK F, q, out : F = Frames(S, v, g) /\ q = last[1] /\ out = Reached(runs, 2)
  OBVIOUS
<1>4. /\ Piece(F, exact, After, q, runs[1].g, out) /\ After # <<>> /\ HasCtx(After[1])
      /\ After[1].sh = Here /\ After \in Seq(F)
  BY <1>1, <1>2, <1>3, Controls
<1>5. 1 \in DOMAIN After
  BY <1>4
<1>6. HasReset(After, 1) => ~Here.redirected
  BY <1>4, <1>5 DEF Piece, Tuned
<1>7. ASSUME ~HasReset(After, 1), runs[1].g # 0
      PROVE  Here.redirected
  BY <1>4, <1>5, <1>7 DEF Piece, Marked
<1>8. ASSUME ~HasReset(After, 1), runs[1].g = 0
      PROVE  Len(runs) = 1 /\ meta = <<>>
  <2>1. runs \in Seq(Calls(S, v, g)) /\ 1 \in DOMAIN runs
    BY DEF GoodAt
  <2>2. Len(runs) = 1
    BY <2>1, <1>8 DEF GoodAt
  <2>3. last[Len(runs)] = Len(meta)
    BY <1>2 DEF Parted, Division
  <2>4. q = 0
    BY <1>4, <1>8 DEF Piece
  <2>5. Len(meta) = 0 /\ meta \in Seq(Infos(S, v, g))
    BY <1>3, <2>2, <2>3, <2>4 DEF GoodAt
  <2> QED BY <2>2, <2>5
<1> QED BY <1>6, <1>7, <1>8

\* A shift without a reset, or out of a redirection, is an error.
LEMMA ShiftFailsStack ==
  ASSUME NEW S, NEW exact, Allowed(S, exact), NEW v, NEW g, GoodAt(S, exact, runs, meta, st, v, g),
         ExecShift, ~HasReset(After, 1)
  PROVE  TheStack!Next
<1>1. ControlAt("shift")
  BY DEF ExecShift
<1>2. PICK b, t, k : b = Below(runs, meta, chain, 0, 0) /\ t = "shift" /\ k = After
  OBVIOUS
<1>3. /\ Whole(runs, meta) # <<>>
      /\ TheStack!After(Whole(runs, meta), CutAll(st)) = TheStack!Exec(Stmt, Here, Before(k) \o b, CutAll(st))
      /\ runs # <<>> /\ st.flow # Failed /\ HasFields(st)
      /\ runs \in Seq(Calls(S, v, g)) /\ meta \in Seq(Infos(S, v, g))
      /\ Stmt.t = "shift"
      /\ k \in Seq(Frames(S, v, g)) /\ Before(k) \in Seq(StackFrames(S, v, g))
      /\ b \in Seq(StackFrames(S, v, g)) /\ b = Below(runs, meta, k, 0, 0)
      /\ ~HasReset(k, 1)
  <2>1. t \in {"reset", "shift", "resume", "to"} /\ ControlAt(t)
    BY <1>1, <1>2
  <2> QED BY <1>2, <2>1, ControlStack
<1>4. PICK o : o = Outer(runs, meta, 0)
  OBVIOUS
<1>5. /\ b = ListOf(runs[1]) \o o /\ o \in Seq(StackFrames(S, v, g))
      /\ Len(runs) = 1 => o = <<>>
      /\ runs[1].g # 0 =>
              /\ ListOf(runs[1]) = <<[f |-> "list", sh |-> runs[1].sh, g |-> runs[1].g]>>
              /\ [f |-> "list", sh |-> runs[1].sh, g |-> runs[1].g] \in StackFrames(S, v, g)
  <2>1. /\ runs \in Seq(Calls(S, v, g)) /\ runs # <<>> /\ meta \in Seq(Infos(S, v, g))
        /\ k \in Seq(Frames(S, v, g)) /\ ~HasReset(k, 1)
    BY <1>3
  <2>2. b = Below(runs, meta, k, 0, 0) /\ o = Outer(runs, meta, 0)
    BY <1>3, <1>4
  <2>3. IsEnd(S, v, g, runs, meta, b, o)
    BY ONLY <2>1, <2>2, EndIs
  <2> QED BY <2>3 DEF IsEnd
<1>6. PICK X, s, fr, z : /\ X = StackFrames(S, v, g) /\ fr = Before(k) /\ s = fr \o b /\ z = CutAll(st)
  OBVIOUS
<1>7. NoMarkIn(fr) /\ fr \in Seq(X)
  BY <1>3, <1>6, Unmarked DEF NoMarkIn
<1>8. TheStack!ShiftTo(Here, Stmt.body, s, z) = TheStack!Fail(z)
  <2>1. CASE runs[1].g # 0
    <3>1. PICK m : m = [f |-> "list", sh |-> runs[1].sh, g |-> runs[1].g]
      OBVIOUS
    <3>2. m \in X /\ o \in Seq(X) /\ IsAround(s, fr, m, o)
      BY <1>5, <1>6, <2>1, <3>1 DEF IsAround
    <3>3. TheStack!IsMark(m) /\ TheStack!IsList(m)
      BY <3>1 DEF TheStack!IsMark, TheStack!IsList
    <3> QED BY ONLY <1>7, <3>2, <3>3, ShiftToList
  <2>2. CASE runs[1].g = 0
    <3>1. Len(runs) = 1
      BY <1>1, <1>2, <1>3, <2>2, ShiftFacts
    <3>2. b = <<>>
      BY <1>5, <2>2, <3>1 DEF ListOf
    <3>3. s = fr
      BY <1>6, <1>7, <3>2
    <3>4. s \in Seq(X) /\ \A i \in DOMAIN s : ~TheStack!IsMark(s[i])
      BY <1>7, <3>3 DEF NoMarkIn
    <3> QED BY ONLY <3>4, ShiftToNone
  <2> QED BY <2>1, <2>2
<1>9. TheStack!After(Whole(runs, meta), CutAll(st)) = TheStack!Fail(CutAll(st))
  <2>1. TheStack!Exec(Stmt, Here, s, z) = TheStack!ShiftTo(Here, Stmt.body, s, z)
    BY <1>3 DEF TheStack!Exec
  <2> QED BY <1>3, <1>6, <1>8, <2>1
<1>10. Fails
  <2>1. /\ runs[1].g # 0 => Here.redirected
        /\ runs[1].g = 0 => meta = <<>>
    BY <1>1, <1>3, ShiftFacts
  <2> QED BY <2>1 DEF ExecShift
<1> QED BY <1>3, <1>9, <1>10, FailStack

\* A shift: ShiftTo.
LEMMA ExecShiftStack ==
  ASSUME NEW S, NEW exact, Allowed(S, exact), NEW v, NEW g, GoodAt(S, exact, runs, meta, st, v, g),
         ExecShift
  PROVE  TheStack!Next
<1>1. ControlAt("shift") /\ runs # <<>>
  BY DEF ExecShift, ControlAt, Going
<1>2. CASE HasReset(After, 1)
  <2>1. ~Here.redirected
    BY <1>1, <1>2, ShiftFacts
  <2> QED BY <1>2, <2>1, ShiftsStack
<1>3. CASE ~HasReset(After, 1)
  BY <1>3, ShiftFailsStack
<1> QED BY <1>2, <1>3

\* A variable holds a continuation or none, and the cut one is the same.
LEMMA CutHas ==
  ASSUME NEW S, NEW v, NEW g, NEW k \in Seq(Conts(S, v, g))
  PROVE  /\ Cut(k) = <<>> <=> k = <<>>
         /\ k # <<>> => Cut(k)[1].frames = Before(k[1].frames) /\ Cut(k)[1].vars = k[1].vars
<1>1. DOMAIN k = 1 .. Len(k) /\ Len(k) \in Nat
  OBVIOUS
<1>2. PICK X : X = {[c EXCEPT !.frames = Before(c.frames)] : c \in Conts(S, v, g)}
  OBVIOUS
<1>3. \A n \in DOMAIN k : k[n] \in Conts(S, v, g)
  OBVIOUS
<1>4. /\ DOMAIN Cut(k) = DOMAIN k
      /\ \A n \in DOMAIN k : Cut(k)[n] = [k[n] EXCEPT !.frames = Before(k[n].frames)]
  BY DEF Cut
<1>5. Cut(k) \in [1 .. Len(k) -> X]
  BY <1>1, <1>2, <1>3 DEF Cut
<1>6. Cut(k) \in Seq(X) /\ Len(Cut(k)) = Len(k)
  <2>1. Cut(k) \in Seq(X)
    BY ONLY <1>1, <1>5, SeqDef
  <2> QED BY <1>1, <1>4, <2>1
<1>7. Cut(k) = <<>> <=> k = <<>>
  BY <1>6
<1>8. ASSUME k # <<>>
      PROVE  Cut(k)[1].frames = Before(k[1].frames) /\ Cut(k)[1].vars = k[1].vars
  <2>1. 1 \in DOMAIN k
    BY <1>8
  <2>2. Cut(k)[1] = [k[1] EXCEPT !.frames = Before(k[1].frames)] /\ k[1] \in Conts(S, v, g)
    BY <1>3, <1>4, <2>1
  <2> QED BY <2>2 DEF Conts
<1> QED BY <1>7, <1>8

\* The call of a continuation puts its frames on a new mark: ResumeAt.
LEMMA ContCallStack ==
  ASSUME NEW S, NEW exact, Allowed(S, exact), NEW v, NEW g, GoodAt(S, exact, runs, meta, st, v, g),
         ContCall
  PROVE  TheStack!Next
<1>1. ControlAt("resume")
  BY DEF ContCall
<1>2. PICK b, t, k : b = Below(runs, meta, chain, 0, 0) /\ t = "resume" /\ k = After
  OBVIOUS
<1>3. /\ Whole(runs, meta) # <<>>
      /\ TheStack!After(Whole(runs, meta), CutAll(st)) = TheStack!Exec(Stmt, Here, Before(k) \o b, CutAll(st))
      /\ runs # <<>> /\ st.flow = Onward /\ st.flow # Failed
      /\ v \in Nat /\ g \in Nat /\ HasFields(st) /\ IsState(st, S, v, g)
      /\ runs \in Seq(Calls(S, v, g)) /\ meta \in Seq(Infos(S, v, g))
      /\ Stmt \in S /\ Stmt.t = "resume" /\ Here \in Contexts(v, g)
      /\ k \in Seq(Frames(S, v, g)) /\ Before(k) \in Seq(StackFrames(S, v, g))
      /\ b \in Seq(StackFrames(S, v, g)) /\ b = Below(runs, meta, k, 0, 0)
  <2>1. t \in {"reset", "shift", "resume", "to"} /\ ControlAt(t)
    BY <1>1, <1>2
  <2> QED BY <1>2, <2>1, ControlStack
<1>4. PICK y, z, hv, out, n, kk : /\ y = Before(k) \o b /\ z = CutAll(st) /\ hv = Here.vars
                                  /\ out = Here.out /\ n = Stmt.v /\ kk = st.vars[hv].k
  OBVIOUS
<1>5. hv \in 1 .. v /\ out \in 0 .. g /\ n \in Int
  BY <1>3, <1>4 DEF Contexts, Allowed, Statements
<1>6. kk \in Seq(Conts(S, v, g)) /\ z.vars[hv].k = Cut(kk)
  <2>1. v \in Nat /\ g \in Nat /\ IsState(st, S, v, g) /\ hv \in 1 .. v
    BY <1>3, <1>5
  <2>2. st.vars[hv].k \in Seq(Conts(S, v, g))
    BY ONLY <2>1, LocalTypes
  <2>3. CutAll(st).vars[hv].k = Cut(st.vars[hv].k)
    BY ONLY <2>1, CutVar
  <2> QED BY <1>4, <2>2, <2>3
<1>7. TheStack!Exec(Stmt, Here, y, z) = TheStack!ResumeAt(Here, n, y, z)
  BY <1>3, <1>4 DEF TheStack!Exec
<1>8. CASE kk = <<>>
  <2>1. TheStack!ResumeAt(Here, n, y, z) = TheStack!Fail(z)
    <3>1. Cut(kk) = <<>>
      BY <1>6, <1>8, CutHas
    <3>2. z.vars[Here.vars].k = <<>>
      BY <1>4, <1>6, <3>1
    <3> QED BY <3>2, Zenon DEF TheStack!ResumeAt
  <2>2. TheStack!After(Whole(runs, meta), CutAll(st)) = TheStack!Fail(CutAll(st))
    BY <1>3, <1>4, <1>7, <2>1
  <2>3. Fails
    BY <1>4, <1>8 DEF ContCall
  <2> QED BY <1>3, <2>2, <2>3, FailStack
<1>9. CASE kk # <<>>
  <2>1. PICK cont, cf, cv : cont = kk[1] /\ cf = cont.frames /\ cv = cont.vars
    OBVIOUS
  <2>2. cf \in Seq(Frames(S, v, g)) /\ HasReset(cf, 1) /\ cv \in 1 .. v
    BY <1>6, <1>9, <2>1 DEF Conts, Saved
  <2>3. PICK d, a : d = Retargeted(UpToReset(cf), out) /\ a = Retargeted(Before(cf), out)
    OBVIOUS
  <2>4. Before(d) = a /\ HasReset(d, 1) /\ d \in Seq(Frames(S, v, g))
    <3>1. cf \in Seq(Frames(S, v, g)) /\ HasReset(cf, 1) /\ out \in 0 .. g
      BY <1>5, <2>2
    <3>2. /\ Before(Retargeted(UpToReset(cf), out)) = Retargeted(Before(cf), out)
          /\ HasReset(Retargeted(UpToReset(cf), out), 1)
          /\ Retargeted(UpToReset(cf), out) \in Seq(Frames(S, v, g))
      BY ONLY <3>1, BeforeCalled
    <3> QED BY <2>3, <3>2
  <2>5. PICK x, m : x = ResetInfo(k, Here) /\ m = [f |-> "reset", sh |-> Here]
    OBVIOUS
  <2>6. x \in Infos(S, v, g) /\ x.k = k /\ x.sh = Here
    BY <1>3, <2>5 DEF Infos, ResetInfo
  <2>7. PICK os, ot : os = TurnTo(runs, d) /\ ot = <<x>> \o meta
    OBVIOUS
  <2>8. PICK e, u : e = [st EXCEPT !.vars[cv].i = n] /\ u = Status(e, 0)
    OBVIOUS
  <2>9. IsState(e, S, v, g) /\ e.flow = st.flow
    <3>1. v \in Nat /\ g \in Nat /\ IsState(st, S, v, g) /\ cv \in 1 .. v /\ n \in Int
      BY <1>3, <1>5, <2>2
    <3> QED BY ONLY <3>1, <2>8, SetsItem
  <2>10. HasFields(e) /\ HasFields(u) /\ u.flow = st.flow
    <3>1. HasFields(e)
      BY <2>9, StateHas
    <3>2. HasFields(u) /\ u.flow = e.flow
      BY <2>8, <3>1, CutStatus DEF Status, HasFields, StateFields
    <3> QED BY <2>9, <3>1, <3>2
  <2>11. runs' = os /\ meta' = ot /\ st' = u
    <3>1. ~(st.vars[Here.vars].k = <<>>)
      BY <1>4, <1>9
    <3>2. /\ meta' = <<ResetInfo(After, Here)>> \o meta
          /\ GoOn(Retargeted(UpToReset(st.vars[Here.vars].k[1].frames), Here.out))
          /\ st' = Status([st EXCEPT !.vars[st.vars[Here.vars].k[1].vars].i = Stmt.v], 0)
      BY <3>1 DEF ContCall
    <3> QED BY <1>2, <1>4, <2>1, <2>3, <2>5, <2>7, <2>8, <3>2 DEF GoOn, TurnTo
  <2>12. Whole(os, ot) = a \o (<<m>> \o y)
    <3>1. runs \in Seq(Calls(S, v, g)) /\ runs # <<>> /\ d \in Seq(Frames(S, v, g)) /\ os = TurnTo(runs, d)
      BY <1>3, <2>4, <2>7
    <3>2. os \in Seq(Calls(S, v, g)) /\ os # <<>> /\ Turned(os, runs, d)
      BY ONLY <3>1, TurnedIs
    <3>3. meta \in Seq(Infos(S, v, g)) /\ HasReset(d, 1) /\ x \in Infos(S, v, g) /\ OnTop(ot, x, meta)
      BY <1>3, <2>4, <2>6, <2>7 DEF OnTop
    <3>4. Whole(os, ot) = Before(d) \o (<<[f |-> "reset", sh |-> x.sh]>> \o (Before(x.k) \o Below(runs, meta, x.k, 0, 0)))
      BY ONLY <3>1, <3>2, <3>3, WholeAdded
    <3> QED BY <1>3, <1>4, <2>4, <2>5, <2>6, <3>4
  <2>13. (a \o <<m>>) \o y = a \o (<<m>> \o y)
    <3>1. PICK X, mm : X = StackFrames(S, v, g) /\ mm = <<m>>
      OBVIOUS
    <3>2. a \in Seq(X)
      BY <2>4, <3>1, Widened
    <3>3. m \in X
      BY <1>3, <2>5, <3>1 DEF StackFrames, ResetMarks
    <3>4. y \in Seq(X)
      <4>1. Before(k) \in Seq(X) /\ b \in Seq(X)
        BY <1>3, <3>1
      <4> QED BY ONLY <1>4, <4>1, Concat
    <3>5. mm \in Seq(X)
      BY <3>1, <3>3
    <3>6. (a \o mm) \o y = a \o (mm \o y)
      BY ONLY <3>2, <3>4, <3>5
    <3> QED BY <3>1, <3>6
  <2>14. CutAll(u) = Status([z EXCEPT !.vars[cv].i = n], 0)
    <3>1. v \in Nat /\ g \in Nat /\ IsState(st, S, v, g) /\ cv \in 1 .. v /\ n \in Int
      BY <1>3, <1>5, <2>2
    <3>2. CutAll([st EXCEPT !.vars[cv].i = n]) = [CutAll(st) EXCEPT !.vars[cv].i = n]
      BY ONLY <3>1, CutItem
    <3>3. Status(CutAll(e), 0) = CutAll(Status(e, 0))
      BY <2>10, CutStatus
    <3> QED BY <1>4, <2>8, <3>2, <3>3
  <2>15. PICK c : c = z.vars[hv].k[1]
    OBVIOUS
  <2>16. c.frames = Before(cf) /\ c.vars = cv /\ z.vars[hv].k # <<>>
    BY <1>6, <1>9, <2>1, <2>15, CutHas
  <2>17. TheStack!ResumeAt(Here, n, y, z) = TheStack!On((a \o <<m>>) \o y, CutAll(u))
    <3>1. TheStack!ResumeAt(Here, n, y, z)
            = TheStack!On((TheStack!Retargeted(c.frames, out) \o <<TheStack!ResetMark(Here)>>) \o y,
                          TheStack!Status([z EXCEPT !.vars[c.vars].i = n], 0))
      BY <1>4, <2>15, <2>16 DEF TheStack!ResumeAt
    <3>2. TheStack!Retargeted(c.frames, out) = a
      BY <2>3, <2>16, SameLists
    <3>3. TheStack!ResetMark(Here) = m
      BY <2>5 DEF TheStack!ResetMark
    <3>4. TheStack!Status([z EXCEPT !.vars[c.vars].i = n], 0) = CutAll(u)
      BY <2>14, <2>16, SameFrames
    <3> QED BY <3>1, <3>2, <3>3, <3>4
  <2>18. PICK s, w : s = a \o (<<m>> \o y) /\ w = CutAll(u)
    OBVIOUS
  <2>19. TheStack!After(Whole(runs, meta), CutAll(st)) = TheStack!On(s, w)
    BY <1>3, <1>4, <1>7, <2>13, <2>17, <2>18
  <2>20. Whole(runs, meta)' = s
    BY <2>11, <2>12, <2>18, WholeNext
  <2>21. CutAll(st)' = w /\ w.flow = st'.flow
    BY <2>10, <2>11, <2>18, CutAllIs
  <2> QED BY <1>3, <2>19, <2>20, <2>21, StackStep
<1> QED BY <1>8, <1>9

\* A statement with variable lists puts its mark on the stack: WithList.
LEMMA ExecRedirectedStack ==
  ASSUME NEW S, NEW exact, Allowed(S, exact), NEW v, NEW g, GoodAt(S, exact, runs, meta, st, v, g),
         ExecRedirected
  PROVE  TheStack!Next
<1>1. ControlAt("to")
  BY DEF ExecRedirected
<1>2. PICK b, t, k : b = Below(runs, meta, chain, 0, 0) /\ t = "to" /\ k = After
  OBVIOUS
<1>3. /\ Whole(runs, meta) # <<>>
      /\ TheStack!After(Whole(runs, meta), CutAll(st)) = TheStack!Exec(Stmt, Here, Before(k) \o b, CutAll(st))
      /\ runs # <<>> /\ st.flow = Onward /\ st.flow # Failed
      /\ v \in Nat /\ g \in Nat /\ HasFields(st) /\ IsState(st, S, v, g)
      /\ runs \in Seq(Calls(S, v, g)) /\ meta \in Seq(Infos(S, v, g))
      /\ Stmt \in S /\ Stmt.t = "to" /\ Here \in Contexts(v, g)
      /\ k \in Seq(Frames(S, v, g)) /\ Before(k) \in Seq(StackFrames(S, v, g))
      /\ b \in Seq(StackFrames(S, v, g)) /\ b = Below(runs, meta, k, 0, 0)
  <2>1. t \in {"reset", "shift", "resume", "to"} /\ ControlAt(t)
    BY <1>1, <1>2
  <2> QED BY <1>2, <2>1, ControlStack
<1>4. PICK h : h = g + 1
  OBVIOUS
<1>5. h \in Nat /\ g <= h /\ h # 0 /\ h \in 0 .. h /\ v <= v /\ Len(st.groups) = g
  BY <1>3, <1>4 DEF IsState
<1>6. /\ Here \in Contexts(v, h) /\ k \in Seq(Frames(S, v, h))
      /\ runs \in Seq(Calls(S, v, h)) /\ meta \in Seq(Infos(S, v, h))
  <2>1. /\ Contexts(v, g) \subseteq Contexts(v, h)
        /\ Seq(Frames(S, v, g)) \subseteq Seq(Frames(S, v, h))
    BY <1>3, <1>5, FramesMono
  <2>2. /\ Seq(Calls(S, v, g)) \subseteq Seq(Calls(S, v, h))
        /\ Seq(Infos(S, v, g)) \subseteq Seq(Infos(S, v, h))
    BY <1>3, <1>5, TypesMono
  <2> QED BY <1>3, <2>1, <2>2
<1>7. /\ Stmt.names \in Seq(STRING) /\ Stmt.rest \in BOOLEAN /\ <<Stmt.s>> \in Seq(S)
  BY <1>3 DEF Allowed, Statements, Inner
<1>8. PICK sh, script : sh = InGroup(Here, h) /\ script = <<Stmt.s>>
  OBVIOUS
<1>9. sh \in Contexts(v, h)
  BY <1>5, <1>6, <1>8 DEF InGroup, Contexts
<1>10. PICK z, m : z = Lines(sh, script) /\ m = [f |-> "list", sh |-> Here, g |-> h]
  OBVIOUS
<1>11. z \in Frames(S, v, h) /\ z.f = "lines" /\ z # ResetEnd
  <2>1. script \in Seq(S)
    BY <1>7, <1>8
  <2> QED BY <1>9, <1>10, <2>1 DEF Lines, LineFrames, Frames, ResetEnd
<1>12. PICK c : c = <<z>>
  OBVIOUS
<1>13. c \in Seq(Frames(S, v, h)) /\ ~HasReset(c, 1)
  BY <1>11, <1>12 DEF HasReset
<1>14. PICK r : r = [chain |-> c, g |-> h, sh |-> Here]
  OBVIOUS
<1>15. r \in Calls(S, v, h) /\ r.chain = c /\ ListOf(r) = <<m>>
  BY <1>5, <1>6, <1>10, <1>13, <1>14 DEF Calls, ListOf
<1>16. PICK ts, os, u : ts = TurnTo(runs, k) /\ os = <<r>> \o ts /\ u = NewGroup(st, Stmt)
  OBVIOUS
<1>17. runs' = os /\ meta' = meta /\ st' = u
  BY <1>2, <1>4, <1>5, <1>8, <1>10, <1>12, <1>14, <1>16 DEF ExecRedirected, TurnTo
<1>18. PICK y : y = Before(k) \o b
  OBVIOUS
<1>19. Whole(os, meta) = c \o (<<m>> \o y)
  <2>1. runs \in Seq(Calls(S, v, h)) /\ runs # <<>> /\ k \in Seq(Frames(S, v, h)) /\ ts = TurnTo(runs, k)
    BY <1>3, <1>6, <1>16
  <2>2. ts \in Seq(Calls(S, v, h)) /\ ts # <<>> /\ Turned(ts, runs, k)
    BY ONLY <2>1, TurnedIs
  <2>3. /\ meta \in Seq(Infos(S, v, h)) /\ r \in Calls(S, v, h) /\ ~HasReset(r.chain, 1)
        /\ OnTop(os, r, ts)
    BY <1>6, <1>13, <1>15, <1>16 DEF OnTop
  <2>5. IsBegun(S, v, h, runs, meta, k, r, ts, os)
    BY <1>15, <2>1, <2>2, <2>3 DEF IsBegun
  <2>6. IsPut(Whole(os, meta), r.chain, ListOf(r), Before(k) \o Below(runs, meta, k, 0, 0))
    BY ONLY <2>5, WholeBegun
  <2> QED BY <1>3, <1>15, <1>18, <2>6 DEF IsPut
<1>20. c \o (<<m>> \o y) = <<z, m>> \o y
  <2>1. PICK X, mm : X = StackFrames(S, v, h) \cup StackFrames(S, v, g) /\ mm = <<m>>
    OBVIOUS
  <2>2. z \in X /\ m \in X
    BY <1>5, <1>6, <1>10, <1>11, <2>1 DEF StackFrames, ListMarks
  <2>3. c \in Seq(X) /\ mm \in Seq(X)
    BY <1>12, <2>1, <2>2
  <2>4. y \in Seq(X)
    <3>1. Before(k) \in Seq(X) /\ b \in Seq(X)
      BY <1>3, <2>1, SeqMono
    <3> QED BY ONLY <1>18, <3>1, Concat
  <2>5. c \o mm = <<z, m>>
    BY <1>12, <2>1, PairIs
  <2>6. (c \o mm) \o y = c \o (mm \o y)
    BY ONLY <2>3, <2>4
  <2> QED BY <2>1, <2>5, <2>6
<1>21. TheStack!Exec(Stmt, Here, y, CutAll(st)) = TheStack!On(<<z, m>> \o y, CutAll(u))
  <2>1. TheStack!Exec(Stmt, Here, y, CutAll(st)) = TheStack!WithList(Here, Stmt, y, CutAll(st))
    BY <1>3 DEF TheStack!Exec
  <2>2. NewGroup(CutAll(st), Stmt) = CutAll(u) /\ Len(CutAll(st).groups) + 1 = h
    <3>1. v \in Nat /\ g \in Nat /\ IsState(st, S, v, g)
      BY <1>3
    <3>2. NewGroup(CutAll(st), Stmt) = CutAll(NewGroup(st, Stmt)) /\ Len(CutAll(st).groups) = Len(st.groups)
      BY ONLY <3>1, CutNewGroup
    <3> QED BY <1>4, <1>5, <1>16, <3>2
  <2>3. PICK e : e = CutAll(st)
    OBVIOUS
  <2>4. TheStack!Lines(TheStack!InGroup(Here, h), <<Stmt.s>>) = z
    BY <1>8, <1>10, SameFrames, SameLists
  <2>5. TheStack!ListMark(Here, h) = m
    BY <1>10 DEF TheStack!ListMark
  <2>6. TheStack!NewGroup(e, Stmt) = CutAll(u) /\ Len(e.groups) + 1 = h
    BY <2>2, <2>3, SameLists
  <2>7. TheStack!WithList(Here, Stmt, y, e) = TheStack!On(<<z, m>> \o y, CutAll(u))
    BY ONLY <2>4, <2>5, <2>6 DEF TheStack!WithList
  <2> QED BY <2>1, <2>3, <2>7
<1>22. HasFields(u) /\ u.flow = st.flow
  <2>1. IsState(u, S, v, g + 1) /\ u.flow = st.flow
    <3>1. /\ v \in Nat /\ g \in Nat /\ IsState(st, S, v, g)
          /\ Stmt.names \in Seq(STRING) /\ Stmt.rest \in BOOLEAN /\ u = NewGroup(st, Stmt)
      BY <1>3, <1>7, <1>16
    <3> QED BY ONLY <3>1, AddsGroup
  <2> QED BY <2>1, StateHas
<1>23. PICK w, s : w = CutAll(u) /\ s = <<z, m>> \o y
  OBVIOUS
<1>24. CutAll(st)' = w /\ w.flow = st'.flow
  BY <1>17, <1>22, <1>23, CutAllIs
<1>25. TheStack!After(Whole(runs, meta), CutAll(st)) = TheStack!On(s, w)
  BY <1>3, <1>18, <1>21, <1>23
<1>26. Whole(runs, meta)' = s
  BY <1>17, <1>19, <1>20, <1>23, WholeNext
<1> QED BY <1>3, <1>24, <1>25, <1>26, StackStep

\* Nothing is seen of a step.
Stays == Stack' = Stack /\ CutAll(st)' = CutAll(st)

\* What is left when the Chain of the innermost run has no end of a reset.
LEMMA StackEnd ==
  ASSUME NEW S, NEW exact, NEW v, NEW g, GoodAt(S, exact, runs, meta, st, v, g), runs # <<>>,
         ~HasReset(chain, 1), NEW b, b = Below(runs, meta, chain, 0, 0), NEW o, o = Outer(runs, meta, 0)
  PROVE  /\ Whole(runs, meta) = chain \o b
         /\ IsEnd(S, v, g, runs, meta, b, o)
         /\ chain \in Seq(Frames(S, v, g)) /\ runs[1] \in Calls(S, v, g)
         /\ runs \in Seq(Calls(S, v, g)) /\ meta \in Seq(Infos(S, v, g))
         /\ v \in Nat /\ g \in Nat /\ IsState(st, S, v, g) /\ HasFields(st)
         /\ runs[1].g = 0 => Len(runs) = 1 /\ Tail(runs) = <<>>
<1>1. /\ Whole(runs, meta) = Before(chain) \o b
      /\ chain \in Seq(Frames(S, v, g)) /\ runs[1] \in Calls(S, v, g)
      /\ runs \in Seq(Calls(S, v, g)) /\ meta \in Seq(Infos(S, v, g))
      /\ v \in Nat /\ g \in Nat /\ IsState(st, S, v, g) /\ HasFields(st)
  BY StackNow
<1>2. Before(chain) = chain
  BY <1>1, BeforeIs
<1>3. PICK c : c = chain
  OBVIOUS
<1>4. /\ runs \in Seq(Calls(S, v, g)) /\ runs # <<>> /\ meta \in Seq(Infos(S, v, g))
      /\ c \in Seq(Frames(S, v, g)) /\ ~HasReset(c, 1)
      /\ b = Below(runs, meta, c, 0, 0) /\ o = Outer(runs, meta, 0)
  BY <1>1, <1>3
<1>5. IsEnd(S, v, g, runs, meta, b, o)
  BY ONLY <1>4, EndIs
<1>6. ASSUME runs[1].g = 0
      PROVE  Len(runs) = 1 /\ Tail(runs) = <<>>
  <2>1. 1 \in DOMAIN runs
    BY <1>1
  <2>2. Len(runs) = 1
    BY <1>6, <2>1 DEF GoodAt
  <2>3. PICK t, X : t = runs /\ X = Calls(S, v, g)
    OBVIOUS
  <2>4. t \in Seq(X) /\ t # <<>> /\ Len(t) = 1
    BY <1>1, <2>2, <2>3
  <2>5. Tail(t) = <<>>
    <3>1. PICK q : q = Tail(t)
      OBVIOUS
    <3>2. q \in Seq(X) /\ Len(q) = 0
      BY ONLY <2>4, <3>1, TailIsDrop
    <3> QED BY ONLY <3>1, <3>2
  <2> QED BY <2>2, <2>3, <2>5
<1> QED BY <1>1, <1>2, <1>5, <1>6

\* The end of a run takes it off; nothing is seen of the end of the last one.
LEMMA RunEndsStack ==
  ASSUME NEW S, NEW exact, Allowed(S, exact), NEW v, NEW g, GoodAt(S, exact, runs, meta, st, v, g),
         RunEnds
  PROVE  TheStack!Next \/ Stays
<1>1. runs # <<>> /\ st.flow = Onward /\ chain = <<>> /\ runs' = Tail(runs) /\ meta' = meta
  BY DEF RunEnds, Going
<1>2. ~HasReset(chain, 1)
  BY <1>1 DEF HasReset
<1>3. PICK b, o, z : b = Below(runs, meta, chain, 0, 0) /\ o = Outer(runs, meta, 0) /\ z = CutAll(st)
  OBVIOUS
<1>4. /\ Whole(runs, meta) = chain \o b
      /\ IsEnd(S, v, g, runs, meta, b, o)
      /\ chain \in Seq(Frames(S, v, g)) /\ runs[1] \in Calls(S, v, g)
      /\ runs \in Seq(Calls(S, v, g)) /\ meta \in Seq(Infos(S, v, g))
      /\ v \in Nat /\ g \in Nat /\ IsState(st, S, v, g) /\ HasFields(st)
      /\ runs[1].g = 0 => Len(runs) = 1 /\ Tail(runs) = <<>>
  BY <1>1, <1>2, <1>3, StackEnd
<1>5. z.flow = Onward /\ st.flow # Failed
  BY <1>1, <1>3, <1>4, CutAllIs, OnwardIs
<1>6. Whole(runs, meta)' = Whole(Tail(runs), meta)
  <2>1. PICK ts : ts = Tail(runs)
    OBVIOUS
  <2>2. runs' = ts /\ meta' = meta
    BY <1>1, <2>1
  <2> QED BY <2>1, <2>2, WholeNext
<1>7. CASE runs[1].g = 0
  <2>1. b = <<>>
    BY <1>4, <1>7 DEF IsEnd, ListOf
  <2>2. Whole(runs, meta) = <<>>
    BY <1>1, <1>4, <2>1
  <2>3. Whole(Tail(runs), meta) = <<>>
    BY <1>4, <1>7 DEF IsEnd
  <2>4. st' = st
    BY <1>7 DEF RunEnds
  <2>5. Stack' = Stack
    BY <1>5, <1>6, <2>2, <2>3, <2>4, StackIs
  <2> QED BY <2>4, <2>5 DEF Stays
<1>8. CASE runs[1].g # 0
  <2>1. PICK m, n, sh : m = [f |-> "list", sh |-> runs[1].sh, g |-> runs[1].g] /\ n = runs[1].g /\ sh = runs[1].sh
    OBVIOUS
  <2>2. m.sh = sh /\ m.g = n /\ TheStack!IsMark(m) /\ TheStack!IsList(m)
    BY <2>1 DEF TheStack!IsMark, TheStack!IsList
  <2>3. b = <<m>> \o o /\ m \in StackFrames(S, v, g) /\ o \in Seq(StackFrames(S, v, g))
    BY <1>4, <1>8, <2>1 DEF IsEnd
  <2>4. b \in Seq(StackFrames(S, v, g))
    BY <2>3
  <2>5. Whole(runs, meta) = <<m>> \o o
    BY <1>1, <1>4, <2>3, <2>4
  <2>6. TheStack!After(<<m>> \o o, z) = TheStack!StepOf(m, o, z) /\ <<m>> \o o # <<>>
    <3>1. PICK X : X = StackFrames(S, v, g)
      OBVIOUS
    <3>2. m \in X /\ o \in Seq(X) /\ z.flow = Onward
      BY <1>5, <2>3, <3>1
    <3> QED BY ONLY <3>2, FirstTaken
  <2>7. PICK u : u = CaptureAssign(st, sh, n)
    OBVIOUS
  <2>8. CaptureAssign(z, sh, n) = CutAll(u) /\ HasFields(u) /\ u.flow = st.flow
    <3>1. sh \in Contexts(v, g) /\ n \in 1 .. g
      BY <1>4, <1>8, <2>1 DEF Calls
    <3>2. v \in Nat /\ g \in Nat /\ IsState(st, S, v, g)
      BY <1>4
    <3>4. /\ v \in Nat /\ g \in Nat /\ IsState(st, S, v, g)
          /\ sh \in Contexts(v, g) /\ n \in 1 .. g
      BY <3>1, <3>2
    <3>3. /\ CaptureAssign(CutAll(st), sh, n) = CutAll(CaptureAssign(st, sh, n))
          /\ HasFields(CaptureAssign(st, sh, n)) /\ CaptureAssign(st, sh, n).flow = st.flow
      BY ONLY <3>4, CutAssign
    <3> QED BY <1>3, <2>7, <3>3
  <2>9. TheStack!StepOf(m, o, z) = TheStack!On(o, CutAll(u))
    <3>1. TheStack!StepOf(m, o, z) = TheStack!LeaveMark(m, o, z)
      BY <2>2, Zenon DEF TheStack!StepOf
    <3>2. TheStack!LeaveMark(m, o, z) = TheStack!On(o, TheStack!CaptureAssign(z, sh, n))
      BY <2>2 DEF TheStack!LeaveMark
    <3> QED BY <2>8, <3>1, <3>2, SameLists
  <2>10. st' = u
    BY <1>8, <2>1, <2>7 DEF RunEnds
  <2>11. PICK w : w = CutAll(u)
    OBVIOUS
  <2>12. CutAll(st)' = w /\ w.flow = st'.flow
    BY <2>8, <2>10, <2>11, CutAllIs
  <2>13. Whole(runs, meta)' = o
    BY <1>4, <1>6 DEF IsEnd
  <2>14. /\ TheStack!After(Whole(runs, meta), CutAll(st)) = TheStack!On(o, w)
         /\ Whole(runs, meta) # <<>>
    BY <1>3, <2>5, <2>6, <2>9, <2>11
  <2> QED BY <1>5, <2>12, <2>13, <2>14, StackStep
<1> QED BY <1>7, <1>8

\* Where a flow lands: no end of a reset lies before.
LEMMA LandsAt ==
  ASSUME NEW S, NEW exact, NEW v, NEW g, GoodAt(S, exact, runs, meta, st, v, g), Lands
  PROVE  /\ Place \in 1 .. Len(chain) /\ Ends(chain[Place], st.flow)
         /\ \A m \in DOMAIN chain : Ends(chain[m], st.flow) => Place <= m
         /\ \A m \in 1 .. Place : chain[m] # ResetEnd
         /\ ResetEnds(SubSeq(chain, 1, Place)) = 0
<1>1. runs # <<>> /\ st.flow # Onward /\ Place # 0
  BY DEF Lands
<1>2. v \in Nat /\ g \in Nat /\ IsState(st, S, v, g) /\ v <= v /\ g <= g /\ runs \in Seq(Calls(S, v, g))
  BY DEF GoodAt
<1>3. PICK F, p : F = Frames(S, v, g) /\ p = Place
  OBVIOUS
<1>4. chain \in Seq(F) /\ DOMAIN chain = 1 .. Len(chain) /\ Len(chain) \in Nat
  <2>1. \E last : Piece(Frames(S, v, g), exact, chain, last[1], runs[1].g, Reached(runs, 2))
    BY <1>1, <1>2, Begins
  <2> QED BY <1>3, <2>1 DEF Piece
<1>5. /\ p \in 1 .. Len(chain) /\ Ends(chain[p], st.flow)
      /\ \A m \in DOMAIN chain : Ends(chain[m], st.flow) => p <= m
  BY <1>1, <1>3, <1>4, PlaceIsFirst
<1>6. st.flow \in Flows
  <2>1. st.flow \in AllFlows
    BY <1>2, HasTypes
  <2>2. st.flow.k \in {"return", "break", "continue"}
    BY <1>5 DEF Ends
  <2> QED BY <1>1, <2>1, <2>2, OnwardIs DEF AllFlows
<1>7. Covers(chain, Reached(runs, 2), st.flow)
  <2>1. st.flow \in Reached(runs, 1)
    BY <1>6 DEF GoodAt
  <2> QED BY <1>1, <1>2, <1>6, <2>1, ReachedSplit DEF chain
<1>8. ASSUME NEW m \in 1 .. p PROVE chain[m] # ResetEnd
  <2>1. CASE ReachIn(chain, 1, st.flow)
    <3>1. PICK y \in DOMAIN chain : Ends(chain[y], st.flow) /\ \A x \in 1 .. y : chain[x] # ResetEnd
      BY <2>1 DEF ReachIn
    <3>2. m \in 1 .. y
      BY <1>4, <1>5, <3>1
    <3> QED BY <3>1, <3>2
  <2>2. CASE ~HasReset(chain, 1)
    <3>1. m \in DOMAIN chain /\ m >= 1
      BY <1>4, <1>5
    <3> QED BY <2>2, <3>1 DEF HasReset
  <2> QED BY <1>7, <2>1, <2>2 DEF Covers
<1>9. ResetEnds(SubSeq(chain, 1, p)) = 0
  <2>1. PICK a : a = SubSeq(chain, 1, p)
    OBVIOUS
  <2>2. a \in Seq(F) /\ DOMAIN a = 1 .. p /\ \A m \in 1 .. p : a[m] = chain[m]
    BY <1>4, <1>5, <2>1
  <2>3. ~HasReset(a, 1)
    BY <1>8, <2>2 DEF HasReset
  <2> QED BY <2>1, <2>2, <2>3, Counted
<1> QED BY <1>3, <1>5, <1>8, <1>9

\* A Chain around its frame p, before which no reset ends.
Splits(F, c, p, a, m, d) ==
  /\ a \in Seq(F) /\ Len(a) = p - 1 /\ \A i \in 1 .. p - 1 : a[i] = c[i]
  /\ m \in F /\ d \in Seq(F)
  /\ Before(c) = a \o (<<m>> \o Before(d)) /\ (HasReset(c, 1) <=> HasReset(d, 1))
\* The frame m is the p-th one of c, a before it and d after.
IsSplit(F, c, p, a, m, d) ==
  /\ c \in Seq(F) /\ p \in 1 .. Len(c) /\ \A i \in 1 .. p : c[i] # ResetEnd
  /\ a = SubSeq(c, 1, p - 1) /\ m = c[p] /\ d = Drop(c, p)

LEMMA ChainAround ==
  ASSUME NEW F, NEW c, NEW p, NEW a, NEW m, NEW d, IsSplit(F, c, p, a, m, d)
  PROVE  Splits(F, c, p, a, m, d)
<1>0. /\ c \in Seq(F) /\ p \in 1 .. Len(c) /\ \A i \in 1 .. p : c[i] # ResetEnd
      /\ a = SubSeq(c, 1, p - 1) /\ m = c[p] /\ d = Drop(c, p)
  BY DEF IsSplit
<1> USE <1>0
<1>1. /\ Len(c) \in Nat /\ p \in Nat /\ p >= 1 /\ p <= Len(c) /\ DOMAIN c = 1 .. Len(c)
      /\ p - 1 \in 0 .. Len(c) /\ p \in 0 .. Len(c) /\ c[p] \in F
  OBVIOUS
<1>2. PICK n, e : n = p - 1 /\ e = Drop(c, n)
  OBVIOUS
<1>3. /\ e \in Seq(F) /\ Len(e) = Len(c) - n /\ \A j \in 1 .. Len(c) - n : e[j] = c[n + j]
      /\ a \in Seq(F) /\ c = a \o e
  <2>1. n \in 0 .. Len(c) /\ a = SubSeq(c, 1, n)
    BY <1>1, <1>2, Zenon
  <2>2. /\ Drop(c, n) \in Seq(F) /\ Len(Drop(c, n)) = Len(c) - n
        /\ \A j \in 1 .. Len(c) - n : Drop(c, n)[j] = c[n + j]
        /\ SubSeq(c, 1, n) \in Seq(F) /\ c = SubSeq(c, 1, n) \o Drop(c, n)
    BY <2>1, Dropped
  <2> QED BY <1>2, <2>1, <2>2
<1>4. Len(a) = n /\ \A i \in 1 .. n : a[i] = c[i]
  <2>1. n \in 0 .. Len(c) /\ a = SubSeq(c, 1, n) /\ c \in Seq(F)
    BY <1>1, <1>2, Zenon
  <2> QED BY ONLY <2>1
<1>5. /\ d \in Seq(F) /\ Len(d) = Len(c) - p /\ \A j \in 1 .. Len(c) - p : d[j] = c[p + j]
  <2>1. p \in 0 .. Len(c) /\ c \in Seq(F)
    BY <1>1
  <2>2. /\ Drop(c, p) \in Seq(F) /\ Len(Drop(c, p)) = Len(c) - p
        /\ \A j \in 1 .. Len(c) - p : Drop(c, p)[j] = c[p + j]
    BY ONLY <2>1, Dropped
  <2> QED BY <2>2, Zenon
<1>6. PICK q : q = <<c[p]>>
  OBVIOUS
<1>7. q \in Seq(F) /\ Len(q) = 1 /\ q[1] = c[p]
  BY <1>1, <1>6
<1>8. e = q \o d
  <2>1. Len(e) = Len(c) - p + 1 /\ 1 <= Len(e) /\ Len(d) = Len(e) - 1 /\ 1 \in Nat
    <3>1. PICK x, y, z : x = Len(c) /\ y = Len(e) /\ z = Len(d)
      OBVIOUS
    <3>2. x \in Nat /\ p \in Nat /\ p <= x /\ n = p - 1 /\ y = x - n /\ z = x - p
      BY <1>1, <1>2, <1>3, <1>5, <3>1, Zenon
    <3>3. y = x - p + 1 /\ 1 <= y /\ z = y - 1 /\ 1 \in Nat
      BY ONLY <3>2
    <3> QED BY <3>1, <3>3, Zenon
  <2>2. \A j \in 1 .. 1 : q[j] = e[j]
    <3>1. e[1] = c[n + 1] /\ n + 1 = p
      BY <1>1, <1>2, <1>3
    <3> QED BY <1>7, <3>1
  <2>3. \A j \in 1 .. Len(e) - 1 : d[j] = e[1 + j]
    <3> SUFFICES ASSUME NEW j \in 1 .. Len(e) - 1 PROVE d[j] = e[1 + j]
      OBVIOUS
    <3>1. j \in 1 .. Len(c) - p /\ 1 + j \in 1 .. Len(c) - n /\ n + (1 + j) = p + j
      BY <1>1, <1>2, <2>1
    <3> QED BY <1>3, <1>5, <3>1
  <2>4. e \in Seq(F) /\ q \in Seq(F) /\ d \in Seq(F) /\ Len(q) = 1
    BY <1>3, <1>5, <1>7
  <2>5. PICK w : w = 1
    OBVIOUS
  <2>6. /\ w \in Nat /\ w <= Len(e) /\ Len(q) = w /\ Len(d) = Len(e) - w
        /\ \A j \in 1 .. w : q[j] = e[j]
        /\ \A j \in 1 .. Len(e) - w : d[j] = e[w + j]
    BY <2>1, <2>2, <2>3, <2>4, <2>5
  <2> QED BY ONLY <2>4, <2>6, Joined
<1>9. Before(e) = q \o Before(d) /\ (HasReset(e, 1) <=> HasReset(d, 1))
  <2>1. \A i \in DOMAIN q : q[i] # ResetEnd
    BY <1>1, <1>6
  <2> QED BY <1>5, <1>7, <1>8, <2>1, BeforeJoin
<1>10. Before(c) = a \o Before(e) /\ (HasReset(c, 1) <=> HasReset(e, 1))
  <2>1. \A i \in DOMAIN a : a[i] # ResetEnd
    <3>1. DOMAIN a = 1 .. n
      BY <1>1, <1>2, <1>3, <1>4
    <3>2. \A i \in 1 .. n : c[i] # ResetEnd
      BY <1>0, <1>1, <1>2
    <3> QED BY <1>4, <3>1, <3>2
  <2>2. a \in Seq(F) /\ e \in Seq(F)
    BY <1>3
  <2>3. Before(a \o e) = a \o Before(e) /\ (HasReset(a \o e, 1) <=> HasReset(e, 1))
    BY ONLY <2>1, <2>2, BeforeJoin
  <2>4. c = a \o e
    BY <1>3
  <2> QED BY ONLY <2>3, <2>4
<1>11. a \in Seq(F) /\ Len(a) = p - 1 /\ m \in F /\ d \in Seq(F)
  BY <1>0, <1>1, <1>2, <1>3, <1>4, <1>5
<1>12. \A i \in 1 .. p - 1 : a[i] = c[i]
  BY ONLY <1>2, <1>4
<1>13. Before(c) = a \o (<<m>> \o Before(d)) /\ (HasReset(c, 1) <=> HasReset(d, 1))
  <2>1. q = <<m>>
    BY <1>6
  <2> QED BY ONLY <1>9, <1>10, <2>1
<1> QED BY ONLY <1>11, <1>12, <1>13 DEF Splits

\* The flow goes through a.
NoStopIn(a, flow) == \A i \in DOMAIN a : ~StopsAt(a[i], flow)

\* What a flow does to a stack that has its frame, or the mark of a list.
LEMMA UnwindTo ==
  ASSUME NEW X, NEW a \in Seq(X), NEW m \in X, NEW r \in Seq(X), NEW s, IsAround(s, a, m, r),
         NEW z, z.flow # Onward, NoStopIn(a, z.flow), StopsAt(m, z.flow)
  PROVE  /\ s # <<>>
         /\ TheStack!IsList(m) => TheStack!After(s, z) = TheStack!On(r, Caught(z, m.sh, m.g))
         /\ ~TheStack!IsList(m) => TheStack!After(s, z) = TheStack!On(Landing(m, z.flow) \o r, Landed(z))
<1>1. PICK n, flow : n = Len(a) + 1 /\ flow = z.flow
  OBVIOUS
<1>2. s = a \o (<<m>> \o r)
  BY DEF IsAround
<1>3. /\ s \in Seq(X) /\ n \in DOMAIN s /\ s[n] = m /\ n # 0
      /\ SubSeq(s, n + 1, Len(s)) = r
      /\ \A i \in 1 .. n - 1 : i \in DOMAIN a /\ s[i] = a[i]
  BY <1>1, <1>2, Around
<1>4. FirstStop(s, flow) = n
  <2>1. StopsAt(s[n], flow) /\ \A i \in 1 .. n - 1 : ~StopsAt(s[i], flow)
    BY <1>1, <1>3 DEF NoStopIn
  <2> QED BY <1>3, <2>1, FirstStopIs
<1>5. s # <<>>
  BY <1>3
<1>6. TheStack!After(s, z) = TheStack!Unwind(s, z)
  BY SameFrames DEF TheStack!After
<1>7. PICK j, rest : j = FirstStop(s, z.flow) /\ rest = SubSeq(s, j + 1, Len(s))
  OBVIOUS
<1>8. j = n /\ s[j] = m /\ rest = r /\ j # 0
  BY <1>1, <1>3, <1>4, <1>7
<1>9. TheStack!Unwind(s, z) =
        CASE j = 0 -> TheStack!On(<<>>, z)
          [] j # 0 /\ TheStack!IsList(s[j]) -> TheStack!On(rest, TheStack!Caught(z, s[j].sh, s[j].g))
          [] OTHER -> TheStack!On(TheStack!Landing(s[j], z.flow) \o rest, TheStack!Landed(z))
  BY <1>7, Zenon DEF TheStack!Unwind, FirstStop
<1>10. TheStack!IsList(m) => TheStack!Unwind(s, z) = TheStack!On(r, TheStack!Caught(z, m.sh, m.g))
  BY ONLY <1>8, <1>9
<1>11. ~TheStack!IsList(m) =>
         TheStack!Unwind(s, z) = TheStack!On(TheStack!Landing(m, z.flow) \o r, TheStack!Landed(z))
  BY ONLY <1>8, <1>9
<1> QED BY <1>5, <1>6, <1>10, <1>11, SameLists, SameFlows

\* ... and to one that has neither.
LEMMA UnwindAll ==
  ASSUME NEW X, NEW s \in Seq(X), NEW z, z.flow # Onward, NoStopIn(s, z.flow)
  PROVE  TheStack!After(s, z) = TheStack!On(<<>>, z)
<1>1. PICK flow : flow = z.flow
  OBVIOUS
<1>2. FirstStop(s, flow) = 0
  BY <1>1, FirstStopIs DEF NoStopIn
<1>3. TheStack!After(s, z) = TheStack!Unwind(s, z)
  BY SameFrames DEF TheStack!After
<1>4. PICK j, rest : j = FirstStop(s, z.flow) /\ rest = SubSeq(s, j + 1, Len(s))
  OBVIOUS
<1>5. TheStack!Unwind(s, z) =
        CASE j = 0 -> TheStack!On(<<>>, z)
          [] j # 0 /\ TheStack!IsList(s[j]) -> TheStack!On(rest, TheStack!Caught(z, s[j].sh, s[j].g))
          [] OTHER -> TheStack!On(TheStack!Landing(s[j], z.flow) \o rest, TheStack!Landed(z))
  BY <1>4, Zenon DEF TheStack!Unwind, FirstStop
<1>6. j = 0
  BY <1>1, <1>2, <1>4
<1> QED BY ONLY <1>3, <1>5, <1>6

\* A flow ends at its frame: Unwind.
LEMMA LandsStack ==
  ASSUME NEW S, NEW exact, Allowed(S, exact), NEW v, NEW g, GoodAt(S, exact, runs, meta, st, v, g),
         Lands
  PROVE  TheStack!Next
<1>1. runs # <<>> /\ st.flow # Onward
  BY DEF Lands
<1>2. PICK p, flow, b, z : /\ p = Place /\ flow = st.flow /\ b = Below(runs, meta, chain, 0, 0)
                           /\ z = CutAll(st)
  OBVIOUS
<1>3. /\ Whole(runs, meta) = Before(chain) \o b
      /\ chain \in Seq(Frames(S, v, g))
      /\ runs \in Seq(Calls(S, v, g)) /\ meta \in Seq(Infos(S, v, g))
      /\ v \in Nat /\ g \in Nat /\ IsState(st, S, v, g) /\ HasFields(st)
      /\ HasReset(chain, 1) => meta # <<>>
  BY <1>1, <1>2, StackNow
<1>4. /\ p \in 1 .. Len(chain) /\ Ends(chain[p], flow)
      /\ \A m \in DOMAIN chain : Ends(chain[m], flow) => p <= m
      /\ \A m \in 1 .. p : chain[m] # ResetEnd
      /\ ResetEnds(SubSeq(chain, 1, p)) = 0
  BY <1>2, LandsAt
<1>5. PICK a, d, m, k : a = SubSeq(chain, 1, p - 1) /\ d = Drop(chain, p) /\ m = chain[p] /\ k = chain
  OBVIOUS
<1>6. /\ a \in Seq(Frames(S, v, g)) /\ Len(a) = p - 1 /\ \A i \in 1 .. p - 1 : a[i] = k[i]
      /\ m \in Frames(S, v, g) /\ d \in Seq(Frames(S, v, g))
      /\ Before(k) = a \o (<<m>> \o Before(d)) /\ (HasReset(k, 1) <=> HasReset(d, 1))
  <2>1. PICK F : F = Frames(S, v, g)
    OBVIOUS
  <2>2. IsSplit(F, k, p, a, m, d)
    BY <1>3, <1>4, <1>5, <2>1 DEF IsSplit
  <2>3. Splits(F, k, p, a, m, d)
    BY ONLY <2>2, ChainAround
  <2> QED BY <2>1, <2>3 DEF Splits
<1>7. PICK X, e, r : X = StackFrames(S, v, g) /\ e = Before(d) /\ r = e \o b
  OBVIOUS
<1>8. /\ a \in Seq(X) /\ m \in X /\ e \in Seq(X) /\ b \in Seq(X) /\ r \in Seq(X)
  <2>1. a \in Seq(X) /\ e \in Seq(X)
    BY <1>6, <1>7, Widened
  <2>2. b \in Seq(X)
    <3>1. PICK i, c : i = 0 /\ c = chain
      OBVIOUS
    <3>2. i \in 0 .. Len(meta) /\ i \in Nat /\ i < Len(runs) /\ c \in Seq(Frames(S, v, g))
      BY <1>1, <1>3, <3>1
    <3>3. runs \in Seq(Calls(S, v, g)) /\ meta \in Seq(Infos(S, v, g))
      BY <1>3
    <3>4. Below(runs, meta, c, i, i) \in Seq(StackFrames(S, v, g))
      BY ONLY <3>2, <3>3, BelowType
    <3> QED BY <1>2, <1>7, <3>1, <3>4
  <2>3. r \in Seq(X)
    BY ONLY <1>7, <2>1, <2>2, Concat
  <2>4. m \in X
    BY <1>6, <1>7 DEF StackFrames
  <2> QED BY <2>1, <2>2, <2>3, <2>4
<1>9. IsAround(Whole(runs, meta), a, m, r)
  <2>1. PICK q : q = <<m>>
    OBVIOUS
  <2>2. q \in Seq(X)
    BY <1>8, <2>1
  <2>3. (a \o (q \o e)) \o b = a \o (q \o (e \o b))
    BY ONLY <1>8, <2>2
  <2> QED BY <1>3, <1>5, <1>6, <1>7, <2>1, <2>3 DEF IsAround
<1>10. z.flow = flow /\ z.flow # Onward /\ flow # Failed /\ st.flow # Failed
  <2>1. z.flow = st.flow
    BY <1>2, <1>3, CutAllIs
  <2>2. st.flow.k \in {"return", "break", "continue"}
    BY <1>2, <1>4 DEF Ends
  <2> QED BY <1>1, <1>2, <2>1, <2>2, OnwardIs
<1>11. NoStopIn(a, z.flow) /\ StopsAt(m, z.flow) /\ ~TheStack!IsList(m)
  <2>1. StopsAt(m, z.flow) /\ ~TheStack!IsList(m)
    BY <1>4, <1>5, <1>6, <1>10, NoMark DEF StopsAt
  <2>2. ASSUME NEW i \in DOMAIN a PROVE ~StopsAt(a[i], z.flow)
    <3>1. i \in 1 .. p - 1 /\ i \in DOMAIN chain /\ ~(p <= i)
      BY <1>3, <1>4, <1>6, <2>2
    <3>2. a[i] = chain[i]
      BY <1>5, <1>6, <3>1
    <3>3. ~Ends(a[i], z.flow)
      BY <1>4, <1>10, <3>1, <3>2
    <3>4. a[i] \in Frames(S, v, g)
      BY <1>6, <2>2
    <3> QED BY <3>3, <3>4, NoMark DEF StopsAt
  <2> QED BY <2>1, <2>2 DEF NoStopIn
<1>12. PICK l, c, u : l = Landing(m, flow) /\ c = l \o d /\ u = Landed(st)
  OBVIOUS
<1>13. l \in Seq(Frames(S, v, g)) /\ NoEnds(l)
  <2>1. m # ResetEnd
    BY <1>4, <1>5
  <2>2. l \in {<<>>, <<m>>}
    BY <1>12 DEF Landing
  <2>3. CASE l = <<>>
    BY <2>3 DEF NoEnds
  <2>4. CASE l = <<m>>
    BY <1>6, <2>1, <2>4 DEF NoEnds
  <2> QED BY <2>2, <2>3, <2>4
<1>14. /\ Whole(runs, meta) # <<>>
       /\ TheStack!After(Whole(runs, meta), z) = TheStack!On(l \o r, CutAll(u))
  <2>1. PICK s : s = Whole(runs, meta)
    OBVIOUS
  <2>2. IsAround(s, a, m, r) /\ z.flow # Onward
    BY <1>9, <1>10, <2>1
  <2>3. /\ s # <<>>
        /\ ~TheStack!IsList(m) => TheStack!After(s, z) = TheStack!On(Landing(m, z.flow) \o r, Landed(z))
    BY ONLY <1>8, <1>11, <2>2, UnwindTo
  <2>4. Landed(z) = CutAll(u)
    BY <1>2, <1>3, <1>12, CutLanded
  <2> QED BY <1>10, <1>11, <1>12, <2>1, <2>3, <2>4
<1>15. /\ c \in Seq(Frames(S, v, g)) /\ (HasReset(c, 1) <=> HasReset(d, 1))
       /\ l \o r = Before(c) \o b
  <2>1. /\ v \in Nat /\ g \in Nat /\ v <= v /\ l \in Seq(Frames(S, v, g)) /\ d \in Seq(Frames(S, v, g))
        /\ NoEnds(l) /\ b \in Seq(StackFrames(S, v, g)) /\ IsJoin(c, l, d) /\ IsJoin(r, Before(d), b)
    BY <1>3, <1>6, <1>7, <1>8, <1>12, <1>13 DEF IsJoin
  <2>2. /\ c \in Seq(Frames(S, v, g)) /\ (HasReset(c, 1) <=> HasReset(d, 1))
        /\ IsJoin(l \o r, Before(c), b)
    BY ONLY <2>1, JoinedStack
  <2> QED BY <2>2 DEF IsJoin
<1>16. runs' = TurnTo(runs, c) /\ meta' = meta /\ st' = u
  <2>1. Drop(meta, 0) = meta
    BY <1>3, DropNone
  <2> QED BY <1>2, <1>4, <1>5, <1>12, <2>1 DEF Lands, GoOn, TurnTo
<1>17. Whole(runs, meta)' = l \o r
  <2>1. PICK os : os = TurnTo(runs, c)
    OBVIOUS
  <2>2. /\ runs \in Seq(Calls(S, v, g)) /\ runs # <<>> /\ meta \in Seq(Infos(S, v, g))
        /\ c \in Seq(Frames(S, v, g))
    BY <1>1, <1>3, <1>15
  <2>3. os \in Seq(Calls(S, v, g)) /\ os # <<>> /\ Turned(os, runs, c)
    BY ONLY <2>1, <2>2, TurnedIs
  <2>4. Whole(os, meta) = Before(c) \o Below(runs, meta, c, 0, 0)
    BY ONLY <2>2, <2>3, WholeTurned
  <2>5. Below(runs, meta, c, 0, 0) = b
    <3>1. PICK F : F = Frames(S, v, g)
      OBVIOUS
    <3>2. c \in Seq(F) /\ k \in Seq(F) /\ (HasReset(c, 1) <=> HasReset(k, 1)) /\ k = chain
      BY <1>3, <1>5, <1>6, <1>15, <3>1
    <3>3. Below(runs, meta, c, 0, 0) = Below(runs, meta, k, 0, 0)
      BY ONLY <3>2, BelowSame
    <3> QED BY <1>2, <3>2, <3>3
  <2>6. Whole(runs, meta)' = Whole(os, meta)
    BY <1>16, <2>1, WholeNext
  <2> QED BY <1>15, <2>4, <2>5, <2>6
<1>18. PICK w, s : w = CutAll(u) /\ s = l \o r
  OBVIOUS
<1>19. CutAll(st)' = w /\ w.flow = st'.flow
  <2>1. HasFields(u)
    BY <1>3, <1>12 DEF Landed, HasFields, StateFields
  <2> QED BY <1>16, <1>18, <2>1, CutAllIs
<1> QED BY <1>2, <1>10, <1>14, <1>17, <1>18, <1>19, StackStep

\* No list is in q.
NoListIn(q) == \A i \in DOMAIN q : ~TheStack!IsList(q[i])
\* w is q, the list l and what is left after it.
IsUpTo(w, q, l, o) == w = q \o (l \o o)

\* What is left from the i-th entry of meta on goes on at the list of the
\* innermost run, when its n entries have been passed.
LeftAt(rs, mt, i) ==
  LET c == IF i = 0 THEN rs[1].chain ELSE mt[i].k IN Before(c) \o Below(rs, mt, c, i, 0)
ComesTo(S, v, g, rs, mt, n, i) ==
  \E q \in Seq(StackFrames(S, v, g)) :
    NoListIn(q) /\ IsUpTo(LeftAt(rs, mt, i), q, ListOf(rs[1]), Outer(rs, mt, n))

\* The innermost run has the first n entries of meta.
Resets(S, v, g, rs, mt, n) ==
  /\ v \in Nat /\ g \in Nat /\ rs \in Seq(Calls(S, v, g)) /\ rs # <<>> /\ mt \in Seq(Infos(S, v, g))
  /\ n \in 0 .. Len(mt)
  /\ \A i \in 0 .. n : HasReset(IF i = 0 THEN rs[1].chain ELSE mt[i].k, 1) <=> i < n

\* After the last entry of meta of a run, its list.
LEMMA ComesLast ==
  ASSUME NEW S, NEW v, NEW g, NEW rs, NEW mt, NEW n, Resets(S, v, g, rs, mt, n)
  PROVE  ComesTo(S, v, g, rs, mt, n, n)
<1>1. /\ v \in Nat /\ g \in Nat /\ rs \in Seq(Calls(S, v, g)) /\ rs # <<>> /\ mt \in Seq(Infos(S, v, g))
      /\ n \in 0 .. Len(mt)
      /\ \A i \in 0 .. n : HasReset(IF i = 0 THEN rs[1].chain ELSE mt[i].k, 1) <=> i < n
  BY DEF Resets
<1>2. PICK c : c = IF n = 0 THEN rs[1].chain ELSE mt[n].k
  OBVIOUS
<1>3. c \in Seq(Frames(S, v, g))
  <2>1. 1 \in 1 .. Len(rs) /\ (n # 0 => n \in 1 .. Len(mt))
    BY <1>1
  <2>2. rs[1].chain \in Seq(Frames(S, v, g)) /\ (n # 0 => mt[n].k \in Seq(Frames(S, v, g)))
    BY <1>1, <2>1, PartTypes
  <2> QED BY <1>2, <2>2
<1>4. ~HasReset(c, 1)
  <2>1. n \in 0 .. n /\ ~(n < n)
    BY <1>1
  <2> QED BY <1>1, <1>2, <2>1
<1>5. Below(rs, mt, c, n, 0) = ListOf(rs[1]) \o Outer(rs, mt, n)
  <2>1. PICK o, j : o = 0 /\ j = o + 1
    OBVIOUS
  <2>2. Below(rs, mt, c, n, o) = ListOf(rs[j]) \o Rest(rs, mt, n, j, FALSE)
    BY ONLY <1>3, <1>4, <2>1, BelowList
  <2>3. j = 1
    BY <2>1
  <2> QED BY <2>1, <2>2, <2>3, Zenon DEF Outer
<1>6. PICK q : q = Before(c)
  OBVIOUS
<1>7. q \in Seq(StackFrames(S, v, g)) /\ NoListIn(q)
  BY <1>3, <1>6, Widened, Unmarked DEF NoListIn
<1>8. IsUpTo(LeftAt(rs, mt, n), q, ListOf(rs[1]), Outer(rs, mt, n))
  BY <1>2, <1>5, <1>6, Zenon DEF IsUpTo, LeftAt
<1> QED BY <1>7, <1>8 DEF ComesTo

\* From an entry of meta to the one before it.
LEMMA ComesBack ==
  ASSUME NEW S, NEW v, NEW g, NEW rs, NEW mt, NEW n, Resets(S, v, g, rs, mt, n),
         NEW i, i \in 0 .. n, i < n, NEW y, y = i + 1, ComesTo(S, v, g, rs, mt, n, y)
  PROVE  ComesTo(S, v, g, rs, mt, n, i)
<1>1. /\ v \in Nat /\ g \in Nat /\ rs \in Seq(Calls(S, v, g)) /\ rs # <<>> /\ mt \in Seq(Infos(S, v, g))
      /\ n \in 0 .. Len(mt)
      /\ \A x \in 0 .. n : HasReset(IF x = 0 THEN rs[1].chain ELSE mt[x].k, 1) <=> x < n
  BY DEF Resets
<1>2. PICK c, k : c = (IF i = 0 THEN rs[1].chain ELSE mt[i].k) /\ k = mt[y].k
  OBVIOUS
<1>3. y \in 1 .. Len(mt) /\ y # 0 /\ i < Len(mt) /\ y \in 0 .. Len(mt) /\ Len(rs) \in Nat /\ Len(rs) >= 1
  BY <1>1
<1>4. c \in Seq(Frames(S, v, g)) /\ k \in Seq(Frames(S, v, g)) /\ mt[y].sh \in Contexts(v, g)
  <2>1. 1 \in 1 .. Len(rs) /\ (i # 0 => i \in 1 .. Len(mt))
    BY <1>1, <1>3
  <2>2. rs[1].chain \in Seq(Frames(S, v, g)) /\ (i # 0 => mt[i].k \in Seq(Frames(S, v, g)))
    BY <1>1, <2>1, PartTypes
  <2>3. mt[y].k \in Seq(Frames(S, v, g)) /\ mt[y].sh \in Contexts(v, g)
    BY <1>1, <1>3, PartTypes
  <2> QED BY <1>2, <2>2, <2>3
<1>5. HasReset(c, 1)
  BY <1>1, <1>2
<1>6. PICK m : m = [f |-> "reset", sh |-> mt[y].sh]
  OBVIOUS
<1>7. m \in StackFrames(S, v, g) /\ ~TheStack!IsList(m)
  BY <1>4, <1>6 DEF StackFrames, ResetMarks, TheStack!IsList
<1>8. Below(rs, mt, c, i, 0) = <<m>> \o LeftAt(rs, mt, y)
  <2>1. PICK o, b : o = 0 /\ b = TRUE
    OBVIOUS
  <2>2. Below(rs, mt, c, i, o) = ResetPile(rs, mt, i, o)
    BY ONLY <1>3, <1>4, <1>5, BelowReset
  <2>3. Rest(rs, mt, y, o, b) = IF o = Len(rs) THEN <<>> ELSE Before(k) \o Below(rs, mt, k, y, o)
    <3>1. /\ y \in 0 .. Len(mt) /\ o \in 0 .. Len(rs) /\ b \in BOOLEAN
          /\ k = IF b THEN mt[y].k ELSE rs[o + 1].chain
      BY <1>2, <1>3, <2>1
    <3>2. rs \in Seq(Calls(S, v, g)) /\ mt \in Seq(Infos(S, v, g))
      BY <1>1
    <3> QED BY ONLY <3>1, <3>2, RestAt
  <2>4. o # Len(rs)
    BY <1>3, <2>1
  <2>5. LeftAt(rs, mt, y) = Before(k) \o Below(rs, mt, k, y, o)
    BY <1>2, <1>3, <2>1, Zenon DEF LeftAt
  <2> QED BY <1>6, <2>1, <2>2, <2>3, <2>4, <2>5 DEF ResetPile
<1>9. PICK q \in Seq(StackFrames(S, v, g)) :
        NoListIn(q) /\ IsUpTo(LeftAt(rs, mt, y), q, ListOf(rs[1]), Outer(rs, mt, n))
  BY DEF ComesTo
<1>10. PICK X, a, p, e : X = StackFrames(S, v, g) /\ a = Before(c) /\ p = <<m>> /\ e = a \o (p \o q)
  OBVIOUS
<1>11. a \in Seq(X) /\ p \in Seq(X) /\ q \in Seq(X) /\ e \in Seq(X) /\ NoListIn(a) /\ NoListIn(p)
  <2>1. a \in Seq(X) /\ NoListIn(a)
    BY <1>4, <1>10, Widened, Unmarked DEF NoListIn
  <2>2. p \in Seq(X) /\ NoListIn(p)
    BY <1>7, <1>10 DEF NoListIn
  <2>3. q \in Seq(X)
    BY <1>9, <1>10
  <2>4. p \o q \in Seq(X)
    BY ONLY <2>2, <2>3, Concat
  <2>5. e \in Seq(X)
    BY ONLY <1>10, <2>1, <2>4, Concat
  <2> QED BY <2>1, <2>2, <2>3, <2>5
<1>12. NoListIn(e)
  <2>1. ASSUME NEW c1 \in Seq(X), NEW c2 \in Seq(X), NoListIn(c1), NoListIn(c2)
        PROVE  c1 \o c2 \in Seq(X) /\ NoListIn(c1 \o c2)
    <3>1. PICK d : d = c1 \o c2
      OBVIOUS
    <3>2. d \in Seq(X) /\ DOMAIN d = 1 .. Len(c1) + Len(c2) /\ Len(c1) \in Nat /\ Len(c2) \in Nat
      BY <2>1, <3>1
    <3>3. ASSUME NEW x \in DOMAIN d PROVE ~TheStack!IsList(d[x])
      <4>1. CASE x <= Len(c1)
        <5>1. x \in DOMAIN c1 /\ d[x] = c1[x]
          BY <2>1, <3>1, <3>2, <3>3, <4>1
        <5> QED BY <2>1, <5>1 DEF NoListIn
      <4>2. CASE ~(x <= Len(c1))
        <5>1. x - Len(c1) \in DOMAIN c2 /\ d[x] = c2[x - Len(c1)]
          BY <2>1, <3>1, <3>2, <3>3, <4>2
        <5> QED BY <2>1, <5>1 DEF NoListIn
      <4> QED BY <4>1, <4>2
    <3> QED BY <3>1, <3>2, <3>3 DEF NoListIn
  <2>2. p \o q \in Seq(X) /\ NoListIn(p \o q)
    BY <1>9, <1>11, <2>1
  <2> QED BY <1>10, <1>11, <2>1, <2>2
<1>13. PICK l, o : l = ListOf(rs[1]) /\ o = Outer(rs, mt, n)
  OBVIOUS
<1>14. l \in Seq(X) /\ o \in Seq(X)
  <2>1. rs[1] \in Calls(S, v, g)
    BY <1>1, <1>3
  <2>2. l \in Seq(X)
    BY <1>10, <1>13, <2>1, ListOfType
  <2>0. PICK b \in BOOLEAN : b = FALSE
    OBVIOUS
  <2>3. PICK j : b = FALSE /\ j = 1
    BY <2>0
  <2>4. /\ rs \in Seq(Calls(S, v, g)) /\ mt \in Seq(Infos(S, v, g)) /\ n \in 0 .. Len(mt)
        /\ j \in 0 .. Len(rs) /\ b \in BOOLEAN /\ (b => n > 0)
    BY <1>1, <1>3, <2>3
  <2>5. Rest(rs, mt, n, j, b) \in Seq(StackFrames(S, v, g))
    BY ONLY <2>4, RestType
  <2> QED BY <1>10, <1>13, <2>2, <2>3, <2>5 DEF Outer
<1>15. LeftAt(rs, mt, i) = e \o (l \o o)
  <2>1. LeftAt(rs, mt, i) = a \o (p \o LeftAt(rs, mt, y))
    BY <1>2, <1>8, <1>10, Zenon DEF LeftAt
  <2>2. LeftAt(rs, mt, y) = q \o (l \o o)
    BY <1>9, <1>13 DEF IsUpTo
  <2>3. PICK h : h = l \o o
    OBVIOUS
  <2>4. h \in Seq(X)
    BY ONLY <1>14, <2>3, Concat
  <2>5. (a \o (p \o q)) \o h = a \o (p \o (q \o h))
    BY ONLY <1>11, <2>4
  <2> QED BY <1>10, <2>1, <2>2, <2>3, <2>5
<1> QED BY <1>10, <1>11, <1>12, <1>13, <1>15 DEF ComesTo, IsUpTo

\* From the Chain of a run through all its entries of meta.
LEMMA ComesAll ==
  ASSUME NEW S, NEW v, NEW g, NEW rs, NEW mt, NEW n, Resets(S, v, g, rs, mt, n)
  PROVE  ComesTo(S, v, g, rs, mt, n, 0)
<1> DEFINE T == {x \in 0 .. n : ComesTo(S, v, g, rs, mt, n, x)}
<1>1. n \in Nat
  BY DEF Resets
<1>2. n \in T
  BY <1>1, ComesLast
<1>3. T \subseteq Nat /\ T # {}
  BY <1>1, <1>2
<1>4. PICK x : x = Min(T)
  OBVIOUS
<1>5. x \in T /\ \A y \in T : x <= y
  <2> HIDE DEF T
  <2> QED BY <1>3, <1>4, Least
<1>6. x \in 0 .. n /\ ComesTo(S, v, g, rs, mt, n, x)
  BY <1>5
<1>7. ASSUME x # 0 PROVE FALSE
  <2>1. PICK i : i = x - 1
    OBVIOUS
  <2>2. i \in 0 .. n /\ i < n /\ x = i + 1
    BY <1>1, <1>6, <1>7, <2>1
  <2>3. ComesTo(S, v, g, rs, mt, n, i)
    BY <1>6, <2>2, ComesBack
  <2>4. i \in T
    BY <2>2, <2>3
  <2>5. x <= i
    <3> HIDE DEF T
    <3> QED BY <1>5, <2>4
  <2> QED BY <1>1, <1>6, <2>2, <2>5
<1> QED BY <1>6, <1>7

\* The innermost run has as many entries of meta as the flow passes ends of resets.
LEMMA FailsAt ==
  ASSUME NEW S, NEW exact, NEW v, NEW g, GoodAt(S, exact, runs, meta, st, v, g), RunFails,
         st.flow # Failed, NEW last, Parted(Frames(S, v, g), exact, runs, meta, last)
  PROVE  /\ st.flow \in Flows => ~HasReset(chain, 1)
         /\ st.flow \notin Flows => exact /\ st.flow.k = "abort"
         /\ ResetEnds(chain) = last[1]
<1>1. runs # <<>> /\ st.flow # Onward /\ Place = 0
  BY DEF RunFails
<1>2. v \in Nat /\ g \in Nat /\ IsState(st, S, v, g) /\ (st.flow.k = "abort" => exact)
      /\ runs \in Seq(Calls(S, v, g)) /\ meta \in Seq(Infos(S, v, g))
  BY DEF GoodAt
<1>3. Piece(Frames(S, v, g), exact, chain, last[1], runs[1].g, Reached(runs, 2))
  BY <1>1, <1>2, ChainIs DEF chain
<1>4. chain \in Seq(Frames(S, v, g))
  BY <1>3 DEF Piece
<1>5. ASSUME st.flow \in Flows PROVE ~HasReset(chain, 1)
  <2>1. st.flow \in Reached(runs, 1)
    BY <1>5 DEF GoodAt
  <2>2. Covers(chain, Reached(runs, 2), st.flow)
    BY <1>1, <1>2, <1>5, <2>1, ReachedSplit DEF chain
  <2>3. ~ReachIn(chain, 1, st.flow)
    BY <1>1, <1>4, PlaceIsFirst DEF ReachIn
  <2> QED BY <2>2, <2>3 DEF Covers
<1>6. ASSUME st.flow \notin Flows PROVE exact /\ st.flow.k = "abort"
  <2>1. st.flow \in AllFlows
    BY <1>2, HasTypes
  <2>2. st.flow.k = "abort"
    BY <1>1, <1>6, <2>1 DEF AllFlows
  <2> QED BY <1>2, <2>2
<1>7. ResetEnds(chain) = last[1]
  <2>1. CASE st.flow \in Flows
    <3>1. ResetEnds(chain) = 0
      BY <1>4, <1>5, <2>1, Counted
    <3>2. last[1] = 0
      BY <1>3, <1>5, <2>1 DEF Piece
    <3> QED BY <3>1, <3>2
  <2>2. CASE st.flow \notin Flows
    BY <1>3, <1>6, <2>2 DEF Piece
  <2> QED BY <2>1, <2>2
<1> QED BY <1>5, <1>6, <1>7

\* What is left begins with frames that the flow leaves, up to the list.
LeavesTo(S, v, g, n) ==
  \E q \in Seq(StackFrames(S, v, g)) :
    NoStopIn(q, st.flow) /\ IsUpTo(Whole(runs, meta), q, ListOf(runs[1]), Outer(runs, meta, n))

\* What is left, by where a flow out of the innermost run goes.
LEMMA FailsTo ==
  ASSUME NEW S, NEW exact, NEW v, NEW g, GoodAt(S, exact, runs, meta, st, v, g), RunFails,
         st.flow # Failed, NEW n, n = ResetEnds(chain)
  PROVE  n \in 0 .. Len(meta) /\ LeavesTo(S, v, g, n)
<1>1. runs # <<>> /\ st.flow # Onward /\ Place = 0
  BY DEF RunFails
<1>2. v \in Nat /\ g \in Nat /\ IsState(st, S, v, g)
      /\ runs \in Seq(Calls(S, v, g)) /\ meta \in Seq(Infos(S, v, g))
  BY DEF GoodAt
<1>3. PICK last : Parted(Frames(S, v, g), exact, runs, meta, last)
  BY DEF GoodAt
<1>4. /\ st.flow \in Flows => ~HasReset(chain, 1)
      /\ st.flow \notin Flows => exact /\ st.flow.k = "abort"
      /\ n = last[1]
  BY <1>3, FailsAt
<1>5. PICK F, c : F = Frames(S, v, g) /\ c = chain
  OBVIOUS
<1>6. /\ Piece(F, exact, c, n, runs[1].g, Reached(runs, 2))
      /\ n \in 0 .. Len(meta) /\ Len(meta) \in Nat /\ c \in Seq(F)
      /\ \A i \in 1 .. n : Piece(F, exact, meta[i].k, n - i, runs[1].g, Reached(runs, 2))
  BY <1>1, <1>2, <1>3, <1>4, <1>5, ChainIs DEF chain
<1>7. Resets(S, v, g, runs, meta, n)
  <2>1. ASSUME NEW i \in 0 .. n
        PROVE  HasReset(IF i = 0 THEN runs[1].chain ELSE meta[i].k, 1) <=> i < n
    <3>1. CASE i = 0
      <4>1. HasReset(c, 1) <=> n > 0
        BY <1>6 DEF Piece
      <4> QED BY <1>5, <1>6, <3>1, <4>1 DEF chain
    <3>2. CASE i # 0
      <4>1. i \in 1 .. n
        BY <1>6, <3>2
      <4>2. HasReset(meta[i].k, 1) <=> n - i > 0
        BY <1>6, <4>1 DEF Piece
      <4> QED BY <1>6, <3>2, <4>1, <4>2
    <3> QED BY <3>1, <3>2
  <2> QED BY <1>1, <1>2, <1>6, <2>1 DEF Resets
<1>8. PICK q \in Seq(StackFrames(S, v, g)) :
        NoListIn(q) /\ IsUpTo(LeftAt(runs, meta, 0), q, ListOf(runs[1]), Outer(runs, meta, n))
  BY <1>7, ComesAll DEF ComesTo
<1>9. LeftAt(runs, meta, 0) = Whole(runs, meta)
  <2>1. Whole(runs, meta) = Before(runs[1].chain) \o Below(runs, meta, runs[1].chain, 0, 0)
    BY <1>1, <1>2, WholeIs
  <2> QED BY <2>1, Zenon DEF LeftAt
<1>10. CASE st.flow \notin Flows
  <2>1. ASSUME NEW i \in DOMAIN q PROVE ~StopsAt(q[i], st.flow)
    <3>1. ~Ends(q[i], st.flow)
      BY <1>4, <1>10 DEF Ends
    <3> QED BY <1>8, <2>1, <3>1 DEF StopsAt, NoListIn
  <2> QED BY <1>6, <1>8, <1>9, <2>1 DEF LeavesTo, NoStopIn
<1>11. CASE st.flow \in Flows
  <2>1. PICK b, o : b = Below(runs, meta, chain, 0, 0) /\ o = Outer(runs, meta, 0)
    OBVIOUS
  <2>2. Whole(runs, meta) = c \o b /\ IsEnd(S, v, g, runs, meta, b, o)
    BY <1>1, <1>4, <1>5, <1>11, <2>1, StackEnd
  <2>3. b = ListOf(runs[1]) \o o
    BY <2>2 DEF IsEnd
  <2>4. n = 0
    BY <1>4, <1>5, <1>6, <1>11 DEF Piece
  <2>5. c \in Seq(StackFrames(S, v, g))
    BY <1>5, <1>6, Widened
  <2>6. ASSUME NEW i \in DOMAIN c PROVE ~StopsAt(c[i], st.flow)
    <3>1. ~Ends(c[i], st.flow)
      BY <1>1, <1>5, <1>6, <2>6, PlaceIsFirst
    <3>2. c[i] \in Frames(S, v, g)
      BY <1>5, <1>6, <2>6
    <3> QED BY <3>1, <3>2, NoMark DEF StopsAt
  <2>7. IsUpTo(Whole(runs, meta), c, ListOf(runs[1]), Outer(runs, meta, n))
    BY <2>1, <2>2, <2>3, <2>4, Zenon DEF IsUpTo
  <2> QED BY <1>6, <2>5, <2>6, <2>7 DEF LeavesTo, NoStopIn
<1> QED BY <1>6, <1>10, <1>11

\* The innermost run is over after n entries of meta.
LEMMA OuterIs ==
  ASSUME NEW S, NEW v, NEW g, NEW rs \in Seq(Calls(S, v, g)), rs # <<>>,
         NEW mt \in Seq(Infos(S, v, g)), NEW n \in 0 .. Len(mt), NEW o, o = Outer(rs, mt, n)
  PROVE  o \in Seq(StackFrames(S, v, g)) /\ (Len(rs) = 1 => o = <<>>)
<1>1. Len(rs) \in Nat /\ Len(rs) >= 1
  OBVIOUS
<1>0. PICK q \in BOOLEAN : q = FALSE
  OBVIOUS
<1>2. PICK j, k : q = FALSE /\ j = 1 /\ k = rs[j + 1].chain
  BY <1>0
<1>3. /\ n \in 0 .. Len(mt) /\ j \in 0 .. Len(rs) /\ (q => n > 0)
      /\ k = IF q THEN mt[n].k ELSE rs[j + 1].chain
      /\ rs \in Seq(Calls(S, v, g)) /\ mt \in Seq(Infos(S, v, g)) /\ q \in BOOLEAN
  BY <1>1, <1>2
<1>4. Rest(rs, mt, n, j, q) = IF j = Len(rs) THEN <<>> ELSE Before(k) \o Below(rs, mt, k, n, j)
  <2>1. Rest(rs, mt, n, j, q) = LeftOf(rs, mt, k, n, j)
    BY ONLY <1>3, LeftIs
  <2> QED BY <2>1, Zenon DEF LeftOf
<1>5. Rest(rs, mt, n, j, q) \in Seq(StackFrames(S, v, g))
  BY ONLY <1>3, RestType
<1> QED BY <1>2, <1>4, <1>5 DEF Outer

\* A flow that no frame of the innermost run ends goes out of the run: the list
\* of its statement gets it, or it leaves all that there is.
LEMMA RunFailsOut ==
  ASSUME NEW S, NEW exact, NEW v, NEW g, GoodAt(S, exact, runs, meta, st, v, g), RunFails,
         st.flow # Failed, NEW n, n = ResetEnds(chain), NEW o, o = Outer(runs, meta, n)
  PROVE  /\ o \in Seq(StackFrames(S, v, g)) /\ (Len(runs) = 1 => o = <<>>)
         /\ Whole(runs, meta)' = o
         /\ \E q \in Seq(StackFrames(S, v, g)) :
              NoStopIn(q, st.flow) /\ IsUpTo(Whole(runs, meta), q, ListOf(runs[1]), o)
<1>1. runs # <<>> /\ runs' = Tail(runs) /\ meta' = Drop(meta, n)
  BY DEF RunFails
<1>2. runs \in Seq(Calls(S, v, g)) /\ meta \in Seq(Infos(S, v, g))
  BY DEF GoodAt
<1>3. n \in 0 .. Len(meta) /\ LeavesTo(S, v, g, n)
  BY FailsTo
<1>4. o \in Seq(StackFrames(S, v, g)) /\ (Len(runs) = 1 => o = <<>>)
  BY <1>1, <1>2, <1>3, OuterIs
<1>5. Whole(runs, meta)' = o
  <2>1. PICK ts, nt : ts = Tail(runs) /\ nt = Drop(meta, n)
    OBVIOUS
  <2>2. IsOver(S, v, g, runs, meta, n, ts, nt)
    BY <1>1, <1>2, <1>3, <2>1 DEF IsOver
  <2>3. Whole(ts, nt) = o
    BY <2>2, WholeOver
  <2>4. Whole(runs, meta)' = Whole(ts, nt)
    BY <1>1, <2>1, WholeNext
  <2> QED BY <2>3, <2>4
<1> QED BY <1>3, <1>4, <1>5 DEF LeavesTo

\* A flow leaves its run, and the statement with the lists gets it: Unwind.
LEMMA RunFailsStack ==
  ASSUME NEW S, NEW exact, Allowed(S, exact), NEW v, NEW g, GoodAt(S, exact, runs, meta, st, v, g),
         RunFails, st.flow # Failed
  PROVE  TheStack!Next \/ Stays
<1>1. runs # <<>> /\ st.flow # Onward
  BY DEF RunFails
<1>2. /\ v \in Nat /\ g \in Nat /\ IsState(st, S, v, g) /\ HasFields(st)
      /\ runs \in Seq(Calls(S, v, g)) /\ runs[1] \in Calls(S, v, g)
  BY <1>1, StackNow
<1>3. PICK n, o, z, X : /\ n = ResetEnds(chain) /\ o = Outer(runs, meta, n) /\ z = CutAll(st)
                        /\ X = StackFrames(S, v, g)
  OBVIOUS
<1>4. /\ o \in Seq(X) /\ (Len(runs) = 1 => o = <<>>) /\ Whole(runs, meta)' = o
      /\ \E q \in Seq(X) :
           NoStopIn(q, st.flow) /\ IsUpTo(Whole(runs, meta), q, ListOf(runs[1]), o)
  BY <1>3, RunFailsOut
<1>5. PICK q \in Seq(X) :
        NoStopIn(q, st.flow) /\ IsUpTo(Whole(runs, meta), q, ListOf(runs[1]), o)
  BY <1>4
<1>6. z.flow = st.flow /\ z.flow # Onward
  BY <1>1, <1>2, <1>3, CutAllIs
<1>7. CASE runs[1].g = 0
  <2>1. st' = st
    BY <1>7 DEF RunFails
  <2>2. o = <<>>
    <3>1. Len(runs) = 1
      <4>1. 1 \in DOMAIN runs
        BY <1>1, <1>2
      <4> QED BY <1>7, <4>1 DEF GoodAt
    <3> QED BY <1>4, <3>1
  <2>3. Whole(runs, meta) = q
    <3>1. ListOf(runs[1]) = <<>>
      BY <1>7 DEF ListOf
    <3>2. Whole(runs, meta) = q \o (<<>> \o <<>>)
      BY <1>5, <2>2, <3>1 DEF IsUpTo
    <3> QED BY <1>5, <3>2
  <2>4. CASE q = <<>>
    <3>1. Stack' = Stack
      BY <1>4, <2>1, <2>2, <2>3, <2>4, StackIs
    <3> QED BY <2>1, <3>1 DEF Stays
  <2>5. CASE q # <<>>
    <3>1. TheStack!After(q, z) = TheStack!On(<<>>, z)
      <4>1. NoStopIn(q, z.flow)
        BY <1>5, <1>6
      <4> QED BY ONLY <1>5, <1>6, <4>1, UnwindAll
    <3>2. CutAll(st)' = z /\ z.flow = st'.flow
      BY <1>3, <1>6, <2>1
    <3>3. /\ TheStack!After(Whole(runs, meta), CutAll(st)) = TheStack!On(<<>>, z)
          /\ Whole(runs, meta) # <<>> /\ Whole(runs, meta)' = <<>>
      BY <1>3, <1>4, <2>2, <2>3, <2>5, <3>1
    <3> QED BY <3>2, <3>3, StackStep
  <2> QED BY <2>4, <2>5
<1>8. CASE runs[1].g # 0
  <2>1. PICK m, l, sh : /\ m = [f |-> "list", sh |-> runs[1].sh, g |-> runs[1].g]
                        /\ l = runs[1].g /\ sh = runs[1].sh
    OBVIOUS
  <2>2. m.sh = sh /\ m.g = l /\ TheStack!IsList(m)
    BY <2>1 DEF TheStack!IsList
  <2>3. sh \in Contexts(v, g) /\ l \in 1 .. g
    BY <1>2, <1>8, <2>1 DEF Calls
  <2>4. m \in X
    BY <1>2, <1>3, <2>1, <2>3 DEF StackFrames, ListMarks
  <2>5. PICK s : s = Whole(runs, meta)
    OBVIOUS
  <2>6. IsAround(s, q, m, o)
    BY <1>5, <1>8, <2>1, <2>5 DEF IsUpTo, IsAround, ListOf
  <2>7. PICK u : u = Caught(st, sh, l)
    OBVIOUS
  <2>8. s # <<>> /\ TheStack!After(s, z) = TheStack!On(o, CutAll(u))
    <3>1. NoStopIn(q, z.flow) /\ StopsAt(m, z.flow)
      BY <1>5, <1>6, <2>2 DEF StopsAt
    <3>2. /\ s # <<>>
          /\ TheStack!IsList(m) => TheStack!After(s, z) = TheStack!On(o, Caught(z, m.sh, m.g))
      BY ONLY <1>4, <1>5, <1>6, <2>4, <2>6, <3>1, UnwindTo
    <3>3. Caught(z, sh, l) = CutAll(u)
      BY <1>2, <1>3, <2>3, <2>7, CutCaught
    <3> QED BY <2>2, <3>2, <3>3
  <2>9. HasFields(u) /\ u.flow # Failed
    <3>1. /\ IsState(u, S, v, g)
          /\ u.flow = IF st.flow = Flow("abort", l) THEN Onward ELSE st.flow
      <4>1. /\ v \in Nat /\ g \in Nat /\ IsState(st, S, v, g) /\ st.flow # Failed
            /\ sh \in Contexts(v, g) /\ l \in 1 .. g /\ u = Caught(st, sh, l)
        BY <1>2, <2>3, <2>7
      <4> QED BY ONLY <4>1, Catches
    <3> QED BY <3>1, StateHas, OnwardIs
  <2>10. st' = u
    BY <1>8, <2>1, <2>7 DEF RunFails
  <2>11. PICK w : w = CutAll(u)
    OBVIOUS
  <2>12. CutAll(st)' = w /\ w.flow = st'.flow
    BY <2>9, <2>10, <2>11, CutAllIs
  <2>13. /\ TheStack!After(Whole(runs, meta), CutAll(st)) = TheStack!On(o, w)
         /\ Whole(runs, meta) # <<>>
    BY <1>3, <2>5, <2>8, <2>11
  <2> QED BY <1>4, <2>12, <2>13, StackStep
<1> QED BY <1>7, <1>8

\* After an error nothing is seen of a step.
LEMMA FailedStack ==
  ASSUME st.flow = Failed, [Next]_vars
  PROVE  Stays
<1>1. st'.flow = Failed
  BY StepFailed
<1>2. Stack' = Stack
  BY <1>1, StackIs
<1>3. st' = st
  <2>1. \A frame : ~Ends(frame, st.flow)
    BY OnwardIs DEF Ends
  <2>2. Place = 0
    BY <2>1 DEF Place, FirstPlace
  <2>3. CASE UNCHANGED vars
    BY <2>3 DEF vars
  <2>4. CASE RunFails
    BY <2>4 DEF RunFails, Caught
  <2>5. ~Going /\ ~Lands
    BY <2>2, OnwardIs DEF Going, Lands
  <2> QED BY <2>3, <2>4, <2>5, Zenon DEF Next, StepFrame, ExecReset, StepResetEnd, ExecShift, ContCall,
                                  ExecRedirected, RunEnds, ControlAt
<1> QED BY <1>2, <1>3 DEF Stays

\* A step of Script is a step of the stack, or nothing is seen of it.
LEMMA StepStack ==
  ASSUME NEW S, NEW exact, Allowed(S, exact), Good(S, exact), [Next]_vars, st.flow # Failed
  PROVE  TheStack!Next \/ Stays
<1>1. PICK v, g : GoodAt(S, exact, runs, meta, st, v, g)
  BY DEF Good
<1>2. CASE UNCHANGED vars
  BY <1>2 DEF vars, Stays, Stack
<1>3. CASE StepFrame
  BY <1>1, <1>3, StepFrameStack
<1>4. CASE ExecReset
  BY <1>1, <1>4, ExecResetStack
<1>5. CASE StepResetEnd
  BY <1>1, <1>5, StepResetEndStack
<1>6. CASE ExecShift
  BY <1>1, <1>6, ExecShiftStack
<1>7. CASE ContCall
  BY <1>1, <1>7, ContCallStack
<1>8. CASE ExecRedirected
  BY <1>1, <1>8, ExecRedirectedStack
<1>9. CASE RunEnds
  BY <1>1, <1>9, RunEndsStack
<1>10. CASE Lands
  BY <1>1, <1>10, LandsStack
<1>11. CASE RunFails
  BY <1>1, <1>11, RunFailsStack
<1> QED BY <1>2, <1>3, <1>4, <1>5, <1>6, <1>7, <1>8, <1>9, <1>10, <1>11 DEF Next

----------------------------------------------------------------------------
(***************************************************************************)
(* The refinement.                                                         *)
(***************************************************************************)
\* The stack of a script that starts.
LEMMA StartStack ==
  ASSUME NEW S, NEW p \in Seq(S), meta = <<>>, st = Fresh,
         runs = <<[chain |-> <<Lines(Top, p)>>, g |-> 0, sh |-> Top]>>
  PROVE  Stack = <<Lines(Top, p)>> /\ CutAll(st) = Fresh
<1>1. PICK exact : exact = TRUE
  OBVIOUS
<1>2. Good(S, exact)
  BY StartGood
<1>3. PICK v, g : GoodAt(S, exact, runs, meta, st, v, g)
  BY <1>2 DEF Good
<1>4. runs # <<>> /\ chain = <<Lines(Top, p)>> /\ Len(runs) = 1 /\ runs[1].g = 0
  BY DEF chain
<1>5. ~HasReset(chain, 1)
  <2>1. Lines(Top, p) # ResetEnd
    BY DEF Lines, ResetEnd
  <2> QED BY <1>4, <2>1 DEF HasReset
<1>6. PICK b, o : b = Below(runs, meta, chain, 0, 0) /\ o = Outer(runs, meta, 0)
  OBVIOUS
<1>7. /\ Whole(runs, meta) = chain \o b /\ IsEnd(S, v, g, runs, meta, b, o)
      /\ chain \in Seq(Frames(S, v, g))
  BY <1>3, <1>4, <1>5, <1>6, StackEnd
<1>8. b = <<>>
  BY <1>4, <1>7 DEF IsEnd, ListOf
<1>9. Whole(runs, meta) = <<Lines(Top, p)>>
  <2>1. PICK c, F : c = chain /\ F = Frames(S, v, g)
    OBVIOUS
  <2>2. c \o <<>> = c
    BY <1>7, <2>1
  <2> QED BY <1>4, <1>7, <1>8, <2>1, <2>2
<1>10. st.flow # Failed
  BY OnwardIs DEF Fresh
<1> QED BY <1>9, <1>10, StackIs, CutFresh

\* Script is Delimited: the Chains of the nested runs and `meta' together are one
\* stack with marks, with every script that has not both a full variable list and
\* a call of a continuation.
THEOREM OneStack ==
  ASSUME NEW A, NEW B, Statements(A), Statements(B), NoFullList(A), NoResume(B),
         Programs \subseteq Seq(A) \cup Seq(B)
  PROVE  Spec => IsDelimited
<1>1. Init => TheStack!Init
  <2> SUFFICES ASSUME Init PROVE TheStack!Init
    OBVIOUS
  <2>1. PICK p \in Programs : /\ runs = <<[chain |-> <<Lines(Top, p)>>, g |-> 0, sh |-> Top]>>
                              /\ meta = <<>> /\ st = Fresh
    BY DEF Init
  <2>2. Stack = <<Lines(Top, p)>> /\ CutAll(st) = Fresh
    BY <2>1, StartStack
  <2>3. TheStack!Lines(TheStack!Top, p) = Lines(Top, p) /\ TheStack!Fresh = Fresh
    BY SameFrames
  <2> QED BY <2>2, <2>3 DEF TheStack!Init
<1>2. Inv(A, B) /\ [Next]_vars => [TheStack!Next]_(TheStack!vars)
  <2> SUFFICES ASSUME Inv(A, B), [Next]_vars PROVE TheStack!Next \/ Stays
    BY DEF Stays, TheStack!vars
  <2>1. Allowed(A, FALSE) /\ Allowed(B, TRUE)
    BY DEF Allowed
  <2>2. CASE st.flow = Failed
    BY <2>2, FailedStack
  <2>3. CASE st.flow # Failed /\ Good(A, FALSE)
    BY <2>1, <2>3, StepStack
  <2>4. CASE st.flow # Failed /\ Good(B, TRUE)
    BY <2>1, <2>4, StepStack
  <2> QED BY <2>2, <2>3, <2>4 DEF Inv
<1> QED BY <1>1, <1>2, InvHolds, PTL DEF Spec, IsDelimited, TheStack!Spec

=============================================================================
