--------------------------- MODULE Collect_proofs ---------------------------
(***************************************************************************)
(* For every heap: the collector and the counts are never noticed.         *)
(*   1. What Reach is: the least closed set, that depends on no object      *)
(*      outside it.                                                         *)
(*   2. Rc keeps what is reached: Kept holds Reach, so that a step shows    *)
(*      the program what the step put there (NowShows).                     *)
(*   3. collect() clears nothing that is reached (GarbageIsUnreached).      *)
(*   4. TypeOK is inductive, and each step is one of Heap's or none.        *)
(***************************************************************************)
EXTENDS Collect, FiniteSetTheorems, TLAPS

(***************************************************************************)
(* Reach                                                                   *)
(***************************************************************************)

LEMMA ReachIsClosed ==
  ASSUME NEW s, NEW from
  PROVE  Reach(s, from) \in Closed(s, from)
<1> DEFINE R == Reach(s, from)
<1>1. R \subseteq Objects
  BY DEF Reach
<1>2. from \cap Objects \subseteq R
  BY DEF Reach, Closed
<1>3. ASSUME NEW o \in R PROVE Children(s, o) \subseteq R
  <2>1. \A C \in Closed(s, from) : Children(s, o) \subseteq C
    BY <1>3 DEF Reach, Closed
  <2> QED BY <2>1 DEF Reach, Children
<1> QED BY <1>1, <1>2, <1>3 DEF Closed

LEMMA ReachIsLeast ==
  ASSUME NEW s, NEW from, NEW C \in Closed(s, from)
  PROVE  Reach(s, from) \subseteq C
BY DEF Reach

\* Contents that are the same where s reaches give the same reach.
LEMMA ReachDepends ==
  ASSUME NEW s, NEW t, NEW from, \A o \in Reach(s, from) : t[o] = s[o]
  PROVE  Reach(t, from) = Reach(s, from)
<1> DEFINE R == Reach(s, from)
           T == Reach(t, from)
<1>1. R \in Closed(s, from) /\ T \in Closed(t, from)
  BY ReachIsClosed
<1>2. R \in Closed(t, from)
  BY <1>1 DEF Closed, Children
<1>3. T \subseteq R
  BY <1>2, ReachIsLeast
<1>4. T \in Closed(s, from)
  BY <1>1, <1>3 DEF Closed, Children
<1> QED BY <1>3, <1>4, ReachIsLeast

LEMMA VisibleDepends ==
  ASSUME NEW s, NEW t, NEW h, \A o \in Reach(s, Outside(h)) : t[o] = s[o]
  PROVE  Visible(t, h) = Visible(s, h)
BY ReachDepends DEF Visible

\* The same, for a closed set that is known.
LEMMA VisibleOfClosed ==
  ASSUME NEW s, NEW t, NEW h, NEW C \in Closed(s, Outside(h)), \A o \in C : t[o] = s[o]
  PROVE  Visible(t, h) = Visible(s, h)
BY VisibleDepends, ReachIsLeast

(***************************************************************************)
(* Counting                                                                *)
(***************************************************************************)

\* References are to what is in a, or to nothing.
Refers(a, s, h) ==
  /\ a \subseteq Objects
  /\ s \in [Objects -> [Slots -> a \cup {None}]]
  /\ h \in [Holders -> a \cup {None}]

LEMMA ReachIsAlive ==
  ASSUME NEW a, NEW s, NEW h, Refers(a, s, h)
  PROVE  Reach(s, Outside(h)) \subseteq a
<1>1. Outside(h) \cap Objects \subseteq a
  BY CollectAssumption DEF Refers, Outside
<1>2. ASSUME NEW o \in a PROVE Children(s, o) \subseteq a
  BY CollectAssumption DEF Refers, Children
<1>3. a \in Closed(s, Outside(h))
  BY <1>1, <1>2 DEF Closed, Refers
<1> QED BY <1>3, ReachIsLeast

\* What is counted for a reason is counted.
LEMMA KeptHolds ==
  ASSUME NEW a, NEW s, NEW h, NEW S \in SUBSET a,
         \A o \in S : o \in Outside(h) \/ \E p \in S, i \in Slots : s[p][i] = o
  PROVE  S \subseteq Kept(a, s, h)
BY DEF Kept

LEMMA KeptIsAlive ==
  ASSUME NEW a, NEW s, NEW h
  PROVE  Kept(a, s, h) \subseteq a
BY DEF Kept

\* A value stays for a holder, or for a value that stays.
LEMMA KeptIsCounted ==
  ASSUME NEW a, NEW s, NEW h, NEW o \in Kept(a, s, h)
  PROVE  o \in Outside(h) \/ \E p \in Kept(a, s, h), i \in Slots : s[p][i] = o
BY DEF Kept

LEMMA KeptRefers ==
  ASSUME NEW a, NEW s, NEW h, Refers(a, s, h)
  PROVE  /\ \A x \in Holders : h[x] \in Kept(a, s, h) \cup {None}
         /\ \A o \in Kept(a, s, h), i \in Slots : s[o][i] \in Kept(a, s, h) \cup {None}
<1> DEFINE K == Kept(a, s, h)
<1>1. K \subseteq a /\ K \subseteq Objects
  BY KeptIsAlive DEF Refers
<1>2. ASSUME NEW c \in a, c \in Outside(h) \/ \E p \in K, i \in Slots : s[p][i] = c
      PROVE  c \in K
  <2>1. K \cup {c} \in SUBSET a
    BY <1>1
  <2>2. \A o \in K \cup {c} :
           o \in Outside(h) \/ \E p \in K \cup {c}, i \in Slots : s[p][i] = o
    BY <1>2, KeptIsCounted
  <2> QED BY <2>1, <2>2, KeptHolds
<1>3. ASSUME NEW x \in Holders PROVE h[x] \in K \cup {None}
  BY <1>2 DEF Refers, Outside
<1>4. ASSUME NEW o \in K, NEW i \in Slots PROVE s[o][i] \in K \cup {None}
  <2>1. s[o][i] \in a \cup {None}
    BY <1>1 DEF Refers
  <2> QED BY <2>1, <1>2
<1> QED BY <1>3, <1>4

LEMMA KeptHoldsReach ==
  ASSUME NEW a, NEW s, NEW h, Refers(a, s, h)
  PROVE  Reach(s, Outside(h)) \subseteq Kept(a, s, h)
<1> DEFINE R == Reach(s, Outside(h))
<1>1. R \in Closed(s, Outside(h)) /\ R \subseteq a
  BY ReachIsClosed, ReachIsAlive
<1>2. ASSUME NEW o \in R, o \notin Outside(h) PROVE \E p \in R, i \in Slots : s[p][i] = o
  <2>1. SUFFICES ASSUME \A p \in R, i \in Slots : s[p][i] # o PROVE FALSE
    OBVIOUS
  <2>2. R \ {o} \in Closed(s, Outside(h))
    BY <1>1, <1>2, <2>1 DEF Closed, Children
  <2> QED BY <2>2, ReachIsLeast
<1> QED BY <1>1, <1>2, KeptHolds

\* After a step, nothing dangles, and the program sees what the step put there.
LEMMA NowShows ==
  ASSUME NEW a, NEW s, NEW h, Refers(a, s, h), Now(a, s, h)
  PROVE  /\ Refers(alive', slot', held')
         /\ \A o \in Objects \ alive' : slot'[o] = Empty
         /\ Visible(slot', held') = Visible(s, h)
<1> DEFINE K == Kept(a, s, h)
<1>1. alive' = K /\ held' = h /\ slot' = [o \in Objects |-> IF o \in K THEN s[o] ELSE Empty]
  BY DEF Now
<1>2. K \subseteq a /\ K \subseteq Objects
  BY KeptIsAlive DEF Refers
<1>3. held' \in [Holders -> K \cup {None}]
  BY <1>1, KeptRefers DEF Refers
<1>4. ASSUME NEW o \in Objects PROVE slot'[o] \in [Slots -> K \cup {None}]
  <2>1. CASE o \in K
    <3>1. s[o] \in [Slots -> a \cup {None}]
      BY DEF Refers
    <3> QED BY <1>1, <2>1, <3>1, KeptRefers
  <2>2. CASE o \notin K
    BY <1>1, <2>2 DEF Empty
  <2> QED BY <2>1, <2>2
<1>5. \A o \in Reach(s, Outside(h)) : slot'[o] = s[o]
  BY <1>1, <1>2, KeptHoldsReach
<1>6. Visible(slot', h) = Visible(s, h)
  BY <1>5, VisibleDepends
<1> QED BY <1>1, <1>2, <1>3, <1>4, <1>6 DEF Refers

(***************************************************************************)
(* The collector                                                           *)
(***************************************************************************)

LEMMA TypeRefers ==
  ASSUME TypeOK
  PROVE  Refers(alive, slot, held)
BY DEF TypeOK, Refers

LEMMA RefsFinite ==
  ASSUME NEW S \in SUBSET Objects, NEW o
  PROVE  IsFiniteSet(RefsFrom(S, o))
<1>1. IsFiniteSet(S)
  BY CollectAssumption, FS_Subset
<1>2. IsFiniteSet(S \X Slots)
  BY <1>1, CollectAssumption, FS_Product
<1>3. RefsFrom(S, o) \subseteq S \X Slots
  BY DEF RefsFrom
<1> QED BY <1>2, <1>3, FS_Subset

LEMMA HoldersFinite ==
  ASSUME NEW o
  PROVE  IsFiniteSet({h \in Holders : held[h] = o})
BY CollectAssumption, FS_Subset

LEMMA NodesAlive ==
  ASSUME TypeOK
  PROVE  Nodes \subseteq alive
<1>1. ASSUME NEW o \in alive PROVE Children(slot, o) \subseteq alive
  BY <1>1, CollectAssumption DEF TypeOK, Children
<1>2. alive \in Closed(slot, alive \cap Containers)
  BY <1>1 DEF Closed, TypeOK
<1> QED BY <1>2, ReachIsLeast DEF Nodes

\* A node with a reference that the nodes do not hold is found.
LEMMA OutsideIsCounted ==
  ASSUME TypeOK, NEW o \in Nodes,
         \/ \E h \in Holders : held[h] = o
         \/ \E p \in alive \ Nodes, i \in Slots : slot[p][i] = o
  PROVE  o \in HeldOutside(Nodes)
<1> DEFINE all == RefsFrom(alive, o)
           inside == RefsFrom(Nodes, o)
           holding == {h \in Holders : held[h] = o}
<1>1. Nodes \subseteq alive /\ alive \subseteq Objects
  BY NodesAlive DEF TypeOK
<1>2. IsFiniteSet(all) /\ IsFiniteSet(inside) /\ IsFiniteSet(holding)
  BY <1>1, RefsFinite, HoldersFinite
<1>3. inside \subseteq all
  BY <1>1 DEF RefsFrom
<1>4. /\ Cardinality(all) \in Nat /\ Cardinality(inside) \in Nat /\ Cardinality(holding) \in Nat
      /\ Cardinality(inside) <= Cardinality(all)
      /\ Cardinality(inside) = Cardinality(all) => inside = all
  BY <1>2, <1>3, FS_Subset, FS_CardinalityType
<1>5. CASE \E h \in Holders : held[h] = o
  <2>1. Cardinality(holding) # 0
    BY <1>2, <1>5, FS_EmptySet
  <2> QED BY <1>4, <2>1 DEF HeldOutside, StrongCount
<1>6. CASE \E p \in alive \ Nodes, i \in Slots : slot[p][i] = o
  <2>. PICK p \in alive \ Nodes, i \in Slots : slot[p][i] = o
    BY <1>6
  <2>. <<p, i>> \in all
    BY DEF RefsFrom
  <2>. <<p, i>> \notin inside
    BY DEF RefsFrom
  <2>1. inside # all
    OBVIOUS
  <2> QED BY <1>4, <2>1 DEF HeldOutside, StrongCount
<1> QED BY <1>5, <1>6

LEMMA GarbageIsUnreached ==
  ASSUME TypeOK
  PROVE  Reach(slot, Outside(held)) \cap Garbage = {}
<1> DEFINE Safe == Live \cup (alive \ Nodes)
<1>1. Nodes \subseteq alive /\ alive \subseteq Objects /\ HeldOutside(Nodes) \subseteq Nodes
  BY NodesAlive DEF TypeOK, HeldOutside
<1>2. Live \in Closed(slot, HeldOutside(Nodes))
  BY ReachIsClosed DEF Live
<1>3. Live \subseteq Objects /\ HeldOutside(Nodes) \subseteq Live
  BY <1>1, <1>2 DEF Closed
<1>4. ASSUME NEW o \in alive,
             \/ \E h \in Holders : held[h] = o
             \/ \E p \in alive \ Nodes, i \in Slots : slot[p][i] = o
      PROVE  o \in Safe
  BY <1>3, <1>4, OutsideIsCounted
<1>5. Outside(held) \cap Objects \subseteq Safe
  <2>1. Outside(held) \cap Objects \subseteq alive
    BY CollectAssumption DEF TypeOK, Outside
  <2> QED BY <1>4, <2>1 DEF Outside
<1>6. ASSUME NEW o \in Safe PROVE Children(slot, o) \subseteq Safe
  <2>1. CASE o \in Live
    BY <1>2, <2>1, <1>3 DEF Closed
  <2>2. CASE o \in alive \ Nodes
    <3>1. Children(slot, o) \subseteq alive
      BY <2>2, CollectAssumption DEF TypeOK, Children
    <3> QED BY <1>4, <2>2, <3>1 DEF Children
  <2> QED BY <2>1, <2>2
<1>7. Safe \in Closed(slot, Outside(held))
  BY <1>1, <1>3, <1>5, <1>6 DEF Closed
<1>8. Reach(slot, Outside(held)) \subseteq Safe
  BY <1>7, ReachIsLeast
<1> QED BY <1>8 DEF Garbage

(***************************************************************************)
(* Each operation, as what it makes of the memory                          *)
(***************************************************************************)

\* Before the counts drop anything, nothing dangles either.
LEMMA NewRefers ==
  ASSUME TypeOK, NEW h \in Holders, NEW o \in Objects, o \notin alive,
         NEW contents \in [Slots -> Outside(held) \cup {None}]
  PROVE  Refers(alive \cup {o}, [slot EXCEPT ![o] = contents], [held EXCEPT ![h] = o])
<1>1. contents \in [Slots -> alive \cup {None}]
  BY DEF TypeOK, Outside
<1> QED BY <1>1 DEF TypeOK, Refers

LEMMA WriteRefers ==
  ASSUME TypeOK, NEW g \in Holders, NEW i \in Slots, NEW h \in Holders, held[g] \in Objects
  PROVE  Refers(alive, [slot EXCEPT ![held[g]][i] = held[h]], held)
<1>1. held[g] \in Objects /\ held[h] \in alive \cup {None}
  BY DEF TypeOK
<1>2. slot[held[g]] \in [Slots -> alive \cup {None}]
  BY <1>1 DEF TypeOK
<1>3. [slot[held[g]] EXCEPT ![i] = held[h]] \in [Slots -> alive \cup {None}]
  BY <1>1, <1>2
<1> QED BY <1>1, <1>3 DEF TypeOK, Refers

LEMMA LoadRefers ==
  ASSUME TypeOK, NEW h \in Holders, NEW g \in Holders, NEW i \in Slots, held[g] # None
  PROVE  Refers(alive, slot, [held EXCEPT ![h] = slot[held[g]][i]])
<1>1. held[g] \in Objects
  BY DEF TypeOK
<1>2. slot[held[g]][i] \in alive \cup {None}
  BY <1>1 DEF TypeOK
<1> QED BY <1>2 DEF TypeOK, Refers

LEMMA DropRefers ==
  ASSUME TypeOK, NEW h \in Holders
  PROVE  Refers(alive, slot, [held EXCEPT ![h] = None])
BY DEF TypeOK, Refers

LEMMA CollectRefers ==
  ASSUME TypeOK
  PROVE  Refers(alive, Cleared, held)
<1>1. ASSUME NEW o \in Objects PROVE Cleared[o] \in [Slots -> alive \cup {None}]
  <2>1. slot[o] \in [Slots -> alive \cup {None}] /\ slot[o][GvSlot] \in alive \cup {None}
    BY CollectAssumption DEF TypeOK
  <2>2. Emptied(o) \in [Slots -> alive \cup {None}]
    BY <2>1 DEF Emptied, Empty
  <2> QED BY <2>1, <2>2 DEF Cleared
<1>2. Cleared \in [Objects -> [Slots -> alive \cup {None}]]
  BY <1>1 DEF Cleared
<1> QED BY <1>2 DEF TypeOK, Refers

(***************************************************************************)
(* TypeOK                                                                  *)
(***************************************************************************)

\* Every VProc of a has its GVEnv.
HasGVEnv(a, s) == \A o \in a \cap VProcs : s[o][GvSlot] \in GVEnvs

LEMMA NowTypes ==
  ASSUME NEW a, NEW s, NEW h, Refers(a, s, h), HasGVEnv(a, s), Now(a, s, h),
         made' \in Nat, threshold' \in Nat
  PROVE  TypeOK'
<1>1. Refers(alive', slot', held') /\ \A o \in Objects \ alive' : slot'[o] = Empty
  BY NowShows
<1>2. alive' \subseteq a /\ a \subseteq Objects /\ \A o \in alive' : slot'[o] = s[o]
  BY KeptIsAlive DEF Now, Refers
<1>3. \A o \in alive' \cap VProcs : slot'[o][GvSlot] \in GVEnvs
  BY <1>2 DEF HasGVEnv
<1> QED BY <1>1, <1>3 DEF TypeOK, Refers

\* Nor is a GVEnv lost by a write.
LEMMA WriteKeeps ==
  ASSUME TypeOK, NEW g \in Holders, NEW i \in Slots, NEW h \in Holders,
         held[g] \in Objects, held[g] \in VProcs => i # GvSlot
  PROVE  HasGVEnv(alive, [slot EXCEPT ![held[g]][i] = held[h]])
<1> SUFFICES ASSUME NEW o \in alive \cap VProcs
             PROVE  [slot EXCEPT ![held[g]][i] = held[h]][o][GvSlot] \in GVEnvs
  BY DEF HasGVEnv
<1>1. slot[o] \in [Slots -> alive \cup {None}] /\ slot[o][GvSlot] \in GVEnvs /\ GvSlot \in Slots
  BY CollectAssumption DEF TypeOK
<1>2. CASE o = held[g]
  <2>1. [slot EXCEPT ![held[g]][i] = held[h]][o] = [slot[o] EXCEPT ![i] = held[h]]
    BY <1>2 DEF TypeOK
  <2> QED BY <1>1, <1>2, <2>1
<1>3. CASE o # held[g]
  BY <1>1, <1>3 DEF TypeOK
<1> QED BY <1>2, <1>3

LEMMA TypeStep ==
  ASSUME TypeOK, [Next]_vars
  PROVE  TypeOK'
<1> SUFFICES ASSUME TypeOK, [Next]_vars PROVE TypeOK'
  OBVIOUS
<1>0. made \in Nat /\ threshold \in Nat /\ HasGVEnv(alive, slot) /\ alive \subseteq Objects
  BY DEF TypeOK, HasGVEnv
<1>2. ASSUME NEW h \in Holders, NEW o \in Objects,
             NEW contents \in [Slots -> Outside(held) \cup {None}], New(h, o, contents)
      PROVE  TypeOK'
  <2>1. made' \in Nat /\ threshold' \in Nat
    BY <1>0, <1>2 DEF New
  <2>2. HasGVEnv(alive \cup {o}, [slot EXCEPT ![o] = contents])
    BY <1>0, <1>2 DEF HasGVEnv, New, TypeOK
  <2> QED BY <1>2, <2>1, <2>2, NewRefers, NowTypes DEF New
<1>3. ASSUME NEW h \in Holders, NEW g \in Holders, NEW i \in Slots, Set(g, i, h) \/ Splice(g, i, h)
      PROVE  TypeOK'
  <2>1. /\ held[g] \in Objects /\ (held[g] \in VProcs => i # GvSlot)
        /\ Now(alive, [slot EXCEPT ![held[g]][i] = held[h]], held)
        /\ made' = made /\ threshold' = threshold
    BY <1>3, CollectAssumption DEF Set, Splice, Writes
  <2> QED BY <1>0, <2>1, WriteRefers, WriteKeeps, NowTypes
<1>4. ASSUME NEW h \in Holders, NEW g \in Holders, NEW i \in Slots, Load(h, g, i)
      PROVE  TypeOK'
  <2>1. made' \in Nat /\ threshold' \in Nat
    BY <1>0, <1>4 DEF Load
  <2> QED BY <1>0, <1>4, <2>1, LoadRefers, NowTypes DEF Load
<1>5. ASSUME NEW h \in Holders, Drop(h)
      PROVE  TypeOK'
  <2>1. made' \in Nat /\ threshold' \in Nat
    BY <1>0, <1>5 DEF Drop
  <2> QED BY <1>0, <1>5, <2>1, DropRefers, NowTypes DEF Drop
<1>6. ASSUME Collect
      PROVE  TypeOK'
  <2>1. IsFiniteSet(Live \cap Containers)
    BY CollectAssumption, FS_Subset DEF Live, Reach
  <2>2. made' \in Nat /\ threshold' \in Nat
    BY <1>6, <2>1, FS_CardinalityType, CollectAssumption DEF Collect, NextThreshold, Survivors
  <2>3. HasGVEnv(alive, Cleared)
    <3>1. ASSUME NEW o \in alive \cap VProcs PROVE Cleared[o][GvSlot] = slot[o][GvSlot]
      BY <1>0, CollectAssumption DEF Cleared, Emptied, Empty
    <3> QED BY <1>0, <3>1 DEF HasGVEnv
  <2> QED BY <1>6, <2>2, <2>3, CollectRefers, NowTypes DEF Collect
<1>7. ASSUME UNCHANGED vars
      PROVE  TypeOK'
  BY <1>7 DEF vars, TypeOK
<1> QED BY <1>2, <1>3, <1>4, <1>5, <1>6, <1>7 DEF Next

LEMMA TypeInit ==
  ASSUME Init
  PROVE  TypeOK
BY CollectAssumption DEF Init, TypeOK, Empty

\* Nothing that is referred to is ever dropped: Rc and clear() agree.
THEOREM TypeCorrect == Spec => []TypeOK
<1>1. Init => TypeOK
  BY TypeInit
<1>2. TypeOK /\ [Next]_vars => TypeOK'
  BY TypeStep
<1> QED BY <1>1, <1>2, PTL DEF Spec

(***************************************************************************)
(* The promise                                                             *)
(***************************************************************************)

Seen == Visible(slot, held)

LEMMA SeenWhereReached ==
  /\ \A o \in Reach(slot, Outside(held)) : Seen[o] = slot[o]
  /\ Reach(Seen, Outside(held)) = Reach(slot, Outside(held))
<1>1. \A o \in Reach(slot, Outside(held)) : Seen[o] = slot[o]
  BY DEF Seen, Visible, Reach
<1> QED BY <1>1, ReachDepends

LEMMA HeldIsReached ==
  ASSUME TypeOK
  PROVE  /\ Outside(held) \cap Objects \subseteq Reach(slot, Outside(held))
         /\ \A h \in Holders : held[h] # None => held[h] \in Reach(slot, Outside(held))
         /\ \A o \in Reach(slot, Outside(held)) : Children(slot, o) \subseteq Reach(slot, Outside(held))
<1>1. Reach(slot, Outside(held)) \in Closed(slot, Outside(held))
  BY ReachIsClosed
<1>2. Outside(held) \cap Objects \subseteq Reach(slot, Outside(held))
  BY <1>1 DEF Closed
<1>3. \A h \in Holders : held[h] # None => held[h] \in Objects /\ held[h] \in Outside(held)
  BY DEF TypeOK, Outside
<1> QED BY <1>1, <1>2, <1>3 DEF Closed, Reach

\* A new value can not be one that is seen, and what is seen then is what was
\* seen and the new value.
LEMMA NewIsMake ==
  ASSUME TypeOK, NEW h \in Holders, NEW o \in Objects,
         NEW contents \in [Slots -> Outside(held) \cup {None}], New(h, o, contents)
  PROVE  /\ o \notin Reach(Seen, Outside(held))
         /\ held' = [held EXCEPT ![h] = o]
         /\ Seen' = Visible([Seen EXCEPT ![o] = contents], held')
<1> DEFINE R == Reach(slot, Outside(held))
           C == R \cup {o}
           s == [slot EXCEPT ![o] = contents]
           t == [Seen EXCEPT ![o] = contents]
           k == [held EXCEPT ![h] = o]
<1>1. o \notin R
  BY TypeRefers, ReachIsAlive DEF New
<1>2. Refers(alive \cup {o}, s, k) /\ Now(alive \cup {o}, s, k)
  BY NewRefers DEF New
<1>3. held' = k /\ Seen' = Visible(s, k)
  BY <1>2, NowShows DEF Seen, Now
<1>4. ASSUME NEW p \in C PROVE t[p] = s[p] /\ Children(s, p) \subseteq C
  <2>1. CASE p = o
    <3>1. s[p] = contents /\ t[p] = contents
      BY <2>1 DEF TypeOK, Seen, Visible
    <3>2. Children(s, p) \subseteq Outside(held) \cap Objects
      BY <3>1, CollectAssumption DEF Children
    <3> QED BY <3>1, <3>2, HeldIsReached
  <2>2. CASE p \in R /\ p # o
    <3>1. s[p] = slot[p] /\ t[p] = slot[p]
      BY <2>2, SeenWhereReached DEF TypeOK, Seen, Visible, Reach
    <3> QED BY <3>1, <2>2, HeldIsReached DEF Children
  <2> QED BY <2>1, <2>2, <1>4
<1>5. Outside(k) \cap Objects \subseteq C
  BY HeldIsReached DEF Outside, TypeOK
<1>6. C \in Closed(s, Outside(k))
  BY <1>4, <1>5, ZenonT(60) DEF Closed, Reach
<1>7. Visible(t, k) = Visible(s, k)
  <2>1. \A p \in C : t[p] = s[p]
    BY <1>4
  <2> HIDE DEF C, s, t, k
  <2> QED BY <1>6, <2>1, VisibleOfClosed
<1> QED BY <1>1, <1>3, <1>7, SeenWhereReached

LEMMA WriteIsPut ==
  ASSUME TypeOK, NEW g \in Holders, NEW i \in Slots, NEW h \in Holders,
         Set(g, i, h) \/ Splice(g, i, h)
  PROVE  /\ held[g] # None
         /\ held' = held
         /\ Seen' = Visible([Seen EXCEPT ![held[g]][i] = held[h]], held)
<1> DEFINE R == Reach(slot, Outside(held))
           s == [slot EXCEPT ![held[g]][i] = held[h]]
           t == [Seen EXCEPT ![held[g]][i] = held[h]]
<1>1. held[g] \in Objects /\ held[g] # None /\ held[g] \in R
  BY CollectAssumption, HeldIsReached DEF Set, Splice, TypeOK
<1>2. Refers(alive, s, held) /\ Now(alive, s, held)
  BY <1>1, WriteRefers DEF Set, Splice, Writes
<1>3. held' = held /\ Seen' = Visible(s, held)
  BY <1>2, NowShows DEF Seen, Now
<1>4. ASSUME NEW p \in R PROVE t[p] = s[p] /\ Children(s, p) \subseteq R
  <2>1. p \in Objects /\ Seen[p] = slot[p]
    BY <1>4, SeenWhereReached DEF Reach
  <2>2. t[p] = s[p]
    BY <2>1, <1>1 DEF TypeOK, Seen, Visible
  <2>3. Children(s, p) \subseteq Children(slot, p) \cup (Outside(held) \cap Objects)
    <3>1. CASE p = held[g]
      <4>1. s[p] = [slot[p] EXCEPT ![i] = held[h]]
        BY <3>1, <1>1 DEF TypeOK
      <4>2. slot[p] \in [Slots -> alive \cup {None}]
        BY <2>1 DEF TypeOK
      <4>3. \A j \in Slots : s[p][j] = slot[p][j] \/ s[p][j] = held[h]
        BY <4>1, <4>2
      <4> QED BY <4>3 DEF Children, Outside
    <3>2. CASE p # held[g]
      BY <3>2, <2>1 DEF Children, TypeOK
    <3> QED BY <3>1, <3>2
  <2> QED BY <2>2, <2>3, <1>4, HeldIsReached
<1>5. R \in Closed(s, Outside(held))
  BY <1>4, HeldIsReached DEF Closed, Reach
<1>6. Visible(t, held) = Visible(s, held)
  <2>1. \A p \in R : t[p] = s[p]
    BY <1>4
  <2> HIDE DEF R, s, t
  <2> QED BY <1>5, <2>1, VisibleOfClosed
<1> QED BY <1>1, <1>3, <1>6

\* The holders k see no more than the holders did.
LEMMA ViewShrinks ==
  ASSUME TypeOK, NEW k,
         Outside(k) \cap Objects \subseteq Reach(slot, Outside(held))
  PROVE  Visible(Seen, k) = Visible(slot, k)
<1> DEFINE R == Reach(slot, Outside(held))
<1>1. R \in Closed(slot, Outside(k))
  BY HeldIsReached DEF Closed, Reach
<1> QED BY <1>1, SeenWhereReached, VisibleOfClosed

LEMMA LoadIsGet ==
  ASSUME TypeOK, NEW h \in Holders, NEW g \in Holders, NEW i \in Slots, Load(h, g, i)
  PROVE  /\ held[g] # None
         /\ held' = [held EXCEPT ![h] = Seen[held[g]][i]]
         /\ Seen' = Visible(Seen, held')
<1> DEFINE k == [held EXCEPT ![h] = slot[held[g]][i]]
<1>1. held[g] \in Reach(slot, Outside(held)) /\ held[g] # None
  BY HeldIsReached DEF Load
<1>2. Seen[held[g]][i] = slot[held[g]][i]
  BY <1>1, SeenWhereReached
<1>3. held' = k /\ Seen' = Visible(slot, k)
  BY LoadRefers, NowShows DEF Load, Seen, Now
<1>4. Outside(k) \cap Objects \subseteq Reach(slot, Outside(held))
  <2>1. ASSUME NEW x \in Holders, k[x] \in Objects PROVE k[x] \in Reach(slot, Outside(held))
    <3>1. k[x] \in Outside(held) \cup Children(slot, held[g])
      BY <2>1 DEF Children, Outside, TypeOK
    <3> QED BY <3>1, <2>1, <1>1, HeldIsReached
  <2> QED BY <2>1 DEF Outside
<1> QED BY <1>1, <1>2, <1>3, <1>4, ViewShrinks

LEMMA DropIsForget ==
  ASSUME TypeOK, NEW h \in Holders, Drop(h)
  PROVE  /\ held' = [held EXCEPT ![h] = None]
         /\ Seen' = Visible(Seen, held')
<1> DEFINE k == [held EXCEPT ![h] = None]
<1>1. held' = k /\ Seen' = Visible(slot, k)
  BY DropRefers, NowShows DEF Drop, Seen, Now
<1>2. Outside(k) \cap Objects \subseteq Outside(held) \cap Objects
  BY CollectAssumption DEF Outside, TypeOK
<1> QED BY <1>1, <1>2, HeldIsReached, ViewShrinks

LEMMA CollectIsUnseen ==
  ASSUME TypeOK, Collect
  PROVE  held' = held /\ Seen' = Seen
<1>1. held' = held /\ Seen' = Visible(Cleared, held)
  BY CollectRefers, NowShows DEF Collect, Seen, Now
<1>2. \A o \in Reach(slot, Outside(held)) : Cleared[o] = slot[o]
  BY GarbageIsUnreached DEF Cleared, Reach
<1> QED BY <1>1, <1>2, VisibleDepends DEF Seen

\* Heap's copies of the operators of References are the same operators.
LEMMA SameReach ==
  ASSUME NEW s, NEW from
  PROVE  Promised!Reach(s, from) = Reach(s, from)
BY DEF Promised!Reach, Promised!Closed, Promised!Children, Reach, Closed, Children

LEMMA SameVisible ==
  ASSUME NEW s, NEW h
  PROVE  Promised!Visible(s, h) = Visible(s, h) /\ Promised!Outside(h) = Outside(h)
BY SameReach DEF Promised!Visible, Promised!Outside, Promised!Empty, Visible, Outside, Empty

LEMMA PromiseStep ==
  ASSUME TypeOK, [Next]_vars
  PROVE  [Promised!Next]_(Promised!vars)
<1>1. Seen = Visible(slot, held) /\ Seen' = Visible(slot', held')
  BY DEF Seen
<1>2. ASSUME NEW h \in Holders, NEW o \in Objects,
             NEW contents \in [Slots -> Outside(held) \cup {None}], New(h, o, contents)
      PROVE  Promised!Next
  <2>1. o \in Promised!Unused
    BY <1>1, <1>2, NewIsMake, SameReach, SameVisible DEF Promised!Unused
  <2>2. Promised!Make(h, o, contents)
    BY <1>1, <1>2, NewIsMake, SameVisible DEF Promised!Make, Promised!Now
  <2> QED BY <2>1, <2>2, SameVisible DEF Promised!Next
<1>3. ASSUME NEW h \in Holders, NEW g \in Holders, NEW i \in Slots, Set(g, i, h) \/ Splice(g, i, h)
      PROVE  Promised!Next
  <2>1. Promised!Put(g, i, h)
    BY <1>1, <1>3, WriteIsPut, SameVisible DEF Promised!Put, Promised!Now
  <2> QED BY <2>1 DEF Promised!Next
<1>4. ASSUME NEW h \in Holders, NEW g \in Holders, NEW i \in Slots, Load(h, g, i)
      PROVE  Promised!Next
  <2>1. Promised!Get(h, g, i)
    BY <1>1, <1>4, LoadIsGet, SameVisible DEF Promised!Get, Promised!Now
  <2> QED BY <2>1 DEF Promised!Next
<1>5. ASSUME NEW h \in Holders, Drop(h)
      PROVE  Promised!Next
  <2>1. Promised!Forget(h)
    BY <1>1, <1>5, DropIsForget, SameVisible DEF Promised!Forget, Promised!Now
  <2> QED BY <2>1 DEF Promised!Next
<1>6. ASSUME Collect
      PROVE  UNCHANGED Promised!vars
  BY <1>1, <1>6, CollectIsUnseen DEF Promised!vars
<1>7. ASSUME UNCHANGED vars
      PROVE  UNCHANGED Promised!vars
  BY <1>1, <1>7 DEF vars, Promised!vars
<1> QED BY <1>2, <1>3, <1>4, <1>5, <1>6, <1>7 DEF Next

LEMMA PromiseInit ==
  ASSUME Init
  PROVE  Promised!Init
BY DEF Init, Promised!Init, Visible, Empty, Promised!Empty

\* The program never notices the collector: counting references inside the
\* graph and from everywhere finds every value that is reached from outside
\* (gc.rs:1-11), whatever the values and their references are.
THEOREM CollectorIsUnseen == Spec => KeepsPromise
<1>1. Init => Promised!Init
  BY PromiseInit
<1>2. TypeOK /\ [Next]_vars => [Promised!Next]_(Promised!vars)
  BY PromiseStep
<1> QED BY <1>1, <1>2, TypeCorrect, PTL DEF Spec, Promised!Spec, KeepsPromise

(***************************************************************************)
(* Nothing that is not reached outlives a collection.  What stays is       *)
(* referred to (Counted), so it could only stay for a cycle, and a cycle   *)
(* goes through a container, because a value that does not change refers   *)
(* to older ones (Rooted).                                                 *)
(***************************************************************************)

\* Among any values that do not change is one that none of them refers to.
RootedIn(a, s) ==
  \A S \in SUBSET (a \ Containers) : S # {} => \E o \in S : \A p \in S, i \in Slots : s[p][i] # o

Rooted == RootedIn(alive, slot)

\* Every value is kept by a holder or by a value.
Counted == \A o \in alive : o \in Outside(held) \/ \E p \in alive, i \in Slots : slot[p][i] = o

CycleInv == Rooted /\ Counted

LEMMA NowCycles ==
  ASSUME NEW a, NEW s, NEW h, Refers(a, s, h), Now(a, s, h), RootedIn(a, s)
  PROVE  CycleInv'
<1>1. alive' = Kept(a, s, h) /\ held' = h /\ alive' \subseteq a
      /\ \A o \in alive' : slot'[o] = s[o]
  BY KeptIsAlive DEF Now, Refers
<1>2. Rooted'
  BY <1>1, SMTT(30) DEF Rooted, RootedIn
<1>3. Counted'
  BY <1>1, KeptIsCounted DEF Counted
<1> QED BY <1>2, <1>3 DEF CycleInv

\* Nothing refers to a value that is made, so it makes no cycle.
LEMMA NewRooted ==
  ASSUME TypeOK, Rooted, NEW o \in Objects, o \notin alive,
         NEW contents \in [Slots -> Outside(held) \cup {None}]
  PROVE  RootedIn(alive \cup {o}, [slot EXCEPT ![o] = contents])
<1> DEFINE s == [slot EXCEPT ![o] = contents]
<1>1. \A p \in alive \cup {o}, i \in Slots : s[p][i] # o
  <2>1. \A i \in Slots : contents[i] \in alive \cup {None}
    BY DEF TypeOK, Outside
  <2>2. \A p \in alive, i \in Slots : slot[p][i] \in alive \cup {None}
    BY DEF TypeOK
  <2> QED BY <2>1, <2>2, CollectAssumption DEF TypeOK
<1>2. \A p \in alive : s[p] = slot[p]
  BY DEF TypeOK
<1> SUFFICES ASSUME NEW S \in SUBSET ((alive \cup {o}) \ Containers), S # {}
             PROVE  \E x \in S : \A p \in S, i \in Slots : s[p][i] # x
  BY DEF RootedIn
<1>3. CASE o \in S
  BY <1>1, <1>3
<1>4. CASE o \notin S
  <2>1. S \in SUBSET (alive \ Containers)
    BY <1>4
  <2>2. PICK x \in S : \A p \in S, i \in Slots : slot[p][i] # x
    BY <2>1 DEF Rooted, RootedIn
  <2> QED BY <1>2, <2>1, <2>2
<1> QED BY <1>3, <1>4

\* What is written to containers, or cleared, is no reference of other values.
LEMMA ContainersRooted ==
  ASSUME Rooted, NEW s, \A o \in alive \ Containers : s[o] = slot[o]
  PROVE  RootedIn(alive, s)
<1> SUFFICES ASSUME NEW S \in SUBSET (alive \ Containers), S # {}
             PROVE  \E x \in S : \A p \in S, i \in Slots : s[p][i] # x
  BY DEF RootedIn
<1>1. PICK x \in S : \A p \in S, i \in Slots : slot[p][i] # x
  BY DEF Rooted, RootedIn
<1>2. \A p \in S : s[p] = slot[p]
  OBVIOUS
<1> QED BY <1>1, <1>2

\* Nor does a continuation that gets a reference to what does not refer back.
LEMMA SpliceRooted ==
  ASSUME TypeOK, Rooted, NEW g \in Holders, NEW i \in Slots, NEW h \in Holders, Splice(g, i, h)
  PROVE  RootedIn(alive, [slot EXCEPT ![held[g]][i] = held[h]])
<1> DEFINE x == held[g]
           y == held[h]
           s == [slot EXCEPT ![x][i] = y]
           B == Behind(y)
           fixed == [p \in Objects |-> IF p \in Containers THEN Empty ELSE slot[p]]
<1>1. x \in Objects /\ x \notin B /\ B \in Closed(fixed, {y})
  BY CollectAssumption, ReachIsClosed DEF Splice, Behind
<1>2. ASSUME NEW p \in B, p \notin Containers, NEW j \in Slots, slot[p][j] \in Objects
      PROVE  slot[p][j] \in B
  <2>1. Children(fixed, p) \subseteq B /\ p \in Objects
    BY <1>1, <1>2 DEF Closed
  <2>2. fixed[p] = slot[p]
    BY <1>2, <2>1
  <2> QED BY <1>2, <2>1, <2>2 DEF Children
<1>3. y \in Objects => y \in B
  BY <1>1 DEF Closed
<1>4. ASSUME NEW p \in alive, NEW j \in Slots PROVE s[p][j] = slot[p][j] \/ (p = x /\ s[p][j] = y)
  <2>1. slot[p] \in [Slots -> alive \cup {None}]
    BY DEF TypeOK
  <2>2. CASE p = x
    <3>1. s[p] = [slot[p] EXCEPT ![i] = y]
      BY <2>2, <1>1 DEF TypeOK
    <3> QED BY <2>1, <2>2, <3>1
  <2>3. CASE p # x
    BY <2>3, <1>1 DEF TypeOK
  <2> QED BY <2>2, <2>3
<1> HIDE DEF x, y, s, B
<1> SUFFICES ASSUME NEW S \in SUBSET (alive \ Containers), S # {},
                    \A o \in S : \E p \in S, j \in Slots : s[p][j] = o
             PROVE  FALSE
  BY DEF RootedIn, s, x, y
<1> DEFINE T == S \ B
<1>5. alive \subseteq Objects
  BY DEF TypeOK
<1>6. ASSUME NEW o \in T PROVE \E p \in T, j \in Slots : slot[p][j] = o
  <2>1. PICK p \in S, j \in Slots : s[p][j] = o
    OBVIOUS
  <2>2. o \in Objects /\ o \notin B
    BY <1>5
  <2>3. slot[p][j] = o
    BY <2>1, <2>2, <1>3, <1>4
  <2>4. p \notin B
    BY <1>2, <2>2, <2>3
  <2> QED BY <2>3, <2>4
<1>7. T \in SUBSET (alive \ Containers)
  OBVIOUS
<1> HIDE DEF T
<1>0. \A U \in SUBSET (alive \ Containers) :
        U # {} => \E o \in U : \A p \in U, j \in Slots : slot[p][j] # o
  BY DEF Rooted, RootedIn
<1>8. T = {}
  BY ONLY <1>0, <1>6, <1>7
<1>9. S \subseteq B /\ x \notin S
  BY <1>1, <1>8 DEF T
<1>10. \A o \in S : \E p \in S, j \in Slots : slot[p][j] = o
  BY <1>4, <1>9
<1>11. S \in SUBSET (alive \ Containers) /\ S # {}
  OBVIOUS
<1> QED BY ONLY <1>0, <1>10, <1>11

LEMMA CycleStep ==
  ASSUME TypeOK, CycleInv, [Next]_vars
  PROVE  CycleInv'
<1>0. Rooted
  BY DEF CycleInv
<1>1. ASSUME NEW h \in Holders, NEW o \in Objects,
             NEW contents \in [Slots -> Outside(held) \cup {None}], New(h, o, contents)
      PROVE  CycleInv'
  BY <1>0, <1>1, NewRefers, NewRooted, NowCycles DEF New
<1>2. ASSUME NEW h \in Holders, NEW g \in Holders, NEW i \in Slots, Set(g, i, h)
      PROVE  CycleInv'
  <2>1. \A o \in alive \ Containers : [slot EXCEPT ![held[g]][i] = held[h]][o] = slot[o]
    BY <1>2 DEF Set, TypeOK
  <2>2. held[g] \in Objects
    BY <1>2, CollectAssumption DEF Set
  <2> QED BY <1>0, <1>2, <2>1, <2>2, WriteRefers, ContainersRooted, NowCycles DEF Set, Writes
<1>7. ASSUME NEW h \in Holders, NEW g \in Holders, NEW i \in Slots, Splice(g, i, h)
      PROVE  CycleInv'
  <2>1. held[g] \in Objects
    BY <1>7, CollectAssumption DEF Splice
  <2> QED BY <1>0, <1>7, <2>1, WriteRefers, SpliceRooted, NowCycles DEF Splice, Writes
<1>3. ASSUME NEW h \in Holders, NEW g \in Holders, NEW i \in Slots, Load(h, g, i)
      PROVE  CycleInv'
  BY <1>0, <1>3, LoadRefers, NowCycles DEF Load, Rooted
<1>4. ASSUME NEW h \in Holders, Drop(h)
      PROVE  CycleInv'
  BY <1>0, <1>4, DropRefers, NowCycles DEF Drop, Rooted
<1>5. ASSUME Collect
      PROVE  CycleInv'
  <2>1. \A o \in alive \ Containers : Cleared[o] = slot[o]
    BY DEF Cleared, Garbage, TypeOK
  <2> QED BY <1>0, <1>5, <2>1, CollectRefers, ContainersRooted, NowCycles DEF Collect
<1>6. ASSUME UNCHANGED vars
      PROVE  CycleInv'
  BY <1>6 DEF vars, CycleInv, Rooted, Counted
<1> QED BY <1>1, <1>2, <1>3, <1>4, <1>5, <1>6, <1>7 DEF Next

\* A reference of o from a value is one that is counted inside, unless the
\* value is no node.
LEMMA CountedOutside ==
  ASSUME TypeOK, NEW o \in HeldOutside(Nodes)
  PROVE  \/ \E h \in Holders : held[h] = o
         \/ \E p \in alive \ Nodes, i \in Slots : slot[p][i] = o
<1> SUFFICES ASSUME \A h \in Holders : held[h] # o,
                    \A p \in alive \ Nodes, i \in Slots : slot[p][i] # o
             PROVE  FALSE
  OBVIOUS
<1>1. RefsFrom(alive, o) = RefsFrom(Nodes, o)
  BY NodesAlive DEF RefsFrom
<1>2. {h \in Holders : held[h] = o} = {}
  OBVIOUS
<1>3. Cardinality({h \in Holders : held[h] = o}) = 0
  BY <1>2, FS_EmptySet
<1>4. Cardinality(RefsFrom(Nodes, o)) \in Nat
  BY NodesAlive, RefsFinite, FS_CardinalityType DEF TypeOK
<1> QED BY <1>1, <1>3, <1>4 DEF HeldOutside, StrongCount

\* A value that is no node is reached: nothing but values like it keeps it.
LEMMA OthersAreReached ==
  ASSUME TypeOK, CycleInv
  PROVE  alive \ Nodes \subseteq Reach(slot, Outside(held))
<1> DEFINE R == Reach(slot, Outside(held))
           Q == (alive \ Nodes) \ R
<1>1. alive \cap Containers \subseteq Nodes /\ \A p \in Nodes : Children(slot, p) \subseteq Nodes
  BY ReachIsClosed, CollectAssumption DEF Nodes, Closed, TypeOK
<1>2. ASSUME NEW o \in Q PROVE \E p \in Q, i \in Slots : slot[p][i] = o
  <2>1. o \in Objects /\ o \notin Outside(held)
    BY HeldIsReached DEF TypeOK
  <2>2. PICK p \in alive, i \in Slots : slot[p][i] = o
    BY <2>1 DEF CycleInv, Counted
  <2>3. o \in Children(slot, p)
    BY <2>1, <2>2 DEF Children
  <2>4. p \notin Nodes /\ p \notin R
    BY <1>1, <2>3, HeldIsReached
  <2> QED BY <2>2, <2>4
<1>3. Q \in SUBSET (alive \ Containers)
  BY <1>1
<1> QED BY <1>2, <1>3 DEF CycleInv, Rooted, RootedIn

\* What collect() takes for live is reached.
LEMMA LiveIsReached ==
  ASSUME TypeOK, CycleInv
  PROVE  Live \subseteq Reach(slot, Outside(held))
<1> DEFINE R == Reach(slot, Outside(held))
<1>1. \A p \in R : Children(slot, p) \subseteq R
  BY HeldIsReached
<1>2. ASSUME NEW o \in HeldOutside(Nodes), o \in Objects PROVE o \in R
  <2>1. CASE \E h \in Holders : held[h] = o
    BY <1>2, <2>1, HeldIsReached DEF Outside
  <2>2. CASE \E p \in alive \ Nodes, i \in Slots : slot[p][i] = o
    BY <1>1, <1>2, <2>2, OthersAreReached DEF Children
  <2> QED BY <2>1, <2>2, CountedOutside
<1>3. R \in Closed(slot, HeldOutside(Nodes))
  BY <1>1, <1>2 DEF Closed, Reach
<1> QED BY <1>3, ReachIsLeast DEF Live

LEMMA CollectTakesAll ==
  ASSUME TypeOK, CycleInv, Collect
  PROVE  alive' = Reach(slot', Outside(held'))
<1> DEFINE R == Reach(slot, Outside(held))
           Z == alive' \ R
<1>1. /\ alive' = Kept(alive, Cleared, held) /\ held' = held /\ alive' \subseteq alive
      /\ \A o \in alive' : o \in Objects /\ slot'[o] = Cleared[o]
  BY KeptIsAlive DEF Collect, Now, TypeOK
<1>2. Reach(Cleared, Outside(held)) = R
  <2>1. \A o \in R : Cleared[o] = slot[o]
    BY GarbageIsUnreached DEF Cleared, Reach
  <2> QED BY <2>1, ReachDepends
<1>3. R \subseteq alive'
  BY <1>1, <1>2, CollectRefers, KeptHoldsReach
<1>4. Reach(slot', Outside(held')) = R
  <2>1. \A o \in Reach(Cleared, Outside(held)) : slot'[o] = Cleared[o]
    BY <1>1, <1>2, <1>3
  <2> QED BY <1>1, <1>2, <2>1, ReachDepends
<1>5. ASSUME NEW o \in alive \cap Containers, o \notin R, NEW i \in Slots, Cleared[o][i] \in Objects
      PROVE  o \in VProcs /\ Cleared[o][i] \in GVEnvs
  <2>1. alive \cap Containers \subseteq Nodes
    BY ReachIsClosed, CollectAssumption DEF Nodes, Closed
  <2>2. o \in Objects /\ Cleared[o] = Emptied(o)
    BY <1>5, <2>1, LiveIsReached DEF Garbage, Cleared, TypeOK
  <2>3. Cleared[o][i] # None
    BY <1>5, CollectAssumption
  <2>4. o \in VProcs /\ i = GvSlot
    BY <2>2, <2>3 DEF Emptied, Empty
  <2>5. Cleared[o][i] = slot[o][GvSlot]
    BY <2>2, <2>4 DEF Emptied, Empty
  <2> QED BY <2>4, <2>5 DEF TypeOK
<1>6. \A o \in alive \ Containers : Cleared[o] = slot[o]
  BY DEF Cleared, Garbage, TypeOK
<1>7. ASSUME NEW o \in Z
      PROVE  \E p \in Z : \/ p \notin Containers /\ \E i \in Slots : slot[p][i] = o
                          \/ p \in VProcs /\ o \in GVEnvs
  <2>1. o \in Objects /\ o \notin Outside(held)
    BY <1>1, HeldIsReached
  <2>2. PICK p \in alive', i \in Slots : Cleared[p][i] = o
    BY <1>1, <1>7, <2>1, KeptIsCounted
  <2>3. p \notin R
    <3>1. R \in Closed(Cleared, Outside(held))
      BY <1>2, ReachIsClosed
    <3>2. o \in Children(Cleared, p)
      BY <2>1, <2>2 DEF Children
    <3> QED BY <1>7, <3>1, <3>2 DEF Closed
  <2>4. p \in Z /\ p \in alive
    BY <1>1, <2>3
  <2>5. CASE p \in Containers
    BY <1>5, <2>1, <2>2, <2>3, <2>4, <2>5
  <2>6. CASE p \notin Containers
    <3>1. Cleared[p] = slot[p]
      BY ONLY <1>6, <2>4, <2>6
    <3> QED BY ONLY <2>2, <2>4, <2>6, <3>1
  <2> QED BY <2>4, <2>5, <2>6
<1>8. Z \ Containers = {}
  <2> DEFINE Y == Z \ Containers
  <2>1. Y \in SUBSET (alive \ Containers)
    BY <1>1
  <2>2. \A o \in Y : \E p \in Y, i \in Slots : slot[p][i] = o
    BY <1>7, CollectAssumption
  <2>3. \A S \in SUBSET (alive \ Containers) :
          S # {} => \E o \in S : \A p \in S, i \in Slots : slot[p][i] # o
    BY DEF CycleInv, Rooted, RootedIn
  <2> HIDE DEF Y
  <2>4. Y = {}
    BY <2>1, <2>2, <2>3
  <2> QED BY <2>4 DEF Y
<1>9. Z = {}
  <2>1. \A o \in Z : o \in GVEnvs /\ \E p \in Z : p \in VProcs
    BY <1>7, <1>8
  <2> QED BY <2>1, CollectAssumption
<1> QED BY <1>3, <1>4, <1>9

\* collect() leaves no value that the program can not reach: no cycle through
\* whatever containers and values outlives it.
THEOREM CollectorIsComplete == Spec => CollectsAll
<1>1. Init => CycleInv
  BY DEF Init, CycleInv, Rooted, RootedIn, Counted
<1>2. TypeOK /\ CycleInv /\ [Next]_vars => CycleInv'
  BY CycleStep
<1>3. TypeOK /\ CycleInv /\ [Next]_vars =>
        [made' < made => alive' = Reach(slot', Outside(held'))]_vars
  <2> SUFFICES ASSUME TypeOK, CycleInv, Next, made' < made
               PROVE  alive' = Reach(slot', Outside(held'))
    BY DEF vars
  <2>1. made \in Nat
    BY DEF TypeOK
  <2>2. ASSUME NEW h \in Holders, NEW g \in Holders, NEW i \in Slots
        PROVE  ~Set(g, i, h) /\ ~Splice(g, i, h) /\ ~Load(h, g, i)
    BY <2>1 DEF Set, Splice, Writes, Load
  <2>3. ASSUME NEW h, NEW o, NEW contents
        PROVE  ~New(h, o, contents)
    BY <2>1 DEF New
  <2>4. ASSUME NEW h \in Holders
        PROVE  ~Drop(h)
    BY <2>1 DEF Drop
  <2>5. Collect
    BY <2>2, <2>3, <2>4 DEF Next
  <2> QED BY <2>5, CollectTakesAll
<1> QED BY <1>1, <1>2, <1>3, TypeCorrect, PTL DEF Spec, CollectsAll
=============================================================================
