------------------------------- MODULE Collect -------------------------------
(***************************************************************************)
(* The memory of the Rust VM: values are counted (Rc), and gc.rs collects  *)
(* the cycles.  It does not know the roots: it counts, for each value that *)
(* a mutable container reaches, the references from such values, and takes *)
(* a value with more references than these for one that is reached from    *)
(* outside.  A step of a VProc is any number of the operations below, and  *)
(* collect() runs between two steps when enough containers were made.      *)
(*                                                                         *)
(* Abstracted: what a value is, but for the values it refers to and        *)
(* whether they may change, and the GVEnv of a VProc.  Between two steps   *)
(* no RefCell is borrowed, so that children() sees them all;               *)
(* CONMA_GC_THRESHOLD is not set.                                          *)
(***************************************************************************)
EXTENDS References, Integers, FiniteSets

CONSTANTS
  Containers,   \* Ref, MSeq, Dict, VProc, GVEnv: the registry has them
  VProcs, GVEnvs, GvSlot, \* VProc::gvenv is always there and never changes
  Conts,        \* the values whose reference a Rust call changes when it is left
  MinThreshold, \* MIN_THRESHOLD
  MaxMade       \* bound on made: a step ends

ASSUME CollectAssumption ==
  /\ IsFiniteSet(Objects) /\ IsFiniteSet(Slots) /\ IsFiniteSet(Holders)
  /\ Containers \subseteq Objects /\ None \notin Objects
  /\ VProcs \subseteq Containers /\ GVEnvs \subseteq Containers \ VProcs /\ GvSlot \in Slots
  /\ Conts \subseteq Objects \ Containers
  /\ MinThreshold \in Nat \ {0} /\ MaxMade \in Nat

VARIABLES
  alive,      \* the values that are not dropped
  slot,       \* the references of each
  held,       \* the references of the scheduler, the running VProc, Rust code
  made,       \* MADE
  threshold   \* THRESHOLD

vars == <<alive, slot, held, made, threshold>>

Promised == INSTANCE Heap WITH seen <- Visible(slot, held)

\* Fault: the references from values are weak.
KeptByHolders(a, s, h) == {o \in a : o \in Outside(h)}

\* After the Rc drops the values nobody counts: a value stays when a holder or
\* a value that stays refers to it.  A cycle keeps itself.
Kept(a, s, h) ==
  UNION {S \in SUBSET a :
           \A o \in S : o \in Outside(h) \/ \E p \in S, i \in Slots : s[p][i] = o}

Now(a, s, h) ==
  /\ alive' = Kept(a, s, h)
  /\ slot' = [o \in Objects |-> IF o \in alive' THEN s[o] ELSE Empty]
  /\ held' = h

Init ==
  /\ alive = {} /\ slot = [o \in Objects |-> Empty] /\ held = [h \in Holders |-> None]
  /\ made = 0 /\ threshold = MinThreshold

\* A value made from what is held, counted when it is a container: new_ref,
\* new_mseq, new_dict, new_vproc, new_gvenv.
New(h, o, contents) ==
  /\ o \notin alive
  /\ o \in VProcs => contents[GvSlot] \in GVEnvs
  /\ made < MaxMade
  /\ Now(alive \cup {o}, [slot EXCEPT ![o] = contents], [held EXCEPT ![h] = o])
  /\ made' = IF o \in Containers THEN made + 1 ELSE made
  /\ UNCHANGED threshold

Writes(g, i, h) ==
  /\ Now(alive, [slot EXCEPT ![held[g]][i] = held[h]], held)
  /\ UNCHANGED <<made, threshold>>

\* A container changes: Ref.set, an element of an MSeq, an entry of a Dict, a
\* register of a VProc, a global variable.
Set(g, i, h) ==
  /\ held[g] \in Containers /\ (held[g] \in VProcs => i # GvSlot)
  /\ Writes(g, i, h)

\* What a value refers to when containers are not gone through.
Behind(o) == Reach([p \in Objects |-> IF p \in Containers THEN Empty ELSE slot[p]], {o})

\* Of other values only the CChain of a continuation changes: the CFrame it is
\* given has the variables of a Rust call that was there before it, so that it
\* does not refer back to the continuation but through a container.
Splice(g, i, h) ==
  /\ held[g] \in Conts /\ held[g] \notin Behind(held[h])
  /\ Writes(g, i, h)

Load(h, g, i) ==
  /\ held[g] # None
  /\ Now(alive, slot, [held EXCEPT ![h] = slot[held[g]][i]])
  /\ UNCHANGED <<made, threshold>>

Drop(h) ==
  /\ Now(alive, slot, [held EXCEPT ![h] = None])
  /\ UNCHANGED <<made, threshold>>

Due == made >= threshold

\* Fault: the traversal stops at the containers.
NodesOfRegistry == alive \cap Containers

\* The containers alive and what they reach.
Nodes == Reach(slot, alive \cap Containers)

\* The references to o from the values of S: a value with two counts twice.
RefsFrom(S, o) == {r \in S \X Slots : slot[r[1]][r[2]] = o}

\* strong_count(), without the one of nodes.
StrongCount(o) == Cardinality(RefsFrom(alive, o)) + Cardinality({h \in Holders : held[h] = o})

\* The nodes with more references than the nodes hold.
HeldOutside(nodes) == {o \in nodes : StrongCount(o) > Cardinality(RefsFrom(nodes, o))}

\* Fault: what a live value reaches is not marked.
LiveRoots == LET nodes == Nodes IN HeldOutside(nodes)

Live == LET nodes == Nodes IN Reach(slot, HeldOutside(nodes))

Garbage == (Nodes \cap Containers) \ Live

\* What is left when the garbage is cleared: of a VProc its GVEnv, which is
\* itself cleared when nothing else has it.
Emptied(o) == IF o \in VProcs THEN [Empty EXCEPT ![GvSlot] = slot[o][GvSlot]] ELSE Empty

Cleared == LET garbage == Garbage IN [o \in Objects |-> IF o \in garbage THEN Emptied(o) ELSE slot[o]]

Survivors == Cardinality(Live \cap Containers)

NextThreshold(survivors) == IF survivors > MinThreshold THEN survivors ELSE MinThreshold

Collect ==
  /\ Due
  /\ Now(alive, Cleared, held)
  /\ made' = 0
  /\ threshold' = NextThreshold(Survivors)

Next ==
  \/ \E h \in Holders, o \in Objects, contents \in [Slots -> Outside(held) \cup {None}] : New(h, o, contents)
  \/ \E h, g \in Holders, i \in Slots : Set(g, i, h) \/ Splice(g, i, h)
  \/ \E h, g \in Holders, i \in Slots : Load(h, g, i)
  \/ \E h \in Holders : Drop(h)
  \/ Collect

Spec == Init /\ [][Next]_vars

-----------------------------------------------------------------------------
(* Properties *)

\* Nothing refers to a value that was dropped, and what was dropped refers to
\* nothing, and a VProc has its GVEnv (the invariant the proofs start from).
TypeOK ==
  /\ alive \subseteq Objects
  /\ slot \in [Objects -> [Slots -> alive \cup {None}]]
  /\ held \in [Holders -> alive \cup {None}]
  /\ \A o \in Objects \ alive : slot[o] = Empty
  /\ \A o \in alive \cap VProcs : slot[o][GvSlot] \in GVEnvs
  /\ made \in Nat /\ threshold \in Nat

\* The program never notices the collector, nor the counts: what it can reach
\* is what it put there.
KeepsPromise == Promised!Spec

\* After collect() every value that is left is one that the program can reach:
\* no cycle outlives a collection, also when it goes through values that do not
\* change (gc.rs:287, "Collect the cycles that nothing outside them reaches").
CollectsAll == [][made' < made => alive' = Reach(slot', Outside(held'))]_vars
=============================================================================
