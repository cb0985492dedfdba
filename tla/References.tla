----------------------------- MODULE References -----------------------------
(***************************************************************************)
(* Objects that refer to each other, and what is reached from where.       *)
(***************************************************************************)
CONSTANTS
  Objects,    \* the objects that can be made
  Slots,      \* the places of an object for a reference
  Holders,    \* the places outside the objects
  None        \* no object

Empty == [i \in Slots |-> None]

\* What o refers to, when s[o][i] is what it refers to at i.
Children(s, o) == {s[o][i] : i \in Slots} \cap Objects

\* The sets that hold from and, with an object, all that it refers to.
Closed(s, from) ==
  LET children == [o \in Objects |-> Children(s, o)]
  IN  {C \in SUBSET Objects : from \cap Objects \subseteq C /\ \A o \in C : children[o] \subseteq C}

Reach(s, from) ==
  LET closed == Closed(s, from) IN {o \in Objects : \A C \in closed : o \in C}

\* What the holders refer to.
Outside(h) == {h[x] : x \in Holders}

\* The contents of the objects that the holders reach; of the others, nothing.
Visible(s, h) ==
  LET reached == Reach(s, Outside(h)) IN [o \in Objects |-> IF o \in reached THEN s[o] ELSE Empty]
=============================================================================
