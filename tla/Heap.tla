-------------------------------- MODULE Heap --------------------------------
(***************************************************************************)
(* What the memory of the Rust VM promises to the code that it runs: an    *)
(* object that can be reached is there, with what was put into it.  Nobody *)
(* frees anything here: an object that can not be reached any more may     *)
(* become another one, and that is all that is ever said of it.            *)
(***************************************************************************)
EXTENDS References

VARIABLES
  held,       \* what each holder refers to
  seen        \* the contents of the objects that can be reached

vars == <<held, seen>>

Init == held = [h \in Holders |-> None] /\ seen = [o \in Objects |-> Empty]

\* The holders refer to h, the objects to s: what is not reached is forgotten.
Now(h, s) == held' = h /\ seen' = Visible(s, h)

\* The objects that nobody would miss.
Unused == Objects \ Reach(seen, Outside(held))

Make(h, o, contents) == Now([held EXCEPT ![h] = o], [seen EXCEPT ![o] = contents])

Get(h, g, i) == held[g] # None /\ Now([held EXCEPT ![h] = seen[held[g]][i]], seen)

Put(g, i, h) == held[g] # None /\ Now(held, [seen EXCEPT ![held[g]][i] = held[h]])

Forget(h) == Now([held EXCEPT ![h] = None], seen)

Next ==
  \/ \E o \in Unused, h \in Holders, contents \in [Slots -> Outside(held) \cup {None}] :
       Make(h, o, contents)
  \/ \E h, g \in Holders, i \in Slots : Get(h, g, i) \/ Put(g, i, h)
  \/ \E h \in Holders : Forget(h)

Spec == Init /\ [][Next]_vars
=============================================================================
