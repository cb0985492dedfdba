-------------------------------- MODULE Fifo --------------------------------
(***************************************************************************)
(* What a channel of ConSh promises (the head comments of                  *)
(* consh/rust/src/chan.rs and consh/include/consh_chan.se): each writer     *)
(* has a chain, may be Cap elements ahead of the reader, and its elements  *)
(* are read once and in the order it wrote them; the list ends when every  *)
(* chain is closed and read, and no chain comes after that (unless kill    *)
(* closed one of a thread that goes on).                                   *)
(*                                                                         *)
(* The n-th element that w writes is <<w, n>>.                             *)
(***************************************************************************)
EXTENDS Integers, Sequences

CONSTANTS
  Writers,    \* the writers that can be made
  Root,       \* the writer that is made with the channel
  Cap,        \* how far a writer may be ahead
  Late        \* chains may be made after the end

VARIABLES
  opened,     \* the writers made
  closed,     \* the writers whose chain is closed
  sent,       \* how many elements each has written
  taken,      \* how many of them have been read
  got,        \* the elements read, in their order
  ended       \* the reader has been told the end

vars == <<opened, closed, sent, taken, got, ended>>

Init ==
  /\ opened = {Root} /\ closed = {}
  /\ sent = [w \in Writers |-> 0] /\ taken = [w \in Writers |-> 0]
  /\ got = <<>> /\ ended = FALSE

Open(w) ==
  /\ ~ended \/ Late
  /\ w \notin opened
  /\ opened' = opened \cup {w}
  /\ UNCHANGED <<closed, sent, taken, got, ended>>

Put(w) ==
  /\ w \in opened \ closed /\ sent[w] < taken[w] + Cap
  /\ sent' = [sent EXCEPT ![w] = @ + 1]
  /\ UNCHANGED <<opened, closed, taken, got, ended>>

Take(w) ==
  /\ ~ended /\ taken[w] < sent[w]
  /\ taken' = [taken EXCEPT ![w] = @ + 1]
  /\ got' = Append(got, <<w, taken[w] + 1>>)
  /\ UNCHANGED <<opened, closed, sent, ended>>

Close(w) ==
  /\ w \in opened \ closed
  /\ closed' = closed \cup {w}
  /\ UNCHANGED <<opened, sent, taken, got, ended>>

End ==
  /\ opened = closed /\ taken = sent
  /\ ended' = TRUE
  /\ UNCHANGED <<opened, closed, sent, taken, got>>

Next == End \/ \E w \in Writers : Open(w) \/ Put(w) \/ Take(w) \/ Close(w)

Spec == Init /\ [][Next]_vars
=============================================================================
