------------------------------ MODULE ConshChan ------------------------------
(***************************************************************************)
(* The channels of the ConSh written in ConMa, consh/include/consh_chan.se, *)
(* with what the VProcs of a $( ) or of a pipeline do to them               *)
(* (consh_eval.se): the writers, the VProc that evaluates the LazyList, the *)
(* VProc that made the channel (Owner), and those that close the outputs of *)
(* a VProc in its place (VProc_stop, Subst_watch).                          *)
(*                                                                          *)
(* VProcs are interleaved at every primitive; what a VProc does to its own  *)
(* Dicts belongs to the action of the shared Ref or MSeq before it.         *)
(* __Ref_wait_change__ is taken as Sched's PromptRefChange allows: the step *)
(* that changes the Ref wakes who waits for it.  The tokens of "wake" are   *)
(* new objects, so that only whether one came since the reader's matters.   *)
(***************************************************************************)
EXTENDS Integers, Sequences, SequencesExt

CONSTANTS
  Writers,    \* the VProcs that write, each with a chain of its own
  Root,       \* the VProc whose writer is made with the channel
  Cap,        \* Pipe_cap
  Every,      \* Chan_register_every
  MaxItems,   \* bound: how many elements each writer writes
  IsSubst,    \* the channel of a $( ), not of a pipe
  Shared,     \* VProcs other than Owner read the LazyList
  Kills       \* jobs may be stopped by kill (VProc_stop)

ASSUME RootAssumption == Root \in Writers
ASSUME BoundAssumption == Cap \in Nat \ {0} /\ Every \in Nat \ {0} /\ MaxItems \in [Writers -> Nat]
ASSUME KindAssumption == IsSubst \in BOOLEAN /\ Shared \in BOOLEAN /\ Kills \in BOOLEAN

VARIABLES
  chains,     \* "chains": the writers, in the order of their chains
  cells,      \* how many nodes of each chain hold an element
  ends,       \* the writers whose last node is "end"
  consumed,   \* the "consumed" Refs
  cancelled,  \* the "cancelled" Ref
  state,      \* the "state" Ref of a $( )
  renewed,    \* "wake" has another token than the reader has read
  at,         \* what each writer does
  tail,       \* "tail" (its place in the chain) and "produced" of each writer
  expects,    \* the consumed that each writer has read
  closing,    \* the programs that run Sh_release of a writer
  reader,     \* what the evaluation of the LazyList does
  cursors, k, \* its cursors, and the one it looks at
  taken,      \* the "node" of each cursor: the elements taken of the chain
  met, until, \* "seen", "untilRegister"
  found,      \* the consumed that it has read
  got, ended, \* the elements of the LazyList; it has ended
  owner,      \* what Owner does
  record,     \* the $( ) is in "substs"
  tells       \* the chains that Chan_cancel has yet to reach

chan  == <<chains, cells, ends, consumed, cancelled, state, renewed>>
write == <<at, tail, expects, closing>>
read  == <<reader, cursors, k, taken, met, until, found, got, ended>>
own   == <<owner, record, tells>>
vars  == <<chan, write, read, own>>

Releasers == {"self", "killer", "watcher"}

Init ==
  /\ chains = <<Root>> /\ cells = [w \in Writers |-> 0] /\ ends = {}
  /\ consumed = [w \in Writers |-> 0] /\ cancelled = FALSE
  /\ state = "running" /\ renewed = FALSE
  /\ at = [w \in Writers |-> IF w = Root THEN "run" ELSE "off"]
  /\ tail = [w \in Writers |-> 0] /\ expects = [w \in Writers |-> 0]
  /\ closing = [w \in Writers |-> [p \in Releasers |-> "no"]]
  /\ reader = "idle" /\ cursors = <<>> /\ k = 1
  /\ taken = [w \in Writers |-> 0] /\ met = 0 /\ until = 0 /\ found = 0
  /\ got = <<>> /\ ended = FALSE
  /\ owner = "run" /\ record = IsSubst /\ tells = <<>>

----------------------------------------------------------------------------
(***************************************************************************)
(* __Ref_set__ of the shared Refs, with the VProcs that it wakes.          *)
(***************************************************************************)

\* "consumed" of w, by the reader or Chan_cancel; w goes from here to there.
SetConsumed(w, n) ==
  /\ consumed' = [consumed EXCEPT ![w] = n]
  /\ at' = IF at[w] = "asleep" /\ n # expects[w] THEN [at EXCEPT ![w] = "woken"] ELSE at

\* "state"; Owner waits for it in Subst_settle_one.
SetState(s) ==
  /\ state' = s
  /\ owner' = IF owner = "asleep" /\ s # "running" THEN "settle" ELSE owner

\* "wake"; the reader waits for it in Chan_next.
SetWake ==
  /\ renewed' = TRUE
  /\ reader' = IF reader = "asleep" THEN "next" ELSE reader

----------------------------------------------------------------------------
(***************************************************************************)
(* Writers.                                                                *)
(***************************************************************************)

Goes(w, from, to) == at[w] = from /\ at' = [at EXCEPT ![w] = to]

\* Child_target makes the writer of the child VProc c; Sh_start starts c.
Open(w, c) ==
  /\ at[w] = "run" /\ at[c] = "off"
  /\ chains' = Append(chains, c)
  /\ at' = [at EXCEPT ![w] = "start", ![c] = "made"]
  /\ UNCHANGED <<cells, ends, consumed, cancelled, state, renewed, tail, expects, closing, read, own>>

Start(w, c) ==
  /\ at[w] = "start" /\ at[c] = "made"
  /\ at' = [at EXCEPT ![w] = "run", ![c] = "run"]
  /\ UNCHANGED <<chan, tail, expects, closing, read, own>>

\* Chan_wait_room: consumed first, ...
Room(w) ==
  /\ \/ tail[w] < MaxItems[w] /\ Goes(w, "run", "check")
     \/ Goes(w, "room", "check")
  /\ expects' = [expects EXCEPT ![w] = consumed[w]]
  /\ UNCHANGED <<chan, tail, closing, read, own>>

\* ... and cancelled after it.  A cancelled writer ends (Sh_abort).
Aborts(w) ==
  /\ Goes(w, "check", "over") /\ cancelled
  /\ UNCHANGED <<chan, tail, expects, closing, read, own>>

Full(w) == tail[w] - expects[w] >= Cap

HasRoom(w) ==
  /\ Goes(w, "check", "write") /\ ~cancelled /\ ~Full(w)
  /\ UNCHANGED <<chan, tail, expects, closing, read, own>>

NoRoom(w) ==
  /\ Goes(w, "check", IF IsSubst THEN "blocked" ELSE "wait") /\ ~cancelled /\ Full(w)
  /\ UNCHANGED <<chan, tail, expects, closing, read, own>>

SetBlocked(w) ==
  /\ Goes(w, "blocked", "wait") /\ SetState("blocked")
  /\ UNCHANGED <<chains, cells, ends, consumed, cancelled, renewed, tail, expects, closing,
                 read, record, tells>>

\* Fault: consumed is read again before the wait.
Rereads(w) == TRUE
Unchanged(w) == consumed[w] = expects[w]

WaitRoom(w) ==
  /\ Goes(w, "wait", IF Unchanged(w) THEN "asleep" ELSE "woken")
  /\ UNCHANGED <<chan, tail, expects, closing, read, own>>

SetRunning(w) ==
  /\ Goes(w, "woken", "room")
  /\ IF IsSubst THEN SetState("running") ELSE UNCHANGED <<state, owner>>
  /\ UNCHANGED <<chains, cells, ends, consumed, cancelled, renewed, tail, expects, closing,
                 read, record, tells>>

\* Chan_put: the cell into the node "tail", then the next node into "tail",
\* then a new token into "wake".
Write(w) ==
  /\ Goes(w, "write", "advance")
  /\ cells' = [cells EXCEPT ![w] = @ + 1]
  /\ UNCHANGED <<chains, ends, consumed, cancelled, state, renewed, tail, expects, closing, read, own>>

Advance(w) ==
  /\ Goes(w, "advance", "wake")
  /\ tail' = [tail EXCEPT ![w] = @ + 1]
  /\ UNCHANGED <<chan, expects, closing, read, own>>

Wake(w) ==
  /\ Goes(w, "wake", "run") /\ SetWake
  /\ UNCHANGED <<chains, cells, ends, consumed, cancelled, state, tail, expects, closing,
                 cursors, k, taken, met, until, found, got, ended, own>>

Put(w) ==
  \/ at[w] # "run" /\ Room(w)
  \/ Aborts(w) \/ HasRoom(w) \/ NoRoom(w) \/ SetBlocked(w) \/ WaitRoom(w) \/ SetRunning(w)
  \/ Write(w) \/ Advance(w) \/ Wake(w)

----------------------------------------------------------------------------
(***************************************************************************)
(* Sh_release: Chan_close of the output and, in a $( ), the state "done".  *)
(* w runs it at its end (Sh_finish), another VProc in its place if it was  *)
(* killed, and a third one when the VProc of a $( ) has ended in any way.  *)
(***************************************************************************)
Begins(w, p) == closing[w][p] = "no" /\ closing' = [closing EXCEPT ![w][p] = "look"]

Finish(w) ==
  /\ at[w] \in {"run", "over"} /\ at' = [at EXCEPT ![w] = "release"]
  /\ Begins(w, "self")
  /\ UNCHANGED <<chan, tail, expects, read, own>>

\* The VProc of the $( ) stops with a runtime error.
Crash ==
  /\ IsSubst /\ Goes(Root, "run", "dead")
  /\ UNCHANGED <<chan, tail, expects, closing, read, own>>

\* VProc_stop of a job, or of an element of a pipeline.
Kill(w) ==
  /\ Kills /\ (IsSubst => w # Root)
  /\ at[w] \notin {"off", "made", "dead", "ended"}
  /\ at' = [at EXCEPT ![w] = "dead"]
  /\ Begins(w, "killer")
  /\ UNCHANGED <<chan, tail, expects, read, own>>

\* Subst_watch.
Watch ==
  /\ IsSubst /\ at[Root] \in {"ended", "dead"} /\ Begins(Root, "watcher")
  /\ UNCHANGED <<chan, at, tail, expects, read, own>>

Releases(w, p, from, to) ==
  /\ closing[w][p] = from /\ (p = "self" => at[w] # "dead")
  /\ closing' = [closing EXCEPT ![w][p] = to]
  /\ at' = IF p = "self" /\ to = "over" THEN [at EXCEPT ![w] = "ended"] ELSE at
  /\ UNCHANGED <<tail, expects>>

\* Fault: only the VProc of the $( ) sets the state.
ClosedOnce(w) == IF IsSubst /\ w = Root THEN "state" ELSE "over"
\* Sh_child copies the context, "substState" with it.
Closed(w) == IF IsSubst THEN "state" ELSE "over"

\* The node "tail" is null: nothing was written to it, and it was not closed.
Null(w) == tail[w] = cells[w] /\ w \notin ends

Look(w, p) ==
  /\ Releases(w, p, "look", IF Null(w) THEN "end" ELSE Closed(w))
  /\ UNCHANGED <<chan, read, own>>

SetEnd(w, p) ==
  /\ Releases(w, p, "end", "wake")
  /\ ends' = ends \cup {w}
  /\ UNCHANGED <<chains, cells, consumed, cancelled, state, renewed, read, own>>

WakeEnd(w, p) ==
  /\ Releases(w, p, "wake", Closed(w)) /\ SetWake
  /\ UNCHANGED <<chains, cells, ends, consumed, cancelled, state,
                 cursors, k, taken, met, until, found, got, ended, own>>

SetDone(w, p) ==
  /\ Releases(w, p, "state", "over") /\ SetState("done")
  /\ UNCHANGED <<chains, cells, ends, consumed, cancelled, renewed, read, record, tells>>

Release(w, p) == Look(w, p) \/ SetEnd(w, p) \/ WakeEnd(w, p) \/ SetDone(w, p)

----------------------------------------------------------------------------
(***************************************************************************)
(* The evaluation of the LazyList: Chan_next, by the VProc that claimed it *)
(* (one at a time: Sched).                                                 *)
(***************************************************************************)

\* Owner, or another VProc that has the value, forces the next cell.
MayRead == ~ended /\ (Shared \/ owner = "run")

Due == until = 0

\* The token of "wake" is read before the chains are looked at.
ReadToken ==
  /\ reader = "next" \/ (reader = "idle" /\ MayRead)
  /\ reader' = IF Due THEN "fresh" ELSE "scan"
  /\ renewed' = FALSE /\ k' = 1
  /\ UNCHANGED <<chains, cells, ends, consumed, cancelled, state, write,
                 cursors, taken, met, until, found, got, ended, own>>

\* Fault: off by one.
NewCursorsLate == SubSeq(chains, met + 2, Len(chains))
NewCursors == SubSeq(chains, met + 1, Len(chains))

\* Chan_register: the MSeq is read at once (__MSeq_uncons__ copies the rest).
Register ==
  /\ cursors' = cursors \o NewCursors /\ met' = Len(chains)
  /\ UNCHANGED <<chan, write, taken, found, got, own>>
NewChain == met < Len(chains)

RegisterFresh ==
  /\ reader = "fresh" /\ reader' = "scan" /\ Register
  /\ until' = Every /\ UNCHANGED <<k, ended>>

\* No cursor had an element.
Exhausted(pass) == reader = pass /\ k > Len(cursors)

\* The second pass, if there is a new chain.
RegisterAgain ==
  /\ Exhausted("scan") /\ reader' = "rescan" /\ Register
  /\ k' = IF NewChain THEN 1 ELSE k
  /\ UNCHANGED <<until, ended>>

\* No known chain is open: the list ends if no chain was added either.
RegisterLast ==
  /\ Exhausted("rescan") /\ cursors = <<>> /\ Register
  /\ reader' = IF NewChain THEN "next" ELSE "idle"
  /\ ended' = ~NewChain /\ UNCHANGED <<k, until>>

\* Chan_take looks at the node of the k-th cursor.
Looking == reader \in {"scan", "rescan"} /\ k <= Len(cursors)
Looked  == cursors[k]

TakeElement ==
  /\ Looking /\ taken[Looked] < cells[Looked]
  /\ taken' = [taken EXCEPT ![Looked] = @ + 1]
  /\ got' = Append(got, <<Looked, taken[Looked] + 1>>)
  /\ reader' = "get"
  /\ UNCHANGED <<chan, write, cursors, k, met, until, found, ended, own>>

\* A closed chain is left out.
TakeEnd ==
  /\ Looking /\ taken[Looked] = cells[Looked] /\ Looked \in ends
  /\ cursors' = RemoveAt(cursors, k)
  /\ UNCHANGED <<chan, write, reader, k, taken, met, until, found, got, ended, own>>

TakeNothing ==
  /\ Looking /\ taken[Looked] = cells[Looked] /\ Looked \notin ends
  /\ k' = k + 1
  /\ UNCHANGED <<chan, write, reader, cursors, taken, met, until, found, got, ended, own>>

GetConsumed ==
  /\ reader = "get" /\ reader' = "set"
  /\ found' = consumed[Looked]
  /\ UNCHANGED <<chan, write, cursors, k, taken, met, until, got, ended, own>>

\* One more consumed; the chain goes behind the others.
PutConsumed ==
  /\ reader = "set" /\ reader' = "idle"
  /\ SetConsumed(Looked, found + 1)
  /\ cursors' = Append(RemoveAt(cursors, k), Looked)
  /\ until' = until - 1
  /\ k' = 1
  /\ UNCHANGED <<chains, cells, ends, cancelled, state, renewed, tail, expects, closing,
                 taken, met, found, got, ended, own>>

Sleeps == ~renewed

WaitWake ==
  /\ Exhausted("rescan") /\ cursors # <<>>
  /\ reader' = IF Sleeps THEN "asleep" ELSE "next"
  /\ UNCHANGED <<chan, write, cursors, k, taken, met, until, found, got, ended, own>>

Evaluate ==
  \/ RegisterFresh \/ RegisterAgain \/ RegisterLast
  \/ TakeElement \/ TakeEnd \/ TakeNothing
  \/ GetConsumed \/ PutConsumed \/ WaitWake

----------------------------------------------------------------------------
(***************************************************************************)
(* Owner.                                                                  *)
(***************************************************************************)

\* Owner does not read.
Free == owner = "run" /\ (Shared \/ reader = "idle")

\* The end of a statement (Subst_settle).
SettleBegin ==
  /\ Free /\ record /\ owner' = "settle"
  /\ UNCHANGED <<chan, write, read, record, tells>>

\* Subst_settle_one returns "blocked" or "done"; a "done" $( ) is forgotten.
Settles ==
  /\ owner = "settle" /\ state # "running"
  /\ owner' = "run" /\ record' = (state # "done")
  /\ UNCHANGED <<chan, write, read, tells>>

StillRuns ==
  /\ owner = "settle" /\ state = "running" /\ owner' = "wait"
  /\ UNCHANGED <<chan, write, read, record, tells>>

WaitState ==
  /\ owner = "wait"
  /\ owner' = IF state = "running" THEN "asleep" ELSE "settle"
  /\ UNCHANGED <<chan, write, read, record, tells>>

\* The end of Owner: Subst_finish of the $( ), or Sh_release of its input.
End ==
  /\ Free /\ owner' = IF record \/ ~IsSubst THEN "cancel" ELSE "ended"
  /\ record' = FALSE
  /\ UNCHANGED <<chan, write, read, tells>>

\* Chan_cancel, and Chan_cancel_chains of the chains there are then.
Cancel ==
  /\ owner = "cancel" /\ owner' = "snap" /\ cancelled' = TRUE
  /\ UNCHANGED <<chains, cells, ends, consumed, state, renewed, write, read, record, tells>>

CancelChains ==
  /\ owner = "snap" /\ owner' = "tell" /\ tells' = chains
  /\ UNCHANGED <<chan, write, read, record>>

CancelMark(w) == -1

CancelChain ==
  /\ owner = "tell" /\ tells # <<>>
  /\ SetConsumed(Head(tells), CancelMark(Head(tells)))
  /\ tells' = Tail(tells)
  /\ UNCHANGED <<chains, cells, ends, cancelled, state, renewed, tail, expects, closing,
                 read, owner, record>>

\* __VProc_wait__ of the VProc of the $( ).
Join ==
  /\ owner = "tell" /\ tells = <<>>
  /\ IsSubst => at[Root] \in {"ended", "dead"}
  /\ owner' = "ended"
  /\ UNCHANGED <<chan, write, read, record, tells>>

Settle == Settles \/ StillRuns \/ WaitState
Stop   == Cancel \/ CancelChains \/ CancelChain \/ Join

----------------------------------------------------------------------------
Next ==
  \/ \E w \in Writers :
       \/ Room(w) \/ Put(w) \/ Finish(w) \/ Kill(w)
       \/ \E c \in Writers : Open(w, c) \/ Start(w, c)
       \/ \E p \in Releasers : Release(w, p)
  \/ Crash \/ Watch
  \/ ReadToken \/ Evaluate
  \/ SettleBegin \/ Settle \/ End \/ Stop

Spec == Init /\ [][Next]_vars

----------------------------------------------------------------------------
(***************************************************************************)
(* Properties.                                                             *)
(***************************************************************************)

Made == Range(chains)

\* No writer sleeps once Chan_cancel has reached its chain: "the cancel changes
\* consumed, so that __Ref_wait_change__ returns" (the comment on Chan_wait_room).
CancelWakes ==
  \A w \in Writers : at[w] = "asleep" /\ cancelled => owner = "snap" \/ w \in Range(tells)

\* The chain of w is full, or the reader is about to say that it is not.
StaysFull(w) ==
  /\ consumed[w] = expects[w]
  /\ cells[w] - taken[w] >= Cap \/ (reader \in {"get", "set"} /\ Looked = w)

\* w was killed between a node and "tail" or the token.
Torn(w) == at[w] = "dead" /\ (tail[w] # cells[w] \/ closing[w]["self"] = "wake")

\* The reader has nothing to take and has not to end, or a token is to come.
NothingNew ==
  /\ \A w \in Made :
       \/ taken[w] = cells[w] \/ at[w] \in {"advance", "wake"} \/ Torn(w)
       \/ \E p \in Releasers : closing[w][p] \in {"look", "end", "wake"}
  /\ \E w \in Made :
       w \notin ends \/ Torn(w) \/ \E p \in Releasers : closing[w][p] = "wake"

\* No wake-up is lost: with no lock around them, the reads of consumed,
\* cancelled, wake and the nodes and the sets of them are ordered so that who
\* sleeps has nothing to do, or is about to be woken.
NoLostWakeUp ==
  /\ \A w \in Writers : at[w] = "asleep" => StaysFull(w)
  /\ reader = "asleep" => NothingNew
  /\ owner = "asleep" => state = "running"
  /\ CancelWakes

\* w, or a VProc that closes its output, has yet to set the state.
WillSet(w) ==
  \/ at[w] \notin {"off", "made", "wait", "asleep", "ended", "dead"}
  \/ \E p \in Releasers : closing[w][p] \notin {"no", "over"} /\ (p = "self" => at[w] # "dead")
  \/ w = Root /\ at[w] \in {"ended", "dead"} /\ closing[w]["watcher"] = "no"

\* The end of a statement waits only while something that runs will set the
\* state, although every writer overwrites what the others say.
SettleReturns == owner = "asleep" => \E w \in Writers : WillSet(w)

\* The channel is the abstract one: what is read is what was written.
Channel == INSTANCE Fifo WITH
  opened <- Made,
  closed <- ends,
  sent   <- cells,
  Late   <- FALSE
IsFifo == Channel!Spec
=============================================================================
