-------------------------------- MODULE Chan --------------------------------
(***************************************************************************)
(* The channels of the Rust ConSh, consh/rust/src/chan.rs, with the        *)
(* LazyList that reads one (value.rs) and the threads that use them        *)
(* (eval.rs): the writers of a pipe or a $( ), the readers of its value,   *)
(* and the thread that started it (Owner), which settles the $( ) at the   *)
(* end of each statement and finishes it at its own end.                   *)
(*                                                                         *)
(* What a thread does between taking a Mutex and giving it back, or        *)
(* falling asleep in a Condvar, is one action.  The commands that a thread *)
(* runs are abstracted to what they do to the channel: at any time it may  *)
(* write, start a child, read, or end.                                     *)
(***************************************************************************)
EXTENDS Integers, Sequences, SequencesExt

CONSTANTS
  Writers,    \* the threads that write, each with a chain of its own
  Root,       \* the thread whose writer is made with the channel
  Readers,    \* the threads that have the LazyList
  Owner,      \* the reader that made the channel
  Cap,        \* Chan.cap (PIPE_CAP)
  MaxItems,   \* bound: how many elements a writer writes
  IsSubst,    \* the channel of a $( ), not of a pipe
  Kills       \* writers may be stopped by kill (vproc_stop)

Threads == Writers \cup Readers

ASSUME ThreadAssumption == Root \in Writers /\ Owner \in Readers /\ Writers \cap Readers = {}
ASSUME CapAssumption == Cap \in Nat \ {0} /\ MaxItems \in Nat
ASSUME KindAssumption == IsSubst \in BOOLEAN /\ Kills \in BOOLEAN

VARIABLES
  chains,     \* Inner.chains: the writers, in the order of their chains
  queue,      \* Chain.queue
  closed,     \* the writers whose Chain.closed is set
  waiting,    \* the writers whose Chain.waiting is set
  cancelled, done, nxt, \* Inner.cancelled, Inner.done, Inner.next
  asleep,     \* the threads that sleep in Chan.changed
  at,         \* what each thread does
  record,     \* the $( ) is in the list of those to settle (Global.substs)
  list,       \* the cells of the LazyList that are Cons
  tail,       \* its last cell: thunk, busy or nil
  hand,       \* what the reader that evaluates it has taken
  pos,        \* the cell that each reader looks at
  dozing,     \* the readers that sleep in the Condvar of the last cell
  sent,       \* how many elements each writer has written (the n-th is n)
  passed      \* for each writer, the elements of others taken while it has one

inner  == <<chains, queue, closed, waiting, cancelled, done, nxt>>
value  == <<list, tail, hand, pos, dozing>>
vars   == <<inner, asleep, at, record, value, sent, passed>>

\* "off": not started; "run": between two uses of the channel; "put", "next",
\* "settle": in the loop of that function; "ending": its body is over;
\* "closed": its outputs are closed; "cell": in uncons; "publish", "last": after
\* next has given an element, or the end; "join": in Member::wait for Root.
Places == {"off", "run", "put", "ending", "closed", "end",
           "cell", "next", "publish", "last", "settle", "join"}

Init ==
  /\ chains = <<Root>>
  /\ queue = [w \in Writers |-> <<>>] /\ closed = {} /\ waiting = {}
  /\ cancelled = FALSE /\ done = FALSE /\ nxt = 0
  /\ asleep = {} /\ dozing = {}
  /\ at = [t \in Threads |-> IF t \in Readers \cup {Root} THEN "run" ELSE "off"]
  /\ record = IsSubst
  /\ list = <<>> /\ tail = "thunk" /\ hand = <<>>
  /\ pos = [r \in Readers |-> 0]
  /\ sent = [w \in Writers |-> 0] /\ passed = [w \in Writers |-> 0]

Goes(t, from, to) == at[t] = from /\ at' = [at EXCEPT ![t] = to]

\* Fault: nobody is woken.
NotifyNobody == UNCHANGED asleep

\* notify_all.
NotifyAll == asleep' = {}

----------------------------------------------------------------------------
(***************************************************************************)
(* Writers.                                                                *)
(***************************************************************************)

\* child_target: w makes a writer for the child thread c, and starts it.
Open(w, c) ==
  /\ at[w] = "run" /\ at[c] = "off"
  /\ chains' = Append(chains, c)
  /\ at' = [at EXCEPT ![c] = "run"]
  /\ UNCHANGED <<queue, closed, waiting, cancelled, done, nxt, asleep, record, value, sent, passed>>

PutBegin(w) ==
  /\ Goes(w, "run", "put") /\ sent[w] < MaxItems
  /\ UNCHANGED <<inner, asleep, record, value, sent, passed>>

Putting(w) == at[w] = "put" /\ w \notin asleep

\* sh_abort ends the thread, or, in a statement with a variable list, that
\* statement alone.
Aborts(w) == \E place \in {"run", "ending"} : Goes(w, "put", place)

\* The reader has cancelled, or the writer was stopped.
PutFails(w) ==
  /\ Putting(w) /\ Aborts(w)
  /\ cancelled \/ w \in closed
  /\ waiting' = waiting \ {w}
  /\ UNCHANGED <<chains, queue, closed, cancelled, done, nxt, asleep, record, value, sent, passed>>

HasRoom(w) == Len(queue[w]) < Cap

PutElement(w) ==
  /\ Putting(w) /\ Goes(w, "put", "run")
  /\ ~cancelled /\ w \notin closed /\ HasRoom(w)
  /\ waiting' = waiting \ {w}
  /\ sent' = [sent EXCEPT ![w] = @ + 1]
  /\ queue' = [queue EXCEPT ![w] = Append(@, sent[w] + 1)]
  /\ NotifyAll
  /\ UNCHANGED <<chains, closed, cancelled, done, nxt, record, value, passed>>

PutSleeps(w) ==
  /\ Putting(w)
  /\ ~cancelled /\ w \notin closed /\ ~HasRoom(w)
  /\ waiting' = waiting \cup {w}
  /\ asleep' = (IF w \in waiting THEN asleep ELSE {}) \cup {w}
  /\ UNCHANGED <<chains, queue, closed, cancelled, done, nxt, at, record, value, sent, passed>>

\* Fault: close wakes nobody.
CloseQuietly(w) ==
  closed' = closed \cup {w} /\ waiting' = waiting \ {w} /\ UNCHANGED asleep

\* close: a second time does nothing.
CloseChain(w) ==
  IF w \in closed THEN UNCHANGED <<closed, waiting, asleep>>
  ELSE /\ closed' = closed \cup {w}
       /\ waiting' = waiting \ {w}
       /\ NotifyAll

\* sh_release at the end of the thread (its body is over, or put failed).
Close(w) ==
  /\ \E place \in {"run", "ending"} :
       Goes(w, place, IF w = Root /\ IsSubst THEN "closed" ELSE "end")
  /\ CloseChain(w)
  /\ UNCHANGED <<chains, queue, cancelled, done, nxt, record, value, sent, passed>>

\* set_done, after the outputs of the $( ) were closed.
SetDone ==
  /\ Goes(Root, "closed", "end")
  /\ done' = TRUE /\ NotifyAll
  /\ UNCHANGED <<chains, queue, closed, waiting, cancelled, nxt, record, value, sent, passed>>

\* vproc_stop: another thread closes the writer of w.  w itself goes on until
\* it writes or begins its next statement.  (The thread of a $( ) is stopped
\* only after its channel was cancelled.)
Stop(w) ==
  /\ Kills /\ w \in Range(chains) /\ at[w] \in {"run", "put"} /\ w \notin closed
  /\ w = Root /\ IsSubst => cancelled
  /\ CloseChain(w)
  /\ UNCHANGED <<chains, queue, cancelled, done, nxt, at, record, value, sent, passed>>

----------------------------------------------------------------------------
(***************************************************************************)
(* The LazyList and its readers.                                           *)
(***************************************************************************)

\* uncons looks at a cell: when it begins, and when it was woken.
Looks(r) == at[r] \in {"run", "cell"} /\ r \notin dozing

UnconsCell(r) ==
  /\ Looks(r) /\ pos[r] < Len(list)
  /\ pos' = [pos EXCEPT ![r] = @ + 1] /\ at' = [at EXCEPT ![r] = "run"]
  /\ UNCHANGED <<inner, asleep, record, list, tail, hand, dozing, sent, passed>>

UnconsEnd(r) ==
  /\ Looks(r) /\ pos[r] = Len(list) /\ tail = "nil"
  /\ at' = [at EXCEPT ![r] = "run"]
  /\ UNCHANGED <<inner, asleep, record, value, sent, passed>>

UnconsSleeps(r) ==
  /\ Looks(r) /\ pos[r] = Len(list) /\ tail = "busy"
  /\ at' = [at EXCEPT ![r] = "cell"] /\ dozing' = dozing \cup {r}
  /\ UNCHANGED <<inner, asleep, record, list, tail, hand, pos, sent, passed>>

\* Fault: the cell is not marked busy.
UnconsUnmarked(r) ==
  /\ Looks(r) /\ pos[r] = Len(list) /\ tail = "thunk"
  /\ at' = [at EXCEPT ![r] = "next"]
  /\ UNCHANGED <<inner, asleep, record, value, sent, passed>>

UnconsThunk(r) ==
  /\ Looks(r) /\ pos[r] = Len(list) /\ tail = "thunk"
  /\ tail' = "busy" /\ at' = [at EXCEPT ![r] = "next"]
  /\ UNCHANGED <<inner, asleep, record, list, hand, pos, dozing, sent, passed>>

\* The chain with an element that next finds first, from Inner.next on.
First(i) ==
  LET n == Len(chains)
      Holds(k) == queue[chains[k + 1]] # <<>>
  IN /\ Holds(i)
     /\ \E k \in 0 .. n - 1 : /\ i = (nxt + k) % n
                              /\ \A j \in 0 .. k - 1 : ~Holds((nxt + j) % n)

\* Faults: the search does not move on, or moves too far.
Same(i) == i
AfterNext(i) == i + 2
After(i) == i + 1

Nexting(r) == at[r] = "next" /\ r \notin asleep

\* Fault: the state stays "blocked" until the writer runs.
StillWaiting(w) == waiting
NoLongerWaiting(w) == waiting \ {w}

NextElement(r) ==
  /\ Nexting(r) /\ Goes(r, "next", "publish")
  /\ \E i \in 0 .. Len(chains) - 1 :
       /\ First(i)
       /\ LET w == chains[i + 1]
          IN /\ hand' = <<<<w, Head(queue[w])>>>>
             /\ queue' = [queue EXCEPT ![w] = Tail(@)]
             /\ waiting' = NoLongerWaiting(w)
             /\ passed' = [v \in Writers |-> IF v = w \/ queue[v] = <<>> THEN 0 ELSE passed[v] + 1]
       /\ nxt' = After(i)
  /\ NotifyAll
  /\ UNCHANGED <<chains, closed, cancelled, done, record, list, tail, pos, dozing, sent>>

Empty == \A i \in DOMAIN chains : queue[chains[i]] = <<>>

\* Fault: one closed chain is enough.
SomeClosed == \E i \in DOMAIN chains : chains[i] \in closed
AllClosed == \A i \in DOMAIN chains : chains[i] \in closed

NextEnd(r) ==
  /\ Nexting(r) /\ Goes(r, "next", "last")
  /\ Empty /\ AllClosed
  /\ UNCHANGED <<inner, asleep, record, value, sent, passed>>

NextSleeps(r) ==
  /\ Nexting(r)
  /\ Empty /\ ~AllClosed
  /\ asleep' = asleep \cup {r}
  /\ UNCHANGED <<inner, at, record, value, sent, passed>>

\* uncons stores the cell and wakes the readers that wait for it.
PublishElement(r) ==
  /\ Goes(r, "publish", "run")
  /\ tail' = "thunk" /\ list' = list \o hand /\ hand' = <<>>
  /\ pos' = [pos EXCEPT ![r] = @ + 1] /\ dozing' = {}
  /\ UNCHANGED <<inner, asleep, record, sent, passed>>

PublishEnd(r) ==
  /\ Goes(r, "last", "run")
  /\ tail' = "nil" /\ dozing' = {}
  /\ UNCHANGED <<inner, asleep, record, list, hand, pos, sent, passed>>

----------------------------------------------------------------------------
(***************************************************************************)
(* The thread that started the $( ) or the pipe.                           *)
(***************************************************************************)

\* state_of.
State == IF done THEN "done" ELSE IF waiting # {} THEN "blocked" ELSE "running"

\* subst_settle, at the end of a statement.
SettleBegin ==
  /\ record /\ Goes(Owner, "run", "settle")
  /\ UNCHANGED <<inner, asleep, record, value, sent, passed>>

Settling == at[Owner] = "settle" /\ Owner \notin asleep

SettleEnds ==
  /\ Settling /\ Goes(Owner, "settle", "run")
  /\ State # "running"
  /\ record' = (State = "blocked")
  /\ UNCHANGED <<inner, asleep, value, sent, passed>>

SettleSleeps ==
  /\ Settling /\ State = "running"
  /\ asleep' = asleep \cup {Owner}
  /\ UNCHANGED <<inner, at, record, value, sent, passed>>

\* The end of the thread: subst_finish of a $( ) that is still in the list,
\* sh_release for the input of an element of a pipeline.
Cancels == record \/ ~IsSubst

Finish ==
  /\ Goes(Owner, "run", IF record THEN "join" ELSE "end")
  /\ cancelled' = (cancelled \/ Cancels)
  /\ IF Cancels THEN NotifyAll ELSE UNCHANGED asleep
  /\ record' = FALSE
  /\ UNCHANGED <<chains, queue, closed, waiting, done, nxt, value, sent, passed>>

\* vproc_stop of the Owner cancels the channel; the Owner itself goes on.
StopOwner ==
  /\ Kills /\ at[Owner] # "end" /\ Cancels
  /\ cancelled' = TRUE /\ NotifyAll
  /\ UNCHANGED <<chains, queue, closed, waiting, done, nxt, at, record, value, sent, passed>>

\* Member::wait.
Join ==
  /\ at[Root] = "end" /\ Goes(Owner, "join", "end")
  /\ UNCHANGED <<inner, asleep, record, value, sent, passed>>

\* Another reader ends.
Leave(r) ==
  /\ r # Owner /\ Goes(r, "run", "end")
  /\ UNCHANGED <<inner, asleep, record, value, sent, passed>>

----------------------------------------------------------------------------
\* A Condvar may wake a thread for no reason.
Spurious(t) ==
  \/ /\ t \in asleep /\ asleep' = asleep \ {t}
     /\ UNCHANGED <<inner, at, record, value, sent, passed>>
  \/ /\ t \in dozing /\ dozing' = dozing \ {t}
     /\ UNCHANGED <<inner, asleep, at, record, list, tail, hand, pos, sent, passed>>

\* The process has exited.
Ended == (\A r \in Readers : at[r] = "end") /\ UNCHANGED vars

Put(w) == PutFails(w) \/ PutElement(w) \/ PutSleeps(w)
Uncons(r) == UnconsCell(r) \/ UnconsEnd(r) \/ UnconsSleeps(r) \/ UnconsThunk(r)
NextItem(r) == NextElement(r) \/ NextEnd(r) \/ NextSleeps(r)
Publish(r) == PublishElement(r) \/ PublishEnd(r)
Settle == SettleEnds \/ SettleSleeps

Next ==
  \/ \E w \in Writers : PutBegin(w) \/ Put(w) \/ Close(w) \/ Stop(w) \/ \E c \in Writers : Open(w, c)
  \/ SetDone
  \/ \E r \in Readers : Uncons(r) \/ NextItem(r) \/ Publish(r) \/ Leave(r)
  \/ SettleBegin \/ Settle \/ Finish \/ StopOwner \/ Join
  \/ \E t \in Threads : Spurious(t)
  \/ Ended

Spec == Init /\ [][Next]_vars

\* The OS runs every thread that is inside a function of the channel or of the
\* LazyList.  Nothing is said of when a thread calls one.
FairSpec ==
  /\ Spec
  /\ \A w \in Writers : WF_vars(Put(w))
  /\ \A r \in Readers : WF_vars(at[r] = "cell" /\ Uncons(r)) /\ WF_vars(NextItem(r)) /\ WF_vars(Publish(r))
  /\ WF_vars(Settle) /\ WF_vars(Join)

----------------------------------------------------------------------------
(***************************************************************************)
(* Properties.                                                             *)
(***************************************************************************)

Made == Range(chains)
Evaluating(r) == at[r] \in {"next", "publish", "last"}
IsEnd == tail = "nil" \/ \E r \in Readers : at[r] = "last"

\* The values of the variables (Inner and Chain of chan.rs, Cell of value.rs).
TypeOK ==
  /\ chains \in Seq(Writers)
  /\ queue \in [Writers -> Seq(Nat)]
  /\ closed \in SUBSET Writers /\ waiting \in SUBSET Writers
  /\ cancelled \in BOOLEAN /\ done \in BOOLEAN /\ nxt \in 0 .. Len(chains)
  /\ asleep \in SUBSET Threads /\ at \in [Threads -> Places] /\ record \in BOOLEAN
  /\ list \in Seq(Writers \X Nat) /\ tail \in {"thunk", "busy", "nil"}
  /\ hand \in Seq(Writers \X Nat)
  /\ pos \in [Readers -> Nat] /\ dozing \in SUBSET Readers
  /\ sent \in [Writers -> Nat] /\ passed \in [Writers -> Nat]

\* t has nothing to do until the channel, or the last cell, changes.
SleepsRightly(t) ==
  \/ t \in Writers /\ at[t] = "put" /\ ~cancelled /\ t \notin closed /\ ~HasRoom(t)
  \/ t \in Readers /\ at[t] = "next" /\ Empty /\ ~AllClosed
  \/ t = Owner /\ at[t] = "settle" /\ State = "running"
DozesRightly(r) == at[r] = "cell" /\ pos[r] = Len(list) /\ tail = "busy"

\* No wake-up is lost: a thread sleeps only while it has nothing to do.  All
\* writers, the reader and the Owner share one Condvar, and each change of the
\* channel must wake whoever could go on (chan.rs, the notify_all calls).
NoLostWakeUp ==
  /\ \A t \in asleep : SleepsRightly(t)
  /\ \A r \in dozing : DozesRightly(r)

\* What settle calls blocked is blocked: while the state is "blocked" each
\* waiting writer has a full chain, so that the end of a statement never goes
\* on while a writer that the reader has made room for has yet to write.
BlockedIsRight ==
  \A w \in waiting : at[w] = "put" /\ w \notin closed /\ ~HasRoom(w)

\* One thread evaluates the last cell of the LazyList, and only one.
OneEvaluates ==
  /\ \A r, s \in Readers : Evaluating(r) /\ Evaluating(s) => r = s
  /\ tail = "busy" <=> \E r \in Readers : Evaluating(r)

\* The reader takes the elements of the chains in turn: while a chain has an
\* element, fewer elements of others are taken than there are other writers.
TakenInTurn == \A w \in Writers : passed[w] < Len(chains)

\* The channel is the abstract one: what is read is what was written.
Channel == INSTANCE Fifo WITH
  opened <- Made,
  taken  <- [w \in Writers |-> sent[w] - Len(queue[w])],
  got    <- list \o hand,
  ended  <- IsEnd,
  Late   <- Kills
IsFifo == Channel!Spec

\* put returns once there is room, or nobody will read, or it was stopped.
PutReturns ==
  \A w \in Writers :
    (at[w] = "put" /\ (cancelled \/ w \in closed \/ HasRoom(w))) ~> at[w] # "put"

\* A reader does not wait for ever where there is an element, or the end.
ReadReturns ==
  \A r \in Readers : []<>~((at[r] = "cell" \/ Evaluating(r)) /\ (~Empty \/ AllClosed))
=============================================================================
