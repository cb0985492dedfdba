------------------------------- MODULE Sched -------------------------------
(***************************************************************************)
(* The VProc scheduler of the Rust VM: struct Machine and Machine::run of  *)
(* vm/src/sched.rs with the primitives that change a VProc's state         *)
(* (prim/vprocs.rs, prim/lazy.rs, prim/refs.rs, prim/process.rs,           *)
(* prim/stream.rs).                                                        *)
(*                                                                         *)
(* The ConMa program is the most general one: at each step the running     *)
(* VProc applies any primitive to any operands, or computes, or fails.     *)
(* What a VProc computes is abstracted to what the scheduler looks at:     *)
(* whether an Operator or LCont is left (ctl), the CFrames of its CChain   *)
(* (chain), and the Refs and LazyLists that VProcs wait for.               *)
(*                                                                         *)
(* One pass of Machine::run is the sequence of phases                      *)
(*   front -> lazy -> changes -> os -> pick -> run -> after -> front       *)
(* of the variable pc.  Only signals and I/O events (Fire, Interrupt) can  *)
(* come between two phases: the VM is one thread.                          *)
(***************************************************************************)
EXTENDS Integers, Sequences, FiniteSets, SequencesExt

CONSTANTS
  VProcs,         \* the VProcs that can be made
  Main,           \* the first VProc (serial 1)
  None,           \* no VProc, no Ref
  Unmade, Thunk, Cell, \* values of a LazyList: not made yet, a Closure, a cell or null
  Refs,           \* Refs with Number values
  Thunks,         \* LazyLists made with a thunk (__Ref_new__ of a Closure)
  Holds,          \* LazyLists that __LazyList_hold__ can make
  Frames,         \* identities of the CFrames of a CChain
  MaxDepth,       \* bound: the length of a CChain
  MaxValue,       \* bound: the Numbers in a Ref are 0 .. MaxValue
  Procs, Streams, \* what __OS_wait__ and __OS_wait_readable/writable__ wait for
  PollInterval,   \* POLL_INTERVAL
  MaxInterrupts,  \* bound: the SIGINTs that arrive
  Seeded,         \* CONMA_SEED is set
  Prims           \* what the programs use, of PrimNames

Lazies  == Thunks \cup Holds
Targets == Procs \cup Streams
Cells   == SeqOf(Frames, MaxDepth)   \* the CChains, the top CFrame first

ASSUME MainAssumption == Main \in VProcs /\ None \notin VProcs /\ None \notin Refs
ASSUME DisjointAssumption ==
  /\ Refs \cap Lazies = {}
  /\ VProcs \cap {Unmade, Thunk, Cell} = {}
  /\ Unmade # Thunk /\ Unmade # Cell /\ Thunk # Cell
  /\ Lazies \cap {"op", "null"} = {}
ASSUME NumberAssumption ==
  /\ MaxDepth \in Nat /\ MaxValue \in Nat /\ PollInterval \in Nat
  /\ MaxInterrupts \in 0 .. MaxValue

\* "reenter": continuations into frames that were left; "watch":
\* __Ref_wait_change__ on LazyLists.  The others are always there.
PrimNames == {"suspend", "join", "kill", "exit", "reenter", "watch"}
ASSUME PrimAssumption == Seeded \in BOOLEAN /\ Prims \subseteq PrimNames

VARIABLES
  pc, cur,        \* phase of the main loop; Machine.current
  outcome,        \* how the interpreter ended
  mainFailed,     \* Machine.main_failed
  state, ready,   \* VProcCell.state; Machine.ready
  finishedAny,    \* Machine.finished_any
  joining,        \* (VProc, VProc) of __VProc_wait__
  lazy,           \* (VProc, LazyList) of __LazyList_claim__
  changes,        \* (VProc, Ref, value) of __Ref_wait_change__
  waiting,        \* (VProc, OS target)
  ctl,            \* the Operator and LCont of a VProc, as Control
  chain,          \* the CChain of a VProc
  claims,         \* VProc.claims
  killPending,    \* VProcCell.kill_pending
  ended,          \* how a VProc finished
  ref, val,       \* RefObj.value, of plain Refs and of LazyLists
  info,           \* RefObj.lazy: who marked the LazyList, and the CChain then
  refChanged,     \* Machine.ref_changed
  fired,          \* OS targets whose event the next check of the OS sees
  unpolled,       \* Machine.unpolled
  trap, seen,     \* Machine.trap: the Ref, and the SIGINTs counted
  sigints         \* SIGINTs that have arrived

queue == <<state, ready, finishedAny>>
lists == <<joining, lazy, changes, waiting>>
progs == <<ctl, chain, claims, killPending, ended>>
cells == <<ref, val, info, refChanged>>
os    == <<fired, unpolled, trap, seen, sigints>>
loop  == <<cur, outcome, mainFailed>>
vars  == <<pc, loop, queue, lists, progs, cells, os>>

States   == {"absent", "ready", "running", "blocked", "waiting", "finished"}
\* "op": an Operator or LCont is left; "null": neither is; a LazyList: the
\* Operator is __LazyList_claim__ and the OList still holds its operands.
Control  == {"op", "null"} \cup Lazies
Value(x) == IF x \in Refs THEN 0 .. MaxValue ELSE {Unmade, Thunk, Cell} \cup VProcs
Marks    == [by : {"none", "claim", "hold"}, chain : Cells]
NoMark   == [by |-> "none", chain |-> <<>>]

(***************************************************************************)
(* The state of the machine at the start: the entry function has its Refs  *)
(* and thunks, and is the only VProc.                                      *)
(***************************************************************************)
Init ==
  /\ pc = "front" /\ cur = None /\ outcome = "none" /\ mainFailed = FALSE
  /\ state = [v \in VProcs |-> IF v = Main THEN "ready" ELSE "absent"]
  /\ ready = <<Main>> /\ finishedAny = FALSE
  /\ joining = <<>> /\ lazy = <<>> /\ changes = <<>> /\ waiting = <<>>
  /\ ctl = [v \in VProcs |-> "op"]
  /\ chain = [v \in VProcs |-> <<>>]
  /\ claims = [v \in VProcs |-> {}]
  /\ killPending = [v \in VProcs |-> FALSE]
  /\ ended = [v \in VProcs |-> "no"]
  /\ ref = [r \in Refs |-> 0] /\ refChanged = FALSE
  /\ val = [l \in Lazies |-> IF l \in Thunks THEN Thunk ELSE Unmade]
  /\ info = [l \in Lazies |-> NoMark]
  /\ fired = {} /\ unpolled = 0 /\ trap = None /\ seen = 0 /\ sigints = 0

----------------------------------------------------------------------------
(***************************************************************************)
(* Helpers.                                                                *)
(***************************************************************************)

\* VProc::is_terminal.
Terminal(v) == ctl[v] = "null" /\ chain[v] = <<>>

\* The set with one element, the sequence of the elements of list at the
\* indices I, in their order.
Sublist(list, I) ==
  { [k \in DOMAIN s |-> list[s[k]]] :
      s \in { t \in SetToSeqs(I) : \A i, j \in DOMAIN t : i < j => t[i] < t[j] } }

\* The list without the entries of v (Vec::retain of kill_now).
Without(list, v) == Sublist(list, {i \in DOMAIN list : list[i].vp # v})

\* Fault: remove_ready forgotten.
DequeueNone(v) == ready

\* remove_ready: a VProc is in the ready queue once at most (Consistent).
Dequeue(v) ==
  IF \E i \in DOMAIN ready : ready[i] = v
  THEN RemoveAt(ready, CHOOSE i \in DOMAIN ready : ready[i] = v)
  ELSE ready

\* wake, of the VProcs of the sequence entries in turn.
Wake(entries) ==
  /\ ready' = ready \o [k \in DOMAIN entries |-> entries[k].vp]
  /\ state' = [v \in VProcs |-> IF \E k \in DOMAIN entries : entries[k].vp = v
                                THEN "ready" ELSE state[v]]

\* make_waiting (the VProc that waits is the running one).
MakeWaiting(v) == state' = [state EXCEPT ![v] = "waiting"]

\* The Value of a Ref or LazyList.
Current(x) == IF x \in Refs THEN ref[x] ELSE val[x]

\* lazy_abandoned: the owner of l, whose CChain is c, has left the evaluation.
Abandoned(l, c) == info[l].by = "claim" /\ ~IsSuffix(info[l].chain, c)

\* Fault: only the evaluation that v has just begun counts.
EvaluatingHere(v) ==
  { l \in claims[v] : val[l] = v /\ info[l].by = "claim" /\ info[l].chain = chain[v] }

\* evaluating_lazy: the LazyLists v claimed and has not left (the others are
\* forgotten: every caller assigns the result to claims[v]).
Evaluating(v) ==
  { l \in claims[v] : val[l] = v /\ info[l].by = "claim" /\ ~Abandoned(l, chain[v]) }

\* Fault: finished_any is not set.
FinishUnseen(v, how) ==
  /\ state' = [state EXCEPT ![v] = "finished"]
  /\ ended' = [ended EXCEPT ![v] = how]
  /\ UNCHANGED finishedAny

\* A VProc finishes, and sets finished_any.
Finish(v, how) ==
  /\ state' = [state EXCEPT ![v] = "finished"]
  /\ ended' = [ended EXCEPT ![v] = how]
  /\ finishedAny' = TRUE

\* kill_now (v has not finished).
KillNow(v) ==
  /\ ready' = IF state[v] = "ready" THEN Dequeue(v) ELSE ready
  /\ waiting' \in Without(waiting, v)
  /\ joining' \in Without(joining, v)
  /\ lazy' \in Without(lazy, v)
  /\ changes' \in Without(changes, v)
  /\ Finish(v, "killed")

\* Faults: one kind of waiting VProc is not looked for.
AloneButChanges(v) ==
  /\ ready = <<>> /\ joining = <<>> /\ lazy = <<>> /\ waiting = <<>>
  /\ trap = None /\ ~killPending[v]
AloneButLazy(v) ==
  /\ ready = <<>> /\ joining = <<>> /\ changes = <<>> /\ waiting = <<>>
  /\ trap = None /\ ~killPending[v]

\* runs_alone, but for the garbage collector (AfterYield).
RunsAlone(v) ==
  /\ ready = <<>> /\ joining = <<>> /\ lazy = <<>> /\ changes = <<>> /\ waiting = <<>>
  /\ trap = None
  /\ ~killPending[v]

----------------------------------------------------------------------------
(***************************************************************************)
(* The main loop, from the top to the choice of the next VProc.            *)
(***************************************************************************)

\* The first VProc of the ready queue has halted.
FrontHalted == ready # <<>> /\ Terminal(Head(ready))

FinishFront ==
  /\ pc = "front" /\ FrontHalted
  /\ ready' = Tail(ready)
  /\ Finish(Head(ready), "normal")
  /\ UNCHANGED <<pc, loop, lists, ctl, chain, claims, killPending, cells, os>>

JoinDue == joining # <<>> /\ finishedAny

\* check_joining, only after some VProc has finished.
CheckJoining ==
  /\ pc = "front" /\ ~FrontHalted /\ pc' = "lazy"
  /\ IF JoinDue
     THEN LET done == {i \in DOMAIN joining : state[joining[i].on] = "finished"}
          IN \E up \in Sublist(joining, done) :
               /\ joining' \in Sublist(joining, DOMAIN joining \ done)
               /\ Wake(up)
               /\ finishedAny' = FALSE
     ELSE UNCHANGED <<queue, joining>>
  /\ UNCHANGED <<loop, lazy, changes, waiting, progs, cells, os>>

\* A VProc that has not finished is evaluating l and has not left it.
BeingEvaluated(l) ==
  /\ val[l] \in VProcs
  /\ state[val[l]] # "finished"
  /\ ~Abandoned(l, chain[val[l]])

\* check_lazy.
CheckLazy ==
  /\ pc = "lazy" /\ pc' = "changes"
  /\ LET free == {i \in DOMAIN lazy : ~BeingEvaluated(lazy[i].on)}
     IN \E up \in Sublist(lazy, free) :
          /\ lazy' \in Sublist(lazy, DOMAIN lazy \ free)
          /\ Wake(up)
  /\ UNCHANGED <<loop, finishedAny, joining, changes, waiting, progs, cells, os>>

\* check_interrupts: a SIGINT that was not counted yet sets the Ref and
\* ref_changed.
Interrupted == trap # None /\ sigints # seen

\* Fault: ref_changed is not set.
FlagLost == refChanged
Flag == refChanged \/ Interrupted

CheckInterrupts ==
  /\ ref' = IF Interrupted THEN [ref EXCEPT ![trap] = sigints] ELSE ref
  /\ seen' = IF trap # None THEN sigints ELSE seen

\* check_interrupts and then check_changes, only after some Ref was set.
CheckChanges ==
  /\ pc = "changes" /\ pc' = "os"
  /\ CheckInterrupts
  /\ IF changes # <<>> /\ Flag
     THEN LET moved == {i \in DOMAIN changes :
                          (IF changes[i].on \in Refs THEN ref'[changes[i].on]
                           ELSE val[changes[i].on]) # changes[i].old}
          IN \E up \in Sublist(changes, moved) :
               /\ changes' \in Sublist(changes, DOMAIN changes \ moved)
               /\ Wake(up)
               /\ refChanged' = FALSE
     ELSE /\ UNCHANGED <<state, ready, changes>>
          /\ refChanged' = Flag
  /\ UNCHANGED <<loop, finishedAny, joining, lazy, waiting, progs, val, info,
                 fired, unpolled, trap, sigints>>

\* The entries of waiting whose event has come.
OsReady == {i \in DOMAIN waiting : waiting[i].on \in fired}

\* check_waiting, once it does not sleep any more.
CheckWaiting ==
  /\ CheckInterrupts /\ refChanged' = Flag
  /\ \E up \in Sublist(waiting, OsReady) :
       /\ waiting' \in Sublist(waiting, DOMAIN waiting \ OsReady)
       /\ Wake(up)
  /\ UNCHANGED <<loop, finishedAny, joining, lazy, changes, progs, val, info,
                 fired, trap, sigints>>

\* No VProc is ready: sleep until an event or a SIGINT.
OsSleep ==
  /\ pc = "os" /\ waiting # <<>> /\ ready = <<>>
  /\ OsReady # {} \/ Interrupted
  /\ CheckWaiting /\ unpolled' = 0
  /\ pc' = IF OsReady = {} THEN "front" ELSE "pick"

\* Fault: off by one.
PollDueLate == unpolled > PollInterval
PollDue == unpolled >= PollInterval

\* Some VProc is ready: look at the OS only now and then.
OsPoll ==
  /\ pc = "os" /\ waiting # <<>> /\ ready # <<>> /\ PollDue
  /\ CheckWaiting /\ unpolled' = 0
  /\ pc' = "pick"

OsSkip ==
  /\ pc = "os" /\ (waiting = <<>> \/ (ready # <<>> /\ ~PollDue))
  /\ unpolled' = IF waiting = <<>> THEN unpolled ELSE unpolled + 1
  /\ pc' = "pick"
  /\ UNCHANGED <<loop, queue, lists, progs, cells, fired, trap, seen, sigints>>

SignalMayCome == trap # None /\ changes # <<>>

\* No VProc is ready, and one waits for a Ref: sleep until a SIGINT.
SignalSleep ==
  /\ pc = "pick" /\ ready = <<>> /\ SignalMayCome
  /\ Interrupted
  /\ CheckWaiting
  /\ pc' = "front"
  /\ UNCHANGED unpolled

\* Faults: the report forgets one of the lists.
BlockedButJoining ==
  { v \in VProcs : \/ state[v] = "blocked"
                   \/ \E i \in DOMAIN lazy : lazy[i].vp = v
                   \/ \E i \in DOMAIN changes : changes[i].vp = v }
BlockedButLazy ==
  { v \in VProcs : \/ state[v] = "blocked"
                   \/ \E i \in DOMAIN joining : joining[i].vp = v
                   \/ \E i \in DOMAIN changes : changes[i].vp = v }

\* The VProcs that the deadlock report lists.
Blocked ==
  { v \in VProcs : \/ state[v] = "blocked"
                   \/ \E i \in DOMAIN joining : joining[i].vp = v
                   \/ \E i \in DOMAIN lazy : lazy[i].vp = v
                   \/ \E i \in DOMAIN changes : changes[i].vp = v }

\* No VProc is ready: the end, or a deadlock.
Stop ==
  /\ pc = "pick" /\ ready = <<>> /\ ~SignalMayCome
  /\ pc' = "stopped"
  /\ outcome' = IF Blocked = {} THEN "normal" ELSE "deadlock"
  /\ UNCHANGED <<cur, mainFailed, queue, lists, progs, cells, os>>

\* Fault: the ready queue is a stack.
TakesLast(i) == i = Len(ready) \/ Seeded

\* Position 1, or with CONMA_SEED any.
Takes(i) == i = 1 \/ Seeded

\* Run the VProc taken (with CONMA_SEED one that has halted is moved to the
\* front, for FinishFront).
Dispatch ==
  /\ pc = "pick"
  /\ \E i \in DOMAIN ready :
       /\ Takes(i)
       /\ LET v == ready[i]
          IN IF Seeded /\ Len(ready) > 1 /\ Terminal(v)
             THEN /\ ready' = <<v>> \o RemoveAt(ready, i)
                  /\ pc' = "front"
                  /\ UNCHANGED <<cur, state>>
             ELSE /\ ready' = RemoveAt(ready, i)
                  /\ state' = [state EXCEPT ![v] = "running"]
                  /\ cur' = v
                  /\ pc' = "run"
  /\ UNCHANGED <<outcome, mainFailed, finishedAny, lists, progs, cells, os>>

----------------------------------------------------------------------------
(***************************************************************************)
(* One step of the running VProc v.                                        *)
(***************************************************************************)

Runs(v, c) == pc = "run" /\ cur = v /\ ctl[v] = c /\ pc' = "after" /\ UNCHANGED loop

\* prim_return and prim_error: the LCont, if there is one, or onError becomes
\* the Operator; either may be null.
PrimReturn(v) == \E c \in {"op", "null"} : ctl' = [ctl EXCEPT ![v] = c]

\* A pushed CFrame makes a new cell: not one that a claim remembers.
Pushed(v) ==
  { c \in Cells : /\ c # <<>> /\ Tail(c) = chain[v]
                  /\ \A l \in Lazies : val[l] = v => ~IsSuffix(c, info[l].chain) }

\* The CChains after a step: pushed or popped, set back by a continuation to
\* the rest of itself, or (reenter) to frames left before.
Chains(v) ==
  IF "reenter" \in Prims THEN Cells ELSE Pushed(v) \cup { c \in Cells : IsSuffix(c, chain[v]) }

\* A step that no VProc but v notices: a Closure, Seq or continuation is
\* applied, or a primitive returns a value.
Compute(v) ==
  /\ Runs(v, "op") /\ PrimReturn(v)
  /\ \E c \in Chains(v) : chain' = [chain EXCEPT ![v] = c]
  /\ UNCHANGED <<queue, lists, claims, killPending, ended, cells, os>>

\* The step ends with an error.
FailWith(v) ==
  /\ Finish(v, "error")
  /\ pc' = "after" /\ UNCHANGED <<cur, outcome>>
  /\ mainFailed' = (mainFailed \/ v = Main)
  /\ UNCHANGED <<ready, lists, ctl, chain, claims, killPending, cells, os>>

Fail(v) == pc = "run" /\ cur = v /\ ctl[v] = "op" /\ FailWith(v)

\* A null Operator without an LCont: return to the top CFrame.
NullReturn(v) ==
  /\ Runs(v, "null") /\ chain[v] # <<>> /\ PrimReturn(v)
  /\ chain' = [chain EXCEPT ![v] = Tail(chain[v])]
  /\ UNCHANGED <<queue, lists, claims, killPending, ended, cells, os>>

\* The same with an empty CChain: "Null Operator: CChain empty, no LCont".
NullFail(v) == pc = "run" /\ cur = v /\ Terminal(v) /\ FailWith(v)

\* __OS_exit_normal__, __OS_exit_error__, __OS_exit__.
Exit(v) ==
  /\ pc = "run" /\ cur = v /\ ctl[v] = "op"
  /\ pc' = "stopped" /\ outcome' = "exit" /\ cur' = None
  /\ UNCHANGED <<mainFailed, queue, lists, progs, cells, os>>

\* __VProc_start__, __VProc_spawn__: c is the new VProc.
Start(v, c) ==
  /\ Runs(v, "op") /\ PrimReturn(v) /\ state[c] = "absent"
  /\ state' = [state EXCEPT ![c] = "ready"]
  /\ ready' = Append(ready, c)
  /\ UNCHANGED <<finishedAny, lists, chain, claims, killPending, ended, cells, os>>

\* __VProc_suspend__.
Suspend(v, t) ==
  /\ Runs(v, "op") /\ PrimReturn(v) /\ state[t] # "absent"
  /\ ready' = IF state[t] = "ready" THEN Dequeue(t) ELSE ready
  /\ state' = IF state[t] \in {"ready", "running"}
              THEN [state EXCEPT ![t] = "blocked"] ELSE state
  /\ UNCHANGED <<finishedAny, lists, chain, claims, killPending, ended, cells, os>>

Resumable(t) == state[t] = "blocked"

\* __VProc_resume__.
Resume(v, t) ==
  /\ Runs(v, "op") /\ PrimReturn(v) /\ state[t] # "absent"
  /\ IF Resumable(t)
     THEN ready' = Append(ready, t) /\ state' = [state EXCEPT ![t] = "ready"]
     ELSE UNCHANGED <<ready, state>>
  /\ UNCHANGED <<finishedAny, lists, chain, claims, killPending, ended, cells, os>>

\* __VProc_wait__ (for v itself it applies onError: Compute).
Join(v, t) ==
  /\ Runs(v, "op") /\ PrimReturn(v) /\ t # v /\ state[t] # "absent"
  /\ IF state[t] # "finished"
     THEN MakeWaiting(v) /\ joining' = Append(joining, [vp |-> v, on |-> t])
     ELSE UNCHANGED <<state, joining>>
  /\ UNCHANGED <<ready, finishedAny, lazy, changes, waiting, chain, claims, killPending,
                 ended, cells, os>>

\* __VProc_kill__: t finishes now, or later if it is evaluating LazyLists.
Kill(v, t) ==
  /\ Runs(v, "op") /\ PrimReturn(v) /\ state[t] # "absent"
  /\ IF state[t] = "finished"
     THEN UNCHANGED <<queue, lists, claims, killPending, ended>>
     ELSE /\ claims' = [claims EXCEPT ![t] = Evaluating(t)]
          /\ IF Evaluating(t) # {}
             THEN /\ killPending' = [killPending EXCEPT ![t] = TRUE]
                  /\ UNCHANGED <<queue, lists, ended>>
             ELSE KillNow(t) /\ UNCHANGED killPending
  /\ UNCHANGED <<chain, cells, os>>

\* __Ref_set__.
RefSet(v, r, x) ==
  /\ Runs(v, "op") /\ PrimReturn(v)
  /\ ref' = [ref EXCEPT ![r] = x] /\ refChanged' = TRUE
  /\ UNCHANGED <<queue, lists, chain, claims, killPending, ended, val, info, os>>

\* __Ref_wait_change__ on a Ref or LazyList whose value the program last saw
\* as old.
RefWaitChange(v, r, old) ==
  /\ Runs(v, "op") /\ PrimReturn(v) /\ Current(r) # Unmade
  /\ IF Current(r) = old
     THEN MakeWaiting(v) /\ changes' = Append(changes, [vp |-> v, on |-> r, old |-> old])
     ELSE UNCHANGED <<state, changes>>
  /\ UNCHANGED <<ready, finishedAny, joining, lazy, waiting, chain, claims, killPending,
                 ended, cells, os>>

\* The guards of __LazyList_claim__ on l by v.
OwnerGone(l) == val[l] \in VProcs /\ state[val[l]] = "finished"
Claimable(l) == val[l] = Thunk \/ (val[l] \in VProcs /\ ~OwnerGone(l) /\ ~BeingEvaluated(l))

\* l is v's to evaluate, under v's present CChain.
MarkClaimed(v, l) ==
  /\ val' = [val EXCEPT ![l] = v]
  /\ info' = [info EXCEPT ![l] = [by |-> "claim", chain |-> chain[v]]]
  /\ claims' = [claims EXCEPT ![v] = {x \in claims[v] : val[x] = v} \cup {l}]

\* __LazyList_claim__ (again, if the Operator was left for the retry).
Claims(v, l, c) == Runs(v, c) /\ c \in {"op", l} /\ val[l] # Unmade

ClaimThunk(v, l, c) ==
  /\ Claims(v, l, c) /\ Claimable(l)
  /\ PrimReturn(v) /\ MarkClaimed(v, l)
  /\ UNCHANGED <<queue, lists, chain, killPending, ended, ref, refChanged, os>>

ClaimCell(v, l, c) ==
  /\ Claims(v, l, c) /\ val[l] = Cell
  /\ PrimReturn(v)
  /\ UNCHANGED <<queue, lists, chain, claims, killPending, ended, cells, os>>

\* onError: the owner has finished, or l depends on itself.
ClaimError(v, l, c) ==
  /\ Claims(v, l, c) /\ (OwnerGone(l) \/ (val[l] = v /\ BeingEvaluated(l)))
  /\ PrimReturn(v)
  /\ UNCHANGED <<queue, lists, chain, claims, killPending, ended, cells, os>>

\* Another VProc is evaluating or holds l: wait, and claim it again then.
ClaimWait(v, l, c) ==
  /\ Claims(v, l, c) /\ BeingEvaluated(l) /\ val[l] # v
  /\ ctl' = [ctl EXCEPT ![v] = l]
  /\ MakeWaiting(v) /\ lazy' = Append(lazy, [vp |-> v, on |-> l])
  /\ UNCHANGED <<ready, finishedAny, joining, changes, waiting, chain, claims,
                 killPending, ended, cells, os>>

\* __LazyList_hold__.
Hold(v, l) ==
  /\ Runs(v, "op") /\ PrimReturn(v) /\ l \in Holds /\ val[l] = Unmade
  /\ val' = [val EXCEPT ![l] = v]
  /\ info' = [info EXCEPT ![l] = [by |-> "hold", chain |-> <<>>]]
  /\ UNCHANGED <<queue, lists, chain, claims, killPending, ended, ref, refChanged, os>>

\* Fault: the owner is not checked.
MayPublishAny(v, l) == val[l] # Unmade
MayPublish(v, l) == val[l] = v

\* __LazyList_publish__ (on a LazyList that is not v's it fails: Fail), and
\* then the end of a VProc whose kill was delayed.
Publish(v, l) ==
  /\ Runs(v, "op") /\ PrimReturn(v) /\ MayPublish(v, l)
  /\ val' = [val EXCEPT ![l] = Cell]
  /\ info' = [info EXCEPT ![l] = NoMark]
  /\ refChanged' = TRUE
  /\ LET left == IF killPending[v] THEN Evaluating(v) \ {l} ELSE claims[v] \ {l}
     IN /\ claims' = [claims EXCEPT ![v] = left]
        /\ IF killPending[v] /\ left = {}
           THEN KillNow(v) ELSE UNCHANGED <<queue, lists, ended>>
  /\ UNCHANGED <<chain, killPending, ref, os>>

\* __OS_wait__, __OS_wait_readable__, __OS_wait_writable__.
OsWait(v, t) ==
  /\ Runs(v, "op") /\ PrimReturn(v)
  /\ IF t \notin fired
     THEN MakeWaiting(v) /\ waiting' = Append(waiting, [vp |-> v, on |-> t])
     ELSE UNCHANGED <<state, waiting>>
  /\ UNCHANGED <<ready, finishedAny, joining, lazy, changes, chain, claims, killPending,
                 ended, cells, os>>

\* __OS_read__ or __OS_write__: the Stream need not be ready any more.
ReadStream(v, t) ==
  /\ Runs(v, "op") /\ PrimReturn(v) /\ t \in Streams \cap fired
  /\ fired' = fired \ {t}
  /\ UNCHANGED <<queue, lists, chain, claims, killPending, ended, cells,
                 unpolled, trap, seen, sigints>>

\* __OS_trap_interrupt__.
TrapInterrupt(v, r) ==
  /\ MaxInterrupts > 0 /\ Runs(v, "op") /\ PrimReturn(v)
  /\ trap' = r /\ seen' = sigints
  /\ UNCHANGED <<queue, lists, chain, claims, killPending, ended, cells,
                 fired, unpolled, sigints>>

----------------------------------------------------------------------------
(***************************************************************************)
(* After a step: cur gives the machine back, or runs on.                   *)
(***************************************************************************)

\* Fault: a delayed kill is looked at by __LazyList_publish__ only.
DiesNever(v) == FALSE

\* A delayed kill, once cur evaluates no LazyList any more.
Dies(v) == killPending[v] /\ state[v] # "finished" /\ Evaluating(v) = {}

\* evaluating_lazy forgets what v has left when it looks.
Forget(v) ==
  claims' = IF killPending[v] /\ state[v] # "finished"
            THEN [claims EXCEPT ![v] = Evaluating(v)] ELSE claims

Leaves == pc = "after" /\ pc' = "front" /\ cur' = None /\ UNCHANGED <<outcome, mainFailed>>

AfterKill ==
  /\ Leaves /\ Dies(cur) /\ KillNow(cur) /\ Forget(cur)
  /\ UNCHANGED <<ctl, chain, killPending, cells, os>>

\* cur is blocked, waits or has finished.
AfterStop ==
  /\ Leaves /\ ~Dies(cur) /\ state[cur] # "running" /\ Forget(cur)
  /\ UNCHANGED <<queue, lists, ctl, chain, killPending, ended, cells, os>>

AfterHalt ==
  /\ Leaves /\ ~Dies(cur) /\ state[cur] = "running" /\ Terminal(cur)
  /\ Finish(cur, "normal") /\ Forget(cur)
  /\ UNCHANGED <<ready, lists, ctl, chain, killPending, cells, os>>

\* runs_alone: step again without a pass of the loop.
AfterAlone ==
  /\ pc = "after" /\ pc' = "run"
  /\ ~Dies(cur) /\ state[cur] = "running" /\ ~Terminal(cur) /\ RunsAlone(cur)
  /\ Forget(cur)
  /\ UNCHANGED <<loop, queue, lists, ctl, chain, killPending, ended, cells, os>>

\* Back to the end of the ready queue (also alone, if a collection is due).
AfterYield ==
  /\ Leaves /\ ~Dies(cur) /\ state[cur] = "running" /\ ~Terminal(cur) /\ Forget(cur)
  /\ state' = [state EXCEPT ![cur] = "ready"]
  /\ ready' = Append(ready, cur)
  /\ UNCHANGED <<finishedAny, lists, ctl, chain, killPending, ended, cells, os>>

----------------------------------------------------------------------------
(***************************************************************************)
(* The OS, between any two phases.                                         *)
(***************************************************************************)

\* A process exits and its SIGCHLD arrives, or a Stream becomes ready or is
\* closed.
Fire(t) ==
  /\ t \notin fired /\ pc # "stopped"
  /\ fired' = fired \cup {t}
  /\ UNCHANGED <<pc, loop, queue, lists, progs, cells, unpolled, trap, seen, sigints>>

\* SIGINT.
Interrupt ==
  /\ trap # None /\ sigints < MaxInterrupts /\ pc # "stopped"
  /\ sigints' = sigints + 1
  /\ UNCHANGED <<pc, loop, queue, lists, progs, cells, fired, unpolled, trap, seen>>

\* The interpreter has exited.
Stopped == pc = "stopped" /\ UNCHANGED vars

Schedule ==
  \/ FinishFront \/ CheckJoining \/ CheckLazy \/ CheckChanges
  \/ OsSleep \/ OsPoll \/ OsSkip \/ SignalSleep \/ Stop \/ Dispatch

After == AfterKill \/ AfterStop \/ AfterHalt \/ AfterAlone \/ AfterYield

Step(v) ==
  \/ Compute(v) \/ Fail(v) \/ NullReturn(v) \/ NullFail(v)
  \/ "exit" \in Prims /\ Exit(v)
  \/ \E t \in VProcs :
       \/ Start(v, t)
       \/ "suspend" \in Prims /\ (Suspend(v, t) \/ Resume(v, t))
       \/ "join" \in Prims /\ Join(v, t)
       \/ "kill" \in Prims /\ Kill(v, t)
  \/ \E r \in Refs, x \in 0 .. MaxValue : RefSet(v, r, x)
  \/ \E r \in Refs \cup (IF "watch" \in Prims THEN Lazies ELSE {}) :
       \E x \in Value(r) : RefWaitChange(v, r, x)
  \/ \E l \in Lazies, c \in Control :
       ClaimThunk(v, l, c) \/ ClaimCell(v, l, c) \/ ClaimError(v, l, c) \/ ClaimWait(v, l, c)
  \/ \E l \in Lazies : Hold(v, l) \/ Publish(v, l)
  \/ \E t \in Targets : OsWait(v, t) \/ ReadStream(v, t)
  \/ \E r \in Refs : TrapInterrupt(v, r)

Machine == Schedule \/ After \/ \E v \in VProcs : Step(v)

Next == Machine \/ (\E t \in Targets : Fire(t)) \/ Interrupt \/ Stopped

Spec == Init /\ [][Next]_vars

\* The interpreter is one thread, which the OS runs.
FairSpec == Spec /\ WF_vars(Machine)

----------------------------------------------------------------------------
(***************************************************************************)
(* Properties.                                                             *)
(***************************************************************************)

\* The values of the variables (Machine and VProcCell, vm/src/sched.rs and
\* vm/src/vproc.rs).  unpolled stays at or below POLL_INTERVAL.
TypeOK ==
  /\ pc \in {"front", "lazy", "changes", "os", "pick", "run", "after", "stopped"}
  /\ cur \in VProcs \cup {None}
  /\ outcome \in {"none", "normal", "deadlock", "exit"} /\ mainFailed \in BOOLEAN
  /\ state \in [VProcs -> States] /\ ready \in Seq(VProcs) /\ finishedAny \in BOOLEAN
  /\ joining \in Seq([vp : VProcs, on : VProcs])
  /\ lazy \in Seq([vp : VProcs, on : Lazies])
  /\ changes \in Seq([vp : VProcs, on : Refs \cup Lazies,
                      old : (0 .. MaxValue) \cup {Unmade, Thunk, Cell} \cup VProcs])
  /\ waiting \in Seq([vp : VProcs, on : Targets])
  /\ ctl \in [VProcs -> Control] /\ chain \in [VProcs -> Cells]
  /\ claims \in [VProcs -> SUBSET Lazies] /\ killPending \in [VProcs -> BOOLEAN]
  /\ ended \in [VProcs -> {"no", "normal", "error", "killed"}]
  /\ ref \in [Refs -> 0 .. MaxValue] /\ refChanged \in BOOLEAN
  /\ val \in [Lazies -> {Unmade, Thunk, Cell} \cup VProcs]
  /\ info \in [Lazies -> Marks]
  /\ fired \in SUBSET Targets /\ unpolled \in 0 .. PollInterval
  /\ trap \in Refs \cup {None} /\ seen \in 0 .. sigints /\ sigints \in 0 .. MaxInterrupts

Entries(list, v) == {i \in DOMAIN list : list[i].vp = v}

\* A VProc is in exactly the place that its state says: a ready one once in
\* the ready queue, a waiting one once in exactly one of the four lists, and
\* no other one anywhere (suspend, resume, kill_now and the checks move them).
Consistent ==
  /\ \A v \in VProcs :
       /\ Cardinality({i \in DOMAIN ready : ready[i] = v}) = IF state[v] = "ready" THEN 1 ELSE 0
       /\ Cardinality(Entries(joining, v)) + Cardinality(Entries(lazy, v))
          + Cardinality(Entries(changes, v)) + Cardinality(Entries(waiting, v))
          = IF state[v] = "waiting" THEN 1 ELSE 0
       /\ state[v] = "running" => v = cur \/ outcome = "exit"
  /\ pc \in {"run", "after"} <=> cur # None

\* No join is missed: a VProc that waits for a finished VProc is woken before
\* the next step, because each way to finish sets finished_any.
PromptJoin ==
  pc \in {"lazy", "changes", "os", "pick", "run"} =>
    \A i \in DOMAIN joining : state[joining[i].on] # "finished"

\* No VProc sleeps while it could claim its LazyList: it waits only while
\* another VProc is evaluating it (check_lazy, before each step).
PromptLazy ==
  pc \in {"changes", "os", "pick", "run"} =>
    \A i \in DOMAIN lazy : BeingEvaluated(lazy[i].on) /\ val[lazy[i].on] # lazy[i].vp

Missed(i) == Current(changes[i].on) # changes[i].old

\* No change of a Ref is missed: while a VProc waits for a change that came,
\* ref_changed makes the next pass of the loop look at the Refs, whichever of
\* __Ref_set__, check_interrupts in the loop or in check_waiting made it.
NoMissedChange ==
  \A i \in DOMAIN changes : changes[i].on \in Refs /\ Missed(i) => refChanged

\* Who waits for a Ref that was set "still wakes before the next step"
\* (docs/DESIGN.md).  A claim does not wake who watches a LazyList.
PromptRefChange ==
  pc \in {"os", "pick", "run"} =>
    \A i \in DOMAIN changes : changes[i].on \in Refs => ~Missed(i)

\* The interpreter ends normally only when every VProc has finished, and
\* reports a deadlock only when no VProc could ever be woken.
StopIsRight ==
  /\ outcome = "normal" => \A v \in VProcs : state[v] \in {"absent", "finished"}
  /\ outcome = "deadlock" =>
       /\ \E v \in VProcs : state[v] \in {"blocked", "waiting"}
       /\ \A v \in VProcs : state[v] \notin {"ready", "running"}
       /\ waiting = <<>>
       /\ \A i \in DOMAIN joining : state[joining[i].on] # "finished"
       /\ \A i \in DOMAIN lazy : BeingEvaluated(lazy[i].on)
       /\ \A i \in DOMAIN changes : changes[i].on \in Refs => ~Missed(i)

\* A killed VProc leaves no evaluation open: what it had claimed is published,
\* or it had left the evaluation (docs/PRIMITIVES.md, __VProc_kill__).
KillSpares ==
  \A l \in Lazies : val[l] \in VProcs /\ ended[val[l]] = "killed" /\ info[l].by = "claim" =>
    Abandoned(l, chain[val[l]])

\* A VProc to be killed later is killed no later than the first pass after it
\* has left its last evaluation.
KillArrives ==
  pc = "run" => ~(killPending[cur] /\ Evaluating(cur) = {})

\* The claim of a LazyList passes on only when its owner has left, and a cell
\* stays for ever.
ClaimIsExclusive ==
  [][\A l \in Lazies :
       /\ val[l] = Cell => val'[l] = Cell
       /\ BeingEvaluated(l) /\ val'[l] # val[l] => val'[l] = Cell /\ cur = val[l]]_vars

Ended == pc = "stopped"

\* Round robin starves no ready VProc.
NoStarvation ==
  \A v \in VProcs : state[v] = "ready" ~> (state[v] # "ready" \/ Ended)

============================================================================
