# A verification project for ConMa

ConMa is a small continuation-passing language. This repository holds its
virtual machine in Rust (`vm/`), a transpiler from ConMa modules to Rust
(`vm/conma2rust/`), a reference VM in Python (`test/`), a library and a front end
written in ConMa (`include/`, `bin/`), and ConSh, a shell written twice: in ConMa
(`consh/include/`) and in Rust (`consh/rust/`). Paths below are relative to the
root of the repository (`src/`).

What can go wrong here and no unit test would find is in four places: the
scheduler of the VM, with cooperative processes (VProcs) that suspend, join, kill
and wake each other and sleep in the operating system; the short cuts that must
not be seen (the collector, the transpiled code); the machine of ConSh with
delimited continuations; and the threads, channels and jobs of ConSh.

## 1. Inventory

| Component | State | Operations | Talks to | What makes it correct |
|---|---|---|---|---|
| Scheduler `vm/src/sched.rs`, `prim/vprocs.rs`, `prim/refs.rs` | ready queue; lists `joining`, `lazy`, `changes`, `waiting`; flags `finished_any`, `ref_changed`; `unpolled`; per VProc: state, CChain, claims, `kill_pending` | one pass of `Machine::run`; start, suspend, resume, wait, kill; `__Ref_set__`, `__Ref_wait_change__`; exit | primitives run in a step; OS waits; LazyLists | a VProc is in exactly the place its state names; each waiter wakes before the next step once its reason has come; the loop stops only when nothing can happen; no VProc starves |
| LazyList claims `prim/lazy.rs` | per LazyList: value (thunk, owner, cell) and who marked it in which CChain | claim, hold, publish | scheduler (`check_lazy`, delayed kill) | one evaluator at a time; a cell stays for ever; a killed VProc leaves no evaluation open; nobody waits for a free list |
| OS waits and signals `sys.rs`, `prim/process.rs`, `prim/stream.rs`, `prim/os.rs` | self-pipe, `SIGNALS`, `INTERRUPTS`, `signals_seen`, `os_dirty`, Streams | `check_waiting`, handlers, read, write, spawn, wait, trap | scheduler | no exit and no signal is lost between a look and a sleep |
| Step `step.rs`, `prim/control.rs`, `prim/cchain.rs` | Operator, OList, LCont, CChain, PDict | apply, return, error, continuations | everything | the CChain is what the continuations say |
| Transpiled code `transpiled.rs`, `conma2rust.py` | Rust calls with their bases and continuations; a budget | native steps, deopt, escapes | Step | the same steps as interpreted code |
| Collector `gc.rs` | registry of containers, `MADE`, `THRESHOLD`, reference counts | `register`, `due`, `collect` | main loop | nothing reachable is cleared, no cycle stays |
| Data primitives, values `value.rs`, `prim/*.rs` | Dict index, MSeq, StreamObj buffer | sequential functions | - | insertion order; UTF-8 across reads |
| `include/util.se` | Refs and LazyLists of a pipe | `__LazyList_force__`, `__LazyList_pipe__` | scheduler, claims | every element once, in order, at most `capacity` ahead |
| ConSh channels `consh/include/consh_chan.se`, `consh/rust/src/chan.rs` | chain of cells, counters, flags, settle states | writer, put, close, cancel, settle, next | evaluators | order per writer, bounded run-ahead, no lost wake-up, end only after every writer |
| ConSh evaluator in Rust, one thread: `eval.rs` | the Chain of frames, nested runs, `meta`, variable lists | statements, return, break, reset, shift, continuations, redirections | channels | one stack with marks; a flow ends at its own frame |
| ConSh evaluator in Rust, threads: `eval.rs`, `value.rs` | Members, `pipe_members`, `proc_ref`, `substs`, `jobs`, Promises | pipelines, `$( )`, `&`, `wait`, `kill`, exit, external commands | channels, OS | a statement ends when its parts have ended; a kill arrives; nobody waits in a circle |
| ConSh evaluator in ConMa `consh_eval.se` | the same in Refs | the same | `consh_chan.se`, scheduler | the same |
| Front end, loader, parsers, glob, prompt, Python VM | none that lives | sequential text functions | - | the output for each input |

How they meet: `Machine::run` calls `step` for the running VProc, `step` applies a
primitive or loads a Body, or `load_body` runs transpiled code, which is several
steps in one; primitives put VProcs into the scheduler's lists; the loop polls the
OS and calls `collect` between steps. In ConSh, a thread runs the machine of
`eval.rs`; `$( )`, pipelines and jobs start threads with a copy of its context,
joined by channels.

The hard behaviours, which `PROJECT.json` lists at their lines under
"hazards": flags that let the loop skip a check (a place that forgets to set one
loses a wake-up for good); an owner of a LazyList that finishes, is killed, leaves by
a continuation or comes back while others wait; deadlock told apart from the
normal end by the contents of four lists; a signal between any two lines; a
continuation that crosses a Rust call, a nested run or a reset; a collector that
knows no roots; two channels with their flags and counters; a kill that goes
through a tree of threads while the tree grows.

## 2. Plan

Done, in this order: **Sched**; **Chan** and **ConshChan**, against **Fifo**;
**Transpiled** against **Vm**, on **VmStep**; **Script** against **Delimited**, on
**ScriptStep**; **Jobs**; **Collect** against **Heap**; **OsWait**; and the proofs
about Sched, Chan, ConshChan, Jobs, Collect, OsWait, Transpiled and Script.

Left, in the order of their worth:

1. The refinement of Vm by Transpiled, with a mapping that is not `RECURSIVE`.
2. **LazyPipe**: `__LazyList_force__` and `__LazyList_pipe__` of `util.se`, the third
   channel of the repository, against Fifo with one chain.
3. The composition of Jobs and Chan; the prompt (`repl.rs`) with Ctrl-C on top of Jobs.
4. The VProcs of the ConMa evaluator.

## 3. The modules and the code

| Module | Models | State | Steps |
|---|---|---|---|
| `Sched` | `vm/src/sched.rs`, `prim/vprocs.rs`, `prim/lazy.rs`, `prim/refs.rs`, parts of `prim/process.rs`, `prim/stream.rs` | fields of `Machine`, `VProcCell`, `VProc`, `RefObj` | a phase of `Machine::run`, or one step of the running VProc |
| `OsWait` | `check_waiting` of `sched.rs`, `sys.rs`, `prim/process.rs`, `prim/stream.rs` | signals, self-pipe, exits, the lists and flags of `Machine` that they touch, the line | from one line where a signal or an exit matters to the next; a handler; an event of the OS |
| `VmStep` | `step.rs`, `vproc.rs`, `prim/cchain.rs`, `prim/control.rs` | (operators only) | one step of a VProc, as a function |
| `Vm` | what transpiled code promises: a VProc run by `VmStep` | program, registers | up to `Longest` steps |
| `Transpiled` | `transpiled.rs`, the choices of `conma2rust.py` | registers, the Rust calls, ids, budget, `next` of `drive` | one Rust helper, one turn of `drive`, one end of `frame_run`, one step of the VM |
| `TranspiledVm` | the registers of Transpiled as the VM alone would have them (`AsVm`), the property `Promise` | | |
| `References`, `Heap` | what memory promises: contents of what is reached | holders, contents | make, get, put, forget |
| `Collect` | `gc.rs` and the counts of `Rc` | values alive, references, holders, `MADE`, `THRESHOLD` | one operation of a step, or `collect` |
| `Fifo` | what a channel promises (the head comments of `chan.rs` and `consh_chan.se`) | per writer: open, closed, written, read | Open, Put, Take, Close, End |
| `Chan` | `consh/rust/src/chan.rs`, `uncons` of `value.rs`, the threads of `eval.rs` that use them | `Inner`, the cells of the LazyList, a place per thread | from taking the Mutex to giving it back or sleeping |
| `ConshChan` | `consh/include/consh_chan.se` and what `consh_eval.se` does to a channel | Refs of a channel, a `$( )` and its chains; a place per VProc | one primitive on a shared Ref or MSeq |
| `ScriptStep` | the statements of `eval.rs` that do not look at the rest of the computation | (operators only) | one step of a frame, as a function |
| `Delimited` | what reset, shift and variable lists promise: one stack with marks | stack, values | one frame, or one flow |
| `Script` | `run`, `step`, `unwind`, `exec_reset`, `exec_shift`, `cont_call`, `retarget`, `capture_run` of `eval.rs` | the nested runs with their Chains, `meta`, values | one turn of `run`, one `unwind` |
| `Jobs` | threads of `eval.rs`: `$( )`, pipelines, jobs, Promises, external commands, `wait`, `kill`, `exit` | a Ctx, a Member and a place for each thread | what one thread does up to the next thing that others see |
| `MC...` | instances for TLC | | |
| `..._proofs` | theorems of the module | | |

**Sched.** `pc` is the place in `Machine::run`: `front` (finished VProcs leave the
front of the queue, `check_joining`), `lazy` (`check_lazy`), `changes`
(`check_interrupts`, `check_changes`), `os` (`check_waiting`, `POLL_INTERVAL`, the
sleeps and the end of the loop), `pick`, `run` (one step of the VProc `cur`),
`after` (what the loop does with the result, `kill_pending`, `runs_alone`). Each
phase is one action, each primitive that changes the scheduler's state is one
action, with its error paths. The ConMa program is the most general one: the VProc
that runs applies any primitive of `Prims` to any operands, computes, or fails. Of
a VProc's data the model keeps what the scheduler looks at: whether an Operator
or LCont is left, the CFrames of the CChain, and the Refs and LazyLists waited
for. `Seeded` takes VProcs from the queue in any order (`CONMA_SEED`).

**OsWait.** What Sched takes as one step (`Fire`) line by line. An exit makes
`SIGCHLD` pending (if there is a handler), a handler counts and writes the byte, and
both may come between any two of: the test that skips the poll (`Skip`), the
reading of `signals_seen` (`Look`), `poll()` (`Poll`), the draining of the pipe
(`Drain`), the count (`Count`), and each `waitpid` (`Scan`). `__OS_wait__` makes the
handler before its own poll (`Wait`, `WaitPolls`), `__OS_trap_interrupt__` before it
reads the count (`Trap`, `TrapCounts`).

**VmStep, Vm, Transpiled.** A program is a table of Functions with an operator,
operands and an LCont. Transpiled keeps the CFrame of a call with an LCont in
`frames` (the Rust stack) and names cells and continuations, so that `same_chain`,
`splice` and the handing over of continuations at the end of a call are what the
code does. An error goes through every Rust call, too, and each hands its continuations
over (`Errs`). `WellFormed` says what the front end gives: every variable has a place in
the LVEnv of its Body, every Function is in the module. In `TranspiledVm`, `AsVm` is the
refinement mapping: the CFrames of the Rust calls back in
their places, in the CChain and in every continuation. `VmStep` with `Named` FALSE
has no identities: it is the VM alone. Where the generated code has several forms (a
fused chain or a helper, a Rust call or a pushed CFrame), the model takes any.

**Collect.** A value is what it refers to, at a few places (`Slots`);
`Containers` change by `Set`, except the GVEnv of a VProc (`GvSlot`). Of other values only
a continuation changes (`Splice`): when a Rust call is left, its CChain is given a CFrame
with what that call had, which was there before it (`Behind`). `Kept` is `Rc`: after each operation a value is dropped unless a
holder or a value that stays refers to it, so a cycle keeps itself. `Collect` takes
the nodes (containers and what they reach), counts the references among them, takes
those with more for reached from outside, and clears the containers that are not
reached from these, all but the GVEnv of a VProc (`Emptied`). Heap never frees; the mapping shows of Collect's memory only what
the holders reach.

**Chan.** Every function of `Chan` and `Writer` is one action for each stretch
under the Mutex; `uncons` is a second lock (the cell) taken before it, and the
call of `next` between them is made without it, as the code does. A put that fails ends its
thread (`sh_abort`) or, inside a full variable list, the statement only (`Aborts`). `Owner` made the
channel; it settles the `$( )` at the end of a statement and cancels and joins at its
own end. Condvars may wake spuriously (`Spurious`). `passed` and `sent` are history
variables.

**ConshChan.** VProcs are interleaved at every step, so each set or read of a
shared Ref is an action; what a VProc does to Dicts that only it uses belongs to the
action before. A writer has its chain, `tail` and `produced` (equal to the place in
the chain, one variable), and the number `expects` that it read before it waits. `closing` has
one entry for each program that runs `Sh_release` of a writer: itself, the one that
killed it, and the watcher of a `$( )`. `__Ref_wait_change__` wakes promptly, which is
what `Sched` proves (`ChangeIsPrompt`).

**ScriptStep, Delimited, Script.** Both machines run the same frames by the same
functions (`StepLocal`); they differ in where the rest of the computation is. Script has
the Chains of the nested `run`s, `meta` and continuations that are whole Chains, of
which `retarget` keeps the part up to the first `ResetEnd`; Delimited has one stack
in which a reset and a statement with a variable list are marks. `Stack` maps the one
to the other: the frames of a Chain up to its first `ResetEnd`, the mark of that reset,
what its entry of `meta` says, and after the last Chain of a `run` the mark of its list and the
Chain around it. Continuations are cut the same way (`CutAll`). An error ends the script,
so nothing is left after one (`On`): `run_script` returns it through every `run`, and
entries of `meta` may stay that nobody looks at again. That is the case in
`reset { (reset { reset { shift k { $k 5; }; break; }; }) > (i . rest); echo 1; }`, where the error
is inside a called continuation; the scripts `Errors` of MCScript have it. `FirstPlace` is
`SelectInSeq` of SequencesExt written out, so that the provers do not carry the rest of that
module, twice, with each step.

**Jobs.** What the statements of a thread are is left open: each is one of the
operations that start, stop or wait for a thread, with a `$( )` in a word at any
place. A channel is seen from the threads: how many elements each writer has that are
not taken. `kill` is one step for each thing that `vproc_stop` does to each thread of
the tree, in its order (`agenda`), while those threads go on. The windows of the code
are kept: between the start of a `$( )` and `push_subst`, of a pipeline and the storing
of `pipe_members`, between `child.wait()` and the clearing of `proc_ref`. An element and a
job settle their `$( )` once more when they end, however they end (`last settle`). The
shell waits for its jobs at its end, but not after `exit` (`Awaited`). Threads are
numbered by their starts, so the Vec of `substs` is a set and its last element
the one with the highest number (`Newest`).

The definitions called "Fault" in the modules are plausible mistakes (a flag not
set, a count off by one). Nothing uses them: each stands for a mutant of the
definition after it, and shows that some property sees the mistake.

## 4. The runs

| Run | Instance | Checks | Result |
|---|---|---|---|
| `SchedJoin` | 4 VProcs, a Ref with 2 values; suspend, resume, join, kill, exit | `Consistent`, `PromptJoin`, `PromptRefChange`, `StopIsRight` | holds |
| `SchedLazy` | 3 VProcs, a LazyList to claim and one to hold, a CFrame, any order of the queue, kill, continuations into frames that were left | `PromptLazy`, `ClaimIsExclusive`, `KillSpares`, `KillArrives`, `StopIsRight` | holds |
| `SchedOs` | 2 VProcs, a process, a Stream, a SIGINT, a trapped Ref, `POLL_INTERVAL` 2 | `TypeOK`, `NoMissedChange`; under fairness `NoStarvation` | holds |
| `OsWait` | 2 VProcs, 2 processes, a Stream, a SIGINT, `POLL_INTERVAL` 1 | `TypeOK`, `NoExitSleptOver`, `NoInterruptSleptOver`, `NoExitSkipped`; under fairness `WaitReturns` | holds |
| `Transpiled` | 4,992 programs of six Functions, 2 Rust calls deep, budget 8, 5 steps of the VM | `CallsNest`, `Promise` (the refinement of Vm); under fairness `Yields` | holds |
| `Collect` | a VProc, a GVEnv, a continuation, 2 places each, 2 holders | `TypeOK`, `KeepsPromise` (the refinement of Heap), `CollectsAll` | holds |
| `ChanSubst` | `$( )`, 2 writers, 2 readers, capacity 1, 2 elements each, kill | `TypeOK`, `NoLostWakeUp`, `BlockedIsRight`, `OneEvaluates`, `TakenInTurn`, `IsFifo`; under fairness `PutReturns`, `ReadReturns` | holds |
| `ConshSubst` | `$( )`, 2 writers, one may be killed, capacity 1, 2 elements each, a new chain looked for every 2 elements | `NoLostWakeUp`, `SettleReturns`, `IsFifo` | holds |
| `Script` | some 3,000 scripts, three statements deep | `MetaIsLive`, `IsDelimited` (the refinement of Delimited); under fairness `ScriptEnds` | holds |
| `ScriptList` | the scripts that call continuations inside and outside of full variable lists | `FullListStops` | violated |
| `Jobs` | 4 threads, 3 statements, capacity 1, all operations | `NoLateCommand`, `TreeFinishes`, `NoCircle` | holds |
| `JobsValue` | 3 threads, 3 statements | under fairness `ValueArrives` | violated |

Why the bounds are enough. The scheduler's lists treat VProcs alike; the hazards
take one that waits, one that is waited for and one or two that come between,
so three or four VProcs meet each of them. `MaxDepth` 1 tells an evaluation that is
still in the CChain from one that was left. A Ref with two values changes and changes
back. `POLL_INTERVAL` 1 and 2 have a pass that polls and passes that do not. In OsWait
two processes can exit around one look, and two VProcs wait for the same one or for
different things; the theorems hold for any number. In the channels
capacity 1 with two elements makes a writer wait in every order; a second writer
made by the first gives chains that come late. The Rust constants 16 (`PIPE_CAP`,
`Chan_register_every`) and 10,000 (`MIN_THRESHOLD`) are parameters, and the theorems hold
for all of them. A VProc, its GVEnv and a continuation make every cycle: a container
alone, both, and one through the continuation; a reference counted twice needs the two
places, and so does a VProc with something besides its GVEnv. (With a fourth value the
run takes more than five minutes; the theorems hold for any number.) The programs of
Transpiled put a continuation of each of three calls into each of three places
(returned, passed, kept in the PDict) and come back to it from inside and outside of
that call; `MaxDepth` 2 is reached and passed, and budget 8 runs out in a loop.
The scripts of `Script` put every statement around every other, twice, with others
after each. In Jobs four threads are the shell, a job, and what the job started (a `$( )`
or the two elements of a pipeline), with three statements for what they do and a kill.

`CHECK_DEADLOCK FALSE` is set where the system may stop: programs, scripts and shells
end (Transpiled, Script, Jobs, ConshChan), a bounded heap is full (Collect), and in `SchedOs`
and `OsWait` all VProcs may wait for events that never come. That nothing stops
too early there is what `StopIsRight`, `NoCircle`, `ScriptEnds` and the sleeps of
OsWait are about.

**Fairness.** `Sched`, `OsWait`: weak fairness of the interpreter's thread as a whole
(`Machine`), which the OS runs, and in OsWait of the delivery of a pending signal;
nothing is assumed of single VProcs, of when processes exit or data comes, or of
programs. That every ready VProc then runs is a result (`NoStarvation`), from
the round robin; so `SchedOs` has no seed, with which the code makes no such
promise. `Transpiled`, `Script`: one thread, which goes on while it can. `Chan`: the OS
runs each thread that is inside a function of the channel and not asleep; nothing is
assumed of when a thread calls one. `Jobs`: the OS runs each thread, and external commands
end.

## 5. What is proved

For every value of the constants (`tlapm` checks the eight `..._proofs` modules):

| Theorem | Says |
|---|---|
| `TypeCorrect` (Sched) | `Spec => []TypeOK` |
| `JoinIsPrompt` | no VProc waits for a finished one when the next step runs |
| `ChangeIsNotMissed` | while a wait for a Ref that was set is pending, `ref_changed` is set |
| `ChangeIsPrompt` | without SIGINTs, who waits for a Ref that was set wakes before the next step |
| `PlacesAreRight` | `Consistent`: a VProc is in one list, once, and its state tells which |
| `ClaimIsKept` | `ClaimIsExclusive`: what one VProc evaluates no other claims, releases or writes |
| `LazyIsPrompt` | `PromptLazy`: nobody goes on waiting for a LazyList that has its value, or that nobody evaluates |
| `StopIsJustified` | `StopIsRight`: the loop ends with the reason that it gives |
| `KillIsPrompt` | `KillArrives`: a kill waits only for an evaluation that goes on |
| `KillLeavesNothing` | `KillSpares`: who was killed leaves no evaluation open, if `NoReentry` |
| `ChanTypeCorrect` | `Spec => []TypeOK` of Chan |
| `ChanWakes` | `NoLostWakeUp` of Chan, with kill and spurious wake-ups |
| `ChanBlockedIsRight` | whom settle takes for blocked is in `put` with a full chain |
| `ChanOneEvaluates` | one thread at a time evaluates the last cell |
| `ChanIsFifo` | Chan implements Fifo: initial states map to initial states, each step to a step or a stutter |
| `ChanTakenInTurn` | `TakenInTurn`: a writer with an element waits for fewer elements than there are other writers |
| `ChannelIsFifo` (ConshChan) | ConshChan implements Fifo, also with several readers, and with kills between the steps of a put or close |
| `SettleDoesReturn` | `SettleReturns`: while a statement sleeps, somebody has yet to set the state it waits for |
| `ReaderIsWoken` | the reader never sleeps over an element, an end or a new chain, also with several readers |
| `WakeUpsArrive` | `NoLostWakeUp` of ConshChan, if only Owner reads |
| `TreeDoesFinish` (Jobs) | `TreeFinishes`: who has finished has waited for all `$( )` and elements that it started |
| `NoCommandIsLate` | `NoLateCommand`: no external command of a killed thread runs without a SIGTERM sent or on its way |
| `MetaStaysLive` (Script) | `MetaIsLive`: `meta` holds the resets that are being run and no others |
| `FlowsArrive` (Script) | a return, break or continue finds its frame, in its `run` or one around it, before any reset |
| `OneStack` (Script) | `IsDelimited`: Script implements Delimited, step by step: the nested `run`s, their Chains and `meta` are one stack with marks |
| `CallsNestRight` (Transpiled) | `CallsNest`: Rust calls nest, and every continuation ends with the CChain of the call it belongs to |
| `TypeCorrect` (Collect) | no value and no holder refers to a value that was dropped |
| `CollectorIsUnseen` | Collect implements Heap: the counts and `collect` are never noticed |
| `CollectorIsComplete` | `CollectsAll`: a container that is left when `collect` ends is reachable |
| `TypeCorrect` (OsWait) | types, and a VProc that waits is not ready |
| `ExitsWake` | the VM never sleeps over the exit of a process that a VProc waits for |
| `InterruptsWake` | nor over a trapped SIGINT, nor over a change of its Ref that a VProc waits for |
| `SkipsAreSafe` | a poll that is skipped would find no exit whose SIGCHLD is not on its way |

*Sched.* `TypeInv` adds to `TypeOK` that `cur` is a VProc while a step runs. For joins
`PromptJoin` is not inductive: `JoinInv` adds `FinishSeen`, that a finished VProc which
is waited for has `finished_any` set until `check_joining`. Each way to finish is
one case; the others are shown `Quiet`. For Refs, `ChangeInv` says that
while `ref_changed` is unset every waiter has seen the value (`Settled`), and that
after `check_changes`, if no SIGINT can come, this holds whatever the flag says. The
second half is needed because `check_interrupts` inside `check_waiting` sets a Ref after
`check_changes`; with SIGINTs a waiter may therefore be one step late, and only
`NoMissedChange` holds.

*Places, stops and kills.* The order of the lists plays no part, so
`PlaceInv` is about them as sets: the members of the queue are the VProcs in state
"ready", those of the four lists together the ones in state "waiting", no two lists
share one and none has one twice. Each primitive is then a move from one set to
another (the lemmas on `Sublist`, `Without` and `Append`). `LazyInv` adds to
`PromptLazy` that nobody waits for a LazyList of his own, without which a claim by the
waiter would leave him waiting; the cases are the five ways by which an evaluation
ends. `StopInv` collects what the loop knows when it looks at its lists:
with an empty queue nobody waits for the OS at `pick` (`PickInv`), and by `JoinInv`,
`ChangeInv` and `LazyInv` nobody else could be woken. `PendInv`: a kill that is delayed
belongs to a VProc with an evaluation in its CChain. For `KillSpares` the hard part is
`evaluating_lazy`, which forgets the claims whose CFrame the VProc has left: `Forgotten` says
that it left them for good. That is not so if a continuation enters such a frame again
while another evaluation goes on, hence `NoReentry`: no such continuations, or one
LazyList to claim. Without it the property is false (finding 12).

*Chan.* `NoLostWakeUp` needs `Fresh`: making a chain wakes nobody, and is harmless only
because a chain not made yet is empty and open. `OneEvaluates` uses `NoLostWakeUp`.
`FifoInv` says what is in the queues (`Counts`: the last elements written, at most
the capacity), that a closed chain was made (`Chains`), that the end stays the end
(`Ending`), and where a taken element is until it is published (`InHand`). `vproc_stop`
closes the writer of a thread that goes on running, which may then make a chain after
the end; with kills the end is therefore that of a Fifo that allows this (`Late`).
`TakenInTurn` bounds a count that every reader's step raises. `InTurn` bounds the sum of
that count and of the places between the chain and the one that `next` looks at first
(`Distance`): taking from the nearest chain with elements (`FirstIsNearest`) raises the
one and lowers the other by at least as much. A new chain goes to the end of the Vec
and may add one to the distances, and it adds one to the bound (`OpenTurn`).

*ConshChan.* Twenty Refs and MSeqs that any VProc may touch between two steps. `Tails`: "tail"
is one behind the chain between the two steps of a put, and where it stays so the writer
was killed (`Torn`). `Closers` is why two VProcs that close the same output do not
both do it, though each only looks at "tail"; `Cursors` and `Ending`, that a chain the
reader has dropped was at its end. With `Counts` they make `FifoInv`, and every step maps
to one of Fifo or none. For the reader, `Passed` says of every chain before its cursor,
and of those it has not met, that there is nothing to take, or somebody has still to
renew the token (`Quiet`), as long as the token is the one that it read. For the
writers, `Waiting` and `Told` say that `consumed` is what was taken or, for ever, -1; and
that a cancel still has each waiting writer before it or has told it. The second
is false if two VProcs read (finding 5), so `WakeUpsArrive` assumes `~Shared`. `Setters`: while
the state is "running" one of the writers or those that close for them has yet to set
it; a writer that waits for room does not count, as it has set "blocked".

*Jobs.* `TreeFinishes` speaks of threads that have finished; the invariant says where a
parent has its children while it runs. A `$( )` that is not gone is in `substs`, or it
is the one just started, or in the list that the end of the thread goes through (`Kept`); an
element of a pipeline is in the list of that statement (`Held`). `Family` is that, and
that `over` holds only what is done. `InOrder` gives that a
thread just started is new, since numbers are not used twice, also while another thread
is half way through the start of a pipeline. kill takes `pipe_members` from a thread, but
the thread waits for those that it started (`started`) and not for what is in that list; what
no step takes from a thread's lists before it has ended is `Waiting`. `NoLateCommand` is inductive together with
`TreeInv`, by the orders that are still in the agenda of a kill.

*Transpiled.* That the cells of a Rust call are at the end of the CChain is what makes `splice`
put its CFrame where the VM would have pushed it. `NestInv` says it of the CChain, of the
bases of the calls, one in the other (`Nested`), and of each continuation with an owner
(`Owned`), which is in the list of that call and no other (`Known`); numbers of calls grow
inwards (`Numbered`), so a continuation that escapes leaves the right ones. What has to be
shown at each step is that a CChain that changes still ends with the base: at a step inside
a call (`Onward`), at the start of one (`Begins`) and at its end (`Pops`), where splicing
one CFrame into a list that ends with the base gives a list that ends with it and with
every base further out (`SpliceEnds`). The CChain of a continuation or a register comes from
anywhere, so the second half is typing: `Typed(S)` says that all values are of a set `S` that
is closed under what the VM does (`Sound`: a Closure's LVEnv has the variables of its
Function, a continuation is one that was made), and `StepMakes` that a step of the VM stays
in such a set. The theorem is for every well-formed program, budget and depth.

*Script.* A step must know of the entries of `meta` that it does not look at that they fit the
Chains they will be put back into. `Parted` gives each `run` its stretch of `meta`, and says of
each Chain in it (`Piece`) that it has the end of a reset exactly when entries of the stretch
follow, and that whatever a statement in it can send out (`Leads`: its `ret`, its
innermost loop) ends in that Chain before the end of a reset (`ReachIn`), or, if no such end
follows, at one of the flows that end in the `run`s around it (`Reached`). `noReturn` and the
loops that `exec_reset` clears are what makes the second true. A shift could break it, as it
takes frames away under a statement; it does not, as what it takes is up to the end of the reset
(`Saved`), and it is refused where a redirection lies between: `Marked`, that in a nested `run` the
statements outside of its resets are `redirected`. An unwound flow then
passes no end of a reset, so it leaves `meta` alone, except one: the stop of a full
list (`abort`) leaves every reset of its `run`. It takes one entry per `ResetEnd`, which is
right only if a Chain has as many as entries follow (`exact`). A called continuation has one
`ResetEnd` however many resets are around the call, so it is not exact; this is finding 8,
and the reason for the hypothesis: the statements of a script are of a set `A`
without full lists or of a set `B` without calls of continuations (`NoFullList`, `NoResume`).
`SafeIsCovered` in MCScript has TLC check that the scripts of the run `Script` meet it. For
functions, loops and depths there is no bound. `Place` and `ResetEnds` are a least element
and a cardinality, so least elements of sets of numbers (`Least`) serve where one would expect an
induction over a Chain.

`OneStack` says where the rest of the computation is. A place is a number of entries of `meta`
and of `run`s that have been passed; `Rest` is what is left there, a recursive function that is
shown to be the one the definition asks for (`RestIs`), and from then on only unfolded
(`RestAt`, `BelowReset`, `BelowList`). Steps change only the inner end of it: if from some place on
two pairs of `run`s and `meta` are the same, moved (`Moved`), then so is what is left
(`RestMoves`, by the place that is furthest out and differs). With that a step of
a frame is one on the top of the stack (`WholeIs`); `ExecReset`, `StepResetEnd` and
`RunEnds` make or take a mark; a shift takes from the stack what it saves, up to
the mark, and `retarget` puts it back (`CutSaved`: cut at its first `ResetEnd` it is what Delimited
saves). A flow looks for its frame, or the mark of a list, in the whole stack, where the code
looks in one Chain at a time: by `FlowsArrive` that is the Chain of its `run` or of one around it (`UnwindTo`), and a full
list drops as many entries of `meta` as lie before its mark (`ComesTo`). Values
are cut field by field, and each function of ScriptStep commutes with the cut
(`CutLocal`, `CutCaught` and the other lemmas of that part).

*Collect.* `Reach` is the least set that holds what it starts from and is closed
under references (`ReachIsClosed`, `ReachIsLeast`), and depends only on the contents of its
members (`ReachDepends`). What the counts keep holds `Reach`. The heart is
`GarbageIsUnreached`: a reached container is a node and live, because the first node on
a way from a holder has a reference that is not from a node, so its count is higher
than what the nodes hold. That counting is done with cardinalities of the sets of
references (`RefsFrom`), which are finite. `TypeOK` is inductive, and every step shows
the program a step of Heap or nothing. `CollectsAll` is the other half: that what is left
is reachable. `collect` clears only containers, so it rests on the counts to drop the
values, and these cannot drop a cycle. `Rooted` says that no cycle is of values alone
(a value is made of values that are there already, and what a continuation is given does
not refer back to it, `SpliceRooted`), `Counted` that everything is kept by a
holder or a value; together they lead from each value that was left to a holder. A VProc
that was cleared still has its GVEnv, but that is a container, cleared itself, so no chain
of such references closes.

*OsWait.* Nothing the code does is about "an exit is not slept over"; the invariant says
who still knows of what came. An exit is known (`ExitKnown`) by the pending signal, the byte
in the pipe, the line the VM is at, or the rest of the list that is looked at; and it is
counted (`ExitCounted`): as long as `signals_seen` lags `SIGNALS`, no poll is skipped. Both are
needed: the byte wakes the sleep, the count ends the skipping, and the code drains and
counts in different places. `Prepared` says that the handler is there before anybody waits;
`InterruptKnown` and `ChangeKnown` do the same for SIGINTs and the Ref. `Asleep` then
contradicts each.

The assumptions are those named in the modules (`...Assumption`): the sets of
identities are disjoint, finite where they are counted, the capacity is positive, the
bounds are numbers, no more SIGINTs than the trapped Ref can count.

Three theorems have an assumption about the program and not about the bounds: `NoReentry`,
`~Shared`, and the sets `A` and `B` of MetaStaysLive. Without them the properties are
false (findings 12, 5 and 8), and the runs have them too. FlowsArrive and OneStack are for the
same scripts, as their proofs go through what `meta` holds.

Only model-checked: `Promise` of Transpiled, `NoCircle` of Jobs, and the
liveness properties. The mapping of TranspiledVm and
the steps of Vm are recursive (`RECURSIVE`), which the
provers cannot follow. `NoCircle` is about `ENABLED`, which is out of
the provers' reach as liveness under fairness is.

## 6. Findings

Two runs show them:

1. **`FullListStops`** (`ScriptList`, `eval.rs:1103`): `retarget` gives the frames of a
   continuation the outputs of the call but leaves `Ctx::abort` as it was at the shift. A
   continuation that writes to a full variable list of its call then stops the wrong
   statement, or the shell: `reset { shift k (i) { $k 5 > (i); }; echo 3; echo $i; }`
   ends with "the reader of a pipe has finished".
2. **`ValueArrives`** (`JobsValue`, `eval.rs:2685`): `capture_run` returns on `exit` and on an
   error without giving the variables of the job their values: after
   `f() { exit 1; }` and `f > (a) &`, the next `$a` waits for ever.

The models show others, for which no run is kept; a property for them would fail:

3. `sched.rs:623`: a VProc whose last act is a wait is woken by the checks that come
   after the loop that removes finished VProcs; if it is then taken from the queue it
   runs a step with a null Operator and ends with an error, where `docs/DESIGN.md:457`
   has it finish (Sched).
4. `consh_eval.se:1268`: `Sh_child` copies the context with `substState`; a job or an
   element of a pipeline inside a `$( )` sets the state of the `$( )` to "done" when it
   ends, and the statement goes on while the `$( )` runs. Seen in the program too:
   `x=$(echo q | echo r; sleep 1; echo side >> log)` followed by `echo after >> log`
   writes `after` first with the ConMa ConSh. The same copy is what makes
   `SettleReturns` hold (the mutant `ClosedOnce`): a repair has to see to both (ConshChan).
5. `consh_chan.se:292`: the -1 that a cancel puts into `consumed` may be turned into the
   number that the writer has read by a reader that takes an element at that moment;
   the writer then sleeps in a cancelled channel. It takes a reader other than the
   VProc that cancels (`Shared`; the run has it FALSE).
6. `consh_chan.se:111`: a put and a close are several steps, and kill may come between
   them; the close in place of the killed VProc then takes the chain for closed, and
   the reader waits for ever. `NoLostWakeUp` names this case (`Torn`) and holds outside it.
7. `transpiled.rs:583`: a fused call pushes the LCont as a CFrame and then applies whatever
   the variable is bound to. If that is `__CChain_get__`, `__CChain_set__` or one of the
   primitives of CFrames, it sees, or drops, a CFrame that the VM keeps in its LCont
   register: the result is not that of the VM (`transpiled.rs:23`). The run calls these
   primitives by name only. (`transpiled.rs:144` says of `SAFE_PRIMS` that `__Ref_set__` is
   in it; it is not, and must not be.)
8. `eval.rs:649`: a full list that stops a statement around several resets while a
   continuation of the inner one runs leaves the entries of the outer ones in `meta`:
   after `reset { reset { shift k { $k 5; }; echo 1; echo 2; }; } > (i)` a shift outside
   any reset goes on at a place long gone. The run `Script` leaves such scripts out.
9. `eval.rs:1936`: `set_done` follows the thread of a `$( )`, not its jobs, which go on
   writing; the comment on `chan.rs:72` is not true with jobs.
10. `eval.rs:1592`: the elements of a pipeline run before `pipe_members` is stored, and a `$( )`
    before `push_subst`; a kill in the window stops the thread and none of them, and the
    thread waits for commands that may run for ever. `eval.rs:2408`: between `child.wait()` and the
    clearing of `proc_ref` a kill sends SIGTERM to a pid that may be another process (Jobs
    has both windows).
11. `sched.rs:322`: a SIGINT between `trap_sigint` and the reading of the count is counted as
    seen; the Ref learns of it with the next one (OsWait has the window).
12. `lazy.rs:110`: a claim changes a LazyList without `ref_changed`, so a VProc that watches a
    LazyList sleeps on. And with two LazyLists to claim and continuations into frames that
    were left, `KillSpares` does not hold: the run has one to claim and one to hold.

## 7. Limits of the models

- Sched: an exit and its SIGCHLD are one step (`Fire`; OsWait has them apart), so is
  `__OS_trap_interrupt__`; processes and Streams never wake a VProc wrongly; traces, the
  profile and PDicts are left out; `__Ref_set__` is not applied to LazyLists.
- OsWait: which ready VProc runs is left open, and the lists have no order; a handler's
  count and byte are one step (the VM is interrupted by the handler, not the other way
  round); the program sets no Ref itself; one trap Ref; a SIGINT without trap ends the
  VM and is left out; a write that blocks in `write(2)` (`stream.rs:97`) is a step that
  returns.
- Transpiled: a fused chain is its Bodies one after another, with the choices that only
  fused chains have; `rust_ok`, which counts calls to avoid slow Rust calls, may answer
  anything; one primitive stands for each kind.
- Collect: what a value holds besides references is left out; that the CFrame given to a
  continuation does not refer back to it is a guard, from how `frame_run` makes it; a step
  of the VM is any number of operations; no `RefCell` is borrowed
  between two steps; `CONMA_GC_THRESHOLD` is not set; the allocator below (`alloc.rs`) is not
  modelled.
- Chan: what the threads compute, external commands and their OS pipes
  (`eval_subst_os`) are left out; kill of the Owner is one step of leaving.
- ConshChan: the Owner is not killed, and neither is the VProc of a `$( )` (that happens
  only when its Owner is); jobs without a writer of the channel, which set the
  state too, are left out; a runtime error is modelled for the VProc of the `$( )` only;
  a Ref set to an equal String may wake a VProc once more, which only makes it
  look again.
- Script: the only redirections are those to a variable list; the scripts have one
  reset, shift or list around another, not two side by side at each level; substitution
  and assignment of words are not modelled.
- Jobs: a pipeline has two elements; a job is one thread; an external command writes to no
  channel; the shell itself, which nobody kills, starts none; what is written to a
  channel has no content (Chan has the order). A thread that waits for a channel is
  stopped by a cancel or by the end only. After `exit` of the shell the process ends and its
  threads with it; the model lets them go on. A failed put may end its thread or only its
  statement, whether or not the statement has a variable list.

**Not modelled**, with the reason:

- the data primitives, `DictIndex` and the UTF-8 buffer (`value.rs`): sequential functions of
  their operands, whose hard cases depend on the hash function and on bytes. Two texts
  with one hash (`value.rs:311`) and a character cut at the end of a read (`value.rs:81`) are
  the places to test;
- `util.se`: planned (2, item 2); the wait it rests on is proved (`ChangeIsPrompt`);
- the parsers, the expansion of words, globs, the front end, the loader and the resolver:
  functions from text to text;
- the prompt (`repl.rs`): planned (2, item 3). Ctrl-C between the look at `discard` and the setting of
  `running` (`repl.rs:129`) lets the command run that was just read;
- the ConMa evaluator beyond its channels: it follows the Rust evaluator, whose threads and
  statements are modelled;
- the reference VM in Python: the models follow the Rust code; it served to replay
  counterexamples.

## 8. Running it

    tlc -workers 2 -config SchedJoin.cfg MCSched.tla     # and so on for each .cfg
    tlapm Sched_proofs.tla                                # and so on for each ..._proofs

`PROJECT.json` names the module of each configuration. The longest runs (`Transpiled`,
`OsWait`) take two to three minutes with two workers.
