------------------------------- MODULE OsWait -------------------------------
(***************************************************************************)
(* How the Rust VM waits for the OS: check_waiting of sched.rs between the *)
(* signals, the self-pipe and the exits of processes, each at the line     *)
(* where it can come.  Sched takes all of this as one step.                *)
(*                                                                         *)
(* The VM is one thread.  pc is the line it is at; a signal handler runs   *)
(* between two lines, and a process exits or data comes at any moment.     *)
(*                                                                         *)
(* Abstracted: which VProc is taken from the queue (CONMA_SEED takes any)  *)
(* and the order of the lists, the exit code, the text of a Stream         *)
(* (something to read, or nothing), the other lists of the scheduler.  A   *)
(* SIGINT that is not trapped ends the VM and is left out.  The program    *)
(* sets no Ref of its own.                                                 *)
(***************************************************************************)
EXTENDS Integers

CONSTANTS
  VProcs, Procs, Streams,
  None,
  PollInterval,     \* POLL_INTERVAL
  MaxInterrupts     \* bound: the SIGINTs that come

ASSUME OsWaitAssumption ==
  /\ PollInterval \in Nat /\ MaxInterrupts \in Nat
  /\ Procs \cap Streams = {} /\ None \notin Procs \cup Streams

VARIABLES
  proc,         \* "none", "running", "exited", "reaped" (waited for)
  stream,       \* "idle", "ready" (poll() says so), "closed"
  sent,         \* the SIGINTs sent so far
  pending,      \* the signals sent that no handler has run for
  SIGNALS, INTERRUPTS,
  pipe,         \* there is something in the wakeup pipe
  wakeup,       \* the pipe and the handler of SIGCHLD are there
  trapped,      \* the handler of SIGINT is there
  ready,        \* the VProcs that are ready
  waiting,      \* Machine.waiting: the target of each VProc in it
  changes,      \* the VProcs that wait for the Ref of the trap, with the value
  value,        \* the value of that Ref
  ref_changed,
  trap,         \* the SIGINTs counted by the trap, None before it is set
  os_dirty, signals_seen, unpolled,
  pc, now       \* where the VM is; its local variables there

outside == <<proc, stream, sent, pending, SIGNALS, INTERRUPTS, pipe>>
handlers == <<wakeup, trapped>>
ref == <<value, ref_changed, trap>>
checks == <<os_dirty, signals_seen, unpolled>>
inside == <<handlers, ready, waiting, changes, ref, checks, pc, now>>
vars == <<outside, inside>>

Targets == Procs \cup Streams
Waiters == {v \in VProcs : waiting[v] # None}
Nothing == [block |-> FALSE, vproc |-> None, target |-> None, found |-> {}, list |-> {}]

Init ==
  /\ proc = [p \in Procs |-> "none"] /\ stream = [s \in Streams |-> "idle"]
  /\ sent = 0 /\ pending = {} /\ SIGNALS = 0 /\ INTERRUPTS = 0 /\ pipe = FALSE
  /\ wakeup = FALSE /\ trapped = FALSE
  /\ ready = VProcs /\ waiting = [v \in VProcs |-> None] /\ changes = [v \in VProcs |-> None]
  /\ value = 0 /\ ref_changed = FALSE /\ trap = None
  /\ os_dirty = FALSE /\ signals_seen = 0 /\ unpolled = 0
  /\ pc = "loop" /\ now = Nothing

Go(line) == pc' = line /\ now' = Nothing

-----------------------------------------------------------------------------
(* What comes from outside *)

\* A process exits.  Without a handler the SIGCHLD is ignored.
Exit(p) ==
  /\ proc[p] = "running"
  /\ proc' = [proc EXCEPT ![p] = "exited"]
  /\ pending' = IF wakeup THEN pending \cup {"SIGCHLD"} ELSE pending
  /\ UNCHANGED <<stream, sent, SIGNALS, INTERRUPTS, pipe>>

\* Ctrl-C, when it is trapped.
Interrupt ==
  /\ trapped /\ sent < MaxInterrupts
  /\ sent' = sent + 1 /\ pending' = pending \cup {"SIGINT"}
  /\ UNCHANGED <<proc, stream, SIGNALS, INTERRUPTS, pipe>>

\* Data or the end, from the other end of the Stream.
Arrive(s) ==
  /\ stream[s] = "idle" /\ stream' = [stream EXCEPT ![s] = "ready"]
  /\ UNCHANGED <<proc, sent, pending, SIGNALS, INTERRUPTS, pipe>>

\* Fault: the handler counts and writes nothing.
HandleNoByte(sig) ==
  /\ sig \in pending /\ pending' = pending \ {sig}
  /\ INTERRUPTS' = IF sig = "SIGINT" THEN INTERRUPTS + 1 ELSE INTERRUPTS
  /\ SIGNALS' = SIGNALS + 1 /\ UNCHANGED pipe
  /\ UNCHANGED <<proc, stream, sent>>

\* on_sigchld, on_sigint.
Handle(sig) ==
  /\ sig \in pending /\ pending' = pending \ {sig}
  /\ INTERRUPTS' = IF sig = "SIGINT" THEN INTERRUPTS + 1 ELSE INTERRUPTS
  /\ SIGNALS' = SIGNALS + 1 /\ pipe' = TRUE
  /\ UNCHANGED <<proc, stream, sent>>

Outside ==
  /\ \/ \E p \in Procs : Exit(p)
     \/ Interrupt
     \/ \E s \in Streams : Arrive(s)
     \/ \E sig \in pending : Handle(sig)
  /\ UNCHANGED inside

-----------------------------------------------------------------------------
(* The loop of run() *)

\* check_interrupts: the Ref gets the number of SIGINTs.
Told == trap # None /\ INTERRUPTS # trap

CheckInterrupts ==
  /\ trap' = IF Told THEN INTERRUPTS ELSE trap
  /\ value' = IF Told THEN INTERRUPTS ELSE value

\* check_changes, skipped when no Ref was set: the VProcs that wake.
Changed == {v \in VProcs : (Told \/ ref_changed) /\ changes[v] \notin {None, value'}}

Check(block) == pc' = "check" /\ now' = [Nothing EXCEPT !.block = block]

\* Where the loop goes on, by who is ready after the checks.
GoOn ==
  \/ /\ Waiters # {} /\ ready' = {}
     /\ Check(TRUE) /\ unpolled' = 0
  \/ /\ Waiters # {} /\ ready' # {} /\ unpolled >= PollInterval
     /\ Check(FALSE) /\ unpolled' = 0
  \/ /\ Waiters # {} /\ ready' # {} /\ unpolled < PollInterval
     /\ Go("step") /\ unpolled' = unpolled + 1
  \/ /\ Waiters = {} /\ ready' # {}
     /\ Go("step") /\ UNCHANGED unpolled
  \/ /\ Waiters = {} /\ ready' = {} /\ trap # None /\ \E v \in VProcs : changes'[v] # None
     /\ Check(TRUE) /\ UNCHANGED unpolled
  \/ /\ Waiters = {} /\ ready' = {} /\ (trap = None \/ \A v \in VProcs : changes'[v] = None)
     /\ Go("end") /\ UNCHANGED unpolled

\* The top of the loop.
Loop ==
  /\ pc = "loop"
  /\ CheckInterrupts
  /\ ready' = ready \cup Changed
  /\ changes' = [v \in VProcs |-> IF v \in Changed THEN None ELSE changes[v]]
  /\ ref_changed' = ((Told \/ ref_changed) /\ changes = [v \in VProcs |-> None])
  /\ GoOn
  /\ UNCHANGED <<outside, handlers, waiting, os_dirty, signals_seen>>

-----------------------------------------------------------------------------
(* check_waiting *)

OnlyProcs == \A v \in Waiters : waiting[v] \in Procs

\* Fault: the signals are not counted.
SkipUncounted ==
  /\ pc = "check" /\ ~now.block
  /\ ~os_dirty /\ OnlyProcs
  /\ Go("skipped")
  /\ UNCHANGED <<outside, handlers, ready, waiting, changes, ref, checks>>

\* No SIGCHLD came since the last look, so no process can have exited.
Skip ==
  /\ pc = "check" /\ ~now.block
  /\ ~os_dirty /\ OnlyProcs /\ SIGNALS = signals_seen
  /\ Go("skipped")
  /\ UNCHANGED <<outside, handlers, ready, waiting, changes, ref, checks>>

Skipped ==
  /\ pc = "skipped"
  /\ CheckInterrupts /\ ref_changed' = (Told \/ ref_changed)
  /\ Go("step")
  /\ UNCHANGED <<outside, handlers, ready, waiting, changes, checks>>

Look ==
  /\ pc = "check"
  /\ now.block \/ os_dirty \/ ~OnlyProcs \/ SIGNALS # signals_seen
  /\ os_dirty' = FALSE /\ signals_seen' = SIGNALS
  /\ pc' = "poll"
  /\ UNCHANGED <<outside, handlers, ready, waiting, changes, ref, unpolled, now>>

WaitedStreams == {waiting[v] : v \in Waiters} \cap Streams

\* What poll() finds: Streams that are ready, and the wakeup pipe.
Readable ==
  {s \in WaitedStreams : stream[s] = "ready"} \cup (IF wakeup /\ pipe THEN {"wakeup"} ELSE {})

\* poll() has no time limit when block is set, but for a closed Stream.
Timeout == ~now.block \/ \E s \in WaitedStreams : stream[s] = "closed"

\* wait_fds; a signal only makes it start again (EINTR).
Poll ==
  /\ pc = "poll"
  /\ Readable # {} \/ Timeout
  /\ pc' = "drain" /\ now' = [now EXCEPT !.found = Readable]
  /\ UNCHANGED <<outside, handlers, ready, waiting, changes, ref, checks>>

Drain ==
  /\ pc = "drain"
  /\ pipe' = (pipe /\ "wakeup" \notin now.found)
  /\ pc' = "count"
  /\ UNCHANGED <<proc, stream, sent, pending, SIGNALS, INTERRUPTS>>
  /\ UNCHANGED <<handlers, ready, waiting, changes, ref, checks, now>>

Count ==
  /\ pc = "count"
  /\ CheckInterrupts /\ ref_changed' = (Told \/ ref_changed)
  /\ pc' = "scan" /\ now' = [now EXCEPT !.list = Waiters]
  /\ UNCHANGED <<outside, handlers, ready, waiting, changes, checks>>

Exited(p) == proc[p] \in {"exited", "reaped"}

\* OSProcObj.poll: the code is kept when the process is waited for.
Reap(p) == proc' = [proc EXCEPT ![p] = IF @ = "exited" THEN "reaped" ELSE @]

\* One element of the list: its VProc wakes, or waits on.
Scan(v) ==
  /\ pc = "scan" /\ v \in now.list
  /\ now' = [now EXCEPT !.list = @ \ {v}]
  /\ LET target == waiting[v]
         wakes == IF target \in Procs THEN Exited(target)
                  ELSE stream[target] = "closed" \/ target \in now.found
     IN  /\ IF target \in Procs THEN Reap(target) ELSE UNCHANGED proc
         /\ ready' = IF wakes THEN ready \cup {v} ELSE ready
         /\ waiting' = IF wakes THEN [waiting EXCEPT ![v] = None] ELSE waiting
  /\ UNCHANGED <<stream, sent, pending, SIGNALS, INTERRUPTS, pipe>>
  /\ UNCHANGED <<handlers, changes, ref, checks, pc>>

\* Fault: the signals up to here are taken for seen.
ScanEndsSeen ==
  /\ pc = "scan" /\ now.list = {}
  /\ Go(IF ready = {} THEN "loop" ELSE "step")
  /\ signals_seen' = SIGNALS
  /\ UNCHANGED <<outside, handlers, ready, waiting, changes, ref, os_dirty, unpolled>>

ScanEnds ==
  /\ pc = "scan" /\ now.list = {}
  /\ Go(IF ready = {} THEN "loop" ELSE "step")
  /\ UNCHANGED <<outside, handlers, ready, waiting, changes, ref, checks>>

-----------------------------------------------------------------------------
(* Steps of a VProc *)

\* A step that changes nothing here.
Compute ==
  /\ pc = "step" /\ Go("loop")
  /\ UNCHANGED <<outside, handlers, ready, waiting, changes, ref, checks>>

Spawn(p) ==
  /\ pc = "step" /\ proc[p] = "none"
  /\ proc' = [proc EXCEPT ![p] = "running"] /\ Go("loop")
  /\ UNCHANGED <<stream, sent, pending, SIGNALS, INTERRUPTS, pipe>>
  /\ UNCHANGED <<handlers, ready, waiting, changes, ref, checks>>

\* __OS_wait__: the handler first, then the first poll.
Wait(v, p) ==
  /\ pc = "step" /\ v \in ready /\ proc[p] # "none"
  /\ wakeup' = TRUE
  /\ pc' = "wait" /\ now' = [Nothing EXCEPT !.vproc = v, !.target = p]
  /\ UNCHANGED <<outside, trapped, ready, waiting, changes, ref, checks>>

\* Fault: v stays in the queue.
MakeWaitingReady(v, target) ==
  /\ UNCHANGED ready
  /\ waiting' = [waiting EXCEPT ![v] = target]

MakeWaiting(v, target) ==
  /\ ready' = ready \ {v}
  /\ waiting' = [waiting EXCEPT ![v] = target]

\* Fault: no poll here, because os_dirty makes the next check_waiting do it.
WaitWithoutPoll ==
  /\ pc = "wait" /\ Go("loop")
  /\ MakeWaiting(now.vproc, now.target) /\ os_dirty' = TRUE
  /\ UNCHANGED <<outside, handlers, changes, ref, signals_seen, unpolled>>

WaitPolls ==
  /\ pc = "wait" /\ Go("loop")
  /\ Reap(now.target)
  /\ IF Exited(now.target)
     THEN UNCHANGED <<ready, waiting, os_dirty>>
     ELSE MakeWaiting(now.vproc, now.target) /\ os_dirty' = TRUE
  /\ UNCHANGED <<stream, sent, pending, SIGNALS, INTERRUPTS, pipe>>
  /\ UNCHANGED <<handlers, changes, ref, signals_seen, unpolled>>

\* __OS_poll__, and __OS_kill__ before it sends the signal.
PollProc(p) ==
  /\ pc = "step" /\ proc[p] # "none"
  /\ Reap(p) /\ Go("loop")
  /\ UNCHANGED <<stream, sent, pending, SIGNALS, INTERRUPTS, pipe>>
  /\ UNCHANGED <<handlers, ready, waiting, changes, ref, checks>>

\* __OS_wait_readable__, __OS_wait_writable__.
WaitStream(v, s) ==
  /\ pc = "step" /\ v \in ready /\ stream[s] = "idle"
  /\ MakeWaiting(v, s) /\ Go("loop")
  /\ UNCHANGED <<outside, handlers, changes, ref, checks>>

\* __OS_read__, __OS_write__ take what was ready; __OS_close__.
UseStream(s) ==
  /\ pc = "step" /\ Go("loop")
  /\ \/ stream[s] = "ready" /\ stream' = [stream EXCEPT ![s] = "idle"]
     \/ stream[s] # "closed" /\ stream' = [stream EXCEPT ![s] = "closed"]
  /\ UNCHANGED <<proc, sent, pending, SIGNALS, INTERRUPTS, pipe>>
  /\ UNCHANGED <<handlers, ready, waiting, changes, ref, checks>>

\* __OS_trap_interrupt__: the handler, then the count.
Trap ==
  /\ pc = "step"
  /\ wakeup' = TRUE /\ trapped' = TRUE
  /\ Go("trap")
  /\ UNCHANGED <<outside, ready, waiting, changes, ref, checks>>

TrapCounts ==
  /\ pc = "trap"
  /\ trap' = INTERRUPTS
  /\ Go("loop")
  /\ UNCHANGED <<outside, handlers, ready, waiting, changes, value, ref_changed, checks>>

\* __Ref_wait_change__ of the Ref, with the value it has.
WaitChange(v) ==
  /\ pc = "step" /\ v \in ready /\ trap # None
  /\ changes' = [changes EXCEPT ![v] = value]
  /\ ready' = ready \ {v}
  /\ Go("loop")
  /\ UNCHANGED <<outside, handlers, waiting, ref, checks>>

\* v finishes, or another kills it.
Finish(v) ==
  /\ pc = "step"
  /\ ready' = ready \ {v}
  /\ waiting' = [waiting EXCEPT ![v] = None]
  /\ changes' = [changes EXCEPT ![v] = None]
  /\ Go("loop")
  /\ UNCHANGED <<outside, handlers, ref, checks>>

Machine ==
  \/ Loop \/ Skip \/ Skipped \/ Look \/ Poll \/ Drain \/ Count \/ ScanEnds
  \/ Compute \/ Trap \/ TrapCounts \/ WaitPolls
  \/ \E p \in Procs : Spawn(p) \/ PollProc(p)
  \/ \E v \in VProcs, p \in Procs : Wait(v, p)
  \/ \E v \in VProcs, s \in Streams : WaitStream(v, s)
  \/ \E s \in Streams : UseStream(s)
  \/ \E v \in VProcs : Scan(v) \/ WaitChange(v) \/ Finish(v)

Next == Machine \/ Outside

Spec == Init /\ [][Next]_vars

\* The OS runs the VM, and delivers signals to it.
FairSpec ==
  /\ Spec
  /\ WF_vars(Machine)
  /\ \A sig \in {"SIGCHLD", "SIGINT"} : WF_vars(Handle(sig) /\ UNCHANGED inside)

-----------------------------------------------------------------------------
(* Properties *)

\* Types; and a VProc waits in one place, and is not ready then.
TypeOK ==
  /\ proc \in [Procs -> {"none", "running", "exited", "reaped"}]
  /\ stream \in [Streams -> {"idle", "ready", "closed"}]
  /\ sent \in 0 .. MaxInterrupts /\ pending \subseteq {"SIGCHLD", "SIGINT"}
  /\ SIGNALS \in Nat /\ INTERRUPTS \in Nat /\ pipe \in BOOLEAN
  /\ INTERRUPTS + (IF "SIGINT" \in pending THEN 1 ELSE 0) <= sent
  /\ wakeup \in BOOLEAN /\ trapped \in BOOLEAN
  /\ ready \subseteq VProcs /\ waiting \in [VProcs -> Targets \cup {None}]
  /\ changes \in [VProcs -> Nat \cup {None}]
  /\ value \in Nat /\ ref_changed \in BOOLEAN /\ trap \in Nat \cup {None}
  /\ os_dirty \in BOOLEAN /\ signals_seen \in Nat /\ unpolled \in 0 .. PollInterval
  /\ pc \in {"loop", "check", "skipped", "poll", "drain", "count", "scan", "step", "wait", "trap", "end"}
  /\ now \in [block : BOOLEAN, vproc : VProcs \cup {None}, target : Procs \cup {None},
              found : SUBSET (Streams \cup {"wakeup"}), list : SUBSET VProcs]
  /\ \A v \in VProcs : changes[v] = None \/ waiting[v] = None
  /\ \A v \in ready : changes[v] = None /\ waiting[v] = None

\* The VM sleeps in poll(), and no handler is about to run.
Asleep == pc = "poll" /\ Readable = {} /\ ~Timeout /\ pending = {}

\* No exit is slept over (process.rs:155, "so that an exit after the poll still
\* wakes the wait for fds"): also not one that came before the handler was there.
NoExitSleptOver ==
  Asleep => \A v \in VProcs : waiting[v] \in Procs => ~Exited(waiting[v])

\* No SIGINT is slept over, wherever in the loop it comes, and no VProc waits
\* for a change of the Ref that has come (sched.rs:390).
NoInterruptSleptOver ==
  Asleep => trap \in {None, INTERRUPTS} /\ \A v \in VProcs : changes[v] \in {None, value}

\* poll() and waitpid() are skipped only when they would find nothing
\* (sched.rs:353): a process that has exited has a SIGCHLD on its way.
NoExitSkipped ==
  [][pc' = "skipped" /\ pc # "skipped" /\ "SIGCHLD" \notin pending =>
       \A v \in Waiters : ~Exited(waiting[v])]_vars

\* A VProc that waits for a process wakes after it exits, also while other
\* VProcs run for ever.
WaitReturns == \A v \in VProcs, p \in Procs : waiting[v] = p /\ Exited(p) ~> waiting[v] # p
=============================================================================
