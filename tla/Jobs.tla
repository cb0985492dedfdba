-------------------------------- MODULE Jobs --------------------------------
(***************************************************************************)
(* The threads of the ConSh evaluator in Rust (consh/rust/src/eval.rs): a  *)
(* thread for each $( ), each element of a pipeline and each job, what it  *)
(* waits for at the end of a statement and at its own end, its external    *)
(* command, and `kill', which goes through the tree of the threads that a  *)
(* job has started while they go on.                                       *)
(*                                                                         *)
(* A thread is a number, in the order of the starts.  What its statements  *)
(* are is left open: each is one of the operations that start, stop or     *)
(* wait for a thread.  A channel has the number of the thread that it was  *)
(* made for; it is Chan seen from the threads: how many elements each      *)
(* writer has that are not taken.                                          *)
(*                                                                         *)
(* Abstracted: a pipeline has two elements, joined by a channel; a job is  *)
(* one thread; an external command writes to no channel, and the shell      *)
(* itself, which nobody kills, starts none.                                *)
(***************************************************************************)
EXTENDS Integers, Sequences, FiniteSets, SequencesExt

CONSTANTS
  MaxThreads,   \* bound: the threads that are started
  Statements,   \* bound: the statements of the threads together
  Cap,          \* PIPE_CAP
  Ops           \* the operations that statements use

ASSUME Bounds == MaxThreads \in Nat \ {0} /\ Statements \in Nat /\ Cap \in Nat \ {0}

Threads == 1..MaxThreads
Main == 1
None == 0

VARIABLES
  th,     \* the threads: their Ctx, where they are and their local variables
  born,   \* how many have been started
  left    \* the statements that the bound leaves

vars == <<th, born, left>>

(***************************************************************************)
(* Threads                                                                 *)
(***************************************************************************)
\* Not started yet.  out: the channel that it writes to; n, closed, waiting:
\* its writer; cancelled, done: the channel made for it; value: of the
\* variable list of a job.  substs and list are in the order of the starts.
Blank == [pc |-> "free", role |-> "none", parent |-> None,
          killed |-> FALSE, proc |-> "none", term |-> FALSE, ref |-> FALSE,
          started |-> <<>>, members |-> <<>>, substs |-> {}, jobs |-> {},
          list |-> {}, over |-> {}, agenda |-> <<>>, job |-> None,
          out |-> None, from |-> None, source |-> None,
          n |-> 0, closed |-> FALSE, waiting |-> FALSE,
          cancelled |-> FALSE, done |-> FALSE, value |-> "none"]

\* A $( ) runs its statements; an element and a job are one statement, and
\* those of the function that it calls.
Child(t, role, out, from, value) ==
    [Blank EXCEPT !.pc = IF role = "subst" THEN "stmt" ELSE "words",
                  !.role = role, !.parent = t, !.out = out, !.from = from, !.value = value]

Init == /\ born = Main
        /\ left = Statements
        /\ th = [t \in Threads |-> IF t = Main THEN [Child(None, "main", None, None, "none")
                                                       EXCEPT !.pc = "stmt"]
                                   ELSE Blank]

New == born + 1

At(t, pc) == th[t].pc = pc
Go(t, pc) == [th[t] EXCEPT !.pc = pc]

\* The threads that the bound leaves: a pipeline has kept one for its second
\* element.
Left == MaxThreads - born - Cardinality({t \in Threads : At(t, "pipe start")})

\* t starts the thread New and has become me.
Starts(t, me, child) ==
    /\ th' = [th EXCEPT ![t] = me, ![New] = child]
    /\ born' = New

Becomes(t, me) == th' = [th EXCEPT ![t] = me] /\ UNCHANGED born

Finished(t) == th[t].pc = "finished"

\* The end of a statement.
Settling(me) == [me EXCEPT !.pc = IF me.substs = {} THEN "stmt" ELSE "settle",
                           !.list = me.substs, !.over = {}, !.source = None, !.job = None]

\* subst_finish takes the list.
Finishing(me, substs) == [me EXCEPT !.pc = "finish", !.list = substs, !.substs = {}]

\* capture_run: the value of the variable list, unless the flow is exit.
Captured(value, flow) == IF flow = "exit" \/ value = "none" THEN value ELSE "made"

\* eval_run: the jobs that the shell waits for at its end, but not after exit.
\* (Then the process ends; the model lets its threads go on.)
Awaited(me, flow) == IF me.role = "main" /\ flow # "exit" THEN me.jobs ELSE {}

\* The end of the thread, by a flow or at the end of its statements.  However
\* its statement ends, an element and a job settle once more.
Leaving(me, flow) ==
    LET ends == [me EXCEPT !.source = None, !.jobs = Awaited(me, flow), !.value = Captured(@, flow)]
    IN  IF me.role \in {"element", "job"}
        THEN [ends EXCEPT !.pc = "last settle", !.list = me.substs, !.over = {}]
        ELSE Finishing(ends, me.substs)

\* The $( ) of Global.substs are in the order of their starts, and gone through
\* from the newest.
Newest(list) == {c \in list : \A d \in list : d <= c}

(***************************************************************************)
(* Channels                                                                *)
(***************************************************************************)
Writers(c) == {t \in Threads : th[t].out = c}

State(c) == CASE th[c].done -> "done"
              [] ~th[c].done /\ \E t \in Writers(c) : th[t].waiting -> "blocked"
              [] OTHER -> "running"

\* sh_release: the outputs of t are closed and the channel of its input is
\* cancelled.
Released(threads, t) ==
    [s \in DOMAIN threads |->
        [threads[s] EXCEPT
            !.closed = IF s = t /\ threads[t].out # None THEN TRUE ELSE @,
            !.waiting = IF s = t THEN FALSE ELSE @,
            !.cancelled = IF s = threads[t].from THEN TRUE ELSE @]]

(***************************************************************************)
(* Statements                                                              *)
(***************************************************************************)
\* step_lines: the next statement, or none.
Ready(t) == At(t, "stmt") /\ ~th[t].killed /\ left > 0

StepLinesEnds(t) ==
    /\ At(t, "stmt")
    /\ Becomes(t, Leaving(th[t], "end"))

SimpleCommand(t) == Ready(t) /\ Becomes(t, Go(t, "words"))

\* exit ends the thread, wherever in it the statement is.
BuiltinExit(t) ==
    /\ "exit" \in Ops /\ At(t, "words")
    /\ Becomes(t, Leaving(th[t], "exit"))

\* A word with a $( ).
EvalSubst(t) ==
    /\ "subst" \in Ops /\ Left >= 1 /\ At(t, "words")
    /\ Starts(t, [Go(t, "push") EXCEPT !.source = New], Child(t, "subst", New, None, "none"))

PushSubst(t) ==
    /\ At(t, "push")
    /\ Becomes(t, [Go(t, "words") EXCEPT !.substs = @ \cup {th[t].source}, !.source = None])

\* The lists that a thread may read: of its own $( ), of those in the variables
\* it was started with, and its input.
Readable(t) ==
    {c \in Threads : \/ th[c].role = "subst" /\ th[c].parent = t
                     \/ th[c].role = "subst" /\ th[c].parent = th[t].parent /\ c < t
                     \/ c = th[t].from}

Read(t) ==
    /\ "read" \in Ops /\ At(t, "words")
    /\ \E c \in Readable(t) : Becomes(t, [Go(t, "read") EXCEPT !.source = c])

ReadNext(t) ==
    /\ At(t, "read")
    /\ LET c == th[t].source
           full == {w \in Writers(c) : th[w].n > 0}
       IN  \/ \E w \in full :
                 th' = [th EXCEPT ![w].n = @ - 1, ![w].waiting = FALSE, ![t].pc = "command"]
           \/ /\ full = {} /\ \A w \in Writers(c) : th[w].closed
              /\ th' = [th EXCEPT ![t].pc = "command"]
    /\ UNCHANGED born

Commands(t) == th[t].pc \in {"words", "command"}

Echo(t) ==
    /\ Commands(t)
    /\ Becomes(t, IF th[t].value # "none" THEN Settling([th[t] EXCEPT !.value = "made"])
                  ELSE IF th[t].out = None THEN Settling(th[t]) ELSE Go(t, "put"))

\* The reader has gone, or the thread was stopped: sh_abort ends the thread, or
\* only the statement when that has a variable list.
Put(t) ==
    /\ At(t, "put")
    /\ LET me == th[t]
           idle == [me EXCEPT !.waiting = FALSE]
       IN  \/ /\ th[me.out].cancelled \/ me.closed
              /\ Becomes(t, Leaving(idle, "abort")) \/ Becomes(t, Settling(idle))
           \/ /\ ~th[me.out].cancelled /\ ~me.closed /\ me.n < Cap
              /\ Becomes(t, Settling([me EXCEPT !.n = @ + 1, !.waiting = FALSE]))
           \/ /\ ~th[me.out].cancelled /\ ~me.closed /\ me.n = Cap /\ ~me.waiting
              /\ Becomes(t, [me EXCEPT !.waiting = TRUE])

(***************************************************************************)
(* External commands                                                       *)
(***************************************************************************)
\* Fault: killed is not looked at under the lock of proc_ref.
ExternalUnchecked(t) ==
    /\ "external" \in Ops /\ Commands(t) /\ t # Main
    /\ Becomes(t, [Go(t, "command waits") EXCEPT !.proc = "runs", !.term = FALSE, !.ref = TRUE])

External(t) ==
    /\ "external" \in Ops /\ Commands(t) /\ t # Main
    /\ Becomes(t, IF th[t].killed THEN Leaving(th[t], "killed")
                  ELSE [Go(t, "command waits") EXCEPT !.proc = "runs", !.term = FALSE, !.ref = TRUE])

\* The command ends, by itself or by SIGTERM.
CommandEnds(t) == th[t].proc = "runs" /\ Becomes(t, [th[t] EXCEPT !.proc = "ended"])

Reap(t) ==
    /\ At(t, "command waits") /\ th[t].proc = "ended"
    /\ Becomes(t, [Go(t, "reaped") EXCEPT !.proc = "none"])

ForgetPid(t) == At(t, "reaped") /\ Becomes(t, Settling([th[t] EXCEPT !.ref = FALSE]))

(***************************************************************************)
(* Pipelines                                                               *)
(***************************************************************************)
EvalPipe(t) ==
    /\ "pipe" \in Ops /\ Left >= 2 /\ Ready(t)
    /\ Starts(t, [Go(t, "pipe start") EXCEPT !.started = <<New>>],
              Child(t, "element", New, None, "none"))

PipeStartLast(t) ==
    /\ At(t, "pipe start")
    /\ Starts(t, [Go(t, "pipe store") EXCEPT !.started = Append(@, New)],
              Child(t, "element", th[t].out, th[t].started[1], "none"))

PipeStore(t) ==
    At(t, "pipe store") /\ Becomes(t, [Go(t, "pipe wait") EXCEPT !.members = th[t].started])

\* Fault: the end of the last element is taken for the end of the pipeline.
PipeWaitLast(t) ==
    /\ At(t, "pipe wait") /\ Finished(th[t].started[2])
    /\ Becomes(t, Settling([th[t] EXCEPT !.members = <<>>, !.started = <<>>]))

PipeWait(t) ==
    /\ At(t, "pipe wait") /\ \A m \in ToSet(th[t].started) : Finished(m)
    /\ Becomes(t, Settling([th[t] EXCEPT !.members = <<>>, !.started = <<>>]))

(***************************************************************************)
(* Jobs                                                                    *)
(***************************************************************************)
\* With captures its standard output is a variable list: f > (a) &.
EvalBg(t) ==
    /\ "bg" \in Ops /\ Left >= 1 /\ Ready(t)
    /\ \E value \in {"none"} \cup ({"pending"} \cap Ops) :
          Starts(t, Settling([th[t] EXCEPT !.jobs = @ \cup {New}]),
                 Child(t, "job", IF value = "none" THEN th[t].out ELSE None, None, value))

BuiltinWait(t) ==
    /\ "wait" \in Ops /\ Ready(t)
    /\ \E j \in th[t].jobs :
          Becomes(t, [Go(t, "wait") EXCEPT !.jobs = @ \ {j}, !.job = j])

JobWait(t) == At(t, "wait") /\ Finished(th[t].job) /\ Becomes(t, Settling(th[t]))

\* A word with the variable of a job: Promise::wait.
ForceValue(t) ==
    /\ At(t, "words")
    /\ \E j \in {k \in Threads : th[k].value # "none" /\ th[k].parent = t} :
          Becomes(t, [Go(t, "force") EXCEPT !.job = j])

Forced(t) == At(t, "force") /\ th[th[t].job].value = "made" /\ Becomes(t, Go(t, "command"))

\* job_kill and vproc_stop: what is left to do for it, in order.
BuiltinKill(t) ==
    /\ "kill" \in Ops /\ Ready(t)
    /\ \E j \in th[t].jobs :
          Becomes(t, IF Finished(j) THEN Settling(th[t])
                     ELSE [Go(t, "kill") EXCEPT !.job = j, !.agenda = <<<<"flag", j>>>>])

Stops(ms) == [i \in DOMAIN ms |-> <<"flag", ms[i]>>]
StopSubst(ms) == IF ms = {} THEN <<>> ELSE <<<<"cancel", ms>>>>
StopOne(m) == <<<<"term", m>>, <<"release", m>>, <<"members", m>>, <<"substs", m>>>>

KillStep(t) ==
    /\ At(t, "kill") /\ th[t].agenda # <<>>
    /\ LET op == th[t].agenda[1][1]
           m == th[t].agenda[1][2]
           rest == Tail(th[t].agenda)
       IN  \/ op = "flag" /\ th' = [th EXCEPT ![m].killed = TRUE, ![t].agenda = StopOne(m) \o rest]
           \/ op = "term" /\ th' = [th EXCEPT ![m].term = @ \/ th[m].ref, ![t].agenda = rest]
           \/ op = "release" /\ th' = [Released(th, m) EXCEPT ![t].agenda = rest]
           \/ op = "cancel" /\ \E c \in Newest(m) :
                 th' = [th EXCEPT ![c].cancelled = TRUE,
                                  ![t].agenda = <<<<"flag", c>>>> \o StopSubst(m \ {c}) \o rest]
           \/ op = "members" /\ th' = [th EXCEPT ![m].members = <<>>,
                                                 ![t].agenda = Stops(th[m].members) \o rest]
           \/ op = "substs" /\ th' = [th EXCEPT ![t].agenda = StopSubst(th[m].substs) \o rest]
    /\ UNCHANGED born

KillEnds(t) ==
    /\ At(t, "kill") /\ th[t].agenda = <<>>
    /\ LET j == th[t].job
           value == IF th[j].value = "pending" THEN "made" ELSE th[j].value
       IN  th' = [th EXCEPT ![t] = Settling(th[t]), ![j].value = value]
    /\ UNCHANGED born

(***************************************************************************)
(* The end of a statement and of a thread                                  *)
(***************************************************************************)
InSettle(t) == th[t].pc \in {"settle", "last settle"}

\* Fault: a writer that waits for its reader is waited for.
SettleOneDone(t) ==
    /\ InSettle(t)
    /\ \E c \in Newest(th[t].list) :
          /\ State(c) = "done"
          /\ Becomes(t, [th[t] EXCEPT !.list = @ \ {c}, !.over = @ \cup {c}])

\* subst_settle: the list is read at the start; the newest comes first.
SettleOne(t) ==
    /\ InSettle(t)
    /\ \E c \in Newest(th[t].list) :
          /\ State(c) # "running"
          /\ Becomes(t, [th[t] EXCEPT !.list = @ \ {c},
                                      !.over = IF State(c) = "done" THEN @ \cup {c} ELSE @])

Settled(t) ==
    /\ InSettle(t) /\ th[t].list = {}
    /\ LET kept == th[t].substs \ th[t].over
       IN  Becomes(t, IF At(t, "settle") THEN [Go(t, "stmt") EXCEPT !.substs = kept]
                      ELSE Finishing(th[t], kept))

\* subst_finish: nobody will read the $( ) that are left.
FinishOne(t) ==
    /\ At(t, "finish")
    /\ \E c \in Newest(th[t].list) :
          th' = [th EXCEPT ![c].cancelled = TRUE, ![t].pc = "finish wait"]
    /\ UNCHANGED born

FinishWait(t) ==
    /\ At(t, "finish wait")
    /\ \E c \in Newest(th[t].list) :
          Finished(c) /\ Becomes(t, [Go(t, "finish") EXCEPT !.list = @ \ {c}])

\* Then sh_release, the done of sh_start and the flag of the Member; the shell
\* itself waits for its jobs.
Release(t) ==
    /\ At(t, "finish") /\ th[t].list = {} /\ t # Main
    /\ th' = [Released(th, t) EXCEPT ![t].pc = "released"]
    /\ UNCHANGED born

SetDone(t) ==
    /\ At(t, "released")
    /\ Becomes(t, [Go(t, "flag") EXCEPT !.done = (th[t].role = "subst")])

SetFlag(t) == At(t, "flag") /\ Becomes(t, Go(t, "finished"))

JobsWaitAll(t) ==
    /\ At(t, "finish") /\ th[t].list = {} /\ t = Main
    /\ \A j \in th[t].jobs : Finished(j)
    /\ Becomes(t, Go(t, "finished"))

Statement(t) ==
    SimpleCommand(t) \/ EvalPipe(t) \/ EvalBg(t) \/ BuiltinWait(t) \/ BuiltinKill(t)

GoesOn(t) ==
    \/ StepLinesEnds(t) \/ BuiltinExit(t) \/ EvalSubst(t) \/ PushSubst(t)
    \/ Read(t) \/ ReadNext(t) \/ Echo(t) \/ Put(t) \/ External(t) \/ Reap(t) \/ ForgetPid(t)
    \/ PipeStartLast(t) \/ PipeStore(t) \/ PipeWait(t) \/ JobWait(t) \/ ForceValue(t) \/ Forced(t)
    \/ KillStep(t) \/ KillEnds(t)
    \/ SettleOne(t) \/ Settled(t) \/ FinishOne(t) \/ FinishWait(t)
    \/ Release(t) \/ SetDone(t) \/ SetFlag(t) \/ JobsWaitAll(t)

Step(t) == \/ Statement(t) /\ left' = left - 1
           \/ GoesOn(t) /\ UNCHANGED left

Next == \E t \in Threads : Step(t) \/ (CommandEnds(t) /\ UNCHANGED left)

Spec == Init /\ [][Next]_vars

\* The threads of the operating system all run, and external commands end.
FairSpec == Spec /\ \A t \in Threads : WF_vars(Step(t)) /\ WF_vars(CommandEnds(t) /\ UNCHANGED left)

(***************************************************************************)
(* Properties                                                              *)
(***************************************************************************)
\* A killed thread has no external command that kill has not sent SIGTERM:
\* kill finds the pid, or the command is not started (the lock of proc_ref).
NoLateCommand == \A t \in Threads :
    th[t].killed /\ th[t].proc = "runs" /\ ~th[t].term =>
        \E k \in Threads : <<"term", t>> \in ToSet(th[k].agenda)

\* When a thread has finished (wait for a job, a pipeline or a $( ) goes on),
\* the $( ) and the pipelines it has started have too, also when kill has taken
\* them from it, and their outputs are closed.
TreeFinishes == \A t, c \in Threads :
    Finished(t) /\ th[c].parent = t /\ th[c].role \in {"subst", "element"} =>
        th[c].pc \in {"flag", "finished"} /\ th[c].closed = (th[c].out # None)

\* When nothing moves any more, no thread waits for the end of a thread or for
\* an element: a statement and a thread end although their $( ) wait for a
\* reader, and the elements of a pipeline for each other.  (A job that a $( )
\* has left may wait for a reader, and see ValueArrives.)
Waits == {"settle", "last settle", "wait", "pipe wait", "finish wait", "finish", "read"}
NoCircle == \/ ENABLED Next
            \/ \A t \in Threads : th[t].pc \notin Waits
            \/ \E t \in Threads : At(t, "force")

\* A thread that uses a variable of a variable list of a job gets a value,
\* at the latest when the job's statement ends or the job is killed.
ValueArrives == \A t \in Threads : []<>~At(t, "force")

=============================================================================
