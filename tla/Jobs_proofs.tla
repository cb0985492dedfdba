----------------------------- MODULE Jobs_proofs -----------------------------
(***************************************************************************)
(* What holds of the threads of the ConSh evaluator for every number of    *)
(* threads and statements and every capacity: kill leaves no external      *)
(* command running that it has not sent SIGTERM, and a thread that has     *)
(* finished has waited for all that it started.                            *)
(***************************************************************************)
EXTENDS Jobs, FiniteSetTheorems, SequenceTheorems, TLAPS

(***************************************************************************)
(* Types.                                                                  *)
(***************************************************************************)
Pcs == {"free", "stmt", "words", "push", "read", "command", "put", "command waits", "reaped",
        "pipe start", "pipe store", "pipe wait", "wait", "force", "kill", "settle", "last settle",
        "finish", "finish wait", "released", "flag", "finished"}
Roles == {"none", "main", "subst", "element", "job"}
Procs == {"none", "runs", "ended"}
Values == {"none", "pending", "made"}
Maybe == Threads \cup {None}
Orders == ({"flag", "term", "release", "members", "substs"} \X Threads)
            \cup ({"cancel"} \X SUBSET Threads)

Thread ==
  [pc : Pcs, role : Roles, parent : Maybe,
   killed : BOOLEAN, proc : Procs, term : BOOLEAN, ref : BOOLEAN,
   started : Seq(Threads), members : Seq(Threads), substs : SUBSET Threads, jobs : SUBSET Threads,
   list : SUBSET Threads, over : SUBSET Threads, agenda : Seq(Orders), job : Maybe,
   out : Maybe, from : Maybe, source : Maybe,
   n : Int, closed : BOOLEAN, waiting : BOOLEAN,
   cancelled : BOOLEAN, done : BOOLEAN, value : Values]

TypeOK == th \in [Threads -> Thread] /\ born \in Nat \ {0} /\ left \in Int


----------------------------------------------------------------------------
(***************************************************************************)
(* The invariant.  Fit says what holds of one thread by itself.            *)
(***************************************************************************)
\* What t has started is past its last use of anything that t gave it.
Gone == {"flag", "finished"}
Leavers == {"finish", "finish wait", "released"} \cup Gone

Fit(me) ==
  /\ me.proc # "none" => me.pc = "command waits" /\ me.ref
  /\ me.agenda # <<>> => me.pc = "kill"
  /\ me.pc = "kill" => me.job \in Threads
  /\ me.pc = "push" => me.source \in Threads
  /\ me.pc = "pipe start" => Len(me.started) = 1
  /\ me.done => me.pc \in Gone
  /\ me.pc \in Leavers => me.substs = {}
  /\ me.closed => me.out # None
  /\ me.pc \in {"released"} \cup Gone /\ me.out # None /\ me.role # "main" => me.closed

AllFit == \A t \in Threads : Fit(th[t]) /\ (th[t].role = "main" <=> t = Main)

\* The threads in the order of their starts, and the room for those that a
\* pipeline has yet to start.
Starting == {t \in Threads : At(t, "pipe start")}

InOrder ==
  /\ \A t \in Threads : (t > born <=> At(t, "free")) /\ th[t].parent <= born
  /\ born + Cardinality(Starting) <= MaxThreads

\* The $( ) that a thread will still wait for, and the elements of its pipeline.
Kept(me) ==
  me.substs \cup (IF me.pc = "push" THEN {me.source} ELSE {})
            \cup (IF me.pc \in {"finish", "finish wait"} THEN me.list ELSE {})

Held(me) == IF me.pc \in {"pipe start", "pipe store", "pipe wait"} THEN ToSet(me.started) ELSE {}

Children(t, role) == {c \in Threads : th[c].parent = t /\ th[c].role = role /\ th[c].pc \notin Gone}

Family ==
  \A t \in Threads :
    /\ Children(t, "subst") \subseteq Kept(th[t])
    /\ Children(t, "element") \subseteq Held(th[t])
    /\ \A c \in th[t].over : th[c].done

TreeInv == TypeOK /\ AllFit /\ InOrder /\ Family

\* A command that kill must send SIGTERM.
Late(me) == me.killed /\ me.proc = "runs" /\ ~me.term
Ordered(t) == \E k \in Threads : <<"term", t>> \in ToSet(th[k].agenda)

----------------------------------------------------------------------------
(***************************************************************************)
(* Steps.                                                                  *)
(***************************************************************************)
\* What a step never undoes.
Follows(r, me) ==
  /\ me \in Thread /\ Fit(me)
  /\ me.role = r.role /\ me.parent = r.parent
  /\ r.done => me.done
  /\ me.pc = "free" <=> r.pc = "free"
  /\ r.pc \in Gone => me.pc \in Gone
  /\ me.pc = "pipe start" => r.pc = "pipe start"

Ended == {c \in Threads : th[c].pc \in Gone}
Done == {c \in Threads : th[c].done}

\* A thread goes on waiting for what it has started.
Waiting(r, me) ==
  /\ Kept(r) \subseteq Kept(me) \cup Ended
  /\ Held(r) \subseteq Held(me) \cup Ended
  /\ me.over \subseteq r.over \cup Done

LEMMA Finite == IsFiniteSet(Threads)
<1>1. 1 \in Int /\ MaxThreads \in Int
  BY Bounds
<1> QED BY <1>1, FS_Interval DEF Threads

\* A step that starts no thread.
LEMMA Moving ==
  ASSUME TreeInv, th' \in [Threads -> Thread], born' = born, left' \in Int,
         \A s \in Threads : Follows(th[s], th'[s]) /\ Waiting(th[s], th'[s])
  PROVE  TreeInv'
<1>1. TypeOK'
  BY DEF TreeInv, TypeOK
<1>2. AllFit'
  BY DEF TreeInv, AllFit, Follows
<1>3. InOrder'
  <2>1. \A t \in Threads : (t > born' <=> th'[t].pc = "free") /\ th'[t].parent <= born'
    BY DEF TreeInv, InOrder, At, Follows
  <2>2. Starting' \in SUBSET Starting
    BY DEF Starting, At, Follows
  <2>3. Starting \in SUBSET Threads /\ IsFiniteSet(Threads)
    BY Finite DEF Starting
  <2>4. IsFiniteSet(Starting)
    BY <2>3, FS_Subset
  <2>5. Cardinality(Starting) \in Nat /\ Cardinality(Starting') \in Nat /\ Cardinality(Starting') <= Cardinality(Starting)
    BY <2>2, <2>4, FS_Subset, FS_CardinalityType
  <2>6. born + Cardinality(Starting) <= MaxThreads /\ born \in Int /\ MaxThreads \in Int
    BY Bounds DEF TreeInv, InOrder, TypeOK
  <2>7. born' + Cardinality(Starting') <= MaxThreads
    BY <2>5, <2>6
  <2> QED BY <2>1, <2>7 DEF InOrder, At
<1>4. Family'
  <2> SUFFICES ASSUME NEW t \in Threads
               PROVE  /\ Children(t, "subst")' \subseteq Kept(th'[t])
                      /\ Children(t, "element")' \subseteq Held(th'[t])
                      /\ \A c \in th'[t].over : th'[c].done
    BY DEF Family
  <2>1. \A role : Children(t, role)' \subseteq Children(t, role) /\ Children(t, role)' \cap Ended = {}
    BY DEF Children, Follows, Ended
  <2>2. Children(t, "subst") \subseteq Kept(th[t]) /\ Children(t, "element") \subseteq Held(th[t])
    BY DEF TreeInv, Family
  <2>3. Children(t, "subst")' \subseteq Kept(th'[t]) /\ Children(t, "element")' \subseteq Held(th'[t])
    BY <2>1, <2>2 DEF Waiting
  <2>4. \A c \in th'[t].over : th'[c].done
    <3> SUFFICES ASSUME NEW c \in th'[t].over PROVE th'[c].done
      OBVIOUS
    <3>1. c \in Threads
      BY DEF Thread
    <3>2. th[c].done
      BY <3>1 DEF Waiting, Done, TreeInv, Family
    <3> QED BY <3>1, <3>2 DEF Follows
  <2> QED BY <2>3, <2>4
<1> QED BY <1>1, <1>2, <1>3, <1>4 DEF TreeInv

\* A thread that a step leaves alone.
LEMMA Same ==
  ASSUME TreeInv, NEW s \in Threads
  PROVE  th[s] \in Thread /\ Fit(th[s]) /\ Follows(th[s], th[s]) /\ Waiting(th[s], th[s])
  BY DEF TreeInv, TypeOK, AllFit, Follows, Waiting

\* A step of one thread.
LEMMA Becoming ==
  ASSUME TreeInv, NEW t \in Threads, NEW me, Becomes(t, me), left' \in Int,
         Follows(th[t], me), Waiting(th[t], me)
  PROVE  TreeInv'
<1>1. th \in [Threads -> Thread] /\ me \in Thread
  BY DEF TreeInv, TypeOK, Follows
<1>2. th' = [th EXCEPT ![t] = me] /\ born' = born
  BY DEF Becomes
<1>3. th' \in [Threads -> Thread] /\ th'[t] = me /\ \A s \in Threads \ {t} : th'[s] = th[s]
  BY <1>1, <1>2
<1>4. \A s \in Threads : Follows(th[s], th'[s]) /\ Waiting(th[s], th'[s])
  BY <1>3, Same
<1>5. th' \in [Threads -> Thread] /\ born' = born
  BY <1>2, <1>3
<1> QED BY <1>4, <1>5, Moving

\* Two steps one after the other, as far as one thread is concerned.
LEMMA Twice ==
  ASSUME NEW r, NEW q, NEW me, Follows(r, q), Waiting(r, q), Follows(q, me), Waiting(q, me)
  PROVE  Follows(r, me) /\ Waiting(r, me)
<1>1. Follows(r, me)
  BY DEF Follows
<1>2. Waiting(r, me)
  BY DEF Waiting
<1> QED BY <1>1, <1>2

\* A step of one thread after the changes q of any.
LEMMA MovingAlso ==
  ASSUME TreeInv, NEW q \in [Threads -> Thread], NEW t \in Threads, NEW me,
         th' = [q EXCEPT ![t] = me], born' = born, left' \in Int,
         \A s \in Threads : Follows(th[s], q[s]) /\ Waiting(th[s], q[s]),
         Follows(q[t], me), Waiting(q[t], me)
  PROVE  TreeInv'
<1>1. me \in Thread
  BY DEF Follows
<1>2. th' \in [Threads -> Thread] /\ th'[t] = me /\ \A s \in Threads \ {t} : th'[s] = q[s]
  BY <1>1
<1>3. Follows(th[t], me) /\ Waiting(th[t], me)
  BY Twice
<1>4. \A s \in Threads : Follows(th[s], th'[s]) /\ Waiting(th[s], th'[s])
  BY <1>2, <1>3
<1> QED BY <1>2, <1>4, Moving

\* The places of a thread that is between two statements or in one, and has
\* nothing to keep but its $( ).
Plain == {"stmt", "words", "read", "command", "put", "reaped", "wait", "force", "settle", "last settle"}

LEMMA PlainPlaces == Plain \subseteq Pcs /\ Gone \subseteq Leavers /\ Leavers \subseteq Pcs /\ Plain \cap Leavers = {}
  BY DEF Plain, Pcs, Leavers, Gone

\* From one such place to another.
LEMMA Goes ==
  ASSUME NEW r \in Thread, Fit(r), r.pc \in Plain, NEW p \in Plain
  PROVE  Follows(r, [r EXCEPT !.pc = p]) /\ Waiting(r, [r EXCEPT !.pc = p])
<1> DEFINE me == [r EXCEPT !.pc = p]
<1>1. me \in Thread
  BY PlainPlaces DEF Thread
<1>2. /\ me.pc = p /\ me.role = r.role /\ me.parent = r.parent /\ me.proc = r.proc
      /\ me.agenda = r.agenda /\ me.done = r.done /\ me.closed = r.closed /\ me.out = r.out
      /\ me.substs = r.substs /\ me.over = r.over
  BY DEF Thread
<1> HIDE DEF me
<1>3. r.proc = "none" /\ r.agenda = <<>> /\ ~r.done
  BY DEF Fit, Plain, Gone
<1>4. Fit(me)
  BY <1>2, <1>3 DEF Fit, Plain, Leavers, Gone
<1>5. Follows(r, me)
  BY <1>1, <1>2, <1>4 DEF Follows, Plain, Gone
<1>6. Waiting(r, me)
  BY <1>2 DEF Waiting, Kept, Held, Plain
<1> QED BY <1>5, <1>6 DEF me

\* The end of a statement.
LEMMA Settles ==
  ASSUME NEW r \in Thread, Fit(r), r.pc \in Plain \cup {"pipe wait", "kill"}, Held(r) = {}, r.agenda = <<>>
  PROVE  Follows(r, Settling(r)) /\ Waiting(r, Settling(r))
<1> DEFINE me == Settling(r)
           p == IF r.substs = {} THEN "stmt" ELSE "settle"
<1>1. p \in Pcs /\ p \in {"stmt", "settle"} /\ r.substs \in SUBSET Threads /\ {} \in SUBSET Threads /\ None \in Maybe
  BY DEF Thread, Pcs, Maybe
<1>2. me = [r EXCEPT !.pc = p, !.list = r.substs, !.over = {}, !.source = None, !.job = None]
  BY DEF Settling
<1> HIDE DEF me, p
<1>3. me \in Thread
  BY <1>1, <1>2 DEF Thread
<1>4. /\ me.pc = p /\ me.role = r.role /\ me.parent = r.parent /\ me.proc = r.proc
      /\ me.agenda = r.agenda /\ me.done = r.done /\ me.closed = r.closed /\ me.out = r.out
      /\ me.substs = r.substs /\ me.over = {}
  BY <1>2 DEF Thread
<1>5. r.proc = "none" /\ ~r.done
  BY DEF Fit, Plain, Gone
<1>6. Fit(me)
  BY <1>1, <1>4, <1>5 DEF Fit, Plain, Leavers, Gone
<1>7. Follows(r, me)
  BY <1>1, <1>3, <1>4, <1>6 DEF Follows, Plain, Gone
<1>8. Waiting(r, me)
  BY <1>1, <1>4 DEF Waiting, Kept, Plain
<1> QED BY <1>7, <1>8 DEF me

\* A change of what no other thread waits for.
LEMMA Minor ==
  ASSUME NEW r \in Thread, Fit(r), NEW me \in Thread,
         me.pc = r.pc, me.role = r.role, me.parent = r.parent, me.proc = r.proc,
         me.ref = r.ref \/ r.pc \in Plain, me.agenda = r.agenda, me.done = r.done,
         me.closed = r.closed \/ (me.closed /\ r.out # None), me.out = r.out,
         me.substs = r.substs, me.over = r.over, me.started = r.started,
         me.source = r.source \/ r.pc \in Plain, me.job = r.job \/ r.pc \in Plain, me.list = r.list
  PROVE  Fit(me) /\ Follows(r, me) /\ Waiting(r, me)
<1>1. Fit(me)
  BY DEF Fit, Plain
<1>2. Follows(r, me)
  BY <1>1 DEF Follows
<1>3. Waiting(r, me)
  BY DEF Waiting, Kept, Held, Plain
<1> QED BY <1>1, <1>2, <1>3

\* The end of a thread: of its list stays what a member has not finished.
LEMMA Finishes ==
  ASSUME NEW r \in Thread, Fit(r), r.pc \in Plain, NEW kept \in SUBSET Threads, r.substs \subseteq kept \cup Ended
  PROVE  Follows(r, Finishing(r, kept)) /\ Waiting(r, Finishing(r, kept))
<1> DEFINE me == Finishing(r, kept)
<1>1. "finish" \in Pcs /\ {} \in SUBSET Threads
  BY DEF Pcs
<1>2. me = [r EXCEPT !.pc = "finish", !.list = kept, !.substs = {}]
  BY DEF Finishing
<1> HIDE DEF me
<1>3. me \in Thread
  BY <1>1, <1>2 DEF Thread
<1>4. /\ me.pc = "finish" /\ me.role = r.role /\ me.parent = r.parent /\ me.proc = r.proc
      /\ me.agenda = r.agenda /\ me.done = r.done /\ me.closed = r.closed /\ me.out = r.out
      /\ me.substs = {} /\ me.list = kept /\ me.over = r.over
  BY <1>2 DEF Thread
<1>5. r.proc = "none" /\ ~r.done /\ r.agenda = <<>>
  BY DEF Fit, Plain, Gone
<1>6. Fit(me)
  BY <1>4, <1>5 DEF Fit, Plain, Leavers, Gone
<1>7. Follows(r, me)
  BY <1>3, <1>4, <1>6 DEF Follows, Plain, Gone
<1>8. Waiting(r, me)
  BY <1>4 DEF Waiting, Kept, Held, Plain
<1> QED BY <1>7, <1>8 DEF me

\* The end by a flow: what it leaves of r, then the settling of an element and
\* a job, or the end itself.
LEMMA Leaves ==
  ASSUME NEW r \in Thread, Fit(r), r.pc \in Plain, NEW flow
  PROVE  Follows(r, Leaving(r, flow)) /\ Waiting(r, Leaving(r, flow))
<1> DEFINE jobs == Awaited(r, flow)
           value == Captured(r.value, flow)
           ends == [r EXCEPT !.source = None, !.jobs = jobs, !.value = value]
           me == [ends EXCEPT !.pc = "last settle", !.list = r.substs, !.over = {}]
<1>1. /\ "last settle" \in Pcs /\ r.substs \in SUBSET Threads /\ {} \in SUBSET Threads
      /\ None \in Maybe /\ jobs \in SUBSET Threads /\ value \in Values
  BY DEF Thread, Pcs, Maybe, Values, Awaited, Captured
<1>2. Leaving(r, flow) = IF r.role \in {"element", "job"} THEN me ELSE Finishing(ends, r.substs)
  BY DEF Leaving
<1> HIDE DEF jobs, value
<1>3. ends \in Thread
  BY <1>1 DEF Thread
<1>4. /\ ends.pc = r.pc /\ ends.role = r.role /\ ends.parent = r.parent /\ ends.proc = r.proc
      /\ ends.ref = r.ref /\ ends.agenda = r.agenda /\ ends.done = r.done /\ ends.closed = r.closed
      /\ ends.out = r.out /\ ends.substs = r.substs /\ ends.over = r.over /\ ends.started = r.started
      /\ ends.job = r.job /\ ends.list = r.list
  BY DEF Thread
<1> HIDE DEF ends
<1>5. Fit(ends) /\ Follows(r, ends) /\ Waiting(r, ends)
  BY <1>3, <1>4, Minor
<1>6. Follows(ends, Finishing(ends, r.substs)) /\ Waiting(ends, Finishing(ends, r.substs))
  BY <1>1, <1>3, <1>4, <1>5, Finishes
<1>7. Follows(r, Finishing(ends, r.substs)) /\ Waiting(r, Finishing(ends, r.substs))
  BY <1>5, <1>6, Twice
<1>8. Follows(r, me) /\ Waiting(r, me)
  <2>1. me \in Thread
    BY <1>1, <1>3 DEF Thread
  <2>2. /\ me.pc = "last settle" /\ me.role = r.role /\ me.parent = r.parent /\ me.proc = r.proc
        /\ me.agenda = r.agenda /\ me.done = r.done /\ me.closed = r.closed /\ me.out = r.out
        /\ me.substs = r.substs /\ me.over = {}
    BY <1>3, <1>4 DEF Thread
  <2> HIDE DEF me
  <2>3. r.proc = "none" /\ ~r.done /\ r.agenda = <<>>
    BY DEF Fit, Plain, Gone
  <2>4. Fit(me)
    BY <2>2, <2>3 DEF Fit, Leavers, Gone
  <2>5. Follows(r, me)
    BY <2>1, <2>2, <2>4 DEF Follows, Plain, Gone
  <2>6. Waiting(r, me)
    BY <2>2 DEF Waiting, Kept, Held, Plain
  <2> QED BY <2>5, <2>6
<1> QED BY <1>2, <1>7, <1>8

----------------------------------------------------------------------------
(***************************************************************************)
(* Statements and threads.                                                 *)
(***************************************************************************)

\* The steps from one place of a statement to the next keep the invariant
\* (step_lines, exec_cmd, builtin_stdin, Promise::wait of eval.rs).
LEMMA PlainSteps ==
  ASSUME TreeInv, left' \in Int, NEW t \in Threads
  PROVE  /\ StepLinesEnds(t) \/ BuiltinExit(t) \/ SimpleCommand(t) \/ Read(t) => TreeInv'
         /\ BuiltinWait(t) \/ JobWait(t) \/ ForceValue(t) \/ Forced(t) => TreeInv'
<1> DEFINE r == th[t]
<1>0. r \in Thread /\ Fit(r)
  BY Same
<1>1. ASSUME StepLinesEnds(t) \/ BuiltinExit(t) PROVE TreeInv'
  <2>1. r.pc \in Plain /\ \E flow \in {"end", "exit"} : Becomes(t, Leaving(r, flow))
    BY <1>1 DEF StepLinesEnds, BuiltinExit, At, Plain
  <2> QED BY <1>0, <2>1, Leaves, Becoming
<1>2. ASSUME SimpleCommand(t) \/ Forced(t) PROVE TreeInv'
  <2>1. r.pc \in Plain /\ \E p \in Plain : Becomes(t, [r EXCEPT !.pc = p])
    BY <1>2 DEF SimpleCommand, Forced, Ready, At, Go, Plain
  <2> QED BY <1>0, <2>1, Goes, Becoming
<1>3. ASSUME Read(t) PROVE TreeInv'
  <2>1. PICK c \in Readable(t) : Becomes(t, [Go(t, "read") EXCEPT !.source = c])
    BY <1>3 DEF Read
  <2> DEFINE q == [r EXCEPT !.pc = "read"]
             me == [q EXCEPT !.source = c]
  <2>2. r.pc \in Plain /\ "read" \in Plain /\ c \in Maybe
    BY <1>3 DEF Read, At, Plain, Maybe, Readable
  <2>3. Follows(r, q) /\ Waiting(r, q)
    BY <1>0, <2>2, Goes
  <2>4. q \in Thread /\ Fit(q) /\ q.pc \in Plain
    BY <1>0, <2>2, <2>3 DEF Follows, Thread
  <2>5. Follows(q, me) /\ Waiting(q, me)
    <3> HIDE DEF q
    <3> QED BY <2>2, <2>4, Minor DEF Thread
  <2>6. Becomes(t, me)
    BY <2>1 DEF Go
  <2> QED BY <2>3, <2>5, <2>6, Twice, Becoming
<1>4. ASSUME BuiltinWait(t) PROVE TreeInv'
  <2>1. PICK j \in th[t].jobs : Becomes(t, [Go(t, "wait") EXCEPT !.jobs = @ \ {j}, !.job = j])
    BY <1>4 DEF BuiltinWait
  <2> DEFINE q == [r EXCEPT !.pc = "wait"]
             me == [q EXCEPT !.jobs = @ \ {j}, !.job = j]
  <2>2. r.pc \in Plain /\ "wait" \in Plain /\ j \in Maybe
    BY <1>0, <1>4 DEF BuiltinWait, Ready, At, Plain, Maybe, Thread
  <2>3. Follows(r, q) /\ Waiting(r, q)
    BY <1>0, <2>2, Goes
  <2>4. q \in Thread /\ Fit(q) /\ q.pc \in Plain
    BY <1>0, <2>2, <2>3 DEF Follows, Thread
  <2>5. Follows(q, me) /\ Waiting(q, me)
    <3> HIDE DEF q
    <3> QED BY <2>2, <2>4, Minor DEF Thread
  <2>6. Becomes(t, me)
    BY <2>1 DEF Go
  <2> QED BY <2>3, <2>5, <2>6, Twice, Becoming
<1>5. ASSUME JobWait(t) PROVE TreeInv'
  <2>1. r.pc \in Plain /\ Held(r) = {} /\ r.agenda = <<>> /\ Becomes(t, Settling(r))
    BY <1>0, <1>5 DEF JobWait, At, Plain, Held, Fit
  <2> QED BY <1>0, <2>1, Settles, Becoming
<1>6. ASSUME ForceValue(t) PROVE TreeInv'
  <2>1. PICK j \in Threads : Becomes(t, [Go(t, "force") EXCEPT !.job = j])
    BY <1>6 DEF ForceValue
  <2> DEFINE q == [r EXCEPT !.pc = "force"]
             me == [q EXCEPT !.job = j]
  <2>2. r.pc \in Plain /\ "force" \in Plain /\ j \in Maybe
    BY <1>6 DEF ForceValue, At, Plain, Maybe
  <2>3. Follows(r, q) /\ Waiting(r, q)
    BY <1>0, <2>2, Goes
  <2>4. q \in Thread /\ Fit(q) /\ q.pc \in Plain
    BY <1>0, <2>2, <2>3 DEF Follows, Thread
  <2>5. Follows(q, me) /\ Waiting(q, me)
    <3> HIDE DEF q
    <3> QED BY <2>2, <2>4, Minor DEF Thread
  <2>6. Becomes(t, me)
    BY <2>1 DEF Go
  <2> QED BY <2>3, <2>5, <2>6, Twice, Becoming
<1> QED BY <1>1, <1>2, <1>3, <1>4, <1>5, <1>6

\* So do those of an external command (external_run), of echo and of put.
LEMMA CommandSteps ==
  ASSUME TreeInv, left' \in Int, NEW t \in Threads
  PROVE  /\ Echo(t) \/ Put(t) => TreeInv'
         /\ External(t) \/ CommandEnds(t) \/ Reap(t) \/ ForgetPid(t) => TreeInv'
<1> DEFINE r == th[t]
<1>0. r \in Thread /\ Fit(r)
  BY Same
<1>1. ASSUME r.pc \in Plain, NEW q \in Thread, Becomes(t, Settling(q)),
             Fit(q) /\ Follows(r, q) /\ Waiting(r, q), q.pc \in Plain
      PROVE  TreeInv'
  <2>1. Held(q) = {} /\ q.agenda = <<>>
    BY <1>1 DEF Held, Fit, Plain
  <2> QED BY <1>1, <2>1, Settles, Twice, Becoming
<1>2. ASSUME Echo(t) PROVE TreeInv'
  <2>0. r.pc \in Plain /\ "put" \in Plain
    BY <1>2 DEF Echo, Commands, Plain
  <2>1. CASE Becomes(t, Settling([r EXCEPT !.value = "made"]))
    <3> DEFINE q == [r EXCEPT !.value = "made"]
    <3>1. q \in Thread /\ q.pc \in Plain
      BY <1>0, <2>0 DEF Thread, Values
    <3>2. Fit(q) /\ Follows(r, q) /\ Waiting(r, q)
      BY <1>0, <2>0, <3>1, Minor DEF Thread
    <3> QED BY <1>1, <2>0, <2>1, <3>1, <3>2
  <2>2. CASE Becomes(t, Settling(r))
    BY <1>0, <1>1, <2>0, <2>2, Same
  <2>3. CASE Becomes(t, Go(t, "put"))
    BY <1>0, <2>0, <2>3, Goes, Becoming DEF Go
  <2> QED BY <1>2, <2>1, <2>2, <2>3 DEF Echo
<1>3. ASSUME Put(t) PROVE TreeInv'
  <2>0. r.pc \in Plain
    BY <1>3 DEF Put, At, Plain
  <2>1. CASE \/ Becomes(t, Leaving([r EXCEPT !.waiting = FALSE], "abort"))
             \/ Becomes(t, Settling([r EXCEPT !.waiting = FALSE]))
    <3> DEFINE q == [r EXCEPT !.waiting = FALSE]
    <3>1. q \in Thread /\ q.pc \in Plain
      BY <1>0, <2>0 DEF Thread
    <3>2. Fit(q) /\ Follows(r, q) /\ Waiting(r, q)
      BY <1>0, <2>0, <3>1, Minor DEF Thread
    <3> HIDE DEF q
    <3>3. Follows(q, Leaving(q, "abort")) /\ Waiting(q, Leaving(q, "abort"))
      BY <3>1, <3>2, Leaves
    <3>4. CASE Becomes(t, Leaving(q, "abort"))
      BY <3>2, <3>3, <3>4, Twice, Becoming
    <3>5. CASE Becomes(t, Settling(q))
      BY <1>1, <2>0, <3>1, <3>2, <3>5
    <3> QED BY <2>1, <3>4, <3>5 DEF q
  <2>2. CASE Becomes(t, Settling([r EXCEPT !.n = @ + 1, !.waiting = FALSE]))
    <3> DEFINE q == [r EXCEPT !.n = @ + 1, !.waiting = FALSE]
    <3>0. r.n + 1 \in Int
      BY <1>0 DEF Thread
    <3>1. q \in Thread /\ q.pc \in Plain
      <4>1. \A k \in Int : [r EXCEPT !.n = k, !.waiting = FALSE] \in Thread
        BY <1>0 DEF Thread
      <4>2. q = [r EXCEPT !.n = r.n + 1, !.waiting = FALSE]
        OBVIOUS
      <4>3. q.pc = r.pc
        BY <1>0 DEF Thread
      <4> QED BY <2>0, <3>0, <4>1, <4>2, <4>3
    <3>2. Fit(q) /\ Follows(r, q) /\ Waiting(r, q)
      BY <1>0, <2>0, <3>1, Minor DEF Thread
    <3> QED BY <1>1, <2>0, <2>2, <3>1, <3>2
  <2>3. CASE Becomes(t, [r EXCEPT !.waiting = TRUE])
    <3> DEFINE q == [r EXCEPT !.waiting = TRUE]
    <3>1. q \in Thread
      BY <1>0, <2>0 DEF Thread
    <3>2. Fit(q) /\ Follows(r, q) /\ Waiting(r, q)
      BY <1>0, <2>0, <3>1, Minor DEF Thread
    <3> QED BY <2>3, <3>2, Becoming
  <2> QED BY <1>3, <2>1, <2>2, <2>3 DEF Put
<1>4. ASSUME External(t) PROVE TreeInv'
  <2>0. r.pc \in Plain
    BY <1>4 DEF External, Commands, Plain
  <2>1. CASE Becomes(t, Leaving(r, "killed"))
    BY <1>0, <2>0, <2>1, Leaves, Becoming
  <2>2. CASE Becomes(t, [Go(t, "command waits") EXCEPT !.proc = "runs", !.term = FALSE, !.ref = TRUE])
    <3> DEFINE me == [r EXCEPT !.pc = "command waits", !.proc = "runs", !.term = FALSE, !.ref = TRUE]
    <3>1. me \in Thread
      BY <1>0 DEF Thread, Pcs, Procs
    <3>2. /\ me.pc = "command waits" /\ me.role = r.role /\ me.parent = r.parent /\ me.ref
          /\ me.agenda = r.agenda /\ me.done = r.done /\ me.closed = r.closed /\ me.out = r.out
          /\ me.substs = r.substs /\ me.over = r.over
      BY <1>0 DEF Thread
    <3>3. Becomes(t, me)
      BY <2>2 DEF Go
    <3> HIDE DEF me
    <3>4. r.agenda = <<>> /\ ~r.done
      BY <1>0, <2>0 DEF Fit, Plain, Gone
    <3>5. Fit(me)
      BY <1>0, <3>2, <3>4 DEF Fit, Leavers, Gone
    <3>6. Follows(r, me) /\ Waiting(r, me)
      BY <2>0, <3>1, <3>2, <3>5 DEF Follows, Waiting, Kept, Held, Plain, Gone
    <3> QED BY <3>3, <3>6, Becoming
  <2> QED BY <1>4, <2>1, <2>2 DEF External
<1>5. ASSUME CommandEnds(t) \/ Reap(t) PROVE TreeInv'
  <2>1. PICK p \in {"command waits", "reaped"} : \E proc \in {"ended", "none"} :
          /\ r.pc = "command waits" /\ Becomes(t, [r EXCEPT !.pc = p, !.proc = proc])
          /\ proc # "none" => p = "command waits" /\ r.ref
    <3>1. CASE CommandEnds(t)
      <4>1. r.pc = "command waits" /\ r.ref
        BY <1>0, <3>1 DEF CommandEnds, Fit
      <4>2. [r EXCEPT !.proc = "ended"] = [r EXCEPT !.pc = "command waits", !.proc = "ended"]
        BY <1>0, <4>1 DEF Thread
      <4> QED BY <3>1, <4>1, <4>2 DEF CommandEnds
    <3>2. CASE Reap(t)
      BY <3>2 DEF Reap, Go, At
    <3> QED BY <1>5, <3>1, <3>2
  <2>2. PICK proc \in {"ended", "none"} :
          /\ r.pc = "command waits" /\ Becomes(t, [r EXCEPT !.pc = p, !.proc = proc])
          /\ proc # "none" => p = "command waits" /\ r.ref
    BY <2>1
  <2> DEFINE me == [r EXCEPT !.pc = p, !.proc = proc]
  <2>3. p \in Pcs /\ proc \in Procs
    BY DEF Pcs, Procs
  <2>4. me \in Thread
    BY <1>0, <2>3 DEF Thread
  <2>5. /\ me.pc = p /\ me.proc = proc /\ me.role = r.role /\ me.parent = r.parent /\ me.ref = r.ref
        /\ me.agenda = r.agenda /\ me.done = r.done /\ me.closed = r.closed /\ me.out = r.out
        /\ me.substs = r.substs /\ me.over = r.over
    BY <1>0 DEF Thread
  <2> HIDE DEF me
  <2>6. r.agenda = <<>> /\ ~r.done
    BY <1>0, <2>2 DEF Fit, Gone
  <2>7. Fit(me)
    BY <1>0, <2>2, <2>5, <2>6 DEF Fit, Leavers, Gone
  <2>8. Follows(r, me) /\ Waiting(r, me)
    BY <2>2, <2>4, <2>5, <2>7 DEF Follows, Waiting, Kept, Held, Gone
  <2> QED BY <2>2, <2>8, Becoming DEF me
<1>6. ASSUME ForgetPid(t) PROVE TreeInv'
  <2> DEFINE q == [r EXCEPT !.ref = FALSE]
  <2>1. r.pc \in Plain /\ Becomes(t, Settling(q))
    BY <1>6 DEF ForgetPid, At, Plain
  <2>2. q \in Thread /\ q.pc \in Plain
    BY <1>0, <2>1 DEF Thread
  <2>3. Fit(q) /\ Follows(r, q) /\ Waiting(r, q)
    BY <1>0, <2>1, <2>2, Minor DEF Thread
  <2> QED BY <1>1, <2>1, <2>2, <2>3
<1> QED BY <1>2, <1>3, <1>4, <1>5, <1>6

\* So do the keeping of a $( ), the wait for a pipeline and the beginning of
\* kill (push_subst, eval_pipe, builtin_kill).
LEMMA KeepSteps ==
  ASSUME TreeInv, left' \in Int, NEW t \in Threads
  PROVE  PushSubst(t) \/ PipeStore(t) \/ PipeWait(t) \/ BuiltinKill(t) => TreeInv'
<1> DEFINE r == th[t]
<1>0. r \in Thread /\ Fit(r)
  BY Same
<1>1. ASSUME PushSubst(t) PROVE TreeInv'
  <2> DEFINE me == [r EXCEPT !.pc = "words", !.substs = @ \cup {r.source}, !.source = None]
  <2>1. r.pc = "push" /\ Becomes(t, me)
    BY <1>1 DEF PushSubst, At, Go
  <2>2. "words" \in Pcs /\ None \in Maybe /\ r.substs \cup {r.source} \in SUBSET Threads
    BY <1>0, <2>1 DEF Fit, Thread, Pcs, Maybe
  <2>3. me \in Thread
    BY <1>0, <2>2 DEF Thread
  <2>4. /\ me.pc = "words" /\ me.role = r.role /\ me.parent = r.parent /\ me.proc = r.proc
        /\ me.agenda = r.agenda /\ me.done = r.done /\ me.closed = r.closed /\ me.out = r.out
        /\ me.substs = r.substs \cup {r.source} /\ me.over = r.over
    BY <1>0 DEF Thread
  <2> HIDE DEF me
  <2>5. Fit(me)
    BY <1>0, <2>1, <2>4 DEF Fit, Leavers, Gone
  <2>6. Follows(r, me) /\ Waiting(r, me)
    BY <2>1, <2>3, <2>4, <2>5 DEF Follows, Waiting, Kept, Held, Gone
  <2> QED BY <2>1, <2>6, Becoming
<1>2. ASSUME PipeStore(t) PROVE TreeInv'
  <2> DEFINE me == [r EXCEPT !.pc = "pipe wait", !.members = r.started]
  <2>1. r.pc = "pipe store" /\ Becomes(t, me)
    BY <1>2 DEF PipeStore, At, Go
  <2>2. "pipe wait" \in Pcs /\ r.started \in Seq(Threads)
    BY <1>0 DEF Thread, Pcs
  <2>3. me \in Thread
    BY <1>0, <2>2 DEF Thread
  <2>4. /\ me.pc = "pipe wait" /\ me.role = r.role /\ me.parent = r.parent /\ me.proc = r.proc
        /\ me.agenda = r.agenda /\ me.done = r.done /\ me.closed = r.closed /\ me.out = r.out
        /\ me.substs = r.substs /\ me.over = r.over /\ me.started = r.started
    BY <1>0 DEF Thread
  <2> HIDE DEF me
  <2>5. Fit(me)
    BY <1>0, <2>1, <2>4 DEF Fit, Leavers, Gone
  <2>6. Follows(r, me) /\ Waiting(r, me)
    BY <2>1, <2>3, <2>4, <2>5 DEF Follows, Waiting, Kept, Held, Gone
  <2> QED BY <2>1, <2>6, Becoming
<1>3. ASSUME PipeWait(t) PROVE TreeInv'
  <2> DEFINE q == [r EXCEPT !.members = <<>>, !.started = <<>>]
  <2>1. r.pc = "pipe wait" /\ Becomes(t, Settling(q)) /\ \A m \in ToSet(r.started) : Finished(m)
    BY <1>3 DEF PipeWait, At
  <2>2. q \in Thread
    <3>1. <<>> \in Seq(Threads)
      OBVIOUS
    <3> QED BY <1>0, <3>1 DEF Thread
  <2>3. /\ q.pc = "pipe wait" /\ q.role = r.role /\ q.parent = r.parent /\ q.proc = r.proc
        /\ q.agenda = r.agenda /\ q.done = r.done /\ q.closed = r.closed /\ q.out = r.out
        /\ q.substs = r.substs /\ q.over = r.over /\ q.started = <<>>
    BY <1>0, <2>1 DEF Thread
  <2> HIDE DEF q
  <2>4. Fit(q)
    BY <1>0, <2>1, <2>3 DEF Fit, Leavers, Gone
  <2>5. Held(r) \subseteq Ended
    <3>1. r.started \in Seq(Threads)
      BY <1>0 DEF Thread
    <3>2. ToSet(r.started) \subseteq Threads
      BY <3>1 DEF ToSet
    <3> QED BY <2>1, <3>2 DEF Held, Ended, Finished, Gone
  <2>6. Follows(r, q) /\ Waiting(r, q)
    BY <2>1, <2>2, <2>3, <2>4, <2>5 DEF Follows, Waiting, Kept, Gone
  <2>7. Held(q) = {} /\ q.agenda = <<>>
    <3>1. ToSet(<<>>) = {}
      BY DEF ToSet
    <3>2. Held(q) = {}
      BY <2>3, <3>1 DEF Held
    <3> QED BY <2>3, <2>4, <3>2 DEF Fit
  <2> QED BY <2>1, <2>2, <2>3, <2>4, <2>6, <2>7, Settles, Twice, Becoming
<1>4. ASSUME BuiltinKill(t) PROVE TreeInv'
  <2>1. PICK j \in r.jobs : \/ Becomes(t, Settling(r))
                           \/ Becomes(t, [r EXCEPT !.pc = "kill", !.job = j, !.agenda = <<<<"flag", j>>>>])
    BY <1>4 DEF BuiltinKill, Go
  <2>2. r.pc = "stmt" /\ r.agenda = <<>>
    BY <1>0, <1>4 DEF BuiltinKill, Ready, At, Fit
  <2>3. CASE Becomes(t, Settling(r))
    BY <1>0, <2>2, <2>3, Settles, Becoming DEF Plain, Held
  <2>4. CASE Becomes(t, [r EXCEPT !.pc = "kill", !.job = j, !.agenda = <<<<"flag", j>>>>])
    <3> DEFINE agenda == <<<<"flag", j>>>>
               me == [r EXCEPT !.pc = "kill", !.job = j, !.agenda = agenda]
    <3>1. j \in Threads
      BY <1>0 DEF Thread
    <3>2. agenda \in Seq(Orders)
      BY <3>1 DEF Orders
    <3> HIDE DEF agenda
    <3>3. me \in Thread
      BY <1>0, <3>1, <3>2 DEF Thread, Pcs, Maybe
    <3>4. /\ me.pc = "kill" /\ me.role = r.role /\ me.parent = r.parent /\ me.proc = r.proc
          /\ me.job = j /\ me.done = r.done /\ me.closed = r.closed /\ me.out = r.out
          /\ me.substs = r.substs /\ me.over = r.over
      BY <1>0 DEF Thread
    <3> HIDE DEF me
    <3>5. Fit(me)
      BY <1>0, <2>2, <3>1, <3>4 DEF Fit, Leavers, Gone
    <3>6. Follows(r, me) /\ Waiting(r, me)
      BY <2>2, <3>3, <3>4, <3>5 DEF Follows, Waiting, Kept, Held, Gone
    <3> QED BY <2>4, <3>6, Becoming DEF me, agenda
  <2> QED BY <2>1, <2>3, <2>4
<1> QED BY <1>1, <1>2, <1>3, <1>4

\* So do the end of a statement and of a thread (subst_settle, subst_finish,
\* set_done and the flag of sh_start).
LEMMA EndSteps ==
  ASSUME TreeInv, left' \in Int, NEW t \in Threads
  PROVE  /\ SettleOne(t) \/ Settled(t) \/ FinishWait(t) => TreeInv'
         /\ SetDone(t) \/ SetFlag(t) \/ JobsWaitAll(t) => TreeInv'
<1> DEFINE r == th[t]
<1>0. r \in Thread /\ Fit(r) /\ (r.role = "main" <=> t = Main)
  BY Same DEF TreeInv, AllFit
<1>1. ASSUME SettleOne(t) PROVE TreeInv'
  <2>0. PICK c \in Newest(r.list) :
          Becomes(t, [r EXCEPT !.list = @ \ {c}, !.over = IF State(c) = "done" THEN @ \cup {c} ELSE @])
    BY <1>1 DEF SettleOne
  <2> DEFINE over == IF State(c) = "done" THEN r.over \cup {c} ELSE r.over
  <2>1. /\ Becomes(t, [r EXCEPT !.list = r.list \ {c}, !.over = over])
        /\ over = r.over \/ (over = r.over \cup {c} /\ th[c].done)
    <3>1. [r EXCEPT !.list = @ \ {c}, !.over = IF State(c) = "done" THEN @ \cup {c} ELSE @]
            = [r EXCEPT !.list = r.list \ {c}, !.over = over]
      BY <1>0 DEF Thread
    <3>2. State(c) = "done" => th[c].done
      BY DEF State
    <3> QED BY <2>0, <3>1, <3>2
  <2> HIDE DEF over
  <2> DEFINE me == [r EXCEPT !.list = r.list \ {c}, !.over = over]
  <2>2. /\ r.pc \in {"settle", "last settle"}
        /\ c \in r.list /\ r.list \in SUBSET Threads /\ r.over \in SUBSET Threads
    BY <1>0, <1>1 DEF SettleOne, InSettle, Newest, Thread
  <2>3. r.list \ {c} \in SUBSET Threads /\ over \in SUBSET Threads
    BY <2>1, <2>2
  <2>4. me \in Thread
    BY <1>0, <2>3 DEF Thread
  <2>5. /\ me.pc = r.pc /\ me.role = r.role /\ me.parent = r.parent /\ me.proc = r.proc
        /\ me.agenda = r.agenda /\ me.done = r.done /\ me.closed = r.closed /\ me.out = r.out
        /\ me.substs = r.substs /\ me.over = over
    BY <1>0, <2>2 DEF Thread
  <2> HIDE DEF me
  <2>6. Fit(me)
    BY <1>0, <2>2, <2>5 DEF Fit, Leavers, Gone
  <2>7. Follows(r, me)
    BY <2>2, <2>4, <2>5, <2>6 DEF Follows, Gone
  <2>8. Waiting(r, me)
    <3>1. over \subseteq r.over \cup Done
      BY <2>1, <2>2 DEF Done
    <3> QED BY <2>2, <2>5, <3>1 DEF Waiting, Kept, Held
  <2> QED BY <2>1, <2>7, <2>8, Becoming DEF me
<1>2. ASSUME Settled(t) PROVE TreeInv'
  <2> DEFINE kept == r.substs \ r.over
             me == [r EXCEPT !.pc = "stmt", !.substs = kept]
  <2>1. /\ r.pc \in Plain
        /\ Becomes(t, me) \/ Becomes(t, Finishing(r, kept))
    BY <1>2 DEF Settled, InSettle, Go, Plain
  <2>2. "stmt" \in Pcs /\ kept \in SUBSET Threads
    BY <1>0 DEF Thread, Pcs
  <2>3. r.over \subseteq Ended
    <3>1. r.over \in SUBSET Threads /\ \A c \in r.over : th[c].done
      BY <1>0 DEF TreeInv, Family, Thread
    <3> QED BY <3>1 DEF Ended, TreeInv, AllFit, Fit
  <2>4. me \in Thread
    BY <1>0, <2>2 DEF Thread
  <2>5. /\ me.pc = "stmt" /\ me.role = r.role /\ me.parent = r.parent /\ me.proc = r.proc
        /\ me.agenda = r.agenda /\ me.done = r.done /\ me.closed = r.closed /\ me.out = r.out
        /\ me.substs = kept /\ me.over = r.over
    BY <1>0 DEF Thread
  <2> HIDE DEF me
  <2>6. Fit(me)
    BY <1>0, <2>1, <2>5 DEF Fit, Plain, Leavers, Gone
  <2>7. Follows(r, me)
    BY <2>1, <2>4, <2>5, <2>6 DEF Follows, Plain, Gone
  <2>8. Waiting(r, me)
    BY <2>1, <2>3, <2>5 DEF Waiting, Kept, Held, Plain
  <2>9. r.substs \subseteq kept \cup Ended
    BY <2>3
  <2> HIDE DEF kept
  <2>10. Follows(r, Finishing(r, kept)) /\ Waiting(r, Finishing(r, kept))
    BY <1>0, <2>1, <2>2, <2>9, Finishes
  <2> QED BY <2>1, <2>7, <2>8, <2>10, Becoming
<1>3. ASSUME FinishWait(t) PROVE TreeInv'
  <2>1. PICK c \in Newest(r.list) : Finished(c) /\ Becomes(t, [r EXCEPT !.pc = "finish", !.list = r.list \ {c}])
    BY <1>3 DEF FinishWait, Go, Thread
  <2> DEFINE me == [r EXCEPT !.pc = "finish", !.list = r.list \ {c}]
  <2>2. r.pc = "finish wait" /\ c \in Threads /\ r.list \ {c} \in SUBSET Threads
    BY <1>0, <1>3 DEF FinishWait, At, Newest, Thread
  <2>3. me \in Thread
    BY <1>0, <2>2 DEF Thread, Pcs
  <2>4. /\ me.pc = "finish" /\ me.role = r.role /\ me.parent = r.parent /\ me.proc = r.proc
        /\ me.agenda = r.agenda /\ me.done = r.done /\ me.closed = r.closed /\ me.out = r.out
        /\ me.substs = r.substs /\ me.over = r.over /\ me.list = r.list \ {c}
    BY <1>0 DEF Thread
  <2> HIDE DEF me
  <2>5. Fit(me)
    BY <1>0, <2>2, <2>4 DEF Fit, Leavers, Gone
  <2>6. Follows(r, me)
    BY <2>2, <2>3, <2>4, <2>5 DEF Follows, Gone
  <2>7. Waiting(r, me)
    <3>1. c \in Ended
      BY <2>1, <2>2 DEF Ended, Finished, Gone
    <3> QED BY <2>2, <2>4, <3>1 DEF Waiting, Kept, Held
  <2> QED BY <2>1, <2>6, <2>7, Becoming DEF me
<1>4. ASSUME NEW p \in Gone, NEW done \in BOOLEAN, r.pc \in {"finish", "released", "flag"},
             r.done => done, r.pc = "finish" => r.role = "main" /\ r.list = {},
             Becomes(t, [r EXCEPT !.pc = p, !.done = done])
      PROVE  TreeInv'
  <2> DEFINE me == [r EXCEPT !.pc = p, !.done = done]
  <2>1. me \in Thread
    BY <1>0, <1>4 DEF Thread, Pcs, Gone
  <2>2. /\ me.pc = p /\ me.role = r.role /\ me.parent = r.parent /\ me.proc = r.proc
        /\ me.agenda = r.agenda /\ me.done = done /\ me.closed = r.closed /\ me.out = r.out
        /\ me.substs = r.substs /\ me.over = r.over
    BY <1>0 DEF Thread
  <2> HIDE DEF me
  <2>3. Fit(me)
    BY <1>0, <1>4, <2>2 DEF Fit, Leavers, Gone
  <2>4. Follows(r, me)
    BY <1>4, <2>1, <2>2, <2>3 DEF Follows, Gone
  <2>5. Waiting(r, me)
    BY <1>0, <1>4, <2>2 DEF Waiting, Kept, Held, Gone
  <2> QED BY <1>4, <2>4, <2>5, Becoming DEF me
<1>5. ASSUME SetDone(t) PROVE TreeInv'
  <2>1. r.pc = "released" /\ Becomes(t, [r EXCEPT !.pc = "flag", !.done = (r.role = "subst")])
    BY <1>5 DEF SetDone, At, Go
  <2>2. ~r.done /\ (r.role = "subst") \in BOOLEAN /\ "flag" \in Gone
    BY <1>0, <2>1 DEF Fit, Gone
  <2> QED BY <1>4, <2>1, <2>2
<1>6. ASSUME SetFlag(t) \/ JobsWaitAll(t) PROVE TreeInv'
  <2>1. r.pc \in {"finish", "flag"} /\ Becomes(t, [r EXCEPT !.pc = "finished"])
    BY <1>6 DEF SetFlag, JobsWaitAll, At, Go
  <2>2. r.pc = "finish" => r.role = "main" /\ r.list = {}
    BY <1>0, <1>6 DEF SetFlag, JobsWaitAll, At
  <2>3. r.done \in BOOLEAN /\ [r EXCEPT !.pc = "finished"] = [r EXCEPT !.pc = "finished", !.done = r.done]
    BY <1>0 DEF Thread
  <2> QED BY <1>4, <2>1, <2>2, <2>3 DEF Gone
<1> QED BY <1>1, <1>2, <1>3, <1>5, <1>6

----------------------------------------------------------------------------
(***************************************************************************)
(* Steps that change other threads: the reader of a channel, kill, and the *)
(* end of a thread.                                                        *)
(***************************************************************************)

\* sh_release.
LEMMA ReleasedFits ==
  ASSUME TreeInv, NEW t \in Threads
  PROVE  LET q == Released(th, t)
         IN  /\ q \in [Threads -> Thread]
             /\ \A s \in Threads : Follows(th[s], q[s]) /\ Waiting(th[s], q[s])
             /\ q[t].closed = (th[t].closed \/ th[t].out # None)
             /\ q[t].pc = th[t].pc /\ q[t].list = th[t].list /\ q[t].out = th[t].out
<1> DEFINE q == Released(th, t)
<1>1. /\ DOMAIN q = Threads
      /\ \A s \in Threads : q[s] = [th[s] EXCEPT
            !.closed = IF s = t /\ th[t].out # None THEN TRUE ELSE @,
            !.waiting = IF s = t THEN FALSE ELSE @,
            !.cancelled = IF s = th[t].from THEN TRUE ELSE @]
      /\ q = [s \in Threads |-> q[s]]
  BY DEF Released, TreeInv, TypeOK
<1> HIDE DEF q
<1>2. ASSUME NEW s \in Threads
      PROVE  /\ q[s] \in Thread /\ Follows(th[s], q[s]) /\ Waiting(th[s], q[s])
             /\ q[s].closed = (th[s].closed \/ (s = t /\ th[t].out # None))
             /\ q[s].pc = th[s].pc /\ q[s].list = th[s].list /\ q[s].out = th[s].out
  <2> DEFINE r == th[s]
             closed == IF s = t /\ th[t].out # None THEN TRUE ELSE r.closed
             waiting == IF s = t THEN FALSE ELSE r.waiting
             cancelled == IF s = th[t].from THEN TRUE ELSE r.cancelled
  <2>1. r \in Thread /\ Fit(r)
    BY Same
  <2>2. q[s] = [r EXCEPT !.closed = closed, !.waiting = waiting, !.cancelled = cancelled]
    BY <1>1
  <2>3. closed \in BOOLEAN /\ waiting \in BOOLEAN /\ cancelled \in BOOLEAN
    BY <2>1 DEF Thread
  <2>4. closed = (r.closed \/ (s = t /\ th[t].out # None))
    BY <2>1 DEF Thread
  <2> HIDE DEF r, closed, waiting, cancelled
  <2>5. q[s] \in Thread
    BY <2>1, <2>2, <2>3, ZenonT(60) DEF Thread
  <2>6. /\ q[s].pc = r.pc /\ q[s].role = r.role /\ q[s].parent = r.parent /\ q[s].proc = r.proc
        /\ q[s].ref = r.ref /\ q[s].agenda = r.agenda /\ q[s].done = r.done
        /\ q[s].closed = closed /\ q[s].out = r.out /\ q[s].substs = r.substs /\ q[s].over = r.over
        /\ q[s].started = r.started /\ q[s].source = r.source /\ q[s].job = r.job /\ q[s].list = r.list
    BY <2>1, <2>2 DEF Thread
  <2>7. closed = r.closed \/ (closed /\ r.out # None)
    BY <2>4 DEF r, closed
  <2>8. Follows(r, q[s]) /\ Waiting(r, q[s])
    BY <2>1, <2>5, <2>6, <2>7, Minor
  <2> QED BY <2>4, <2>5, <2>6, <2>8 DEF r
<1>3. q \in [Threads -> Thread]
  BY <1>1, <1>2
<1> QED BY <1>2, <1>3 DEF q

\* A change of one thread that no other waits for.
LEMMA MinorFits ==
  ASSUME TreeInv, NEW w \in Threads, NEW me, Follows(th[w], me), Waiting(th[w], me)
  PROVE  LET q == [th EXCEPT ![w] = me]
         IN  /\ q \in [Threads -> Thread]
             /\ \A s \in Threads : Follows(th[s], q[s]) /\ Waiting(th[s], q[s])
             /\ q[w] = me /\ \A s \in Threads \ {w} : q[s] = th[s]
<1> DEFINE q == [th EXCEPT ![w] = me]
<1>1. th \in [Threads -> Thread] /\ me \in Thread
  BY DEF TreeInv, TypeOK, Follows
<1>2. q \in [Threads -> Thread] /\ q[w] = me /\ \A s \in Threads \ {w} : q[s] = th[s]
  BY <1>1
<1> QED BY <1>2, Same

\* The end of a thread, and next of a channel.
LEMMA ChannelSteps ==
  ASSUME TreeInv, left' \in Int, NEW t \in Threads
  PROVE  ReadNext(t) \/ FinishOne(t) \/ Release(t) => TreeInv'
<1>0. th[t] \in Thread /\ Fit(th[t]) /\ (th[t].role = "main" <=> t = Main) /\ th \in [Threads -> Thread]
  BY Same DEF TreeInv, AllFit, TypeOK
<1>1. ASSUME Release(t) PROVE TreeInv'
  <2> DEFINE q == Released(th, t)
             r == q[t]
             me == [r EXCEPT !.pc = "released"]
  <2>1. th[t].pc = "finish" /\ th[t].list = {} /\ th' = [q EXCEPT ![t].pc = "released"] /\ UNCHANGED born
    BY <1>1 DEF Release, At
  <2>2. /\ q \in [Threads -> Thread]
        /\ \A s \in Threads : Follows(th[s], q[s]) /\ Waiting(th[s], q[s])
        /\ r.closed = (th[t].closed \/ th[t].out # None)
        /\ r.pc = "finish" /\ r.list = {} /\ r.out = th[t].out
    BY <2>1, ReleasedFits
  <2>3. th' = [q EXCEPT ![t] = me]
    BY <2>1
  <2> HIDE DEF q
  <2>4. r \in Thread /\ Fit(r) /\ (r.out # None => r.closed)
    BY <2>2 DEF Follows
  <2> HIDE DEF r
  <2>5. me \in Thread
    BY <2>4 DEF Thread, Pcs
  <2>6. /\ me.pc = "released" /\ me.role = r.role /\ me.parent = r.parent /\ me.proc = r.proc
        /\ me.agenda = r.agenda /\ me.done = r.done /\ me.closed = r.closed /\ me.out = r.out
        /\ me.substs = r.substs /\ me.over = r.over
    BY <2>4 DEF Thread
  <2> HIDE DEF me
  <2>7. Fit(me)
    BY <2>2, <2>4, <2>6 DEF Fit, Leavers, Gone
  <2>8. Follows(r, me) /\ Waiting(r, me)
    BY <2>2, <2>5, <2>6, <2>7 DEF Follows, Waiting, Kept, Held, Gone
  <2> QED BY <2>1, <2>2, <2>3, <2>8, MovingAlso DEF r
<1>2. ASSUME FinishOne(t) PROVE TreeInv'
  <2>1. PICK c \in Newest(th[t].list) : th' = [th EXCEPT ![c].cancelled = TRUE, ![t].pc = "finish wait"]
    BY <1>2 DEF FinishOne
  <2>2. c \in Threads /\ th[t].pc = "finish" /\ UNCHANGED born
    BY <1>0, <1>2 DEF FinishOne, Newest, At, Thread
  <2> DEFINE mid == [th[c] EXCEPT !.cancelled = TRUE]
             q == [th EXCEPT ![c] = mid]
             r == q[t]
             me == [r EXCEPT !.pc = "finish wait"]
  <2>3. Follows(th[c], mid) /\ Waiting(th[c], mid)
    <3>1. th[c] \in Thread /\ Fit(th[c])
      BY <2>2, Same
    <3>2. mid \in Thread
      BY <3>1 DEF Thread
    <3> QED BY <3>1, <3>2, Minor, ZenonT(60) DEF Thread
  <2>4. th' = [q EXCEPT ![t] = me]
    BY <2>1
  <2>5. /\ q \in [Threads -> Thread]
        /\ \A s \in Threads : Follows(th[s], q[s]) /\ Waiting(th[s], q[s])
        /\ q[c] = mid /\ \A s \in Threads \ {c} : q[s] = th[s]
    <3> HIDE DEF mid
    <3> QED BY <2>2, <2>3, MinorFits
  <2>6. r \in Thread /\ Fit(r) /\ r.pc = "finish"
    <3>1. r.pc = "finish"
      BY <1>0, <2>2, <2>5 DEF Thread
    <3> QED BY <2>5, <3>1 DEF Follows
  <2> HIDE DEF q, r
  <2>7. me \in Thread
    BY <2>6 DEF Thread, Pcs
  <2>8. /\ me.pc = "finish wait" /\ me.role = r.role /\ me.parent = r.parent /\ me.proc = r.proc
        /\ me.agenda = r.agenda /\ me.done = r.done /\ me.closed = r.closed /\ me.out = r.out
        /\ me.substs = r.substs /\ me.over = r.over /\ me.list = r.list
    BY <2>6 DEF Thread
  <2> HIDE DEF me
  <2>9. Fit(me)
    BY <2>6, <2>8 DEF Fit, Leavers, Gone
  <2>10. Follows(r, me) /\ Waiting(r, me)
    BY <2>6, <2>7, <2>8, <2>9 DEF Follows, Waiting, Kept, Held, Gone
  <2> QED BY <2>2, <2>4, <2>5, <2>10, MovingAlso DEF r
<1>3. ASSUME ReadNext(t) PROVE TreeInv'
  <2>0. th[t].pc = "read" /\ UNCHANGED born
    BY <1>3 DEF ReadNext, At
  <2>1. CASE th' = [th EXCEPT ![t].pc = "command"]
    <3>1. Becomes(t, [th[t] EXCEPT !.pc = "command"])
      BY <2>0, <2>1 DEF Becomes
    <3> QED BY <1>0, <2>0, <3>1, Goes, Becoming DEF Plain
  <2>2. ASSUME NEW w \in Threads, th' = [th EXCEPT ![w].n = @ - 1, ![w].waiting = FALSE, ![t].pc = "command"]
        PROVE  TreeInv'
    <3> DEFINE mid == [th[w] EXCEPT !.n = th[w].n - 1, !.waiting = FALSE]
               q == [th EXCEPT ![w] = mid]
               r == q[t]
               me == [r EXCEPT !.pc = "command"]
    <3>1. Follows(th[w], mid) /\ Waiting(th[w], mid)
      <4>1. th[w] \in Thread /\ Fit(th[w])
        BY Same
      <4>2. th[w].n - 1 \in Int
        BY <4>1 DEF Thread
      <4>3. \A k \in Int : [th[w] EXCEPT !.n = k, !.waiting = FALSE] \in Thread
        BY <4>1 DEF Thread
      <4>4. mid \in Thread
        BY <4>2, <4>3
      <4> QED BY <4>1, <4>4, Minor, ZenonT(60) DEF Thread
    <3>2. th' = [q EXCEPT ![t] = me]
      BY <1>0, <2>2
    <3>3. /\ q \in [Threads -> Thread]
          /\ \A s \in Threads : Follows(th[s], q[s]) /\ Waiting(th[s], q[s])
          /\ q[w] = mid /\ \A s \in Threads \ {w} : q[s] = th[s]
      <4> HIDE DEF mid
      <4> QED BY <3>1, MinorFits
    <3>4. r \in Thread /\ Fit(r) /\ r.pc = "read"
      <4>1. r.pc = "read"
        BY <1>0, <2>0, <3>3 DEF Thread
      <4> QED BY <3>3, <4>1 DEF Follows
    <3> HIDE DEF q, r
    <3>5. Follows(r, me) /\ Waiting(r, me)
      BY <3>4, Goes DEF Plain
    <3> QED BY <2>0, <3>2, <3>3, <3>5, MovingAlso DEF r
  <2> QED BY <1>3, <2>1, <2>2 DEF ReadNext, Writers
<1> QED BY <1>1, <1>2, <1>3

\* What is left to do for kill, as a sequence.
LEMMA OrderTypes ==
  /\ \A m \in Threads : StopOne(m) \in Seq(Orders) /\ <<<<"flag", m>>>> \in Seq(Orders)
  /\ \A ms \in Seq(Threads) : Stops(ms) \in Seq(Orders)
  /\ \A ms \in SUBSET Threads : StopSubst(ms) \in Seq(Orders)
<1>1. ASSUME NEW m \in Threads PROVE StopOne(m) \in Seq(Orders) /\ <<<<"flag", m>>>> \in Seq(Orders)
  <2>1. \A op \in {"flag", "term", "release", "members", "substs"} : <<op, m>> \in Orders
    BY DEF Orders
  <2> HIDE DEF Orders
  <2> QED BY <2>1 DEF StopOne
<1>2. ASSUME NEW ms \in Seq(Threads) PROVE Stops(ms) \in Seq(Orders)
  <2>1. \A i \in 1 .. Len(ms) : <<"flag", ms[i]>> \in Orders
    BY DEF Orders
  <2>2. Stops(ms) = [i \in 1 .. Len(ms) |-> <<"flag", ms[i]>>] /\ Len(ms) \in Nat
    BY DEF Stops
  <2> QED BY <2>1, <2>2
<1>3. ASSUME NEW ms \in SUBSET Threads PROVE StopSubst(ms) \in Seq(Orders)
  <2>1. <<"cancel", ms>> \in Orders
    BY DEF Orders
  <2> QED BY <2>1 DEF StopSubst
<1> QED BY <1>1, <1>2, <1>3

\* A step of kill: m is changed, and what is left to do.
LEMMA Stopping ==
  ASSUME TreeInv, left' \in Int, born' = born, NEW t \in Threads, th[t].pc = "kill",
         NEW q \in [Threads -> Thread], q[t].pc = "kill", NEW agenda \in Seq(Orders),
         \A s \in Threads : Follows(th[s], q[s]) /\ Waiting(th[s], q[s]),
         th' = [q EXCEPT ![t].agenda = agenda]
  PROVE  TreeInv'
<1> DEFINE r == q[t]
           me == [r EXCEPT !.agenda = agenda]
<1>1. r \in Thread /\ Fit(r) /\ r.pc = "kill"
  BY DEF Follows
<1>2. th' = [q EXCEPT ![t] = me]
  OBVIOUS
<1> HIDE DEF r
<1>3. me \in Thread
  BY <1>1 DEF Thread
<1>4. /\ me.pc = "kill" /\ me.role = r.role /\ me.parent = r.parent /\ me.proc = r.proc
      /\ me.done = r.done /\ me.closed = r.closed /\ me.out = r.out /\ me.job = r.job
      /\ me.substs = r.substs /\ me.over = r.over
  BY <1>1 DEF Thread
<1> HIDE DEF me
<1>5. Fit(me)
  BY <1>1, <1>4 DEF Fit, Leavers, Gone
<1>6. Follows(r, me) /\ Waiting(r, me)
  BY <1>1, <1>3, <1>4, <1>5 DEF Follows, Waiting, Kept, Held, Gone
<1> QED BY <1>2, <1>6, MovingAlso DEF r

\* kill keeps the invariant (vproc_stop, job_kill).
LEMMA KillSteps ==
  ASSUME TreeInv, left' \in Int, NEW t \in Threads
  PROVE  KillStep(t) \/ KillEnds(t) => TreeInv'
<1>0. th[t] \in Thread /\ Fit(th[t]) /\ th \in [Threads -> Thread]
  BY Same DEF TreeInv, TypeOK
<1>1. ASSUME KillStep(t) PROVE TreeInv'
  <2> DEFINE op == th[t].agenda[1][1]
             m == th[t].agenda[1][2]
             rest == Tail(th[t].agenda)
  <2>1. th[t].pc = "kill" /\ born' = born
    BY <1>1 DEF KillStep, At
  <2>2. th[t].agenda[1] \in Orders /\ rest \in Seq(Orders)
    <3>1. th[t].agenda \in Seq(Orders) /\ th[t].agenda # <<>>
      BY <1>0, <1>1 DEF KillStep, Thread
    <3> QED BY <3>1, HeadTailProperties, EmptySeq
  <2>3. (op # "cancel" => m \in Threads) /\ (op = "cancel" => m \in SUBSET Threads)
    BY <2>2 DEF Orders
  <2>4. /\ op = "flag" => th' = [th EXCEPT ![m].killed = TRUE, ![t].agenda = StopOne(m) \o rest]
        /\ op = "term" => th' = [th EXCEPT ![m].term = @ \/ th[m].ref, ![t].agenda = rest]
        /\ op = "release" => th' = [Released(th, m) EXCEPT ![t].agenda = rest]
        /\ op = "cancel" => \E c \in Newest(m) :
             th' = [th EXCEPT ![c].cancelled = TRUE,
                              ![t].agenda = <<<<"flag", c>>>> \o StopSubst(m \ {c}) \o rest]
        /\ op = "members" => th' = [th EXCEPT ![m].members = <<>>, ![t].agenda = Stops(th[m].members) \o rest]
        /\ op = "substs" => th' = [th EXCEPT ![t].agenda = StopSubst(th[m].substs) \o rest]
        /\ op \in {"flag", "term", "release", "cancel", "members", "substs"}
    BY <1>1 DEF KillStep
  <2> HIDE DEF op, m, rest
  <2>5. ASSUME NEW s \in Threads, NEW mid \in Thread,
               mid.pc = th[s].pc, mid.role = th[s].role, mid.parent = th[s].parent, mid.proc = th[s].proc,
               mid.ref = th[s].ref, mid.agenda = th[s].agenda, mid.done = th[s].done, mid.closed = th[s].closed,
               mid.out = th[s].out, mid.substs = th[s].substs, mid.over = th[s].over, mid.started = th[s].started,
               mid.source = th[s].source, mid.job = th[s].job, mid.list = th[s].list,
               NEW agenda \in Seq(Orders), th' = [[th EXCEPT ![s] = mid] EXCEPT ![t].agenda = agenda]
        PROVE  TreeInv'
    <3> DEFINE q == [th EXCEPT ![s] = mid]
    <3>1. Follows(th[s], mid) /\ Waiting(th[s], mid)
      BY <2>5, Same, Minor
    <3>2. /\ q \in [Threads -> Thread]
          /\ \A k \in Threads : Follows(th[k], q[k]) /\ Waiting(th[k], q[k])
          /\ q[s] = mid /\ \A k \in Threads \ {s} : q[k] = th[k]
      BY <3>1, MinorFits
    <3>3. q[t].pc = "kill"
      BY <2>1, <2>5, <3>2
    <3> HIDE DEF q
    <3> QED BY <2>1, <2>5, <3>2, <3>3, Stopping DEF q
  <2>6. CASE op = "flag"
    <3> DEFINE mid == [th[m] EXCEPT !.killed = TRUE]
    <3>1. m \in Threads /\ th[m] \in Thread
      BY <2>3, <2>6, Same
    <3>2. mid \in Thread
      BY <3>1 DEF Thread
    <3>3. StopOne(m) \o rest \in Seq(Orders)
      BY <2>2, <3>1, OrderTypes, ConcatProperties
    <3>4. th' = [[th EXCEPT ![m] = mid] EXCEPT ![t].agenda = StopOne(m) \o rest]
      BY <2>4, <2>6
    <3> QED BY <2>5, <3>1, <3>2, <3>3, <3>4 DEF Thread
  <2>7. CASE op = "term"
    <3> DEFINE term == th[m].term \/ th[m].ref
               mid == [th[m] EXCEPT !.term = term]
    <3>1. m \in Threads /\ th[m] \in Thread
      BY <2>3, <2>7, Same
    <3>2. mid \in Thread
      <4>1. term \in BOOLEAN
        OBVIOUS
      <4> HIDE DEF term
      <4> QED BY <3>1, <4>1 DEF Thread
    <3>4. th' = [[th EXCEPT ![m] = mid] EXCEPT ![t].agenda = rest]
      BY <2>4, <2>7
    <3> QED BY <2>2, <2>5, <3>1, <3>2, <3>4, ZenonT(60) DEF Thread
  <2>8. CASE op = "release"
    <3> DEFINE q == Released(th, m)
    <3>1. m \in Threads
      BY <2>3, <2>8
    <3>2. q \in [Threads -> Thread] /\ \A s \in Threads : Follows(th[s], q[s]) /\ Waiting(th[s], q[s])
      BY <3>1, ReleasedFits
    <3>3. q[t].pc = "kill"
      BY <1>0, <2>1 DEF Released, Thread
    <3>4. th' = [q EXCEPT ![t].agenda = rest]
      BY <2>4, <2>8
    <3> HIDE DEF q
    <3> QED BY <2>1, <2>2, <3>2, <3>3, <3>4, Stopping
  <2>9. CASE op = "cancel"
    <3>1. PICK c \in Newest(m) :
             th' = [th EXCEPT ![c].cancelled = TRUE,
                              ![t].agenda = <<<<"flag", c>>>> \o StopSubst(m \ {c}) \o rest]
      BY <2>4, <2>9
    <3> DEFINE mid == [th[c] EXCEPT !.cancelled = TRUE]
               agenda == <<<<"flag", c>>>> \o StopSubst(m \ {c}) \o rest
    <3>2. c \in Threads /\ th[c] \in Thread /\ m \ {c} \in SUBSET Threads
      BY <2>3, <2>9, Same DEF Newest
    <3>3. mid \in Thread
      BY <3>2 DEF Thread
    <3>4. agenda \in Seq(Orders)
      BY <2>2, <3>2, OrderTypes, ConcatProperties
    <3>5. th' = [[th EXCEPT ![c] = mid] EXCEPT ![t].agenda = agenda]
      BY <3>1
    <3> HIDE DEF agenda
    <3> QED BY <2>5, <3>2, <3>3, <3>4, <3>5 DEF Thread
  <2>10. CASE op = "members"
    <3> DEFINE mid == [th[m] EXCEPT !.members = <<>>]
               agenda == Stops(th[m].members) \o rest
    <3>1. m \in Threads /\ th[m] \in Thread
      BY <2>3, <2>10, Same
    <3>2. mid \in Thread /\ th[m].members \in Seq(Threads)
      <4>1. <<>> \in Seq(Threads)
        OBVIOUS
      <4> QED BY <3>1, <4>1 DEF Thread
    <3>3. agenda \in Seq(Orders)
      BY <2>2, <3>2, OrderTypes, ConcatProperties
    <3>4. th' = [[th EXCEPT ![m] = mid] EXCEPT ![t].agenda = agenda]
      BY <2>4, <2>10
    <3> HIDE DEF agenda
    <3> QED BY <2>5, <3>1, <3>2, <3>3, <3>4 DEF Thread
  <2>11. CASE op = "substs"
    <3> DEFINE agenda == StopSubst(th[m].substs) \o rest
    <3>1. m \in Threads /\ th[m].substs \in SUBSET Threads
      BY <2>3, <2>11, Same DEF Thread
    <3>2. agenda \in Seq(Orders)
      BY <2>2, <3>1, OrderTypes, ConcatProperties
    <3>3. th' = [th EXCEPT ![t].agenda = agenda]
      BY <2>4, <2>11
    <3> HIDE DEF agenda
    <3> QED BY <1>0, <2>1, <3>2, <3>3, Same, Stopping
  <2> QED BY <2>4, <2>6, <2>7, <2>8, <2>9, <2>10, <2>11
<1>2. ASSUME KillEnds(t) PROVE TreeInv'
  <2> DEFINE j == th[t].job
             mid == Settling(th[t])
             q == [th EXCEPT ![t] = mid]
             r == q[j]
             value == IF th[j].value = "pending" THEN "made" ELSE th[j].value
             me == [r EXCEPT !.value = value]
  <2>1. th[t].pc = "kill" /\ th[t].agenda = <<>> /\ UNCHANGED born /\ j \in Threads
    BY <1>0, <1>2 DEF KillEnds, At, Fit
  <2>2. Follows(th[t], mid) /\ Waiting(th[t], mid)
    BY <1>0, <2>1, Settles DEF Held
  <2>3. th' = [q EXCEPT ![j] = me]
    BY <1>2 DEF KillEnds
  <2>4. /\ q \in [Threads -> Thread]
        /\ \A s \in Threads : Follows(th[s], q[s]) /\ Waiting(th[s], q[s])
    <3> HIDE DEF mid
    <3> QED BY <2>2, MinorFits
  <2> HIDE DEF q
  <2>5. r \in Thread /\ Fit(r)
    BY <2>1, <2>4 DEF Follows
  <2> HIDE DEF r
  <2>6. value \in Values
    BY <2>1, Same DEF Thread, Values
  <2> HIDE DEF value
  <2>7. me \in Thread
    BY <2>5, <2>6 DEF Thread
  <2>8. Follows(r, me) /\ Waiting(r, me)
    BY <2>5, <2>7, Minor DEF Thread
  <2> HIDE DEF me
  <2> QED BY <2>1, <2>3, <2>4, <2>8, MovingAlso DEF r
<1> QED BY <1>1, <1>2

----------------------------------------------------------------------------
(***************************************************************************)
(* Starts.                                                                 *)
(***************************************************************************)

\* sh_child.
LEMMA ChildFits ==
  ASSUME NEW t \in Threads, NEW role \in Roles \ {"main"}, NEW out \in Maybe, NEW from \in Maybe, NEW value \in Values
  PROVE  LET child == Child(t, role, out, from, value)
         IN  /\ child \in Thread /\ Fit(child)
             /\ child.role = role /\ child.parent = t /\ child.pc \in {"stmt", "words"}
             /\ child.over = {} /\ child.substs = {}
<1> DEFINE child == Child(t, role, out, from, value)
           p == IF role = "subst" THEN "stmt" ELSE "words"
<1>1. Blank \in Thread
  BY DEF Thread, Blank, Pcs, Roles, Procs, Values, Maybe, None
<1>2. child = [Blank EXCEPT !.pc = p, !.role = role, !.parent = t, !.out = out, !.from = from, !.value = value]
  BY DEF Child
<1>3. p \in Pcs /\ p \in {"stmt", "words"} /\ t \in Maybe /\ role \in Roles
  BY DEF Pcs, Maybe
<1> HIDE DEF child, p
<1>4. child \in Thread
  BY <1>1, <1>2, <1>3 DEF Thread
<1>5. /\ child.pc = p /\ child.role = role /\ child.parent = t /\ child.proc = "none" /\ child.agenda = <<>>
      /\ ~child.done /\ ~child.closed /\ child.substs = {} /\ child.over = {}
  BY <1>1, <1>2 DEF Thread, Blank
<1>6. Fit(child)
  BY <1>3, <1>5 DEF Fit, Leavers, Gone
<1> QED BY <1>3, <1>4, <1>5, <1>6 DEF child

\* sh_start.
LEMMA Beginning ==
  ASSUME TreeInv, left' \in Int, NEW t \in Threads, NEW me \in Thread, NEW child \in Thread,
         Starts(t, me, child), New \in Threads,
         born + 1 + Cardinality(Starting') <= MaxThreads,
         ~At(t, "free"), ~At(t, "flag"), ~At(t, "finished"), me.pc # "free",
         Fit(me), me.role = th[t].role, me.parent = th[t].parent, th[t].done => me.done, Waiting(th[t], me),
         Fit(child), child.role # "main", child.parent = t, child.pc \in {"stmt", "words"}, child.over = {},
         child.role = "subst" => New \in Kept(me),
         child.role = "element" => New \in Held(me)
  PROVE  TreeInv'
<1>0. /\ th \in [Threads -> Thread] /\ born \in Nat \ {0}
      /\ \A s \in Threads : Fit(th[s]) /\ (th[s].role = "main" <=> s = Main)
      /\ \A s \in Threads : (s > born <=> th[s].pc = "free") /\ th[s].parent <= born
      /\ MaxThreads \in Nat
  BY Bounds DEF TreeInv, TypeOK, AllFit, InOrder, At
<1>1. th' = [th EXCEPT ![t] = me, ![New] = child] /\ born' = New
  BY DEF Starts
<1>2. New = born + 1 /\ t <= born /\ t # New /\ New # Main /\ t \in Int /\ New \in Int /\ th[New].pc = "free"
  BY <1>0 DEF New, At, Threads, Main
<1>3. /\ th' \in [Threads -> Thread] /\ th'[t] = me /\ th'[New] = child
      /\ \A s \in Threads \ {t, New} : th'[s] = th[s]
  BY <1>0, <1>1, <1>2
<1>4. TypeOK'
  BY <1>0, <1>1, <1>2, <1>3 DEF TypeOK
<1>5. AllFit'
  BY <1>0, <1>2, <1>3 DEF AllFit
<1>6. InOrder'
  <2>1. ASSUME NEW s \in Threads PROVE (s > born' <=> th'[s].pc = "free") /\ th'[s].parent <= born'
    <3>0. s \in Int /\ (s > born <=> th[s].pc = "free") /\ th[s].parent <= born /\ th[s].parent \in Int
      <4>1. th[s].parent \in Maybe
        BY <1>0 DEF Thread
      <4> QED BY <1>0, <4>1 DEF Threads, Maybe, None
    <3>1. CASE s = New
      <4>1. th'[s].pc # "free" /\ th'[s].parent = t
        BY <1>3, <3>1
      <4>2. ~(s > born') /\ t <= born'
        BY <1>0, <1>1, <1>2, <3>1
      <4> QED BY <4>1, <4>2
    <3>2. CASE s = t
      BY <1>0, <1>1, <1>2, <1>3, <3>0, <3>2
    <3>3. CASE s # New /\ s # t
      BY <1>0, <1>1, <1>2, <1>3, <3>0, <3>3
    <3> QED BY <3>1, <3>2, <3>3
  <2> QED BY <1>1, <1>2, <2>1 DEF InOrder, At
<1>7. Family'
  <2> SUFFICES ASSUME NEW s \in Threads
               PROVE  /\ Children(s, "subst")' \subseteq Kept(th'[s])
                      /\ Children(s, "element")' \subseteq Held(th'[s])
                      /\ \A c \in th'[s].over : th'[c].done
    BY DEF Family
  <2>0. /\ Children(s, "subst") \subseteq Kept(th[s]) /\ Children(s, "element") \subseteq Held(th[s])
        /\ \A c \in th[s].over : th[c].done
    BY DEF TreeInv, Family
  <2>1. \A c \in Threads \ {New} : /\ th'[c].parent = th[c].parent /\ th'[c].role = th[c].role
                                   /\ th[c].pc \in Gone => th'[c].pc \in Gone
                                   /\ th[c].done => th'[c].done
    BY <1>2, <1>3 DEF Gone, At
  <2>2. CASE s = New
    <3>1. \A c \in Threads : th'[c].parent # s
      <4>1. \A c \in Threads : th[c].parent # s
        BY <1>0, <1>2, <2>2, SMTT(30) DEF Thread, Maybe, None, Threads
      <4> QED BY <1>2, <1>3, <2>1, <2>2, <4>1
    <3>2. Children(s, "subst")' = {} /\ Children(s, "element")' = {}
      BY <3>1 DEF Children
    <3>3. th'[s].over = {}
      BY <1>3, <2>2
    <3> QED BY <3>2, <3>3
  <2>3. CASE s # New
    <3>1. \A role : Children(s, role)' \subseteq (Children(s, role) \ Ended)
                                                   \cup {c \in {New} : s = t /\ child.role = role}
      BY <1>2, <1>3, <2>1 DEF Children, Ended
    <3>2. \A c \in th'[s].over : th'[c].done
      <4> SUFFICES ASSUME NEW c \in th'[s].over PROVE th'[c].done
        OBVIOUS
      <4>1. c \in Threads
        BY <1>3 DEF Thread
      <4>2. th[c].done
        BY <1>3, <2>0, <2>3, <4>1 DEF Waiting, Done
      <4>3. c # New
        BY <1>0, <1>2, <4>2 DEF Fit, Gone
      <4> QED BY <2>1, <4>1, <4>2, <4>3
    <3>3. CASE s = t
      BY <1>3, <2>0, <3>1, <3>2, <3>3 DEF Waiting
    <3>4. CASE s # t
      BY <1>3, <2>0, <2>3, <3>1, <3>2, <3>4
    <3> QED BY <3>3, <3>4
  <2> QED BY <2>2, <2>3
<1> QED BY <1>4, <1>5, <1>6, <1>7 DEF TreeInv

\* The room that the bound leaves.
LEMMA Room ==
  ASSUME TreeInv
  PROVE  /\ Cardinality(Starting) \in Nat /\ IsFiniteSet(Starting)
         /\ Left = MaxThreads - born - Cardinality(Starting)
         /\ born \in Nat \ {0} /\ MaxThreads \in Nat
         /\ born + Cardinality(Starting) <= MaxThreads
<1>1. IsFiniteSet(Starting)
  BY Finite, FS_Subset DEF Starting
<1>2. Cardinality(Starting) \in Nat
  BY <1>1, FS_CardinalityType
<1> QED BY <1>1, <1>2, Bounds DEF Left, Starting, TreeInv, TypeOK, InOrder

\* A thread that is at the start of a pipeline has room for its last element.
LEMMA Roomy ==
  ASSUME TreeInv, NEW t \in Threads, Left >= 1 \/ t \in Starting
  PROVE  New \in Threads
<1> DEFINE room == Cardinality(Starting)
<1>1. /\ room \in Nat /\ Left = MaxThreads - born - room /\ born \in Nat \ {0} /\ MaxThreads \in Nat
      /\ born + room <= MaxThreads
  BY Room
<1>2. room # 0 \/ Left >= 1
  BY Room, FS_EmptySet
<1> HIDE DEF room
<1>3. born + 1 <= MaxThreads
  BY <1>1, <1>2
<1> QED BY <1>1, <1>3 DEF New, Threads

\* Who has started the first element only, after a start.
LEMMA StartingNext ==
  ASSUME TreeInv, NEW t \in Threads, NEW me, NEW child, New \in Threads, ~At(t, "free"),
         Starts(t, me, child), child.pc \in {"stmt", "words"}
  PROVE  Starting' = IF me.pc = "pipe start" THEN Starting \cup {t} ELSE Starting \ {t}
<1>1. th \in [Threads -> Thread] /\ th[New].pc = "free" /\ t # New
  <2>1. New > born
    BY Room DEF New
  <2> QED BY <2>1 DEF TreeInv, TypeOK, InOrder, At
<1>2. th' = [th EXCEPT ![t] = me, ![New] = child]
  BY DEF Starts
<1>3. th'[New] = child /\ th'[t] = me /\ \A s \in Threads \ {t, New} : th'[s] = th[s]
  BY <1>1, <1>2
<1>4. \A s \in Threads : th'[s].pc = "pipe start" <=> IF s = t THEN me.pc = "pipe start" ELSE th[s].pc = "pipe start"
  BY <1>1, <1>3
<1> QED BY <1>4 DEF Starting, At

LEMMA Appended ==
  ASSUME NEW S, NEW s \in Seq(S), NEW x \in S
  PROVE  Append(s, x) \in Seq(S) /\ ToSet(Append(s, x)) = ToSet(s) \cup {x}
<1> DEFINE a == Append(s, x)
<1>1. /\ a \in Seq(S) /\ Len(a) = Len(s) + 1 /\ a[Len(s) + 1] = x
      /\ \A i \in 1 .. Len(s) : a[i] = s[i]
  BY AppendProperties
<1>2. DOMAIN a = 1 .. Len(s) + 1 /\ DOMAIN s = 1 .. Len(s) /\ Len(s) \in Nat
  BY <1>1
<1> HIDE DEF a
<1>3. DOMAIN a = DOMAIN s \cup {Len(s) + 1}
  BY <1>2
<1> QED BY <1>1, <1>2, <1>3 DEF ToSet, a

\* The operations that start a thread keep the invariant (eval_subst,
\* sh_pipe_parts, sh_background).
LEMMA StartSteps ==
  ASSUME TreeInv, left' \in Int, NEW t \in Threads
  PROVE  EvalSubst(t) \/ EvalBg(t) \/ EvalPipe(t) \/ PipeStartLast(t) => TreeInv'
<1> DEFINE r == th[t]
<1>0. r \in Thread /\ Fit(r) /\ r.role \in Roles /\ r.out \in Maybe /\ New \in Int
  BY Same, Room DEF Thread, New
<1>1. ASSUME EvalSubst(t) PROVE TreeInv'
  <2> DEFINE me == [Go(t, "push") EXCEPT !.source = New]
             child == Child(t, "subst", New, None, "none")
  <2>1. r.pc = "words" /\ Left >= 1 /\ Starts(t, me, child)
    BY <1>1 DEF EvalSubst, At
  <2>2. New \in Threads
    BY <2>1, Roomy
  <2>3. /\ child \in Thread /\ Fit(child) /\ child.role = "subst" /\ child.parent = t
        /\ child.pc \in {"stmt", "words"} /\ child.over = {}
    BY <2>2, ChildFits DEF Roles, Maybe, Values
  <2>4. me = [r EXCEPT !.pc = "push", !.source = New]
    BY <1>0 DEF Go
  <2> HIDE DEF me, child, r
  <2>5. me \in Thread
    BY <1>0, <2>2, <2>4, ZenonT(60) DEF Thread, Pcs, Maybe
  <2>6. /\ me.pc = "push" /\ me.role = r.role /\ me.parent = r.parent /\ me.proc = r.proc
        /\ me.agenda = r.agenda /\ me.done = r.done /\ me.closed = r.closed /\ me.out = r.out
        /\ me.substs = r.substs /\ me.over = r.over /\ me.source = New
    BY <1>0, <2>4 DEF Thread
  <2>7. r.proc = "none" /\ r.agenda = <<>> /\ ~r.done
    BY <1>0, <2>1 DEF Fit, Gone
  <2>8. Fit(me)
    BY <1>0, <2>1, <2>2, <2>6, <2>7 DEF Fit, Leavers, Gone
  <2>9. Waiting(r, me) /\ New \in Kept(me)
    BY <2>1, <2>6 DEF Waiting, Kept, Held
  <2>10. ~At(t, "free") /\ ~At(t, "flag") /\ ~At(t, "finished") /\ ~At(t, "pipe start")
    BY <2>1 DEF At, r
  <2>11. Starting' = Starting
    BY <2>1, <2>2, <2>3, <2>6, <2>10, StartingNext DEF Starting
  <2>12. born + 1 + Cardinality(Starting') <= MaxThreads
    BY <2>1, <2>11, Room
  <2> QED BY <2>1, <2>2, <2>3, <2>5, <2>6, <2>7, <2>8, <2>9, <2>10, <2>12, Beginning DEF r
<1>2. ASSUME EvalBg(t) PROVE TreeInv'
  <2>1. PICK value \in {"none"} \cup ({"pending"} \cap Ops) :
          Starts(t, Settling([r EXCEPT !.jobs = @ \cup {New}]),
                 Child(t, "job", IF value = "none" THEN r.out ELSE None, None, value))
    BY <1>2 DEF EvalBg
  <2> DEFINE mid == [r EXCEPT !.jobs = @ \cup {New}]
             me == Settling(mid)
             out == IF value = "none" THEN r.out ELSE None
             child == Child(t, "job", out, None, value)
  <2>2. r.pc = "stmt" /\ Left >= 1 /\ Starts(t, me, child)
    BY <1>2, <2>1 DEF EvalBg, Ready, At
  <2>3. New \in Threads /\ out \in Maybe /\ value \in Values /\ None \in Maybe
    BY <1>0, <2>2, Roomy DEF Maybe, Values
  <2>4. /\ child \in Thread /\ Fit(child) /\ child.role = "job" /\ child.parent = t
        /\ child.pc \in {"stmt", "words"} /\ child.over = {}
    <3> HIDE DEF out
    <3> QED BY <2>3, ChildFits DEF Roles
  <2>5. mid \in Thread
    BY <1>0, <2>3 DEF Thread
  <2>6. Fit(mid) /\ Follows(r, mid) /\ Waiting(r, mid) /\ mid.pc = "stmt" /\ mid.agenda = <<>>
    <3>1. r.agenda = <<>>
      BY <1>0, <2>2 DEF Fit
    <3> QED BY <1>0, <2>2, <2>5, <3>1, Minor DEF Thread
  <2> HIDE DEF mid, child, r
  <2>7. Follows(mid, me) /\ Waiting(mid, me)
    <3>1. Held(mid) = {} /\ mid.pc \in Plain
      BY <2>6 DEF Held, Plain
    <3> QED BY <2>5, <2>6, <3>1, Settles
  <2>8. Follows(r, me) /\ Waiting(r, me) /\ me.pc \in {"stmt", "settle"}
    <3>1. me.pc \in {"stmt", "settle"}
      BY <2>5 DEF Settling, Thread
    <3> QED BY <2>6, <2>7, <3>1, Twice
  <2>10. ~At(t, "free") /\ ~At(t, "flag") /\ ~At(t, "finished") /\ ~At(t, "pipe start")
    BY <2>2 DEF At, r
  <2> HIDE DEF me
  <2>11. Starting' = Starting
    BY <2>2, <2>3, <2>4, <2>8, <2>10, StartingNext DEF Starting
  <2>12. born + 1 + Cardinality(Starting') <= MaxThreads
    BY <2>2, <2>11, Room
  <2>13. me \in Thread /\ Fit(me) /\ me.role = r.role /\ me.parent = r.parent /\ (r.done => me.done) /\ me.pc # "free"
    BY <2>8 DEF Follows
  <2> QED BY <2>2, <2>3, <2>4, <2>8, <2>10, <2>12, <2>13, Beginning DEF r
<1>3. ASSUME EvalPipe(t) PROVE TreeInv'
  <2> DEFINE me == [Go(t, "pipe start") EXCEPT !.started = <<New>>]
             child == Child(t, "element", New, None, "none")
  <2>1. r.pc = "stmt" /\ Left >= 2 /\ Starts(t, me, child)
    BY <1>3 DEF EvalPipe, Ready, At
  <2>2. New \in Threads
    <3> HIDE DEF me
    <3>1. Left \in Int
      BY Room
    <3>2. Left >= 1
      BY <2>1, <3>1
    <3> QED BY <3>2, Roomy
  <2>3. /\ child \in Thread /\ Fit(child) /\ child.role = "element" /\ child.parent = t
        /\ child.pc \in {"stmt", "words"} /\ child.over = {}
    BY <2>2, ChildFits DEF Roles, Maybe, Values
  <2>4. me = [r EXCEPT !.pc = "pipe start", !.started = <<New>>]
    BY <1>0 DEF Go
  <2>5. me \in Thread
    <3>1. <<New>> \in Seq(Threads)
      BY <2>2
    <3> HIDE DEF me
    <3> QED BY <1>0, <2>4, <3>1 DEF Thread, Pcs
  <2> HIDE DEF me, child, r
  <2>6. /\ me.pc = "pipe start" /\ me.role = r.role /\ me.parent = r.parent /\ me.proc = r.proc
        /\ me.agenda = r.agenda /\ me.done = r.done /\ me.closed = r.closed /\ me.out = r.out
        /\ me.substs = r.substs /\ me.over = r.over /\ me.started = <<New>>
    BY <1>0, <2>4 DEF Thread
  <2>7. r.proc = "none" /\ r.agenda = <<>> /\ ~r.done
    BY <1>0, <2>1 DEF Fit, Gone
  <2>8. Fit(me)
    BY <1>0, <2>1, <2>6, <2>7 DEF Fit, Leavers, Gone
  <2>9. Waiting(r, me) /\ New \in Held(me)
    <3>1. New \in ToSet(<<New>>)
      BY DEF ToSet
    <3> QED BY <2>1, <2>6, <3>1 DEF Waiting, Kept, Held
  <2>10. ~At(t, "free") /\ ~At(t, "flag") /\ ~At(t, "finished") /\ t \notin Starting
    BY <2>1 DEF At, Starting, r
  <2>11. Starting' = Starting \cup {t}
    BY <2>1, <2>2, <2>3, <2>6, <2>10, StartingNext
  <2>12. Cardinality(Starting') = Cardinality(Starting) + 1
    BY <2>10, <2>11, Room, FS_AddElement
  <2>13. born + 1 + Cardinality(Starting') <= MaxThreads
    BY <2>1, <2>12, Room
  <2> QED BY <2>1, <2>2, <2>3, <2>5, <2>6, <2>7, <2>8, <2>9, <2>10, <2>13, Beginning DEF r
<1>4. ASSUME PipeStartLast(t) PROVE TreeInv'
  <2> DEFINE me == [Go(t, "pipe store") EXCEPT !.started = Append(@, New)]
             child == Child(t, "element", r.out, r.started[1], "none")
  <2>1. r.pc = "pipe start" /\ Starts(t, me, child)
    BY <1>4 DEF PipeStartLast, At
  <2>2. New \in Threads
    BY <1>4, Roomy DEF PipeStartLast, Starting
  <2>3. r.started \in Seq(Threads) /\ Len(r.started) = 1 /\ r.started[1] \in Threads
    <3>1. r.started \in Seq(Threads) /\ Len(r.started) = 1
      BY <1>0, <2>1 DEF Fit, Thread
    <3> QED BY <3>1
  <2>4. /\ child \in Thread /\ Fit(child) /\ child.role = "element" /\ child.parent = t
        /\ child.pc \in {"stmt", "words"} /\ child.over = {}
    <3>1. r.started[1] \in Maybe /\ "element" \in Roles \ {"main"} /\ "none" \in Values
      BY <2>3 DEF Maybe, Roles, Values
    <3> QED BY <1>0, <3>1, ChildFits
  <2>5. me = [r EXCEPT !.pc = "pipe store", !.started = Append(r.started, New)]
    BY <1>0 DEF Go, Thread
  <2>6. Append(r.started, New) \in Seq(Threads) /\ ToSet(Append(r.started, New)) = ToSet(r.started) \cup {New}
    BY <2>2, <2>3, Appended
  <2> HIDE DEF me, child, r
  <2>7. me \in Thread
    BY <1>0, <2>5, <2>6, ZenonT(60) DEF Thread, Pcs
  <2>8. /\ me.pc = "pipe store" /\ me.role = r.role /\ me.parent = r.parent /\ me.proc = r.proc
        /\ me.agenda = r.agenda /\ me.done = r.done /\ me.closed = r.closed /\ me.out = r.out
        /\ me.substs = r.substs /\ me.over = r.over /\ me.started = Append(r.started, New)
    BY <1>0, <2>5 DEF Thread
  <2>9. r.proc = "none" /\ r.agenda = <<>> /\ ~r.done
    BY <1>0, <2>1 DEF Fit, Gone
  <2>10. Fit(me)
    BY <1>0, <2>1, <2>8, <2>9 DEF Fit, Leavers, Gone
  <2>11. Waiting(r, me) /\ New \in Held(me)
    BY <2>1, <2>6, <2>8 DEF Waiting, Kept, Held
  <2>12. ~At(t, "free") /\ ~At(t, "flag") /\ ~At(t, "finished") /\ t \in Starting
    BY <2>1 DEF At, Starting, r
  <2>13. Starting' = Starting \ {t}
    BY <2>1, <2>2, <2>4, <2>8, <2>12, StartingNext
  <2>14. Cardinality(Starting') = Cardinality(Starting) - 1
    BY <2>12, <2>13, Room, FS_RemoveElement
  <2>15. born + 1 + Cardinality(Starting') <= MaxThreads
    BY <2>14, Room
  <2> QED BY <2>1, <2>2, <2>4, <2>7, <2>8, <2>9, <2>10, <2>11, <2>12, <2>15, Beginning DEF r
<1> QED BY <1>1, <1>2, <1>3, <1>4

----------------------------------------------------------------------------
(***************************************************************************)
(* The invariant, and what follows from it.                                *)
(***************************************************************************)
LEMMA TreeInit ==
  ASSUME Init
  PROVE  TreeInv
<1> DEFINE child == Child(None, "main", None, None, "none")
           main == [child EXCEPT !.pc = "stmt"]
<1>1. Blank \in Thread /\ Fit(Blank) /\ Blank.role # "main" /\ Blank.pc = "free" /\ Blank.parent = None /\ Blank.over = {}
  BY DEF Thread, Blank, Pcs, Roles, Procs, Values, Maybe, None, Fit, Leavers, Gone
<1>2. child = [Blank EXCEPT !.pc = "words", !.role = "main", !.parent = None, !.out = None, !.from = None, !.value = "none"]
  BY DEF Child
<1> HIDE DEF child
<1>3. /\ child \in Thread /\ child.role = "main" /\ child.parent = None /\ child.over = {}
      /\ child.proc = "none" /\ child.agenda = <<>> /\ ~child.done /\ ~child.closed
  <2>1. child \in Thread
    <3>1. "words" \in Pcs /\ "main" \in Roles /\ None \in Maybe /\ "none" \in Values
      BY DEF Pcs, Roles, Maybe, Values
    <3> QED BY <1>1, <1>2, <3>1 DEF Thread
  <2>2. child.role = "main" /\ child.parent = None
    BY <1>1, <1>2 DEF Thread
  <2>3. /\ child.over = Blank.over /\ child.proc = Blank.proc /\ child.agenda = Blank.agenda
        /\ child.done = Blank.done /\ child.closed = Blank.closed
    BY <1>1, <1>2 DEF Thread
  <2>4. Blank.proc = "none" /\ Blank.agenda = <<>> /\ ~Blank.done /\ ~Blank.closed
    BY DEF Blank
  <2> QED BY <1>1, <2>1, <2>2, <2>3, <2>4
<1> DEFINE same(me) == /\ me.role = "main" /\ me.parent = None /\ me.over = {}
                       /\ me.proc = "none" /\ me.agenda = <<>> /\ ~me.done /\ ~me.closed
<1>4. main \in Thread /\ main.pc = "stmt" /\ Fit(main) /\ same(main)
  <2>1. main \in Thread
    BY <1>3 DEF Thread, Pcs
  <2>2. main.pc = "stmt" /\ same(main)
    BY <1>3 DEF Thread
  <2> QED BY <2>1, <2>2 DEF Fit, Leavers, Gone
<1> HIDE DEF main
<1>5. /\ th = [t \in Threads |-> IF t = Main THEN main ELSE Blank] /\ born = Main /\ left = Statements
      /\ MaxThreads \in Nat \ {0} /\ Statements \in Nat /\ None \in Int
  BY Bounds DEF Init, main, child, None
<1>6. TypeOK
  BY <1>1, <1>4, <1>5 DEF TypeOK, Main
<1>7. AllFit
  BY <1>1, <1>4, <1>5 DEF AllFit
<1>8. InOrder
  <2>1. Starting = {}
    BY <1>1, <1>4, <1>5 DEF Starting, At
  <2>2. \A t \in Threads : (t > born <=> th[t].pc = "free") /\ th[t].parent = None
    BY <1>1, <1>4, <1>5 DEF Threads, Main
  <2>3. Cardinality(Starting) = 0
    BY <2>1, FS_EmptySet
  <2>4. born + 0 <= MaxThreads /\ None <= born
    BY <1>5 DEF Main, None
  <2> QED BY <2>2, <2>3, <2>4 DEF InOrder, At
<1>9. Family
  <2>1. \A t \in Threads : th[t].parent = None /\ th[t].over = {}
    BY <1>1, <1>4, <1>5
  <2>2. \A t \in Threads : t # None
    BY DEF Threads, None
  <2> QED BY <2>1, <2>2 DEF Family, Children
<1> QED BY <1>6, <1>7, <1>8, <1>9 DEF TreeInv

LEMMA TreeNext ==
  ASSUME TreeInv, [Next]_vars
  PROVE  TreeInv'
<1>1. CASE Next
  <2>1. left' \in Int
    BY <1>1 DEF Next, Step, TreeInv, TypeOK
  <2>2. PICK t \in Threads : Statement(t) \/ GoesOn(t) \/ CommandEnds(t)
    BY <1>1 DEF Next, Step
  <2> QED BY <2>1, <2>2, PlainSteps, CommandSteps, KeepSteps, EndSteps, ChannelSteps, KillSteps, StartSteps
          DEF Statement, GoesOn
<1>2. CASE UNCHANGED vars
  <2>1. th' \in [Threads -> Thread] /\ born' = born /\ left' \in Int /\ th' = th
    BY <1>2 DEF vars, TreeInv, TypeOK
  <2> QED BY <2>1, Same, Moving
<1> QED BY <1>1, <1>2

\* TreeFinishes, for every number of threads and of statements: what a thread
\* has waited for when it is finished.
THEOREM TreeDoesFinish == Spec => []TreeFinishes
<1>1. TreeInv => TreeFinishes
  <2> SUFFICES ASSUME TreeInv, NEW t \in Threads, NEW c \in Threads,
                      Finished(t), th[c].parent = t, th[c].role \in {"subst", "element"}
               PROVE  th[c].pc \in {"flag", "finished"} /\ th[c].closed = (th[c].out # None)
    BY DEF TreeFinishes
  <2>1. th[c] \in Thread /\ Fit(th[c]) /\ th[t] \in Thread /\ Fit(th[t])
    BY Same
  <2>2. Kept(th[t]) = {} /\ Held(th[t]) = {}
    BY <2>1 DEF Finished, Fit, Leavers, Gone, Kept, Held
  <2>3. th[c].pc \in Gone
    BY <2>2 DEF TreeInv, Family, Children
  <2>4. th[c].closed = (th[c].out # None)
    <3>1. th[c].closed <=> th[c].out # None
      BY <2>1, <2>3 DEF Fit
    <3>2. th[c].closed \in BOOLEAN
      BY <2>1 DEF Thread
    <3> QED BY <3>1, <3>2
  <2> QED BY <2>3, <2>4 DEF Gone
<1>2. Spec => []TreeInv
  BY TreeInit, TreeNext, PTL DEF Spec
<1> QED BY <1>1, <1>2, PTL

----------------------------------------------------------------------------
(***************************************************************************)
(* kill and the external commands.                                         *)
(***************************************************************************)
\* What the end of a statement and of a thread leaves alone.
LEMMA Alike ==
  ASSUME NEW r \in Thread
  PROVE  /\ LET me == Settling(r)
            IN  me.killed = r.killed /\ me.proc = r.proc /\ me.term = r.term /\ me.agenda = r.agenda
         /\ \A flow : LET me == Leaving(r, flow)
            IN  me.killed = r.killed /\ me.proc = r.proc /\ me.term = r.term /\ me.agenda = r.agenda
         /\ \A p : LET me == [r EXCEPT !.pc = p]
            IN  me.killed = r.killed /\ me.proc = r.proc /\ me.term = r.term /\ me.agenda = r.agenda
  BY DEF Settling, Leaving, Finishing, Thread

\* A step that starts no command, kills nobody and executes no order of kill.
LEMMA Quiet ==
  ASSUME NoLateCommand,
         \A s \in Threads : /\ Late(th'[s]) => Late(th[s])
                            /\ th[s].agenda # <<>> => th'[s].agenda = th[s].agenda
  PROVE  NoLateCommand'
<1>1. \A x \in Threads : Late(th[x]) => \E k \in Threads : <<"term", x>> \in ToSet(th[k].agenda)
  BY DEF NoLateCommand, Late
<1>2. ToSet(<<>>) = {}
  BY DEF ToSet
<1>3. \A x \in Threads : Late(th'[x]) => \E k \in Threads : <<"term", x>> \in ToSet(th'[k].agenda)
  BY <1>1, <1>2
<1> QED BY <1>3 DEF NoLateCommand, Late

LEMMA QuietBecoming ==
  ASSUME NoLateCommand, th \in [Threads -> Thread], NEW t \in Threads, NEW me, Becomes(t, me),
         th[t].agenda = <<>>, Late(me) => Late(th[t])
  PROVE  NoLateCommand'
<1>1. th'[t] = me /\ \A s \in Threads \ {t} : th'[s] = th[s]
  BY DEF Becomes
<1> QED BY <1>1, Quiet

\* Only External starts a command, and only where the thread is not killed.
LEMMA QuietCommands ==
  ASSUME TreeInv, NoLateCommand, NEW t \in Threads
  PROVE  External(t) \/ CommandEnds(t) \/ Reap(t) \/ ForgetPid(t) => NoLateCommand'
<1> DEFINE r == th[t]
<1>0. r \in Thread /\ Fit(r) /\ th \in [Threads -> Thread]
  BY Same DEF TreeInv, TypeOK
<1>1. ASSUME External(t) PROVE NoLateCommand'
  <2> DEFINE me == [Go(t, "command waits") EXCEPT !.proc = "runs", !.term = FALSE, !.ref = TRUE]
  <2>1. r.agenda = <<>>
    BY <1>0, <1>1 DEF External, Commands, Fit
  <2>2. CASE r.killed
    BY <1>0, <1>1, <2>1, <2>2, Alike, QuietBecoming DEF External, Late
  <2>3. CASE ~r.killed
    <3>1. me.killed = r.killed
      BY <1>0 DEF Go, Thread
    <3>2. Becomes(t, me)
      BY <1>1, <2>3 DEF External
    <3> QED BY <1>0, <2>1, <2>3, <3>1, <3>2, QuietBecoming DEF Late
  <2> QED BY <2>2, <2>3
<1>2. ASSUME CommandEnds(t) \/ Reap(t) PROVE NoLateCommand'
  <2>1. r.agenda = <<>>
    BY <1>0, <1>2 DEF CommandEnds, Reap, At, Fit
  <2>2. PICK me : Becomes(t, me) /\ me.proc \in {"ended", "none"}
    <3>1. [r EXCEPT !.proc = "ended"].proc = "ended" /\ [Go(t, "reaped") EXCEPT !.proc = "none"].proc = "none"
      BY <1>0 DEF Go, Thread
    <3> QED BY <1>2, <3>1 DEF CommandEnds, Reap
  <2>3. ~Late(me)
    BY <2>2 DEF Late
  <2> QED BY <1>0, <2>1, <2>2, <2>3, QuietBecoming
<1>3. ASSUME ForgetPid(t) PROVE NoLateCommand'
  <2> DEFINE mid == [r EXCEPT !.ref = FALSE]
  <2>1. mid \in Thread /\ mid.killed = r.killed /\ mid.proc = r.proc /\ mid.term = r.term
    BY <1>0 DEF Thread
  <2>2. r.agenda = <<>> /\ Becomes(t, Settling(mid))
    BY <1>0, <1>3 DEF ForgetPid, At, Fit
  <2> HIDE DEF mid
  <2> QED BY <1>0, <2>1, <2>2, Alike, QuietBecoming DEF Late
<1> QED BY <1>1, <1>2, <1>3

\* The other steps of one thread.
LEMMA QuietSteps ==
  ASSUME TreeInv, NoLateCommand, NEW t \in Threads
  PROVE  /\ StepLinesEnds(t) \/ BuiltinExit(t) \/ SimpleCommand(t) \/ PushSubst(t) \/ Read(t) => NoLateCommand'
         /\ Echo(t) \/ Put(t) \/ PipeStore(t) \/ PipeWait(t) \/ BuiltinWait(t) => NoLateCommand'
         /\ JobWait(t) \/ ForceValue(t) \/ Forced(t) \/ BuiltinKill(t) => NoLateCommand'
         /\ SettleOne(t) \/ Settled(t) \/ FinishWait(t) => NoLateCommand'
         /\ SetDone(t) \/ SetFlag(t) \/ JobsWaitAll(t) => NoLateCommand'
<1> DEFINE r == th[t]
           same(me) == me.killed = r.killed /\ me.proc = r.proc /\ me.term = r.term
<1>0. r \in Thread /\ Fit(r) /\ th \in [Threads -> Thread]
  BY Same DEF TreeInv, TypeOK
<1>1. ASSUME r.pc # "kill", \E me : Becomes(t, me) /\ same(me) PROVE NoLateCommand'
  <2>1. r.agenda = <<>>
    BY <1>0, <1>1 DEF Fit
  <2>2. PICK me : Becomes(t, me) /\ same(me)
    BY <1>1
  <2>3. Late(me) => Late(r)
    BY <2>2 DEF Late
  <2> QED BY <1>0, <2>1, <2>2, <2>3, QuietBecoming
<1>2. \A p : same(Go(t, p)) /\ same(Settling(r)) /\ \A flow : same(Leaving(r, flow))
  BY <1>0, Alike DEF Go
<1>3. ASSUME StepLinesEnds(t) \/ BuiltinExit(t) \/ SimpleCommand(t) \/ PipeStore(t) PROVE NoLateCommand'
  <2>1. same([Go(t, "pipe wait") EXCEPT !.members = r.started])
    BY <1>0 DEF Go, Thread
  <2>2. r.pc # "kill"
    BY <1>3 DEF StepLinesEnds, BuiltinExit, SimpleCommand, PipeStore, Ready, At
  <2>3. \E me : Becomes(t, me) /\ same(me)
    BY <1>2, <1>3, <2>1 DEF StepLinesEnds, BuiltinExit, SimpleCommand, PipeStore
  <2> QED BY <1>1, <2>2, <2>3
<1>4. ASSUME PushSubst(t) \/ Read(t) \/ BuiltinWait(t) \/ ForceValue(t) PROVE NoLateCommand'
  <2>1. /\ same([Go(t, "words") EXCEPT !.substs = @ \cup {r.source}, !.source = None])
        /\ \A c : same([Go(t, "read") EXCEPT !.source = c]) /\ same([Go(t, "force") EXCEPT !.job = c])
        /\ \A c : same([Go(t, "wait") EXCEPT !.jobs = @ \ {c}, !.job = c])
    BY <1>0 DEF Go, Thread
  <2>2. r.pc # "kill"
    BY <1>4 DEF PushSubst, Read, BuiltinWait, ForceValue, Ready, At
  <2>3. \E me : Becomes(t, me) /\ same(me)
    BY <1>4, <2>1, ZenonT(60) DEF PushSubst, Read, BuiltinWait, ForceValue
  <2> QED BY <1>1, <2>2, <2>3
<1>5. ASSUME Settled(t) \/ FinishWait(t) \/ SettleOne(t) \/ SetDone(t) PROVE NoLateCommand'
  <2>1. /\ same([Go(t, "stmt") EXCEPT !.substs = r.substs \ r.over])
        /\ same(Finishing(r, r.substs \ r.over))
        /\ \A c : same([Go(t, "finish") EXCEPT !.list = @ \ {c}])
        /\ \A c : same([r EXCEPT !.list = @ \ {c}, !.over = IF State(c) = "done" THEN @ \cup {c} ELSE @])
        /\ same([Go(t, "flag") EXCEPT !.done = (r.role = "subst")])
    BY <1>0 DEF Go, Finishing, Thread
  <2>2. r.pc # "kill"
    BY <1>5 DEF Settled, FinishWait, SettleOne, SetDone, InSettle, At
  <2>3. \E me : Becomes(t, me) /\ same(me)
    <3>1. CASE Settled(t) \/ FinishWait(t)
      BY <2>1, <3>1 DEF Settled, FinishWait
    <3>2. CASE SettleOne(t)
      <4>1. PICK c : Becomes(t, [r EXCEPT !.list = @ \ {c},
                                           !.over = IF State(c) = "done" THEN @ \cup {c} ELSE @])
        BY <3>2 DEF SettleOne
      <4> DEFINE me == [r EXCEPT !.list = @ \ {c}, !.over = IF State(c) = "done" THEN @ \cup {c} ELSE @]
      <4>2. same(me)
        BY <1>0 DEF Thread
      <4> HIDE DEF me
      <4> QED BY <4>1, <4>2 DEF me
    <3>3. CASE SetDone(t)
      BY <2>1, <3>3 DEF SetDone
    <3> QED BY <1>5, <3>1, <3>2, <3>3
  <2> QED BY <1>1, <2>2, <2>3
<1>6. ASSUME JobWait(t) \/ Forced(t) \/ SetFlag(t) \/ JobsWaitAll(t) PROVE NoLateCommand'
  BY <1>1, <1>2, <1>6 DEF JobWait, Forced, SetFlag, JobsWaitAll, At
<1>7. ASSUME Echo(t) PROVE NoLateCommand'
  <2> DEFINE mid == [r EXCEPT !.value = "made"]
  <2>1. mid \in Thread /\ same(mid)
    BY <1>0 DEF Thread, Values
  <2>2. same(Settling(mid))
    <3> HIDE DEF mid
    <3> QED BY <2>1, Alike
  <2>3. r.pc # "kill" /\ (Becomes(t, Settling(mid)) \/ Becomes(t, Settling(r)) \/ Becomes(t, Go(t, "put")))
    BY <1>7 DEF Echo, Commands
  <2> QED BY <1>1, <1>2, <2>2, <2>3
<1>8. ASSUME Put(t) PROVE NoLateCommand'
  <2> DEFINE away == [r EXCEPT !.waiting = FALSE]
             held == [r EXCEPT !.waiting = TRUE]
             more(k) == [r EXCEPT !.n = k, !.waiting = FALSE]
  <2>1. away \in Thread /\ same(away) /\ same(held) /\ \A k \in Int : more(k) \in Thread /\ same(more(k))
    BY <1>0 DEF Thread
  <2>2. r.pc # "kill" /\ (\/ Becomes(t, Leaving(away, "abort")) \/ Becomes(t, Settling(away))
                        \/ Becomes(t, Settling(more(r.n + 1))) \/ Becomes(t, held))
    BY <1>8 DEF Put, At
  <2>3. r.n + 1 \in Int
    <3>1. r.n \in Int
      BY <1>0 DEF Thread
    <3> QED BY <3>1
  <2> HIDE DEF away, held, more
  <2>4. same(Leaving(away, "abort")) /\ same(Settling(away)) /\ same(Settling(more(r.n + 1)))
    BY <2>1, <2>3, Alike
  <2> QED BY <1>1, <2>1, <2>2, <2>4
<1>9. ASSUME PipeWait(t) PROVE NoLateCommand'
  <2> DEFINE mid == [r EXCEPT !.members = <<>>, !.started = <<>>]
  <2>1. mid \in Thread /\ same(mid)
    <3>1. <<>> \in Seq(Threads)
      OBVIOUS
    <3> QED BY <1>0, <3>1 DEF Thread
  <2>2. r.pc # "kill" /\ Becomes(t, Settling(mid))
    BY <1>9 DEF PipeWait, At
  <2> HIDE DEF mid
  <2> QED BY <1>1, <2>1, <2>2, Alike
<1>10. ASSUME BuiltinKill(t) PROVE NoLateCommand'
  <2>1. r.pc # "kill"
    BY <1>10 DEF BuiltinKill, Ready, At
  <2>2. PICK j : Becomes(t, IF Finished(j) THEN Settling(th[t])
                            ELSE [Go(t, "kill") EXCEPT !.job = j, !.agenda = <<<<"flag", j>>>>])
    BY <1>10 DEF BuiltinKill
  <2>3. same([Go(t, "kill") EXCEPT !.job = j, !.agenda = <<<<"flag", j>>>>])
    BY <1>0 DEF Go, Thread
  <2> QED BY <1>1, <1>2, <2>1, <2>2, <2>3
<1> QED BY <1>3, <1>4, <1>5, <1>6, <1>7, <1>8, <1>9, <1>10

\* The steps that start a thread or change another one.
LEMMA QuietPairs ==
  ASSUME TreeInv, NoLateCommand, NEW t \in Threads
  PROVE  /\ EvalSubst(t) \/ EvalBg(t) \/ EvalPipe(t) \/ PipeStartLast(t) => NoLateCommand'
         /\ ReadNext(t) \/ FinishOne(t) \/ Release(t) \/ KillEnds(t) => NoLateCommand'
<1> DEFINE same(me, r) == me.killed = r.killed /\ me.proc = r.proc /\ me.term = r.term
<1>0. /\ th \in [Threads -> Thread] /\ th[t] \in Thread /\ Fit(th[t])
      /\ \A s \in Threads : Fit(th[s])
  BY Same DEF TreeInv, TypeOK
<1>1. ASSUME NEW me, NEW child, Starts(t, me, child), same(me, th[t]), child.proc = "none",
             th[t].pc # "kill", th[t].pc # "free", New \in Threads
      PROVE  NoLateCommand'
  <2>1. th[New].pc = "free" /\ New # t
    <3>1. New > born
      BY Room DEF New
    <3> QED BY <1>1, <3>1 DEF TreeInv, InOrder, At
  <2>2. th[New].agenda = <<>> /\ th[t].agenda = <<>>
    BY <1>0, <1>1, <2>1 DEF Fit
  <2>3. th'[t] = me /\ th'[New] = child /\ \A s \in Threads \ {t, New} : th'[s] = th[s]
    BY <1>0, <1>1, <2>1 DEF Starts
  <2>4. ~Late(child) /\ (Late(me) => Late(th[t]))
    BY <1>1 DEF Late
  <2> QED BY <2>2, <2>3, <2>4, Quiet
<1>2. \A role, out, from, value : Child(t, role, out, from, value).proc = "none"
  BY DEF Child, Blank
<1>3. ASSUME EvalSubst(t) \/ EvalPipe(t) PROVE NoLateCommand'
  <2>1. /\ same([Go(t, "push") EXCEPT !.source = New], th[t])
        /\ same([Go(t, "pipe start") EXCEPT !.started = <<New>>], th[t])
    BY <1>0 DEF Go, Thread
  <2>2. th[t].pc \in {"words", "stmt"} /\ (Left >= 1 \/ Left >= 2)
    BY <1>3 DEF EvalSubst, EvalPipe, Ready, At
  <2>3. New \in Threads
    <3>1. Left \in Int
      BY Room
    <3>2. Left >= 1
      BY <2>2, <3>1
    <3> QED BY <3>2, Roomy
  <2>4. \E me, child : Starts(t, me, child) /\ same(me, th[t]) /\ child.proc = "none"
    <3> DEFINE push == [Go(t, "push") EXCEPT !.source = New]
               start == [Go(t, "pipe start") EXCEPT !.started = <<New>>]
               subst == Child(t, "subst", New, None, "none")
               element == Child(t, "element", New, None, "none")
    <3>1. Starts(t, push, subst) \/ Starts(t, start, element)
      BY <1>3 DEF EvalSubst, EvalPipe
    <3>2. same(push, th[t]) /\ same(start, th[t])
      BY <2>1
    <3>3. subst.proc = "none" /\ element.proc = "none"
      BY DEF Child, Blank
    <3> HIDE DEF push, start, subst, element
    <3> QED BY <3>1, <3>2, <3>3
  <2> QED BY <1>1, <2>2, <2>3, <2>4
<1>4. ASSUME EvalBg(t) PROVE NoLateCommand'
  <2> DEFINE mid == [th[t] EXCEPT !.jobs = @ \cup {New}]
  <2>1. th[t].pc = "stmt" /\ Left >= 1
    BY <1>4 DEF EvalBg, Ready, At
  <2>2. New \in Threads
    BY <2>1, Roomy
  <2>3. mid \in Thread /\ same(mid, th[t])
    BY <1>0, <2>2 DEF Thread
  <2>4. \E child : Starts(t, Settling(mid), child) /\ child.proc = "none"
    BY <1>2, <1>4 DEF EvalBg
  <2> HIDE DEF mid
  <2>5. same(Settling(mid), th[t])
    BY <2>3, Alike
  <2> QED BY <1>1, <2>1, <2>2, <2>4, <2>5
<1>5. ASSUME PipeStartLast(t) PROVE NoLateCommand'
  <2>1. same([Go(t, "pipe store") EXCEPT !.started = Append(@, New)], th[t])
    BY <1>0 DEF Go, Thread
  <2>2. th[t].pc = "pipe start" /\ New \in Threads
    BY <1>5, Roomy DEF PipeStartLast, At, Starting
  <2>3. \E me, child : Starts(t, me, child) /\ same(me, th[t]) /\ child.proc = "none"
    <3> DEFINE me == [Go(t, "pipe store") EXCEPT !.started = Append(@, New)]
               child == Child(t, "element", th[t].out, th[t].started[1], "none")
    <3>1. Starts(t, me, child)
      BY <1>5 DEF PipeStartLast
    <3>2. same(me, th[t])
      BY <2>1
    <3>3. child.proc = "none"
      BY DEF Child, Blank
    <3> HIDE DEF me, child
    <3> QED BY <3>1, <3>2, <3>3
  <2> QED BY <1>1, <2>2, <2>3
<1>6. ASSUME \A s \in Threads : same(th'[s], th[s]) /\ th'[s].agenda = th[s].agenda PROVE NoLateCommand'
  BY <1>6, Quiet DEF Late
<1>7. ASSUME ReadNext(t) PROVE NoLateCommand'
  <2>1. CASE th' = [th EXCEPT ![t].pc = "command"]
    BY <1>0, <1>6, <2>1 DEF Thread
  <2>2. ASSUME NEW w \in Threads, th' = [th EXCEPT ![w].n = @ - 1, ![w].waiting = FALSE, ![t].pc = "command"]
        PROVE  NoLateCommand'
    BY <1>0, <1>6, <2>2 DEF Thread
  <2> QED BY <1>7, <2>1, <2>2 DEF ReadNext, Writers
<1>8. ASSUME FinishOne(t) PROVE NoLateCommand'
  <2>1. PICK c \in Newest(th[t].list) : th' = [th EXCEPT ![c].cancelled = TRUE, ![t].pc = "finish wait"]
    BY <1>8 DEF FinishOne
  <2>2. c \in Threads
    BY <1>0, <2>1 DEF Newest, Thread
  <2> QED BY <1>0, <1>6, <2>1, <2>2 DEF Thread
<1>9. ASSUME Release(t) PROVE NoLateCommand'
  <2> DEFINE q == Released(th, t)
  <2>1. DOMAIN q = Threads /\ \A s \in Threads : same(q[s], th[s]) /\ q[s].agenda = th[s].agenda
    BY <1>0 DEF Released, Thread
  <2>2. th' = [q EXCEPT ![t].pc = "released"]
    BY <1>9 DEF Release
  <2> HIDE DEF q
  <2> QED BY <1>6, <2>1, <2>2
<1>10. ASSUME KillEnds(t) PROVE NoLateCommand'
  <2> DEFINE value == IF th[th[t].job].value = "pending" THEN "made" ELSE th[th[t].job].value
             q == [th EXCEPT ![t] = Settling(th[t])]
  <2>1. th' = [q EXCEPT ![th[t].job].value = value] /\ th[t].job \in Threads
    BY <1>0, <1>10 DEF KillEnds, At, Fit
  <2>2. /\ DOMAIN q = Threads /\ q[t] = Settling(th[t])
        /\ \A s \in Threads \ {t} : q[s] = th[s]
    BY <1>0
  <2>3. \A s \in Threads : same(q[s], th[s]) /\ q[s].agenda = th[s].agenda
    BY <1>0, <2>2, Alike
  <2>4. \A s \in Threads : DOMAIN q[s] = DOMAIN Blank
    BY <1>0, <2>2 DEF Settling, Thread, Blank
  <2> HIDE DEF q, value
  <2> QED BY <1>6, <2>1, <2>2, <2>3, <2>4
<1> QED BY <1>3, <1>4, <1>5, <1>7, <1>8, <1>9, <1>10

\* Sequences, as the sets of what they hold.
LEMMA Parts ==
  ASSUME NEW S, NEW s \in Seq(S), s # <<>>
  PROVE  ToSet(s) = {s[1]} \cup ToSet(Tail(s))
<1>1. /\ Len(s) \in Nat \ {0} /\ Tail(s) \in Seq(S) /\ Len(Tail(s)) = Len(s) - 1
      /\ \A i \in 1 .. Len(Tail(s)) : Tail(s)[i] = s[i + 1]
  BY HeadTailProperties, EmptySeq, LenProperties
<1>2. DOMAIN s = 1 .. Len(s) /\ DOMAIN Tail(s) = 1 .. Len(s) - 1
  BY <1>1
<1>3. ASSUME NEW i \in DOMAIN s PROVE i = 1 \/ (i - 1 \in DOMAIN Tail(s) /\ Tail(s)[i - 1] = s[i])
  BY <1>1, <1>2
<1>4. 1 \in DOMAIN s /\ \A i \in DOMAIN Tail(s) : i + 1 \in DOMAIN s /\ Tail(s)[i] = s[i + 1]
  BY <1>1, <1>2
<1> DEFINE rest == Tail(s)
<1> HIDE DEF rest
<1>5. ASSUME NEW x \in ToSet(s) PROVE x = s[1] \/ x \in ToSet(rest)
  <2>1. PICK i \in DOMAIN s : x = s[i]
    BY DEF ToSet
  <2>2. CASE i = 1
    BY <2>1, <2>2
  <2>3. CASE i - 1 \in DOMAIN rest /\ rest[i - 1] = s[i]
    BY <2>1, <2>3 DEF ToSet
  <2> QED BY <1>3, <2>2, <2>3 DEF rest
<1>6. ASSUME NEW x \in ToSet(rest) PROVE x \in ToSet(s)
  <2>1. PICK i \in DOMAIN rest : x = rest[i]
    BY DEF ToSet
  <2>2. i + 1 \in DOMAIN s /\ x = s[i + 1]
    BY <1>4, <2>1 DEF rest
  <2> QED BY <2>2 DEF ToSet
<1>7. s[1] \in ToSet(s)
  BY <1>4 DEF ToSet
<1> QED BY <1>5, <1>6, <1>7 DEF rest

LEMMA Joined ==
  ASSUME NEW S, NEW a \in Seq(S), NEW b \in Seq(S)
  PROVE  ToSet(a) \subseteq ToSet(a \o b) /\ ToSet(b) \subseteq ToSet(a \o b)
<1> DEFINE c == a \o b
<1>1. /\ c \in Seq(S) /\ Len(c) = Len(a) + Len(b) /\ Len(a) \in Nat /\ Len(b) \in Nat
      /\ \A i \in 1 .. Len(a) : c[i] = a[i]
      /\ \A i \in Len(a) + 1 .. Len(a) + Len(b) : c[i] = b[i - Len(a)]
  BY ConcatProperties, LenProperties
<1>2. DOMAIN c = 1 .. Len(a) + Len(b) /\ DOMAIN a = 1 .. Len(a) /\ DOMAIN b = 1 .. Len(b)
  BY <1>1
<1> HIDE DEF c
<1>3. \A i \in DOMAIN a : i \in DOMAIN c /\ c[i] = a[i]
  BY <1>1, <1>2
<1>4. ASSUME NEW i \in DOMAIN b PROVE i + Len(a) \in DOMAIN c /\ c[i + Len(a)] = b[i]
  <2>1. i \in Int /\ i >= 1 /\ i <= Len(b)
    BY <1>1, <1>2
  <2>2. i + Len(a) \in Len(a) + 1 .. Len(a) + Len(b) /\ (i + Len(a)) - Len(a) = i
    BY <1>1, <2>1
  <2> QED BY <1>1, <1>2, <2>2
<1> QED BY <1>3, <1>4 DEF ToSet, c

\* An order of kill: the command that it is about is not late, or it is
\* ordered that it gets SIGTERM.
LEMMA QuietKill ==
  ASSUME TreeInv, NoLateCommand, NEW t \in Threads, KillStep(t)
  PROVE  NoLateCommand'
<1> DEFINE op == th[t].agenda[1][1]
           m == th[t].agenda[1][2]
           rest == Tail(th[t].agenda)
           same(me, r) == me.killed = r.killed /\ me.proc = r.proc /\ me.term = r.term
<1>0. th \in [Threads -> Thread] /\ \A s \in Threads : th[s] \in Thread /\ Fit(th[s])
  BY Same DEF TreeInv, TypeOK
<1>1. th[t].agenda \in Seq(Orders) /\ th[t].agenda # <<>>
  BY <1>0 DEF KillStep, Thread
<1>2. /\ th[t].agenda[1] \in Orders /\ rest \in Seq(Orders)
      /\ ToSet(th[t].agenda) = {th[t].agenda[1]} \cup ToSet(rest)
  BY <1>1, Parts, HeadTailProperties, EmptySeq
<1>3. (op # "cancel" => m \in Threads) /\ (op = "cancel" => m \in SUBSET Threads) /\ th[t].agenda[1] = <<op, m>>
  BY <1>2 DEF Orders
<1>4. /\ op = "flag" => th' = [th EXCEPT ![m].killed = TRUE, ![t].agenda = StopOne(m) \o rest]
      /\ op = "term" => th' = [th EXCEPT ![m].term = @ \/ th[m].ref, ![t].agenda = rest]
      /\ op = "release" => th' = [Released(th, m) EXCEPT ![t].agenda = rest]
      /\ op = "cancel" => \E c \in Newest(m) :
           th' = [th EXCEPT ![c].cancelled = TRUE,
                            ![t].agenda = <<<<"flag", c>>>> \o StopSubst(m \ {c}) \o rest]
      /\ op = "members" => th' = [th EXCEPT ![m].members = <<>>, ![t].agenda = Stops(th[m].members) \o rest]
      /\ op = "substs" => th' = [th EXCEPT ![t].agenda = StopSubst(th[m].substs) \o rest]
      /\ op \in {"flag", "term", "release", "cancel", "members", "substs"}
  BY DEF KillStep
<1> HIDE DEF op, m, rest
<1>5. ASSUME ToSet(rest) \subseteq ToSet(th'[t].agenda), \A k \in Threads \ {t} : th'[k].agenda = th[k].agenda,
             \A x \in Threads : Late(th'[x]) => \/ Late(th[x]) /\ th[t].agenda[1] # <<"term", x>>
                                                \/ <<"term", x>> \in ToSet(th'[t].agenda)
      PROVE  NoLateCommand'
  <2> SUFFICES ASSUME NEW x \in Threads, Late(th'[x])
               PROVE  \E k \in Threads : <<"term", x>> \in ToSet(th'[k].agenda)
    BY DEF NoLateCommand, Late
  <2>1. CASE <<"term", x>> \in ToSet(th'[t].agenda)
    BY <2>1
  <2>2. CASE Late(th[x]) /\ th[t].agenda[1] # <<"term", x>>
    <3>1. PICK k \in Threads : <<"term", x>> \in ToSet(th[k].agenda)
      BY <2>2 DEF NoLateCommand, Late
    <3>2. CASE k = t
      BY <1>2, <1>5, <2>2, <3>1, <3>2
    <3>3. CASE k # t
      BY <1>5, <3>1, <3>3
    <3> QED BY <3>2, <3>3
  <2> QED BY <1>5, <2>1, <2>2
<1>6. ASSUME op \notin {"flag", "term"}, NEW agenda \in Seq(Orders), ToSet(rest) \subseteq ToSet(agenda),
             th'[t].agenda = agenda, \A k \in Threads \ {t} : th'[k].agenda = th[k].agenda,
             \A x \in Threads : same(th'[x], th[x])
      PROVE  NoLateCommand'
  <2>1. \A x \in Threads : th[t].agenda[1] # <<"term", x>>
    BY <1>3, <1>6
  <2> QED BY <1>5, <1>6, <2>1 DEF Late
<1>7. \A a \in Seq(Orders) : a \o rest \in Seq(Orders) /\ ToSet(rest) \subseteq ToSet(a \o rest)
  BY <1>2, Joined, ConcatProperties
<1>8. CASE op = "flag"
  <2>1. m \in Threads /\ StopOne(m) \in Seq(Orders)
    BY <1>3, <1>8, OrderTypes
  <2>2. <<"term", m>> \in ToSet(StopOne(m) \o rest)
    <3>1. <<"term", m>> \in ToSet(StopOne(m))
      <4>1. StopOne(m)[1] = <<"term", m>> /\ 1 \in DOMAIN StopOne(m)
        BY DEF StopOne
      <4> QED BY <4>1 DEF ToSet
    <3> QED BY <1>2, <2>1, <3>1, Joined
  <2>3. /\ th'[t].agenda = StopOne(m) \o rest
        /\ \A k \in Threads \ {t} : th'[k].agenda = th[k].agenda
        /\ \A x \in Threads \ {m} : same(th'[x], th[x])
    <3> DEFINE mid == [th[m] EXCEPT !.killed = TRUE]
               q == [th EXCEPT ![m] = mid]
               agenda == StopOne(m) \o rest
    <3>1. th' = [q EXCEPT ![t].agenda = agenda]
      BY <1>4, <1>8
    <3>2. /\ DOMAIN q = Threads /\ \A s \in Threads : q[s] \in Thread /\ q[s].agenda = th[s].agenda
          /\ \A s \in Threads \ {m} : same(q[s], th[s])
      <4>1. mid \in Thread /\ mid.agenda = th[m].agenda
        <5>1. th[m] \in Thread
          BY <1>0, <2>1
        <5> QED BY <5>1 DEF Thread
      <4> HIDE DEF mid
      <4> QED BY <1>0, <2>1, <4>1
    <3> HIDE DEF q, agenda
    <3>3. /\ th'[t].agenda = agenda /\ \A k \in Threads \ {t} : th'[k] = q[k]
          /\ same(th'[t], q[t])
      BY <3>1, <3>2 DEF Thread
    <3> QED BY <3>2, <3>3 DEF agenda
  <2>4. \A x \in Threads \ {m} : Late(th'[x]) => Late(th[x]) /\ th[t].agenda[1] # <<"term", x>>
    BY <1>3, <1>8, <2>3 DEF Late
  <2> QED BY <1>5, <1>7, <2>1, <2>2, <2>3, <2>4
<1>9. CASE op = "term"
  <2>1. m \in Threads
    BY <1>3, <1>9
  <2>2. /\ th'[t].agenda = rest
        /\ \A k \in Threads \ {t} : th'[k].agenda = th[k].agenda
        /\ \A x \in Threads \ {m} : same(th'[x], th[x])
        /\ th'[m].proc = th[m].proc /\ th'[m].term = (th[m].term \/ th[m].ref)
    <3> DEFINE term == th[m].term \/ th[m].ref
               mid == [th[m] EXCEPT !.term = term]
               q == [th EXCEPT ![m] = mid]
    <3>1. th' = [q EXCEPT ![t].agenda = rest]
      BY <1>4, <1>9
    <3>2. term \in BOOLEAN
      OBVIOUS
    <3> HIDE DEF term
    <3>3. /\ DOMAIN q = Threads /\ \A s \in Threads : q[s] \in Thread /\ q[s].agenda = th[s].agenda
          /\ \A s \in Threads \ {m} : same(q[s], th[s])
          /\ q[m].proc = th[m].proc /\ q[m].term = term
      <4>1. mid \in Thread /\ mid.agenda = th[m].agenda /\ mid.proc = th[m].proc /\ mid.term = term
        <5>1. th[m] \in Thread
          BY <1>0, <2>1
        <5> QED BY <3>2, <5>1 DEF Thread
      <4> HIDE DEF mid
      <4> QED BY <1>0, <2>1, <4>1
    <3> HIDE DEF q
    <3>4. /\ th'[t].agenda = rest /\ \A k \in Threads \ {t} : th'[k] = q[k]
          /\ same(th'[t], q[t])
      BY <3>1, <3>3 DEF Thread
    <3> QED BY <2>1, <3>3, <3>4 DEF term
  <2>3. ~Late(th'[m])
    BY <1>0, <2>1, <2>2 DEF Late, Fit
  <2>4. \A x \in Threads \ {m} : Late(th'[x]) => Late(th[x]) /\ th[t].agenda[1] # <<"term", x>>
    BY <1>3, <2>2 DEF Late
  <2> QED BY <1>5, <2>2, <2>3, <2>4
<1>10. CASE op = "release"
  <2> DEFINE q == Released(th, m)
  <2>1. DOMAIN q = Threads /\ \A s \in Threads : same(q[s], th[s]) /\ q[s].agenda = th[s].agenda
    BY <1>0 DEF Released, Thread
  <2>2. \A s \in Threads : DOMAIN q[s] = DOMAIN th[s] /\ "agenda" \in DOMAIN th[s]
    BY <1>0 DEF Released, Thread
  <2>3. th' = [q EXCEPT ![t].agenda = rest]
    BY <1>4, <1>10
  <2> HIDE DEF q
  <2>4. /\ th'[t].agenda = rest /\ \A k \in Threads \ {t} : th'[k].agenda = th[k].agenda
        /\ \A x \in Threads : same(th'[x], th[x])
    BY <2>1, <2>2, <2>3
  <2> QED BY <1>2, <1>6, <1>10, <2>4
<1>11. CASE op = "cancel"
  <2>1. PICK c \in Newest(m) :
           th' = [th EXCEPT ![c].cancelled = TRUE,
                            ![t].agenda = <<<<"flag", c>>>> \o StopSubst(m \ {c}) \o rest]
    BY <1>4, <1>11
  <2>2. c \in Threads /\ m \ {c} \in SUBSET Threads
    BY <1>3, <1>11 DEF Newest
  <2> DEFINE agenda == <<<<"flag", c>>>> \o StopSubst(m \ {c}) \o rest
  <2>3. agenda \in Seq(Orders) /\ ToSet(rest) \subseteq ToSet(agenda)
    <3>1. <<<<"flag", c>>>> \o StopSubst(m \ {c}) \in Seq(Orders)
      BY <2>2, OrderTypes, ConcatProperties
    <3> QED BY <1>7, <3>1
  <2> HIDE DEF agenda
  <2>4. /\ th'[t].agenda = agenda /\ \A k \in Threads \ {t} : th'[k].agenda = th[k].agenda
        /\ \A x \in Threads : same(th'[x], th[x])
    BY <1>0, <2>1, <2>2, ZenonT(60) DEF Thread, agenda
  <2> QED BY <1>6, <1>11, <2>3, <2>4
<1>12. CASE op \in {"members", "substs"}
  <2> DEFINE agenda == IF op = "members" THEN Stops(th[m].members) \o rest ELSE StopSubst(th[m].substs) \o rest
  <2>1. m \in Threads /\ th[m].members \in Seq(Threads) /\ th[m].substs \in SUBSET Threads
    BY <1>0, <1>3, <1>12 DEF Thread
  <2>2. agenda \in Seq(Orders) /\ ToSet(rest) \subseteq ToSet(agenda)
    BY <1>7, <2>1, OrderTypes
  <2>3. th' = [th EXCEPT ![t].agenda = agenda] \/ th' = [th EXCEPT ![m].members = <<>>, ![t].agenda = agenda]
    BY <1>4, <1>12
  <2> HIDE DEF agenda
  <2>4. /\ th'[t].agenda = agenda /\ \A k \in Threads \ {t} : th'[k].agenda = th[k].agenda
        /\ \A x \in Threads : same(th'[x], th[x])
    <3> DEFINE mid == [th[m] EXCEPT !.members = <<>>]
               q == [th EXCEPT ![m] = mid]
    <3>1. th' = [th EXCEPT ![t].agenda = agenda] \/ th' = [q EXCEPT ![t].agenda = agenda]
      BY <2>3
    <3>2. DOMAIN q = Threads /\ \A s \in Threads : q[s] \in Thread /\ q[s].agenda = th[s].agenda /\ same(q[s], th[s])
      <4>1. <<>> \in Seq(Threads)
        OBVIOUS
      <4>2. mid \in Thread /\ mid.agenda = th[m].agenda /\ same(mid, th[m])
        <5>1. th[m] \in Thread
          BY <1>0, <2>1
        <5> QED BY <4>1, <5>1 DEF Thread
      <4> HIDE DEF mid
      <4> QED BY <1>0, <2>1, <4>2
    <3> HIDE DEF q
    <3>3. CASE th' = [th EXCEPT ![t].agenda = agenda]
      BY <1>0, <3>3 DEF Thread
    <3>4. CASE th' = [q EXCEPT ![t].agenda = agenda]
      BY <3>2, <3>4 DEF Thread
    <3> QED BY <3>1, <3>3, <3>4
  <2> QED BY <1>6, <1>12, <2>2, <2>4
<1> QED BY <1>4, <1>8, <1>9, <1>10, <1>11, <1>12

\* NoLateCommand, for every number of threads and of statements: the lock of
\* proc_ref is what it takes.
THEOREM NoCommandIsLate == Spec => []NoLateCommand
<1> DEFINE Inv == TreeInv /\ NoLateCommand
<1>1. Init => Inv
  <2> SUFFICES ASSUME Init PROVE NoLateCommand
    BY TreeInit
  <2>1. \A t \in Threads : th[t].proc = "none"
    BY DEF Init, Child, Blank
  <2> QED BY <2>1 DEF NoLateCommand
<1>2. Inv /\ [Next]_vars => Inv'
  <2> SUFFICES ASSUME TreeInv, NoLateCommand, [Next]_vars PROVE NoLateCommand'
    BY TreeNext
  <2>1. CASE Next
    <3>1. PICK t \in Threads : Statement(t) \/ GoesOn(t) \/ CommandEnds(t)
      BY <2>1 DEF Next, Step
    <3> QED BY <3>1, QuietCommands, QuietSteps, QuietPairs, QuietKill DEF Statement, GoesOn
  <2>2. CASE UNCHANGED vars
    BY <2>2 DEF vars, NoLateCommand
  <2> QED BY <2>1, <2>2
<1>3. Inv => NoLateCommand
  OBVIOUS
<1> QED BY <1>1, <1>2, <1>3, PTL DEF Spec

=============================================================================
