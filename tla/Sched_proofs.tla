---------------------------- MODULE Sched_proofs ----------------------------
(***************************************************************************)
(* Theorems about Sched, for every number of VProcs, Refs, LazyLists,      *)
(* processes and Streams, and for every length of the lists.               *)
(***************************************************************************)
EXTENDS Sched, TLAPS, FiniteSetTheorems, SequenceTheorems

----------------------------------------------------------------------------
(***************************************************************************)
(* Sequences.                                                              *)
(***************************************************************************)

\* A part of a list (Vec::retain, or the loops of the checks) holds elements
\* of the chosen indices only.
LEMMA SublistOf ==
  ASSUME NEW S, NEW list \in Seq(S), NEW I \in SUBSET DOMAIN list,
         NEW sub \in Sublist(list, I)
  PROVE  /\ sub \in Seq(S)
         /\ \A k \in DOMAIN sub : \E i \in I : sub[k] = list[i]
<1>1. PICK t \in SetToSeqs(I) : sub = [k \in DOMAIN t |-> list[t[k]]]
  BY DEF Sublist
<1>2. IsFiniteSet(I)
  <2>1. IsFiniteSet(1 .. Len(list))
    BY FS_Interval
  <2> QED BY <2>1, FS_Subset
<1>3. Cardinality(I) \in Nat
  BY <1>2, FS_CardinalityType
<1>4. t \in [1 .. Cardinality(I) -> I]
  BY DEF SetToSeqs
<1>5. \A k \in DOMAIN t : t[k] \in I /\ list[t[k]] \in S
  BY <1>4
<1>6. sub \in [1 .. Cardinality(I) -> S]
  BY <1>1, <1>4, <1>5
<1>7. sub \in Seq(S)
  BY <1>3, <1>6
<1> QED BY <1>1, <1>4, <1>5, <1>7

\* Removing an element of a sequence leaves a sequence (VecDeque::remove).
LEMMA RemoveAtType ==
  ASSUME NEW S, NEW s \in Seq(S), NEW i \in DOMAIN s
  PROVE  RemoveAt(s, i) \in Seq(S)
BY DEF RemoveAt

\* Vec::push.
LEMMA AppendType ==
  ASSUME NEW S, NEW s \in Seq(S), NEW e \in S
  PROVE  Append(s, e) \in Seq(S)
OBVIOUS

\* The CChain without CFrames is one.
LEMMA EmptyCells == <<>> \in Cells
<1>1. <<>> \in [1 .. 0 -> Frames] /\ 0 \in 0 .. MaxDepth
  BY NumberAssumption
<1> QED BY <1>1 DEF Cells, SeqOf

\* remove_ready leaves a queue of VProcs.
LEMMA DequeueType ==
  ASSUME ready \in Seq(VProcs), NEW v
  PROVE  Dequeue(v) \in Seq(VProcs)
BY RemoveAtType DEF Dequeue

\* Popping the top CFrame leaves a CChain.
LEMMA TailCells ==
  ASSUME NEW c \in Cells, c # <<>>
  PROVE  Tail(c) \in Cells
<1>1. PICK m \in 0 .. MaxDepth : c \in [1 .. m -> Frames]
  BY DEF Cells, SeqOf
<1>2. MaxDepth \in Nat /\ m \in Nat
  BY <1>1, NumberAssumption
<1>3. c \in Seq(Frames) /\ Len(c) = m
  BY <1>1, <1>2
<1>4. m # 0
  BY <1>3
<1>5. Tail(c) \in Seq(Frames) /\ Len(Tail(c)) = m - 1
  BY <1>3, <1>4
<1>6. Tail(c) \in [1 .. m - 1 -> Frames]
  BY <1>5, LenProperties
<1>7. m - 1 \in 0 .. MaxDepth
  BY <1>1, <1>2, <1>4
<1> QED BY <1>6, <1>7 DEF Cells, SeqOf

----------------------------------------------------------------------------
(***************************************************************************)
(* What the helpers of the actions do to the state and to the lists.       *)
(***************************************************************************)

\* wake keeps the types, and turns a VProc into a ready one or leaves it.
LEMMA WakeSound ==
  ASSUME state \in [VProcs -> States], ready \in Seq(VProcs),
         NEW S, \A e \in S : e.vp \in VProcs,
         NEW up \in Seq(S), Wake(up)
  PROVE  /\ ready' \in Seq(VProcs) /\ state' \in [VProcs -> States]
         /\ \A v \in VProcs : state'[v] = state[v] \/ state'[v] = "ready"
<1>1. [k \in DOMAIN up |-> up[k].vp] \in Seq(VProcs)
  OBVIOUS
<1>2. ready' \in Seq(VProcs)
  BY <1>1 DEF Wake
<1> QED BY <1>2 DEF Wake, States

\* kill_now finishes v and takes it out of the queue and of the four lists.
LEMMA KillNowSound ==
  ASSUME TypeOK, NEW v \in VProcs, KillNow(v)
  PROVE  /\ ready' \in Seq(VProcs) /\ finishedAny'
         /\ state' \in [VProcs -> States]
         /\ ended' \in [VProcs -> {"no", "normal", "error", "killed"}]
         /\ joining' \in Seq([vp : VProcs, on : VProcs])
         /\ lazy' \in Seq([vp : VProcs, on : Lazies])
         /\ changes' \in Seq([vp : VProcs, on : Refs \cup Lazies,
                              old : (0 .. MaxValue) \cup {Unmade, Thunk, Cell} \cup VProcs])
         /\ waiting' \in Seq([vp : VProcs, on : Targets])
<1>1. ready' \in Seq(VProcs)
  BY DequeueType DEF TypeOK, KillNow
<1>2. /\ joining' \in Seq([vp : VProcs, on : VProcs])
      /\ lazy' \in Seq([vp : VProcs, on : Lazies])
      /\ waiting' \in Seq([vp : VProcs, on : Targets])
  BY SublistOf DEF TypeOK, KillNow, Without
<1>3. changes' \in Seq([vp : VProcs, on : Refs \cup Lazies,
                        old : (0 .. MaxValue) \cup {Unmade, Thunk, Cell} \cup VProcs])
  BY SublistOf DEF TypeOK, KillNow, Without
<1> QED BY <1>1, <1>2, <1>3 DEF TypeOK, KillNow, Finish, States

\* check_interrupts keeps the types: the Ref gets a count of SIGINTs.
LEMMA CheckInterruptsSound ==
  ASSUME TypeOK, CheckInterrupts
  PROVE  ref' \in [Refs -> 0 .. MaxValue] /\ seen' \in 0 .. sigints
BY NumberAssumption DEF TypeOK, CheckInterrupts, Interrupted

\* check_waiting keeps the types.
LEMMA CheckWaitingSound ==
  ASSUME TypeOK, CheckWaiting
  PROVE  /\ ref' \in [Refs -> 0 .. MaxValue] /\ seen' \in 0 .. sigints
         /\ refChanged' \in BOOLEAN
         /\ waiting' \in Seq([vp : VProcs, on : Targets])
         /\ ready' \in Seq(VProcs) /\ state' \in [VProcs -> States]
         /\ \A v \in VProcs : state'[v] = state[v] \/ state'[v] = "ready"
<1> DEFINE W == [vp : VProcs, on : Targets]
<1>1. PICK up \in Sublist(waiting, OsReady) : Wake(up)
  BY DEF CheckWaiting
<1>2. waiting \in Seq(W) /\ OsReady \in SUBSET DOMAIN waiting
  BY DEF TypeOK, OsReady
<1>3. up \in Seq(W)
  BY <1>2, SublistOf
<1>4. /\ ready' \in Seq(VProcs) /\ state' \in [VProcs -> States]
      /\ \A v \in VProcs : state'[v] = state[v] \/ state'[v] = "ready"
  BY <1>1, <1>3, WakeSound DEF TypeOK
<1>5. waiting' \in Seq(W)
  BY <1>2, SublistOf DEF CheckWaiting
<1>6. refChanged' \in BOOLEAN
  BY DEF TypeOK, CheckWaiting, Flag, Interrupted
<1> QED BY <1>4, <1>5, <1>6, CheckInterruptsSound DEF CheckWaiting

----------------------------------------------------------------------------
(***************************************************************************)
(* Type correctness.                                                       *)
(***************************************************************************)

LEMMA ScheduleType ==
  ASSUME TypeOK, Schedule
  PROVE  TypeOK'
<1>1. CASE FinishFront
  <2>1. Head(ready) \in VProcs /\ Tail(ready) \in Seq(VProcs)
    BY <1>1 DEF TypeOK, FinishFront, FrontHalted
  <2> QED BY <1>1, <2>1 DEF TypeOK, FinishFront, Finish, States, loop, lists, cells, os
<1>2. CASE CheckJoining
  <2> DEFINE done == {i \in DOMAIN joining : state[joining[i].on] = "finished"}
  <2>1. CASE JoinDue
    <3>1. PICK up \in Sublist(joining, done) :
            joining' \in Sublist(joining, DOMAIN joining \ done) /\ Wake(up)
      BY <1>2, <2>1 DEF CheckJoining
    <3>2. joining \in Seq([vp : VProcs, on : VProcs])
      BY DEF TypeOK
    <3>3. up \in Seq([vp : VProcs, on : VProcs]) /\ joining' \in Seq([vp : VProcs, on : VProcs])
      BY <3>1, <3>2, SublistOf
    <3>4. ready' \in Seq(VProcs) /\ state' \in [VProcs -> States]
      BY <3>1, <3>3, WakeSound DEF TypeOK
    <3> QED BY <1>2, <2>1, <3>3, <3>4 DEF TypeOK, CheckJoining, loop, progs, cells, os
  <2>2. CASE ~JoinDue
    BY <1>2, <2>2 DEF TypeOK, CheckJoining, queue, loop, progs, cells, os
  <2> QED BY <2>1, <2>2
<1>3. CASE CheckLazy
  <2> DEFINE free == {i \in DOMAIN lazy : ~BeingEvaluated(lazy[i].on)}
  <2>1. PICK up \in Sublist(lazy, free) :
          lazy' \in Sublist(lazy, DOMAIN lazy \ free) /\ Wake(up)
    BY <1>3 DEF CheckLazy
  <2>2. lazy \in Seq([vp : VProcs, on : Lazies])
    BY DEF TypeOK
  <2>3. up \in Seq([vp : VProcs, on : Lazies]) /\ lazy' \in Seq([vp : VProcs, on : Lazies])
    BY <2>1, <2>2, SublistOf
  <2>4. ready' \in Seq(VProcs) /\ state' \in [VProcs -> States]
    BY <2>1, <2>3, WakeSound DEF TypeOK
  <2> QED BY <1>3, <2>3, <2>4 DEF TypeOK, CheckLazy, loop, progs, cells, os
<1>4. CASE CheckChanges
  <2> DEFINE C == [vp : VProcs, on : Refs \cup Lazies,
                   old : (0 .. MaxValue) \cup {Unmade, Thunk, Cell} \cup VProcs]
  <2>0. CheckInterrupts /\ ref' \in [Refs -> 0 .. MaxValue] /\ seen' \in 0 .. sigints
    BY <1>4, CheckInterruptsSound DEF CheckChanges
  <2>1. CASE changes # <<>> /\ Flag
    <3> DEFINE moved == {i \in DOMAIN changes :
                          (IF changes[i].on \in Refs THEN ref'[changes[i].on]
                           ELSE val[changes[i].on]) # changes[i].old}
    <3>1. PICK up \in Sublist(changes, moved) :
            changes' \in Sublist(changes, DOMAIN changes \ moved) /\ Wake(up)
      BY <1>4, <2>1 DEF CheckChanges
    <3>2. changes \in Seq(C)
      BY DEF TypeOK
    <3>3. up \in Seq(C) /\ changes' \in Seq(C)
      BY <3>1, <3>2, SublistOf
    <3>4. ready' \in Seq(VProcs) /\ state' \in [VProcs -> States]
      BY <3>1, <3>3, WakeSound DEF TypeOK
    <3> QED BY <1>4, <2>0, <2>1, <3>3, <3>4 DEF TypeOK, CheckChanges, loop, progs
  <2>2. CASE ~(changes # <<>> /\ Flag)
    <3>1. refChanged' \in BOOLEAN
      BY <1>4, <2>2 DEF TypeOK, CheckChanges, Flag, Interrupted
    <3> QED BY <1>4, <2>0, <2>2, <3>1 DEF TypeOK, CheckChanges, loop, progs
  <2> QED BY <2>1, <2>2
<1>5. CASE OsSleep
  <2>1. unpolled' \in 0 .. PollInterval
    BY <1>5, NumberAssumption DEF OsSleep
  <2> QED BY <1>5, <2>1, CheckWaitingSound DEF TypeOK, OsSleep, CheckWaiting, loop, progs
<1>6. CASE OsPoll
  <2>1. unpolled' \in 0 .. PollInterval
    BY <1>6, NumberAssumption DEF OsPoll
  <2> QED BY <1>6, <2>1, CheckWaitingSound DEF TypeOK, OsPoll, CheckWaiting, loop, progs
<1>7. CASE OsSkip
  <2>1. unpolled' \in 0 .. PollInterval
    BY <1>7, NumberAssumption DEF TypeOK, OsSkip, PollDue
  <2> QED BY <1>7, <2>1 DEF TypeOK, OsSkip, loop, queue, lists, progs, cells
<1>8. CASE SignalSleep
  BY <1>8, CheckWaitingSound DEF TypeOK, SignalSleep, CheckWaiting, loop, progs
<1>9. CASE Stop
  BY <1>9 DEF TypeOK, Stop, queue, lists, progs, cells, os
<1>10. CASE Dispatch
  <2>1. PICK i \in DOMAIN ready :
          LET v == ready[i]
          IN IF Seeded /\ Len(ready) > 1 /\ Terminal(v)
             THEN ready' = <<v>> \o RemoveAt(ready, i) /\ pc' = "front" /\ UNCHANGED <<cur, state>>
             ELSE /\ ready' = RemoveAt(ready, i) /\ pc' = "run"
                  /\ state' = [state EXCEPT ![v] = "running"] /\ cur' = v
    BY <1>10 DEF Dispatch
  <2>2. ready[i] \in VProcs /\ RemoveAt(ready, i) \in Seq(VProcs)
    BY RemoveAtType DEF TypeOK
  <2>3. <<ready[i]>> \o RemoveAt(ready, i) \in Seq(VProcs)
    BY <2>2
  <2>4. /\ ready' \in Seq(VProcs) /\ cur' \in VProcs \cup {None}
        /\ state' \in [VProcs -> States] /\ pc' \in {"front", "run"}
    BY <2>1, <2>2, <2>3 DEF TypeOK, States
  <2> QED BY <1>10, <2>4 DEF TypeOK, Dispatch, lists, progs, cells, os
<1> QED
  BY <1>1, <1>2, <1>3, <1>4, <1>5, <1>6, <1>7, <1>8, <1>9, <1>10 DEF Schedule

\* The last action of a step: cur is the VProc that has run.
LEMMA AfterType ==
  ASSUME TypeOK, cur \in VProcs, After
  PROVE  TypeOK'
<1> USE DEF TypeOK, Leaves, Forget, loop
<1>1. CASE AfterKill
  BY <1>1, KillNowSound DEF AfterKill, Evaluating, cells, os, KillNow, Finish
<1>2. CASE AfterStop
  BY <1>2 DEF AfterStop, Evaluating, queue, lists, cells, os
<1>3. CASE AfterHalt
  BY <1>3 DEF AfterHalt, Evaluating, Finish, States, lists, cells, os
<1>4. CASE AfterAlone
  BY <1>4 DEF AfterAlone, Evaluating, queue, lists, cells, os
<1>5. CASE AfterYield
  <2>1. ready' \in Seq(VProcs)
    BY <1>5 DEF AfterYield
  <2>2. state' \in [VProcs -> States] /\ claims' \in [VProcs -> SUBSET Lazies]
    BY <1>5 DEF AfterYield, Evaluating, States
  <2> QED BY <1>5, <2>1, <2>2 DEF AfterYield, lists, cells, os
<1> QED BY <1>1, <1>2, <1>3, <1>4, <1>5 DEF After

LEMMA StepType ==
  ASSUME TypeOK, NEW v \in VProcs, Step(v)
  PROVE  TypeOK'
<1> USE DEF TypeOK, Runs, PrimReturn, Control, loop
<1>1. CASE Compute(v)
  <2>1. Chains(v) \subseteq Cells
    BY DEF Chains, Pushed
  <2> QED BY <1>1, <2>1 DEF Compute, queue, lists, cells, os
<1>2. CASE Fail(v)
  BY <1>2 DEF Fail, FailWith, Finish, States, lists, cells, os
<1>3. CASE NullReturn(v)
  <2>1. Tail(chain[v]) \in Cells
    BY <1>3, TailCells DEF NullReturn
  <2> QED BY <1>3, <2>1 DEF NullReturn, queue, lists, cells, os
<1>4. CASE NullFail(v)
  BY <1>4 DEF NullFail, FailWith, Finish, States, lists, cells, os
<1>5. CASE Exit(v)
  BY <1>5 DEF Exit, queue, lists, progs, cells, os
<1>6. ASSUME NEW t \in VProcs, Start(v, t)
      PROVE  TypeOK'
  <2>1. ready' \in Seq(VProcs)
    BY <1>6 DEF Start
  <2> QED BY <1>6, <2>1 DEF Start, States, lists, cells, os
<1>7. ASSUME NEW t \in VProcs, Suspend(v, t)
      PROVE  TypeOK'
  <2>1. ready' \in Seq(VProcs)
    BY <1>7, DequeueType DEF Suspend
  <2> QED BY <1>7, <2>1 DEF Suspend, States, lists, cells, os
<1>8. ASSUME NEW t \in VProcs, Resume(v, t)
      PROVE  TypeOK'
  <2>1. CASE Resumable(t)
    <3>1. ready' = Append(ready, t) /\ state' = [state EXCEPT ![t] = "ready"]
      BY <1>8, <2>1 DEF Resume
    <3>2. ready' \in Seq(VProcs)
      BY <3>1, AppendType
    <3>3. state' \in [VProcs -> States]
      BY <3>1 DEF States
    <3> QED BY <1>8, <3>2, <3>3 DEF Resume, lists, cells, os
  <2>2. CASE ~Resumable(t)
    BY <1>8, <2>2 DEF Resume, lists, cells, os
  <2> QED BY <2>1, <2>2
<1>9. ASSUME NEW t \in VProcs, Join(v, t)
      PROVE  TypeOK'
  <2>1. CASE state[t] # "finished"
    <3>1. joining' = Append(joining, [vp |-> v, on |-> t]) /\ MakeWaiting(v)
      BY <1>9, <2>1 DEF Join
    <3>2. joining' \in Seq([vp : VProcs, on : VProcs])
      BY <3>1, AppendType
    <3>3. state' \in [VProcs -> States]
      BY <3>1 DEF MakeWaiting, States
    <3> QED BY <1>9, <3>2, <3>3 DEF Join, cells, os
  <2>2. CASE state[t] = "finished"
    BY <1>9, <2>2 DEF Join, cells, os
  <2> QED BY <2>1, <2>2
<1>10. ASSUME NEW t \in VProcs, Kill(v, t)
       PROVE  TypeOK'
  <2>0. Evaluating(t) \in SUBSET Lazies
    BY DEF Evaluating
  <2>1. CASE state[t] = "finished"
    BY <1>10, <2>1 DEF Kill, queue, lists, cells, os
  <2>2. CASE state[t] # "finished" /\ Evaluating(t) # {}
    <3>1. /\ claims' = [claims EXCEPT ![t] = Evaluating(t)]
          /\ killPending' = [killPending EXCEPT ![t] = TRUE]
          /\ UNCHANGED <<queue, lists, ended>>
      BY <1>10, <2>2 DEF Kill
    <3>2. claims' \in [VProcs -> SUBSET Lazies] /\ killPending' \in [VProcs -> BOOLEAN]
      BY <2>0, <3>1
    <3> QED BY <1>10, <3>1, <3>2 DEF Kill, queue, lists, cells, os
  <2>3. CASE state[t] # "finished" /\ Evaluating(t) = {}
    <3>1. /\ KillNow(t) /\ UNCHANGED killPending
          /\ claims' = [claims EXCEPT ![t] = Evaluating(t)]
      BY <1>10, <2>3 DEF Kill
    <3>2. claims' \in [VProcs -> SUBSET Lazies]
      BY <2>0, <3>1
    <3> QED BY <1>10, <3>1, <3>2, KillNowSound DEF Kill, cells, os
  <2> QED BY <2>1, <2>2, <2>3
<1>11. ASSUME NEW r \in Refs, NEW x \in 0 .. MaxValue, RefSet(v, r, x)
       PROVE  TypeOK'
  BY <1>11 DEF RefSet, queue, lists, os
<1>12. ASSUME NEW r \in Refs \cup Lazies, NEW x \in Value(r), RefWaitChange(v, r, x)
       PROVE  TypeOK'
  <2>1. x \in (0 .. MaxValue) \cup {Unmade, Thunk, Cell} \cup VProcs
    BY DEF Value
  <2>2. CASE Current(r) = x
    <3>1. changes' = Append(changes, [vp |-> v, on |-> r, old |-> x]) /\ MakeWaiting(v)
      BY <1>12, <2>2 DEF RefWaitChange
    <3>2. changes' \in Seq([vp : VProcs, on : Refs \cup Lazies,
                            old : (0 .. MaxValue) \cup {Unmade, Thunk, Cell} \cup VProcs])
      BY <2>1, <3>1, AppendType
    <3>3. state' \in [VProcs -> States]
      BY <3>1 DEF MakeWaiting, States
    <3> QED BY <1>12, <3>2, <3>3 DEF RefWaitChange, cells, os
  <2>3. CASE Current(r) # x
    BY <1>12, <2>3 DEF RefWaitChange, cells, os
  <2> QED BY <2>2, <2>3
<1>13. ASSUME NEW l \in Lazies, NEW c \in Control, ClaimThunk(v, l, c)
       PROVE  TypeOK'
  <2>1. info' \in [Lazies -> Marks]
    BY <1>13 DEF ClaimThunk, MarkClaimed, Marks
  <2> QED BY <1>13, <2>1 DEF ClaimThunk, Claims, MarkClaimed, queue, lists, os
<1>14. ASSUME NEW l \in Lazies, NEW c \in Control, ClaimCell(v, l, c) \/ ClaimError(v, l, c)
       PROVE  TypeOK'
  <2>1. CASE ClaimCell(v, l, c)
    BY <2>1 DEF ClaimCell, Claims, queue, lists, cells, os
  <2>2. CASE ClaimError(v, l, c)
    BY <2>2 DEF ClaimError, Claims, queue, lists, cells, os
  <2> QED BY <1>14, <2>1, <2>2
<1>15. ASSUME NEW l \in Lazies, NEW c \in Control, ClaimWait(v, l, c)
       PROVE  TypeOK'
  <2>1. lazy' \in Seq([vp : VProcs, on : Lazies])
    BY <1>15 DEF ClaimWait
  <2> QED BY <1>15, <2>1 DEF ClaimWait, Claims, MakeWaiting, States, cells, os
<1>16. ASSUME NEW l \in Lazies, Hold(v, l)
       PROVE  TypeOK'
  <2>1. info' \in [Lazies -> Marks]
    BY <1>16, EmptyCells DEF Hold, Marks
  <2> QED BY <1>16, <2>1 DEF Hold, queue, lists, os
<1>17. ASSUME NEW l \in Lazies, Publish(v, l)
       PROVE  TypeOK'
  <2>1. info' \in [Lazies -> Marks]
    BY <1>17, EmptyCells DEF Publish, NoMark, Marks
  <2>2. claims' \in [VProcs -> SUBSET Lazies]
    BY <1>17 DEF Publish, Evaluating
  <2>3. CASE UNCHANGED <<queue, lists, ended>>
    BY <1>17, <2>1, <2>2, <2>3 DEF Publish, queue, lists, os
  <2>4. CASE KillNow(v)
    BY <1>17, <2>1, <2>2, <2>4, KillNowSound DEF Publish, os
  <2> QED BY <1>17, <2>3, <2>4 DEF Publish
<1>18. ASSUME NEW t \in Targets, OsWait(v, t)
       PROVE  TypeOK'
  <2>1. CASE t \notin fired
    <3>1. waiting' = Append(waiting, [vp |-> v, on |-> t]) /\ MakeWaiting(v)
      BY <1>18, <2>1 DEF OsWait
    <3>2. waiting' \in Seq([vp : VProcs, on : Targets])
      BY <3>1, AppendType
    <3>3. state' \in [VProcs -> States]
      BY <3>1 DEF MakeWaiting, States
    <3> QED BY <1>18, <3>2, <3>3 DEF OsWait, cells, os
  <2>2. CASE t \in fired
    BY <1>18, <2>2 DEF OsWait, cells, os
  <2> QED BY <2>1, <2>2
<1>19. ASSUME NEW t \in Targets, ReadStream(v, t)
       PROVE  TypeOK'
  BY <1>19 DEF ReadStream, queue, lists, cells
<1>20. ASSUME NEW r \in Refs, TrapInterrupt(v, r)
       PROVE  TypeOK'
  BY <1>20, NumberAssumption DEF TrapInterrupt, queue, lists, cells
<1> QED
  BY <1>1, <1>2, <1>3, <1>4, <1>5, <1>6, <1>7, <1>8, <1>9, <1>10, <1>11, <1>12, <1>13,
     <1>14, <1>15, <1>16, <1>17, <1>18, <1>19, <1>20
  DEF Step

\* What a step leaves behind for the next phase: while a VProc runs or has just
\* run, cur is that VProc.
TypeInv == TypeOK /\ (pc \in {"run", "after"} => cur \in VProcs)

LEMMA InitType == Init => TypeInv
<1> SUFFICES ASSUME Init PROVE TypeInv
  OBVIOUS
<1>1. ready \in Seq(VProcs) /\ state \in [VProcs -> States]
  BY MainAssumption DEF Init, States
<1>2. chain \in [VProcs -> Cells] /\ ctl \in [VProcs -> Control]
  BY EmptyCells DEF Init, Control
<1>3. info \in [Lazies -> Marks]
  BY EmptyCells DEF Init, NoMark, Marks
<1>4. val \in [Lazies -> {Unmade, Thunk, Cell} \cup VProcs] /\ ref \in [Refs -> 0 .. MaxValue]
  BY NumberAssumption DEF Init
<1>5. /\ unpolled \in 0 .. PollInterval /\ seen \in 0 .. sigints
      /\ sigints \in 0 .. MaxInterrupts
  BY NumberAssumption DEF Init
<1>6. /\ joining \in Seq([vp : VProcs, on : VProcs]) /\ lazy \in Seq([vp : VProcs, on : Lazies])
      /\ changes \in Seq([vp : VProcs, on : Refs \cup Lazies,
                          old : (0 .. MaxValue) \cup {Unmade, Thunk, Cell} \cup VProcs])
      /\ waiting \in Seq([vp : VProcs, on : Targets])
  BY EmptySeq DEF Init
<1>7. /\ claims \in [VProcs -> SUBSET Lazies] /\ killPending \in [VProcs -> BOOLEAN]
      /\ ended \in [VProcs -> {"no", "normal", "error", "killed"}]
  BY DEF Init
<1>8. TypeOK
  BY <1>1, <1>2, <1>3, <1>4, <1>5, <1>6, <1>7 DEF Init, TypeOK
<1> QED BY <1>8 DEF Init, TypeInv

LEMMA NextType == TypeInv /\ [Next]_vars => TypeInv'
<1> SUFFICES ASSUME TypeInv, [Next]_vars PROVE TypeInv'
  OBVIOUS
<1>0. TypeOK
  BY DEF TypeInv
<1>1. CASE Schedule
  <2>1. TypeOK'
    BY <1>0, <1>1, ScheduleType
  <2>2. pc' \in {"run", "after"} => cur' \in VProcs
    <3>1. CASE Dispatch
      BY <1>0, <3>1 DEF Dispatch, TypeOK
    <3>2. CASE ~Dispatch
      BY <1>1, <3>2 DEF Schedule, FinishFront, CheckJoining, CheckLazy, CheckChanges,
         OsSleep, OsPoll, OsSkip, SignalSleep, Stop
    <3> QED BY <3>1, <3>2
  <2> QED BY <2>1, <2>2 DEF TypeInv
<1>2. CASE After
  <2>1. cur \in VProcs
    BY <1>2 DEF TypeInv, After, AfterKill, AfterStop, AfterHalt, AfterAlone, AfterYield, Leaves
  <2>2. TypeOK'
    BY <1>0, <1>2, <2>1, AfterType
  <2>3. pc' = "run" => cur' \in VProcs
    BY <1>2, <2>1 DEF After, AfterKill, AfterStop, AfterHalt, AfterAlone, AfterYield, Leaves, loop
  <2>4. pc' # "after"
    BY <1>2 DEF After, AfterKill, AfterStop, AfterHalt, AfterAlone, AfterYield, Leaves
  <2> QED BY <2>2, <2>3, <2>4 DEF TypeInv
<1>3. ASSUME NEW v \in VProcs, Step(v) PROVE TypeInv'
  <2>1. TypeOK'
    BY <1>0, <1>3, StepType
  <2>2. \/ pc' = "after" /\ cur' = v
       \/ pc' = "stopped"
    BY <1>3, ZenonT(60) DEF Step, Compute, Fail, FailWith, NullReturn, NullFail, Exit, Start, Suspend,
       Resume, Join, Kill, RefSet, RefWaitChange, ClaimThunk, ClaimCell, ClaimError,
       ClaimWait, Claims, Hold, Publish, OsWait, ReadStream, TrapInterrupt, Runs, loop
  <2> QED BY <2>1, <2>2 DEF TypeInv
<1>4. CASE \E t \in Targets : Fire(t)
  BY <1>0, <1>4 DEF TypeInv, TypeOK, Fire, loop, queue, lists, progs, cells
<1>5. CASE Interrupt
  BY <1>0, <1>5, NumberAssumption
  DEF TypeInv, TypeOK, Interrupt, loop, queue, lists, progs, cells
<1>6. CASE UNCHANGED vars
  BY <1>0, <1>6 DEF TypeInv, TypeOK, vars, loop, queue, lists, progs, cells, os
<1> QED BY <1>1, <1>2, <1>3, <1>4, <1>5, <1>6 DEF Next, Machine, Stopped

\* Every variable has a value of its type in every reachable state; unpolled
\* never passes POLL_INTERVAL, and no counted SIGINT is one that did not come.
THEOREM TypeCorrect == Spec => []TypeOK
<1>1. Spec => []TypeInv
  BY InitType, NextType, PTL DEF Spec
<1> QED BY <1>1, PTL DEF TypeInv

----------------------------------------------------------------------------
(***************************************************************************)
(* No join is missed.  PromptJoin is not inductive: check_joining is       *)
(* skipped unless finished_any is set, so the proof needs that no way to   *)
(* finish forgets it (FinishSeen).                                         *)
(***************************************************************************)

\* A VProc that others wait for finishes only with finished_any set, and
\* finished_any stays set until check_joining.
FinishSeen == \A i \in DOMAIN joining : state[joining[i].on] = "finished" => finishedAny

JoinInv == FinishSeen /\ PromptJoin

\* No VProc finishes, and nobody looks at those that wait for one.
Quiet ==
  /\ UNCHANGED <<joining, finishedAny>>
  /\ \A v \in VProcs : state'[v] = "finished" => state[v] = "finished"

\* The VProcs waited for are VProcs.
LEMMA JoiningType ==
  ASSUME TypeOK
  PROVE  \A i \in DOMAIN joining : joining[i].on \in VProcs
<1> DEFINE R == [vp : VProcs, on : VProcs]
<1>1. joining \in Seq(R)
  BY DEF TypeOK
<1> HIDE DEF R
<1>2. \A i \in DOMAIN joining : joining[i] \in R
  BY <1>1
<1> QED BY <1>2 DEF R

LEMMA QuietJoin ==
  ASSUME TypeOK, JoinInv, Quiet,
         pc' \in {"lazy", "changes", "os", "pick", "run"} =>
           pc \in {"lazy", "changes", "os", "pick", "run"}
  PROVE  JoinInv'
BY JoiningType DEF JoinInv, FinishSeen, PromptJoin, Quiet

\* A step that sets finished_any is followed by a pass of the loop.
LEMMA FinishJoin ==
  ASSUME finishedAny', pc' \notin {"lazy", "changes", "os", "pick", "run"}
  PROVE  JoinInv'
BY DEF JoinInv, FinishSeen, PromptJoin

LEMMA ScheduleJoin ==
  ASSUME TypeOK, JoinInv, Schedule
  PROVE  JoinInv'
<1>1. CASE FinishFront
  BY <1>1, FinishJoin DEF FinishFront, Finish
<1>2. CASE CheckJoining
  <2> DEFINE done == {i \in DOMAIN joining : state[joining[i].on] = "finished"}
             R == [vp : VProcs, on : VProcs]
  <2>1. joining \in Seq(R)
    BY DEF TypeOK
  <2>2. CASE JoinDue
    <3>1. PICK up \in Sublist(joining, done) :
            joining' \in Sublist(joining, DOMAIN joining \ done) /\ Wake(up)
      BY <1>2, <2>2 DEF CheckJoining
    <3>2. up \in Seq(R)
      BY <2>1, <3>1, SublistOf
    <3>3. \A v \in VProcs : state'[v] = state[v] \/ state'[v] = "ready"
      BY <3>1, <3>2, WakeSound DEF TypeOK
    <3>4. \A k \in DOMAIN joining' : \E i \in DOMAIN joining \ done : joining'[k] = joining[i]
      BY <2>1, <3>1, SublistOf
    <3>5. \A k \in DOMAIN joining' : state'[joining'[k].on] # "finished"
      <4> SUFFICES ASSUME NEW k \in DOMAIN joining'
                   PROVE  state'[joining'[k].on] # "finished"
        OBVIOUS
      <4>1. PICK i \in DOMAIN joining \ done : joining'[k] = joining[i]
        BY <3>4
      <4>2. state[joining[i].on] # "finished" /\ joining[i].on \in VProcs
        BY JoiningType
      <4> QED BY <3>3, <4>1, <4>2
    <3> QED BY <3>5 DEF JoinInv, FinishSeen, PromptJoin
  <2>3. CASE ~JoinDue
    <3>1. UNCHANGED <<joining, state, finishedAny>>
      BY <1>2, <2>3 DEF CheckJoining, queue
    <3>2. \A i \in DOMAIN joining : state[joining[i].on] # "finished"
      BY <2>1, <2>3 DEF JoinDue, JoinInv, FinishSeen
    <3> QED BY <3>1, <3>2 DEF JoinInv, FinishSeen, PromptJoin
  <2> QED BY <2>2, <2>3
<1>3. CASE CheckLazy
  <2>1. PICK up \in Sublist(lazy, {i \in DOMAIN lazy : ~BeingEvaluated(lazy[i].on)}) : Wake(up)
    BY <1>3 DEF CheckLazy
  <2>2. up \in Seq([vp : VProcs, on : Lazies])
    BY <2>1, SublistOf DEF TypeOK
  <2>3. Quiet
    BY <1>3, <2>1, <2>2, WakeSound DEF CheckLazy, Quiet, TypeOK
  <2> QED BY <1>3, <2>3, QuietJoin DEF CheckLazy
<1>4. CASE CheckChanges
  <2> DEFINE C == [vp : VProcs, on : Refs \cup Lazies,
                   old : (0 .. MaxValue) \cup {Unmade, Thunk, Cell} \cup VProcs]
             moved == {i \in DOMAIN changes :
                        (IF changes[i].on \in Refs THEN ref'[changes[i].on]
                         ELSE val[changes[i].on]) # changes[i].old}
  <2>1. CASE changes # <<>> /\ Flag
    <3>1. PICK up \in Sublist(changes, moved) : Wake(up)
      BY <1>4, <2>1 DEF CheckChanges
    <3>2. changes \in Seq(C)
      BY DEF TypeOK
    <3>3. up \in Seq(C)
      BY <3>1, <3>2, SublistOf
    <3>4. Quiet
      BY <1>4, <3>1, <3>3, WakeSound DEF CheckChanges, Quiet, TypeOK
    <3> QED BY <1>4, <3>4, QuietJoin DEF CheckChanges
  <2>2. CASE ~(changes # <<>> /\ Flag)
    <3>1. Quiet
      BY <1>4, <2>2 DEF CheckChanges, Quiet
    <3> QED BY <1>4, <3>1, QuietJoin DEF CheckChanges
  <2> QED BY <2>1, <2>2
<1>5. CASE OsSleep \/ OsPoll \/ SignalSleep
  <2>1. CheckWaiting /\ pc \in {"os", "pick"}
    BY <1>5 DEF OsSleep, OsPoll, SignalSleep
  <2>2. Quiet
    BY <2>1, CheckWaitingSound DEF CheckWaiting, Quiet
  <2> QED BY <2>1, <2>2, QuietJoin
<1>6. CASE OsSkip
  BY <1>6, QuietJoin DEF OsSkip, Quiet, queue, lists
<1>7. CASE Stop
  BY <1>7, QuietJoin DEF Stop, Quiet, queue, lists
<1>8. CASE Dispatch
  <2>1. Quiet
    BY <1>8 DEF Dispatch, Quiet, lists, TypeOK
  <2> QED BY <1>8, <2>1, QuietJoin DEF Dispatch
<1> QED BY <1>1, <1>2, <1>3, <1>4, <1>5, <1>6, <1>7, <1>8 DEF Schedule

LEMMA AfterJoin ==
  ASSUME TypeOK, cur \in VProcs, JoinInv, After
  PROVE  JoinInv'
<1>1. CASE AfterKill
  BY <1>1, FinishJoin DEF AfterKill, KillNow, Finish, Leaves
<1>2. CASE AfterStop
  BY <1>2, QuietJoin DEF AfterStop, Quiet, queue, lists, Leaves
<1>3. CASE AfterHalt
  BY <1>3, FinishJoin DEF AfterHalt, Finish, Leaves
<1>4. CASE AfterAlone
  BY <1>4 DEF AfterAlone, RunsAlone, JoinInv, FinishSeen, PromptJoin, lists
<1>5. CASE AfterYield
  <2>1. Quiet
    BY <1>5 DEF AfterYield, Quiet, lists, TypeOK
  <2> QED BY <1>5, <2>1, QuietJoin DEF AfterYield, Leaves
<1> QED BY <1>1, <1>2, <1>3, <1>4, <1>5 DEF After

LEMMA StepJoin ==
  ASSUME TypeOK, NEW v \in VProcs, JoinInv, Step(v)
  PROVE  JoinInv'
<1>0. pc' \notin {"lazy", "changes", "os", "pick", "run"}
  BY ZenonT(60) DEF Step, Compute, Fail, FailWith, NullReturn, NullFail, Exit, Start, Suspend,
     Resume, Join, Kill, RefSet, RefWaitChange, ClaimThunk, ClaimCell, ClaimError,
     ClaimWait, Claims, Hold, Publish, OsWait, ReadStream, TrapInterrupt, Runs
<1> HIDE DEF PromptJoin
<1>1. CASE Fail(v) \/ NullFail(v)
  BY <1>0, <1>1, FinishJoin DEF Fail, NullFail, FailWith, Finish
<1>2. ASSUME NEW t \in VProcs, Join(v, t)
      PROVE  JoinInv'
  <2>1. CASE state[t] = "finished"
    BY <1>0, <1>2, <2>1, QuietJoin DEF Join, Quiet
  <2>2. CASE state[t] # "finished"
    <3>1. joining' = Append(joining, [vp |-> v, on |-> t]) /\ MakeWaiting(v)
          /\ UNCHANGED finishedAny
      BY <1>2, <2>2 DEF Join
    <3>2. \A u \in VProcs : state'[u] = "finished" => state[u] = "finished"
      BY <3>1 DEF MakeWaiting, TypeOK
    <3>3. joining \in Seq([vp : VProcs, on : VProcs])
      BY DEF TypeOK
    <3>4. \A k \in DOMAIN joining' :
            joining'[k].on = t \/ (k \in DOMAIN joining /\ joining'[k] = joining[k])
      BY <3>1, <3>3
    <3>5. FinishSeen'
      BY <2>2, <3>1, <3>2, <3>4, JoiningType DEF FinishSeen, JoinInv
    <3> QED BY <1>0, <3>5 DEF JoinInv, PromptJoin
  <2> QED BY <2>1, <2>2
<1>3. ASSUME NEW t \in VProcs, Kill(v, t)
      PROVE  JoinInv'
  <2>1. CASE state[t] = "finished" \/ Evaluating(t) # {}
    BY <1>0, <1>3, <2>1, QuietJoin DEF Kill, Quiet, queue, lists
  <2>2. CASE state[t] # "finished" /\ Evaluating(t) = {}
    BY <1>0, <1>3, <2>2, FinishJoin DEF Kill, KillNow, Finish
  <2> QED BY <2>1, <2>2
<1>4. ASSUME NEW l \in Lazies, Publish(v, l)
      PROVE  JoinInv'
  <2>1. CASE UNCHANGED <<queue, lists, ended>>
    BY <1>0, <2>1, QuietJoin DEF Quiet, queue, lists
  <2>2. CASE KillNow(v)
    BY <1>0, <2>2, FinishJoin DEF KillNow, Finish
  <2> QED BY <1>4, <2>1, <2>2 DEF Publish
<1>5. ASSUME NEW t \in VProcs, Start(v, t) \/ Suspend(v, t) \/ Resume(v, t)
      PROVE  JoinInv'
  <2>1. Quiet
    BY <1>5 DEF Start, Suspend, Resume, Quiet, lists, TypeOK
  <2> QED BY <1>0, <2>1, QuietJoin
<1>6. ASSUME NEW l \in Lazies, NEW c \in Control,
             ClaimThunk(v, l, c) \/ ClaimCell(v, l, c) \/ ClaimError(v, l, c)
      PROVE  JoinInv'
  BY <1>0, <1>6, QuietJoin DEF ClaimThunk, ClaimCell, ClaimError, Quiet, queue, lists
<1>7. ASSUME NEW l \in Lazies, NEW c \in Control, ClaimWait(v, l, c)
      PROVE  JoinInv'
  <2>1. Quiet
    BY <1>7 DEF ClaimWait, MakeWaiting, Quiet, TypeOK
  <2> QED BY <1>0, <2>1, QuietJoin
<1>8. ASSUME NEW x, NEW y, RefWaitChange(v, x, y) \/ OsWait(v, x)
      PROVE  JoinInv'
  <2>1. Quiet
    BY <1>8 DEF RefWaitChange, OsWait, MakeWaiting, Quiet, TypeOK
  <2> QED BY <1>0, <2>1, QuietJoin
<1>9. ASSUME NEW x, NEW y, \/ Compute(v) \/ NullReturn(v) \/ Exit(v) \/ RefSet(v, x, y)
                           \/ Hold(v, x) \/ ReadStream(v, x) \/ TrapInterrupt(v, x)
      PROVE  JoinInv'
  <2>1. Quiet
    BY <1>9 DEF Compute, NullReturn, Exit, RefSet, Hold, ReadStream, TrapInterrupt,
       Quiet, queue, lists
  <2> QED BY <1>0, <2>1, QuietJoin
<1> QED BY <1>1, <1>2, <1>3, <1>4, <1>5, <1>6, <1>7, <1>8, <1>9 DEF Step

LEMMA NextJoin == TypeInv /\ JoinInv /\ [Next]_vars => JoinInv'
<1> SUFFICES ASSUME TypeInv, JoinInv, [Next]_vars PROVE JoinInv'
  OBVIOUS
<1>0. TypeOK
  BY DEF TypeInv
<1>1. CASE Schedule
  BY <1>0, <1>1, ScheduleJoin
<1>2. CASE After
  <2>1. cur \in VProcs
    BY <1>2 DEF TypeInv, After, AfterKill, AfterStop, AfterHalt, AfterAlone, AfterYield, Leaves
  <2> QED BY <1>0, <1>2, <2>1, AfterJoin
<1>3. ASSUME NEW v \in VProcs, Step(v) PROVE JoinInv'
  BY <1>0, <1>3, StepJoin
<1>4. CASE (\E t \in Targets : Fire(t)) \/ Interrupt \/ UNCHANGED vars
  <2>1. Quiet /\ pc' = pc
    BY <1>4 DEF Fire, Interrupt, Quiet, vars, queue, lists
  <2> QED BY <1>0, <2>1, QuietJoin
<1> QED BY <1>1, <1>2, <1>3, <1>4 DEF Next, Machine, Stopped

\* A VProc that waits for a finished one (__VProc_wait__) is woken before any
\* VProc runs its next step, though check_joining runs only after finished_any
\* was set, and a VProc that runs alone skips it altogether.
THEOREM JoinIsPrompt == Spec => []PromptJoin
<1>1. Spec => []TypeInv
  BY InitType, NextType, PTL DEF Spec
<1>2. Init => JoinInv
  BY DEF Init, JoinInv, FinishSeen, PromptJoin
<1>3. Spec => []JoinInv
  BY <1>1, <1>2, NextJoin, PTL DEF Spec
<1> QED BY <1>3, PTL DEF JoinInv

----------------------------------------------------------------------------
(***************************************************************************)
(* No change of a Ref is missed: check_changes is skipped unless           *)
(* ref_changed is set, so a VProc waits for a change that came only while  *)
(* it is.                                                                  *)
(***************************************************************************)

\* Every VProc that waits for a Ref has seen its present value.
Settled == \A i \in DOMAIN changes : changes[i].on \in Refs => ref[changes[i].on] = changes[i].old

\* No Ref is set, and nobody begins to wait for one.
Calm ==
  /\ UNCHANGED ref /\ refChanged' = refChanged
  /\ \A k \in DOMAIN changes' : \E i \in DOMAIN changes : changes'[k] = changes[i]

ChangeInv ==
  /\ ~refChanged => Settled
  /\ (MaxInterrupts = 0 \/ trap = None) /\ pc \in {"os", "pick", "run"} => Settled

LEMMA CalmChange ==
  ASSUME ChangeInv, Calm,
         pc' \in {"os", "pick", "run"} => pc \in {"os", "pick", "run"} /\ UNCHANGED trap
  PROVE  ChangeInv'
<1>1. Settled => Settled'
  BY DEF Settled, Calm
<1> QED BY <1>1 DEF ChangeInv, Calm

\* kill_now takes entries out of the list, and so do the checks.
LEMMA PartOfChanges ==
  ASSUME TypeOK, NEW I \in SUBSET DOMAIN changes, changes' \in Sublist(changes, I)
  PROVE  \A k \in DOMAIN changes' : \E i \in I : changes'[k] = changes[i]
<1> DEFINE C == [vp : VProcs, on : Refs \cup Lazies,
                 old : (0 .. MaxValue) \cup {Unmade, Thunk, Cell} \cup VProcs]
<1>1. changes \in Seq(C)
  BY DEF TypeOK
<1> QED BY <1>1, SublistOf

LEMMA KillNowCalm ==
  ASSUME TypeOK, NEW v \in VProcs, KillNow(v)
  PROVE  \A k \in DOMAIN changes' : \E i \in DOMAIN changes : changes'[k] = changes[i]
BY PartOfChanges DEF KillNow, Without

\* Without SIGINTs, or before a program asks for them, nothing else sets a Ref.
LEMMA NoInterrupt ==
  ASSUME TypeOK, MaxInterrupts = 0 \/ trap = None
  PROVE  ~Interrupted
BY NumberAssumption DEF TypeOK, Interrupted

\* check_waiting sets the Ref of __OS_trap_interrupt__ and ref_changed together.
LEMMA CheckWaitingChange ==
  ASSUME TypeOK, ChangeInv, CheckWaiting, pc \in {"os", "pick"}
  PROVE  ChangeInv'
<1>1. CASE Interrupted
  BY <1>1, NoInterrupt DEF ChangeInv, CheckWaiting, Flag, TypeOK
<1>2. CASE ~Interrupted
  <2>1. UNCHANGED <<ref, changes, refChanged, trap>>
    BY <1>2 DEF CheckWaiting, CheckInterrupts, Flag, TypeOK
  <2>2. Calm
    BY <2>1 DEF Calm
  <2> QED BY <2>1, <2>2, CalmChange
<1> QED BY <1>1, <1>2

LEMMA ScheduleChange ==
  ASSUME TypeOK, ChangeInv, Schedule
  PROVE  ChangeInv'
<1>1. CASE CheckChanges
  <2> DEFINE moved == {i \in DOMAIN changes :
                        (IF changes[i].on \in Refs THEN ref'[changes[i].on]
                         ELSE val[changes[i].on]) # changes[i].old}
  <2>1. CASE changes # <<>> /\ Flag
    <3>1. changes' \in Sublist(changes, DOMAIN changes \ moved)
      BY <1>1, <2>1 DEF CheckChanges
    <3>2. \A k \in DOMAIN changes' : \E i \in DOMAIN changes \ moved : changes'[k] = changes[i]
      BY <3>1, PartOfChanges
    <3>3. Settled'
      BY <3>2 DEF Settled
    <3> QED BY <3>3 DEF ChangeInv
  <2>2. CASE changes = <<>>
    BY <1>1, <2>2 DEF CheckChanges, ChangeInv, Settled
  <2>3. CASE ~Flag
    <3>1. UNCHANGED <<ref, changes>> /\ ~refChanged /\ ~refChanged'
      BY <1>1, <2>3 DEF CheckChanges, CheckInterrupts, Flag
    <3> QED BY <3>1 DEF ChangeInv, Settled
  <2> QED BY <2>1, <2>2, <2>3
<1>2. CASE OsSleep \/ OsPoll \/ SignalSleep
  BY <1>2, CheckWaitingChange DEF OsSleep, OsPoll, SignalSleep
<1>3. CASE FinishFront \/ CheckJoining \/ CheckLazy \/ OsSkip \/ Stop \/ Dispatch
  <2>1. Calm
    BY <1>3 DEF FinishFront, CheckJoining, CheckLazy, OsSkip, Stop, Dispatch, Calm, lists, cells
  <2>2. pc' \in {"os", "pick", "run"} => pc \in {"os", "pick", "run"} /\ UNCHANGED trap
    BY <1>3 DEF FinishFront, CheckJoining, CheckLazy, OsSkip, Stop, Dispatch, os
  <2> QED BY <2>1, <2>2, CalmChange
<1> QED BY <1>1, <1>2, <1>3 DEF Schedule

LEMMA AfterChange ==
  ASSUME TypeOK, cur \in VProcs, ChangeInv, After
  PROVE  ChangeInv'
<1>1. CASE AfterKill
  <2>1. Calm
    BY <1>1, KillNowCalm DEF AfterKill, Calm, cells
  <2> QED BY <1>1, <2>1, CalmChange DEF AfterKill, Leaves
<1>2. CASE AfterAlone
  <2>1. changes = <<>> /\ changes' = <<>>
    BY <1>2 DEF AfterAlone, RunsAlone, lists
  <2> QED BY <2>1 DEF ChangeInv, Settled
<1>3. CASE AfterStop \/ AfterHalt \/ AfterYield
  <2>1. Calm /\ pc' = "front"
    BY <1>3 DEF AfterStop, AfterHalt, AfterYield, Leaves, Calm, lists, cells
  <2> QED BY <2>1, CalmChange
<1> QED BY <1>1, <1>2, <1>3 DEF After

LEMMA StepChange ==
  ASSUME TypeOK, NEW v \in VProcs, ChangeInv, Step(v)
  PROVE  ChangeInv'
<1>0. pc' \notin {"os", "pick", "run"}
  BY ZenonT(60) DEF Step, Compute, Fail, FailWith, NullReturn, NullFail, Exit, Start, Suspend,
     Resume, Join, Kill, RefSet, RefWaitChange, ClaimThunk, ClaimCell, ClaimError,
     ClaimWait, Claims, Hold, Publish, OsWait, ReadStream, TrapInterrupt, Runs
<1>1. ASSUME NEW r \in Refs, NEW x \in 0 .. MaxValue, RefSet(v, r, x)
      PROVE  ChangeInv'
  BY <1>0, <1>1 DEF RefSet, ChangeInv
<1>2. ASSUME NEW l \in Lazies, Publish(v, l)
      PROVE  ChangeInv'
  BY <1>0, <1>2 DEF Publish, ChangeInv
<1>3. ASSUME NEW t \in VProcs, Kill(v, t)
      PROVE  ChangeInv'
  <2>1. CASE state[t] = "finished" \/ Evaluating(t) # {}
    <3>1. Calm
      BY <1>3, <2>1 DEF Kill, Calm, lists, cells
    <3> QED BY <1>0, <3>1, CalmChange
  <2>2. CASE state[t] # "finished" /\ Evaluating(t) = {}
    <3>1. KillNow(t) /\ UNCHANGED cells
      BY <1>3, <2>2 DEF Kill
    <3>2. Calm
      BY <3>1, KillNowCalm DEF Calm, cells
    <3> QED BY <1>0, <3>2, CalmChange
  <2> QED BY <2>1, <2>2
<1>4. ASSUME NEW r \in Refs \cup Lazies, NEW x \in Value(r), RefWaitChange(v, r, x)
      PROVE  ChangeInv'
  <2>1. UNCHANGED <<ref, refChanged>>
    BY <1>4 DEF RefWaitChange, cells
  <2>2. CASE Current(r) = x
    <3> DEFINE C == [vp : VProcs, on : Refs \cup Lazies,
                     old : (0 .. MaxValue) \cup {Unmade, Thunk, Cell} \cup VProcs]
    <3>1. changes' = Append(changes, [vp |-> v, on |-> r, old |-> x])
      BY <1>4, <2>2 DEF RefWaitChange
    <3>2. changes \in Seq(C)
      BY DEF TypeOK
    <3>3. \A k \in DOMAIN changes' :
            \/ k \in DOMAIN changes /\ changes'[k] = changes[k]
            \/ changes'[k] = [vp |-> v, on |-> r, old |-> x]
      BY <3>1, <3>2
    <3>4. Settled => Settled'
      BY <2>1, <2>2, <3>3 DEF Settled, Current
    <3> QED BY <1>0, <2>1, <3>4 DEF ChangeInv
  <2>3. CASE Current(r) # x
    <3>1. Calm
      BY <1>4, <2>1, <2>3 DEF RefWaitChange, Calm
    <3> QED BY <1>0, <3>1, CalmChange
  <2> QED BY <2>2, <2>3
<1>5. ASSUME NEW t, \/ Start(v, t) \/ Suspend(v, t) \/ Resume(v, t) \/ Join(v, t)
                    \/ Hold(v, t) \/ OsWait(v, t) \/ ReadStream(v, t) \/ TrapInterrupt(v, t)
      PROVE  ChangeInv'
  <2>1. Calm
    BY <1>5 DEF Start, Suspend, Resume, Join, Hold, OsWait, ReadStream, TrapInterrupt,
       Calm, lists, cells
  <2> QED BY <1>0, <2>1, CalmChange
<1>6. ASSUME NEW l \in Lazies, NEW c \in Control,
             \/ ClaimThunk(v, l, c) \/ ClaimCell(v, l, c) \/ ClaimError(v, l, c)
             \/ ClaimWait(v, l, c)
      PROVE  ChangeInv'
  <2>1. Calm
    BY <1>6 DEF ClaimThunk, ClaimCell, ClaimError, ClaimWait, Calm, lists, cells
  <2> QED BY <1>0, <2>1, CalmChange
<1>7. CASE Compute(v) \/ Fail(v) \/ NullReturn(v) \/ NullFail(v) \/ Exit(v)
  <2>1. Calm
    BY <1>7 DEF Compute, Fail, NullReturn, NullFail, FailWith, Exit, Calm, lists, cells
  <2> QED BY <1>0, <2>1, CalmChange
<1> QED BY <1>1, <1>2, <1>3, <1>4, <1>5, <1>6, <1>7 DEF Step

LEMMA NextChange == TypeInv /\ ChangeInv /\ [Next]_vars => ChangeInv'
<1> SUFFICES ASSUME TypeInv, ChangeInv, [Next]_vars PROVE ChangeInv'
  OBVIOUS
<1>0. TypeOK
  BY DEF TypeInv
<1>1. CASE Schedule
  BY <1>0, <1>1, ScheduleChange
<1>2. CASE After
  <2>1. cur \in VProcs
    BY <1>2 DEF TypeInv, After, AfterKill, AfterStop, AfterHalt, AfterAlone, AfterYield, Leaves
  <2> QED BY <1>0, <1>2, <2>1, AfterChange
<1>3. ASSUME NEW v \in VProcs, Step(v) PROVE ChangeInv'
  BY <1>0, <1>3, StepChange
<1>4. CASE (\E t \in Targets : Fire(t)) \/ Interrupt \/ UNCHANGED vars
  <2>1. Calm /\ pc' = pc /\ UNCHANGED trap
    BY <1>4 DEF Fire, Interrupt, Calm, vars, lists, cells, os
  <2> QED BY <2>1, CalmChange
<1> QED BY <1>1, <1>2, <1>3, <1>4 DEF Next, Machine, Stopped

LEMMA ChangeIsSafe == Spec => [](TypeInv /\ ChangeInv)
<1>1. Spec => []TypeInv
  BY InitType, NextType, PTL DEF Spec
<1>2. Init => ChangeInv
  BY DEF Init, ChangeInv, Settled
<1> QED BY <1>1, <1>2, NextChange, PTL DEF Spec

\* A VProc that waits with __Ref_wait_change__ for a Ref that has changed is
\* never left behind with ref_changed unset, by whichever path the change came.
THEOREM ChangeIsNotMissed == Spec => []NoMissedChange
<1>1. ChangeInv => NoMissedChange
  BY DEF ChangeInv, Settled, NoMissedChange, Missed, Current
<1> QED BY <1>1, ChangeIsSafe, PTL

\* Without SIGINTs it is woken before any VProc runs its next step.
THEOREM ChangeIsPrompt == ASSUME MaxInterrupts = 0 PROVE Spec => []PromptRefChange
<1>1. ChangeInv => PromptRefChange
  BY DEF ChangeInv, Settled, PromptRefChange, Missed, Current
<1> QED BY <1>1, ChangeIsSafe, PTL

----------------------------------------------------------------------------
(***************************************************************************)
(* The lists as sets: who is in a list, and whether nobody is in it twice. *)
(***************************************************************************)

Members(list) == {list[i].vp : i \in DOMAIN list}
Once(list) == \A i, j \in DOMAIN list : list[i].vp = list[j].vp => i = j

\* The same for the ready queue.
Queued(queued) == {queued[i] : i \in DOMAIN queued}
QueuedOnce(queued) == \A i, j \in DOMAIN queued : queued[i] = queued[j] => i = j

\* A part of a list has each of the chosen elements, once.
LEMMA SublistExact ==
  ASSUME NEW S, NEW list \in Seq(S), NEW I \in SUBSET DOMAIN list,
         NEW sub \in Sublist(list, I)
  PROVE  \E t \in [DOMAIN sub -> I] :
           /\ \A k \in DOMAIN sub : sub[k] = list[t[k]]
           /\ \A j, k \in DOMAIN sub : t[j] = t[k] => j = k
           /\ \A i \in I : \E k \in DOMAIN sub : t[k] = i
<1> DEFINE n == Cardinality(I)
<1>1. PICK t \in SetToSeqs(I) : sub = [k \in DOMAIN t |-> list[t[k]]]
  BY DEF Sublist
<1>2. IsFiniteSet(I)
  <2>1. IsFiniteSet(1 .. Len(list))
    BY FS_Interval
  <2> QED BY <2>1, FS_Subset
<1>3. n \in Nat /\ IsFiniteSet(1 .. n) /\ Cardinality(1 .. n) = n
  <2>1. n \in Nat
    BY <1>2, FS_CardinalityType
  <2> QED BY <2>1, FS_Interval
<1>4. t \in [1 .. n -> I] /\ \A i, j \in 1 .. n : i # j => t[i] # t[j]
  BY DEF SetToSeqs
<1>5. t \in Injection(1 .. n, I)
  BY <1>4 DEF Injection, IsInjective
<1>6. t \in Surjection(1 .. n, I)
  BY <1>2, <1>3, <1>5, FS_Injection
<1>7. DOMAIN t = 1 .. n /\ DOMAIN sub = 1 .. n
  BY <1>1, <1>4
<1> QED BY <1>1, <1>4, <1>6, <1>7 DEF Surjection

\* Vec::retain, and the loops of the checks.
LEMMA SublistMembers ==
  ASSUME NEW S, NEW list \in Seq(S), NEW I \in SUBSET DOMAIN list,
         NEW sub \in Sublist(list, I)
  PROVE  /\ Members(sub) = {list[i].vp : i \in I}
         /\ Once(list) => Once(sub)
<1>1. PICK t \in [DOMAIN sub -> I] :
        /\ \A k \in DOMAIN sub : sub[k] = list[t[k]]
        /\ \A j, k \in DOMAIN sub : t[j] = t[k] => j = k
        /\ \A i \in I : \E k \in DOMAIN sub : t[k] = i
  BY SublistExact
<1>2. Members(sub) = {list[i].vp : i \in I}
  BY <1>1 DEF Members
<1>3. ASSUME Once(list), NEW j \in DOMAIN sub, NEW k \in DOMAIN sub, sub[j].vp = sub[k].vp
      PROVE  j = k
  BY <1>1, <1>3 DEF Once
<1> QED BY <1>2, <1>3 DEF Once

\* A list and its rest share nobody.
LEMMA SublistSplit ==
  ASSUME NEW S, NEW list \in Seq(S), Once(list), NEW I \in SUBSET DOMAIN list,
         NEW out \in Sublist(list, I), NEW rest \in Sublist(list, DOMAIN list \ I)
  PROVE  /\ Once(out) /\ Once(rest)
         /\ Members(out) \cup Members(rest) = Members(list)
         /\ Members(out) \cap Members(rest) = {}
<1>1. /\ Members(out) = {list[i].vp : i \in I} /\ Once(out)
      /\ Members(rest) = {list[i].vp : i \in DOMAIN list \ I} /\ Once(rest)
  BY SublistMembers
<1>2. Members(out) \cup Members(rest) = Members(list)
  BY <1>1 DEF Members
<1>3. ASSUME NEW i \in I, NEW j \in DOMAIN list \ I PROVE list[i].vp # list[j].vp
  BY DEF Once
<1>4. Members(out) \cap Members(rest) = {}
  BY <1>1, <1>3
<1> QED BY <1>1, <1>2, <1>4

LEMMA WithoutMembers ==
  ASSUME NEW S, NEW list \in Seq(S), NEW v, NEW rest \in Without(list, v)
  PROVE  /\ Members(rest) = Members(list) \ {v}
         /\ Once(list) => Once(rest)
<1> DEFINE I == {i \in DOMAIN list : list[i].vp # v}
<1>1. rest \in Sublist(list, I)
  BY DEF Without
<1>2. Members(rest) = {list[i].vp : i \in I} /\ (Once(list) => Once(rest))
  BY <1>1, SublistMembers
<1> QED BY <1>2 DEF Members

\* Vec::push.
LEMMA AppendMembers ==
  ASSUME NEW S, NEW list \in Seq(S), NEW e \in S
  PROVE  /\ Members(Append(list, e)) = Members(list) \cup {e.vp}
         /\ Once(list) /\ e.vp \notin Members(list) => Once(Append(list, e))
<1> DEFINE l == Append(list, e)
<1>1. /\ DOMAIN l = DOMAIN list \cup {Len(list) + 1} /\ l[Len(list) + 1] = e
      /\ Len(list) + 1 \notin DOMAIN list
      /\ \A i \in DOMAIN list : l[i] = list[i]
  OBVIOUS
<1> HIDE DEF l
<1>2. Members(l) = Members(list) \cup {e.vp}
  BY <1>1 DEF Members
<1>3. Once(list) /\ e.vp \notin Members(list) => Once(l)
  BY <1>1 DEF Once, Members
<1> QED BY <1>2, <1>3 DEF l

LEMMA EmptyMembers == Members(<<>>) = {} /\ Once(<<>>)
BY DEF Members, Once

\* VecDeque::push_back, remove and pop_front on the ready queue.
LEMMA AppendQueued ==
  ASSUME NEW S, NEW s \in Seq(S), NEW v \in S
  PROVE  /\ Queued(Append(s, v)) = Queued(s) \cup {v}
         /\ QueuedOnce(s) /\ v \notin Queued(s) => QueuedOnce(Append(s, v))
<1> DEFINE l == Append(s, v)
<1>1. /\ DOMAIN l = DOMAIN s \cup {Len(s) + 1} /\ l[Len(s) + 1] = v
      /\ Len(s) + 1 \notin DOMAIN s
      /\ \A i \in DOMAIN s : l[i] = s[i]
  OBVIOUS
<1> HIDE DEF l
<1>2. Queued(l) = Queued(s) \cup {v}
  BY <1>1 DEF Queued
<1>3. QueuedOnce(s) /\ v \notin Queued(s) => QueuedOnce(l)
  BY <1>1 DEF QueuedOnce, Queued
<1> QED BY <1>2, <1>3 DEF l

LEMMA RemoveQueued ==
  ASSUME NEW S, NEW s \in Seq(S), NEW i \in DOMAIN s, QueuedOnce(s)
  PROVE  /\ RemoveAt(s, i) \in Seq(S)
         /\ Queued(RemoveAt(s, i)) = Queued(s) \ {s[i]}
         /\ QueuedOnce(RemoveAt(s, i))
<1> DEFINE l == RemoveAt(s, i)
           from(k) == IF k < i THEN k ELSE k + 1
<1>1. /\ l \in Seq(S) /\ Len(l) = Len(s) - 1 /\ Len(s) \in Nat /\ i \in 1 .. Len(s)
      /\ DOMAIN l = 1 .. Len(s) - 1 /\ DOMAIN s = 1 .. Len(s)
      /\ \A k \in DOMAIN l : l[k] = s[from(k)]
  <2> DEFINE a == SubSeq(s, 1, i - 1)
             b == SubSeq(s, i + 1, Len(s))
  <2>1. Len(s) \in Nat /\ i \in 1 .. Len(s) /\ DOMAIN s = 1 .. Len(s)
    OBVIOUS
  <2>2. a \in Seq(S) /\ Len(a) = i - 1 /\ \A k \in 1 .. i - 1 : a[k] = s[k]
    BY <2>1
  <2>3. b \in Seq(S) /\ Len(b) = Len(s) - i /\ \A k \in 1 .. Len(s) - i : b[k] = s[i + k]
    BY <2>1
  <2>4. l = a \o b
    BY DEF RemoveAt
  <2> HIDE DEF a, b, l
  <2>5. /\ l \in Seq(S) /\ Len(l) = Len(s) - 1 /\ DOMAIN l = 1 .. Len(s) - 1
        /\ \A k \in DOMAIN l : l[k] = IF k < i THEN a[k] ELSE b[k - (i - 1)]
    <3>1. /\ l \in Seq(S) /\ Len(l) = Len(a) + Len(b)
          /\ \A k \in 1 .. Len(a) + Len(b) :
               l[k] = IF k <= Len(a) THEN a[k] ELSE b[k - Len(a)]
      BY <2>2, <2>3, <2>4, ConcatProperties
    <3>2. Len(a) + Len(b) = Len(s) - 1 /\ Len(a) = i - 1
      BY <2>1, <2>2, <2>3
    <3>3. DOMAIN l = 1 .. Len(s) - 1
      BY <3>1, <3>2
    <3>4. ASSUME NEW k \in 1 .. Len(s) - 1
          PROVE  l[k] = IF k < i THEN a[k] ELSE b[k - (i - 1)]
      BY <2>1, <3>1, <3>2
    <3> QED BY <3>1, <3>2, <3>3, <3>4
  <2>6. ASSUME NEW k \in DOMAIN l PROVE l[k] = s[from(k)]
    <3>1. CASE k < i
      BY <2>1, <2>2, <2>5, <3>1
    <3>2. CASE k >= i
      <4>1. k - (i - 1) \in 1 .. Len(s) - i /\ i + (k - (i - 1)) = k + 1
        BY <2>1, <2>5, <3>2
      <4> QED BY <2>1, <2>3, <2>5, <3>2, <4>1
    <3> QED BY <2>1, <2>5, <3>1, <3>2
  <2> QED BY <2>1, <2>5, <2>6
<1> HIDE DEF l
<1>2. /\ \A k \in DOMAIN l : from(k) \in DOMAIN s /\ from(k) # i
      /\ \A j, k \in DOMAIN l : from(j) = from(k) => j = k
      /\ \A j \in DOMAIN s : j # i => \E k \in DOMAIN l : from(k) = j
  <2>1. ASSUME NEW j \in DOMAIN s, j # i PROVE \E k \in DOMAIN l : from(k) = j
    <3>1. CASE j < i
      BY <1>1, <2>1, <3>1
    <3>2. CASE j > i
      <4>1. j - 1 \in DOMAIN l /\ from(j - 1) = j
        BY <1>1, <2>1, <3>2
      <4> QED BY <4>1
    <3> QED BY <1>1, <2>1, <3>1, <3>2
  <2> QED BY <1>1, <2>1
<1> HIDE DEF from
<1>3. Queued(l) = Queued(s) \ {s[i]}
  BY <1>1, <1>2 DEF Queued, QueuedOnce
<1>4. QueuedOnce(l)
  BY <1>1, <1>2 DEF QueuedOnce
<1> QED BY <1>1, <1>3, <1>4 DEF l

LEMMA TailQueued ==
  ASSUME NEW S, NEW s \in Seq(S), s # <<>>, QueuedOnce(s)
  PROVE  /\ Queued(Tail(s)) = Queued(s) \ {Head(s)}
         /\ QueuedOnce(Tail(s))
<1> DEFINE l == Tail(s)
<1>1. /\ DOMAIN s = 1 .. Len(s) /\ Len(s) \in Nat \ {0} /\ DOMAIN l = 1 .. Len(s) - 1
      /\ \A k \in DOMAIN l : l[k] = s[k + 1]
      /\ Head(s) = s[1]
  OBVIOUS
<1> HIDE DEF l
<1>2. \A j \in DOMAIN s : j # 1 => j - 1 \in DOMAIN l /\ l[j - 1] = s[j]
  BY <1>1
<1>3. \A k \in DOMAIN l : k + 1 \in DOMAIN s /\ k + 1 # 1
  BY <1>1
<1>4. Queued(l) = Queued(s) \ {s[1]}
  <2>1. ASSUME NEW k \in DOMAIN l PROVE l[k] \in Queued(s) \ {s[1]}
    BY <1>1, <1>3 DEF Queued, QueuedOnce
  <2>2. ASSUME NEW j \in DOMAIN s, s[j] # s[1] PROVE s[j] \in Queued(l)
    BY <1>2, <2>2 DEF Queued
  <2> QED BY <2>1, <2>2 DEF Queued
<1>5. QueuedOnce(l)
  BY <1>1, <1>3 DEF QueuedOnce
<1> QED BY <1>1, <1>4, <1>5 DEF l

\* remove_ready.
LEMMA DequeueQueued ==
  ASSUME ready \in Seq(VProcs), QueuedOnce(ready), NEW v
  PROVE  Queued(Dequeue(v)) = Queued(ready) \ {v} /\ QueuedOnce(Dequeue(v))
<1>1. CASE \E i \in DOMAIN ready : ready[i] = v
  <2> DEFINE i == CHOOSE j \in DOMAIN ready : ready[j] = v
  <2>1. i \in DOMAIN ready /\ ready[i] = v
    BY <1>1
  <2>2. Dequeue(v) = RemoveAt(ready, i)
    BY <1>1 DEF Dequeue
  <2> HIDE DEF i
  <2> QED BY <2>1, <2>2, RemoveQueued
<1>2. CASE ~ \E i \in DOMAIN ready : ready[i] = v
  BY <1>2 DEF Dequeue, Queued
<1> QED BY <1>1, <1>2

LEMMA ConcatQueued ==
  ASSUME NEW S, NEW s \in Seq(S), NEW t \in Seq(S)
  PROVE  /\ Queued(s \o t) = Queued(s) \cup Queued(t)
         /\ QueuedOnce(s) /\ QueuedOnce(t) /\ Queued(s) \cap Queued(t) = {} => QueuedOnce(s \o t)
<1> DEFINE l == s \o t
<1>1. /\ DOMAIN s = 1 .. Len(s) /\ DOMAIN t = 1 .. Len(t) /\ DOMAIN l = 1 .. Len(s) + Len(t)
      /\ Len(s) \in Nat /\ Len(t) \in Nat
      /\ \A k \in DOMAIN s : l[k] = s[k]
      /\ \A k \in DOMAIN t : l[Len(s) + k] = t[k]
  OBVIOUS
<1> HIDE DEF l
<1>2. /\ \A k \in DOMAIN s : k \in DOMAIN l
      /\ \A k \in DOMAIN t : Len(s) + k \in DOMAIN l
      /\ \A k \in DOMAIN l : k \in DOMAIN s \/ (k - Len(s) \in DOMAIN t /\ l[k] = t[k - Len(s)])
  BY <1>1
<1>3. Queued(l) = Queued(s) \cup Queued(t)
  <2>1. ASSUME NEW k \in DOMAIN l PROVE l[k] \in Queued(s) \cup Queued(t)
    BY <1>1, <1>2 DEF Queued
  <2>2. ASSUME NEW k \in DOMAIN s PROVE s[k] \in Queued(l)
    BY <1>1, <1>2 DEF Queued
  <2>3. ASSUME NEW k \in DOMAIN t PROVE t[k] \in Queued(l)
    BY <1>1, <1>2 DEF Queued
  <2> QED BY <2>1, <2>2, <2>3 DEF Queued
<1>4. ASSUME QueuedOnce(s), QueuedOnce(t), Queued(s) \cap Queued(t) = {},
             NEW j \in DOMAIN l, NEW k \in DOMAIN l, l[j] = l[k]
      PROVE  j = k
  <2>1. CASE j \in DOMAIN s /\ k \in DOMAIN s
    BY <1>1, <1>4, <2>1 DEF QueuedOnce
  <2>2. CASE j \in DOMAIN s /\ k \notin DOMAIN s
    BY <1>1, <1>2, <1>4, <2>2 DEF Queued
  <2>3. CASE j \notin DOMAIN s /\ k \in DOMAIN s
    BY <1>1, <1>2, <1>4, <2>3 DEF Queued
  <2>4. CASE j \notin DOMAIN s /\ k \notin DOMAIN s
    <3>1. j - Len(s) = k - Len(s)
      BY <1>2, <1>4, <2>4 DEF QueuedOnce
    <3> QED BY <1>1, <3>1
  <2> QED BY <2>1, <2>2, <2>3, <2>4
<1> QED BY <1>3, <1>4 DEF l, QueuedOnce

\* wake: the VProcs of entries go from where they waited to the ready queue.
LEMMA WakeQueued ==
  ASSUME state \in [VProcs -> States], ready \in Seq(VProcs), QueuedOnce(ready),
         NEW S, \A e \in S : e.vp \in VProcs, NEW up \in Seq(S), Once(up),
         Members(up) \cap Queued(ready) = {},
         Wake(up)
  PROVE  /\ QueuedOnce(ready') /\ Queued(ready') = Queued(ready) \cup Members(up)
         /\ Members(up) \subseteq VProcs
         /\ \A v \in VProcs : state'[v] = IF v \in Members(up) THEN "ready" ELSE state[v]
<1> DEFINE t == [k \in DOMAIN up |-> up[k].vp]
<1>1. t \in Seq(VProcs) /\ DOMAIN t = DOMAIN up
  OBVIOUS
<1>2. Queued(t) = Members(up) /\ QueuedOnce(t)
  BY DEF Queued, Members, QueuedOnce, Once
<1>3. ready' = ready \o t
  BY DEF Wake
<1> HIDE DEF t
<1>4. QueuedOnce(ready') /\ Queued(ready') = Queued(ready) \cup Members(up)
  BY <1>1, <1>2, <1>3, ConcatQueued
<1>5. \A v \in VProcs : state'[v] = IF v \in Members(up) THEN "ready" ELSE state[v]
  BY DEF Wake, Members
<1> QED BY <1>4, <1>5 DEF Members

----------------------------------------------------------------------------
(***************************************************************************)
(* Each VProc is in one place.  PlaceInv is Consistent in terms of sets,   *)
(* with what each phase leaves behind for the next.                        *)
(***************************************************************************)

\* The VProcs in each state, and in the lists.
StateSet(s) == {v \in VProcs : state[v] = s}

\* Nobody is twice in a list or in the queue.
NoTwice == QueuedOnce(ready) /\ Once(joining) /\ Once(lazy) /\ Once(changes) /\ Once(waiting)

\* Nobody is in two lists.
OneList ==
  /\ Members(joining) \cap (Members(lazy) \cup Members(changes) \cup Members(waiting)) = {}
  /\ Members(lazy) \cap (Members(changes) \cup Members(waiting)) = {}
  /\ Members(changes) \cap Members(waiting) = {}

\* Who is in a place has the state for it, and the other way round.
RightState ==
  /\ Queued(ready) = StateSet("ready")
  /\ Members(joining) \cup Members(lazy) \cup Members(changes) \cup Members(waiting)
       = StateSet("waiting")

\* Only cur is running, unless __OS_exit__ left it so.
RightCur ==
  /\ \A v \in VProcs : state[v] = "running" => v = cur \/ outcome = "exit"
  /\ pc \in {"run", "after"} <=> cur # None
  /\ pc = "run" => state[cur] = "running"
  /\ outcome # "none" <=> pc = "stopped"

PlaceInv == NoTwice /\ OneList /\ RightState /\ RightCur

Joined  == [vp : VProcs, on : VProcs]
Claimed == [vp : VProcs, on : Lazies]
Changed == [vp : VProcs, on : Refs \cup Lazies,
            old : (0 .. MaxValue) \cup {Unmade, Thunk, Cell} \cup VProcs]
Awaited == [vp : VProcs, on : Targets]

LEMMA ListTypes ==
  ASSUME TypeOK
  PROVE  /\ joining \in Seq(Joined) /\ lazy \in Seq(Claimed)
         /\ changes \in Seq(Changed) /\ waiting \in Seq(Awaited)
         /\ \A e \in Joined \cup Claimed \cup Changed \cup Awaited : e.vp \in VProcs
         /\ state \in [VProcs -> States] /\ ready \in Seq(VProcs)
BY DEF TypeOK, Joined, Claimed, Changed, Awaited

\* A step that moves nobody.
LEMMA StillPlaced ==
  ASSUME NoTwice, OneList, RightState, UNCHANGED <<state, ready, lists>>
  PROVE  NoTwice' /\ OneList' /\ RightState'
BY DEF NoTwice, OneList, RightState, StateSet, lists

\* The five places: what a step has to say about them.
LEMMA Placed ==
  ASSUME QueuedOnce(ready'), Once(joining'), Once(lazy'), Once(changes'), Once(waiting'),
         NEW Q, NEW J, NEW L, NEW C, NEW W,
         Queued(ready') = Q, Members(joining') = J, Members(lazy') = L,
         Members(changes') = C, Members(waiting') = W,
         J \cap (L \cup C \cup W) = {}, L \cap (C \cup W) = {}, C \cap W = {},
         \A v \in VProcs : state'[v] = "ready" <=> v \in Q,
         \A v \in VProcs : state'[v] = "waiting" <=> v \in J \cup L \cup C \cup W,
         Q \cup J \cup L \cup C \cup W \subseteq VProcs
  PROVE  NoTwice' /\ OneList' /\ RightState'
BY DEF NoTwice, OneList, RightState, StateSet

\* The entries out of one list wake; the rest stays, and so do the other lists.
LEMMA WakeUps ==
  ASSUME TypeOK, NoTwice, OneList, RightState,
         NEW S, NEW list \in Seq(S), \A e \in S : e.vp \in VProcs, Once(list),
         Members(list) \subseteq StateSet("waiting"),
         NEW I \in SUBSET DOMAIN list,
         NEW up \in Sublist(list, I), NEW rest \in Sublist(list, DOMAIN list \ I),
         Wake(up)
  PROVE  /\ Once(rest) /\ QueuedOnce(ready')
         /\ Members(rest) = Members(list) \ Members(up)
         /\ Members(up) \subseteq Members(list)
         /\ Queued(ready') = Queued(ready) \cup Members(up)
         /\ \A v \in VProcs : state'[v] = IF v \in Members(up) THEN "ready" ELSE state[v]
<1>1. /\ Once(up) /\ Once(rest) /\ Members(up) \cup Members(rest) = Members(list)
      /\ Members(up) \cap Members(rest) = {} /\ up \in Seq(S)
  BY SublistSplit, SublistOf
<1>2. Members(up) \cap Queued(ready) = {}
  BY <1>1 DEF RightState, StateSet
<1>3. QueuedOnce(ready)
  BY DEF NoTwice
<1>4. /\ QueuedOnce(ready') /\ Queued(ready') = Queued(ready) \cup Members(up)
      /\ \A v \in VProcs : state'[v] = IF v \in Members(up) THEN "ready" ELSE state[v]
  BY <1>1, <1>2, <1>3, WakeQueued, ListTypes
<1> QED BY <1>1, <1>4

\* kill_now takes v out of every place.
LEMMA KillPlaces ==
  ASSUME TypeOK, NoTwice, OneList, RightState, NEW v \in VProcs, KillNow(v)
  PROVE  NoTwice' /\ OneList' /\ RightState'
<1>1. /\ Once(joining') /\ Members(joining') = Members(joining) \ {v}
      /\ Once(lazy') /\ Members(lazy') = Members(lazy) \ {v}
      /\ Once(changes') /\ Members(changes') = Members(changes) \ {v}
      /\ Once(waiting') /\ Members(waiting') = Members(waiting) \ {v}
  BY ListTypes, WithoutMembers DEF KillNow, NoTwice
<1>2. QueuedOnce(ready') /\ Queued(ready') = Queued(ready) \ {v}
  <2>1. CASE state[v] = "ready"
    BY <2>1, ListTypes, DequeueQueued DEF KillNow, NoTwice
  <2>2. CASE state[v] # "ready"
    BY <2>2 DEF KillNow, NoTwice, RightState, StateSet
  <2> QED BY <2>1, <2>2
<1>3. \A u \in VProcs : state'[u] = IF u = v THEN "finished" ELSE state[u]
  BY DEF KillNow, Finish, TypeOK
<1>4. /\ \A u \in VProcs : state'[u] = "ready" <=> u \in Queued(ready')
      /\ Queued(ready') \subseteq VProcs
  BY <1>2, <1>3 DEF RightState, StateSet
<1>5. /\ \A u \in VProcs : state'[u] = "waiting" <=>
            u \in Members(joining') \cup Members(lazy') \cup Members(changes') \cup Members(waiting')
      /\ Members(joining') \cup Members(lazy') \cup Members(changes') \cup Members(waiting')
            \subseteq VProcs
  BY <1>1, <1>3 DEF RightState, StateSet
<1>6. /\ Members(joining') \cap (Members(lazy') \cup Members(changes') \cup Members(waiting')) = {}
      /\ Members(lazy') \cap (Members(changes') \cup Members(waiting')) = {}
      /\ Members(changes') \cap Members(waiting') = {}
  BY <1>1 DEF OneList
<1>7. RightState'
  BY <1>4, <1>5 DEF RightState, StateSet
<1> QED BY <1>1, <1>2, <1>6, <1>7 DEF NoTwice, OneList

\* A step of the running VProc v that makes it wait.
LEMMA WaitPlaces ==
  ASSUME TypeOK, NoTwice, OneList, RightState, NEW v \in VProcs, state[v] = "running",
         MakeWaiting(v), ready' = ready,
         NEW e, e.vp = v,
         \/ /\ joining' = Append(joining, e) /\ e \in Joined
            /\ UNCHANGED <<lazy, changes, waiting>>
         \/ /\ lazy' = Append(lazy, e) /\ e \in Claimed
            /\ UNCHANGED <<joining, changes, waiting>>
         \/ /\ changes' = Append(changes, e) /\ e \in Changed
            /\ UNCHANGED <<joining, lazy, waiting>>
         \/ /\ waiting' = Append(waiting, e) /\ e \in Awaited
            /\ UNCHANGED <<joining, lazy, changes>>
  PROVE  NoTwice' /\ OneList' /\ RightState'
<1>1. /\ v \notin Queued(ready)
      /\ v \notin Members(joining) \cup Members(lazy) \cup Members(changes) \cup Members(waiting)
  BY DEF RightState, StateSet
<1>2. \A u \in VProcs : state'[u] = IF u = v THEN "waiting" ELSE state[u]
  BY DEF MakeWaiting, TypeOK
<1>3. CASE joining' = Append(joining, e) /\ e \in Joined /\ UNCHANGED <<lazy, changes, waiting>>
  <2>1. Once(joining') /\ Members(joining') = Members(joining) \cup {v}
    BY <1>1, <1>3, ListTypes, AppendMembers DEF NoTwice
  <2> QED BY <1>1, <1>2, <1>3, <2>1, Placed DEF NoTwice, OneList, RightState, StateSet
<1>4. CASE lazy' = Append(lazy, e) /\ e \in Claimed /\ UNCHANGED <<joining, changes, waiting>>
  <2>1. Once(lazy') /\ Members(lazy') = Members(lazy) \cup {v}
    BY <1>1, <1>4, ListTypes, AppendMembers DEF NoTwice
  <2> QED BY <1>1, <1>2, <1>4, <2>1, Placed DEF NoTwice, OneList, RightState, StateSet
<1>5. CASE changes' = Append(changes, e) /\ e \in Changed /\ UNCHANGED <<joining, lazy, waiting>>
  <2>1. Once(changes') /\ Members(changes') = Members(changes) \cup {v}
    BY <1>1, <1>5, ListTypes, AppendMembers DEF NoTwice
  <2> QED BY <1>1, <1>2, <1>5, <2>1, Placed DEF NoTwice, OneList, RightState, StateSet
<1>6. CASE waiting' = Append(waiting, e) /\ e \in Awaited /\ UNCHANGED <<joining, lazy, changes>>
  <2>1. Once(waiting') /\ Members(waiting') = Members(waiting) \cup {v}
    BY <1>1, <1>6, ListTypes, AppendMembers DEF NoTwice
  <2> QED BY <1>1, <1>2, <1>6, <2>1, Placed DEF NoTwice, OneList, RightState, StateSet
<1> QED BY <1>3, <1>4, <1>5, <1>6

\* One phase of the loop.
LEMMA SchedulePlaces ==
  ASSUME TypeOK, PlaceInv, Schedule
  PROVE  PlaceInv'
<1>0. NoTwice /\ OneList /\ RightState /\ RightCur /\ cur = None /\ outcome = "none"
  BY DEF PlaceInv, RightCur, Schedule, FinishFront, CheckJoining, CheckLazy, CheckChanges,
     OsSleep, OsPoll, OsSkip, SignalSleep, Stop, Dispatch
<1>1. CASE FinishFront
  <2> DEFINE v == Head(ready)
  <2>1. v \in VProcs /\ v \in Queued(ready)
    BY <1>1 DEF TypeOK, FinishFront, FrontHalted, Queued
  <2>2. Queued(ready') = Queued(ready) \ {v} /\ QueuedOnce(ready') /\ UNCHANGED lists
    BY <1>0, <1>1, TailQueued, ListTypes DEF FinishFront, FrontHalted, NoTwice
  <2>3. \A u \in VProcs : state'[u] = IF u = v THEN "finished" ELSE state[u]
    BY <1>1, <2>1 DEF FinishFront, Finish, TypeOK
  <2>4. NoTwice' /\ OneList' /\ RightState'
    <3> HIDE DEF v
    <3> QED BY <1>0, <2>1, <2>2, <2>3, Placed DEF NoTwice, OneList, RightState, StateSet, lists
  <2>5. RightCur'
    BY <1>0, <1>1, <2>3 DEF FinishFront, RightCur, loop
  <2> QED BY <2>4, <2>5 DEF PlaceInv
<1>2. CASE CheckJoining
  <2>1. CASE JoinDue
    <3> DEFINE done == {i \in DOMAIN joining : state[joining[i].on] = "finished"}
    <3>1. PICK up \in Sublist(joining, done) :
            joining' \in Sublist(joining, DOMAIN joining \ done) /\ Wake(up)
      BY <1>2, <2>1 DEF CheckJoining
    <3>2. Once(joining) /\ Members(joining) \subseteq StateSet("waiting")
      BY <1>0 DEF NoTwice, RightState
    <3>3. /\ Once(joining') /\ QueuedOnce(ready')
          /\ Members(joining') = Members(joining) \ Members(up)
          /\ Members(up) \subseteq Members(joining)
          /\ Queued(ready') = Queued(ready) \cup Members(up)
          /\ \A v \in VProcs : state'[v] = IF v \in Members(up) THEN "ready" ELSE state[v]
      <4> HIDE DEF done
      <4>1. done \in SUBSET DOMAIN joining
        BY DEF done
      <4> QED BY <1>0, <3>1, <3>2, <4>1, WakeUps, ListTypes
    <3>4. NoTwice' /\ OneList' /\ RightState'
      BY <1>0, <1>2, <3>3, Placed DEF CheckJoining, NoTwice, OneList, RightState, StateSet
    <3> QED BY <1>0, <1>2, <3>3, <3>4 DEF PlaceInv, RightCur, CheckJoining, loop
  <2>2. CASE ~JoinDue
    BY <1>0, <1>2, <2>2, StillPlaced DEF CheckJoining, PlaceInv, RightCur, loop, queue, lists
  <2> QED BY <2>1, <2>2
<1>3. CASE CheckLazy
  <2> DEFINE free == {i \in DOMAIN lazy : ~BeingEvaluated(lazy[i].on)}
  <2>1. PICK up \in Sublist(lazy, free) :
          lazy' \in Sublist(lazy, DOMAIN lazy \ free) /\ Wake(up)
    BY <1>3 DEF CheckLazy
  <2>2. Once(lazy) /\ Members(lazy) \subseteq StateSet("waiting")
    BY <1>0 DEF NoTwice, RightState
  <2>3. /\ Once(lazy') /\ QueuedOnce(ready')
        /\ Members(lazy') = Members(lazy) \ Members(up)
        /\ Members(up) \subseteq Members(lazy)
        /\ Queued(ready') = Queued(ready) \cup Members(up)
        /\ \A v \in VProcs : state'[v] = IF v \in Members(up) THEN "ready" ELSE state[v]
    <3>1. free \in SUBSET DOMAIN lazy
      OBVIOUS
    <3> HIDE DEF free
    <3> QED BY <1>0, <2>1, <2>2, <3>1, WakeUps, ListTypes
  <2>4. NoTwice' /\ OneList' /\ RightState'
    BY <1>0, <1>3, <2>3, Placed DEF CheckLazy, NoTwice, OneList, RightState, StateSet
  <2> QED BY <1>0, <1>3, <2>3, <2>4 DEF PlaceInv, RightCur, CheckLazy, loop
<1>4. CASE CheckChanges
  <2> DEFINE moved == {i \in DOMAIN changes :
                        (IF changes[i].on \in Refs THEN ref'[changes[i].on]
                         ELSE val[changes[i].on]) # changes[i].old}
  <2>1. CASE changes # <<>> /\ Flag
    <3>1. PICK up \in Sublist(changes, moved) :
            changes' \in Sublist(changes, DOMAIN changes \ moved) /\ Wake(up)
      BY <1>4, <2>1 DEF CheckChanges
    <3>2. Once(changes) /\ Members(changes) \subseteq StateSet("waiting")
      BY <1>0 DEF NoTwice, RightState
    <3>3. /\ Once(changes') /\ QueuedOnce(ready')
          /\ Members(changes') = Members(changes) \ Members(up)
          /\ Members(up) \subseteq Members(changes)
          /\ Queued(ready') = Queued(ready) \cup Members(up)
          /\ \A v \in VProcs : state'[v] = IF v \in Members(up) THEN "ready" ELSE state[v]
      <4>1. moved \in SUBSET DOMAIN changes
        OBVIOUS
      <4> HIDE DEF moved
      <4> QED BY <1>0, <3>1, <3>2, <4>1, WakeUps, ListTypes, ZenonT(60)
    <3>4. NoTwice' /\ OneList' /\ RightState'
      BY <1>0, <1>4, <3>3, Placed DEF CheckChanges, NoTwice, OneList, RightState, StateSet
    <3> QED BY <1>0, <1>4, <3>3, <3>4 DEF PlaceInv, RightCur, CheckChanges, loop
  <2>2. CASE ~(changes # <<>> /\ Flag)
    BY <1>0, <1>4, <2>2, StillPlaced DEF CheckChanges, PlaceInv, RightCur, loop, lists
  <2> QED BY <2>1, <2>2
<1>5. CASE OsSleep \/ OsPoll \/ SignalSleep
  <2>1. CheckWaiting /\ pc \in {"os", "pick"} /\ pc' \in {"front", "pick"}
    BY <1>5 DEF OsSleep, OsPoll, SignalSleep
  <2>2. PICK up \in Sublist(waiting, OsReady) :
          waiting' \in Sublist(waiting, DOMAIN waiting \ OsReady) /\ Wake(up)
    BY <2>1 DEF CheckWaiting
  <2>3. Once(waiting) /\ Members(waiting) \subseteq StateSet("waiting")
    BY <1>0 DEF NoTwice, RightState
  <2>4. /\ Once(waiting') /\ QueuedOnce(ready')
        /\ Members(waiting') = Members(waiting) \ Members(up)
        /\ Members(up) \subseteq Members(waiting)
        /\ Queued(ready') = Queued(ready) \cup Members(up)
        /\ \A v \in VProcs : state'[v] = IF v \in Members(up) THEN "ready" ELSE state[v]
    <3>1. OsReady \in SUBSET DOMAIN waiting
      BY DEF OsReady
    <3> QED BY <1>0, <2>2, <2>3, <3>1, WakeUps, ListTypes
  <2>5. NoTwice' /\ OneList' /\ RightState'
    BY <1>0, <2>1, <2>4, Placed DEF CheckWaiting, NoTwice, OneList, RightState, StateSet
  <2> QED BY <1>0, <2>1, <2>4, <2>5 DEF PlaceInv, RightCur, CheckWaiting, loop
<1>6. CASE OsSkip
  BY <1>0, <1>6, StillPlaced DEF OsSkip, PlaceInv, RightCur, loop, queue, lists
<1>7. CASE Stop
  <2>1. NoTwice' /\ OneList' /\ RightState'
    BY <1>0, <1>7, StillPlaced DEF Stop, queue
  <2>2. RightCur'
    BY <1>0, <1>7 DEF Stop, RightCur, queue
  <2> QED BY <2>1, <2>2 DEF PlaceInv
<1>8. CASE Dispatch
  <2>1. PICK i \in DOMAIN ready :
          LET v == ready[i]
          IN IF Seeded /\ Len(ready) > 1 /\ Terminal(v)
             THEN ready' = <<v>> \o RemoveAt(ready, i) /\ pc' = "front" /\ UNCHANGED <<cur, state>>
             ELSE /\ ready' = RemoveAt(ready, i) /\ pc' = "run"
                  /\ state' = [state EXCEPT ![v] = "running"] /\ cur' = v
    BY <1>8 DEF Dispatch
  <2> DEFINE v == ready[i]
  <2>2. /\ v \in VProcs /\ v \in Queued(ready) /\ RemoveAt(ready, i) \in Seq(VProcs)
        /\ Queued(RemoveAt(ready, i)) = Queued(ready) \ {v} /\ QueuedOnce(RemoveAt(ready, i))
    <3>1. ready \in Seq(VProcs) /\ QueuedOnce(ready)
      BY <1>0 DEF TypeOK, NoTwice
    <3>2. v \in VProcs /\ v \in Queued(ready)
      BY <3>1 DEF Queued
    <3> QED BY <3>1, <3>2, RemoveQueued
  <2>3. CASE Seeded /\ Len(ready) > 1 /\ Terminal(v)
    <3>1. ready' = <<v>> \o RemoveAt(ready, i) /\ UNCHANGED <<cur, state>> /\ pc' = "front"
      BY <2>1, <2>3
    <3>2. <<v>> \in Seq(VProcs) /\ Queued(<<v>>) = {v} /\ QueuedOnce(<<v>>)
      BY <2>2 DEF Queued, QueuedOnce
    <3>3. Queued(ready') = Queued(ready) /\ QueuedOnce(ready')
      <4> DEFINE first == <<v>>
                 rest == RemoveAt(ready, i)
      <4>1. /\ first \in Seq(VProcs) /\ Queued(first) = {v} /\ QueuedOnce(first)
            /\ rest \in Seq(VProcs) /\ Queued(rest) = Queued(ready) \ {v} /\ QueuedOnce(rest)
            /\ v \in Queued(ready) /\ ready' = first \o rest
        BY <2>2, <3>1, <3>2
      <4> HIDE DEF v, first, rest
      <4>2. Queued(first) \cap Queued(rest) = {}
        BY <4>1
      <4>3. Queued(first \o rest) = {v} \cup (Queued(ready) \ {v}) /\ QueuedOnce(first \o rest)
        BY <4>1, <4>2, ConcatQueued
      <4> QED BY <4>1, <4>3
    <3>4. NoTwice' /\ OneList' /\ RightState'
      BY <1>0, <1>8, <3>1, <3>3 DEF Dispatch, NoTwice, OneList, RightState, StateSet, lists
    <3> QED BY <1>0, <1>8, <3>1, <3>4 DEF PlaceInv, RightCur, Dispatch
  <2>4. CASE ~(Seeded /\ Len(ready) > 1 /\ Terminal(v))
    <3>1. /\ ready' = RemoveAt(ready, i) /\ pc' = "run" /\ cur' = v
          /\ \A u \in VProcs : state'[u] = IF u = v THEN "running" ELSE state[u]
      BY <2>1, <2>2, <2>4 DEF TypeOK
    <3>2. NoTwice' /\ OneList' /\ RightState'
      <4> HIDE DEF v
      <4> QED BY <1>0, <1>8, <2>2, <3>1, Placed
              DEF Dispatch, NoTwice, OneList, RightState, StateSet, lists
    <3>3. RightCur'
      BY <1>0, <1>8, <2>2, <3>1, MainAssumption DEF RightCur, Dispatch
    <3> QED BY <3>2, <3>3 DEF PlaceInv
  <2> QED BY <2>3, <2>4
<1> QED BY <1>1, <1>2, <1>3, <1>4, <1>5, <1>6, <1>7, <1>8 DEF Schedule

\* The end of a step.
LEMMA AfterPlaces ==
  ASSUME TypeOK, cur \in VProcs, PlaceInv, After
  PROVE  PlaceInv'
<1>0. NoTwice /\ OneList /\ RightState /\ RightCur /\ outcome = "none"
  BY DEF PlaceInv, RightCur, After, AfterKill, AfterStop, AfterHalt, AfterAlone, AfterYield, Leaves
<1>1. CASE AfterKill
  <2>1. NoTwice' /\ OneList' /\ RightState'
    BY <1>0, <1>1, KillPlaces DEF AfterKill
  <2>2. \A u \in VProcs : state'[u] = IF u = cur THEN "finished" ELSE state[u]
    BY <1>1 DEF AfterKill, KillNow, Finish, TypeOK
  <2> QED BY <1>0, <1>1, <2>1, <2>2 DEF PlaceInv, RightCur, AfterKill, Leaves
<1>2. CASE AfterStop
  BY <1>0, <1>2, StillPlaced DEF AfterStop, Leaves, PlaceInv, RightCur, queue, lists
<1>3. CASE AfterHalt
  <2>1. \A u \in VProcs : state'[u] = IF u = cur THEN "finished" ELSE state[u]
    BY <1>3 DEF AfterHalt, Finish, TypeOK
  <2>2. UNCHANGED <<ready, lists>> /\ state[cur] = "running"
    BY <1>3 DEF AfterHalt
  <2>3. NoTwice' /\ OneList' /\ RightState'
    BY <1>0, <2>1, <2>2 DEF NoTwice, OneList, RightState, StateSet, lists
  <2> QED BY <1>0, <1>3, <2>1, <2>3 DEF PlaceInv, RightCur, AfterHalt, Leaves
<1>4. CASE AfterAlone
  BY <1>0, <1>4, StillPlaced DEF AfterAlone, PlaceInv, RightCur, queue, lists, loop
<1>5. CASE AfterYield
  <2>1. \A u \in VProcs : state'[u] = IF u = cur THEN "ready" ELSE state[u]
    BY <1>5 DEF AfterYield, TypeOK
  <2>2. UNCHANGED lists /\ state[cur] = "running" /\ cur \notin Queued(ready)
    BY <1>0, <1>5 DEF AfterYield, RightState, StateSet
  <2>3. Queued(ready') = Queued(ready) \cup {cur} /\ QueuedOnce(ready')
    BY <1>0, <1>5, <2>2, ListTypes, AppendQueued DEF AfterYield, NoTwice
  <2>4. NoTwice' /\ OneList' /\ RightState'
    BY <1>0, <2>1, <2>2, <2>3, Placed DEF NoTwice, OneList, RightState, StateSet, lists
  <2> QED BY <1>0, <1>5, <2>1, <2>4 DEF PlaceInv, RightCur, AfterYield, Leaves
<1> QED BY <1>1, <1>2, <1>3, <1>4, <1>5 DEF After

\* One step of a program.
LEMMA StepPlaces ==
  ASSUME TypeOK, NEW v \in VProcs, PlaceInv, Step(v)
  PROVE  PlaceInv'
<1>0. /\ NoTwice /\ OneList /\ RightState /\ RightCur
      /\ pc = "run" /\ cur = v /\ state[v] = "running" /\ outcome = "none"
  BY ZenonT(60) DEF PlaceInv, RightCur, Step, Compute, Fail, FailWith, NullReturn, NullFail, Exit, Start,
     Suspend, Resume, Join, Kill, RefSet, RefWaitChange, ClaimThunk, ClaimCell, ClaimError,
     ClaimWait, Claims, Hold, Publish, OsWait, ReadStream, TrapInterrupt, Runs
<1>1. ASSUME NoTwice', OneList', RightState', pc' = "after", cur' = v, outcome' = outcome,
             \A u \in VProcs : state'[u] = "running" => state[u] = "running"
      PROVE  PlaceInv'
  BY <1>0, <1>1, MainAssumption DEF PlaceInv, RightCur
<1>2. ASSUME UNCHANGED <<state, ready, lists>>, pc' = "after", cur' = v, outcome' = outcome
      PROVE  PlaceInv'
  BY <1>0, <1>1, <1>2, StillPlaced
<1>3. ASSUME NEW t \in VProcs, KillNow(t), pc' = "after", cur' = v, outcome' = outcome
      PROVE  PlaceInv'
  <2>1. \A u \in VProcs : state'[u] = IF u = t THEN "finished" ELSE state[u]
    BY <1>3 DEF KillNow, Finish, TypeOK
  <2> QED BY <1>0, <1>1, <1>3, <2>1, KillPlaces
<1>4. CASE Fail(v) \/ NullFail(v)
  <2>1. FailWith(v) /\ pc' = "after" /\ cur' = v /\ outcome' = outcome
    BY <1>0, <1>4 DEF Fail, NullFail, FailWith
  <2>2. \A u \in VProcs : state'[u] = IF u = v THEN "finished" ELSE state[u]
    BY <2>1 DEF FailWith, Finish, TypeOK
  <2>3. UNCHANGED <<ready, lists>>
    BY <2>1 DEF FailWith
  <2>4. NoTwice' /\ OneList' /\ RightState'
    BY <1>0, <2>2, <2>3 DEF NoTwice, OneList, RightState, StateSet, lists
  <2> QED BY <1>1, <2>1, <2>2, <2>4
<1>5. CASE Exit(v)
  <2>1. NoTwice' /\ OneList' /\ RightState'
    BY <1>0, <1>5, StillPlaced DEF Exit, queue
  <2> QED BY <1>0, <1>5, <2>1 DEF PlaceInv, RightCur, Exit, queue
<1>6. ASSUME NEW t \in VProcs, Start(v, t)
      PROVE  PlaceInv'
  <2>1. \A u \in VProcs : state'[u] = IF u = t THEN "ready" ELSE state[u]
    BY <1>6 DEF Start, TypeOK
  <2>2. UNCHANGED lists /\ state[t] = "absent" /\ t \notin Queued(ready)
    BY <1>0, <1>6 DEF Start, RightState, StateSet
  <2>3. Queued(ready') = Queued(ready) \cup {t} /\ QueuedOnce(ready')
    BY <1>0, <1>6, <2>2, ListTypes, AppendQueued DEF Start, NoTwice
  <2>4. NoTwice' /\ OneList' /\ RightState'
    BY <1>0, <2>1, <2>2, <2>3, Placed DEF NoTwice, OneList, RightState, StateSet, lists
  <2> QED BY <1>0, <1>1, <1>6, <2>1, <2>4 DEF Start, Runs, loop
<1>7. ASSUME NEW t \in VProcs, Suspend(v, t)
      PROVE  PlaceInv'
  <2>1. CASE state[t] \in {"ready", "running"}
    <3>1. /\ \A u \in VProcs : state'[u] = IF u = t THEN "blocked" ELSE state[u]
          /\ UNCHANGED lists
      BY <1>7, <2>1 DEF Suspend, TypeOK
    <3>2. Queued(ready') = Queued(ready) \ {t} /\ QueuedOnce(ready')
      <4>1. CASE state[t] = "ready"
        BY <1>0, <1>7, <4>1, ListTypes, DequeueQueued DEF Suspend, NoTwice
      <4>2. CASE state[t] # "ready"
        BY <1>0, <1>7, <4>2 DEF Suspend, NoTwice, RightState, StateSet
      <4> QED BY <4>1, <4>2
    <3>3. NoTwice' /\ OneList' /\ RightState'
      BY <1>0, <2>1, <3>1, <3>2, Placed DEF NoTwice, OneList, RightState, StateSet, lists
    <3> QED BY <1>0, <1>1, <1>7, <3>1, <3>3 DEF Suspend, Runs, loop
  <2>2. CASE state[t] \notin {"ready", "running"}
    BY <1>0, <1>2, <1>7, <2>2 DEF Suspend, Runs, loop
  <2> QED BY <2>1, <2>2
<1>8. ASSUME NEW t \in VProcs, Resume(v, t)
      PROVE  PlaceInv'
  <2>1. CASE Resumable(t)
    <3>1. /\ \A u \in VProcs : state'[u] = IF u = t THEN "ready" ELSE state[u]
          /\ UNCHANGED lists /\ ready' = Append(ready, t)
      BY <1>8, <2>1 DEF Resume, TypeOK
    <3>2. state[t] = "blocked" /\ t \notin Queued(ready)
      BY <1>0, <2>1 DEF Resumable, RightState, StateSet
    <3>3. Queued(ready') = Queued(ready) \cup {t} /\ QueuedOnce(ready')
      BY <1>0, <3>1, <3>2, ListTypes, AppendQueued DEF NoTwice
    <3>4. NoTwice' /\ OneList' /\ RightState'
      BY <1>0, <3>1, <3>2, <3>3, Placed DEF NoTwice, OneList, RightState, StateSet, lists
    <3> QED BY <1>0, <1>1, <1>8, <3>1, <3>4 DEF Resume, Runs, loop
  <2>2. CASE ~Resumable(t)
    BY <1>0, <1>2, <1>8, <2>2 DEF Resume, Runs, loop
  <2> QED BY <2>1, <2>2
<1>9. ASSUME NEW t \in VProcs, Join(v, t)
      PROVE  PlaceInv'
  <2>1. CASE state[t] # "finished"
    <3> DEFINE e == [vp |-> v, on |-> t]
    <3>1. /\ e \in Joined /\ e.vp = v /\ joining' = Append(joining, e) /\ MakeWaiting(v)
          /\ UNCHANGED <<ready, lazy, changes, waiting>>
      BY <1>9, <2>1 DEF Join, Joined
    <3>2. NoTwice' /\ OneList' /\ RightState'
      <4> HIDE DEF e
      <4> QED BY <1>0, <3>1, WaitPlaces
    <3> QED BY <1>0, <1>1, <1>9, <3>1, <3>2 DEF Join, Runs, loop, MakeWaiting, TypeOK
  <2>2. CASE state[t] = "finished"
    BY <1>0, <1>2, <1>9, <2>2 DEF Join, Runs, loop, lists
  <2> QED BY <2>1, <2>2
<1>10. ASSUME NEW t \in VProcs, Kill(v, t)
       PROVE  PlaceInv'
  <2>1. CASE state[t] = "finished" \/ Evaluating(t) # {}
    BY <1>0, <1>2, <1>10, <2>1 DEF Kill, Runs, loop, queue
  <2>2. CASE state[t] # "finished" /\ Evaluating(t) = {}
    BY <1>0, <1>3, <1>10, <2>2 DEF Kill, Runs, loop
  <2> QED BY <2>1, <2>2
<1>11. ASSUME NEW r \in Refs \cup Lazies, NEW x \in Value(r), RefWaitChange(v, r, x)
       PROVE  PlaceInv'
  <2>1. CASE Current(r) = x
    <3> DEFINE e == [vp |-> v, on |-> r, old |-> x]
    <3>1. /\ e \in Changed /\ e.vp = v /\ changes' = Append(changes, e) /\ MakeWaiting(v)
          /\ UNCHANGED <<ready, joining, lazy, waiting>>
      BY <1>11, <2>1 DEF RefWaitChange, Changed, Value
    <3>2. NoTwice' /\ OneList' /\ RightState'
      <4> HIDE DEF e
      <4> QED BY <1>0, <3>1, WaitPlaces
    <3> QED BY <1>0, <1>1, <1>11, <3>1, <3>2 DEF RefWaitChange, Runs, loop, MakeWaiting, TypeOK
  <2>2. CASE Current(r) # x
    BY <1>0, <1>2, <1>11, <2>2 DEF RefWaitChange, Runs, loop, lists
  <2> QED BY <2>1, <2>2
<1>12. ASSUME NEW l \in Lazies, NEW c \in Control, ClaimWait(v, l, c)
       PROVE  PlaceInv'
  <2> DEFINE e == [vp |-> v, on |-> l]
  <2>1. /\ e \in Claimed /\ e.vp = v /\ lazy' = Append(lazy, e) /\ MakeWaiting(v)
        /\ UNCHANGED <<ready, joining, changes, waiting>>
    BY <1>12 DEF ClaimWait, Claimed
  <2>2. NoTwice' /\ OneList' /\ RightState'
    <3> HIDE DEF e
    <3> QED BY <1>0, <2>1, WaitPlaces
  <2> QED BY <1>0, <1>1, <1>12, <2>1, <2>2 DEF ClaimWait, Claims, Runs, loop, MakeWaiting, TypeOK
<1>13. ASSUME NEW t \in Targets, OsWait(v, t)
       PROVE  PlaceInv'
  <2>1. CASE t \notin fired
    <3> DEFINE e == [vp |-> v, on |-> t]
    <3>1. /\ e \in Awaited /\ e.vp = v /\ waiting' = Append(waiting, e) /\ MakeWaiting(v)
          /\ UNCHANGED <<ready, joining, lazy, changes>>
      BY <1>13, <2>1 DEF OsWait, Awaited
    <3>2. NoTwice' /\ OneList' /\ RightState'
      <4> HIDE DEF e
      <4> QED BY <1>0, <3>1, WaitPlaces
    <3> QED BY <1>0, <1>1, <1>13, <3>1, <3>2 DEF OsWait, Runs, loop, MakeWaiting, TypeOK
  <2>2. CASE t \in fired
    BY <1>0, <1>2, <1>13, <2>2 DEF OsWait, Runs, loop, lists
  <2> QED BY <2>1, <2>2
<1>14. ASSUME NEW l \in Lazies, Publish(v, l)
       PROVE  PlaceInv'
  <2>1. CASE UNCHANGED <<queue, lists, ended>>
    BY <1>0, <1>2, <1>14, <2>1 DEF Publish, Runs, loop, queue
  <2>2. CASE KillNow(v)
    BY <1>0, <1>3, <1>14, <2>2 DEF Publish, Runs, loop
  <2> QED BY <1>14, <2>1, <2>2 DEF Publish
<1>15. ASSUME NEW l \in Lazies, NEW c \in Control,
              ClaimThunk(v, l, c) \/ ClaimCell(v, l, c) \/ ClaimError(v, l, c)
       PROVE  PlaceInv'
  BY <1>0, <1>2, <1>15 DEF ClaimThunk, ClaimCell, ClaimError, Claims, Runs, loop, queue
<1>16. ASSUME NEW x, NEW y, \/ Compute(v) \/ NullReturn(v) \/ RefSet(v, x, y)
                            \/ Hold(v, x) \/ ReadStream(v, x) \/ TrapInterrupt(v, x)
       PROVE  PlaceInv'
  BY <1>0, <1>2, <1>16
  DEF Compute, NullReturn, RefSet, Hold, ReadStream, TrapInterrupt, Runs, loop, queue
<1> QED
  BY <1>4, <1>5, <1>6, <1>7, <1>8, <1>9, <1>10, <1>11, <1>12, <1>13, <1>14, <1>15, <1>16 DEF Step

LEMMA NextPlaces == TypeInv /\ PlaceInv /\ [Next]_vars => PlaceInv'
<1> SUFFICES ASSUME TypeInv, PlaceInv, [Next]_vars PROVE PlaceInv'
  OBVIOUS
<1>0. TypeOK
  BY DEF TypeInv
<1>1. CASE Schedule
  BY <1>0, <1>1, SchedulePlaces
<1>2. CASE After
  <2>1. cur \in VProcs
    BY <1>2 DEF TypeInv, After, AfterKill, AfterStop, AfterHalt, AfterAlone, AfterYield, Leaves
  <2> QED BY <1>0, <1>2, <2>1, AfterPlaces
<1>3. ASSUME NEW v \in VProcs, Step(v) PROVE PlaceInv'
  BY <1>0, <1>3, StepPlaces
<1>4. CASE (\E t \in Targets : Fire(t)) \/ Interrupt \/ UNCHANGED vars
  <2>1. UNCHANGED <<pc, loop, queue, lists>>
    BY <1>4 DEF Fire, Interrupt, vars
  <2> QED BY <2>1, StillPlaced DEF PlaceInv, RightCur, loop, queue
<1> QED BY <1>1, <1>2, <1>3, <1>4 DEF Next, Machine, Stopped

LEMMA InitPlaces == Init => PlaceInv
<1> SUFFICES ASSUME Init PROVE PlaceInv
  OBVIOUS
<1>1. Queued(ready) = {Main} /\ QueuedOnce(ready)
  BY DEF Init, Queued, QueuedOnce
<1>2. NoTwice /\ OneList
  BY <1>1, EmptyMembers DEF Init, NoTwice, OneList
<1>3. RightState /\ RightCur
  BY <1>1, EmptyMembers, MainAssumption DEF Init, RightState, RightCur, StateSet
<1> QED BY <1>2, <1>3 DEF PlaceInv

LEMMA PlacesAreSafe == Spec => [](TypeInv /\ PlaceInv)
<1>1. Spec => []TypeInv
  BY InitType, NextType, PTL DEF Spec
<1> QED BY <1>1, InitPlaces, NextPlaces, PTL DEF Spec

\* Who is once in a list has one entry there, and others have none.
LEMMA EntryCount ==
  ASSUME NEW list, NEW v, Once(list)
  PROVE  Cardinality(Entries(list, v)) = IF v \in Members(list) THEN 1 ELSE 0
<1>1. CASE v \in Members(list)
  <2>1. PICK i \in DOMAIN list : list[i].vp = v
    BY <1>1 DEF Members
  <2>2. Entries(list, v) = {i}
    BY <2>1 DEF Entries, Once
  <2> QED BY <1>1, <2>2, FS_Singleton
<1>2. CASE v \notin Members(list)
  <2>1. Entries(list, v) = {}
    BY <1>2 DEF Entries, Members
  <2> QED BY <1>2, <2>1, FS_EmptySet
<1> QED BY <1>1, <1>2

LEMMA QueueCount ==
  ASSUME NEW v, QueuedOnce(ready)
  PROVE  Cardinality({i \in DOMAIN ready : ready[i] = v}) = IF v \in Queued(ready) THEN 1 ELSE 0
<1> DEFINE at == {i \in DOMAIN ready : ready[i] = v}
<1>1. CASE v \in Queued(ready)
  <2>1. PICK i \in DOMAIN ready : ready[i] = v
    BY <1>1 DEF Queued
  <2>2. at = {i}
    BY <2>1 DEF QueuedOnce
  <2> QED BY <1>1, <2>2, FS_Singleton
<1>2. CASE v \notin Queued(ready)
  <2>1. at = {}
    BY <1>2 DEF Queued
  <2> QED BY <1>2, <2>1, FS_EmptySet
<1> QED BY <1>1, <1>2

\* A VProc is in exactly one place, the one its state names, however suspend,
\* resume, kill and the checks of the loop move it: no VProc runs twice, is
\* woken twice or is lost.
THEOREM PlacesAreRight == Spec => []Consistent
<1>1. PlaceInv => Consistent
  <2> SUFFICES ASSUME PlaceInv PROVE Consistent
    OBVIOUS
  <2>1. ASSUME NEW v \in VProcs
        PROVE  Cardinality({i \in DOMAIN ready : ready[i] = v}) = IF state[v] = "ready" THEN 1 ELSE 0
    BY QueueCount DEF PlaceInv, NoTwice, RightState, StateSet
  <2>2. ASSUME NEW v \in VProcs
        PROVE  Cardinality(Entries(joining, v)) + Cardinality(Entries(lazy, v))
               + Cardinality(Entries(changes, v)) + Cardinality(Entries(waiting, v))
               = IF state[v] = "waiting" THEN 1 ELSE 0
    <3>1. /\ Cardinality(Entries(joining, v)) = IF v \in Members(joining) THEN 1 ELSE 0
          /\ Cardinality(Entries(lazy, v)) = IF v \in Members(lazy) THEN 1 ELSE 0
          /\ Cardinality(Entries(changes, v)) = IF v \in Members(changes) THEN 1 ELSE 0
          /\ Cardinality(Entries(waiting, v)) = IF v \in Members(waiting) THEN 1 ELSE 0
      BY EntryCount DEF PlaceInv, NoTwice
    <3>2. state[v] = "waiting" <=>
            v \in Members(joining) \cup Members(lazy) \cup Members(changes) \cup Members(waiting)
      BY DEF PlaceInv, RightState, StateSet
    <3>3. /\ v \in Members(joining) => v \notin Members(lazy) \cup Members(changes) \cup Members(waiting)
          /\ v \in Members(lazy) => v \notin Members(changes) \cup Members(waiting)
          /\ v \in Members(changes) => v \notin Members(waiting)
      BY DEF PlaceInv, OneList
    <3> QED BY <3>1, <3>2, <3>3
  <2> QED BY <2>1, <2>2 DEF Consistent, PlaceInv, RightCur
<1> QED BY <1>1, PlacesAreSafe, PTL
----------------------------------------------------------------------------
(***************************************************************************)
(* LazyLists.  The phases of the loop leave values and CChains alone, one  *)
(* VProc at a time changes its own, and a VProc that has finished stays so.*)
(***************************************************************************)

\* Fire and Interrupt, and steps that change nothing.
Idle == (\E t \in Targets : Fire(t)) \/ Interrupt \/ UNCHANGED vars

\* What the loop, the end of a step and the OS do not touch.
LEMMA LoopKeeps ==
  ASSUME Schedule \/ After \/ Idle
  PROVE  UNCHANGED <<val, info, chain, killPending>>
<1>1. CASE Schedule
  BY <1>1 DEF Schedule, FinishFront, CheckJoining, CheckLazy, CheckChanges, OsSleep, OsPoll,
     OsSkip, SignalSleep, Stop, Dispatch, CheckWaiting, progs, cells
<1>2. CASE After
  BY <1>2 DEF After, AfterKill, AfterStop, AfterHalt, AfterAlone, AfterYield, cells
<1>3. CASE Idle
  BY <1>3 DEF Idle, Fire, Interrupt, vars, progs, cells
<1> QED BY <1>1, <1>2, <1>3

\* Only the running VProc takes a step.
LEMMA StepRuns ==
  ASSUME PlaceInv, NEW v \in VProcs, Step(v)
  PROVE  /\ pc = "run" /\ cur = v /\ state[v] = "running" /\ outcome = "none"
         /\ pc' \in {"after", "stopped"}
         /\ pc' = "after" => cur' = v /\ outcome' = "none"
BY ZenonT(60) DEF PlaceInv, RightCur, Step, Compute, Fail, FailWith, NullReturn, NullFail, Exit, Start,
   Suspend, Resume, Join, Kill, RefSet, RefWaitChange, ClaimThunk, ClaimCell, ClaimError,
   ClaimWait, Claims, Hold, Publish, OsWait, ReadStream, TrapInterrupt, Runs, loop

\* check_joining and the other checks wake VProcs that have not finished.
LEMMA WakeLeaves ==
  ASSUME TypeOK, RightState, NEW S, NEW list \in Seq(S), \A e \in S : e.vp \in VProcs,
         Members(list) \subseteq StateSet("waiting"),
         NEW I \in SUBSET DOMAIN list, NEW up \in Sublist(list, I), Wake(up)
  PROVE  \A v \in VProcs : state'[v] = state[v] \/ (state[v] = "waiting" /\ state'[v] = "ready")
<1>1. /\ \A k \in DOMAIN up : \E i \in I : up[k] = list[i]
      /\ \A k \in DOMAIN up : up[k].vp \in StateSet("waiting")
  BY SublistOf DEF Members
<1> QED BY <1>1 DEF Wake, StateSet

\* The states a phase of the loop moves VProcs between.
LEMMA ScheduleStates ==
  ASSUME TypeOK, PlaceInv, Schedule
  PROVE  \A v \in VProcs :
           \/ state'[v] = state[v]
           \/ state[v] = "waiting" /\ state'[v] = "ready"
           \/ state[v] = "ready" /\ pc' = "run" /\ cur' = v /\ state'[v] = "running"
           \/ state[v] = "ready" /\ pc' = "front" /\ state'[v] = "finished"
<1>0. RightState /\ RightCur
  BY DEF PlaceInv
<1>1. CASE FinishFront
  <2>1. Head(ready) \in Queued(ready) /\ Head(ready) \in VProcs
    BY <1>1 DEF FinishFront, FrontHalted, Queued, TypeOK
  <2>2. state[Head(ready)] = "ready"
    BY <1>0, <2>1 DEF RightState, StateSet
  <2> QED BY <1>1, <2>1, <2>2 DEF FinishFront, Finish, TypeOK
<1>2. CASE CheckJoining
  <2>1. CASE JoinDue
    <3>1. PICK up \in Sublist(joining, {i \in DOMAIN joining : state[joining[i].on] = "finished"}) :
            Wake(up)
      BY <1>2, <2>1 DEF CheckJoining
    <3> QED BY <1>0, <3>1, ListTypes, WakeLeaves DEF RightState
  <2>2. CASE ~JoinDue
    BY <1>2, <2>2 DEF CheckJoining, queue
  <2> QED BY <2>1, <2>2
<1>3. CASE CheckLazy
  <2>1. PICK up \in Sublist(lazy, {i \in DOMAIN lazy : ~BeingEvaluated(lazy[i].on)}) : Wake(up)
    BY <1>3 DEF CheckLazy
  <2> QED BY <1>0, <2>1, ListTypes, WakeLeaves DEF RightState
<1>4. CASE CheckChanges
  <2> DEFINE moved == {i \in DOMAIN changes :
                        (IF changes[i].on \in Refs THEN ref'[changes[i].on]
                         ELSE val[changes[i].on]) # changes[i].old}
  <2>1. CASE changes # <<>> /\ Flag
    <3>1. PICK up \in Sublist(changes, moved) : Wake(up)
      BY <1>4, <2>1 DEF CheckChanges
    <3>2. moved \in SUBSET DOMAIN changes
      OBVIOUS
    <3> HIDE DEF moved
    <3> QED BY <1>0, <3>1, <3>2, ListTypes, WakeLeaves DEF RightState
  <2>2. CASE ~(changes # <<>> /\ Flag)
    BY <1>4, <2>2 DEF CheckChanges
  <2> QED BY <2>1, <2>2
<1>5. CASE OsSleep \/ OsPoll \/ SignalSleep
  <2>1. PICK up \in Sublist(waiting, OsReady) : Wake(up)
    BY <1>5 DEF OsSleep, OsPoll, SignalSleep, CheckWaiting
  <2>2. OsReady \in SUBSET DOMAIN waiting
    BY DEF OsReady
  <2> QED BY <1>0, <2>1, <2>2, ListTypes, WakeLeaves DEF RightState
<1>6. CASE OsSkip \/ Stop
  BY <1>6 DEF OsSkip, Stop, queue
<1>7. CASE Dispatch
  <2>1. PICK i \in DOMAIN ready :
          \/ UNCHANGED state
          \/ state' = [state EXCEPT ![ready[i]] = "running"] /\ pc' = "run" /\ cur' = ready[i]
    BY <1>7 DEF Dispatch
  <2>2. ready[i] \in VProcs /\ state[ready[i]] = "ready"
    BY <1>0 DEF RightState, StateSet, Queued
  <2> QED BY <2>1, <2>2 DEF TypeOK
<1> QED BY <1>1, <1>2, <1>3, <1>4, <1>5, <1>6, <1>7 DEF Schedule

\* A VProc that has finished stays so, whatever happens.
LEMMA FinishedStays ==
  ASSUME TypeInv, PlaceInv, [Next]_vars
  PROVE  \A v \in VProcs : state[v] = "finished" => state'[v] = "finished"
<1>0. TypeOK
  BY DEF TypeInv
<1>1. CASE Schedule
  BY <1>0, <1>1, ScheduleStates
<1>2. CASE After
  BY <1>0, <1>2 DEF After, AfterKill, AfterStop, AfterHalt, AfterAlone, AfterYield, KillNow,
     Finish, queue, TypeOK
<1>3. ASSUME NEW v \in VProcs, Step(v)
      PROVE  \A u \in VProcs : state[u] = "finished" => state'[u] = "finished"
  <2>0. state[v] = "running"
    BY <1>3, StepRuns
  <2>1. CASE UNCHANGED state
    BY <2>1
  <2>2. CASE MakeWaiting(v)
    BY <1>0, <2>0, <2>2 DEF MakeWaiting, TypeOK
  <2>3. ASSUME NEW t \in VProcs, NEW how, Finish(t, how)
        PROVE  \A u \in VProcs : state[u] = "finished" => state'[u] = "finished"
    BY <1>0, <2>3 DEF Finish, TypeOK
  <2>4. ASSUME NEW t \in VProcs, Start(v, t) \/ Suspend(v, t) \/ Resume(v, t)
        PROVE  \A u \in VProcs : state[u] = "finished" => state'[u] = "finished"
    BY <1>0, <2>4 DEF Start, Suspend, Resume, Resumable, TypeOK
  <2>5. ASSUME NEW t \in VProcs, Kill(v, t)
        PROVE  UNCHANGED state \/ Finish(t, "killed")
    BY <2>5 DEF Kill, KillNow, queue
  <2>6. ASSUME NEW l \in Lazies, Publish(v, l)
        PROVE  UNCHANGED state \/ Finish(v, "killed")
    BY <2>6 DEF Publish, KillNow, queue
  <2>7. ASSUME NEW x, NEW y,
               \/ Join(v, x) \/ RefWaitChange(v, x, y) \/ ClaimWait(v, x, y) \/ OsWait(v, x)
        PROVE  UNCHANGED state \/ MakeWaiting(v)
    BY <2>7 DEF Join, RefWaitChange, ClaimWait, OsWait
  <2>8. CASE Fail(v) \/ NullFail(v)
    BY <2>3, <2>8 DEF Fail, NullFail, FailWith
  <2>9. ASSUME NEW x, NEW y,
               \/ Compute(v) \/ NullReturn(v) \/ Exit(v) \/ RefSet(v, x, y)
               \/ ClaimThunk(v, x, y) \/ ClaimCell(v, x, y) \/ ClaimError(v, x, y)
               \/ Hold(v, x) \/ ReadStream(v, x) \/ TrapInterrupt(v, x)
        PROVE  UNCHANGED state
    BY <2>9 DEF Compute, NullReturn, Exit, RefSet, ClaimThunk, ClaimCell, ClaimError, Hold,
       ReadStream, TrapInterrupt, queue
  <2> QED BY <1>3, <2>1, <2>2, <2>3, <2>4, <2>5, <2>6, <2>7, <2>8, <2>9 DEF Step
<1>4. CASE Idle
  BY <1>4 DEF Idle, Fire, Interrupt, vars, queue
<1> QED BY <1>1, <1>2, <1>3, <1>4 DEF Next, Machine, Stopped, Idle

\* The steps that change the value of a LazyList: one at a time.
LEMMA StepCells ==
  ASSUME NEW v \in VProcs, Step(v)
  PROVE  \/ UNCHANGED <<val, info>>
         \/ \E l \in Lazies, c \in Control : ClaimThunk(v, l, c)
         \/ \E l \in Lazies : Hold(v, l)
         \/ \E l \in Lazies : Publish(v, l)
<1>1. ASSUME NEW t \in VProcs,
             Start(v, t) \/ Suspend(v, t) \/ Resume(v, t) \/ Join(v, t) \/ Kill(v, t)
      PROVE  UNCHANGED <<val, info>>
  BY <1>1 DEF Start, Suspend, Resume, Join, Kill, cells
<1>2. ASSUME NEW x, NEW y,
             \/ RefSet(v, x, y) \/ RefWaitChange(v, x, y) \/ ClaimCell(v, x, y)
             \/ ClaimError(v, x, y) \/ ClaimWait(v, x, y)
      PROVE  UNCHANGED <<val, info>>
  BY <1>2 DEF RefSet, RefWaitChange, ClaimCell, ClaimError, ClaimWait, cells
<1>3. ASSUME NEW x, \/ Compute(v) \/ Fail(v) \/ NullReturn(v) \/ NullFail(v) \/ Exit(v)
                    \/ OsWait(v, x) \/ ReadStream(v, x) \/ TrapInterrupt(v, x)
      PROVE  UNCHANGED <<val, info>>
  BY <1>3 DEF Compute, Fail, NullReturn, NullFail, FailWith, Exit, OsWait, ReadStream,
     TrapInterrupt, cells
<1> QED BY <1>1, <1>2, <1>3 DEF Step

\* What each of them writes.
LEMMA ClaimWrites ==
  ASSUME TypeOK, NEW v \in VProcs, NEW l \in Lazies, NEW c \in Control, ClaimThunk(v, l, c)
  PROVE  /\ Claimable(l) /\ pc = "run" /\ cur = v
         /\ \A k \in Lazies : val'[k] = IF k = l THEN v ELSE val[k]
         /\ \A k \in Lazies : info'[k] = IF k = l THEN [by |-> "claim", chain |-> chain[v]]
                                                  ELSE info[k]
         /\ \A u \in VProcs :
              claims'[u] = IF u = v THEN {x \in claims[v] : val[x] = v} \cup {l} ELSE claims[u]
         /\ UNCHANGED <<state, chain, lazy, killPending, ended>>
<1>1. /\ Claimable(l) /\ pc = "run" /\ cur = v /\ MarkClaimed(v, l)
      /\ UNCHANGED <<state, chain, lazy, killPending, ended>>
  BY DEF ClaimThunk, Claims, Runs, queue, lists
<1> QED BY <1>1 DEF MarkClaimed, TypeOK

LEMMA HoldWrites ==
  ASSUME TypeOK, NEW v \in VProcs, NEW l \in Lazies, Hold(v, l)
  PROVE  /\ val[l] = Unmade /\ l \in Holds /\ pc = "run" /\ cur = v
         /\ \A k \in Lazies : val'[k] = IF k = l THEN v ELSE val[k]
         /\ \A k \in Lazies : info'[k] = IF k = l THEN [by |-> "hold", chain |-> <<>>] ELSE info[k]
         /\ UNCHANGED <<state, chain, lazy, claims, killPending, ended>>
BY DEF Hold, Runs, queue, lists, TypeOK

LEMMA PublishWrites ==
  ASSUME TypeOK, NEW v \in VProcs, NEW l \in Lazies, Publish(v, l)
  PROVE  /\ val[l] = v /\ pc = "run" /\ cur = v
         /\ \A k \in Lazies : val'[k] = IF k = l THEN Cell ELSE val[k]
         /\ \A k \in Lazies : info'[k] = IF k = l THEN NoMark ELSE info[k]
         /\ UNCHANGED <<chain, killPending>>
         /\ UNCHANGED <<queue, lists, ended>> \/ KillNow(v)
BY DEF Publish, MayPublish, Runs, TypeOK

\* The claim of a LazyList that is being evaluated stays with its owner until
\* that one publishes the cell, and the cell stays: no interleaving of claims,
\* kills and continuations makes two VProcs evaluate one LazyList at a time.
THEOREM ClaimIsKept == Spec => ClaimIsExclusive
<1> DEFINE Kept == \A l \in Lazies :
             /\ val[l] = Cell => val'[l] = Cell
             /\ BeingEvaluated(l) /\ val'[l] # val[l] => val'[l] = Cell /\ cur = val[l]
<1>1. TypeInv /\ [Next]_vars => [Kept]_vars
  <2> SUFFICES ASSUME TypeInv, [Next]_vars, NEW l \in Lazies
               PROVE  /\ val[l] = Cell => val'[l] = Cell
                      /\ BeingEvaluated(l) /\ val'[l] # val[l] => val'[l] = Cell /\ cur = val[l]
    OBVIOUS
  <2>0. TypeOK
    BY DEF TypeInv
  <2>1. CASE Schedule \/ After \/ Idle
    BY <2>1, LoopKeeps
  <2>2. ASSUME NEW v \in VProcs, Step(v)
        PROVE  /\ val[l] = Cell => val'[l] = Cell
               /\ BeingEvaluated(l) /\ val'[l] # val[l] => val'[l] = Cell /\ cur = val[l]
    <3>1. CASE UNCHANGED <<val, info>>
      BY <3>1
    <3>2. ASSUME NEW k \in Lazies, NEW c \in Control, ClaimThunk(v, k, c)
          PROVE  val[l] # Cell \/ val'[l] = Cell
      BY <2>0, <3>2, ClaimWrites, DisjointAssumption DEF Claimable
    <3>3. ASSUME NEW k \in Lazies, NEW c \in Control, ClaimThunk(v, k, c), BeingEvaluated(l)
          PROVE  val'[l] = val[l]
      <4>1. val[l] \in VProcs
        BY <3>3 DEF BeingEvaluated
      <4>2. val[l] # Thunk
        BY <4>1, DisjointAssumption
      <4>3. Claimable(k) /\ (k # l => val'[l] = val[l])
        BY <2>0, <3>3, ClaimWrites, ZenonT(60)
      <4> QED BY <3>3, <4>2, <4>3 DEF Claimable
    <3>4. ASSUME NEW k \in Lazies, Hold(v, k)
          PROVE  /\ val[l] = Cell => val'[l] = Cell
                 /\ BeingEvaluated(l) => val'[l] = val[l]
      <4>1. BeingEvaluated(l) => val[l] # Unmade
        BY DisjointAssumption DEF BeingEvaluated
      <4>2. val[k] = Unmade /\ (k # l => val'[l] = val[l])
        BY <2>0, <3>4, HoldWrites
      <4> QED BY <4>1, <4>2, DisjointAssumption
    <3>5. ASSUME NEW k \in Lazies, Publish(v, k)
          PROVE  /\ val[l] = Cell => val'[l] = Cell
                 /\ val'[l] # val[l] => val'[l] = Cell /\ cur = val[l]
      BY <2>0, <3>5, PublishWrites
    <3> QED BY <2>2, <3>1, <3>2, <3>3, <3>4, <3>5, StepCells
  <2> QED BY <2>1, <2>2 DEF Next, Machine, Stopped, Idle
<1>2. Spec => []TypeInv
  BY InitType, NextType, PTL DEF Spec
<1> QED BY <1>1, <1>2, PTL DEF Spec, ClaimIsExclusive

\* Who waits for a LazyList does not own it.
WaitsForOthers == \A i \in DOMAIN lazy : val[lazy[i].on] # lazy[i].vp

\* After check_lazy whoever waits for a LazyList waits for an evaluation that
\* goes on.
LazyInv ==
  /\ WaitsForOthers
  /\ pc \in {"changes", "os", "pick", "run"} => \A i \in DOMAIN lazy : BeingEvaluated(lazy[i].on)

LEMMA LazyType ==
  ASSUME TypeOK
  PROVE  \A i \in DOMAIN lazy : lazy[i].vp \in VProcs /\ lazy[i].on \in Lazies
<1>1. \A i \in DOMAIN lazy : lazy[i] \in Claimed
  BY ListTypes
<1> QED BY <1>1 DEF Claimed

\* The checks and kill_now take entries out of the list.
PartOfLazy == \A k \in DOMAIN lazy' : \E i \in DOMAIN lazy : lazy'[k] = lazy[i]

LEMMA KillNowLazy ==
  ASSUME TypeOK, NEW v \in VProcs, KillNow(v)
  PROVE  PartOfLazy
<1>1. lazy' \in Sublist(lazy, {i \in DOMAIN lazy : lazy[i].vp # v})
  BY DEF KillNow, Without
<1> QED BY <1>1, SublistOf, ListTypes DEF PartOfLazy

\* An evaluation goes on while nobody touches the LazyList or the CChain of
\* its owner, and the owner does not finish.
LEMMA StillEvaluated ==
  ASSUME TypeOK, UNCHANGED <<val, info, chain>>,
         \A v \in VProcs : state'[v] = "finished" => state[v] = "finished",
         NEW l \in Lazies, BeingEvaluated(l)
  PROVE  BeingEvaluated(l)'
BY DEF BeingEvaluated, Abandoned

LEMMA StillOthers ==
  ASSUME TypeOK, WaitsForOthers, PartOfLazy, NEW v \in VProcs, v \notin Members(lazy),
         \A l \in Lazies : val'[l] = val[l] \/ val'[l] = v \/ val'[l] \notin VProcs
  PROVE  WaitsForOthers'
BY LazyType DEF WaitsForOthers, PartOfLazy, Members

LEMMA ScheduleLazy ==
  ASSUME TypeOK, PlaceInv, LazyInv, Schedule
  PROVE  LazyInv'
<1>0. UNCHANGED <<val, info, chain>>
  BY LoopKeeps
<1>1. CASE CheckLazy
  <2> DEFINE free == {i \in DOMAIN lazy : ~BeingEvaluated(lazy[i].on)}
  <2>1. lazy' \in Sublist(lazy, DOMAIN lazy \ free) /\ pc' = "changes"
    BY <1>1 DEF CheckLazy
  <2>2. \A k \in DOMAIN lazy' : \E i \in DOMAIN lazy \ free : lazy'[k] = lazy[i]
    <3> DEFINE rest == DOMAIN lazy \ free
    <3>1. rest \in SUBSET DOMAIN lazy /\ lazy' \in Sublist(lazy, rest) /\ lazy \in Seq(Claimed)
      BY <2>1, ListTypes
    <3> HIDE DEF rest
    <3>2. \A k \in DOMAIN lazy' : \E i \in rest : lazy'[k] = lazy[i]
      BY <3>1, SublistOf
    <3> QED BY <3>2 DEF rest
  <2>3. \A v \in VProcs : state'[v] = "finished" => state[v] = "finished"
    BY <1>1, ScheduleStates DEF CheckLazy, Schedule
  <2>4. \A l \in Lazies : BeingEvaluated(l) => BeingEvaluated(l)'
    BY <1>0, <2>3, StillEvaluated
  <2>5. \A i \in DOMAIN lazy \ free : lazy[i].on \in Lazies /\ BeingEvaluated(lazy[i].on)
    BY LazyType
  <2>6. (\A i \in DOMAIN lazy : BeingEvaluated(lazy[i].on))'
    BY <2>2, <2>4, <2>5
  <2>7. WaitsForOthers'
    BY <1>0, <2>2 DEF LazyInv, WaitsForOthers
  <2> QED BY <2>6, <2>7 DEF LazyInv
<1>2. CASE FinishFront \/ CheckJoining
  BY <1>0, <1>2 DEF FinishFront, CheckJoining, lists, LazyInv, WaitsForOthers
<1>3. CASE CheckChanges \/ OsSleep \/ OsPoll \/ OsSkip \/ SignalSleep \/ Stop \/ Dispatch
  <2>1. UNCHANGED lazy /\ pc \in {"changes", "os", "pick"} /\ (pc' = "front" \/ pc' # "front")
    BY <1>3 DEF CheckChanges, OsSleep, OsPoll, OsSkip, SignalSleep, Stop, Dispatch, CheckWaiting, lists
  <2>2. CASE pc' = "front"
    BY <1>0, <2>1, <2>2 DEF LazyInv, WaitsForOthers
  <2>3. CASE pc' # "front"
    <3>1. \A v \in VProcs : state'[v] = "finished" => state[v] = "finished"
      BY <2>3, ScheduleStates
    <3>2. \A i \in DOMAIN lazy : BeingEvaluated(lazy[i].on)'
      BY <1>0, <2>1, <3>1, LazyType, StillEvaluated DEF LazyInv
    <3> QED BY <1>0, <2>1, <3>2 DEF LazyInv, WaitsForOthers
  <2> QED BY <2>2, <2>3
<1> QED BY <1>1, <1>2, <1>3 DEF Schedule

LEMMA AfterLazy ==
  ASSUME TypeOK, cur \in VProcs, LazyInv, After
  PROVE  LazyInv'
<1>0. UNCHANGED <<val, info, chain>>
  BY LoopKeeps
<1>1. CASE AfterKill
  <2>1. PartOfLazy /\ pc' = "front"
    BY <1>1, KillNowLazy DEF AfterKill, Leaves
  <2> QED BY <1>0, <2>1 DEF LazyInv, WaitsForOthers, PartOfLazy
<1>2. CASE AfterAlone
  BY <1>2 DEF AfterAlone, RunsAlone, lists, LazyInv, WaitsForOthers
<1>3. CASE AfterStop \/ AfterHalt \/ AfterYield
  BY <1>0, <1>3 DEF AfterStop, AfterHalt, AfterYield, Leaves, lists, LazyInv, WaitsForOthers
<1> QED BY <1>1, <1>2, <1>3 DEF After

\* The steps that leave the values of the LazyLists alone.
LEMMA StepLists ==
  ASSUME TypeOK, NEW v \in VProcs, Step(v)
  PROVE  \/ PartOfLazy
         \/ \E l \in Lazies : /\ lazy' = Append(lazy, [vp |-> v, on |-> l])
                              /\ val[l] # v /\ UNCHANGED <<val, info>>
<1>1. ASSUME NEW t \in VProcs, Kill(v, t)
      PROVE  PartOfLazy
  BY <1>1, KillNowLazy DEF Kill, lists, PartOfLazy
<1>2. ASSUME NEW l \in Lazies, Publish(v, l)
      PROVE  PartOfLazy
  BY <1>2, KillNowLazy DEF Publish, lists, PartOfLazy
<1>3. ASSUME NEW l \in Lazies, NEW c \in Control, ClaimWait(v, l, c)
      PROVE  /\ lazy' = Append(lazy, [vp |-> v, on |-> l])
             /\ val[l] # v /\ UNCHANGED <<val, info>>
  BY <1>3 DEF ClaimWait, cells
<1>4. ASSUME NEW t, Start(v, t) \/ Suspend(v, t) \/ Resume(v, t) \/ Join(v, t)
      PROVE  UNCHANGED lazy
  BY <1>4 DEF Start, Suspend, Resume, Join, lists
<1>5. ASSUME NEW x, NEW y,
             \/ RefSet(v, x, y) \/ RefWaitChange(v, x, y) \/ ClaimThunk(v, x, y)
             \/ ClaimCell(v, x, y) \/ ClaimError(v, x, y)
      PROVE  UNCHANGED lazy
  BY <1>5 DEF RefSet, RefWaitChange, ClaimThunk, ClaimCell, ClaimError, lists
<1>6. ASSUME NEW x, \/ Compute(v) \/ Fail(v) \/ NullReturn(v) \/ NullFail(v) \/ Exit(v)
                    \/ Hold(v, x) \/ OsWait(v, x) \/ ReadStream(v, x) \/ TrapInterrupt(v, x)
      PROVE  UNCHANGED lazy
  BY <1>6 DEF Compute, Fail, NullReturn, NullFail, FailWith, Exit, Hold, OsWait, ReadStream,
     TrapInterrupt, lists
<1>7. UNCHANGED lazy => PartOfLazy
  BY DEF PartOfLazy
<1> QED BY <1>1, <1>2, <1>3, <1>4, <1>5, <1>6, <1>7 DEF Step

LEMMA StepLazy ==
  ASSUME TypeOK, PlaceInv, NEW v \in VProcs, LazyInv, Step(v)
  PROVE  LazyInv'
<1>0. pc' \in {"after", "stopped"} /\ state[v] = "running" /\ WaitsForOthers
  BY StepRuns DEF LazyInv
<1>1. v \notin Members(lazy)
  BY <1>0 DEF PlaceInv, RightState, StateSet
<1>2. \A l \in Lazies : val'[l] = val[l] \/ val'[l] = v \/ val'[l] \notin VProcs
  <2>1. ASSUME NEW k \in Lazies, NEW c \in Control, ClaimThunk(v, k, c), NEW l \in Lazies
        PROVE  val'[l] = val[l] \/ val'[l] = v
    BY <2>1, ClaimWrites
  <2>2. ASSUME NEW k \in Lazies, Hold(v, k), NEW l \in Lazies
        PROVE  val'[l] = val[l] \/ val'[l] = v
    BY <2>2, HoldWrites
  <2>3. ASSUME NEW k \in Lazies, Publish(v, k), NEW l \in Lazies
        PROVE  val'[l] = val[l] \/ val'[l] \notin VProcs
    BY <2>3, PublishWrites, DisjointAssumption
  <2> QED BY <2>1, <2>2, <2>3, StepCells
<1>3. CASE PartOfLazy
  BY <1>0, <1>1, <1>2, <1>3, StillOthers DEF LazyInv
<1>4. ASSUME NEW l \in Lazies, lazy' = Append(lazy, [vp |-> v, on |-> l]),
             val[l] # v, UNCHANGED <<val, info>>
      PROVE  LazyInv'
  <2>1. lazy \in Seq(Claimed)
    BY ListTypes
  <2>2. \A k \in DOMAIN lazy' : \/ k \in DOMAIN lazy /\ lazy'[k] = lazy[k]
                                \/ lazy'[k] = [vp |-> v, on |-> l]
    BY <1>4, <2>1
  <2>3. WaitsForOthers'
    BY <1>0, <1>4, <2>2 DEF WaitsForOthers
  <2> QED BY <1>0, <2>3 DEF LazyInv
<1> QED BY <1>3, <1>4, StepLists

LEMMA NextLazy == TypeInv /\ PlaceInv /\ LazyInv /\ [Next]_vars => LazyInv'
<1> SUFFICES ASSUME TypeInv, PlaceInv, LazyInv, [Next]_vars PROVE LazyInv'
  OBVIOUS
<1>0. TypeOK
  BY DEF TypeInv
<1>1. CASE Schedule
  BY <1>0, <1>1, ScheduleLazy
<1>2. CASE After
  <2>1. cur \in VProcs
    BY <1>2 DEF TypeInv, After, AfterKill, AfterStop, AfterHalt, AfterAlone, AfterYield, Leaves
  <2> QED BY <1>0, <1>2, <2>1, AfterLazy
<1>3. ASSUME NEW v \in VProcs, Step(v) PROVE LazyInv'
  BY <1>0, <1>3, StepLazy
<1>4. CASE Idle
  <2>1. UNCHANGED <<pc, state, lazy, val, info, chain>>
    BY <1>4 DEF Idle, Fire, Interrupt, vars, queue, lists, progs, cells
  <2> QED BY <2>1 DEF LazyInv, WaitsForOthers, BeingEvaluated, Abandoned
<1> QED BY <1>1, <1>2, <1>3, <1>4 DEF Next, Machine, Stopped, Idle

LEMMA LazyIsSafe == Spec => [](TypeInv /\ PlaceInv /\ LazyInv)
<1>1. Init => LazyInv
  BY DEF Init, LazyInv, WaitsForOthers
<1> QED BY <1>1, PlacesAreSafe, NextLazy, PTL DEF Spec

\* A VProc sleeps in __LazyList_claim__ only while another VProc evaluates the
\* LazyList: as soon as the owner publishes, leaves the evaluation, finishes or
\* is killed, it is woken before any VProc runs its next step.
THEOREM LazyIsPrompt == Spec => []PromptLazy
<1>1. LazyInv => PromptLazy
  BY DEF LazyInv, WaitsForOthers, PromptLazy
<1> QED BY <1>1, LazyIsSafe, PTL

----------------------------------------------------------------------------
(***************************************************************************)
(* The end.  The loop looks at the OS before it chooses: when no VProc is  *)
(* ready then, none waits for the OS.                                      *)
(***************************************************************************)

PickInv == pc = "pick" /\ ready = <<>> => waiting = <<>>

\* An event wakes somebody.
LEMMA EventWakes ==
  ASSUME TypeOK, CheckWaiting, OsReady # {} \/ ready # <<>>
  PROVE  ready' # <<>>
<1>1. PICK up \in Sublist(waiting, OsReady) : Wake(up)
  BY DEF CheckWaiting
<1>2. waiting \in Seq(Awaited) /\ OsReady \in SUBSET DOMAIN waiting /\ ready \in Seq(VProcs)
  BY ListTypes DEF OsReady
<1>3. up \in Seq(Awaited) /\ (OsReady # {} => DOMAIN up # {})
  <2>1. \E t \in [DOMAIN up -> OsReady] : \A i \in OsReady : \E k \in DOMAIN up : t[k] = i
    BY <1>1, <1>2, SublistExact
  <2> QED BY <1>1, <1>2, <2>1, SublistOf
<1> DEFINE woken == [k \in DOMAIN up |-> up[k].vp]
<1>4. woken \in Seq(VProcs) /\ Len(woken) = Len(up) /\ ready' = ready \o woken
  <2>1. \A k \in DOMAIN up : up[k].vp \in VProcs
    BY <1>3, ListTypes
  <2> QED BY <1>1, <1>3, <2>1 DEF Wake
<1> HIDE DEF woken
<1>5. Len(ready') = Len(ready) + Len(up)
  <2>1. \A s, t \in Seq(VProcs) : Len(s \o t) = Len(s) + Len(t)
    OBVIOUS
  <2>2. Len(ready \o woken) = Len(ready) + Len(woken)
    BY <1>2, <1>4, <2>1
  <2> QED BY <1>4, <2>2
<1>6. OsReady # {} => Len(up) > 0
  BY <1>3
<1> QED BY <1>2, <1>3, <1>5, <1>6

LEMMA NextPick == TypeInv /\ PickInv /\ [Next]_vars => PickInv'
<1> SUFFICES ASSUME TypeInv, PickInv, [Next]_vars, pc' = "pick" PROVE (ready = <<>> => waiting = <<>>)'
  BY DEF PickInv
<1>0. TypeOK
  BY DEF TypeInv
<1>1. CASE Schedule
  <2>1. CASE OsSleep \/ OsPoll
    BY <1>0, <2>1, EventWakes DEF OsSleep, OsPoll
  <2>2. CASE OsSkip
    BY <2>2 DEF OsSkip, queue, lists
  <2> QED BY <1>1, <2>1, <2>2
          DEF Schedule, FinishFront, CheckJoining, CheckLazy, CheckChanges, SignalSleep, Stop, Dispatch
<1>2. CASE After
  BY <1>2 DEF After, AfterKill, AfterStop, AfterHalt, AfterAlone, AfterYield, Leaves
<1>3. ASSUME NEW v \in VProcs, Step(v) PROVE FALSE
  BY <1>3 DEF Step, Compute, Fail, FailWith, NullReturn, NullFail, Exit, Start, Suspend,
     Resume, Join, Kill, RefSet, RefWaitChange, ClaimThunk, ClaimCell, ClaimError,
     ClaimWait, Claims, Hold, Publish, OsWait, ReadStream, TrapInterrupt, Runs
<1>4. CASE Idle
  <2>1. UNCHANGED <<pc, ready, waiting>>
    BY <1>4 DEF Idle, Fire, Interrupt, vars, queue, lists
  <2> QED BY <2>1 DEF PickInv
<1> QED BY <1>1, <1>2, <1>3, <1>4 DEF Next, Machine, Stopped, Idle

\* What the loop knows when it stops.
StopInv == TypeInv /\ PlaceInv /\ JoinInv /\ ChangeInv /\ LazyInv /\ PickInv

LEMMA StopIsSafe == Spec => []StopInv
<1>1. Init => JoinInv /\ PickInv
  BY DEF Init, JoinInv, FinishSeen, PromptJoin, PickInv
<1>2. Spec => []TypeInv
  BY PlacesAreSafe, PTL
<1>3. Spec => [](JoinInv /\ PickInv)
  BY <1>1, <1>2, NextJoin, NextPick, PTL DEF Spec
<1> QED BY <1>3, LazyIsSafe, ChangeIsSafe, PTL DEF StopInv

\* Nobody is left who could run, or be woken.
LEMMA StopsRightly ==
  ASSUME StopInv, Stop
  PROVE  /\ Blocked = {} => \A v \in VProcs : state[v] \in {"absent", "finished"}
         /\ Blocked # {} => \E v \in VProcs : state[v] \in {"blocked", "waiting"}
         /\ \A v \in VProcs : state[v] \notin {"ready", "running"}
         /\ waiting = <<>>
         /\ \A i \in DOMAIN joining : state[joining[i].on] # "finished"
         /\ \A i \in DOMAIN lazy : BeingEvaluated(lazy[i].on)
         /\ \A i \in DOMAIN changes : changes[i].on \in Refs => ~Missed(i)
<1>0. /\ TypeOK /\ PlaceInv /\ JoinInv /\ ChangeInv /\ LazyInv /\ PickInv
      /\ pc = "pick" /\ ready = <<>> /\ ~SignalMayCome
  BY DEF StopInv, TypeInv, Stop
<1>1. waiting = <<>>
  BY <1>0 DEF PickInv
<1>2. \A v \in VProcs : state[v] \notin {"ready", "running"}
  <2>1. \A v \in VProcs : state[v] # "ready"
    BY <1>0 DEF PlaceInv, RightState, StateSet, Queued
  <2>2. cur = None /\ outcome = "none"
    BY <1>0 DEF PlaceInv, RightCur
  <2>3. \A v \in VProcs : state[v] # "running"
    BY <1>0, <2>2, MainAssumption DEF PlaceInv, RightCur
  <2> QED BY <2>1, <2>3
<1>3. \A v \in VProcs :
        state[v] = "waiting" <=> v \in Members(joining) \cup Members(lazy) \cup Members(changes)
  BY <1>0, <1>1, EmptyMembers DEF PlaceInv, RightState, StateSet
<1>4. \A v \in VProcs : v \in Blocked <=> state[v] \in {"blocked", "waiting"}
  BY <1>3 DEF Blocked, Members
<1>5. /\ Blocked = {} => \A v \in VProcs : state[v] \in {"absent", "finished"}
      /\ Blocked # {} => \E v \in VProcs : state[v] \in {"blocked", "waiting"}
  <2>1. \A v \in VProcs : state[v] \in {"absent", "blocked", "waiting", "finished"}
    BY <1>0, <1>2 DEF TypeOK, States
  <2>2. Blocked \subseteq VProcs
    BY DEF Blocked
  <2> QED BY <1>4, <2>1, <2>2
<1>6. \A i \in DOMAIN joining : state[joining[i].on] # "finished"
  BY <1>0 DEF JoinInv, PromptJoin
<1>7. \A i \in DOMAIN lazy : BeingEvaluated(lazy[i].on)
  BY <1>0 DEF LazyInv
<1>8. \A i \in DOMAIN changes : changes[i].on \in Refs => ~Missed(i)
  <2>1. trap = None \/ changes = <<>>
    BY <1>0 DEF SignalMayCome
  <2>2. Settled
    BY <1>0, <2>1 DEF ChangeInv, Settled
  <2> QED BY <2>2 DEF Settled, Missed, Current
<1> QED BY <1>1, <1>2, <1>5, <1>6, <1>7, <1>8

\* Nothing happens to the machine after the end.
LEMMA StoppedStays ==
  ASSUME TypeInv, PlaceInv, [Next]_vars, pc = "stopped"
  PROVE  UNCHANGED vars
<1>1. ~Schedule
  BY DEF Schedule, FinishFront, CheckJoining, CheckLazy, CheckChanges, OsSleep, OsPoll, OsSkip,
     SignalSleep, Stop, Dispatch
<1>2. ~After
  BY DEF After, AfterKill, AfterStop, AfterHalt, AfterAlone, AfterYield, Leaves
<1>3. \A v \in VProcs : ~Step(v)
  BY StepRuns
<1>4. (\A t \in Targets : ~Fire(t)) /\ ~Interrupt
  BY DEF Fire, Interrupt
<1> QED BY <1>1, <1>2, <1>3, <1>4 DEF Next, Machine, Stopped

\* Only Stop and __OS_exit__ end the interpreter.
LEMMA OutcomeStays ==
  ASSUME [Next]_vars, ~Stop
  PROVE  outcome' = outcome \/ outcome' = "exit"
<1>1. CASE Schedule
  BY <1>1 DEF Schedule, FinishFront, CheckJoining, CheckLazy, CheckChanges, OsSleep, OsPoll,
     OsSkip, SignalSleep, Dispatch, CheckWaiting, loop
<1>2. CASE After
  BY <1>2 DEF After, AfterKill, AfterStop, AfterHalt, AfterAlone, AfterYield, Leaves, loop
<1>3. ASSUME NEW v \in VProcs, Step(v) PROVE outcome' = outcome \/ outcome' = "exit"
  BY <1>3 DEF Step, Compute, Fail, FailWith, NullReturn, NullFail, Exit, Start, Suspend,
     Resume, Join, Kill, RefSet, RefWaitChange, ClaimThunk, ClaimCell, ClaimError,
     ClaimWait, Claims, Hold, Publish, OsWait, ReadStream, TrapInterrupt, Runs, loop
<1>4. CASE Idle
  BY <1>4 DEF Idle, Fire, Interrupt, vars, loop
<1> QED BY <1>1, <1>2, <1>3, <1>4 DEF Next, Machine, Stopped, Idle

LEMMA NextStop == StopInv /\ StopIsRight /\ [Next]_vars => StopIsRight'
<1> SUFFICES ASSUME StopInv, StopIsRight, [Next]_vars PROVE StopIsRight'
  OBVIOUS
<1>0. TypeInv /\ PlaceInv
  BY DEF StopInv
<1>1. CASE pc = "stopped"
  <2>1. UNCHANGED vars
    BY <1>0, <1>1, StoppedStays
  <2>2. UNCHANGED <<outcome, state, val, info, chain, ref, waiting, joining, lazy, changes>>
    BY <2>1 DEF vars, loop, queue, lists, progs, cells
  <2> QED BY <2>2 DEF StopIsRight, BeingEvaluated, Abandoned, Missed, Current
<1>2. CASE Stop
  <2>1. UNCHANGED <<state, val, info, chain, ref, waiting, joining, lazy, changes>>
    BY <1>2 DEF Stop, queue, lists, progs, cells
  <2>2. outcome' = IF Blocked = {} THEN "normal" ELSE "deadlock"
    BY <1>2 DEF Stop
  <2>3. \A i \in DOMAIN changes : Missed(i)' = Missed(i)
    BY <2>1 DEF Missed, Current
  <2>4. (\A i \in DOMAIN lazy : BeingEvaluated(lazy[i].on))'
    BY <1>2, <2>1, StopsRightly DEF BeingEvaluated, Abandoned
  <2>5. (\A i \in DOMAIN changes : changes[i].on \in Refs => ~Missed(i))'
    BY <1>2, <2>1, <2>3, StopsRightly
  <2>6. CASE Blocked = {}
    BY <1>2, <2>1, <2>2, <2>6, StopsRightly DEF StopIsRight
  <2>7. CASE Blocked # {}
    BY <1>2, <2>1, <2>2, <2>4, <2>5, <2>7, StopsRightly DEF StopIsRight
  <2> QED BY <2>6, <2>7
<1>3. CASE pc # "stopped" /\ ~Stop
  <2>1. outcome = "none"
    BY <1>0, <1>3 DEF PlaceInv, RightCur
  <2>2. outcome' \in {"none", "exit"}
    BY <1>3, <2>1, OutcomeStays
  <2> QED BY <2>2 DEF StopIsRight
<1> QED BY <1>1, <1>2, <1>3

\* The interpreter ends normally only when every VProc has finished, and
\* reports a deadlock only when no VProc is ready, waits for the OS, or waits
\* for something that has already happened: none could ever be woken.
THEOREM StopIsJustified == Spec => []StopIsRight
<1>1. Init => StopIsRight
  BY DEF Init, StopIsRight
<1> QED BY <1>1, StopIsSafe, NextStop, PTL DEF Spec

----------------------------------------------------------------------------
(***************************************************************************)
(* Kills.  Who is to be killed later still evaluates a LazyList, except at *)
(* the end of its own step, where the kill happens.                        *)
(***************************************************************************)

PendInv ==
  \A v \in VProcs : killPending[v] /\ state[v] # "finished" /\ ~(pc = "after" /\ cur = v) =>
    Evaluating(v) # {}

\* What a step of v leaves alone of another VProc.
LEMMA StepOthers ==
  ASSUME TypeOK, NEW v \in VProcs, Step(v), NEW u \in VProcs, u # v
  PROVE  /\ chain'[u] = chain[u]
         /\ Kill(v, u) \/ (claims'[u] = claims[u] /\ killPending'[u] = killPending[u])
<1>1. ASSUME NEW t \in VProcs, Start(v, t) \/ Suspend(v, t) \/ Resume(v, t) \/ Join(v, t)
      PROVE  UNCHANGED <<chain, claims, killPending>>
  BY <1>1 DEF Start, Suspend, Resume, Join
<1>2. ASSUME NEW t \in VProcs, Kill(v, t)
      PROVE  /\ UNCHANGED chain
             /\ t = u \/ (claims'[u] = claims[u] /\ killPending'[u] = killPending[u])
  BY <1>2 DEF Kill, TypeOK
<1>3. ASSUME NEW x, NEW y,
             \/ RefSet(v, x, y) \/ RefWaitChange(v, x, y) \/ ClaimCell(v, x, y)
             \/ ClaimError(v, x, y) \/ ClaimWait(v, x, y)
      PROVE  UNCHANGED <<chain, claims, killPending>>
  BY <1>3 DEF RefSet, RefWaitChange, ClaimCell, ClaimError, ClaimWait
<1>4. ASSUME NEW x, \/ Fail(v) \/ NullFail(v) \/ Exit(v) \/ Hold(v, x) \/ OsWait(v, x)
                    \/ ReadStream(v, x) \/ TrapInterrupt(v, x)
      PROVE  UNCHANGED <<chain, claims, killPending>>
  BY <1>4 DEF Fail, NullFail, FailWith, Exit, Hold, OsWait, ReadStream, TrapInterrupt, progs
<1>5. CASE Compute(v) \/ NullReturn(v)
  BY <1>5 DEF Compute, NullReturn, TypeOK
<1>6. ASSUME NEW l \in Lazies, NEW c \in Control, ClaimThunk(v, l, c)
      PROVE  chain' = chain /\ claims'[u] = claims[u] /\ killPending' = killPending
  BY <1>6, ClaimWrites
<1>7. ASSUME NEW l \in Lazies, Publish(v, l)
      PROVE  chain' = chain /\ claims'[u] = claims[u] /\ killPending' = killPending
  BY <1>7 DEF Publish, TypeOK
<1> QED BY <1>1, <1>2, <1>3, <1>4, <1>5, <1>6, <1>7 DEF Step

\* A step of v takes no LazyList away from another VProc that evaluates it.
LEMMA OthersEvaluate ==
  ASSUME TypeOK, NEW v \in VProcs, Step(v), NEW u \in VProcs, u # v, state[u] # "finished",
         NEW l \in Evaluating(u)
  PROVE  l \in Lazies /\ val'[l] = u /\ info'[l] = info[l]
<1>1. /\ l \in Lazies /\ val[l] = u /\ info[l].by = "claim" /\ ~Abandoned(l, chain[u])
      /\ l \in claims[u]
  BY DEF Evaluating, TypeOK
<1>2. CASE UNCHANGED <<val, info>>
  BY <1>1, <1>2
<1>3. ASSUME NEW k \in Lazies, NEW c \in Control, ClaimThunk(v, k, c)
      PROVE  val'[l] = val[l] /\ info'[l] = info[l]
  <2>1. BeingEvaluated(l) /\ val[l] # Thunk
    BY <1>1, DisjointAssumption DEF BeingEvaluated
  <2>2. Claimable(k)
    BY <1>3, ClaimWrites
  <2>3. k # l
    BY <2>1, <2>2 DEF Claimable
  <2>4. \A j \in Lazies : j # k => val'[j] = val[j] /\ info'[j] = info[j]
    <3>1. /\ \A j \in Lazies : val'[j] = IF j = k THEN v ELSE val[j]
          /\ \A j \in Lazies : info'[j] = IF j = k THEN [by |-> "claim", chain |-> chain[v]]
                                                    ELSE info[j]
      BY <1>3, ClaimWrites
    <3> QED BY <3>1
  <2> QED BY <1>1, <2>3, <2>4
<1>4. ASSUME NEW k \in Lazies, Hold(v, k)
      PROVE  val'[l] = val[l] /\ info'[l] = info[l]
  BY <1>1, <1>4, HoldWrites, DisjointAssumption
<1>5. ASSUME NEW k \in Lazies, Publish(v, k)
      PROVE  val'[l] = val[l] /\ info'[l] = info[l]
  BY <1>1, <1>5, PublishWrites
<1> QED BY <1>1, <1>2, <1>3, <1>4, <1>5, StepCells

\* Looking at what v evaluates forgets nothing that it evaluates.
LEMMA EvaluatingAgain ==
  ASSUME TypeOK, NEW v \in VProcs, UNCHANGED <<val, info, chain>>,
         claims'[v] \in {claims[v], Evaluating(v)}
  PROVE  Evaluating(v)' = Evaluating(v)
BY DEF Evaluating, Abandoned

LEMMA AfterPend ==
  ASSUME TypeOK, PlaceInv, cur \in VProcs, PendInv, After
  PROVE  PendInv'
<1>0. UNCHANGED <<val, info, chain, killPending>> /\ pc = "after" /\ Forget(cur)
  BY LoopKeeps DEF After, AfterKill, AfterStop, AfterHalt, AfterAlone, AfterYield, Leaves
<1>1. \A u \in VProcs : u # cur => claims'[u] = claims[u] /\ state'[u] = state[u]
  BY <1>0 DEF After, AfterKill, AfterStop, AfterHalt, AfterAlone, AfterYield, KillNow, Finish,
     queue, Forget, TypeOK
<1>2. ASSUME NEW u \in VProcs, u # cur, killPending'[u], state'[u] # "finished"
      PROVE  Evaluating(u)' # {}
  BY <1>0, <1>1, <1>2, EvaluatingAgain DEF PendInv
<1>3. ASSUME NEW u \in VProcs, u = cur, killPending'[u], state'[u] # "finished"
      PROVE  Evaluating(u)' # {}
  <2>1. ~Dies(u) /\ state[u] # "finished"
    BY <1>3 DEF After, AfterKill, AfterStop, AfterHalt, AfterAlone, AfterYield, KillNow, Finish,
       queue, TypeOK
  <2>2. Evaluating(u) # {} /\ claims'[u] = Evaluating(u)
    BY <1>0, <1>3, <2>1 DEF Dies, Forget, TypeOK
  <2> QED BY <1>0, <2>2, EvaluatingAgain
<1> QED BY <1>2, <1>3 DEF PendInv

LEMMA NextPend == TypeInv /\ PlaceInv /\ PendInv /\ [Next]_vars => PendInv'
<1> SUFFICES ASSUME TypeInv, PlaceInv, PendInv, [Next]_vars PROVE PendInv'
  OBVIOUS
<1>0. TypeOK /\ \A v \in VProcs : state[v] = "finished" => state'[v] = "finished"
  BY FinishedStays DEF TypeInv
<1>1. CASE Schedule \/ Idle
  <2>1. UNCHANGED <<val, info, chain, killPending>>
    BY <1>1, LoopKeeps
  <2>2. UNCHANGED claims /\ (pc = "after" <=> pc' = "after") /\ (pc = "after" => cur' = cur)
    BY <1>1 DEF Schedule, FinishFront, CheckJoining, CheckLazy, CheckChanges, OsSleep, OsPoll,
       OsSkip, SignalSleep, Stop, Dispatch, CheckWaiting, Idle, Fire, Interrupt, vars, progs, loop
  <2>3. \A v \in VProcs : Evaluating(v)' = Evaluating(v)
    BY <1>0, <2>1, <2>2, EvaluatingAgain
  <2> QED BY <1>0, <2>1, <2>2, <2>3 DEF PendInv
<1>2. CASE After
  <2>1. cur \in VProcs
    BY <1>2 DEF TypeInv, After, AfterKill, AfterStop, AfterHalt, AfterAlone, AfterYield, Leaves
  <2> QED BY <1>0, <1>2, <2>1, AfterPend
<1>3. ASSUME NEW v \in VProcs, Step(v) PROVE PendInv'
  <2>0. pc = "run" /\ cur = v /\ pc' \in {"after", "stopped"} /\ (pc' = "after" => cur' = v)
    BY <1>3, StepRuns
  <2>1. CASE pc' = "stopped"
    <3>1. Exit(v)
      BY <1>3, <2>1 DEF Step, Compute, Fail, FailWith, NullReturn, NullFail, Start, Suspend,
         Resume, Join, Kill, RefSet, RefWaitChange, ClaimThunk, ClaimCell, ClaimError,
         ClaimWait, Claims, Hold, Publish, OsWait, ReadStream, TrapInterrupt, Runs
    <3>2. UNCHANGED <<state, val, info, chain, claims, killPending>>
      BY <3>1 DEF Exit, queue, progs, cells
    <3> QED BY <1>0, <2>0, <3>2, EvaluatingAgain DEF PendInv
  <2>2. CASE pc' = "after"
    <3> SUFFICES ASSUME NEW u \in VProcs, u # v, killPending'[u], state'[u] # "finished"
                 PROVE  Evaluating(u)' # {}
      BY <2>0, <2>2 DEF PendInv
    <3>1. state[u] # "finished"
      BY <1>0
    <3>2. Evaluating(u) # {} /\ claims'[u] \in {claims[u], Evaluating(u)}
      <4>1. CASE Kill(v, u)
        <5>1. Evaluating(u) # {}
          BY <1>0, <3>1, <4>1 DEF Kill, KillNow, Finish, TypeOK
        <5> QED BY <1>0, <3>1, <4>1, <5>1 DEF Kill, TypeOK
      <4>2. CASE claims'[u] = claims[u] /\ killPending'[u] = killPending[u]
        BY <2>0, <3>1, <4>2 DEF PendInv
      <4> QED BY <1>0, <1>3, <4>1, <4>2, StepOthers
    <3>3. PICK l \in Evaluating(u) : TRUE
      BY <3>2
    <3>4. l \in Lazies /\ val'[l] = u /\ info'[l] = info[l] /\ chain'[u] = chain[u]
      BY <1>0, <1>3, <3>1, <3>3, OthersEvaluate, StepOthers
    <3>5. l \in claims'[u] /\ info[l].by = "claim" /\ ~Abandoned(l, chain[u])
      BY <3>2, <3>3 DEF Evaluating
    <3>6. l \in Evaluating(u)'
      BY <3>4, <3>5 DEF Evaluating, Abandoned
    <3> QED BY <3>6
  <2> QED BY <2>0, <2>1, <2>2
<1> QED BY <1>1, <1>2, <1>3 DEF Next, Machine, Stopped, Idle

\* A VProc whose kill was put off dies no later than at the end of the step in
\* which it left its last evaluation: it never takes one more step, whoever
\* claimed, published, suspended or woke whatever in between.
THEOREM KillIsPrompt == Spec => []KillArrives
<1>1. Init => PendInv
  BY DEF Init, PendInv
<1>2. TypeInv /\ PlaceInv /\ PendInv => KillArrives
  BY DEF TypeInv, PlaceInv, RightCur, PendInv, KillArrives
<1> QED BY <1>1, <1>2, PlacesAreSafe, NextPend, PTL DEF Spec

----------------------------------------------------------------------------
(***************************************************************************)
(* CChains: an evaluation that was left stays left, unless a continuation  *)
(* goes back into it.                                                      *)
(***************************************************************************)

\* One CChain is the end of another, element by element.
LEMMA SuffixOf ==
  ASSUME NEW S, NEW s \in Seq(S), NEW t \in Seq(S)
  PROVE  IsSuffix(s, t) <=>
           Len(s) <= Len(t) /\ \A i \in 1 .. Len(s) : s[Len(s) - i + 1] = t[Len(t) - i + 1]
<1> DEFINE a == Reverse(s)
           b == Reverse(t)
<1>1. /\ a \in Seq(S) /\ Len(a) = Len(s) /\ \A i \in 1 .. Len(s) : a[i] = s[Len(s) - i + 1]
      /\ b \in Seq(S) /\ Len(b) = Len(t) /\ \A i \in 1 .. Len(t) : b[i] = t[Len(t) - i + 1]
  BY DEF Reverse
<1>2. Len(s) \in Nat /\ Len(t) \in Nat
  OBVIOUS
<1>3. IsSuffix(s, t) <=> Len(a) <= Len(b) /\ SubSeq(a, 1, Len(a)) = SubSeq(b, 1, Len(a))
  BY DEF IsSuffix, IsPrefix
<1> HIDE DEF a, b
<1>4. ASSUME Len(a) <= Len(b)
      PROVE  SubSeq(a, 1, Len(a)) = SubSeq(b, 1, Len(a)) <=> \A i \in 1 .. Len(a) : a[i] = b[i]
  <2> DEFINE x == SubSeq(a, 1, Len(a))
             y == SubSeq(b, 1, Len(a))
  <2>1. /\ x \in Seq(S) /\ Len(x) = Len(a) /\ \A i \in 1 .. Len(a) : x[i] = a[i]
        /\ y \in Seq(S) /\ Len(y) = Len(a) /\ \A i \in 1 .. Len(a) : y[i] = b[i]
    BY <1>1, <1>2, <1>4
  <2> HIDE DEF x, y
  <2>2. x = y <=> \A i \in 1 .. Len(a) : x[i] = y[i]
    BY <2>1, SeqEqual
  <2> QED BY <2>1, <2>2 DEF x, y
<1>5. ASSUME Len(s) <= Len(t), NEW i \in 1 .. Len(s) PROVE i \in 1 .. Len(t)
  BY <1>2, <1>5
<1> QED BY <1>1, <1>2, <1>3, <1>4, <1>5

LEMMA CellsAreSeqs == \A c \in Cells : c \in Seq(Frames)
<1> SUFFICES ASSUME NEW c \in Cells PROVE c \in Seq(Frames)
  OBVIOUS
<1>1. PICK m \in 0 .. MaxDepth : c \in [1 .. m -> Frames]
  BY DEF Cells, SeqOf
<1> QED BY <1>1, NumberAssumption

LEMMA SuffixTransitive ==
  ASSUME NEW S, NEW a \in Seq(S), NEW b \in Seq(S), NEW c \in Seq(S), IsSuffix(a, b), IsSuffix(b, c)
  PROVE  IsSuffix(a, c)
<1>1. /\ Len(a) <= Len(b) /\ \A i \in 1 .. Len(a) : a[Len(a) - i + 1] = b[Len(b) - i + 1]
      /\ Len(b) <= Len(c) /\ \A i \in 1 .. Len(b) : b[Len(b) - i + 1] = c[Len(c) - i + 1]
  BY SuffixOf
<1>2. Len(a) \in Nat /\ Len(b) \in Nat /\ Len(c) \in Nat
  OBVIOUS
<1>3. Len(a) <= Len(c) /\ \A i \in 1 .. Len(a) : a[Len(a) - i + 1] = c[Len(c) - i + 1]
  BY <1>1, <1>2
<1> QED BY <1>3, SuffixOf

\* What is the end of a CChain is the whole of it or the end of its rest.
LEMMA SuffixOfTail ==
  ASSUME NEW S, NEW a \in Seq(S), NEW c \in Seq(S), c # <<>>
  PROVE  /\ IsSuffix(Tail(c), c)
         /\ IsSuffix(a, c) => IsSuffix(c, a) \/ IsSuffix(a, Tail(c))
<1> DEFINE t == Tail(c)
<1>1. /\ Len(c) \in Nat \ {0} /\ Len(a) \in Nat /\ t \in Seq(S) /\ Len(t) = Len(c) - 1
      /\ \A i \in 1 .. Len(c) - 1 : t[i] = c[i + 1]
  OBVIOUS
<1> HIDE DEF t
<1>2. \A i \in 1 .. Len(t) : t[Len(t) - i + 1] = c[Len(c) - i + 1]
  <2> SUFFICES ASSUME NEW i \in 1 .. Len(t) PROVE t[Len(t) - i + 1] = c[Len(c) - i + 1]
    OBVIOUS
  <2>1. Len(t) - i + 1 \in 1 .. Len(c) - 1 /\ (Len(t) - i + 1) + 1 = Len(c) - i + 1
    BY <1>1
  <2> QED BY <1>1, <2>1
<1>3. IsSuffix(t, c)
  <2>1. Len(t) <= Len(c)
    BY <1>1
  <2> QED BY <1>1, <1>2, <2>1, SuffixOf
<1>4. ASSUME IsSuffix(a, c) PROVE IsSuffix(c, a) \/ IsSuffix(a, t)
  <2>1. Len(a) <= Len(c) /\ \A i \in 1 .. Len(a) : a[Len(a) - i + 1] = c[Len(c) - i + 1]
    BY <1>4, SuffixOf
  <2>2. CASE Len(a) = Len(c)
    <3>1. Len(c) <= Len(a) /\ \A i \in 1 .. Len(c) : c[Len(c) - i + 1] = a[Len(a) - i + 1]
      BY <1>1, <2>1, <2>2
    <3> QED BY <3>1, SuffixOf
  <2>3. CASE Len(a) # Len(c)
    <3>1. Len(a) <= Len(t)
      BY <1>1, <2>1, <2>3
    <3>2. \A i \in 1 .. Len(a) : i \in 1 .. Len(t)
      BY <1>1, <3>1
    <3>3. \A i \in 1 .. Len(a) : a[Len(a) - i + 1] = t[Len(t) - i + 1]
      BY <1>2, <2>1, <3>2
    <3> QED BY <1>1, <3>1, <3>3, SuffixOf
  <2> QED BY <2>2, <2>3
<1> QED BY <1>3, <1>4 DEF t

\* Without "reenter" no step of v goes back into an evaluation that v has left.
LEMMA AbandonedStays ==
  ASSUME TypeOK, NEW v \in VProcs, NEW l \in Lazies, val[l] = v, Abandoned(l, chain[v]),
         "reenter" \notin Prims, NEW c \in Chains(v)
  PROVE  Abandoned(l, c)
<1>1. /\ chain[v] \in Seq(Frames) /\ info[l].chain \in Seq(Frames) /\ c \in Seq(Frames)
      /\ ~IsSuffix(info[l].chain, chain[v]) /\ info[l].by = "claim"
  BY CellsAreSeqs DEF TypeOK, Marks, Abandoned, Chains, Pushed
<1>2. CASE IsSuffix(c, chain[v])
  BY <1>1, <1>2, SuffixTransitive DEF Abandoned
<1>3. CASE c \in Pushed(v)
  <2>1. c # <<>> /\ Tail(c) = chain[v] /\ ~IsSuffix(c, info[l].chain)
    BY <1>3 DEF Pushed
  <2> QED BY <1>1, <2>1, SuffixOfTail DEF Abandoned
<1> QED BY <1>2, <1>3 DEF Chains

----------------------------------------------------------------------------
(***************************************************************************)
(* A killed VProc leaves no evaluation open.  evaluating_lazy forgets what *)
(* its VProc has left, so the proof needs that nothing forgotten is        *)
(* entered again: that there are no continuations into frames that were    *)
(* left, or one LazyList only.                                             *)
(***************************************************************************)

NoReentry == "reenter" \notin Prims \/ \A k, l \in Thunks : k = l

\* Only thunks are claimed.
Marked ==
  \A l \in Lazies :
    /\ info[l].by = "claim" => val[l] \in VProcs /\ l \in Thunks
    /\ val[l] = Thunk => l \in Thunks

\* What a VProc has forgotten it has left for good.
Forgotten ==
  \A v \in VProcs, l \in Lazies :
    val[l] = v /\ info[l].by = "claim" /\ l \notin claims[v] =>
      Abandoned(l, chain[v]) /\ ("reenter" \in Prims => state[v] = "finished")

\* The same of a VProc that was killed, and all that it had claimed.
Killed ==
  \A v \in VProcs : ended[v] = "killed" =>
    /\ state[v] = "finished"
    /\ \A l \in Lazies : val[l] = v /\ info[l].by = "claim" => Abandoned(l, chain[v])

KillInv == Marked /\ Forgotten /\ Killed

\* What v evaluates is all that it has claimed and not left; with one LazyList
\* v evaluates nothing when it has forgotten it.
LEMMA ForgetsRightly ==
  ASSUME TypeOK, NoReentry, Marked, Forgotten, NEW v \in VProcs, NEW l \in Lazies,
         val[l] = v, info[l].by = "claim", l \notin Evaluating(v)
  PROVE  /\ Abandoned(l, chain[v])
         /\ "reenter" \in Prims => Evaluating(v) = {}
<1>1. Abandoned(l, chain[v])
  BY DEF Forgotten, Evaluating
<1>2. ASSUME "reenter" \in Prims, NEW k \in Evaluating(v) PROVE FALSE
  <2>1. k \in Lazies /\ info[k].by = "claim"
    BY DEF Evaluating, TypeOK
  <2>2. k \in Thunks /\ l \in Thunks
    BY <2>1 DEF Marked
  <2> QED BY <1>2, <2>2 DEF NoReentry
<1> QED BY <1>1, <1>2

\* A step that touches no LazyList and no CChain.
LEMMA KillQuiet ==
  ASSUME TypeOK, KillInv, UNCHANGED <<val, info, chain, claims>>,
         \A v \in VProcs : state[v] = "finished" => state'[v] = "finished",
         \A v \in VProcs : ended'[v] = "killed" => ended[v] = "killed"
  PROVE  KillInv'
<1>1. Marked'
  BY DEF KillInv, Marked
<1>2. Forgotten'
  BY DEF KillInv, Forgotten, Abandoned
<1>3. Killed'
  BY DEF KillInv, Killed, Abandoned
<1> QED BY <1>1, <1>2, <1>3 DEF KillInv

\* The kill of t, who evaluates nothing any more.
LEMMA KillLeaves ==
  ASSUME TypeOK, NoReentry, KillInv, NEW t \in VProcs, KillNow(t), Evaluating(t) = {},
         UNCHANGED <<val, info, chain>>,
         \A v \in VProcs : v # t => claims'[v] = claims[v]
  PROVE  KillInv'
<1>1. \A v \in VProcs : /\ state'[v] = IF v = t THEN "finished" ELSE state[v]
                        /\ ended'[v] = IF v = t THEN "killed" ELSE ended[v]
  BY DEF KillNow, Finish, TypeOK
<1>2. \A l \in Lazies : val[l] = t /\ info[l].by = "claim" => Abandoned(l, chain[t])
  BY ForgetsRightly DEF KillInv
<1>3. Marked'
  BY DEF KillInv, Marked
<1>4. Forgotten'
  BY <1>1, <1>2 DEF KillInv, Forgotten, Abandoned
<1>5. Killed'
  BY <1>1, <1>2 DEF KillInv, Killed, Abandoned
<1> QED BY <1>3, <1>4, <1>5 DEF KillInv

\* evaluating_lazy of t, who goes on.
LEMMA ForgetLeaves ==
  ASSUME TypeOK, NoReentry, KillInv, NEW t \in VProcs, Evaluating(t) # {},
         UNCHANGED <<val, info, chain>>,
         claims' = [claims EXCEPT ![t] = Evaluating(t)],
         \A v \in VProcs : state[v] = "finished" => state'[v] = "finished",
         \A v \in VProcs : ended'[v] = "killed" => ended[v] = "killed"
  PROVE  KillInv'
<1>1. \A v \in VProcs : claims'[v] = IF v = t THEN Evaluating(t) ELSE claims[v]
  BY DEF TypeOK
<1>2. \A l \in Lazies : val[l] = t /\ info[l].by = "claim" /\ l \notin Evaluating(t) =>
        Abandoned(l, chain[t]) /\ "reenter" \notin Prims
  BY ForgetsRightly DEF KillInv
<1>3. Marked'
  BY DEF KillInv, Marked
<1>4. Forgotten'
  BY <1>1, <1>2 DEF KillInv, Forgotten, Abandoned
<1>5. Killed'
  BY DEF KillInv, Killed, Abandoned
<1> QED BY <1>3, <1>4, <1>5 DEF KillInv

\* The running VProc v changes its CChain.
LEMMA ChainLeaves ==
  ASSUME TypeOK, KillInv, NEW v \in VProcs, state[v] = "running",
         UNCHANGED <<state, val, info, claims, ended>>,
         NEW c \in Chains(v), chain' = [chain EXCEPT ![v] = c]
  PROVE  KillInv'
<1>1. \A u \in VProcs : chain'[u] = IF u = v THEN c ELSE chain[u]
  BY DEF TypeOK
<1>2. ASSUME NEW l \in Lazies, val[l] = v, info[l].by = "claim", l \notin claims[v]
      PROVE  Abandoned(l, c) /\ "reenter" \notin Prims
  <2>1. Abandoned(l, chain[v]) /\ "reenter" \notin Prims
    BY <1>2 DEF KillInv, Forgotten
  <2> QED BY <1>2, <2>1, AbandonedStays
<1>3. Marked'
  BY DEF KillInv, Marked
<1>4. Forgotten'
  BY <1>1, <1>2 DEF KillInv, Forgotten, Abandoned
<1>5. Killed'
  BY <1>1 DEF KillInv, Killed, Abandoned
<1> QED BY <1>3, <1>4, <1>5 DEF KillInv

LEMMA ClaimLeaves ==
  ASSUME TypeOK, KillInv, NEW v \in VProcs, state[v] = "running", NEW l \in Lazies,
         NEW c \in Control, ClaimThunk(v, l, c)
  PROVE  KillInv'
<1>1. /\ \A k \in Lazies : val'[k] = IF k = l THEN v ELSE val[k]
      /\ \A k \in Lazies : info'[k] = IF k = l THEN [by |-> "claim", chain |-> chain[v]] ELSE info[k]
      /\ \A u \in VProcs :
           claims'[u] = IF u = v THEN {x \in claims[v] : val[x] = v} \cup {l} ELSE claims[u]
      /\ UNCHANGED <<state, chain, ended>> /\ Claimable(l)
  BY ClaimWrites
<1>2. \A k \in Lazies : k # l => val'[k] = val[k] /\ info'[k] = info[k]
  BY <1>1
<1>3. val'[l] = v /\ l \in claims'[v] /\ \A x \in claims[v] : val[x] = v => x \in claims'[v]
  BY <1>1
<1>4. Marked'
  <2>1. l \in Thunks
    <3>1. val[l] = Thunk \/ info[l].by = "claim"
      BY <1>1 DEF Claimable, OwnerGone, BeingEvaluated, Abandoned
    <3> QED BY <3>1 DEF KillInv, Marked
  <2> QED BY <1>2, <1>3, <2>1 DEF KillInv, Marked
<1>5. Forgotten'
  <2> SUFFICES ASSUME NEW u \in VProcs, NEW k \in Lazies,
                      val'[k] = u, info'[k].by = "claim", k \notin claims'[u]
               PROVE  Abandoned(k, chain[u])' /\ ("reenter" \in Prims => state'[u] = "finished")
    BY DEF Forgotten
  <2>1. k # l
    BY <1>3
  <2>2. val[k] = u /\ info'[k] = info[k] /\ k \notin claims[u]
    BY <1>1, <1>2, <1>3, <2>1
  <2> QED BY <1>1, <2>2 DEF KillInv, Forgotten, Abandoned
<1>6. Killed'
  <2> SUFFICES ASSUME NEW u \in VProcs, ended'[u] = "killed"
               PROVE  /\ state'[u] = "finished"
                      /\ \A k \in Lazies : val'[k] = u /\ info'[k].by = "claim" => Abandoned(k, chain[u])'
    BY DEF Killed
  <2>1. state[u] = "finished" /\ u # v /\ ended[u] = "killed"
    BY <1>1 DEF KillInv, Killed
  <2> QED BY <1>1, <1>2, <1>3, <2>1 DEF KillInv, Killed, Abandoned
<1> QED BY <1>4, <1>5, <1>6 DEF KillInv

LEMMA HoldLeaves ==
  ASSUME TypeOK, KillInv, NEW v \in VProcs, state[v] = "running", NEW l \in Lazies, Hold(v, l)
  PROVE  KillInv'
<1>1. /\ \A k \in Lazies : k # l => val'[k] = val[k] /\ info'[k] = info[k]
      /\ val'[l] = v /\ info'[l].by = "hold"
      /\ UNCHANGED <<state, chain, claims, ended>>
  <2>1. /\ \A k \in Lazies : val'[k] = IF k = l THEN v ELSE val[k]
        /\ \A k \in Lazies : info'[k] = IF k = l THEN [by |-> "hold", chain |-> <<>>] ELSE info[k]
        /\ UNCHANGED <<state, chain, claims, ended>>
    BY HoldWrites
  <2> QED BY <2>1
<1>2. Marked'
  BY <1>1, DisjointAssumption DEF KillInv, Marked
<1>3. Forgotten'
  BY <1>1 DEF KillInv, Forgotten, Abandoned
<1>4. Killed'
  BY <1>1 DEF KillInv, Killed, Abandoned
<1> QED BY <1>2, <1>3, <1>4 DEF KillInv

LEMMA PublishLeaves ==
  ASSUME TypeOK, NoReentry, KillInv, NEW v \in VProcs, state[v] = "running",
         NEW l \in Lazies, Publish(v, l)
  PROVE  KillInv'
<1> DEFINE left == IF killPending[v] THEN Evaluating(v) \ {l} ELSE claims[v] \ {l}
<1>1. /\ \A k \in Lazies : k # l => val'[k] = val[k] /\ info'[k] = info[k]
      /\ val'[l] = Cell /\ info'[l].by = "none" /\ UNCHANGED chain
  <2>1. /\ \A k \in Lazies : val'[k] = IF k = l THEN Cell ELSE val[k]
        /\ \A k \in Lazies : info'[k] = IF k = l THEN NoMark ELSE info[k]
        /\ UNCHANGED chain
    BY PublishWrites
  <2> QED BY <2>1 DEF NoMark
<1>2. \A u \in VProcs : claims'[u] = IF u = v THEN left ELSE claims[u]
  BY DEF Publish, TypeOK
<1>3. IF killPending[v] /\ left = {}
      THEN \A u \in VProcs : /\ state'[u] = IF u = v THEN "finished" ELSE state[u]
                             /\ ended'[u] = IF u = v THEN "killed" ELSE ended[u]
      ELSE UNCHANGED <<state, ended>>
  BY DEF Publish, KillNow, Finish, queue, TypeOK
<1>4. ASSUME NEW k \in Lazies, k # l, val[k] = v, info[k].by = "claim", k \notin left
      PROVE  /\ Abandoned(k, chain[v])
             /\ "reenter" \in Prims => state'[v] = "finished"
  <2>1. CASE killPending[v]
    <3>1. k \notin Evaluating(v)
      BY <1>4, <2>1
    <3>2. Abandoned(k, chain[v]) /\ ("reenter" \in Prims => Evaluating(v) = {})
      BY <1>4, <3>1, ForgetsRightly DEF KillInv
    <3> QED BY <1>3, <2>1, <3>2
  <2>2. CASE ~killPending[v]
    <3>1. k \notin claims[v]
      BY <1>4, <2>2
    <3> QED BY <1>4, <3>1 DEF KillInv, Forgotten
  <2> QED BY <2>1, <2>2
<1>5. Marked'
  BY <1>1, DisjointAssumption DEF KillInv, Marked
<1> HIDE DEF left
<1>6. Forgotten'
  <2> SUFFICES ASSUME NEW u \in VProcs, NEW k \in Lazies,
                      val'[k] = u, info'[k].by = "claim", k \notin claims'[u]
               PROVE  Abandoned(k, chain[u])' /\ ("reenter" \in Prims => state'[u] = "finished")
    BY DEF Forgotten
  <2>1. k # l /\ val[k] = u /\ info'[k] = info[k]
    BY <1>1
  <2>2. CASE u = v
    BY <1>1, <1>2, <1>4, <2>1, <2>2 DEF Abandoned
  <2>3. CASE u # v
    <3>1. k \notin claims[u] /\ state'[u] = state[u]
      BY <1>2, <1>3, <2>3
    <3> QED BY <1>1, <2>1, <3>1 DEF KillInv, Forgotten, Abandoned
  <2> QED BY <2>2, <2>3
<1>7. Killed'
  <2> SUFFICES ASSUME NEW u \in VProcs, ended'[u] = "killed"
               PROVE  /\ state'[u] = "finished"
                      /\ \A k \in Lazies : val'[k] = u /\ info'[k].by = "claim" => Abandoned(k, chain[u])'
    BY DEF Killed
  <2>1. CASE u = v
    <3>1. ended[v] # "killed"
      BY DEF KillInv, Killed
    <3>2. left = {} /\ state'[v] = "finished"
      BY <1>3, <2>1, <3>1
    <3> QED BY <1>1, <1>4, <2>1, <3>2 DEF Abandoned
  <2>2. CASE u # v
    <3>1. ended[u] = "killed" /\ state'[u] = state[u]
      BY <1>3, <2>2
    <3> QED BY <1>1, <3>1 DEF KillInv, Killed, Abandoned
  <2> QED BY <2>1, <2>2
<1> QED BY <1>5, <1>6, <1>7 DEF KillInv

LEMMA StepLeaves ==
  ASSUME TypeOK, NoReentry, PlaceInv, KillInv, NEW v \in VProcs, Step(v),
         \A u \in VProcs : state[u] = "finished" => state'[u] = "finished"
  PROVE  KillInv'
<1>0. state[v] = "running"
  BY StepRuns
<1>1. CASE Compute(v)
  <2>1. PICK c \in Chains(v) : chain' = [chain EXCEPT ![v] = c]
    BY <1>1 DEF Compute
  <2> QED BY <1>0, <1>1, <2>1, ChainLeaves DEF Compute, queue, cells
<1>2. CASE NullReturn(v)
  <2>1. chain[v] # <<>> /\ chain[v] \in Cells
    BY <1>2 DEF NullReturn, TypeOK
  <2>2. Tail(chain[v]) \in Cells /\ IsSuffix(Tail(chain[v]), chain[v])
    BY <2>1, TailCells, SuffixOfTail, CellsAreSeqs
  <2>3. Tail(chain[v]) \in Chains(v)
    BY <2>2 DEF Chains
  <2> QED BY <1>0, <1>2, <2>3, ChainLeaves DEF NullReturn, queue, cells
<1>3. ASSUME NEW t \in VProcs, Kill(v, t)
      PROVE  KillInv'
  <2>0. UNCHANGED <<val, info, chain>>
    BY <1>3 DEF Kill, cells
  <2>1. CASE state[t] = "finished"
    <3>1. UNCHANGED <<claims, state, ended>>
      BY <1>3, <2>1 DEF Kill, queue
    <3> QED BY <2>0, <3>1, KillQuiet
  <2>2. CASE state[t] # "finished" /\ Evaluating(t) # {}
    <3>1. claims' = [claims EXCEPT ![t] = Evaluating(t)] /\ UNCHANGED ended
      BY <1>3, <2>2 DEF Kill
    <3> QED BY <2>0, <2>2, <3>1, ForgetLeaves
  <2>3. CASE state[t] # "finished" /\ Evaluating(t) = {}
    <3>1. KillNow(t) /\ \A u \in VProcs : u # t => claims'[u] = claims[u]
      BY <1>3, <2>3 DEF Kill, TypeOK
    <3> QED BY <2>0, <2>3, <3>1, KillLeaves
  <2> QED BY <2>1, <2>2, <2>3
<1>4. ASSUME NEW l \in Lazies, NEW c \in Control, ClaimThunk(v, l, c) PROVE KillInv'
  BY <1>0, <1>4, ClaimLeaves
<1>5. ASSUME NEW l \in Lazies, Hold(v, l) PROVE KillInv'
  BY <1>0, <1>5, HoldLeaves
<1>6. ASSUME NEW l \in Lazies, Publish(v, l) PROVE KillInv'
  BY <1>0, <1>6, PublishLeaves
<1>7. CASE Fail(v) \/ NullFail(v)
  <2>1. /\ UNCHANGED <<val, info, chain, claims>>
        /\ \A u \in VProcs : ended'[u] = IF u = v THEN "error" ELSE ended[u]
    BY <1>7 DEF Fail, NullFail, FailWith, Finish, cells, TypeOK
  <2> QED BY <2>1, KillQuiet
<1>8. ASSUME NEW t, \/ Start(v, t) \/ Suspend(v, t) \/ Resume(v, t) \/ Join(v, t)
                    \/ OsWait(v, t) \/ ReadStream(v, t) \/ TrapInterrupt(v, t) \/ Exit(v)
      PROVE  KillInv'
  <2>1. UNCHANGED <<val, info, chain, claims, ended>>
    BY <1>8 DEF Start, Suspend, Resume, Join, OsWait, ReadStream, TrapInterrupt, Exit, cells, progs
  <2> QED BY <2>1, KillQuiet
<1>9. ASSUME NEW x, NEW y,
             \/ RefSet(v, x, y) \/ RefWaitChange(v, x, y) \/ ClaimCell(v, x, y)
             \/ ClaimError(v, x, y) \/ ClaimWait(v, x, y)
      PROVE  KillInv'
  <2>1. UNCHANGED <<val, info, chain, claims, ended>>
    BY <1>9 DEF RefSet, RefWaitChange, ClaimCell, ClaimError, ClaimWait, cells
  <2> QED BY <2>1, KillQuiet
<1> QED BY <1>1, <1>2, <1>3, <1>4, <1>5, <1>6, <1>7, <1>8, <1>9 DEF Step

LEMMA AfterLeaves ==
  ASSUME TypeOK, NoReentry, KillInv, cur \in VProcs, After,
         \A u \in VProcs : state[u] = "finished" => state'[u] = "finished"
  PROVE  KillInv'
<1>0. UNCHANGED <<val, info, chain>> /\ Forget(cur)
  BY LoopKeeps DEF After, AfterKill, AfterStop, AfterHalt, AfterAlone, AfterYield
<1>1. CASE AfterKill
  <2>1. KillNow(cur) /\ Evaluating(cur) = {}
    BY <1>1 DEF AfterKill, Dies
  <2>2. \A v \in VProcs : v # cur => claims'[v] = claims[v]
    BY <1>0 DEF Forget, TypeOK
  <2> QED BY <1>0, <2>1, <2>2, KillLeaves
<1>2. CASE ~AfterKill
  <2>1. ~Dies(cur)
    BY <1>2 DEF After, AfterStop, AfterHalt, AfterAlone, AfterYield
  <2>2. \A v \in VProcs : ended'[v] = "killed" => ended[v] = "killed"
    BY <1>2 DEF After, AfterStop, AfterHalt, AfterAlone, AfterYield, Finish, TypeOK
  <2>3. CASE claims' = claims
    BY <1>0, <2>2, <2>3, KillQuiet
  <2>4. CASE killPending[cur] /\ state[cur] # "finished"
    <3>1. Evaluating(cur) # {} /\ claims' = [claims EXCEPT ![cur] = Evaluating(cur)]
      BY <1>0, <2>1, <2>4 DEF Dies, Forget
    <3> QED BY <1>0, <2>2, <3>1, ForgetLeaves
  <2> QED BY <1>0, <2>3, <2>4 DEF Forget
<1> QED BY <1>1, <1>2

LEMMA NextLeaves ==
  ASSUME NoReentry
  PROVE  TypeInv /\ PlaceInv /\ KillInv /\ [Next]_vars => KillInv'
<1> SUFFICES ASSUME TypeInv, PlaceInv, KillInv, [Next]_vars PROVE KillInv'
  OBVIOUS
<1>0. TypeOK /\ \A v \in VProcs : state[v] = "finished" => state'[v] = "finished"
  BY FinishedStays DEF TypeInv
<1>1. CASE Schedule \/ Idle
  <2>1. UNCHANGED <<val, info, chain, claims>>
    <3>1. UNCHANGED claims
      BY <1>1 DEF Schedule, FinishFront, CheckJoining, CheckLazy, CheckChanges, OsSleep, OsPoll,
         OsSkip, SignalSleep, Stop, Dispatch, CheckWaiting, Idle, Fire, Interrupt, vars, progs
    <3> QED BY <1>1, <3>1, LoopKeeps
  <2>2. \A v \in VProcs : ended'[v] = "killed" => ended[v] = "killed"
    <3>1. CASE FinishFront
      BY <1>0, <3>1 DEF FinishFront, Finish, TypeOK
    <3>2. CASE ~FinishFront
      BY <1>1, <3>2 DEF Schedule, CheckJoining, CheckLazy, CheckChanges, OsSleep, OsPoll,
         OsSkip, SignalSleep, Stop, Dispatch, CheckWaiting, Idle, Fire, Interrupt, vars, progs
    <3> QED BY <3>1, <3>2
  <2> QED BY <1>0, <2>1, <2>2, KillQuiet
<1>2. CASE After
  <2>1. cur \in VProcs
    BY <1>2 DEF TypeInv, After, AfterKill, AfterStop, AfterHalt, AfterAlone, AfterYield, Leaves
  <2> QED BY <1>0, <1>2, <2>1, AfterLeaves
<1>3. ASSUME NEW v \in VProcs, Step(v) PROVE KillInv'
  BY <1>0, <1>3, StepLeaves
<1> QED BY <1>1, <1>2, <1>3 DEF Next, Machine, Stopped, Idle

\* A VProc that was killed, at once, by its own publish or at the end of a
\* step, had published or left every LazyList that it had claimed: nobody waits
\* for an evaluation that a kill cut off.
THEOREM KillLeavesNothing == ASSUME NoReentry PROVE Spec => []KillSpares
<1>1. Init => KillInv
  <2> SUFFICES ASSUME Init PROVE KillInv
    OBVIOUS
  <2>1. /\ \A l \in Lazies : info[l].by = "none" /\ (val[l] = Thunk => l \in Thunks)
        /\ \A v \in VProcs : ended[v] = "no"
    BY DisjointAssumption DEF Init, NoMark
  <2> QED BY <2>1 DEF KillInv, Marked, Forgotten, Killed
<1>2. KillInv => KillSpares
  BY DEF KillInv, Killed, KillSpares
<1>3. TypeInv /\ PlaceInv /\ KillInv /\ [Next]_vars => KillInv'
  BY NextLeaves
<1> QED BY <1>1, <1>2, <1>3, PlacesAreSafe, PTL DEF Spec

=============================================================================
