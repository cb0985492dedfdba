--------------------------- MODULE OsWait_proofs ---------------------------
(***************************************************************************)
(* For any number of VProcs, processes, Streams and SIGINTs: the VM sleeps *)
(* over no exit and no SIGINT, and skips no poll that would find an exit.  *)
(*                                                                         *)
(* The invariant says who still knows of what came: the signal that is on  *)
(* its way, the byte in the pipe, the count of signals, or the line the VM *)
(* is at.                                                                  *)
(***************************************************************************)
EXTENDS OsWait, TLAPS

\* The list of check_waiting has the VProcs it has not looked at.
Listed(v) == pc = "scan" /\ v \in now.list

\* A VProc waits for a process that has exited.
Left(v) == waiting[v] \in Procs /\ Exited(waiting[v])

\* With a process to wait for, or a trap, the pipe and the handler are there.
Prepared ==
  /\ \A v \in VProcs : waiting[v] \in Procs => wakeup
  /\ trap # None => wakeup
  /\ pc = "wait" => wakeup /\ now.vproc \in ready /\ now.target \in Procs
  /\ pc = "trap" => wakeup
  /\ pc = "scan" => now.list \subseteq Waiters

\* The pipe wakes the VM for an exit.
ExitKnown ==
  \A v \in VProcs : Left(v) =>
     "SIGCHLD" \in pending \/ pipe \/ pc \in {"drain", "count"} \/ Listed(v)

\* The count of signals makes the VM look for an exit.
ExitCounted ==
  \A v \in VProcs : Left(v) =>
     "SIGCHLD" \in pending \/ signals_seen < SIGNALS \/ pc \in {"poll", "drain", "count"} \/ Listed(v)

\* The pipe wakes the VM for a SIGINT.
InterruptKnown == trap \in {None, INTERRUPTS} \/ pipe \/ pc = "count"

\* A value that was set is looked at before the VM sleeps.
ChangeKnown ==
  \/ \A v \in VProcs : changes[v] \in {None, value}
  \/ ref_changed /\ pc \notin {"check", "poll"}

Inv ==
  /\ TypeOK /\ signals_seen <= SIGNALS
  /\ Prepared /\ ExitKnown /\ ExitCounted /\ InterruptKnown /\ ChangeKnown

USE OsWaitAssumption

LEMMA NothingType ==
  Nothing \in [block : BOOLEAN, vproc : VProcs \cup {None}, target : Procs \cup {None},
               found : SUBSET (Streams \cup {"wakeup"}), list : SUBSET VProcs]
BY DEF Nothing

LEMMA InitInv ==
  ASSUME Init
  PROVE  Inv
<1>1. TypeOK
  <2>1. /\ proc \in [Procs -> {"none", "running", "exited", "reaped"}]
        /\ stream \in [Streams -> {"idle", "ready", "closed"}]
        /\ waiting \in [VProcs -> Targets \cup {None}] /\ changes \in [VProcs -> Nat \cup {None}]
        /\ \A v \in VProcs : changes[v] = None /\ waiting[v] = None
    BY DEF Init
  <2>2. now \in [block : BOOLEAN, vproc : VProcs \cup {None}, target : Procs \cup {None},
                 found : SUBSET (Streams \cup {"wakeup"}), list : SUBSET VProcs]
    BY NothingType DEF Init
  <2>3. /\ sent \in 0 .. MaxInterrupts /\ unpolled \in 0 .. PollInterval
        /\ INTERRUPTS + (IF "SIGINT" \in pending THEN 1 ELSE 0) <= sent
    BY DEF Init
  <2>4. /\ pending \subseteq {"SIGCHLD", "SIGINT"} /\ pipe \in BOOLEAN
        /\ wakeup \in BOOLEAN /\ trapped \in BOOLEAN /\ ready \subseteq VProcs
        /\ ref_changed \in BOOLEAN /\ trap \in Nat \cup {None} /\ os_dirty \in BOOLEAN
        /\ SIGNALS \in Nat /\ INTERRUPTS \in Nat /\ value \in Nat /\ signals_seen \in Nat
        /\ pc = "loop"
    BY DEF Init
  <2> QED BY <2>1, <2>2, <2>3, <2>4 DEF TypeOK
<1>2. \A v \in VProcs : waiting[v] \notin Procs
  BY DEF Init
<1> QED BY <1>1, <1>2 DEF Init, Inv, Prepared, ExitKnown, ExitCounted, InterruptKnown, ChangeKnown, Left

(***************************************************************************)
(* What comes from outside                                                 *)
(***************************************************************************)

LEMMA OutsideInv ==
  ASSUME Inv, Outside
  PROVE  Inv'
<1> USE DEF Inv, inside, handlers, ref, checks
<1>1. ASSUME NEW p \in Procs, Exit(p), UNCHANGED inside PROVE Inv'
  <2>1. TypeOK'
    BY <1>1 DEF Exit, TypeOK, Targets
  <2>2. Prepared' /\ InterruptKnown' /\ ChangeKnown' /\ (signals_seen <= SIGNALS)'
    BY <1>1 DEF Exit, Prepared, InterruptKnown, ChangeKnown, Waiters
  <2>3. \A v \in VProcs : Left(v)' => Left(v) \/ "SIGCHLD" \in pending'
    BY <1>1 DEF Exit, Left, Exited, Prepared, TypeOK
  <2>4. ExitKnown' /\ ExitCounted'
    BY <1>1, <2>3 DEF Exit, ExitKnown, ExitCounted, Listed
  <2> QED BY <2>1, <2>2, <2>4
<1>2. ASSUME Interrupt, UNCHANGED inside PROVE Inv'
  <2>1. TypeOK'
    BY <1>2 DEF Interrupt, TypeOK, Targets
  <2> QED BY <1>2, <2>1 DEF Interrupt, Prepared, ExitKnown, ExitCounted, InterruptKnown, ChangeKnown,
                            Left, Exited, Listed, Waiters
<1>3. ASSUME NEW s \in Streams, Arrive(s), UNCHANGED inside PROVE Inv'
  <2>1. TypeOK'
    BY <1>3 DEF Arrive, TypeOK, Targets
  <2> QED BY <1>3, <2>1 DEF Arrive, Prepared, ExitKnown, ExitCounted, InterruptKnown, ChangeKnown,
                            Left, Exited, Listed, Waiters
<1>4. ASSUME NEW sig \in pending, Handle(sig), UNCHANGED inside PROVE Inv'
  <2>1. TypeOK'
    BY <1>4 DEF Handle, TypeOK, Targets
  <2> QED BY <1>4, <2>1 DEF Handle, Prepared, ExitKnown, ExitCounted, InterruptKnown, ChangeKnown,
                            Left, Exited, Listed, Waiters, TypeOK
<1> QED BY <1>1, <1>2, <1>3, <1>4 DEF Outside

(***************************************************************************)
(* The loop and check_waiting                                              *)
(***************************************************************************)

LEMMA LoopInv ==
  ASSUME Inv, Loop
  PROVE  Inv'
<1> USE DEF Inv, Loop, outside, handlers
<1>1. /\ pc' \in {"check", "step", "end"}
      /\ now' \in [block : BOOLEAN, vproc : VProcs \cup {None}, target : Procs \cup {None},
                   found : SUBSET (Streams \cup {"wakeup"}), list : SUBSET VProcs]
      /\ unpolled' \in 0 .. PollInterval
  <2>1. ASSUME NEW b \in BOOLEAN, Check(b)
        PROVE  now' \in [block : BOOLEAN, vproc : VProcs \cup {None}, target : Procs \cup {None},
                         found : SUBSET (Streams \cup {"wakeup"}), list : SUBSET VProcs]
    BY <2>1, NothingType DEF Check
  <2>2. \/ pc' \in {"step", "end"} /\ now' = Nothing
        \/ pc' = "check" /\ (Check(TRUE) \/ Check(FALSE))
    <3>1. \/ Check(TRUE) \/ Check(FALSE) \/ Go("step") \/ Go("end")
      BY Zenon DEF GoOn
    <3> QED BY <3>1 DEF Go, Check
  <2>3. unpolled' = 0 \/ unpolled' = unpolled \/ (unpolled < PollInterval /\ unpolled' = unpolled + 1)
    BY Zenon DEF GoOn
  <2>4. unpolled \in 0 .. PollInterval
    BY DEF TypeOK
  <2>5. unpolled' \in 0 .. PollInterval
    <3> HIDE DEF Inv, Loop
    <3> QED BY <2>3, <2>4
  <2>6. now' \in [block : BOOLEAN, vproc : VProcs \cup {None}, target : Procs \cup {None},
                  found : SUBSET (Streams \cup {"wakeup"}), list : SUBSET VProcs]
    BY <2>1, <2>2, NothingType
  <2>7. pc' \in {"check", "step", "end"}
    BY <2>2
  <2> QED BY <2>5, <2>6, <2>7
<1>2. value' \in Nat /\ trap' \in Nat \cup {None} /\ ref_changed' \in BOOLEAN
  BY DEF CheckInterrupts, TypeOK
<1>3. /\ ready' \subseteq VProcs /\ changes' \in [VProcs -> Nat \cup {None}]
      /\ \A v \in VProcs : changes'[v] = None \/ waiting[v] = None
      /\ \A v \in ready' : changes'[v] = None /\ waiting[v] = None
  BY DEF Changed, TypeOK
<1>4. TypeOK'
  BY <1>1, <1>2, <1>3 DEF TypeOK
<1>5. Prepared' /\ InterruptKnown'
  <2>1. (trap' # None => trap # None) /\ trap' \in {None, INTERRUPTS}
    BY DEF CheckInterrupts, Told
  <2> QED BY <1>1, <2>1 DEF Prepared, InterruptKnown
<1>6. ExitKnown' /\ ExitCounted'
  BY <1>1 DEF ExitKnown, ExitCounted, Left, Exited, Listed
<1>7. \A v \in VProcs : changes'[v] \in {None, value'}
  BY DEF ChangeKnown, Changed, CheckInterrupts, Told, TypeOK
<1> QED BY <1>4, <1>5, <1>6, <1>7 DEF ChangeKnown, TypeOK

\* The steps that move from line to line, with what they read.
LEMMA CheckInv ==
  ASSUME Inv, Skip \/ Skipped \/ Look \/ Poll \/ Drain \/ Count \/ ScanEnds
  PROVE  Inv'
<1> USE DEF Inv, outside, handlers, ref, checks
<1>1. CASE Skip
  <2>1. TypeOK'
    BY <1>1 DEF Skip, TypeOK, Go, Nothing
  <2> QED BY <1>1, <2>1 DEF Skip, Go, Prepared, ExitKnown, ExitCounted, InterruptKnown, ChangeKnown,
                            Left, Exited, Listed
<1>2. CASE Skipped
  <2>1. TypeOK'
    BY <1>2 DEF Skipped, TypeOK, Go, Nothing, CheckInterrupts
  <2> QED BY <1>2, <2>1 DEF Skipped, Go, CheckInterrupts, Told, Prepared, ExitKnown, ExitCounted,
                            InterruptKnown, ChangeKnown, Left, Exited, Listed, TypeOK
<1>3. CASE Look
  <2>1. TypeOK'
    BY <1>3 DEF Look, TypeOK
  <2> QED BY <1>3, <2>1 DEF Look, Prepared, ExitKnown, ExitCounted, InterruptKnown, ChangeKnown,
                            Left, Exited, Listed, TypeOK
<1>4. CASE Poll
  <2>1. TypeOK'
    BY <1>4 DEF Poll, TypeOK, Readable, WaitedStreams
  <2> QED BY <1>4, <2>1 DEF Poll, Prepared, ExitKnown, ExitCounted, InterruptKnown, ChangeKnown,
                            Left, Exited, Listed
<1>5. CASE Drain
  <2>1. TypeOK'
    BY <1>5 DEF Drain, TypeOK
  <2> QED BY <1>5, <2>1 DEF Drain, Prepared, ExitKnown, ExitCounted, InterruptKnown, ChangeKnown,
                            Left, Exited, Listed
<1>6. CASE Count
  <2>1. TypeOK'
    BY <1>6 DEF Count, TypeOK, CheckInterrupts, Waiters
  <2>2. now'.list = Waiters /\ pc' = "scan"
    BY <1>6 DEF Count, TypeOK
  <2>3. \A v \in VProcs : Left(v)' => Listed(v)'
    BY <1>6, <2>2 DEF Count, Left, Listed, Waiters
  <2> QED BY <1>6, <2>1, <2>2, <2>3 DEF Count, CheckInterrupts, Told, Prepared, ExitKnown, ExitCounted,
                            InterruptKnown, ChangeKnown, Waiters, TypeOK
<1>7. CASE ScanEnds
  <2>1. TypeOK'
    BY <1>7 DEF ScanEnds, TypeOK, Go, Nothing
  <2> QED BY <1>7, <2>1 DEF ScanEnds, Go, Prepared, ExitKnown, ExitCounted, InterruptKnown, ChangeKnown,
                            Left, Exited, Listed
<1> QED BY <1>1, <1>2, <1>3, <1>4, <1>5, <1>6, <1>7

\* To wait for a process makes it no more exited than it was.
LEMMA ReapKeeps ==
  ASSUME TypeOK, NEW p \in Procs, Reap(p)
  PROVE  /\ proc' \in [Procs -> {"none", "running", "exited", "reaped"}]
         /\ \A q \in Procs : Exited(q)' <=> Exited(q)
BY DEF TypeOK, Reap, Exited

LEMMA ScanInv ==
  ASSUME Inv, NEW v \in VProcs, Scan(v)
  PROVE  Inv'
<1> USE DEF Inv, outside, handlers, ref, checks
<1> DEFINE target == waiting[v]
           wakes == IF target \in Procs THEN Exited(target)
                    ELSE stream[target] = "closed" \/ target \in now.found
<1>1. /\ pc = "scan" /\ v \in now.list
      /\ now' = [now EXCEPT !.list = @ \ {v}]
      /\ IF target \in Procs THEN Reap(target) ELSE UNCHANGED proc
      /\ ready' = IF wakes THEN ready \cup {v} ELSE ready
      /\ waiting' = IF wakes THEN [waiting EXCEPT ![v] = None] ELSE waiting
      /\ UNCHANGED <<stream, sent, pending, SIGNALS, INTERRUPTS, pipe>>
      /\ UNCHANGED <<handlers, changes, ref, checks, pc>>
  BY DEF Scan
<1>2. /\ proc' \in [Procs -> {"none", "running", "exited", "reaped"}]
      /\ \A q \in Procs : Exited(q)' <=> Exited(q)
  BY <1>1, ReapKeeps DEF TypeOK, Exited
<1>3. v \in Waiters /\ changes[v] = None
  BY <1>1 DEF Prepared, Waiters, TypeOK
<1>4. waiting' \in [VProcs -> Targets \cup {None}] /\ \A w \in VProcs : waiting'[w] \in {None, waiting[w]}
  BY <1>1 DEF TypeOK
<1>5. now'.list = now.list \ {v}
  BY <1>1 DEF TypeOK
<1>6. TypeOK'
  <2>1. now' \in [block : BOOLEAN, vproc : VProcs \cup {None}, target : Procs \cup {None},
                  found : SUBSET (Streams \cup {"wakeup"}), list : SUBSET VProcs]
    BY <1>1 DEF TypeOK
  <2>2. \A w \in ready' : changes[w] = None /\ waiting'[w] = None
    BY <1>1, <1>3 DEF TypeOK
  <2>3. ready' \subseteq VProcs
    BY <1>1 DEF TypeOK
  <2>4. \A w \in VProcs : changes[w] = None \/ waiting'[w] = None
    BY <1>4 DEF TypeOK
  <2> QED BY <1>1, <1>2, <1>4, <2>1, <2>2, <2>3, <2>4 DEF TypeOK
<1>7. \A w \in VProcs : Left(w)' => Left(w) /\ w # v
  BY <1>1, <1>2, <1>4 DEF Left, TypeOK
<1>8. \A w \in VProcs : w # v => (Listed(w)' <=> Listed(w))
  BY <1>1, <1>5 DEF Listed
<1>9. Prepared'
  <2>1. \A w \in VProcs : w # v => waiting'[w] = waiting[w]
    BY <1>1 DEF TypeOK
  <2> QED BY <1>1, <1>4, <1>5, <2>1 DEF Prepared, Waiters, TypeOK
<1>10. ExitKnown' /\ ExitCounted'
  BY <1>1, <1>7, <1>8 DEF ExitKnown, ExitCounted
<1> QED BY <1>1, <1>6, <1>9, <1>10 DEF InterruptKnown, ChangeKnown

(***************************************************************************)
(* The steps of a VProc                                                    *)
(***************************************************************************)

\* A step at "step" or "wait" that goes back to the loop and makes no VProc
\* wait for a process that has exited.
LEMMA StepInv ==
  ASSUME Inv, TypeOK', pc \in {"step", "wait", "trap"}, pc' = "loop",
         UNCHANGED <<pending, pipe, SIGNALS, INTERRUPTS, handlers, trap, signals_seen>>,
         \A v \in VProcs : waiting'[v] \in Procs => waiting[v] \in Procs \/ wakeup,
         \A v \in VProcs : Left(v)' => Left(v),
         \A v \in VProcs : changes'[v] \in {None, value, changes[v]},
         UNCHANGED <<value, ref_changed>>
  PROVE  Inv'
<1> USE DEF Inv, handlers
<1>1. Prepared'
  BY DEF Prepared
<1>2. ExitKnown' /\ ExitCounted'
  BY DEF ExitKnown, ExitCounted, Listed
<1>3. InterruptKnown' /\ ChangeKnown'
  BY DEF InterruptKnown, ChangeKnown
<1> QED BY <1>1, <1>2, <1>3

LEMMA MakeWaitingTypes ==
  ASSUME TypeOK, NEW v \in ready, NEW t \in Targets, MakeWaiting(v, t), UNCHANGED changes
  PROVE  /\ ready' \subseteq VProcs /\ waiting' \in [VProcs -> Targets \cup {None}]
         /\ \A w \in VProcs : changes'[w] = None \/ waiting'[w] = None
         /\ \A w \in ready' : changes'[w] = None /\ waiting'[w] = None
         /\ waiting'[v] = t /\ \A w \in VProcs : w # v => waiting'[w] = waiting[w]
BY DEF TypeOK, MakeWaiting

LEMMA VProcInv ==
  ASSUME Inv,
         \/ Compute \/ Trap \/ TrapCounts \/ WaitPolls
         \/ \E p \in Procs : Spawn(p) \/ PollProc(p)
         \/ \E v \in VProcs, p \in Procs : Wait(v, p)
         \/ \E v \in VProcs, s \in Streams : WaitStream(v, s)
         \/ \E s \in Streams : UseStream(s)
         \/ \E v \in VProcs : WaitChange(v) \/ Finish(v)
  PROVE  Inv'
<1> USE DEF Inv, outside, handlers, ref, checks
<1>1. CASE Compute
  <2>1. TypeOK'
    BY <1>1, NothingType DEF Compute, TypeOK, Go
  <2> QED BY <1>1, <2>1, StepInv DEF Compute, Go, Left, Exited
<1>2. CASE Trap
  <2>1. TypeOK'
    BY <1>2, NothingType DEF Trap, TypeOK, Go
  <2> QED BY <1>2, <2>1 DEF Trap, Go, Prepared, ExitKnown, ExitCounted, InterruptKnown, ChangeKnown,
                            Left, Exited, Listed
<1>3. CASE TrapCounts
  <2>1. TypeOK'
    BY <1>3, NothingType DEF TrapCounts, TypeOK, Go
  <2> QED BY <1>3, <2>1 DEF TrapCounts, Go, Prepared, ExitKnown, ExitCounted, InterruptKnown, ChangeKnown,
                            Left, Exited, Listed
<1>4. CASE WaitPolls
  <2> DEFINE v == now.vproc
             p == now.target
  <2>1. p \in Procs /\ v \in ready /\ wakeup /\ Reap(p) /\ pc = "wait" /\ pc' = "loop" /\ now' = Nothing
    BY <1>4 DEF WaitPolls, Prepared, Go
  <2>2. /\ proc' \in [Procs -> {"none", "running", "exited", "reaped"}]
        /\ \A q \in Procs : Exited(q)' <=> Exited(q)
    BY <2>1, ReapKeeps
  <2>3. CASE Exited(p)
    <3>1. UNCHANGED <<ready, waiting, os_dirty>>
      BY <1>4, <2>3 DEF WaitPolls
    <3>2. TypeOK'
      BY <1>4, <2>1, <2>2, <3>1, NothingType DEF WaitPolls, TypeOK
    <3> QED BY <1>4, <2>1, <2>2, <3>1, <3>2, StepInv DEF WaitPolls, Left
  <2>4. CASE ~Exited(p)
    <3>1. MakeWaiting(v, p) /\ os_dirty' = TRUE /\ UNCHANGED changes
      BY <1>4, <2>4 DEF WaitPolls
    <3>2. /\ ready' \subseteq VProcs /\ waiting' \in [VProcs -> Targets \cup {None}]
          /\ \A w \in VProcs : changes'[w] = None \/ waiting'[w] = None
          /\ \A w \in ready' : changes'[w] = None /\ waiting'[w] = None
          /\ waiting'[v] = p /\ \A w \in VProcs : w # v => waiting'[w] = waiting[w]
      BY <2>1, <3>1, MakeWaitingTypes DEF Targets
    <3>3. TypeOK'
      BY <1>4, <2>1, <2>2, <3>1, <3>2, NothingType DEF WaitPolls, TypeOK
    <3>4. \A w \in VProcs : Left(w)' => Left(w)
      BY <2>2, <2>4, <3>2 DEF Left
    <3> QED BY <1>4, <2>1, <3>1, <3>3, <3>4, StepInv DEF WaitPolls
  <2> QED BY <2>3, <2>4
<1>5. ASSUME NEW p \in Procs, Spawn(p) PROVE Inv'
  <2>1. TypeOK'
    BY <1>5, NothingType DEF Spawn, TypeOK, Go
  <2>2. \A q \in Procs : Exited(q)' => Exited(q)
    BY <1>5 DEF Spawn, Exited, TypeOK
  <2> QED BY <1>5, <2>1, <2>2, StepInv DEF Spawn, Go, Left
<1>6. ASSUME NEW p \in Procs, PollProc(p) PROVE Inv'
  <2>1. /\ proc' \in [Procs -> {"none", "running", "exited", "reaped"}]
        /\ \A q \in Procs : Exited(q)' <=> Exited(q)
    BY <1>6, ReapKeeps DEF PollProc
  <2>2. TypeOK'
    BY <1>6, <2>1, NothingType DEF PollProc, TypeOK, Go
  <2> QED BY <1>6, <2>1, <2>2, StepInv DEF PollProc, Go, Left
<1>7. ASSUME NEW v \in VProcs, NEW p \in Procs, Wait(v, p) PROVE Inv'
  <2>1. /\ now'.vproc = v /\ now'.target = p
        /\ now' \in [block : BOOLEAN, vproc : VProcs \cup {None}, target : Procs \cup {None},
                     found : SUBSET (Streams \cup {"wakeup"}), list : SUBSET VProcs]
    BY <1>7, NothingType DEF Wait, Nothing
  <2>2. TypeOK'
    BY <1>7, <2>1 DEF Wait, TypeOK
  <2> QED BY <1>7, <2>1, <2>2 DEF Wait, Prepared, ExitKnown, ExitCounted, InterruptKnown, ChangeKnown,
                                  Left, Exited, Listed
<1>8. ASSUME NEW v \in VProcs, NEW s \in Streams, WaitStream(v, s) PROVE Inv'
  <2>1. /\ ready' \subseteq VProcs /\ waiting' \in [VProcs -> Targets \cup {None}]
        /\ \A w \in VProcs : changes'[w] = None \/ waiting'[w] = None
        /\ \A w \in ready' : changes'[w] = None /\ waiting'[w] = None
        /\ waiting'[v] = s /\ \A w \in VProcs : w # v => waiting'[w] = waiting[w]
    BY <1>8, MakeWaitingTypes DEF WaitStream, Targets
  <2>2. TypeOK'
    BY <1>8, <2>1, NothingType DEF WaitStream, TypeOK, Go
  <2>3. \A w \in VProcs : waiting'[w] \in Procs => waiting[w] \in Procs /\ waiting'[w] = waiting[w]
    BY <2>1
  <2> QED BY <1>8, <2>2, <2>3, StepInv DEF WaitStream, Go, Left, Exited
<1>9. ASSUME NEW s \in Streams, UseStream(s) PROVE Inv'
  <2>1. TypeOK'
    BY <1>9, NothingType DEF UseStream, TypeOK, Go
  <2> QED BY <1>9, <2>1, StepInv DEF UseStream, Go, Left, Exited
<1>10. ASSUME NEW v \in VProcs, WaitChange(v) PROVE Inv'
  <2>1. TypeOK'
    BY <1>10, NothingType DEF WaitChange, TypeOK, Go
  <2>2. \A w \in VProcs : changes'[w] \in {None, value, changes[w]}
    BY <1>10 DEF WaitChange, TypeOK
  <2> QED BY <1>10, <2>1, <2>2, StepInv DEF WaitChange, Go, Left, Exited
<1>11. ASSUME NEW v \in VProcs, Finish(v) PROVE Inv'
  <2>1. TypeOK'
    BY <1>11, NothingType DEF Finish, TypeOK, Go
  <2>2. \A w \in VProcs : waiting'[w] \in {None, waiting[w]} /\ changes'[w] \in {None, changes[w]}
    BY <1>11 DEF Finish, TypeOK
  <2>3. \A w \in VProcs : waiting'[w] \in Procs => waiting[w] \in Procs /\ waiting'[w] = waiting[w]
    BY <2>2
  <2> QED BY <1>11, <2>1, <2>2, <2>3, StepInv DEF Finish, Go, Left, Exited
<1> QED BY <1>1, <1>2, <1>3, <1>4, <1>5, <1>6, <1>7, <1>8, <1>9, <1>10, <1>11

(***************************************************************************)
(* The theorems                                                            *)
(***************************************************************************)

LEMMA NextInv ==
  ASSUME Inv, [Next]_vars
  PROVE  Inv'
<1>1. CASE Outside
  BY <1>1, OutsideInv
<1>2. CASE Loop
  BY <1>2, LoopInv
<1>3. CASE Skip \/ Skipped \/ Look \/ Poll \/ Drain \/ Count \/ ScanEnds
  BY <1>3, CheckInv
<1>4. ASSUME NEW v \in VProcs, Scan(v) PROVE Inv'
  BY <1>4, ScanInv
<1>5. CASE \/ Compute \/ Trap \/ TrapCounts \/ WaitPolls
           \/ \E p \in Procs : Spawn(p) \/ PollProc(p)
           \/ \E v \in VProcs, p \in Procs : Wait(v, p)
           \/ \E v \in VProcs, s \in Streams : WaitStream(v, s)
           \/ \E s \in Streams : UseStream(s)
           \/ \E v \in VProcs : WaitChange(v) \/ Finish(v)
  BY <1>5, VProcInv
<1>6. CASE UNCHANGED vars
  BY <1>6 DEF vars, outside, inside, handlers, ref, checks, Inv, TypeOK, Prepared, ExitKnown, ExitCounted,
              InterruptKnown, ChangeKnown, Left, Exited, Listed, Waiters
<1> QED BY <1>1, <1>2, <1>3, <1>4, <1>5, <1>6 DEF Next, Machine

LEMMA SpecInv == Spec => []Inv
<1>1. Init => Inv
  BY InitInv
<1>2. Inv /\ [Next]_vars => Inv'
  BY NextInv
<1> QED BY <1>1, <1>2, PTL DEF Spec

\* Every variable has its type, and a VProc waits in one place and is not ready
\* then, at every line of check_waiting (sched.rs:350).
THEOREM TypeCorrect == Spec => []TypeOK
<1>1. Inv => TypeOK
  BY DEF Inv
<1> QED BY <1>1, SpecInv, PTL

\* The VM never sleeps over the exit of a process that a VProc waits for, whenever
\* it exits (process.rs:155).
THEOREM ExitsWake == Spec => []NoExitSleptOver
<1>1. Inv => NoExitSleptOver
  <2> SUFFICES ASSUME Inv, Asleep, NEW v \in VProcs, waiting[v] \in Procs, Exited(waiting[v])
               PROVE  FALSE
    BY DEF NoExitSleptOver
  <2>1. ~pipe
    BY DEF Inv, Prepared, Asleep, Readable
  <2> QED BY <2>1 DEF Inv, ExitKnown, Left, Listed, Asleep
<1> QED BY <1>1, SpecInv, PTL

\* The VM never sleeps over a SIGINT it traps, or over a change that a VProc waits
\* for (sched.rs:329, 390).
THEOREM InterruptsWake == Spec => []NoInterruptSleptOver
<1>1. Inv => NoInterruptSleptOver
  <2> SUFFICES ASSUME Inv, Asleep
               PROVE  trap \in {None, INTERRUPTS} /\ \A v \in VProcs : changes[v] \in {None, value}
    BY DEF NoInterruptSleptOver
  <2>1. trap = None \/ ~pipe
    BY DEF Inv, Prepared, Asleep, Readable
  <2> QED BY <2>1 DEF Inv, InterruptKnown, ChangeKnown, Asleep
<1> QED BY <1>1, SpecInv, PTL

\* A poll that is left out would have found no exit (sched.rs:353).
THEOREM SkipsAreSafe == Spec => NoExitSkipped
<1> DEFINE Safe == pc' = "skipped" /\ pc # "skipped" /\ "SIGCHLD" \notin pending =>
                     \A v \in Waiters : ~Exited(waiting[v])
<1>1. Inv /\ [Next]_vars => [Safe]_vars
  <2> SUFFICES ASSUME Inv, Next, pc' = "skipped", pc # "skipped", "SIGCHLD" \notin pending,
                      NEW v \in Waiters, Exited(waiting[v])
               PROVE  FALSE
    BY DEF Safe
  <2>1. Skip
    BY DEF Next, Machine, Outside, inside, Loop, GoOn, Check, Skipped, Look, Poll, Drain, Count, ScanEnds,
           Compute, Trap, TrapCounts, WaitPolls, Spawn, PollProc, Wait, WaitStream, UseStream, Scan,
           WaitChange, Finish, Go
  <2>2. v \in VProcs /\ waiting[v] \in Procs /\ SIGNALS = signals_seen /\ pc = "check"
    BY <2>1 DEF Skip, OnlyProcs, Waiters
  <2> QED BY <2>2 DEF Inv, TypeOK, ExitCounted, Left, Listed
<1>2. NoExitSkipped <=> [][Safe]_vars
  BY DEF NoExitSkipped
<1> QED BY <1>1, <1>2, SpecInv, PTL DEF Spec
=============================================================================
