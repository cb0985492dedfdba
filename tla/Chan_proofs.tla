----------------------------- MODULE Chan_proofs -----------------------------
(***************************************************************************)
(* What holds of the Rust channels for every number of threads, capacity   *)
(* and interleaving: no wake-up is lost, what settle calls blocked is      *)
(* blocked, the chains are served in turn, and the channel implements      *)
(* Fifo.                                                                   *)
(***************************************************************************)
EXTENDS Chan, SequenceTheorems, TLAPS

USE DEF Threads

----------------------------------------------------------------------------
(***************************************************************************)
(* Types.                                                                  *)
(***************************************************************************)

\* The initial values have their types.
LEMMA InitType == Init => TypeOK
<1> SUFFICES ASSUME Init PROVE TypeOK
  OBVIOUS
<1>1. chains \in Seq(Writers) /\ Len(chains) = 1
  BY ThreadAssumption DEF Init
<1>2. queue \in [Writers -> Seq(Nat)]
  BY DEF Init
<1>3. list \in Seq(Writers \X Nat) /\ hand \in Seq(Writers \X Nat)
  BY DEF Init
<1>4. at \in [Threads -> Places]
  BY DEF Init, Places
<1>5. sent \in [Writers -> Nat] /\ passed \in [Writers -> Nat] /\ pos \in [Readers -> Nat]
  BY DEF Init
<1>6. nxt \in 0 .. Len(chains) /\ tail \in {"thunk", "busy", "nil"}
  BY <1>1 DEF Init
<1>7. cancelled \in BOOLEAN /\ done \in BOOLEAN /\ record \in BOOLEAN
  BY KindAssumption DEF Init
<1>8. closed \in SUBSET Writers /\ waiting \in SUBSET Writers /\ asleep \in SUBSET Threads /\ dozing \in SUBSET Readers
  BY DEF Init
<1> QED BY <1>1, <1>2, <1>3, <1>4, <1>5, <1>6, <1>7, <1>8 DEF TypeOK

\* A step of a writer keeps the types (Writer of chan.rs).
LEMMA WriterType ==
  ASSUME TypeOK, NEW w \in Writers
  PROVE  /\ PutBegin(w) => TypeOK'
         /\ Put(w) => TypeOK'
         /\ Close(w) => TypeOK'
         /\ Stop(w) => TypeOK'
         /\ \A c \in Writers : Open(w, c) => TypeOK'
<1>1. PutBegin(w) => TypeOK'
  BY DEF TypeOK, PutBegin, Goes, inner, value, Places
<1>2. PutFails(w) => TypeOK'
  BY DEF TypeOK, PutFails, Aborts, Goes, value, Places
<1>3. PutElement(w) => TypeOK'
  <2> SUFFICES ASSUME PutElement(w) PROVE TypeOK'
    OBVIOUS
  <2>1. sent[w] + 1 \in Nat /\ Append(queue[w], sent[w] + 1) \in Seq(Nat)
    BY DEF TypeOK
  <2>2. queue' \in [Writers -> Seq(Nat)] /\ sent' \in [Writers -> Nat]
    BY <2>1 DEF TypeOK, PutElement
  <2> QED BY <2>2 DEF TypeOK, PutElement, NotifyAll, Goes, value, Places
<1>4. PutSleeps(w) => TypeOK'
  BY DEF TypeOK, PutSleeps, value
<1>5. Close(w) => TypeOK'
  BY DEF TypeOK, Close, CloseChain, NotifyAll, Goes, value, Places
<1>6. Stop(w) => TypeOK'
  BY DEF TypeOK, Stop, CloseChain, NotifyAll, value
<1>7. ASSUME NEW c \in Writers, Open(w, c) PROVE TypeOK'
  <2>1. chains' \in Seq(Writers) /\ Len(chains') = Len(chains) + 1
    BY <1>7 DEF TypeOK, Open
  <2>2. nxt' \in 0 .. Len(chains')
    BY <1>7, <2>1 DEF TypeOK, Open
  <2> QED BY <1>7, <2>1, <2>2 DEF TypeOK, Open, value, Places
<1> QED BY <1>1, <1>2, <1>3, <1>4, <1>5, <1>6, <1>7 DEF Put

\* An element that next finds is at an index of Inner.chains.
LEMMA Found ==
  ASSUME TypeOK, NEW i \in 0 .. Len(chains) - 1, First(i)
  PROVE  chains[i + 1] \in Writers /\ chains[i + 1] \in Made /\ queue[chains[i + 1]] # <<>>
<1>1. i + 1 \in DOMAIN chains
  BY DEF TypeOK
<1>2. chains[i + 1] \in Writers
  BY <1>1 DEF TypeOK
<1> QED BY <1>1, <1>2 DEF First, Made, Range

\* The first element of a queue that is not empty.
LEMMA QueueHead ==
  ASSUME NEW q \in Seq(Nat), q # <<>>
  PROVE  Head(q) \in Nat /\ Tail(q) \in Seq(Nat) /\ Len(q) \in Nat \ {0} /\ Len(Tail(q)) = Len(q) - 1
  BY HeadTailProperties, EmptySeq

\* A step of a reader keeps the types (next of chan.rs, uncons of value.rs).
LEMMA ReaderType ==
  ASSUME TypeOK, NEW r \in Readers
  PROVE  Uncons(r) \/ NextItem(r) \/ Publish(r) \/ Leave(r) => TypeOK'
<1>1. ASSUME UnconsCell(r) PROVE TypeOK'
  <2>1. pos' \in [Readers -> Nat]
    <3>1. pos \in [Readers -> Nat] /\ pos[r] + 1 \in Nat
      BY DEF TypeOK
    <3> QED BY <1>1, <3>1 DEF UnconsCell
  <2>2. at' \in [Threads -> Places]
    <3>1. at \in [Threads -> Places] /\ "run" \in Places
      BY DEF TypeOK, Places
    <3> QED BY <1>1, <3>1 DEF UnconsCell
  <2> QED BY <1>1, <2>1, <2>2 DEF TypeOK, UnconsCell, inner
<1>2. UnconsEnd(r) \/ UnconsThunk(r) \/ Leave(r) => TypeOK'
  <2>1. UnconsEnd(r) => TypeOK'
    BY DEF TypeOK, UnconsEnd, inner, value, Places
  <2>2. UnconsThunk(r) => TypeOK'
    BY DEF TypeOK, UnconsThunk, inner, Places
  <2>3. Leave(r) => TypeOK'
    BY DEF TypeOK, Leave, Goes, inner, value, Places
  <2> QED BY <2>1, <2>2, <2>3
<1>7. UnconsSleeps(r) => TypeOK'
  BY DEF TypeOK, UnconsSleeps, inner, Places
<1>3. ASSUME NextElement(r) PROVE TypeOK'
  <2>1. PICK i \in 0 .. Len(chains) - 1 :
          /\ First(i)
          /\ hand' = <<<<chains[i + 1], Head(queue[chains[i + 1]])>>>>
          /\ queue' = [queue EXCEPT ![chains[i + 1]] = Tail(@)]
          /\ waiting' = waiting \ {chains[i + 1]}
          /\ passed' = [v \in Writers |-> IF v = chains[i + 1] \/ queue[v] = <<>> THEN 0 ELSE passed[v] + 1]
          /\ nxt' = i + 1
    BY <1>3 DEF NextElement, After, NoLongerWaiting
  <2> DEFINE w == chains[i + 1]
  <2>2. w \in Writers /\ queue[w] # <<>>
    BY <2>1, Found
  <2>3. Head(queue[w]) \in Nat /\ Tail(queue[w]) \in Seq(Nat)
    BY <2>2, QueueHead DEF TypeOK
  <2>4. queue' \in [Writers -> Seq(Nat)]
    BY <2>1, <2>2, <2>3 DEF TypeOK
  <2>5. hand' \in Seq(Writers \X Nat)
    BY <2>1, <2>2, <2>3
  <2>6. passed' \in [Writers -> Nat]
    <3>1. \A v \in Writers : passed[v] + 1 \in Nat
      BY DEF TypeOK
    <3>2. \A v \in Writers : (IF v = w \/ queue[v] = <<>> THEN 0 ELSE passed[v] + 1) \in Nat
      BY <3>1
    <3> HIDE DEF w
    <3>3. passed' = [v \in Writers |-> IF v = w \/ queue[v] = <<>> THEN 0 ELSE passed[v] + 1]
      BY <2>1 DEF w
    <3> QED BY <3>2, <3>3
  <2>7. nxt' \in 0 .. Len(chains')
    <3>1. chains' = chains /\ Len(chains) \in Nat
      BY <1>3 DEF NextElement, TypeOK
    <3>2. nxt' = i + 1
      BY <2>1
    <3> QED BY <3>1, <3>2
  <2> QED BY <1>3, <2>1, <2>4, <2>5, <2>6, <2>7 DEF TypeOK, NextElement, Goes, NotifyAll, Places
<1>4. NextEnd(r) \/ NextSleeps(r) => TypeOK'
  BY DEF TypeOK, NextEnd, NextSleeps, Goes, inner, value, Places
<1>5. ASSUME PublishElement(r) PROVE TypeOK'
  <2>1. list' \in Seq(Writers \X Nat) /\ hand' \in Seq(Writers \X Nat)
    <3>1. list \o hand \in Seq(Writers \X Nat)
      BY ConcatProperties DEF TypeOK
    <3> QED BY <1>5, <3>1 DEF PublishElement
  <2>2. pos' \in [Readers -> Nat]
    BY <1>5 DEF PublishElement, TypeOK
  <2> QED BY <1>5, <2>1, <2>2 DEF TypeOK, PublishElement, Goes, inner, Places
<1>6. PublishEnd(r) => TypeOK'
  BY DEF TypeOK, PublishEnd, Goes, inner, Places
<1> QED BY <1>1, <1>2, <1>3, <1>4, <1>5, <1>6, <1>7 DEF Uncons, NextItem, Publish

\* A step of the Owner, of the thread of the $( ), or of a Condvar.
LEMMA OtherType ==
  ASSUME TypeOK
  PROVE  /\ SetDone \/ SettleBegin \/ Settle \/ Finish \/ StopOwner \/ Join => TypeOK'
         /\ \A t \in Threads : Spurious(t) => TypeOK'
<1> USE ThreadAssumption
<1>1. SetDone => TypeOK'
  BY DEF TypeOK, SetDone, Goes, NotifyAll, value, Places
<1>2. SettleBegin \/ Join => TypeOK'
  BY DEF TypeOK, SettleBegin, Join, Goes, inner, value, Places
<1>3. Settle => TypeOK'
  BY DEF TypeOK, Settle, SettleEnds, SettleSleeps, Goes, inner, value, Places
<1>4. Finish => TypeOK'
  BY KindAssumption DEF TypeOK, Finish, Cancels, Goes, NotifyAll, value, Places
<1>5. StopOwner => TypeOK'
  BY DEF TypeOK, StopOwner, NotifyAll, value
<1>6. \A t \in Threads : Spurious(t) => TypeOK'
  BY DEF TypeOK, Spurious, inner, value
<1> QED BY <1>1, <1>2, <1>3, <1>4, <1>5, <1>6

\* Every step keeps the types.
LEMMA NextType == TypeOK /\ [Next]_vars => TypeOK'
<1>1. TypeOK /\ UNCHANGED vars => TypeOK'
  BY DEF TypeOK, vars, inner, value
<1> QED BY <1>1, WriterType, ReaderType, OtherType DEF Next, Ended

\* The variables of Inner, of the LazyList and of the threads have their types.
THEOREM ChanTypeCorrect == Spec => []TypeOK
  BY InitType, NextType, PTL DEF Spec

----------------------------------------------------------------------------
(***************************************************************************)
(* No wake-up is lost.  Each step that could let a sleeper go on wakes all *)
(* of them, but for the making of a chain: it can end what the reader      *)
(* waits for only if the new chain were closed or had elements, which a    *)
(* chain that is not made yet has not (Fresh).                             *)
(***************************************************************************)
Fresh == \A w \in Writers : at[w] = "off" => queue[w] = <<>> /\ w \notin closed

SleepInv == Fresh /\ NoLostWakeUp

\* A step that leaves t asleep changes nothing t waits for.
Undisturbed(t) ==
  /\ at'[t] = at[t] /\ cancelled' = cancelled
  /\ t \in Writers => queue'[t] = queue[t] /\ (t \in closed' => t \in closed)
  /\ Empty => Empty'
  /\ AllClosed' => AllClosed
  /\ State = "running" => State' = "running"

\* Who sleeps after a step either slept before it and is undisturbed, or fell
\* asleep rightly.
LEMMA Sleepers ==
  ASSUME NoLostWakeUp,
         \A t \in asleep' : IF t \in asleep THEN Undisturbed(t) ELSE SleepsRightly(t)',
         \A r \in dozing' : IF r \in dozing
                            THEN at'[r] = at[r] /\ pos'[r] = pos[r] /\ list' = list /\ tail' = tail
                            ELSE DozesRightly(r)'
  PROVE  NoLostWakeUp'
<1>1. ASSUME NEW t \in asleep' PROVE SleepsRightly(t)'
  BY DEF NoLostWakeUp, SleepsRightly, Undisturbed, HasRoom
<1>2. ASSUME NEW r \in dozing' PROVE DozesRightly(r)'
  BY DEF NoLostWakeUp, DozesRightly
<1> QED BY <1>1, <1>2 DEF NoLostWakeUp

\* A step of a thread that changes nothing in the channel.
LEMMA Calm ==
  ASSUME TypeOK, SleepInv, UNCHANGED inner, NEW t \in Threads, at[t] # "off",
         \A s \in Threads \ {t} : at'[s] = at[s], at'[t] # "off",
         t \notin asleep, t \notin dozing,
         \A s \in asleep' : s \in asleep \/ SleepsRightly(s)',
         t \in asleep' => SleepsRightly(t)', t \in dozing' => DozesRightly(t)',
         \A r \in dozing' \ {t} : r \in dozing /\ pos'[r] = pos[r] /\ list' = list /\ tail' = tail
  PROVE  SleepInv'
<1>1. Fresh'
  BY DEF SleepInv, Fresh, inner, Threads
<1>2. \A s \in asleep : s \in Threads
  BY DEF TypeOK
<1>3. (Empty <=> Empty') /\ (AllClosed <=> AllClosed') /\ State = State'
  BY DEF Empty, AllClosed, State, inner
<1>4. \A s \in asleep' : IF s \in asleep THEN Undisturbed(s) ELSE SleepsRightly(s)'
  BY <1>2, <1>3 DEF Undisturbed, inner
<1>5. \A r \in dozing' : IF r \in dozing
                         THEN at'[r] = at[r] /\ pos'[r] = pos[r] /\ list' = list /\ tail' = tail
                         ELSE DozesRightly(r)'
  BY DEF TypeOK
<1> QED BY <1>1, <1>4, <1>5, Sleepers DEF SleepInv

\* A step that wakes everybody.
LEMMA AllWoken ==
  ASSUME TypeOK, SleepInv, Fresh', asleep' = {}, UNCHANGED <<dozing, pos, list, tail>>,
         \A r \in dozing : at'[r] = at[r]
  PROVE  SleepInv'
  BY Sleepers DEF SleepInv

\* A step of a writer loses no wake-up.
LEMMA WriterSleep ==
  ASSUME TypeOK, SleepInv, NEW w \in Writers
  PROVE  /\ PutBegin(w) => SleepInv'
         /\ Put(w) => SleepInv'
         /\ Close(w) => SleepInv'
         /\ Stop(w) => SleepInv'
         /\ \A c \in Writers : Open(w, c) => SleepInv'
<1> USE ThreadAssumption
<1>0. \A r \in dozing : r \in Threads /\ r \notin Writers
  BY DEF TypeOK
<1>1. ASSUME PutBegin(w) PROVE SleepInv'
  <2>1. w \notin asleep /\ w \notin dozing
    BY <1>1, <1>0 DEF PutBegin, Goes, SleepInv, NoLostWakeUp, SleepsRightly
  <2>2. at'[w] = "put" /\ \A s \in Threads \ {w} : at'[s] = at[s]
    BY <1>1 DEF PutBegin, Goes, TypeOK
  <2> QED BY <1>1, <2>1, <2>2, Calm DEF PutBegin, Goes, value
<1>2. ASSUME PutFails(w) PROVE SleepInv'
  <2>1. Fresh'
    BY <1>2 DEF PutFails, Aborts, Goes, SleepInv, Fresh, TypeOK
  <2>2. \A t \in Threads \ {w} : at'[t] = at[t]
    BY <1>2 DEF PutFails, Aborts, Goes, TypeOK
  <2>3. w \notin asleep /\ asleep \subseteq Threads
    BY <1>2 DEF PutFails, Putting, TypeOK
  <2>4. (Empty => Empty') /\ (AllClosed' => AllClosed) /\ (State = "running" => State' = "running")
    BY <1>2 DEF PutFails, Empty, AllClosed, State
  <2>5. \A t \in asleep' : t \in asleep /\ Undisturbed(t)
    BY <1>2, <2>2, <2>3, <2>4 DEF PutFails, Undisturbed
  <2>6. \A r \in dozing' : r \in dozing /\ at'[r] = at[r] /\ pos' = pos /\ list' = list /\ tail' = tail
    BY <1>2, <1>0, <2>2 DEF PutFails, value
  <2> QED BY <2>1, <2>5, <2>6, Sleepers DEF SleepInv
<1>3. ASSUME PutElement(w) PROVE SleepInv'
  <2>1. Fresh'
    BY <1>3 DEF PutElement, Goes, SleepInv, Fresh, TypeOK
  <2>2. \A r \in dozing : at'[r] = at[r]
    BY <1>3, <1>0 DEF PutElement, Goes, TypeOK
  <2> QED BY <1>3, <2>1, <2>2, AllWoken DEF PutElement, NotifyAll, value
<1>4. ASSUME PutSleeps(w) PROVE SleepInv'
  <2>1. Fresh'
    BY <1>4 DEF PutSleeps, SleepInv, Fresh
  <2>2. SleepsRightly(w)' /\ w \notin asleep
    BY <1>4 DEF PutSleeps, Putting, SleepsRightly, HasRoom
  <2>3. (Empty => Empty') /\ (AllClosed' => AllClosed) /\ (w \in waiting => State = State')
    BY <1>4 DEF PutSleeps, Empty, AllClosed, State
  <2>4. \A t \in asleep' : IF t \in asleep THEN Undisturbed(t) ELSE SleepsRightly(t)'
    BY <1>4, <2>2, <2>3 DEF PutSleeps, Undisturbed
  <2> QED BY <1>4, <2>1, <2>4, Sleepers DEF SleepInv, PutSleeps, value
<1>5. ASSUME Close(w) PROVE SleepInv'
  <2>1. at[w] # "put" /\ at[w] # "off" /\ at'[w] # "off"
    BY <1>5 DEF Close, Goes, TypeOK
  <2>2. w \notin asleep /\ w \notin dozing
    BY <2>1, <1>0 DEF SleepInv, NoLostWakeUp, SleepsRightly
  <2>3. \A t \in Threads \ {w} : at'[t] = at[t]
    BY <1>5 DEF Close, Goes, TypeOK
  <2>4. Fresh'
    BY <1>5, <2>1, <2>3 DEF Close, CloseChain, SleepInv, Fresh, Threads
  <2>5. CASE w \in closed
    <3>1. UNCHANGED <<inner, asleep, value>>
      BY <1>5, <2>5 DEF Close, CloseChain, inner
    <3> QED BY <2>1, <2>2, <2>3, <3>1, Calm DEF value
  <2>6. CASE w \notin closed
    BY <1>5, <1>0, <2>4, <2>3, <2>6, AllWoken DEF Close, CloseChain, NotifyAll, value
  <2> QED BY <2>5, <2>6
<1>6. ASSUME Stop(w) PROVE SleepInv'
  <2>1. Fresh'
    BY <1>6 DEF Stop, CloseChain, SleepInv, Fresh
  <2> QED BY <1>6, <2>1, AllWoken DEF Stop, CloseChain, NotifyAll, value
<1>7. ASSUME NEW c \in Writers, Open(w, c) PROVE SleepInv'
  <2>1. Fresh'
    BY <1>7 DEF Open, SleepInv, Fresh, TypeOK
  <2>2. queue[c] = <<>> /\ c \notin closed /\ c \notin asleep /\ c \notin dozing
    BY <1>7, <1>0 DEF Open, SleepInv, Fresh, NoLostWakeUp, SleepsRightly
  <2>3. \A t \in Threads \ {c} : at'[t] = at[t]
    BY <1>7 DEF Open, TypeOK
  <2>4. chains \in Seq(Writers) /\ chains' = Append(chains, c)
    BY <1>7 DEF Open, TypeOK
  <2>5. /\ DOMAIN chains' = DOMAIN chains \cup {Len(chains) + 1}
        /\ \A i \in DOMAIN chains : chains'[i] = chains[i]
        /\ chains'[Len(chains) + 1] = c
    BY <2>4, AppendProperties
  <2>6. (Empty => Empty') /\ (AllClosed' => AllClosed) /\ State = State'
    BY <1>7, <2>2, <2>5 DEF Open, Empty, AllClosed, State
  <2>7. \A t \in asleep' : t \in asleep /\ Undisturbed(t)
    BY <1>7, <2>2, <2>3, <2>6 DEF Open, Undisturbed, TypeOK
  <2>8. \A r \in dozing' : r \in dozing /\ at'[r] = at[r] /\ pos' = pos /\ list' = list /\ tail' = tail
    BY <1>7, <1>0, <2>2, <2>3 DEF Open, value
  <2> QED BY <2>1, <2>7, <2>8, Sleepers DEF SleepInv
<1> QED BY <1>1, <1>2, <1>3, <1>4, <1>5, <1>6, <1>7 DEF Put

\* A step of a reader loses no wake-up.
LEMMA ReaderSleep ==
  ASSUME TypeOK, SleepInv, NEW r \in Readers
  PROVE  Uncons(r) \/ NextItem(r) \/ Publish(r) \/ Leave(r) => SleepInv'
<1> USE ThreadAssumption
<1>1. ASSUME UnconsCell(r) \/ UnconsEnd(r) \/ UnconsSleeps(r) \/ UnconsThunk(r) \/ Leave(r)
      PROVE  SleepInv'
  <2>1. /\ at[r] \in {"run", "cell"} /\ r \notin dozing
        /\ at'[r] \in Places \ {"off"}
        /\ \A s \in Threads \ {r} : at'[s] = at[s]
    <3>1. at[r] = "run" => r \notin dozing
      BY DEF SleepInv, NoLostWakeUp, DozesRightly
    <3> QED BY <1>1, <3>1
            DEF UnconsCell, UnconsEnd, UnconsSleeps, UnconsThunk, Leave, Looks, Goes, TypeOK, Places, value
  <2>2. r \notin asleep
    BY <2>1, KindAssumption DEF SleepInv, NoLostWakeUp, SleepsRightly
  <2>3. UNCHANGED <<inner, asleep>>
    BY <1>1 DEF UnconsCell, UnconsEnd, UnconsSleeps, UnconsThunk, Leave
  <2>4. r \in dozing' => DozesRightly(r)'
    BY <1>1, <2>1
       DEF UnconsCell, UnconsEnd, UnconsSleeps, UnconsThunk, Leave, DozesRightly, TypeOK, value
  <2>5. \A s \in dozing' \ {r} : s \in dozing /\ pos'[s] = pos[s] /\ list' = list /\ tail' = tail
    <3>1. dozing' \subseteq dozing \cup {r} /\ list' = list
      BY <1>1 DEF UnconsCell, UnconsEnd, UnconsSleeps, UnconsThunk, Leave, value
    <3>2. \A s \in Readers \ {r} : pos'[s] = pos[s]
      BY <1>1 DEF UnconsCell, UnconsEnd, UnconsSleeps, UnconsThunk, Leave, value, TypeOK
    <3>3. tail' = tail \/ dozing = {}
      BY <1>1 DEF UnconsCell, UnconsEnd, UnconsSleeps, UnconsThunk, Leave, value, SleepInv, NoLostWakeUp, DozesRightly
    <3> QED BY <3>1, <3>2, <3>3 DEF TypeOK
  <2> QED BY <2>1, <2>2, <2>3, <2>4, <2>5, Calm
<1>2. ASSUME NextElement(r) PROVE SleepInv'
  <2>1. PICK i \in 0 .. Len(chains) - 1 :
          First(i) /\ queue' = [queue EXCEPT ![chains[i + 1]] = Tail(@)]
    BY <1>2 DEF NextElement
  <2>2. queue[chains[i + 1]] # <<>>
    BY <2>1, Found
  <2>3. r \notin dozing /\ \A s \in Threads \ {r} : at'[s] = at[s]
    BY <1>2 DEF NextElement, Nexting, Goes, TypeOK, SleepInv, NoLostWakeUp, DozesRightly
  <2>4. Fresh'
    BY <1>2, <2>1, <2>2, <2>3 DEF NextElement, Goes, SleepInv, Fresh, TypeOK, Threads
  <2> QED BY <1>2, <2>3, <2>4, AllWoken DEF NextElement, NotifyAll, TypeOK
<1>3. ASSUME NextEnd(r) PROVE SleepInv'
  <2>1. r \notin dozing /\ r \notin asleep /\ at'[r] = "last" /\ \A s \in Threads \ {r} : at'[s] = at[s]
    BY <1>3 DEF NextEnd, Nexting, Goes, TypeOK, SleepInv, NoLostWakeUp, DozesRightly
  <2> QED BY <1>3, <2>1, Calm DEF NextEnd, Nexting, value
<1>4. ASSUME NextSleeps(r) PROVE SleepInv'
  <2>1. Fresh'
    BY <1>4 DEF NextSleeps, inner, SleepInv, Fresh
  <2>2. SleepsRightly(r)' /\ (Empty => Empty') /\ (AllClosed' => AllClosed) /\ State = State'
    BY <1>4 DEF NextSleeps, Nexting, SleepsRightly, Empty, AllClosed, State, inner
  <2>3. \A t \in asleep' : IF t \in asleep THEN Undisturbed(t) ELSE SleepsRightly(t)'
    BY <1>4, <2>2 DEF NextSleeps, Undisturbed, inner
  <2> QED BY <1>4, <2>1, <2>3, Sleepers DEF SleepInv, NextSleeps, value
<1>5. ASSUME Publish(r) PROVE SleepInv'
  <2>1. at[r] \in {"publish", "last"} /\ at'[r] = "run" /\ \A s \in Threads \ {r} : at'[s] = at[s]
    BY <1>5 DEF Publish, PublishElement, PublishEnd, Goes, TypeOK
  <2>2. r \notin asleep /\ r \notin dozing
    BY <2>1 DEF SleepInv, NoLostWakeUp, SleepsRightly, DozesRightly
  <2>3. UNCHANGED <<inner, asleep>> /\ dozing' = {}
    BY <1>5 DEF Publish, PublishElement, PublishEnd
  <2> QED BY <2>1, <2>2, <2>3, Calm
<1> QED BY <1>1, <1>2, <1>3, <1>4, <1>5 DEF Uncons, NextItem

\* A step of the Owner, of the thread of the $( ), or of a Condvar, loses none.
LEMMA OtherSleep ==
  ASSUME TypeOK, SleepInv
  PROVE  /\ SetDone \/ SettleBegin \/ Settle \/ Finish \/ StopOwner \/ Join => SleepInv'
         /\ \A t \in Threads : Spurious(t) => SleepInv'
<1> USE ThreadAssumption
<1>1. ASSUME SetDone PROVE SleepInv'
  <2>1. \A s \in Threads \ {Root} : at'[s] = at[s]
    BY <1>1 DEF SetDone, Goes, TypeOK
  <2>2. Fresh' /\ Root \notin dozing
    BY <1>1, <2>1 DEF SetDone, Goes, SleepInv, Fresh, TypeOK, Threads
  <2> QED BY <1>1, <2>1, <2>2, AllWoken DEF SetDone, NotifyAll, TypeOK, value
<1>2. ASSUME SettleBegin \/ Join \/ SettleEnds PROVE SleepInv'
  <2>1. /\ at[Owner] \in {"run", "join", "settle"} /\ at'[Owner] \in Places \ {"off"}
        /\ \A s \in Threads \ {Owner} : at'[s] = at[s]
    BY <1>2 DEF SettleBegin, Join, SettleEnds, Goes, TypeOK, Places
  <2>2. Owner \notin asleep /\ Owner \notin dozing
    BY <1>2, <2>1 DEF SettleBegin, Join, SettleEnds, Settling, Goes, SleepInv, NoLostWakeUp, SleepsRightly, DozesRightly
  <2>3. UNCHANGED <<inner, asleep, value>>
    BY <1>2 DEF SettleBegin, Join, SettleEnds
  <2> QED BY <2>1, <2>2, <2>3, Calm DEF value
<1>3. ASSUME SettleSleeps PROVE SleepInv'
  <2>1. Fresh'
    BY <1>3 DEF SettleSleeps, inner, SleepInv, Fresh
  <2>2. SleepsRightly(Owner)' /\ (Empty => Empty') /\ (AllClosed' => AllClosed) /\ State = State'
    BY <1>3 DEF SettleSleeps, Settling, SleepsRightly, Empty, AllClosed, State, inner
  <2>3. \A t \in asleep' : IF t \in asleep THEN Undisturbed(t) ELSE SleepsRightly(t)'
    BY <1>3, <2>2 DEF SettleSleeps, Undisturbed, inner
  <2> QED BY <1>3, <2>1, <2>3, Sleepers DEF SleepInv, SettleSleeps, value
<1>4. ASSUME Finish PROVE SleepInv'
  <2>1. /\ at[Owner] = "run" /\ at'[Owner] \in {"join", "end"}
        /\ \A s \in Threads \ {Owner} : at'[s] = at[s]
    BY <1>4 DEF Finish, Goes, TypeOK
  <2>2. Owner \notin asleep /\ Owner \notin dozing
    BY <2>1 DEF SleepInv, NoLostWakeUp, SleepsRightly, DozesRightly
  <2>3. Fresh'
    BY <1>4, <2>1 DEF Finish, SleepInv, Fresh, Threads
  <2>4. CASE Cancels
    BY <1>4, <2>1, <2>2, <2>3, <2>4, AllWoken DEF Finish, NotifyAll, value, TypeOK
  <2>5. CASE ~Cancels
    <3>1. cancelled' = cancelled
      BY <1>4, <2>5 DEF Finish, TypeOK
    <3> QED BY <1>4, <2>1, <2>2, <2>5, <3>1, Calm DEF Finish, inner, value
  <2> QED BY <2>4, <2>5
<1>5. ASSUME StopOwner PROVE SleepInv'
  <2>1. Fresh'
    BY <1>5 DEF StopOwner, SleepInv, Fresh
  <2> QED BY <1>5, <2>1, AllWoken DEF StopOwner, NotifyAll, value
<1>6. ASSUME NEW t \in Threads, Spurious(t) PROVE SleepInv'
  <2>1. Fresh' /\ (Empty => Empty') /\ (AllClosed' => AllClosed) /\ State = State'
    BY <1>6 DEF Spurious, inner, SleepInv, Fresh, Empty, AllClosed, State
  <2>2. \A s \in asleep' : s \in asleep /\ Undisturbed(s)
    BY <1>6, <2>1 DEF Spurious, Undisturbed, inner
  <2>3. \A s \in dozing' : s \in dozing /\ at' = at /\ pos' = pos /\ list' = list /\ tail' = tail
    BY <1>6 DEF Spurious, value
  <2> QED BY <2>1, <2>2, <2>3, Sleepers DEF SleepInv
<1> QED BY <1>1, <1>2, <1>3, <1>4, <1>5, <1>6 DEF Settle

\* No wake-up is lost: the notify_all calls of chan.rs and of value.rs are
\* enough, however many threads share the Condvar.
THEOREM ChanWakes == Spec => []NoLostWakeUp
<1>1. Init => SleepInv
  BY DEF Init, SleepInv, Fresh, NoLostWakeUp
<1>2. TypeOK /\ SleepInv /\ [Next]_vars => SleepInv'
  <2>1. TypeOK /\ SleepInv /\ UNCHANGED vars => SleepInv'
    BY DEF vars, inner, value, SleepInv, Fresh, NoLostWakeUp, SleepsRightly, DozesRightly,
           HasRoom, Empty, AllClosed, State
  <2> QED BY <2>1, WriterSleep, ReaderSleep, OtherSleep DEF Next, Ended
<1>3. SleepInv => NoLostWakeUp
  BY DEF SleepInv
<1> QED BY <1>1, <1>2, <1>3, ChanTypeCorrect, PTL DEF Spec

----------------------------------------------------------------------------
(***************************************************************************)
(* What settle calls blocked is blocked.                                   *)
(***************************************************************************)

\* A step of a writer: who waits has found its chain full, and is in put.
LEMMA WriterBlocked ==
  ASSUME TypeOK, BlockedIsRight, NEW w \in Writers
  PROVE  /\ PutBegin(w) \/ Put(w) \/ Close(w) \/ Stop(w) => BlockedIsRight'
         /\ \A c \in Writers : Open(w, c) => BlockedIsRight'
<1>1. ASSUME PutBegin(w) PROVE BlockedIsRight'
  BY <1>1 DEF PutBegin, Goes, inner, BlockedIsRight, HasRoom, TypeOK, Threads
<1>2. ASSUME PutFails(w) PROVE BlockedIsRight'
  BY <1>2 DEF PutFails, Aborts, Goes, BlockedIsRight, HasRoom, TypeOK, Threads
<1>3. ASSUME PutElement(w) PROVE BlockedIsRight'
  BY <1>3 DEF PutElement, Goes, BlockedIsRight, HasRoom, TypeOK, Threads
<1>4. ASSUME PutSleeps(w) PROVE BlockedIsRight'
  BY <1>4 DEF PutSleeps, Putting, BlockedIsRight, HasRoom
<1>5. ASSUME Close(w) PROVE BlockedIsRight'
  BY <1>5 DEF Close, CloseChain, Goes, BlockedIsRight, HasRoom, TypeOK, Threads
<1>6. ASSUME Stop(w) PROVE BlockedIsRight'
  BY <1>6 DEF Stop, CloseChain, BlockedIsRight, HasRoom
<1>7. ASSUME NEW c \in Writers, Open(w, c) PROVE BlockedIsRight'
  BY <1>7 DEF Open, BlockedIsRight, HasRoom, TypeOK, Threads
<1> QED BY <1>1, <1>2, <1>3, <1>4, <1>5, <1>6, <1>7 DEF Put

\* A step of a reader: the chain it takes from waits no longer.
LEMMA ReaderBlocked ==
  ASSUME TypeOK, BlockedIsRight, NEW r \in Readers
  PROVE  Uncons(r) \/ NextItem(r) \/ Publish(r) \/ Leave(r) => BlockedIsRight'
<1> USE ThreadAssumption
<1>1. ASSUME Uncons(r) \/ NextEnd(r) \/ NextSleeps(r) \/ Publish(r) \/ Leave(r) PROVE BlockedIsRight'
  <2>1. \A w \in Writers : at'[w] = at[w]
    BY <1>1 DEF Uncons, UnconsCell, UnconsEnd, UnconsSleeps, UnconsThunk, NextEnd, NextSleeps, Publish, PublishElement, PublishEnd, Leave, Goes, TypeOK
  <2>2. UNCHANGED inner
    BY <1>1 DEF Uncons, UnconsCell, UnconsEnd, UnconsSleeps, UnconsThunk, NextEnd, NextSleeps, Publish, PublishElement, PublishEnd, Leave
  <2> QED BY <2>1, <2>2 DEF inner, BlockedIsRight, HasRoom, TypeOK
<1>2. ASSUME NextElement(r) PROVE BlockedIsRight'
  <2>1. PICK i \in 0 .. Len(chains) - 1 :
          /\ First(i)
          /\ queue' = [queue EXCEPT ![chains[i + 1]] = Tail(@)]
          /\ waiting' = waiting \ {chains[i + 1]}
    BY <1>2 DEF NextElement, NoLongerWaiting
  <2>2. \A w \in Writers : at'[w] = at[w]
    BY <1>2 DEF NextElement, Goes, TypeOK
  <2> QED BY <1>2, <2>1, <2>2 DEF NextElement, BlockedIsRight, HasRoom, TypeOK
<1> QED BY <1>1, <1>2 DEF NextItem

\* Every step keeps what is blocked blocked.
LEMMA NextBlocked == TypeOK /\ BlockedIsRight /\ [Next]_vars => BlockedIsRight'
<1> SUFFICES ASSUME TypeOK, BlockedIsRight, [Next]_vars PROVE BlockedIsRight'
  OBVIOUS
<1> USE ThreadAssumption
<1>1. ASSUME UNCHANGED <<inner, at>> PROVE BlockedIsRight'
  BY <1>1 DEF inner, BlockedIsRight, HasRoom
<1>2. ASSUME SetDone PROVE BlockedIsRight'
  BY <1>2 DEF SetDone, Goes, BlockedIsRight, HasRoom, TypeOK, Threads
<1>3. ASSUME SettleBegin \/ Settle \/ Finish \/ StopOwner \/ Join PROVE BlockedIsRight'
  <2>1. \A w \in Writers : at'[w] = at[w]
    BY <1>3 DEF SettleBegin, Settle, SettleEnds, SettleSleeps, Finish, StopOwner, Join, Goes, TypeOK
  <2>2. UNCHANGED <<queue, closed, waiting>>
    BY <1>3 DEF SettleBegin, Settle, SettleEnds, SettleSleeps, Finish, StopOwner, Join, inner
  <2> QED BY <2>1, <2>2 DEF BlockedIsRight, HasRoom, TypeOK
<1>4. ASSUME NEW t \in Threads, Spurious(t) PROVE BlockedIsRight'
  BY <1>1, <1>4 DEF Spurious
<1> QED BY <1>1, <1>2, <1>3, <1>4, WriterBlocked, ReaderBlocked DEF Next, Ended, vars

\* The state "blocked" that settle reads is right: each writer that waits has a
\* full chain that is open, so nothing that was made room for is overlooked.
THEOREM ChanBlockedIsRight == Spec => []BlockedIsRight
<1>1. Init => BlockedIsRight
  BY DEF Init, BlockedIsRight
<1> QED BY <1>1, NextBlocked, ChanTypeCorrect, PTL DEF Spec

----------------------------------------------------------------------------
(***************************************************************************)
(* One reader evaluates the last cell.                                     *)
(***************************************************************************)

\* Nobody begins to evaluate, or stops: nothing changes in the cell.
LEMMA NoEvaluation ==
  ASSUME OneEvaluates, tail' = tail, \A r \in Readers : Evaluating(r)' <=> Evaluating(r)
  PROVE  OneEvaluates'
  BY DEF OneEvaluates

\* Every step keeps the evaluation of the last cell exclusive.
LEMMA NextEvaluates == TypeOK /\ NoLostWakeUp /\ OneEvaluates /\ [Next]_vars => OneEvaluates'
<1> SUFFICES ASSUME TypeOK, NoLostWakeUp, OneEvaluates, [Next]_vars PROVE OneEvaluates'
  OBVIOUS
<1> USE ThreadAssumption
<1>1. ASSUME UNCHANGED <<tail, at>> PROVE OneEvaluates'
  BY <1>1 DEF OneEvaluates, Evaluating
<1>2. ASSUME NEW w \in Writers, PutBegin(w) \/ Put(w) \/ Close(w) \/ Stop(w) \/ \E c \in Writers : Open(w, c)
      PROVE  OneEvaluates'
  <2>1. tail' = tail /\ \A r \in Readers : at'[r] = at[r]
    <3>1. CASE PutFails(w)
      BY <3>1 DEF PutFails, Aborts, Goes, value, TypeOK
    <3>2. CASE PutBegin(w) \/ PutElement(w) \/ PutSleeps(w) \/ Close(w) \/ Stop(w) \/ \E c \in Writers : Open(w, c)
      BY <3>2 DEF PutBegin, PutElement, PutSleeps, Close, Stop, Open, Goes, value, TypeOK
    <3> QED BY <1>2, <3>1, <3>2 DEF Put
  <2> QED BY <2>1, NoEvaluation DEF Evaluating
<1>3. ASSUME SetDone PROVE OneEvaluates'
  <2>1. tail' = tail /\ \A r \in Readers : at'[r] = at[r]
    BY <1>3 DEF SetDone, Goes, value, TypeOK
  <2> QED BY <2>1, NoEvaluation DEF Evaluating
<1>4. ASSUME SettleBegin \/ Settle \/ Finish \/ StopOwner \/ Join PROVE OneEvaluates'
  <2>1. tail' = tail /\ \A r \in Readers \ {Owner} : at'[r] = at[r]
    BY <1>4 DEF SettleBegin, Settle, SettleEnds, SettleSleeps, Finish, StopOwner, Join, Goes, value, TypeOK
  <2>2. at'[Owner] = at[Owner] \/ (~Evaluating(Owner) /\ ~Evaluating(Owner)')
    BY <1>4 DEF SettleBegin, Settle, SettleEnds, SettleSleeps, Finish, StopOwner, Join, Goes, TypeOK, Evaluating
  <2> QED BY <2>1, <2>2, NoEvaluation DEF Evaluating
<1>5. ASSUME NEW t \in Threads, Spurious(t) PROVE OneEvaluates'
  BY <1>1, <1>5 DEF Spurious, value
<1>6. ASSUME NEW r \in Readers, UnconsCell(r) \/ UnconsEnd(r) \/ UnconsSleeps(r) \/ Leave(r) PROVE OneEvaluates'
  <2>1. tail' = tail /\ \A s \in Readers \ {r} : at'[s] = at[s]
    BY <1>6 DEF UnconsCell, UnconsEnd, UnconsSleeps, Leave, Goes, value, TypeOK
  <2>2. ~Evaluating(r) /\ ~Evaluating(r)'
    BY <1>6 DEF UnconsCell, UnconsEnd, UnconsSleeps, Leave, Looks, Goes, TypeOK, Evaluating
  <2> QED BY <2>1, <2>2, NoEvaluation DEF Evaluating
<1>7. ASSUME NEW r \in Readers, UnconsThunk(r) PROVE OneEvaluates'
  <2>1. \A s \in Readers : ~Evaluating(s)
    BY <1>7 DEF UnconsThunk, OneEvaluates
  <2>2. \A s \in Readers : Evaluating(s)' <=> s = r
    BY <1>7, <2>1 DEF UnconsThunk, Evaluating, TypeOK
  <2> QED BY <1>7, <2>2 DEF UnconsThunk, OneEvaluates
<1>8. ASSUME NEW r \in Readers, NextItem(r) PROVE OneEvaluates'
  <2>1. tail' = tail /\ Evaluating(r) /\ Evaluating(r)' /\ \A s \in Readers \ {r} : at'[s] = at[s]
    BY <1>8 DEF NextItem, NextElement, NextEnd, NextSleeps, Nexting, Goes, value, Evaluating, TypeOK
  <2> QED BY <2>1, NoEvaluation DEF Evaluating
<1>9. ASSUME NEW r \in Readers, Publish(r) PROVE OneEvaluates'
  <2>1. Evaluating(r) /\ tail' # "busy"
    BY <1>9 DEF Publish, PublishElement, PublishEnd, Goes, Evaluating
  <2>2. \A s \in Readers : ~Evaluating(s)'
    BY <1>9, <2>1 DEF Publish, PublishElement, PublishEnd, Goes, Evaluating, OneEvaluates, TypeOK
  <2> QED BY <2>1, <2>2 DEF OneEvaluates
<1> QED BY <1>1, <1>2, <1>3, <1>4, <1>5, <1>6, <1>7, <1>8, <1>9 DEF Next, Ended, Uncons, vars, value

\* The last cell of the LazyList is evaluated by one thread, however many
\* threads read it: next is never called by two of them at once.
THEOREM ChanOneEvaluates == Spec => []OneEvaluates
<1>1. Init => OneEvaluates
  BY ThreadAssumption DEF Init, OneEvaluates, Evaluating
<1> QED BY <1>1, NextEvaluates, ChanTypeCorrect, ChanWakes, PTL DEF Spec

----------------------------------------------------------------------------
(***************************************************************************)
(* The channel implements Fifo.  kill (vproc_stop) closes the chain of a   *)
(* thread that goes on, which may then open a chain after the end.         *)
(***************************************************************************)

\* What the elements of a chain are, and when it is closed.
Counts ==
  \A w \in Writers :
    /\ Len(queue[w]) <= Cap /\ Len(queue[w]) <= sent[w]
    /\ \A k \in 1 .. Len(queue[w]) : queue[w][k] = sent[w] - Len(queue[w]) + k

Chains ==
  /\ \A w \in Writers : w \in Made <=> at[w] # "off"
  /\ \A w \in Writers : at[w] = "off" => queue[w] = <<>>
  /\ \A w \in closed : w \in Made /\ (Kills \/ at[w] \in {"closed", "end"})

\* What the end is: every chain is closed and empty, for ever.
Ending == IsEnd /\ ~Kills => AllClosed /\ Empty

InHand == hand # <<>> => \E r \in Readers : at[r] = "publish"

FifoInv == Counts /\ Chains /\ Ending /\ InHand

\* Initially.
LEMMA InitFifo == Init => FifoInv
<1> SUFFICES ASSUME Init PROVE FifoInv
  OBVIOUS
<1> USE ThreadAssumption, CapAssumption
<1>1. Counts
  BY DEF Init, Counts
<1>2. Made = {Root}
  BY DEF Init, Made, Range
<1>3. Chains
  BY <1>2 DEF Init, Chains, Threads
<1>4. Ending /\ InHand
  BY DEF Init, Ending, IsEnd, InHand
<1> QED BY <1>1, <1>3, <1>4 DEF FifoInv

\* The parts of FifoInv that a step leaves alone.
LEMMA SameCounts == Counts /\ UNCHANGED <<queue, sent>> => Counts'
  BY DEF Counts

LEMMA SameMade == UNCHANGED chains => Made' = Made
  BY DEF Made, Range

LEMMA SameChains ==
  ASSUME TypeOK, Chains, UNCHANGED <<chains, queue, closed>>,
         \A w \in Writers : at'[w] = at[w] \/ (at[w] \notin {"off", "closed", "end"} /\ at'[w] # "off")
  PROVE  Chains'
  BY SameMade DEF Chains, TypeOK

LEMMA SameEnding ==
  ASSUME Ending, UNCHANGED <<chains, queue, closed, tail>>, \A r \in Readers : at'[r] = "last" => at[r] = "last"
  PROVE  Ending'
  BY DEF Ending, IsEnd, AllClosed, Empty

LEMMA SameHand ==
  ASSUME InHand, UNCHANGED hand, \A r \in Readers : at[r] = "publish" => at'[r] = "publish"
  PROVE  InHand'
  BY DEF InHand

\* Adding a writer to Inner.chains.
LEMMA AddedChain ==
  ASSUME TypeOK, NEW c \in Writers, chains' = Append(chains, c)
  PROVE  Made' = Made \cup {c}
<1>1. /\ DOMAIN chains' = DOMAIN chains \cup {Len(chains) + 1}
      /\ \A i \in DOMAIN chains : chains'[i] = chains[i]
      /\ chains'[Len(chains) + 1] = c
  <2>1. chains \in Seq(Writers)
    BY DEF TypeOK
  <2> QED BY <2>1, AppendProperties
<1>2. \A x : x \in Made <=> \E i \in DOMAIN chains : x = chains[i]
  BY DEF Made, Range
<1>3. \A x : x \in Made' <=> \E i \in DOMAIN chains' : x = chains'[i]
  BY DEF Made, Range
<1>4. \A x : x \in Made' <=> x \in Made \/ x = c
  BY <1>1, <1>2, <1>3
<1> QED BY <1>4

\* A writer with a chain that is not closed has not reached the end.
LEMMA NotEnded ==
  ASSUME Chains, Ending, NEW w \in Writers, at[w] # "off", w \notin closed
  PROVE  Kills \/ ~IsEnd
<1>1. w \in Made
  BY DEF Chains
<1> QED BY <1>1 DEF Made, Range, Ending, AllClosed

\* A step of a writer keeps FifoInv, and is a step of Fifo or a stutter.
LEMMA WriterFifo ==
  ASSUME TypeOK, OneEvaluates, FifoInv, NEW w \in Writers
  PROVE  /\ PutBegin(w) \/ Put(w) \/ Close(w) \/ Stop(w) => FifoInv' /\ [Channel!Next]_(Channel!vars)
         /\ \A c \in Writers : Open(w, c) => FifoInv' /\ [Channel!Next]_(Channel!vars)
<1> USE ThreadAssumption
<1>0. Counts /\ Chains /\ Ending /\ InHand
  BY DEF FifoInv
<1>1. ASSUME PutBegin(w) \/ PutFails(w) \/ PutSleeps(w)
      PROVE  FifoInv' /\ [Channel!Next]_(Channel!vars)
  <2>1. UNCHANGED <<chains, queue, closed, sent, value>>
    BY <1>1 DEF PutBegin, PutFails, PutSleeps, inner
  <2>2. /\ at[w] \in {"run", "put"} /\ at'[w] \in {"run", "put", "ending"}
        /\ \A t \in Threads \ {w} : at'[t] = at[t]
    <3>1. CASE PutBegin(w)
      BY <3>1 DEF PutBegin, Goes, TypeOK
    <3>2. CASE PutFails(w)
      BY <3>2 DEF PutFails, Aborts, Goes, TypeOK
    <3>3. CASE PutSleeps(w)
      BY <3>3 DEF PutSleeps, Putting
    <3> QED BY <1>1, <3>1, <3>2, <3>3
  <2>3. \A r \in Readers : at'[r] = at[r]
    BY <2>2
  <2>4. Counts' /\ Chains' /\ Ending' /\ InHand'
    BY <1>0, <2>1, <2>2, <2>3, SameCounts, SameChains, SameEnding, SameHand DEF value
  <2>5. UNCHANGED Channel!vars
    BY <2>1, <2>3, SameMade DEF Channel!vars, IsEnd, value
  <2> QED BY <2>4, <2>5 DEF FifoInv
<1>2. ASSUME PutElement(w) PROVE FifoInv' /\ [Channel!Next]_(Channel!vars)
  <2>1. /\ at[w] = "put" /\ at'[w] = "run" /\ w \notin closed /\ Len(queue[w]) < Cap
        /\ \A t \in Threads \ {w} : at'[t] = at[t]
    BY <1>2 DEF PutElement, HasRoom, Goes, TypeOK
  <2>2. \A r \in Readers : at'[r] = at[r]
    BY <2>1
  <2>3. /\ queue' = [queue EXCEPT ![w] = Append(@, sent[w] + 1)]
        /\ sent' = [sent EXCEPT ![w] = @ + 1]
        /\ UNCHANGED <<chains, closed, value>>
    BY <1>2 DEF PutElement
  <2>4. /\ queue[w] \in Seq(Nat) /\ Len(queue[w]) \in Nat /\ sent[w] \in Nat
        /\ queue'[w] = Append(queue[w], sent[w] + 1) /\ sent'[w] = sent[w] + 1
        /\ \A v \in Writers \ {w} : queue'[v] = queue[v] /\ sent'[v] = sent[v]
    BY <2>3 DEF TypeOK
  <2>5. /\ Len(queue'[w]) = Len(queue[w]) + 1
        /\ \A k \in 1 .. Len(queue[w]) : queue'[w][k] = queue[w][k]
        /\ queue'[w][Len(queue[w]) + 1] = sent[w] + 1
    BY <2>4, AppendProperties
  <2>6. Counts'
    <3>1. ASSUME NEW k \in 1 .. Len(queue'[w]) PROVE queue'[w][k] = sent'[w] - Len(queue'[w]) + k
      <4>1. CASE k = Len(queue[w]) + 1
        BY <4>1, <2>4, <2>5
      <4>2. CASE k # Len(queue[w]) + 1
        <5>1. k \in 1 .. Len(queue[w])
          BY <4>2, <2>4, <2>5
        <5>2. queue[w][k] = sent[w] - Len(queue[w]) + k
          BY <5>1, <1>0 DEF Counts
        <5> QED BY <5>1, <5>2, <2>4, <2>5
      <4> QED BY <4>1, <4>2
    <3>2. Len(queue'[w]) <= Cap /\ Len(queue'[w]) <= sent'[w]
      BY <1>0, <2>1, <2>4, <2>5, CapAssumption DEF Counts
    <3>3. \A v \in Writers \ {w} :
            /\ Len(queue'[v]) <= Cap /\ Len(queue'[v]) <= sent'[v]
            /\ \A k \in 1 .. Len(queue'[v]) : queue'[v][k] = sent'[v] - Len(queue'[v]) + k
      BY <1>0, <2>4 DEF Counts
    <3> QED BY <3>1, <3>2, <3>3 DEF Counts
  <2>7. Chains'
    BY <1>0, <2>1, <2>3, <2>4, SameMade, ZenonT(60) DEF Chains, TypeOK
  <2>8. IsEnd' = IsEnd /\ (Kills \/ ~IsEnd)
    BY <1>0, <2>1, <2>2, <2>3, NotEnded DEF IsEnd, value
  <2>9. InHand' /\ Ending'
    BY <1>0, <2>2, <2>3, <2>8, SameHand DEF value, Ending
  <2>10. Channel!Put(w)
    <3>1. [v \in Writers |-> sent'[v] - Len(queue'[v])] = [v \in Writers |-> sent[v] - Len(queue[v])]
      <4>1. \A v \in Writers \ {w} : sent'[v] - Len(queue'[v]) = sent[v] - Len(queue[v])
        BY <2>4
      <4>2. sent'[w] - Len(queue'[w]) = sent[w] - Len(queue[w])
        BY <2>4, <2>5
      <4> QED BY <4>1, <4>2
    <3>2. w \in Made \ closed
      BY <1>0, <2>1 DEF Chains
    <3>3. sent[w] < sent[w] - Len(queue[w]) + Cap
      BY <2>1, <2>4, CapAssumption
    <3>4. UNCHANGED <<Made, closed, list \o hand, IsEnd>>
      BY <2>3, <2>8, SameMade DEF value
    <3> QED BY <2>3, <3>1, <3>2, <3>3, <3>4 DEF Channel!Put
  <2> QED BY <2>6, <2>7, <2>9, <2>10 DEF FifoInv, Channel!Next
<1>3. ASSUME Close(w) PROVE FifoInv' /\ [Channel!Next]_(Channel!vars)
  <2>1. /\ at[w] \in {"run", "ending"} /\ at'[w] \in {"closed", "end"}
        /\ \A t \in Threads \ {w} : at'[t] = at[t]
    BY <1>3 DEF Close, Goes, TypeOK
  <2>2. \A r \in Readers : at'[r] = at[r]
    BY <2>1
  <2>3. w \in Made /\ (Kills \/ w \notin closed)
    BY <1>0, <2>1 DEF Chains
  <2>4. closed' = closed \cup {w} /\ UNCHANGED <<chains, queue, sent, value>>
    BY <1>3 DEF Close, CloseChain
  <2>5. Counts' /\ InHand'
    BY <1>0, <2>2, <2>4, SameCounts, SameHand DEF value
  <2>6. Chains'
    BY <1>0, <2>1, <2>3, <2>4, SameMade DEF Chains, TypeOK
  <2>7. IsEnd' = IsEnd /\ (Kills \/ ~IsEnd)
    BY <1>0, <2>1, <2>2, <2>3, <2>4, NotEnded DEF IsEnd, value
  <2>8. [Channel!Close(w)]_(Channel!vars)
    <3>1. UNCHANGED <<Made, list \o hand, IsEnd>>
      BY <2>4, <2>7, SameMade DEF value
    <3>2. CASE w \in closed
      BY <2>4, <3>1, <3>2 DEF Channel!vars
    <3>3. CASE w \notin closed
      BY <2>3, <2>4, <3>1, <3>3 DEF Channel!Close
    <3> QED BY <3>2, <3>3
  <2> QED BY <2>5, <2>6, <2>7, <2>8 DEF FifoInv, Ending, Channel!Next
<1>4. ASSUME Stop(w) PROVE FifoInv' /\ [Channel!Next]_(Channel!vars)
  <2>1. Kills /\ w \in Made \ closed /\ UNCHANGED at
    BY <1>4 DEF Stop, Made
  <2>2. closed' = closed \cup {w} /\ UNCHANGED <<chains, queue, sent, value>>
    BY <1>4, <2>1 DEF Stop, CloseChain
  <2>3. Counts' /\ InHand'
    BY <1>0, <2>1, <2>2, SameCounts, SameHand DEF value
  <2>4. Chains' /\ Ending'
    BY <1>0, <2>1, <2>2, SameMade DEF Chains, Ending
  <2>5. Channel!Close(w)
    BY <2>1, <2>2, SameMade DEF Channel!Close, value, IsEnd
  <2> QED BY <2>3, <2>4, <2>5 DEF FifoInv, Channel!Next
<1>5. ASSUME NEW c \in Writers, Open(w, c) PROVE FifoInv' /\ [Channel!Next]_(Channel!vars)
  <2>1. /\ at[w] = "run" /\ at[c] = "off" /\ at'[c] = "run"
        /\ \A t \in Threads \ {c} : at'[t] = at[t]
    BY <1>5 DEF Open, TypeOK
  <2>2. \A r \in Readers : at'[r] = at[r]
    BY <2>1
  <2>3. chains' = Append(chains, c) /\ UNCHANGED <<queue, closed, sent, value>>
    BY <1>5 DEF Open
  <2>4. Made' = Made \cup {c} /\ c \notin Made
    BY <1>0, <2>1, <2>3, AddedChain DEF Chains
  <2>5. Counts' /\ InHand'
    BY <1>0, <2>2, <2>3, SameCounts, SameHand DEF value
  <2>6. Chains'
    BY <1>0, <2>1, <2>3, <2>4 DEF Chains, TypeOK
  <2>7. IsEnd' = IsEnd /\ (Kills \/ ~IsEnd)
    <3>1. Kills \/ w \notin closed
      BY <1>0, <2>1 DEF Chains
    <3>2. Kills \/ ~IsEnd
      BY <1>0, <2>1, <3>1, NotEnded
    <3> QED BY <3>2, <2>2, <2>3 DEF IsEnd, value
  <2>8. Channel!Open(c)
    <3>1. UNCHANGED <<list \o hand, IsEnd>>
      BY <2>3, <2>7 DEF value
    <3> QED BY <2>3, <2>4, <2>7, <3>1 DEF Channel!Open
  <2> QED BY <2>5, <2>6, <2>7, <2>8 DEF FifoInv, Ending, Channel!Next
<1> QED BY <1>1, <1>2, <1>3, <1>4, <1>5 DEF Put

\* So does a step of a reader.
LEMMA ReaderFifo ==
  ASSUME TypeOK, OneEvaluates, FifoInv, NEW r \in Readers
  PROVE  Uncons(r) \/ NextItem(r) \/ Publish(r) \/ Leave(r) => FifoInv' /\ [Channel!Next]_(Channel!vars)
<1> USE ThreadAssumption
<1>0. Counts /\ Chains /\ Ending /\ InHand
  BY DEF FifoInv
<1>1. ASSUME UnconsCell(r) \/ UnconsEnd(r) \/ UnconsSleeps(r) \/ UnconsThunk(r) \/ NextSleeps(r) \/ Leave(r)
      PROVE  FifoInv' /\ [Channel!Next]_(Channel!vars)
  <2>1. UNCHANGED <<chains, queue, closed, sent, list, hand>>
    BY <1>1 DEF UnconsCell, UnconsEnd, UnconsSleeps, UnconsThunk, NextSleeps, Leave, inner, value
  <2>2. \A t \in Threads \ {r} : at'[t] = at[t]
    BY <1>1 DEF UnconsCell, UnconsEnd, UnconsSleeps, UnconsThunk, NextSleeps, Leave, Goes, TypeOK
  <2>3. at[r] \in {"run", "cell", "next"} /\ at'[r] \in {"run", "cell", "next", "end"}
    BY <1>1 DEF UnconsCell, UnconsEnd, UnconsSleeps, UnconsThunk, NextSleeps, Nexting, Looks, Leave, Goes, TypeOK
  <2>4. tail' = tail \/ (tail = "thunk" /\ tail' = "busy")
    BY <1>1 DEF UnconsCell, UnconsEnd, UnconsSleeps, UnconsThunk, NextSleeps, Leave, value
  <2>5. Counts' /\ InHand'
    BY <1>0, <2>1, <2>2, <2>3, SameCounts, SameHand
  <2>6. Chains'
    BY <1>0, <2>1, <2>2, SameChains
  <2>7. IsEnd' = IsEnd
    BY <2>2, <2>3, <2>4 DEF IsEnd
  <2>8. Ending'
    BY <1>0, <2>1, <2>7 DEF Ending, AllClosed, Empty
  <2>9. UNCHANGED Channel!vars
    BY <2>1, <2>7, SameMade DEF Channel!vars
  <2> QED BY <2>5, <2>6, <2>8, <2>9 DEF FifoInv
<1>2. ASSUME NextEnd(r) PROVE FifoInv' /\ [Channel!Next]_(Channel!vars)
  <2>1. UNCHANGED <<chains, queue, closed, sent, list, hand, tail>> /\ Empty /\ AllClosed
    BY <1>2 DEF NextEnd, inner, value
  <2>2. at[r] = "next" /\ at'[r] = "last" /\ \A t \in Threads \ {r} : at'[t] = at[t]
    BY <1>2 DEF NextEnd, Goes, TypeOK
  <2>3. Counts' /\ InHand'
    BY <1>0, <2>1, <2>2, SameCounts, SameHand
  <2>4. Chains'
    BY <1>0, <2>1, <2>2, SameChains
  <2>5. Ending'
    BY <2>1 DEF Ending, AllClosed, Empty
  <2>6. \A w \in Writers : queue[w] = <<>>
    BY <1>0, <2>1 DEF Chains, Empty, Made, Range
  <2>7. Made = closed
    BY <1>0, <2>1 DEF Chains, AllClosed, Made, Range
  <2>8. [w \in Writers |-> sent[w] - Len(queue[w])] = sent
    <3>1. \A w \in Writers : sent[w] - Len(queue[w]) = sent[w]
      BY <2>6 DEF TypeOK
    <3> QED BY <3>1 DEF TypeOK
  <2>9. IsEnd'
    BY <2>2 DEF IsEnd
  <2>10. UNCHANGED [w \in Writers |-> sent[w] - Len(queue[w])]
    BY <2>1
  <2>11. Channel!End
    <3>1. IsEnd' = TRUE
      BY <2>9 DEF IsEnd
    <3> QED BY <2>1, <2>7, <2>8, <2>10, <3>1, SameMade DEF Channel!End
  <2> QED BY <2>3, <2>4, <2>5, <2>11 DEF FifoInv, Channel!Next
<1>3. ASSUME PublishElement(r) \/ PublishEnd(r) PROVE FifoInv' /\ [Channel!Next]_(Channel!vars)
  <2>1. UNCHANGED <<chains, queue, closed, sent>>
    BY <1>3 DEF PublishElement, PublishEnd, inner
  <2>2. at[r] \in {"publish", "last"} /\ at'[r] = "run" /\ \A t \in Threads \ {r} : at'[t] = at[t]
    BY <1>3 DEF PublishElement, PublishEnd, Goes, TypeOK
  <2>3. tail = "busy" /\ \A s \in Readers \ {r} : at[s] \notin {"publish", "last"}
    BY <2>2 DEF OneEvaluates, Evaluating
  <2>4. (at[r] = "last" => hand = <<>>) /\ hand' = <<>>
    BY <1>0, <1>3, <2>2, <2>3 DEF InHand, PublishElement, PublishEnd, Goes
  <2>5. Counts' /\ Chains' /\ InHand'
    BY <1>0, <2>1, <2>2, <2>4, SameCounts, SameChains DEF InHand
  <2>6. IsEnd' = IsEnd
    BY <1>3, <2>2, <2>3 DEF IsEnd, PublishElement, PublishEnd, Goes
  <2>7. Ending'
    BY <1>0, <2>1, <2>6 DEF Ending, AllClosed, Empty
  <2>8. list' \o hand' = list \o hand
    <3>1. list \in Seq(Writers \X Nat) /\ hand \in Seq(Writers \X Nat) /\ list \o hand \in Seq(Writers \X Nat)
      BY ConcatProperties DEF TypeOK
    <3>2. CASE PublishElement(r)
      BY <2>4, <3>1, <3>2, ConcatEmptySeq DEF PublishElement
    <3>3. CASE PublishEnd(r)
      BY <3>3 DEF PublishEnd
    <3> QED BY <1>3, <3>2, <3>3
  <2>9. UNCHANGED Channel!vars
    BY <2>1, <2>6, <2>8, SameMade DEF Channel!vars
  <2> QED BY <2>5, <2>7, <2>9 DEF FifoInv
<1>4. ASSUME NextElement(r) PROVE FifoInv' /\ [Channel!Next]_(Channel!vars)
  <2>1. PICK w \in Writers :
          /\ w \in Made /\ queue[w] # <<>>
          /\ hand' = <<<<w, Head(queue[w])>>>>
          /\ queue' = [queue EXCEPT ![w] = Tail(@)]
    <3>1. PICK i \in 0 .. Len(chains) - 1 :
            /\ First(i)
            /\ hand' = <<<<chains[i + 1], Head(queue[chains[i + 1]])>>>>
            /\ queue' = [queue EXCEPT ![chains[i + 1]] = Tail(@)]
      BY <1>4 DEF NextElement
    <3> QED BY <3>1, Found
  <2>2. w \in Made /\ queue[w] # <<>>
    BY <2>1
  <2>3. UNCHANGED <<chains, closed, sent, list, tail>>
    BY <1>4 DEF NextElement
  <2>4. at[r] = "next" /\ at'[r] = "publish" /\ \A t \in Threads \ {r} : at'[t] = at[t]
    BY <1>4 DEF NextElement, Goes, TypeOK
  <2>5. hand = <<>> /\ tail = "busy"
    BY <1>0, <2>4 DEF InHand, OneEvaluates, Evaluating
  <2>6. ~IsEnd /\ ~IsEnd'
    BY <2>3, <2>4, <2>5 DEF IsEnd, OneEvaluates, Evaluating
  <2>8. /\ queue[w] \in Seq(Nat) /\ sent[w] \in Nat /\ queue'[w] = Tail(queue[w])
        /\ \A v \in Writers \ {w} : queue'[v] = queue[v]
    BY <2>1 DEF TypeOK
  <2>9. /\ Len(queue[w]) \in Nat \ {0} /\ Len(queue'[w]) = Len(queue[w]) - 1
        /\ Head(queue[w]) = queue[w][1]
        /\ \A k \in 1 .. Len(queue'[w]) : queue'[w][k] = queue[w][k + 1]
    BY <2>2, <2>8, HeadTailProperties, EmptySeq
  <2>10. Counts'
    <3>1. /\ Len(queue'[w]) <= Cap /\ Len(queue'[w]) <= sent'[w]
          /\ \A k \in 1 .. Len(queue'[w]) : queue'[w][k] = sent'[w] - Len(queue'[w]) + k
      <4>1. /\ Len(queue[w]) <= Cap /\ Len(queue[w]) <= sent[w]
            /\ \A k \in 1 .. Len(queue[w]) : queue[w][k] = sent[w] - Len(queue[w]) + k
        BY <1>0, <2>2 DEF Counts
      <4>2. Len(queue'[w]) <= Cap /\ Len(queue'[w]) <= sent'[w]
        BY <2>3, <2>8, <2>9, <4>1, CapAssumption
      <4>3. ASSUME NEW k \in 1 .. Len(queue'[w]) PROVE queue'[w][k] = sent'[w] - Len(queue'[w]) + k
        <5>1. k + 1 \in 1 .. Len(queue[w])
          BY <2>9
        <5>2. queue[w][k + 1] = sent[w] - Len(queue[w]) + (k + 1)
          BY <4>1, <5>1
        <5>3. queue'[w][k] = queue[w][k + 1]
          BY <2>9
        <5>4. k \in Int /\ sent[w] \in Int /\ sent'[w] = sent[w] /\ Len(queue[w]) \in Int
          BY <2>3, <2>8, <2>9
        <5>5. Len(queue'[w]) = Len(queue[w]) - 1
          BY <2>9
        <5>6. sent[w] - Len(queue[w]) + (k + 1) = sent[w] - (Len(queue[w]) - 1) + k
          BY <5>4
        <5> QED BY <5>2, <5>3, <5>4, <5>5, <5>6
      <4> QED BY <4>2, <4>3
    <3>2. \A v \in Writers \ {w} :
            /\ Len(queue'[v]) <= Cap /\ Len(queue'[v]) <= sent'[v]
            /\ \A k \in 1 .. Len(queue'[v]) : queue'[v][k] = sent'[v] - Len(queue'[v]) + k
      BY <1>0, <2>3, <2>8 DEF Counts
    <3> QED BY <3>1, <3>2 DEF Counts
  <2>11. Chains'
    BY <1>0, <2>2, <2>3, <2>4, <2>8, SameMade DEF Chains, TypeOK
  <2>12. InHand' /\ Ending'
    BY <2>4, <2>6 DEF InHand, Ending
  <2>13. Channel!Take(w)
    <3>1. Head(queue[w]) = sent[w] - Len(queue[w]) + 1
      BY <1>0, <2>2, <2>9 DEF Counts
    <3>2. list' \o hand' = Append(list \o hand, <<w, sent[w] - Len(queue[w]) + 1>>)
      <4>1. list \in Seq(Writers \X Nat) /\ list \o hand = list /\ list' = list
        BY <2>3, <2>5, ConcatEmptySeq DEF TypeOK
      <4> QED BY <4>1, <2>1, <3>1
    <3>3. \A v \in Writers \ {w} : sent'[v] - Len(queue'[v]) = sent[v] - Len(queue[v])
      BY <2>3, <2>8
    <3>4. sent'[w] - Len(queue'[w]) = sent[w] - Len(queue[w]) + 1
      BY <2>3, <2>8, <2>9
    <3>5. [v \in Writers |-> sent'[v] - Len(queue'[v])]
            = [[v \in Writers |-> sent[v] - Len(queue[v])] EXCEPT ![w] = @ + 1]
      BY <2>2, <3>3, <3>4
    <3>6. sent[w] - Len(queue[w]) < sent[w]
      BY <2>8, <2>9
    <3>7. UNCHANGED <<Made, closed, sent, IsEnd>>
      BY <2>3, <2>6, SameMade DEF IsEnd
    <3>8. [v \in Writers |-> sent[v] - Len(queue[v])][w] = sent[w] - Len(queue[w])
      BY <2>2
    <3> DEFINE taken == [v \in Writers |-> sent[v] - Len(queue[v])]
    <3>9. taken[w] < sent[w] /\ (list \o hand)' = Append(list \o hand, <<w, taken[w] + 1>>)
      BY <3>2, <3>6, <3>8
    <3>10. taken' = [taken EXCEPT ![w] = taken[w] + 1]
      BY <3>5
    <3>11. ~IsEnd /\ UNCHANGED <<Made, closed, sent, IsEnd>>
      BY <2>6, <3>7
    <3> QED BY <3>9, <3>10, <3>11 DEF Channel!Take, taken
  <2> QED BY <2>10, <2>11, <2>12, <2>13 DEF FifoInv, Channel!Next
<1> QED BY <1>1, <1>2, <1>3, <1>4 DEF Uncons, NextItem, Publish

\* So does a step of the Owner, of the thread of the $( ), or of a Condvar.
LEMMA OtherFifo ==
  ASSUME TypeOK, OneEvaluates, FifoInv
  PROVE  /\ SetDone \/ SettleBegin \/ Settle \/ Finish \/ StopOwner \/ Join
              => FifoInv' /\ UNCHANGED Channel!vars
         /\ \A t \in Threads : Spurious(t) => FifoInv' /\ UNCHANGED Channel!vars
<1> USE ThreadAssumption
<1>0. Counts /\ Chains /\ Ending /\ InHand
  BY DEF FifoInv
<1>1. ASSUME UNCHANGED <<chains, queue, closed, sent, list, hand, tail>>,
             \A w \in Writers : at'[w] = at[w] \/ (at[w] \in {"closed", "end"} /\ at'[w] \in {"closed", "end"}),
             \A r \in Readers : at'[r] = at[r] \/ (at[r] \notin {"publish", "last"} /\ at'[r] \notin {"publish", "last"})
      PROVE  FifoInv' /\ UNCHANGED Channel!vars
  <2>1. Counts' /\ InHand'
    BY <1>0, <1>1, SameCounts, SameHand
  <2>2. Chains'
    BY <1>0, <1>1, SameMade DEF Chains, TypeOK
  <2>3. IsEnd' = IsEnd
    BY <1>1 DEF IsEnd
  <2>4. Ending'
    BY <1>0, <1>1, <2>3 DEF Ending, AllClosed, Empty
  <2> QED BY <1>1, <2>1, <2>2, <2>3, <2>4, SameMade DEF Channel!vars, FifoInv
<1>2. ASSUME SetDone PROVE FifoInv' /\ UNCHANGED Channel!vars
  <2>1. \A t \in Threads \ {Root} : at'[t] = at[t]
    BY <1>2 DEF SetDone, Goes, TypeOK
  <2>2. at[Root] = "closed" /\ at'[Root] = "end"
    BY <1>2 DEF SetDone, Goes, TypeOK
  <2> QED BY <1>1, <1>2, <2>1, <2>2 DEF SetDone, value
<1>3. ASSUME SettleBegin \/ Settle \/ Finish \/ StopOwner \/ Join PROVE FifoInv' /\ UNCHANGED Channel!vars
  <2>1. \A t \in Threads \ {Owner} : at'[t] = at[t]
    BY <1>3 DEF SettleBegin, Settle, SettleEnds, SettleSleeps, Finish, StopOwner, Join, Goes, TypeOK
  <2>2. at'[Owner] = at[Owner] \/ (at[Owner] \notin {"publish", "last"} /\ at'[Owner] \notin {"publish", "last"})
    BY <1>3 DEF SettleBegin, Settle, SettleEnds, SettleSleeps, Finish, StopOwner, Join, Goes, TypeOK
  <2>3. UNCHANGED <<chains, queue, closed, sent, list, hand, tail>>
    BY <1>3 DEF SettleBegin, Settle, SettleEnds, SettleSleeps, Finish, StopOwner, Join, inner, value
  <2> QED BY <1>1, <2>1, <2>2, <2>3
<1>4. ASSUME NEW t \in Threads, Spurious(t) PROVE FifoInv' /\ UNCHANGED Channel!vars
  BY <1>1, <1>4 DEF Spurious, inner, value
<1> QED BY <1>2, <1>3, <1>4

\* Every step of a ConSh channel is a step of the abstract channel: each element
\* is read once, in the order of its writer, no writer is more than Cap ahead,
\* nothing is read after the end and, without kill, nothing opened.
THEOREM ChanIsFifo == Spec => IsFifo
<1>1. Init => Channel!Init
  <2> SUFFICES ASSUME Init PROVE Channel!Init
    OBVIOUS
  <2>1. Made = {Root}
    BY DEF Init, Made, Range
  <2>2. IsEnd = FALSE
    BY ThreadAssumption DEF Init, IsEnd
  <2>3. [w \in Writers |-> sent[w] - Len(queue[w])] = [w \in Writers |-> 0]
    BY DEF Init
  <2>4. list \o hand = <<>>
    BY DEF Init
  <2> QED BY <2>1, <2>2, <2>3, <2>4 DEF Init, Channel!Init
<1>2. TypeOK /\ OneEvaluates /\ FifoInv /\ [Next]_vars => FifoInv' /\ [Channel!Next]_(Channel!vars)
  <2> SUFFICES ASSUME TypeOK, OneEvaluates, FifoInv, [Next]_vars
               PROVE  FifoInv' /\ [Channel!Next]_(Channel!vars)
    OBVIOUS
  <2>1. CASE UNCHANGED vars
    <3>1. UNCHANGED <<chains, queue, closed, sent, list, hand, tail, at>>
      BY <2>1 DEF vars, inner, value
    <3>2. Counts' /\ InHand' /\ Chains' /\ IsEnd' = IsEnd
      BY <3>1, SameCounts, SameHand, SameMade DEF FifoInv, Chains, IsEnd
    <3>3. Ending'
      BY <3>1, <3>2 DEF FifoInv, Ending, AllClosed, Empty
    <3> QED BY <3>1, <3>2, <3>3, SameMade DEF FifoInv, Channel!vars
  <2>2. CASE Next
    BY <2>1, <2>2, WriterFifo, ReaderFifo, OtherFifo DEF Next, Ended
  <2> QED BY <2>1, <2>2
<1> QED BY <1>1, <1>2, InitFifo, ChanTypeCorrect, ChanOneEvaluates, PTL DEF Spec, IsFifo, Channel!Spec

----------------------------------------------------------------------------
(***************************************************************************)
(* The reader takes the elements of the chains in turn.  Inner.next is the *)
(* hand of a clock: the elements that others may still give before chain i *)
(* are as many as the chains from next to i (Distance), and each element   *)
(* taken before brings next nearer by at least one.                        *)
(***************************************************************************)
Distance(i) == IF i >= nxt THEN i - nxt ELSE i + Len(chains) - nxt

\* A thread that has not begun has no chain with elements.
Begun ==
  \A w \in Writers :
    /\ w \in Made <=> at[w] # "off"
    /\ at[w] = "off" => queue[w] = <<>>

InTurn ==
  /\ Len(chains) > 0
  /\ \A w \in Writers : queue[w] = <<>> => passed[w] = 0
  /\ \A i \in 0 .. Len(chains) - 1 : passed[chains[i + 1]] + Distance(i) < Len(chains)

TurnInv == Begun /\ InTurn

\* The remainder that next computes, for an index that has gone round once.
LEMMA GoneRound ==
  ASSUME NEW n \in Nat \ {0}, NEW a \in 0 .. n, NEW b \in 0 .. n - 1
  PROVE  (a + b) % n = IF a + b < n THEN a + b ELSE a + b - n
  OBVIOUS

\* The chain with an element that next finds is not further from Inner.next
\* than any other.
LEMMA FirstIsNearest ==
  ASSUME TypeOK, NEW i \in 0 .. Len(chains) - 1, First(i),
         NEW j \in 0 .. Len(chains) - 1, queue[chains[j + 1]] # <<>>
  PROVE  Distance(i) <= Distance(j)
<1> DEFINE n == Len(chains)
<1>1. n \in Nat \ {0} /\ nxt \in 0 .. n
  BY DEF TypeOK
<1>2. PICK k \in 0 .. n - 1 : /\ i = (nxt + k) % n
                              /\ \A l \in 0 .. k - 1 : ~(queue[chains[((nxt + l) % n) + 1]] # <<>>)
  BY DEF First
<1> HIDE DEF n
<1>3. PICK d \in 0 .. n - 1 : d = Distance(j) /\ j = IF nxt + d < n THEN nxt + d ELSE nxt + d - n
  <2>1. j \in 0 .. n - 1 /\ Distance(j) = IF j >= nxt THEN j - nxt ELSE j + n - nxt
    BY DEF Distance, n
  <2>2. CASE j >= nxt
    BY <2>1, <2>2, <1>1
  <2>3. CASE j < nxt
    BY <2>1, <2>3, <1>1
  <2> QED BY <2>1, <2>2, <2>3, <1>1
<1>4. (nxt + d) % n = j
  <2>1. (nxt + d) % n = IF nxt + d < n THEN nxt + d ELSE nxt + d - n
    BY <1>1, GoneRound
  <2> QED BY <2>1, <1>3
<1>5. ~(d < k)
  BY <1>2, <1>3, <1>4
<1>6. k = Distance(i)
  <2>1. (nxt + k) % n = IF nxt + k < n THEN nxt + k ELSE nxt + k - n
    BY <1>1, GoneRound
  <2>2. i = IF nxt + k < n THEN nxt + k ELSE nxt + k - n
    BY <2>1, <1>2
  <2> QED BY <2>2, <1>1 DEF Distance, n
<1> QED BY <1>3, <1>5, <1>6

\* The parts of TurnInv that a step leaves alone.
LEMMA SameTurn ==
  ASSUME TypeOK, TurnInv, UNCHANGED <<chains, queue, nxt, passed>>,
         \A w \in Writers : at[w] = "off" <=> at'[w] = "off"
  PROVE  TurnInv'
  BY SameMade DEF TurnInv, Begun, InTurn, Distance

\* A step keeps TurnInv (child_target, put and next of chan.rs).
LEMMA OpenTurn ==
  ASSUME TypeOK, TurnInv, NEW w \in Writers, NEW c \in Writers, Open(w, c)
  PROVE  TurnInv'
<1>1. chains \in Seq(Writers) /\ nxt \in 0 .. Len(chains) /\ Len(chains) \in Nat \ {0}
  BY DEF TypeOK, TurnInv, InTurn
<1>2. /\ chains' = Append(chains, c) /\ UNCHANGED <<queue, nxt, passed>>
      /\ at[c] = "off" /\ at'[c] = "run" /\ \A v \in Writers : v # c => at'[v] = at[v]
  BY DEF Open, TypeOK, Threads
<1>3. /\ Len(chains') = Len(chains) + 1
      /\ \A i \in 1 .. Len(chains) : chains'[i] = chains[i]
      /\ chains'[Len(chains) + 1] = c
  BY <1>1, <1>2, AppendProperties
<1>4. Begun'
  <2>1. Made' = Made \cup {c}
    BY <1>2, AddedChain
  <2> QED BY <2>1, <1>2 DEF TurnInv, Begun
<1>5. passed[c] = 0
  BY <1>2 DEF TurnInv, Begun, InTurn
<1>6. ASSUME NEW i \in 0 .. Len(chains') - 1 PROVE passed'[chains'[i + 1]] + Distance(i)' < Len(chains')
  <2>1. CASE i < Len(chains)
    <3>1. passed[chains[i + 1]] + Distance(i) < Len(chains) /\ chains'[i + 1] = chains[i + 1]
      BY <2>1, <1>1, <1>3 DEF TurnInv, InTurn
    <3>2. chains[i + 1] \in Writers /\ passed[chains[i + 1]] \in Nat
      <4>1. i + 1 \in 1 .. Len(chains)
        BY <2>1, <1>1, <1>3
      <4>2. chains[i + 1] \in Writers
        BY <4>1, <1>1
      <4> QED BY <4>2 DEF TypeOK
    <3>3. Distance(i)' \in {Distance(i), Distance(i) + 1} /\ Distance(i) \in Int
      BY <1>1, <1>2, <1>3 DEF Distance
    <3> QED BY <3>1, <3>2, <3>3, <1>2, <1>3, <1>1
  <2>2. CASE i = Len(chains)
    <3>1. Distance(i)' = Len(chains) - nxt
      BY <2>2, <1>1, <1>2, <1>3 DEF Distance
    <3>2. chains'[i + 1] = c
      BY <2>2, <1>3
    <3> QED BY <3>1, <3>2, <1>5, <1>1, <1>2, <1>3
  <2> QED BY <2>1, <2>2, <1>1, <1>3
<1> QED BY <1>2, <1>3, <1>4, <1>6, <1>1 DEF TurnInv, InTurn

LEMMA TakeTurn ==
  ASSUME TypeOK, TurnInv, NEW r \in Readers, NextElement(r)
  PROVE  TurnInv'
<1>1. PICK i \in 0 .. Len(chains) - 1 :
        /\ First(i)
        /\ queue' = [queue EXCEPT ![chains[i + 1]] = Tail(@)]
        /\ passed' = [v \in Writers |-> IF v = chains[i + 1] \/ queue[v] = <<>> THEN 0 ELSE passed[v] + 1]
        /\ nxt' = i + 1
  BY DEF NextElement, After
<1> DEFINE w == chains[i + 1]
           n == Len(chains)
<1>2. w \in Writers /\ w \in Made /\ queue[w] # <<>>
  BY <1>1, Found
<1>3. n \in Nat \ {0} /\ nxt \in 0 .. n /\ chains \in Seq(Writers) /\ UNCHANGED chains
  BY DEF TypeOK, TurnInv, InTurn, NextElement
<1>4. /\ \A v \in Writers : v # w => queue'[v] = queue[v]
      /\ \A v \in Writers : at'[v] = at[v]
  <2>1. \A v \in Writers : v # w => queue'[v] = queue[v]
    BY <1>1 DEF TypeOK
  <2>2. \A v \in Writers : at'[v] = at[v]
    BY ThreadAssumption DEF NextElement, Goes, TypeOK
  <2> QED BY <2>1, <2>2
<1>5. \A v \in Writers : passed'[v] = IF v = w \/ queue[v] = <<>> THEN 0 ELSE passed[v] + 1
  BY <1>1
<1>6. Begun'
  BY <1>2, <1>4, <1>3, SameMade DEF TurnInv, Begun
<1>7. \A v \in Writers : queue'[v] = <<>> => passed'[v] = 0
  BY <1>4, <1>5
<1>8. ASSUME NEW j \in 0 .. n - 1 PROVE passed'[chains[j + 1]] + Distance(j)' < n
  <2> DEFINE v == chains[j + 1]
  <2>1. v \in Writers /\ passed[v] \in Nat /\ passed[v] + Distance(j) < n
    <3>1. j + 1 \in 1 .. Len(chains)
      BY <1>3, <1>8
    <3>2. v \in Writers
      BY <3>1, <1>3
    <3> QED BY <3>2 DEF TypeOK, TurnInv, InTurn
  <2>2. Distance(j)' = (IF j > i THEN j - i - 1 ELSE j + n - i - 1)
    BY <1>1, <1>3 DEF Distance
  <2>3. CASE v = w \/ queue[v] = <<>>
    <3>1. passed'[v] = 0
      BY <2>1, <2>3, <1>5
    <3> QED BY <3>1, <2>2, <1>3
  <2>4. CASE v # w /\ queue[v] # <<>>
    <3>1. passed'[v] = passed[v] + 1 /\ j # i
      BY <2>1, <2>4, <1>5
    <3>2. Distance(i) <= Distance(j)
      BY <2>4, <1>1, FirstIsNearest
    <3>3. Distance(j)' < Distance(j)
      BY <3>1, <3>2, <2>2, <1>3 DEF Distance
    <3>4. Distance(j)' \in Int /\ Distance(j) \in Int
      BY <2>2, <1>3 DEF Distance
    <3> QED BY <2>1, <3>1, <3>3, <3>4, <1>3
  <2> QED BY <2>3, <2>4
<1> QED BY <1>3, <1>6, <1>7, <1>8 DEF TurnInv, InTurn

LEMMA NextTurn == TypeOK /\ TurnInv /\ [Next]_vars => TurnInv'
<1> SUFFICES ASSUME TypeOK, TurnInv, [Next]_vars PROVE TurnInv'
  OBVIOUS
<1> USE ThreadAssumption
<1>1. ASSUME NEW w \in Writers, PutBegin(w) \/ PutFails(w) \/ PutSleeps(w) \/ Close(w) \/ Stop(w) PROVE TurnInv'
  <2>1. UNCHANGED <<chains, queue, nxt, passed>>
    BY <1>1 DEF PutBegin, PutFails, PutSleeps, Close, Stop, inner
  <2>2. \A v \in Writers : at[v] = "off" <=> at'[v] = "off"
    BY <1>1 DEF PutBegin, PutFails, Aborts, PutSleeps, Putting, Close, Stop, Goes, TypeOK
  <2> QED BY <2>1, <2>2, SameTurn
<1>2. ASSUME NEW w \in Writers, PutElement(w) PROVE TurnInv'
  <2>1. /\ UNCHANGED <<chains, nxt, passed>> /\ at[w] = "put"
        /\ \A v \in Writers : at[v] = "off" <=> at'[v] = "off"
        /\ \A v \in Writers : v # w => queue'[v] = queue[v]
    BY <1>2 DEF PutElement, Putting, Goes, TypeOK
  <2>2. queue'[w] # <<>>
    <3>1. queue'[w] = Append(queue[w], sent[w] + 1)
      BY <1>2 DEF PutElement, TypeOK
    <3>2. queue[w] \in Seq(Nat) /\ sent[w] + 1 \in Nat
      BY DEF TypeOK
    <3> QED BY <3>1, <3>2, AppendProperties
  <2>3. Begun'
    <3>1. Made' = Made
      BY <2>1, SameMade
    <3>2. w \in Made
      BY <2>1 DEF TurnInv, Begun
    <3> QED BY <2>1, <3>1, <3>2 DEF TurnInv, Begun
  <2>4. InTurn'
    BY <2>1, <2>2 DEF TurnInv, InTurn, Distance
  <2> QED BY <2>3, <2>4 DEF TurnInv
<1>3. ASSUME NEW w \in Writers, NEW c \in Writers, Open(w, c) PROVE TurnInv'
  BY <1>3, OpenTurn
<1>4. ASSUME NEW r \in Readers, NextElement(r) PROVE TurnInv'
  BY <1>4, TakeTurn
<1>5. ASSUME NEW r \in Readers, Uncons(r) \/ NextEnd(r) \/ NextSleeps(r) \/ Publish(r) \/ Leave(r) PROVE TurnInv'
  <2>1. UNCHANGED <<chains, queue, nxt, passed>>
    BY <1>5 DEF Uncons, UnconsCell, UnconsEnd, UnconsSleeps, UnconsThunk, NextEnd, NextSleeps,
                Publish, PublishElement, PublishEnd, Leave, inner
  <2>2. \A v \in Writers : at'[v] = at[v]
    BY <1>5 DEF Uncons, UnconsCell, UnconsEnd, UnconsSleeps, UnconsThunk, NextEnd, NextSleeps,
                Publish, PublishElement, PublishEnd, Leave, Goes, TypeOK
  <2> QED BY <2>1, <2>2, SameTurn
<1>6. ASSUME SetDone \/ SettleBegin \/ Settle \/ Finish \/ StopOwner \/ Join PROVE TurnInv'
  <2>1. UNCHANGED <<chains, queue, nxt, passed>>
    BY <1>6 DEF SetDone, SettleBegin, Settle, SettleEnds, SettleSleeps, Finish, StopOwner, Join, inner
  <2>2. \A v \in Writers : at[v] = "off" <=> at'[v] = "off"
    BY <1>6 DEF SetDone, SettleBegin, Settle, SettleEnds, SettleSleeps, Finish, StopOwner, Join, Goes, TypeOK
  <2> QED BY <2>1, <2>2, SameTurn
<1>7. ASSUME (\E t \in Threads : Spurious(t)) \/ UNCHANGED vars PROVE TurnInv'
  <2>1. UNCHANGED <<chains, queue, nxt, passed, at>>
    BY <1>7 DEF Spurious, vars, inner
  <2> QED BY <2>1, SameTurn
<1> QED BY <1>1, <1>2, <1>3, <1>4, <1>5, <1>6, <1>7 DEF Next, Put, NextItem, Ended

\* The reader takes the elements of the chains in turn (Chan.next of chan.rs):
\* a writer that has an element waits for fewer elements of others than there
\* are other writers, whatever is written, opened and stopped meanwhile.
THEOREM ChanTakenInTurn == Spec => []TakenInTurn
<1>1. Init => TurnInv
  <2> SUFFICES ASSUME Init PROVE TurnInv
    OBVIOUS
  <2>1. Made = {Root}
    BY DEF Init, Made, Range
  <2>2. Begun
    BY <2>1, ThreadAssumption DEF Init, Begun, Threads
  <2>3. InTurn
    BY ThreadAssumption DEF Init, InTurn, Distance
  <2> QED BY <2>2, <2>3 DEF TurnInv
<1>2. TypeOK /\ TurnInv => TakenInTurn
  <2> SUFFICES ASSUME TypeOK, TurnInv, NEW w \in Writers PROVE passed[w] < Len(chains)
    BY DEF TakenInTurn
  <2>1. chains \in Seq(Writers) /\ nxt \in 0 .. Len(chains) /\ Len(chains) \in Nat \ {0} /\ passed[w] \in Nat
    BY DEF TypeOK, TurnInv, InTurn
  <2>2. CASE w \in Made
    <3>1. PICK m \in 1 .. Len(chains) : chains[m] = w
      BY <2>1, <2>2 DEF Made, Range
    <3>2. passed[w] + Distance(m - 1) < Len(chains)
      BY <3>1, <2>1 DEF TurnInv, InTurn
    <3> QED BY <3>1, <3>2, <2>1 DEF Distance
  <2>3. CASE w \notin Made
    BY <2>1, <2>3 DEF TurnInv, Begun, InTurn
  <2> QED BY <2>2, <2>3
<1> QED BY <1>1, <1>2, NextTurn, ChanTypeCorrect, PTL DEF Spec

=============================================================================
