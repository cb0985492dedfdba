--------------------------- MODULE ConshChan_proofs ---------------------------
(***************************************************************************)
(* What holds of the channels of the ConSh written in ConMa for every      *)
(* number of writers, capacity and interleaving: the channel implements    *)
(* Fifo (ChannelIsFifo), the end of a statement does not wait for a state  *)
(* that nobody will set (SettleDoesReturn), and, when only Owner reads the *)
(* LazyList, no wake-up is lost (WakeUpsArrive).                           *)
(***************************************************************************)
EXTENDS ConshChan, SequenceTheorems, TLAPS

----------------------------------------------------------------------------
(***************************************************************************)
(* The invariant.                                                          *)
(***************************************************************************)

Places == {"off", "made", "start", "run", "room", "check", "over", "write", "advance", "wake",
           "blocked", "wait", "asleep", "woken", "release", "ended", "dead"}
Closes == {"no", "look", "end", "wake", "state", "over"}
Evaluates == {"idle", "next", "fresh", "scan", "rescan", "get", "set", "asleep"}
Owns == {"run", "settle", "wait", "asleep", "cancel", "snap", "tell", "ended"}

\* The type of every variable.
TypeOK ==
  /\ chains \in Seq(Writers) /\ tells \in Seq(Writers)
  /\ cells \in [Writers -> Nat] /\ tail \in [Writers -> Nat] /\ taken \in [Writers -> Nat]
  /\ consumed \in [Writers -> Int] /\ expects \in [Writers -> Int] /\ found \in Int
  /\ ends \in SUBSET Writers
  /\ cancelled \in BOOLEAN /\ renewed \in BOOLEAN /\ ended \in BOOLEAN /\ record \in BOOLEAN
  /\ state \in {"running", "blocked", "done"}
  /\ at \in [Writers -> Places] /\ closing \in [Writers -> [Releasers -> Closes]]
  /\ reader \in Evaluates /\ owner \in Owns
  /\ cursors \in Seq(Writers) /\ k \in Nat \ {0} /\ until \in Int
  /\ met \in 0 .. Len(chains)
  /\ reader \in {"get", "set"} => k \in DOMAIN cursors

\* A writer has one chain, from when it is made.
Opened ==
  /\ \A i, j \in DOMAIN chains : chains[i] = chains[j] => i = j
  /\ \A w \in Writers : at[w] = "off" <=> w \notin Made
  /\ \A w \in Writers : at[w] = "off" => cells[w] = 0

\* "tail" is behind the chain only between the two steps of Chan_put.
Tails ==
  \A w \in Writers :
    /\ cells[w] = tail[w] \/ (cells[w] = tail[w] + 1 /\ at[w] \in {"advance", "dead"})
    /\ at[w] = "advance" => cells[w] = tail[w] + 1
    /\ w \in ends => cells[w] = tail[w]

\* Who closes the output of w: w at its end, then the watcher of a $( ); or the
\* VProc that has killed it.  One at a time, though each only looks at "tail".
Closers ==
  \A w \in Writers :
    /\ at[w] \in {"release", "ended", "dead"} \/ (w \notin ends /\ \A p \in Releasers : closing[w][p] = "no")
    /\ at[w] = "release" =>
         /\ closing[w]["self"] \notin {"no", "over"}
         /\ closing[w]["killer"] = "no" /\ closing[w]["watcher"] = "no"
    /\ at[w] = "ended" => closing[w]["self"] = "over" /\ closing[w]["killer"] = "no"
    /\ closing[w]["killer"] # "no" => at[w] = "dead" /\ closing[w]["watcher"] = "no"
    /\ closing[w]["watcher"] # "no" => at[w] = "ended" \/ (at[w] = "dead" /\ closing[w]["self"] = "no")
    /\ IsSubst /\ w = Root /\ at[w] = "dead" => closing[w]["self"] = "no" /\ closing[w]["killer"] = "no"
    /\ closing[w]["watcher"] # "no" => IsSubst /\ w = Root

\* What a VProc that closes the output has seen.
Closing ==
  \A w \in Writers :
    /\ \A p \in Releasers : closing[w][p] = "wake" => w \in ends
    /\ \A p \in Releasers : closing[w][p] = "end" /\ (p = "self" => at[w] # "dead") => Null(w)
    /\ closing[w]["self"] = "look" /\ at[w] # "dead" => w \notin ends

\* The reader is between taking an element of w and saying so.
Serves(w) == reader \in {"get", "set"} /\ Looked = w

\* What is said to be consumed was taken.
Counts ==
  \A w \in Writers :
    /\ taken[w] <= cells[w]
    /\ expects[w] <= taken[w]
    /\ consumed[w] <= taken[w]
    /\ Serves(w) => consumed[w] < taken[w] /\ (reader = "set" => found < taken[w])
    /\ at[w] = "write" => ~Full(w)

\* The chains that the reader has met are in its cursors, or read to the end.
Registered == {chains[i] : i \in 1 .. met}
Cursors ==
  /\ \A i, j \in DOMAIN cursors : cursors[i] = cursors[j] => i = j
  /\ Range(cursors) \subseteq Registered
  /\ \A w \in Registered \ Range(cursors) : w \in ends /\ taken[w] = cells[w]

\* The end of the LazyList.
Ending ==
  /\ reader # "idle" => ~ended
  /\ ended => \A w \in Made : w \in ends /\ taken[w] = cells[w]

FifoInv == Opened /\ Tails /\ Closers /\ Closing /\ Counts /\ Cursors /\ Ending

\* There is nothing to take of w and it has not ended, or a token is to come.
Quiet(w) ==
  /\ \/ taken[w] = cells[w] \/ at[w] \in {"advance", "wake"} \/ Torn(w)
     \/ \E p \in Releasers : closing[w][p] \in {"look", "end", "wake"}
  /\ w \notin ends \/ Torn(w) \/ \E p \in Releasers : closing[w][p] = "wake"

\* The cursors that the reader has passed since it read the token are quiet,
\* and so are the chains that are not in them; unless a new token has come.
Before == {cursors[i] : i \in {j \in DOMAIN cursors : j < k}}
Passed ==
  /\ reader = "fresh" => k = 1
  /\ reader = "asleep" => ~renewed /\ cursors # <<>> /\ \A w \in Range(cursors) : Quiet(w)
  /\ reader \in {"scan", "rescan"} /\ ~renewed => \A w \in Before : Quiet(w)
  /\ reader \in {"rescan", "asleep"} /\ ~renewed => \A w \in Made \ Registered : Quiet(w)

\* Who sees a full chain waits, with what it has read of consumed.
Stuck == {"blocked", "wait", "asleep"}
Waiting ==
  \A w \in Writers :
    /\ at[w] \in Stuck => expects[w] >= 0 /\ Full(w)
    /\ at[w] = "asleep" => consumed[w] = expects[w]
    /\ at[w] = "check" /\ expects[w] < 0 => cancelled

\* consumed is what was taken, or -1 for ever; and Chan_cancel reaches all
\* who wait.
Told ==
  /\ \A w \in Writers :
       \/ consumed[w] = IF Serves(w) THEN taken[w] - 1 ELSE taken[w]
       \/ consumed[w] = -1 /\ cancelled
  /\ \A w \in Writers : Serves(w) => taken[w] > 0
  /\ \A w \in Writers :
       at[w] \in Stuck /\ cancelled => owner = "snap" \/ w \in Range(tells) \/ consumed[w] = -1
  /\ reader = "set" => found = consumed[Looked]
  /\ cancelled => owner \in {"snap", "tell", "ended"}
  /\ owner \in {"snap", "tell"} => cancelled
  /\ owner # "run" => reader = "idle"
  /\ tells # <<>> => owner = "tell"

\* Owner sleeps only in the state that it waits for to change.
Settling ==
  /\ record \/ owner \in {"settle", "wait", "asleep"} => IsSubst
  /\ owner = "asleep" => state = "running"

\* While the state is "running" somebody is to set it.
Setters == IsSubst /\ state = "running" => \E w \in Writers : WillSet(w)
----------------------------------------------------------------------------
(***************************************************************************)
(* Sequences.                                                              *)
(***************************************************************************)

\* The parts of a sequence without its i-th element.
LEMMA Removed ==
  ASSUME NEW S, NEW s \in Seq(S), NEW i \in DOMAIN s
  PROVE  /\ RemoveAt(s, i) \in Seq(S)
         /\ Len(RemoveAt(s, i)) = Len(s) - 1
         /\ \A j \in DOMAIN RemoveAt(s, i) : RemoveAt(s, i)[j] = IF j < i THEN s[j] ELSE s[j + 1]
<1>1. i \in 1 .. Len(s) /\ Len(s) \in Nat
  OBVIOUS
<1> DEFINE a == SubSeq(s, 1, i - 1)
           b == SubSeq(s, i + 1, Len(s))
<1>2. a \in Seq(S) /\ Len(a) = i - 1 /\ \A j \in 1 .. i - 1 : a[j] = s[j]
  BY <1>1, SubSeqProperties
<1>3. b \in Seq(S) /\ Len(b) = Len(s) - i /\ \A j \in 1 .. Len(s) - i : b[j] = s[i + j]
  BY <1>1, SubSeqProperties
<1> HIDE DEF a, b
<1>4. /\ a \o b \in Seq(S) /\ Len(a \o b) = Len(s) - 1
      /\ \A j \in 1 .. Len(s) - 1 : (a \o b)[j] = IF j <= i - 1 THEN a[j] ELSE b[j - (i - 1)]
  BY <1>1, <1>2, <1>3, ConcatProperties, SMTT(30)
<1>5. RemoveAt(s, i) = a \o b
  BY DEF RemoveAt, a, b
<1>6. ASSUME NEW j \in 1 .. Len(s) - 1 PROVE (a \o b)[j] = IF j < i THEN s[j] ELSE s[j + 1]
  <2>1. CASE j < i
    BY <1>1, <1>2, <1>4, <2>1
  <2>2. CASE ~(j < i)
    <3> DEFINE m == j - (i - 1)
    <3>1. m \in 1 .. Len(s) - i /\ i + m = j + 1 /\ ~(j <= i - 1)
      BY <1>1, <2>2
    <3>2. (a \o b)[j] = b[m]
      BY <1>4, <3>1
    <3> HIDE DEF m
    <3>3. b[m] = s[i + m]
      BY <1>3, <3>1
    <3> QED BY <2>2, <3>1, <3>2, <3>3
  <2> QED BY <2>1, <2>2
<1>7. DOMAIN (a \o b) = 1 .. Len(s) - 1
  BY <1>1, <1>4
<1> QED BY <1>4, <1>5, <1>6, <1>7

\* Its elements, when none is in it twice.
LEMMA RemovedRange ==
  ASSUME NEW S, NEW s \in Seq(S), NEW i \in DOMAIN s, \A x, y \in DOMAIN s : s[x] = s[y] => x = y
  PROVE  /\ Range(RemoveAt(s, i)) = Range(s) \ {s[i]}
         /\ \A x, y \in DOMAIN RemoveAt(s, i) : RemoveAt(s, i)[x] = RemoveAt(s, i)[y] => x = y
<1> DEFINE r == RemoveAt(s, i)
<1>1. /\ DOMAIN r = 1 .. Len(s) - 1 /\ DOMAIN s = 1 .. Len(s) /\ Len(s) \in Nat
      /\ \A j \in DOMAIN r : r[j] = IF j < i THEN s[j] ELSE s[j + 1]
  <2>1. r \in Seq(S) /\ Len(r) = Len(s) - 1 /\ \A j \in DOMAIN r : r[j] = IF j < i THEN s[j] ELSE s[j + 1]
    BY Removed
  <2> HIDE DEF r
  <2> QED BY <2>1
<1> HIDE DEF r
<1>2. \A x, y \in DOMAIN r : r[x] = r[y] => x = y
  BY <1>1
<1>3. ASSUME NEW j \in DOMAIN r PROVE r[j] \in Range(s) \ {s[i]}
  BY <1>1 DEF Range
<1>4. ASSUME NEW j \in DOMAIN s, s[j] # s[i] PROVE s[j] \in Range(r)
  <2>1. CASE j < i
    <3>1. j \in DOMAIN r /\ r[j] = s[j]
      BY <1>1, <2>1
    <3> QED BY <3>1 DEF Range
  <2>2. CASE ~(j < i)
    <3>1. j - 1 \in DOMAIN r /\ r[j - 1] = s[j]
      BY <1>1, <1>4, <2>2
    <3> QED BY <3>1 DEF Range
  <2> QED BY <2>1, <2>2
<1>5. Range(r) = Range(s) \ {s[i]}
  BY <1>3, <1>4 DEF Range
<1> QED BY <1>2, <1>5 DEF r

\* A sequence with one more element.
LEMMA Appended ==
  ASSUME NEW S, NEW s \in Seq(S), NEW x \in S
  PROVE  /\ Append(s, x) \in Seq(S) /\ Len(Append(s, x)) = Len(s) + 1
         /\ \A i \in DOMAIN s : i \in DOMAIN Append(s, x) /\ Append(s, x)[i] = s[i]
         /\ Range(Append(s, x)) = Range(s) \cup {x}
         /\ x \notin Range(s) /\ (\A i, j \in DOMAIN s : s[i] = s[j] => i = j) =>
               \A i, j \in DOMAIN Append(s, x) : Append(s, x)[i] = Append(s, x)[j] => i = j
<1> DEFINE l == Append(s, x)
<1>1. /\ l \in Seq(S) /\ Len(l) = Len(s) + 1 /\ DOMAIN l = 1 .. Len(s) + 1 /\ DOMAIN s = 1 .. Len(s)
      /\ Len(s) \in Nat /\ \A i \in DOMAIN s : l[i] = s[i]
      /\ l[Len(s) + 1] = x
  BY AppendProperties
<1> HIDE DEF l
<1>2. Range(l) = Range(s) \cup {x}
  BY <1>1 DEF Range
<1>3. ASSUME x \notin Range(s), \A i, j \in DOMAIN s : s[i] = s[j] => i = j,
             NEW i \in DOMAIN l, NEW j \in DOMAIN l, l[i] = l[j]
      PROVE  i = j
  BY <1>1, <1>3 DEF Range
<1> QED BY <1>1, <1>2, <1>3 DEF l

----------------------------------------------------------------------------
(***************************************************************************)
(* Types.                                                                  *)
(***************************************************************************)

\* Init.
LEMMA InitType == Init => TypeOK
<1> SUFFICES ASSUME Init PROVE TypeOK
  OBVIOUS
<1>1. chains \in Seq(Writers) /\ Len(chains) = 1 /\ tells \in Seq(Writers) /\ cursors \in Seq(Writers)
  BY RootAssumption DEF Init
<1>2. closing \in [Writers -> [Releasers -> Closes]] /\ at \in [Writers -> Places]
  BY DEF Init, Closes, Places
<1>3. /\ cells \in [Writers -> Nat] /\ tail \in [Writers -> Nat] /\ taken \in [Writers -> Nat]
      /\ consumed \in [Writers -> Int] /\ expects \in [Writers -> Int]
  BY DEF Init
<1>4. met \in 0 .. Len(chains) /\ until \in Int /\ found \in Int /\ k \in Nat \ {0}
  BY <1>1 DEF Init
<1>5. ends \in SUBSET Writers /\ reader \in Evaluates \ {"get", "set"} /\ owner \in Owns
  BY DEF Init, Evaluates, Owns
<1>6. cancelled \in BOOLEAN /\ renewed \in BOOLEAN /\ ended \in BOOLEAN /\ record \in BOOLEAN
  BY KindAssumption DEF Init
<1> QED BY <1>1, <1>2, <1>3, <1>4, <1>5, <1>6 DEF Init, TypeOK, Evaluates, Owns

\* What the reader and Chan_cancel do to the place of a writer.
LEMMA SetConsumedType ==
  ASSUME TypeOK, NEW w \in Writers, NEW n \in Int, SetConsumed(w, n)
  PROVE  consumed' \in [Writers -> Int] /\ at' \in [Writers -> Places]
<1>1. consumed' \in [Writers -> Int]
  BY DEF TypeOK, SetConsumed
<1>2. at' \in [Writers -> Places]
  BY DEF TypeOK, SetConsumed, Places
<1> QED BY <1>1, <1>2

\* A step of a writer, of who closes its output, or of kill keeps the types.
LEMMA WriterType ==
  ASSUME TypeOK, NEW w \in Writers
  PROVE  /\ Room(w) \/ Put(w) \/ Finish(w) \/ Kill(w) => TypeOK'
         /\ \A c \in Writers : Open(w, c) \/ Start(w, c) => TypeOK'
         /\ \A p \in Releasers : Release(w, p) => TypeOK'
<1>1. Room(w) => TypeOK'
  <2> SUFFICES ASSUME Room(w) PROVE TypeOK'
    OBVIOUS
  <2>1. expects' \in [Writers -> Int] /\ at' \in [Writers -> Places]
    BY DEF TypeOK, Room, Goes, Places
  <2> QED BY <2>1 DEF TypeOK, Room, chan, read, own
<1>2. Aborts(w) \/ HasRoom(w) \/ NoRoom(w) \/ WaitRoom(w) => TypeOK'
  <2> SUFFICES ASSUME Aborts(w) \/ HasRoom(w) \/ NoRoom(w) \/ WaitRoom(w) PROVE TypeOK'
    OBVIOUS
  <2>1. at' \in [Writers -> Places] /\ UNCHANGED <<chan, tail, expects, closing, read, own>>
    BY DEF TypeOK, Aborts, HasRoom, NoRoom, WaitRoom, Goes, Places
  <2> QED BY <2>1 DEF TypeOK, chan, read, own
<1>3. SetBlocked(w) \/ SetRunning(w) => TypeOK'
  <2> SUFFICES ASSUME SetBlocked(w) \/ SetRunning(w) PROVE TypeOK'
    OBVIOUS
  <2>1. /\ at' \in [Writers -> Places]
        /\ state' \in {"running", "blocked", "done"} /\ owner' \in Owns
        /\ UNCHANGED <<chains, cells, ends, consumed, cancelled, renewed, tail, expects, closing, read, record, tells>>
    BY DEF TypeOK, SetBlocked, SetRunning, SetState, Goes, Places, Owns
  <2> QED BY <2>1 DEF TypeOK, read
<1>4. Write(w) => TypeOK'
  <2> SUFFICES ASSUME Write(w) PROVE TypeOK'
    OBVIOUS
  <2>1. cells' \in [Writers -> Nat] /\ at' \in [Writers -> Places]
    BY DEF TypeOK, Write, Goes, Places
  <2> QED BY <2>1 DEF TypeOK, Write, read, own
<1>5. Advance(w) => TypeOK'
  <2> SUFFICES ASSUME Advance(w) PROVE TypeOK'
    OBVIOUS
  <2>1. tail' \in [Writers -> Nat] /\ at' \in [Writers -> Places]
    BY DEF TypeOK, Advance, Goes, Places
  <2> QED BY <2>1 DEF TypeOK, Advance, chan, read, own
<1>6. Wake(w) => TypeOK'
  <2> SUFFICES ASSUME Wake(w) PROVE TypeOK'
    OBVIOUS
  <2>1. at' \in [Writers -> Places] /\ reader' \in Evaluates /\ renewed' \in BOOLEAN
    BY DEF TypeOK, Wake, SetWake, Goes, Places, Evaluates
  <2>2. reader' \in {"get", "set"} => reader \in {"get", "set"}
    BY DEF TypeOK, Wake, SetWake, Evaluates
  <2> QED BY <2>1, <2>2 DEF TypeOK, Wake, own
<1>7. Finish(w) \/ Kill(w) => TypeOK'
  <2> SUFFICES ASSUME Finish(w) \/ Kill(w) PROVE TypeOK'
    OBVIOUS
  <2>1. at' \in [Writers -> Places]
    BY DEF TypeOK, Finish, Kill, Places
  <2>2. closing' \in [Writers -> [Releasers -> Closes]]
    <3>1. PICK p \in Releasers : Begins(w, p)
      BY DEF Finish, Kill, Releasers
    <3>2. "look" \in Closes
      BY DEF Closes
    <3> QED BY <3>1, <3>2 DEF TypeOK, Begins
  <2> QED BY <2>1, <2>2 DEF TypeOK, Finish, Kill, chan, read, own
<1>8. ASSUME NEW c \in Writers, Open(w, c) PROVE TypeOK'
  <2>1. at' \in [Writers -> Places]
    BY <1>8 DEF TypeOK, Open, Places
  <2>2. chains' \in Seq(Writers) /\ Len(chains') = Len(chains) + 1
    BY <1>8 DEF TypeOK, Open
  <2>3. met \in 0 .. Len(chains')
    BY <2>2 DEF TypeOK
  <2> QED BY <1>8, <2>1, <2>2, <2>3 DEF TypeOK, Open, read, own
<1>9. ASSUME NEW c \in Writers, Start(w, c) PROVE TypeOK'
  <2>1. at' \in [Writers -> Places]
    BY <1>9 DEF TypeOK, Start, Places
  <2> QED BY <1>9, <2>1 DEF TypeOK, Start, chan, read, own
<1>10. ASSUME NEW p \in Releasers, Release(w, p) PROVE TypeOK'
  <2>1. PICK from \in Closes, to \in Closes : Releases(w, p, from, to)
    BY <1>10 DEF Release, Look, SetEnd, WakeEnd, SetDone, Closed, Closes
  <2>2. at' \in [Writers -> Places]
    BY <2>1 DEF TypeOK, Releases, Places
  <2>3. closing' \in [Writers -> [Releasers -> Closes]]
    BY <2>1 DEF TypeOK, Releases
  <2>4. UNCHANGED <<tail, expects>>
    BY <2>1 DEF Releases
  <2>5. CASE Look(w, p)
    BY <2>2, <2>3, <2>4, <2>5 DEF TypeOK, Look, chan, read, own
  <2>6. CASE SetEnd(w, p)
    BY <2>2, <2>3, <2>4, <2>6 DEF TypeOK, SetEnd, read, own
  <2>7. CASE WakeEnd(w, p)
    <3>1. reader' \in Evaluates /\ (reader' \in {"get", "set"} => reader \in {"get", "set"})
      BY <2>7 DEF TypeOK, WakeEnd, SetWake, Evaluates
    <3> QED BY <2>2, <2>3, <2>4, <2>7, <3>1 DEF TypeOK, WakeEnd, SetWake, own
  <2>8. CASE SetDone(w, p)
    BY <2>2, <2>3, <2>4, <2>8 DEF TypeOK, SetDone, SetState, read, Owns
  <2> QED BY <1>10, <2>5, <2>6, <2>7, <2>8 DEF Release
<1> QED BY <1>1, <1>2, <1>3, <1>4, <1>5, <1>6, <1>7, <1>8, <1>9, <1>10 DEF Put

\* The chains that Chan_register adds to the cursors.
LEMMA NewOnes ==
  ASSUME TypeOK
  PROVE  /\ NewCursors \in Seq(Writers) /\ Len(NewCursors) = Len(chains) - met
         /\ \A i \in DOMAIN NewCursors : met + i \in DOMAIN chains /\ NewCursors[i] = chains[met + i]
         /\ ~NewChain => NewCursors = <<>>
<1>1. chains \in Seq(Writers) /\ met \in Nat /\ met <= Len(chains) /\ Len(chains) \in Nat
  BY DEF TypeOK
<1> DEFINE s == SubSeq(chains, met + 1, Len(chains))
<1>2. /\ s \in Seq(Writers) /\ Len(s) = Len(chains) - met
      /\ \A i \in 1 .. Len(chains) - met : s[i] = chains[met + i]
  <2>1. CASE met < Len(chains)
    <3>1. \A i \in met + 1 .. Len(chains) : chains[i] \in Writers
      BY <1>1
    <3>2. met + 1 \in 1 .. Len(chains)
      BY <1>1, <2>1
    <3>3. /\ s \in Seq(Writers) /\ Len(s) = Len(chains) - (met + 1) + 1
          /\ \A i \in 1 .. Len(chains) - (met + 1) + 1 : s[i] = chains[met + 1 + i - 1]
      BY <1>1, <3>1, <3>2, SubSeqProperties
    <3>4. ASSUME NEW i \in 1 .. Len(chains) - met PROVE s[i] = chains[met + i]
      <4>1. i \in 1 .. Len(chains) - (met + 1) + 1 /\ met + 1 + i - 1 = met + i
        BY <1>1
      <4> HIDE DEF s
      <4> QED BY <3>3, <4>1
    <3> HIDE DEF s
    <3> QED BY <1>1, <3>3, <3>4
  <2>2. CASE met = Len(chains)
    <3>1. s = <<>>
      BY <1>1, <2>2
    <3> QED BY <1>1, <2>2, <3>1
  <2> QED BY <1>1, <2>1, <2>2
<1>3. s = NewCursors
  BY DEF NewCursors
<1> HIDE DEF s
<1>4. \A i \in DOMAIN s : i \in 1 .. Len(chains) - met /\ met + i \in DOMAIN chains
  BY <1>1, <1>2
<1>5. ~NewChain => s = <<>>
  BY <1>1, <1>2, EmptySeq DEF NewChain
<1> QED BY <1>2, <1>3, <1>4, <1>5

\* A step of the reader keeps the types.
LEMMA ReaderType == TypeOK /\ (ReadToken \/ Evaluate) => TypeOK'
<1> SUFFICES ASSUME TypeOK, ReadToken \/ Evaluate PROVE TypeOK'
  OBVIOUS
<1>1. CASE ReadToken
  <2>1. reader' \in Evaluates \ {"get", "set"} /\ k' \in Nat \ {0}
    BY <1>1 DEF ReadToken, Evaluates
  <2>2. renewed' \in BOOLEAN
    BY <1>1 DEF ReadToken
  <2> QED BY <1>1, <2>1, <2>2 DEF TypeOK, ReadToken, write, own
<1>2. ASSUME Register PROVE cursors' \in Seq(Writers) /\ met' \in 0 .. Len(chains) /\ UNCHANGED <<chan, write, taken, found, got, own>>
  <2>1. cursors' \in Seq(Writers)
    BY <1>2, NewOnes, ConcatProperties DEF TypeOK, Register
  <2>2. met' = Len(chains) /\ Len(chains) \in Nat
    BY <1>2 DEF Register, TypeOK
  <2> QED BY <1>2, <2>1, <2>2 DEF Register
<1>3. CASE RegisterFresh
  <2>1. until' \in Int
    BY <1>3, BoundAssumption DEF RegisterFresh
  <2> QED BY <1>2, <1>3, <2>1 DEF TypeOK, RegisterFresh, Evaluates, chan, write, own
<1>4. CASE RegisterAgain
  BY <1>2, <1>4 DEF TypeOK, RegisterAgain, Evaluates, chan, write, own
<1>5. CASE RegisterLast
  BY <1>2, <1>5 DEF TypeOK, RegisterLast, Evaluates, chan, write, own
<1>6. ASSUME Looking PROVE k \in DOMAIN cursors /\ Looked \in Writers
  BY <1>6 DEF TypeOK, Looking, Looked
<1>7. CASE TakeElement
  <2>1. k \in DOMAIN cursors /\ Looked \in Writers
    BY <1>6, <1>7 DEF TakeElement
  <2>2. taken' \in [Writers -> Nat]
    <3>1. taken \in [Writers -> Nat] /\ taken' = [taken EXCEPT ![Looked] = @ + 1]
      BY <1>7 DEF TypeOK, TakeElement
    <3> HIDE DEF Looked
    <3> QED BY <2>1, <3>1
  <2> QED BY <1>7, <2>1, <2>2 DEF TypeOK, TakeElement, Evaluates, chan, write, own
<1>8. CASE TakeEnd
  <2>1. cursors' \in Seq(Writers)
    BY <1>6, <1>8, Removed DEF TypeOK, TakeEnd
  <2>2. reader \notin {"get", "set"}
    BY <1>8 DEF TakeEnd, Looking
  <2> QED BY <1>8, <2>1, <2>2 DEF TypeOK, TakeEnd, chan, write, own
<1>9. CASE TakeNothing
  <2>1. reader \notin {"get", "set"}
    BY <1>9 DEF TakeNothing, Looking
  <2> QED BY <1>9, <2>1 DEF TypeOK, TakeNothing, chan, write, own
<1>10. CASE GetConsumed
  <2>1. k \in DOMAIN cursors /\ Looked \in Writers
    BY <1>10 DEF TypeOK, GetConsumed, Looked
  <2>2. found' \in Int
    BY <1>10, <2>1 DEF TypeOK, GetConsumed
  <2> QED BY <1>10, <2>1, <2>2 DEF TypeOK, GetConsumed, Evaluates, chan, write, own
<1>11. CASE PutConsumed
  <2>1. k \in DOMAIN cursors /\ Looked \in Writers /\ found + 1 \in Int
    BY <1>11 DEF TypeOK, PutConsumed, Looked
  <2>2. consumed' \in [Writers -> Int] /\ at' \in [Writers -> Places]
    BY <1>11, <2>1, SetConsumedType DEF PutConsumed
  <2>3. RemoveAt(cursors, k) \in Seq(Writers)
    BY <2>1, Removed DEF TypeOK
  <2>4. cursors' \in Seq(Writers)
    BY <1>11, <2>1, <2>3, Appended DEF PutConsumed
  <2>5. reader' \in Evaluates \ {"get", "set"} /\ k' \in Nat \ {0} /\ until' \in Int
    BY <1>11 DEF TypeOK, PutConsumed, Evaluates
  <2> QED BY <1>11, <2>2, <2>4, <2>5 DEF TypeOK, PutConsumed, own
<1>12. CASE WaitWake
  BY <1>12 DEF TypeOK, WaitWake, Evaluates, chan, write, own
<1> QED BY <1>1, <1>3, <1>4, <1>5, <1>7, <1>8, <1>9, <1>10, <1>11, <1>12 DEF Evaluate

\* The other steps keep the types.
LEMMA OtherType ==
  TypeOK /\ (Crash \/ Watch \/ SettleBegin \/ Settle \/ End \/ Stop) => TypeOK'
<1> SUFFICES ASSUME TypeOK PROVE Crash \/ Watch \/ SettleBegin \/ Settle \/ End \/ Stop => TypeOK'
  OBVIOUS
<1>1. Crash => TypeOK'
  BY RootAssumption DEF TypeOK, Crash, Goes, Places, chan, read, own
<1>2. Watch => TypeOK'
  <2> SUFFICES ASSUME Watch PROVE TypeOK'
    OBVIOUS
  <2>1. closing' \in [Writers -> [Releasers -> Closes]]
    <3>1. "look" \in Closes /\ "watcher" \in Releasers
      BY DEF Closes, Releasers
    <3> QED BY <3>1, RootAssumption DEF TypeOK, Watch, Begins
  <2> QED BY <2>1 DEF TypeOK, Watch, chan, read, own
<1>3. SettleBegin \/ Settle => TypeOK'
  BY DEF TypeOK, SettleBegin, Settle, Settles, StillRuns, WaitState, Owns, chan, write, read
<1>4. End => TypeOK'
  BY DEF TypeOK, End, Owns, chan, write, read
<1>5. Cancel \/ CancelChains \/ Join => TypeOK'
  BY DEF TypeOK, Cancel, CancelChains, Join, Owns, chan, write, read
<1>6. CancelChain => TypeOK'
  <2> SUFFICES ASSUME CancelChain PROVE TypeOK'
    OBVIOUS
  <2>1. Head(tells) \in Writers /\ Tail(tells) \in Seq(Writers)
    BY HeadTailProperties DEF TypeOK, CancelChain
  <2>2. consumed' \in [Writers -> Int] /\ at' \in [Writers -> Places]
    BY <2>1, SetConsumedType DEF CancelChain, CancelMark
  <2> QED BY <2>1, <2>2 DEF TypeOK, CancelChain, read
<1> QED BY <1>1, <1>2, <1>3, <1>4, <1>5, <1>6 DEF Stop

\* Every variable keeps its type.
LEMMA NextType == TypeOK /\ [Next]_vars => TypeOK'
<1>1. TypeOK /\ UNCHANGED vars => TypeOK'
  BY DEF TypeOK, vars, chan, write, read, own
<1>2. TypeOK /\ Next => TypeOK'
  BY WriterType, ReaderType, OtherType DEF Next
<1> QED BY <1>1, <1>2

\* TypeOK in every behaviour.
LEMMA TypesAreRight == Spec => []TypeOK
  BY InitType, NextType, PTL DEF Spec

----------------------------------------------------------------------------
(***************************************************************************)
(* The writers and who closes their outputs.                               *)
(***************************************************************************)

PlaceInv == Opened /\ Tails /\ Closers /\ Closing

\* The places between which a writer goes without touching its chain.
Plain == {"made", "start", "run", "room", "check", "over", "write", "wake",
          "blocked", "wait", "asleep", "woken"}

\* Every writer stays where it is, or goes from one of these to another.
Strolls == \A v \in Writers : at'[v] = at[v] \/ (at[v] \in Plain /\ at'[v] \in Plain)

LEMMA SameMade == UNCHANGED chains => Made' = Made
  BY DEF Made, Range

\* Such a step keeps PlaceInv.
LEMMA StrollPlaces ==
  ASSUME TypeOK, PlaceInv, Strolls, UNCHANGED <<chains, cells, ends, tail, closing>>
  PROVE  PlaceInv'
<1>1. Opened'
  BY SameMade DEF PlaceInv, Opened, Strolls, Plain
<1>2. Tails'
  BY DEF PlaceInv, Tails, Strolls, Plain
<1>3. Closers'
  BY DEF PlaceInv, Closers, Strolls, Plain
<1>4. Closing'
  BY DEF PlaceInv, Closing, Null, Strolls, Plain
<1> QED BY <1>1, <1>2, <1>3, <1>4 DEF PlaceInv

\* The steps of a writer that are of this kind.
Strolling(w) ==
  \/ Room(w) \/ Aborts(w) \/ HasRoom(w) \/ NoRoom(w) \/ SetBlocked(w) \/ WaitRoom(w)
  \/ SetRunning(w) \/ Wake(w) \/ \E c \in Writers : Start(w, c)

LEMMA Stroll ==
  ASSUME TypeOK, NEW w \in Writers, Strolling(w)
  PROVE  Strolls /\ UNCHANGED <<chains, cells, ends, tail, closing, consumed, cancelled, cursors, taken, met, found,
                               k, got, ended, tells>>
<1>1. CASE Room(w)
  BY <1>1 DEF TypeOK, Strolls, Plain, Room, Goes, chan, read, own
<1>2. CASE Aborts(w) \/ HasRoom(w) \/ NoRoom(w) \/ WaitRoom(w)
  BY <1>2 DEF TypeOK, Strolls, Plain, Aborts, HasRoom, NoRoom, WaitRoom, Goes, chan, read, own
<1>3. CASE SetBlocked(w) \/ SetRunning(w)
  BY <1>3 DEF TypeOK, Strolls, Plain, SetBlocked, SetRunning, Goes, read
<1>4. CASE Wake(w)
  BY <1>4 DEF TypeOK, Strolls, Plain, Wake, Goes, own
<1>5. CASE \E c \in Writers : Start(w, c)
  BY <1>5 DEF TypeOK, Strolls, Plain, Start, chan, read, own
<1> QED BY <1>1, <1>2, <1>3, <1>4, <1>5 DEF Strolling

\* Who changes consumed only wakes its writer.
LEMMA ConsumedStrolls ==
  ASSUME TypeOK, NEW w \in Writers, NEW n, SetConsumed(w, n)
  PROVE  /\ Strolls
         /\ \A v \in Writers : at'[v] = at[v] \/ (at[v] = "asleep" /\ at'[v] = "woken")
  BY DEF TypeOK, SetConsumed, Strolls, Plain

\* A new chain.
LEMMA AddedChain ==
  ASSUME TypeOK, Opened, NEW w \in Writers, NEW c \in Writers, Open(w, c)
  PROVE  /\ Made' = Made \cup {c} /\ c \notin Made
         /\ Len(chains') = Len(chains) + 1
         /\ \A i \in DOMAIN chains : chains'[i] = chains[i]
         /\ Opened'
<1>1. c \notin Made /\ c \notin Range(chains) /\ w # c
  BY DEF Opened, Open, Made
<1>2. /\ chains' \in Seq(Writers) /\ Len(chains') = Len(chains) + 1
      /\ \A i \in DOMAIN chains : chains'[i] = chains[i]
      /\ Range(chains') = Range(chains) \cup {c}
      /\ (\A i, j \in DOMAIN chains : chains[i] = chains[j] => i = j) =>
            \A i, j \in DOMAIN chains' : chains'[i] = chains'[j] => i = j
  <2>1. chains \in Seq(Writers) /\ chains' = Append(chains, c)
    BY DEF TypeOK, Open
  <2>2. /\ Append(chains, c) \in Seq(Writers) /\ Len(Append(chains, c)) = Len(chains) + 1
        /\ \A i \in DOMAIN chains : Append(chains, c)[i] = chains[i]
        /\ Range(Append(chains, c)) = Range(chains) \cup {c}
    BY <2>1, Appended
  <2>3. (\A i, j \in DOMAIN chains : chains[i] = chains[j] => i = j) =>
          \A i, j \in DOMAIN Append(chains, c) : Append(chains, c)[i] = Append(chains, c)[j] => i = j
    BY <1>1, <2>1, Appended
  <2> QED BY <2>1, <2>2, <2>3
<1>3. Made' = Made \cup {c}
  BY <1>2 DEF Made
<1>4. /\ at'[c] = "made" /\ at'[w] = "start" /\ at[w] = "run" /\ at[c] = "off"
      /\ \A v \in Writers \ {w, c} : at'[v] = at[v]
  BY <1>1 DEF TypeOK, Open
<1>5. Opened'
  BY <1>2, <1>3, <1>4 DEF Opened, Open
<1> QED BY <1>1, <1>2, <1>3, <1>5

\* The steps of a writer on its chain, and of its start and end.
LEMMA WriterPlaces ==
  ASSUME TypeOK, PlaceInv, NEW w \in Writers
  PROVE  /\ Write(w) \/ Advance(w) \/ Finish(w) \/ Kill(w) => PlaceInv'
         /\ \A c \in Writers : Open(w, c) => PlaceInv'
<1>0. Opened /\ Tails /\ Closers /\ Closing
  BY DEF PlaceInv
<1>1. ASSUME NEW c \in Writers, Open(w, c) PROVE PlaceInv'
  <2>1. /\ at'[c] = "made" /\ at'[w] = "start" /\ at[w] = "run" /\ at[c] = "off"
        /\ \A v \in Writers \ {w, c} : at'[v] = at[v]
        /\ UNCHANGED <<cells, ends, tail, closing>>
    BY <1>1 DEF TypeOK, Open
  <2>2. Tails'
    BY <1>0, <2>1 DEF Tails
  <2>3. Closers'
    BY <1>0, <2>1 DEF Closers
  <2>4. Closing'
    BY <1>0, <2>1 DEF Closing, Null
  <2> QED BY <1>0, <1>1, <2>2, <2>3, <2>4, AddedChain DEF PlaceInv
<1>2. ASSUME Write(w) PROVE PlaceInv'
  <2>1. /\ at[w] = "write" /\ at'[w] = "advance" /\ cells'[w] = cells[w] + 1
        /\ \A v \in Writers \ {w} : at'[v] = at[v] /\ cells'[v] = cells[v]
        /\ UNCHANGED <<chains, ends, tail, closing>>
    BY <1>2 DEF TypeOK, Write, Goes
  <2>2. w \notin ends /\ \A p \in Releasers : closing[w][p] = "no"
    BY <1>0, <2>1 DEF Closers
  <2>3. Opened'
    BY <1>0, <2>1, SameMade DEF Opened
  <2>4. Tails'
    BY <1>0, <2>1, <2>2 DEF Tails
  <2>5. Closers'
    BY <1>0, <2>1 DEF Closers
  <2>6. Closing'
    BY <1>0, <2>1, <2>2 DEF Closing, Null, Releasers
  <2> QED BY <2>3, <2>4, <2>5, <2>6 DEF PlaceInv
<1>3. ASSUME Advance(w) PROVE PlaceInv'
  <2>1. /\ at[w] = "advance" /\ at'[w] = "wake" /\ tail'[w] = tail[w] + 1
        /\ \A v \in Writers \ {w} : at'[v] = at[v] /\ tail'[v] = tail[v]
        /\ UNCHANGED <<chains, ends, cells, closing>>
    BY <1>3 DEF TypeOK, Advance, Goes, chan
  <2>2. w \notin ends /\ \A p \in Releasers : closing[w][p] = "no"
    BY <1>0, <2>1 DEF Closers
  <2>3. Opened'
    BY <1>0, <2>1, SameMade DEF Opened
  <2>4. Tails'
    BY <1>0, <2>1, <2>2 DEF Tails, TypeOK
  <2>5. Closers'
    BY <1>0, <2>1 DEF Closers
  <2>6. Closing'
    BY <1>0, <2>1, <2>2 DEF Closing, Null, Releasers
  <2> QED BY <2>3, <2>4, <2>5, <2>6 DEF PlaceInv
<1>4. ASSUME Finish(w) PROVE PlaceInv'
  <2>1. /\ at[w] \in {"run", "over"} /\ at'[w] = "release"
        /\ \A v \in Writers \ {w} : at'[v] = at[v] /\ closing'[v] = closing[v]
        /\ closing'[w]["self"] = "look"
        /\ \A p \in {"killer", "watcher"} : closing'[w][p] = closing[w][p]
        /\ UNCHANGED <<chains, ends, tail, cells>>
    BY <1>4 DEF TypeOK, Finish, Begins, chan, Releasers
  <2>2. w \notin ends /\ \A p \in Releasers : closing[w][p] = "no"
    BY <1>0, <2>1 DEF Closers
  <2>3. Opened'
    BY <1>0, <2>1, SameMade DEF Opened
  <2>4. Tails'
    BY <1>0, <2>1, <2>2 DEF Tails
  <2>5. Closers'
    BY <1>0, <2>1, <2>2 DEF Closers, Releasers
  <2>6. Closing'
    BY <1>0, <2>1, <2>2 DEF Closing, Null, Releasers
  <2> QED BY <2>3, <2>4, <2>5, <2>6 DEF PlaceInv
<1>5. ASSUME Kill(w) PROVE PlaceInv'
  <2>1. /\ at[w] \in Places \ {"off", "made", "dead", "ended"} /\ at'[w] = "dead" /\ (IsSubst => w # Root)
        /\ closing[w]["killer"] = "no"
        /\ \A v \in Writers \ {w} : at'[v] = at[v] /\ closing'[v] = closing[v]
        /\ closing'[w]["killer"] = "look"
        /\ \A p \in {"self", "watcher"} : closing'[w][p] = closing[w][p]
        /\ UNCHANGED <<chains, ends, tail, cells>>
    BY <1>5 DEF TypeOK, Kill, Begins, chan, Releasers
  <2>2. closing[w]["watcher"] = "no"
    BY <1>0, <2>1 DEF Closers, Releasers
  <2>3. Opened'
    BY <1>0, <2>1, SameMade DEF Opened
  <2>4. Tails'
    BY <1>0, <2>1, <2>2 DEF Tails
  <2>5. Closers'
    BY <1>0, <2>1, <2>2 DEF Closers, Releasers
  <2>6. Closing'
    BY <1>0, <2>1, <2>2 DEF Closing, Null, Releasers
  <2> QED BY <2>3, <2>4, <2>5, <2>6 DEF PlaceInv
<1> QED BY <1>1, <1>2, <1>3, <1>4, <1>5

\* A step of who closes the output of w.
LEMMA ReleasePlaces ==
  ASSUME TypeOK, PlaceInv, NEW w \in Writers, NEW p \in Releasers, Release(w, p)
  PROVE  PlaceInv'
<1>0. Opened /\ Tails /\ Closers /\ Closing
  BY DEF PlaceInv
<1>1. PICK from \in Closes, to \in Closes :
        /\ Releases(w, p, from, to)
        /\ \/ from = "look" /\ to = "end" /\ Null(w) /\ ends' = ends
           \/ from = "look" /\ to \in {"state", "over"} /\ ends' = ends
           \/ from = "end" /\ to = "wake" /\ ends' = ends \cup {w}
           \/ from = "wake" /\ to \in {"state", "over"} /\ ends' = ends
           \/ from = "state" /\ to = "over" /\ ends' = ends
  BY DEF Release, Look, SetEnd, WakeEnd, SetDone, Closed, Closes, chan
<1>2. UNCHANGED <<chains, cells, tail>>
  BY DEF Release, Look, SetEnd, WakeEnd, SetDone, Releases, chan
<1>3. /\ closing[w][p] = from /\ closing'[w][p] = to /\ (p = "self" => at[w] # "dead")
      /\ \A q \in Releasers \ {p} : closing'[w][q] = closing[w][q]
      /\ \A v \in Writers \ {w} : closing'[v] = closing[v] /\ at'[v] = at[v]
      /\ at'[w] = IF p = "self" /\ to = "over" THEN "ended" ELSE at[w]
  BY <1>1 DEF TypeOK, Releases
<1>4. /\ p = "self" => at[w] = "release"
      /\ p = "killer" => at[w] = "dead"
      /\ p = "watcher" => at[w] \in {"dead", "ended"}
      /\ at[w] \in {"release", "ended", "dead"}
  BY <1>0, <1>1, <1>3 DEF Closers, Releasers
<1>5. Opened'
  BY <1>0, <1>2, <1>3, <1>4, SameMade DEF Opened
<1>6. Tails'
  <2>1. from = "end" => cells[w] = tail[w]
    BY <1>0, <1>3 DEF Closing, Null
  <2> QED BY <1>0, <1>1, <1>2, <1>3, <1>4, <2>1 DEF Tails
<1>7. Closers'
  <2>1. ASSUME NEW v \in Writers \ {w}
        PROVE  at'[v] = at[v] /\ closing'[v] = closing[v] /\ (v \in ends' <=> v \in ends)
    BY <1>1, <1>3
  <2>2. CASE p = "self"
    BY <1>0, <1>1, <1>3, <1>4, <2>1, <2>2 DEF Closers, Releasers
  <2>3. CASE p = "killer"
    BY <1>0, <1>1, <1>3, <1>4, <2>1, <2>3 DEF Closers, Releasers
  <2>4. CASE p = "watcher"
    BY <1>0, <1>1, <1>3, <1>4, <2>1, <2>4 DEF Closers, Releasers
  <2> QED BY <2>2, <2>3, <2>4 DEF Releasers
<1>8. Closing'
  <2>1. ASSUME NEW q \in Releasers, closing'[w][q] = "end", q = "self" => at'[w] # "dead", q # p
        PROVE  from # "end"
    BY <1>0, <1>3, <1>4, <2>1 DEF Closers, Releasers
  <2>2. from = "end" => closing'[w]["self"] # "look" \/ at'[w] = "dead"
    BY <1>0, <1>1, <1>3, <1>4 DEF Closers, Releasers
  <2>3. \A q \in Releasers : closing'[w][q] = "wake" => w \in ends'
    BY <1>0, <1>1, <1>3 DEF Closing
  <2>4. ASSUME NEW q \in Releasers, closing'[w][q] = "end", q = "self" => at'[w] # "dead" PROVE Null(w)'
    <3>1. q = "self" => at[w] # "dead"
      BY <1>3, <2>4
    <3>2. Null(w) /\ from # "end"
      BY <1>0, <1>1, <1>3, <2>1, <2>4, <3>1 DEF Closing
    <3> QED BY <1>1, <1>2, <3>2 DEF Null
  <2>5. closing'[w]["self"] = "look" /\ at'[w] # "dead" => w \notin ends'
    BY <1>0, <1>1, <1>3, <2>2 DEF Closing, Releasers
  <2>6. ASSUME NEW v \in Writers \ {w}
        PROVE  /\ at'[v] = at[v] /\ closing'[v] = closing[v] /\ (v \in ends' <=> v \in ends)
               /\ Null(v)' = Null(v)
    BY <1>1, <1>2, <1>3 DEF Null
  <2> QED BY <1>0, <2>3, <2>4, <2>5, <2>6 DEF Closing
<1> QED BY <1>5, <1>6, <1>7, <1>8 DEF PlaceInv

\* The other steps.
LEMMA OtherPlaces ==
  ASSUME TypeOK, PlaceInv
  PROVE  ReadToken \/ Evaluate \/ Crash \/ Watch \/ SettleBegin \/ Settle \/ End \/ Stop => PlaceInv'
<1>0. Opened /\ Tails /\ Closers /\ Closing
  BY DEF PlaceInv
<1>1. PutConsumed => PlaceInv'
  <2> SUFFICES ASSUME PutConsumed PROVE PlaceInv'
    OBVIOUS
  <2>1. Looked \in Writers /\ SetConsumed(Looked, found + 1)
    BY DEF TypeOK, PutConsumed, Looked
  <2>2. UNCHANGED <<chains, cells, ends, tail, closing>>
    BY DEF PutConsumed
  <2> QED BY <2>1, <2>2, ConsumedStrolls, StrollPlaces
<1>2. CancelChain => PlaceInv'
  <2> SUFFICES ASSUME CancelChain PROVE PlaceInv'
    OBVIOUS
  <2>1. Head(tells) \in Writers /\ SetConsumed(Head(tells), -1)
    BY HeadTailProperties DEF TypeOK, CancelChain, CancelMark
  <2>2. UNCHANGED <<chains, cells, ends, tail, closing>>
    BY DEF CancelChain
  <2> QED BY <2>1, <2>2, ConsumedStrolls, StrollPlaces
<1>3. ASSUME Crash \/ Watch PROVE PlaceInv'
  <2>1. /\ UNCHANGED <<chains, ends, tail, cells>> /\ IsSubst
        /\ \A v \in Writers \ {Root} : at'[v] = at[v] /\ closing'[v] = closing[v]
        /\ \/ at[Root] = "run" /\ at'[Root] = "dead" /\ closing' = closing
           \/ /\ at[Root] \in {"ended", "dead"} /\ at'[Root] = at[Root]
              /\ closing[Root]["watcher"] = "no" /\ closing'[Root]["watcher"] = "look"
              /\ \A p \in {"self", "killer"} : closing'[Root][p] = closing[Root][p]
    BY <1>3, RootAssumption DEF TypeOK, Crash, Watch, Goes, Begins, chan, Releasers
  <2>2. Opened'
    BY <1>0, <2>1, SameMade DEF Opened
  <2>3. Tails'
    BY <1>0, <2>1, RootAssumption DEF Tails
  <2>4. Closers'
    BY <1>0, <2>1, RootAssumption DEF Closers, Releasers
  <2>5. Closing'
    BY <1>0, <2>1, RootAssumption DEF Closing, Closers, Null, Releasers
  <2> QED BY <2>2, <2>3, <2>4, <2>5 DEF PlaceInv
<1>4. ASSUME \/ ReadToken \/ RegisterFresh \/ RegisterAgain \/ RegisterLast \/ TakeElement \/ TakeEnd
             \/ TakeNothing \/ GetConsumed \/ WaitWake \/ SettleBegin \/ Settle \/ End
             \/ Cancel \/ CancelChains \/ Join
      PROVE  PlaceInv'
  <2>1. UNCHANGED <<chains, cells, ends, tail, closing, at>>
    BY <1>4 DEF ReadToken, RegisterFresh, RegisterAgain, RegisterLast, Register, TakeElement, TakeEnd,
      TakeNothing, GetConsumed, WaitWake, SettleBegin, Settle, Settles, StillRuns, WaitState, End,
      Cancel, CancelChains, Join, chan, write
  <2> QED BY <2>1, StrollPlaces DEF Strolls
<1> QED BY <1>1, <1>2, <1>3, <1>4 DEF Evaluate, Stop

LEMMA NextPlaces == TypeOK /\ PlaceInv /\ [Next]_vars => PlaceInv'
<1> SUFFICES ASSUME TypeOK, PlaceInv, [Next]_vars PROVE PlaceInv'
  OBVIOUS
<1>1. CASE UNCHANGED vars
  BY <1>1, StrollPlaces DEF vars, chan, write, Strolls
<1>2. ASSUME NEW w \in Writers, Strolling(w) PROVE PlaceInv'
  BY <1>2, Stroll, StrollPlaces
<1>3. CASE Next
  BY <1>2, <1>3, WriterPlaces, ReleasePlaces, OtherPlaces DEF Next, Put, Strolling
<1> QED BY <1>1, <1>3

\* The initial channel has one open chain.
LEMMA InitPlaces == Init => PlaceInv /\ Made = {Root}
<1> SUFFICES ASSUME Init PROVE PlaceInv /\ Made = {Root}
  OBVIOUS
<1>1. Made = {Root} /\ \A i, j \in DOMAIN chains : i = j
  BY DEF Init, Made, Range
<1>2. Opened
  BY <1>1 DEF Init, Opened
<1>3. Tails
  BY DEF Init, Tails
<1>4. Closers
  BY DEF Init, Closers, Releasers
<1>5. Closing
  BY DEF Init, Closing, Releasers
<1> QED BY <1>1, <1>2, <1>3, <1>4, <1>5 DEF PlaceInv

LEMMA PlacesAreRight == Spec => [](TypeOK /\ PlaceInv)
  BY InitType, NextType, InitPlaces, NextPlaces, PTL DEF Spec

----------------------------------------------------------------------------
(***************************************************************************)
(* What is counted and what the cursors are.                               *)
(***************************************************************************)

LEMMA InitFifo == Init => FifoInv
<1> SUFFICES ASSUME Init PROVE FifoInv
  OBVIOUS
<1>1. Counts
  BY DEF Init, Counts, Serves
<1>2. Registered = {} /\ Range(cursors) = {}
  BY DEF Init, Registered, Range
<1>3. Cursors
  BY <1>2 DEF Init, Cursors
<1>4. Ending
  BY DEF Init, Ending
<1> QED BY <1>1, <1>3, <1>4, InitPlaces DEF FifoInv, PlaceInv

\* Registered chains stay so.
LEMMA SameRegistered ==
  ASSUME TypeOK, UNCHANGED met,
         \A i \in DOMAIN chains : chains'[i] = chains[i]
  PROVE  Registered' = Registered
<1>1. \A i \in 1 .. met : i \in DOMAIN chains
  BY DEF TypeOK
<1> QED BY <1>1 DEF Registered

\* A step that leaves the reader and what it has taken alone.
LEMMA SameCursors ==
  ASSUME TypeOK, Cursors, UNCHANGED <<cursors, met, taken>>,
         \A i \in DOMAIN chains : chains'[i] = chains[i],
         ends \subseteq ends', \A w \in ends : cells'[w] = cells[w]
  PROVE  Cursors'
  BY SameRegistered DEF Cursors, Range

\* The cursors after Chan_register.
LEMMA RegisterCursors ==
  ASSUME TypeOK, Opened, Cursors, Register, UNCHANGED taken
  PROVE  Cursors' /\ Registered' = Made /\ Range(cursors') = Range(cursors) \cup (Made \ Registered)
<1> DEFINE new == NewCursors
<1>1. /\ cursors' = cursors \o new /\ met' = Len(chains) /\ UNCHANGED <<chains, ends, cells>>
      /\ cursors \in Seq(Writers) /\ new \in Seq(Writers) /\ Len(new) = Len(chains) - met
      /\ Len(chains) \in Nat /\ met \in Nat /\ met <= Len(chains) /\ DOMAIN chains = 1 .. Len(chains)
      /\ \A i \in DOMAIN new : met + i \in DOMAIN chains /\ new[i] = chains[met + i]
  BY NewOnes DEF TypeOK, Register, chan
<1> HIDE DEF new
<1>2. /\ DOMAIN cursors' = 1 .. Len(cursors) + Len(new) /\ Len(cursors) \in Nat /\ Len(new) \in Nat
      /\ DOMAIN cursors = 1 .. Len(cursors) /\ DOMAIN new = 1 .. Len(new)
      /\ \A i \in DOMAIN cursors' :
           cursors'[i] = IF i <= Len(cursors) THEN cursors[i] ELSE new[i - Len(cursors)]
  <2>1. /\ cursors \o new \in Seq(Writers) /\ Len(cursors \o new) = Len(cursors) + Len(new)
        /\ \A i \in 1 .. Len(cursors) + Len(new) :
             (cursors \o new)[i] = IF i <= Len(cursors) THEN cursors[i] ELSE new[i - Len(cursors)]
    BY <1>1, ConcatProperties, ZenonT(60)
  <2>2. Len(cursors) \in Nat /\ Len(new) \in Nat /\ DOMAIN cursors = 1 .. Len(cursors) /\ DOMAIN new = 1 .. Len(new)
    BY <1>1
  <2>3. DOMAIN (cursors \o new) = 1 .. Len(cursors) + Len(new)
    BY <2>1
  <2> QED BY <1>1, <2>1, <2>2, <2>3
<1>3. Registered' = Made
  BY <1>1 DEF Registered, Made, Range
<1>4. \A i \in DOMAIN new : new[i] \in Made \ Registered
  <2> SUFFICES ASSUME NEW i \in DOMAIN new PROVE new[i] \in Made \ Registered
    OBVIOUS
  <2>1. new[i] \in Made
    BY <1>1 DEF Made, Range
  <2>2. ASSUME NEW j \in 1 .. met, chains[j] = chains[met + i] PROVE FALSE
    <3>1. j \in DOMAIN chains /\ met + i \in DOMAIN chains /\ j # met + i
      BY <1>1, <1>2
    <3> QED BY <2>2, <3>1 DEF Opened
  <2> QED BY <1>1, <2>1, <2>2 DEF Registered
<1>5. \A w \in Made \ Registered : \E i \in DOMAIN new : new[i] = w
  <2> SUFFICES ASSUME NEW w \in Made \ Registered PROVE \E i \in DOMAIN new : new[i] = w
    OBVIOUS
  <2>1. PICK j \in DOMAIN chains : chains[j] = w
    BY DEF Made, Range
  <2>2. ~(j <= met)
    BY <1>1, <2>1 DEF Registered
  <2>3. j - met \in DOMAIN new /\ met + (j - met) = j
    BY <1>1, <1>2, <2>2
  <2>4. new[j - met] = chains[met + (j - met)]
    BY <1>1, <2>3
  <2> QED BY <2>1, <2>3, <2>4
<1>6. Range(cursors') = Range(cursors) \cup (Made \ Registered)
  <2>1. ASSUME NEW i \in DOMAIN cursors' PROVE cursors'[i] \in Range(cursors) \cup (Made \ Registered)
    <3>1. CASE i <= Len(cursors)
      BY <1>2, <3>1 DEF Range
    <3>2. CASE ~(i <= Len(cursors))
      <4>1. i - Len(cursors) \in DOMAIN new
        BY <1>2, <3>2
      <4> QED BY <1>2, <1>4, <3>2, <4>1
    <3> QED BY <3>1, <3>2
  <2>2. ASSUME NEW i \in DOMAIN cursors PROVE cursors[i] \in Range(cursors')
    <3>1. i \in DOMAIN cursors' /\ cursors'[i] = cursors[i]
      BY <1>2
    <3> QED BY <3>1 DEF Range
  <2>3. ASSUME NEW i \in DOMAIN new PROVE new[i] \in Range(cursors')
    <3>1. Len(cursors) + i \in DOMAIN cursors' /\ cursors'[Len(cursors) + i] = new[i]
      <4>1. Len(cursors) + i \in DOMAIN cursors' /\ ~(Len(cursors) + i <= Len(cursors)) /\ Len(cursors) + i - Len(cursors) = i
        BY <1>2
      <4> QED BY <1>2, <4>1
    <3> QED BY <3>1 DEF Range
  <2> QED BY <1>5, <2>1, <2>2, <2>3 DEF Range
<1>7. ASSUME NEW i \in DOMAIN cursors', NEW j \in DOMAIN cursors', cursors'[i] = cursors'[j] PROVE i = j
  <2>1. \A x \in DOMAIN cursors : cursors[x] \in Registered
    BY DEF Cursors, Range
  <2>2. \A x, y \in DOMAIN new : new[x] = new[y] => x = y
    <3> SUFFICES ASSUME NEW x \in DOMAIN new, NEW y \in DOMAIN new, new[x] = new[y] PROVE x = y
      OBVIOUS
    <3>1. met + x = met + y
      BY <1>1 DEF Opened
    <3> QED BY <1>1, <1>2, <3>1
  <2>3. CASE i <= Len(cursors) /\ j <= Len(cursors)
    BY <1>2, <1>7, <2>3 DEF Cursors
  <2>4. CASE i <= Len(cursors) /\ ~(j <= Len(cursors))
    <3>1. i \in DOMAIN cursors /\ j - Len(cursors) \in DOMAIN new
      BY <1>2, <2>4
    <3> QED BY <1>2, <1>4, <1>7, <2>1, <2>4, <3>1
  <2>5. CASE ~(i <= Len(cursors)) /\ j <= Len(cursors)
    <3>1. j \in DOMAIN cursors /\ i - Len(cursors) \in DOMAIN new
      BY <1>2, <2>5
    <3> QED BY <1>2, <1>4, <1>7, <2>1, <2>5, <3>1
  <2>6. CASE ~(i <= Len(cursors)) /\ ~(j <= Len(cursors))
    <3>1. i - Len(cursors) \in DOMAIN new /\ j - Len(cursors) \in DOMAIN new
      BY <1>2, <2>6
    <3>2. i - Len(cursors) = j - Len(cursors)
      BY <1>2, <1>7, <2>2, <2>6, <3>1
    <3> QED BY <1>2, <3>2
  <2> QED BY <2>3, <2>4, <2>5, <2>6
<1>8. Range(cursors') \subseteq Registered'
  <2>1. Registered \subseteq Made
    BY <1>1 DEF Registered, Made, Range
  <2> QED BY <1>3, <1>6, <2>1 DEF Cursors
<1>9. \A w \in Registered' \ Range(cursors') : w \in ends' /\ taken'[w] = cells'[w]
  BY <1>1, <1>3, <1>6 DEF Cursors
<1> QED BY <1>3, <1>6, <1>7, <1>8, <1>9 DEF Cursors

\* The cursors after PutConsumed are the same, in another order.
LEMMA PutCursors ==
  ASSUME TypeOK, Cursors, PutConsumed
  PROVE  Cursors'
<1> DEFINE r == RemoveAt(cursors, k)
<1>1. /\ k \in DOMAIN cursors /\ cursors \in Seq(Writers) /\ cursors[k] \in Writers /\ cursors[k] \in Range(cursors)
      /\ \A x, y \in DOMAIN cursors : cursors[x] = cursors[y] => x = y
  <2>1. k \in DOMAIN cursors /\ cursors \in Seq(Writers)
    BY DEF TypeOK, PutConsumed
  <2>2. cursors[k] \in Writers /\ cursors[k] \in Range(cursors)
    BY <2>1 DEF Range
  <2> QED BY <2>1, <2>2 DEF Cursors
<1>2. r \in Seq(Writers) /\ Range(r) = Range(cursors) \ {cursors[k]} /\ \A x, y \in DOMAIN r : r[x] = r[y] => x = y
  BY <1>1, Removed, RemovedRange
<1> HIDE DEF r
<1> DEFINE l == Append(r, cursors[k])
<1>3. Range(l) = Range(cursors) /\ \A x, y \in DOMAIN l : l[x] = l[y] => x = y
  <2>1. Range(l) = Range(r) \cup {cursors[k]}
    BY <1>1, <1>2, Appended
  <2>2. cursors[k] \notin Range(r)
    BY <1>2
  <2>3. \A x, y \in DOMAIN l : l[x] = l[y] => x = y
    BY <1>1, <1>2, <2>2, Appended
  <2> HIDE DEF l
  <2> QED BY <1>1, <1>2, <2>1, <2>3
<1>4. cursors' = l /\ UNCHANGED <<chains, met, ends, cells, taken>>
  BY DEF PutConsumed, r, Looked
<1> HIDE DEF l
<1>5. Registered' = Registered
  BY <1>4 DEF Registered
<1> QED BY <1>3, <1>4, <1>5 DEF Cursors

\* A step of Plain places.
LEMMA StrollFifo ==
  ASSUME TypeOK, FifoInv, NEW w \in Writers, Strolling(w)
  PROVE  Counts' /\ Cursors' /\ Ending' /\ UNCHANGED Channel!vars
<1>0. Opened /\ Tails /\ Closers /\ Closing /\ Counts /\ Cursors /\ Ending
  BY DEF FifoInv
<1>1. UNCHANGED <<chains, cells, ends, tail, closing, consumed, cancelled, cursors, taken, met, found, k, got, ended, tells>>
  BY Stroll
<1>2. reader' = reader \/ (reader = "asleep" /\ reader' = "next")
  BY DEF Strolling, Room, Aborts, HasRoom, NoRoom, SetBlocked, WaitRoom, SetRunning, Wake, SetWake, Start, read
<1>3. \A v \in Writers : Serves(v)' = Serves(v)
  BY <1>1, <1>2 DEF Serves, Looked
<1>4. Counts'
  <2>1. CASE Room(w)
    <3>1. /\ expects'[w] = consumed[w] /\ \A v \in Writers \ {w} : expects'[v] = expects[v] /\ at'[v] = at[v]
          /\ at'[w] = "check" /\ reader' = reader
      BY <2>1 DEF TypeOK, Room, Goes, read
    <3> QED BY <1>0, <1>1, <1>3, <3>1 DEF Counts, Full
  <2>2. CASE ~Room(w)
    <3>1. expects' = expects
      BY <2>2 DEF Strolling, Aborts, HasRoom, NoRoom, SetBlocked, WaitRoom, SetRunning, Wake, Start
    <3>2. \A v \in Writers : at'[v] = "write" => at[v] = "write" \/ ~Full(v)
      BY <2>2 DEF TypeOK, Strolling, Aborts, HasRoom, NoRoom, SetBlocked, WaitRoom, SetRunning, Wake, Start, Goes
    <3> QED BY <1>0, <1>1, <1>2, <1>3, <3>1, <3>2 DEF Counts, Full
  <2> QED BY <2>1, <2>2
<1>5. Cursors'
  BY <1>0, <1>1, SameCursors
<1>6. Ending'
  BY <1>0, <1>1, <1>2, SameMade DEF Ending
<1>7. UNCHANGED Channel!vars
  BY <1>1, SameMade DEF Channel!vars
<1> QED BY <1>4, <1>5, <1>6, <1>7

\* The other steps of a writer.
LEMMA WriterFifo ==
  ASSUME TypeOK, FifoInv, NEW w \in Writers
  PROVE  /\ Write(w) \/ Advance(w) \/ Finish(w) \/ Kill(w) =>
              Counts' /\ Cursors' /\ Ending' /\ [Channel!Next]_(Channel!vars)
         /\ \A c \in Writers : Open(w, c) => Counts' /\ Cursors' /\ Ending' /\ [Channel!Next]_(Channel!vars)
         /\ \A p \in Releasers : Release(w, p) => Counts' /\ Cursors' /\ Ending' /\ [Channel!Next]_(Channel!vars)
<1>0. Opened /\ Tails /\ Closers /\ Closing /\ Counts /\ Cursors /\ Ending
  BY DEF FifoInv
<1>1. ASSUME Write(w) PROVE Counts' /\ Cursors' /\ Ending' /\ [Channel!Next]_(Channel!vars)
  <2>1. /\ at[w] = "write" /\ at'[w] = "advance" /\ cells' = [cells EXCEPT ![w] = @ + 1] /\ cells'[w] = cells[w] + 1
        /\ \A v \in Writers \ {w} : at'[v] = at[v] /\ cells'[v] = cells[v]
        /\ UNCHANGED <<chains, ends, tail, consumed, expects, reader, cursors, k, taken, met, found, got, ended>>
    BY <1>1 DEF TypeOK, Write, Goes, read
  <2>2. w \notin ends /\ w \in Made /\ ~Full(w) /\ cells[w] = tail[w]
    BY <1>0, <2>1 DEF Closers, Opened, Counts, Tails
  <2>3. cells[w] < taken[w] + Cap
    BY <1>0, <2>2, BoundAssumption DEF TypeOK, Counts, Full
  <2>4. Counts'
    <3>1. \A v \in Writers : Serves(v)' = Serves(v) /\ Full(v)' = Full(v)
      BY <2>1 DEF Serves, Looked, Full
    <3>2. \A v \in Writers : taken[v] <= cells'[v]
      BY <1>0, <2>1 DEF Counts, TypeOK
    <3> QED BY <1>0, <2>1, <3>1, <3>2 DEF Counts
  <2>5. Cursors'
    BY <1>0, <2>1, <2>2, SameCursors DEF TypeOK
  <2>6. ~ended
    BY <1>0, <2>2 DEF Ending
  <2>7. Channel!Put(w)
    BY <2>1, <2>2, <2>3, SameMade DEF Channel!Put
  <2> QED BY <1>0, <2>1, <2>4, <2>5, <2>6, <2>7 DEF Ending, Channel!Next
<1>2. ASSUME Advance(w) \/ Finish(w) \/ Kill(w) PROVE Counts' /\ Cursors' /\ Ending' /\ [Channel!Next]_(Channel!vars)
  <2>1. /\ \A v \in Writers \ {w} : at'[v] = at[v] /\ tail'[v] = tail[v]
        /\ at'[w] # "write"
        /\ UNCHANGED <<chains, cells, ends, consumed, expects, reader, cursors, k, taken, met, found, got, ended>>
    BY <1>2 DEF TypeOK, Advance, Finish, Kill, Goes, chan, read
  <2>2. Counts'
    <3>1. \A v \in Writers : Serves(v)' = Serves(v)
      BY <2>1 DEF Serves, Looked
    <3>2. \A v \in Writers \ {w} : Full(v)' = Full(v)
      BY <2>1 DEF Full
    <3> QED BY <1>0, <2>1, <3>1, <3>2 DEF Counts
  <2>3. Cursors'
    BY <1>0, <2>1, SameCursors
  <2>4. Ending' /\ UNCHANGED Channel!vars
    BY <1>0, <2>1, SameMade DEF Ending, Channel!vars
  <2> QED BY <2>2, <2>3, <2>4
<1>3. ASSUME NEW c \in Writers, Open(w, c) PROVE Counts' /\ Cursors' /\ Ending' /\ [Channel!Next]_(Channel!vars)
  <2>1. /\ at[w] = "run" /\ at'[w] # "write" /\ at'[c] # "write"
        /\ \A v \in Writers \ {w, c} : at'[v] = at[v]
        /\ UNCHANGED <<cells, ends, tail, consumed, expects, reader, cursors, k, taken, met, found, got, ended>>
    BY <1>3 DEF TypeOK, Open, read
  <2>2. Made' = Made \cup {c} /\ c \notin Made /\ \A i \in DOMAIN chains : chains'[i] = chains[i]
    BY <1>0, <1>3, AddedChain
  <2>3. w \in Made /\ w \notin ends
    BY <1>0, <2>1 DEF Opened, Closers
  <2>4. ~ended
    BY <1>0, <2>3 DEF Ending
  <2>5. Counts'
    <3>1. \A v \in Writers : Serves(v)' = Serves(v) /\ Full(v)' = Full(v)
      BY <2>1 DEF Serves, Looked, Full
    <3> QED BY <1>0, <2>1, <3>1 DEF Counts
  <2>6. Cursors'
    BY <1>0, <2>1, <2>2, SameCursors
  <2>7. Channel!Open(c)
    BY <2>1, <2>2, <2>4 DEF Channel!Open
  <2> QED BY <1>0, <2>1, <2>4, <2>5, <2>6, <2>7 DEF Ending, Channel!Next
<1>4. ASSUME NEW p \in Releasers, Release(w, p) PROVE Counts' /\ Cursors' /\ Ending' /\ [Channel!Next]_(Channel!vars)
  <2>1. /\ \A v \in Writers : at'[v] = at[v] \/ at'[v] = "ended"
        /\ UNCHANGED <<chains, cells, tail, consumed, expects, cursors, k, taken, met, found, got, ended>>
        /\ reader' = reader \/ (reader = "asleep" /\ reader' = "next")
        /\ ends' = ends \/ SetEnd(w, p)
    BY <1>4 DEF TypeOK, Release, Look, SetEnd, WakeEnd, SetDone, SetWake, Releases, chan, read
  <2>2. SetEnd(w, p) => ends' = ends \cup {w} /\ w \notin ends /\ w \in Made
    BY <1>0 DEF SetEnd, Releases, Closing, Null, Closers, Opened
  <2>3. Counts'
    <3>1. \A v \in Writers : Serves(v)' = Serves(v) /\ Full(v)' = Full(v)
      BY <2>1 DEF Serves, Looked, Full
    <3> QED BY <1>0, <2>1, <3>1 DEF Counts
  <2>4. Cursors'
    BY <1>0, <2>1, <2>2, SameCursors
  <2>5. Ending'
    BY <1>0, <2>1, <2>2, SameMade DEF Ending
  <2>6. CASE ends' = ends
    BY <2>1, <2>3, <2>4, <2>5, <2>6, SameMade DEF Channel!vars
  <2>7. CASE SetEnd(w, p)
    <3>1. Channel!Close(w)
      BY <2>1, <2>2, <2>7, SameMade DEF Channel!Close
    <3> QED BY <2>3, <2>4, <2>5, <3>1 DEF Channel!Next
  <2> QED BY <2>1, <2>6, <2>7
<1> QED BY <1>1, <1>2, <1>3, <1>4

\* The steps of the reader.
LEMMA ReaderFifo ==
  ASSUME TypeOK, FifoInv, ReadToken \/ Evaluate
  PROVE  Counts' /\ Cursors' /\ Ending' /\ [Channel!Next]_(Channel!vars)
<1>0. Opened /\ Tails /\ Closers /\ Closing /\ Counts /\ Cursors /\ Ending
  BY DEF FifoInv
\* Steps after which the reader serves no writer, and no count changes.
<1>1. ASSUME UNCHANGED <<chains, cells, ends, consumed, taken, write>>, reader' \notin {"get", "set"}
      PROVE  Counts'
  <2>1. \A v \in Writers : ~Serves(v)' /\ Full(v)' = Full(v)
    BY <1>1 DEF Serves, Full, write
  <2> QED BY <1>0, <1>1, <2>1 DEF Counts, write
<1>2. CASE ReadToken
  <2>1. /\ UNCHANGED <<chains, cells, ends, consumed, taken, write, cursors, met, got, ended>>
        /\ reader' \in {"fresh", "scan"} /\ ~ended
    BY <1>0, <1>2 DEF ReadToken, MayRead, Ending
  <2>2. Cursors'
    BY <1>0, <2>1, SameCursors
  <2>3. Ending' /\ UNCHANGED Channel!vars
    BY <2>1, SameMade DEF Ending, Channel!vars
  <2> QED BY <1>1, <2>1, <2>2, <2>3
<1>3. CASE RegisterFresh \/ RegisterAgain
  <2>1. /\ Register /\ UNCHANGED <<chains, cells, ends, consumed, taken, write, got, ended>>
        /\ reader' \in {"scan", "rescan"} /\ ~ended
    BY <1>0, <1>3 DEF RegisterFresh, RegisterAgain, Exhausted, Register, chan, Ending
  <2>2. Cursors'
    BY <1>0, <2>1, RegisterCursors
  <2>3. Ending' /\ UNCHANGED Channel!vars
    BY <2>1, SameMade DEF Ending, Channel!vars
  <2> QED BY <1>1, <2>1, <2>2, <2>3
<1>4. CASE RegisterLast
  <2>1. /\ Register /\ UNCHANGED <<chains, cells, ends, consumed, taken, write, got>>
        /\ reader' \in {"next", "idle"} /\ cursors = <<>> /\ ended' = ~NewChain
        /\ NewChain => reader' = "next"
        /\ ~NewChain => reader' = "idle"
    BY <1>4 DEF RegisterLast, Register, chan
  <2>2. Cursors'
    BY <1>0, <2>1, RegisterCursors
  <2>3. CASE NewChain
    <3>1. ended' = FALSE /\ ended = FALSE
      BY <1>0, <1>4, <2>1, <2>3 DEF RegisterLast, Exhausted, Ending, TypeOK
    <3>2. Ending' /\ UNCHANGED Channel!vars
      BY <2>1, <3>1, SameMade DEF Ending, Channel!vars
    <3> QED BY <1>1, <2>1, <2>2, <3>2
  <2>4. CASE ~NewChain
    <3>1. Made \subseteq Registered
      <4>1. met = Len(chains) /\ DOMAIN chains = 1 .. Len(chains)
        BY <2>4 DEF NewChain, TypeOK
      <4> QED BY <4>1 DEF Made, Range, Registered
    <3>2. Range(cursors) = {}
      BY <2>1 DEF Range
    <3>3. \A w \in Made : w \in ends /\ taken[w] = cells[w]
      BY <1>0, <3>1, <3>2 DEF Cursors
    <3>4. Ending'
      BY <2>1, <2>4, <3>3, SameMade DEF Ending
    <3>5. Made = ends /\ taken = cells
      <4>1. \A w \in Writers : w \notin Made => w \notin ends /\ cells[w] = 0 /\ taken[w] = 0
        <5>1. \A w \in Writers : w \notin Made => at[w] = "off"
          BY <1>0 DEF Opened
        <5>2. \A w \in Writers : at[w] = "off" => w \notin ends /\ cells[w] = 0
          BY <1>0 DEF Opened, Closers
        <5>3. \A w \in Writers : taken[w] \in Nat /\ taken[w] <= cells[w]
          BY <1>0 DEF Counts, TypeOK
        <5>4. \A w \in Writers : cells[w] = 0 => taken[w] = 0
          BY <5>3
        <5> QED BY <5>1, <5>2, <5>4
      <4>2. \A w \in Made : w \in Writers
        BY DEF Made, Range, TypeOK
      <4>3. \A w \in Writers : taken[w] = cells[w]
        BY <3>3, <4>1
      <4>4. taken = cells
        BY <4>3 DEF TypeOK
      <4>5. ends \in SUBSET Writers
        BY DEF TypeOK
      <4> QED BY <3>3, <4>1, <4>2, <4>4, <4>5
    <3>6. Channel!End
      BY <2>1, <2>4, <3>5, SameMade DEF Channel!End
    <3> QED BY <1>1, <2>1, <2>2, <3>4, <3>6 DEF Channel!Next
  <2> QED BY <2>3, <2>4
<1>5. ASSUME Looking PROVE k \in DOMAIN cursors /\ Looked \in Writers /\ Looked \in Range(cursors)
  BY <1>5, SMTT(30) DEF TypeOK, Looking, Looked, Range
<1>6. CASE TakeElement
  <2> DEFINE w == Looked
  <2>1. /\ w \in Writers /\ w \in Range(cursors) /\ reader \in {"scan", "rescan"} /\ taken[w] < cells[w]
    BY <1>5, <1>6 DEF TakeElement, Looking
  <2>2. /\ taken' = [taken EXCEPT ![w] = @ + 1] /\ got' = Append(got, <<w, taken[w] + 1>>)
        /\ UNCHANGED <<chains, cells, ends, consumed, tail, expects, at, cursors, met, k, ended>> /\ reader' = "get"
        /\ Looked' = Looked
    BY <1>6 DEF TakeElement, chan, write, Looked
  <2> HIDE DEF w
  <2>3. taken'[w] = taken[w] + 1 /\ \A v \in Writers \ {w} : taken'[v] = taken[v]
    BY <2>1, <2>2 DEF TypeOK
  <2>4. ~ended
    BY <1>0, <2>1 DEF Ending
  <2>5. Counts'
    <3>1. \A v \in Writers : (Serves(v)' => v = w) /\ Full(v)' = Full(v)
      BY <2>2 DEF Serves, Full, w
    <3>6. \A v \in Writers : taken[v] \in Nat /\ cells[v] \in Nat /\ consumed[v] \in Int /\ expects[v] \in Int
      BY DEF TypeOK
    <3>7. \A v \in Writers : taken[v] <= cells[v] /\ consumed[v] <= taken[v] /\ expects[v] <= taken[v]
      BY <1>0 DEF Counts
    <3>3. \A v \in Writers : expects[v] <= taken'[v] /\ consumed[v] <= taken'[v]
      BY <2>1, <2>3, <3>6, <3>7
    <3>4. consumed[w] < taken'[w]
      BY <2>1, <2>3, <3>6, <3>7
    <3>5. \A v \in Writers : taken'[v] <= cells[v]
      BY <2>1, <2>3, <3>6, <3>7
    <3> QED BY <1>0, <2>2, <3>1, <3>3, <3>4, <3>5 DEF Counts
  <2>6. Cursors'
    <3>1. Registered' = Registered
      BY <2>2 DEF Registered
    <3>2. \A v \in Registered : v \in Writers
      BY DEF Registered, TypeOK
    <3>3. \A v \in Registered \ Range(cursors) : taken'[v] = taken[v]
      BY <2>1, <2>3, <3>2
    <3> QED BY <1>0, <2>2, <3>1, <3>3 DEF Cursors
  <2>7. Channel!Take(w)
    BY <2>1, <2>2, <2>4, SameMade DEF Channel!Take
  <2> QED BY <2>1, <2>2, <2>4, <2>5, <2>6, <2>7 DEF Ending, Channel!Next
<1>7. CASE TakeEnd
  <2>1. /\ k \in DOMAIN cursors /\ Looked \in ends /\ taken[Looked] = cells[Looked] /\ cursors' = RemoveAt(cursors, k)
        /\ UNCHANGED <<chains, cells, ends, consumed, taken, write, met, got, ended, reader>>
        /\ reader \in {"scan", "rescan"}
    BY <1>5, <1>7 DEF TakeEnd, Looking, chan
  <2>2. /\ Range(cursors') = Range(cursors) \ {Looked}
        /\ \A x, y \in DOMAIN cursors' : cursors'[x] = cursors'[y] => x = y
    <3>1. cursors \in Seq(Writers) /\ Looked = cursors[k]
      BY DEF TypeOK, Looked
    <3>2. \A x, y \in DOMAIN cursors : cursors[x] = cursors[y] => x = y
      BY <1>0 DEF Cursors
    <3>3. /\ Range(RemoveAt(cursors, k)) = Range(cursors) \ {cursors[k]}
          /\ \A x, y \in DOMAIN RemoveAt(cursors, k) : RemoveAt(cursors, k)[x] = RemoveAt(cursors, k)[y] => x = y
      BY <2>1, <3>1, <3>2, RemovedRange
    <3> QED BY <2>1, <3>1, <3>3
  <2>3. Registered' = Registered
    BY <2>1 DEF Registered
  <2>4. Cursors'
    BY <1>0, <2>1, <2>2, <2>3 DEF Cursors
  <2>5. Ending' /\ UNCHANGED Channel!vars
    BY <1>0, <2>1, SameMade DEF Ending, Channel!vars
  <2> QED BY <1>1, <2>1, <2>4, <2>5
<1>8. CASE TakeNothing \/ WaitWake
  <2>1. /\ UNCHANGED <<chains, cells, ends, consumed, taken, write, met, got, ended, cursors>>
        /\ reader \in {"scan", "rescan"} /\ reader' \notin {"get", "set", "idle"}
    BY <1>8 DEF TakeNothing, WaitWake, Exhausted, Looking, chan
  <2>2. Cursors'
    BY <1>0, <2>1, SameCursors
  <2>3. Ending' /\ UNCHANGED Channel!vars
    BY <1>0, <2>1, SameMade DEF Ending, Channel!vars
  <2> QED BY <1>1, <2>1, <2>2, <2>3
<1>9. CASE GetConsumed
  <2>1. /\ UNCHANGED <<chains, cells, ends, consumed, taken, write, met, got, ended, cursors, k>>
        /\ reader = "get" /\ reader' = "set" /\ found' = consumed[Looked]
    BY <1>9 DEF GetConsumed, chan
  <2>2. Counts'
    <3>1. \A v \in Writers : Serves(v)' = Serves(v) /\ Full(v)' = Full(v)
      BY <2>1 DEF Serves, Looked, Full, write
    <3>2. \A v \in Writers : Serves(v) => found' = consumed[v]
      BY <2>1 DEF Serves
    <3> QED BY <1>0, <2>1, <3>1, <3>2 DEF Counts, write
  <2>3. Cursors'
    BY <1>0, <2>1, SameCursors
  <2>4. Ending' /\ UNCHANGED Channel!vars
    BY <1>0, <2>1, SameMade DEF Ending, Channel!vars
  <2> QED BY <2>2, <2>3, <2>4
<1>10. CASE PutConsumed
  <2> DEFINE w == Looked
  <2>1. /\ w \in Writers /\ SetConsumed(w, found + 1) /\ reader = "set" /\ reader' = "idle"
        /\ UNCHANGED <<chains, cells, ends, tail, expects, taken, met, got, ended>>
    BY <1>10 DEF TypeOK, PutConsumed, Looked
  <2>2. Serves(w)
    BY <2>1 DEF Serves
  <2> HIDE DEF w
  <2>3. Counts'
    <3>1. \A v \in Writers : ~Serves(v)' /\ Full(v)' = Full(v)
      BY <2>1 DEF Serves, Full
    <3>2. \A v \in Writers : at'[v] = "write" => at[v] = "write"
      BY <2>1, ConsumedStrolls
    <3>3. consumed'[w] = found + 1 /\ \A v \in Writers \ {w} : consumed'[v] = consumed[v]
      BY <2>1 DEF SetConsumed, TypeOK
    <3>4. found + 1 <= taken[w]
      BY <1>0, <2>1, <2>2 DEF Counts, TypeOK
    <3> QED BY <1>0, <2>1, <3>1, <3>2, <3>3, <3>4 DEF Counts
  <2>4. Cursors'
    BY <1>0, <1>10, PutCursors
  <2>5. Ending' /\ UNCHANGED Channel!vars
    BY <1>0, <2>1, SameMade DEF Ending, Channel!vars
  <2> QED BY <2>3, <2>4, <2>5
<1> QED BY <1>2, <1>3, <1>4, <1>6, <1>7, <1>8, <1>9, <1>10 DEF Evaluate

\* The other steps.
LEMMA OtherFifo ==
  ASSUME TypeOK, FifoInv, Crash \/ Watch \/ SettleBegin \/ Settle \/ End \/ Stop
  PROVE  Counts' /\ Cursors' /\ Ending' /\ UNCHANGED Channel!vars
<1>0. Opened /\ Tails /\ Closers /\ Closing /\ Counts /\ Cursors /\ Ending
  BY DEF FifoInv
<1>1. UNCHANGED <<chains, cells, ends, tail, expects, reader, cursors, k, taken, met, found, got, ended>>
  BY DEF Crash, Watch, SettleBegin, Settle, Settles, StillRuns, WaitState, End, Stop, Cancel, CancelChains,
    CancelChain, Join, chan, write, read
<1>2. \A v \in Writers : Serves(v)' = Serves(v) /\ Full(v)' = Full(v)
  BY <1>1 DEF Serves, Looked, Full
<1>3. Counts'
  <2>1. CASE CancelChain
    <3>1. Head(tells) \in Writers /\ SetConsumed(Head(tells), -1)
      BY <2>1, HeadTailProperties DEF TypeOK, CancelChain, CancelMark
    <3>2. \A v \in Writers : consumed'[v] = consumed[v] \/ consumed'[v] = -1
      BY <3>1 DEF SetConsumed, TypeOK
    <3>3. \A v \in Writers : at'[v] = "write" => at[v] = "write"
      BY <3>1, ConsumedStrolls
    <3>4. \A v \in Writers : taken[v] \in Nat
      BY DEF TypeOK
    <3>5. \A v \in Writers : consumed'[v] <= taken[v] /\ (Serves(v) => consumed'[v] < taken[v])
      BY <1>0, <3>2, <3>4 DEF Counts
    <3> QED BY <1>0, <1>1, <1>2, <3>3, <3>5 DEF Counts
  <2>2. CASE ~CancelChain
    <3>1. consumed' = consumed /\ \A v \in Writers : at'[v] = at[v] \/ at'[v] = "dead"
      BY <2>2, RootAssumption DEF TypeOK, Crash, Watch, SettleBegin, Settle, Settles, StillRuns, WaitState, End, Stop,
        Cancel, CancelChains, Join, chan, write, Goes
    <3> QED BY <1>0, <1>1, <1>2, <3>1 DEF Counts
  <2> QED BY <2>1, <2>2
<1>4. Cursors'
  BY <1>0, <1>1, SameCursors
<1>5. Ending' /\ UNCHANGED Channel!vars
  BY <1>0, <1>1, SameMade DEF Ending, Channel!vars
<1> QED BY <1>3, <1>4, <1>5

LEMMA NextFifo == TypeOK /\ FifoInv /\ [Next]_vars => FifoInv' /\ [Channel!Next]_(Channel!vars)
<1> SUFFICES ASSUME TypeOK, FifoInv, [Next]_vars PROVE FifoInv' /\ [Channel!Next]_(Channel!vars)
  OBVIOUS
<1>1. PlaceInv'
  BY NextPlaces DEF FifoInv, PlaceInv
<1>2. Counts' /\ Cursors' /\ Ending' /\ [Channel!Next]_(Channel!vars)
  <2>1. CASE UNCHANGED vars
    <3>1. UNCHANGED <<chains, cells, ends, tail, expects, consumed, at, reader, cursors, k, taken, met, found, got, ended>>
      BY <2>1 DEF vars, chan, write, read
    <3>2. Counts'
      <4>1. \A v \in Writers : Serves(v)' = Serves(v) /\ Full(v)' = Full(v)
        BY <3>1 DEF Serves, Looked, Full
      <4> QED BY <3>1, <4>1 DEF FifoInv, Counts
    <3>3. Cursors'
      BY <3>1, SameCursors DEF FifoInv
    <3>4. Ending' /\ UNCHANGED Channel!vars
      BY <3>1, SameMade DEF FifoInv, Ending, Channel!vars
    <3> QED BY <3>2, <3>3, <3>4
  <2>2. CASE Next
    <3>1. CASE \E w \in Writers : Strolling(w)
      BY <3>1, StrollFifo
    <3>2. CASE ~\E w \in Writers : Strolling(w)
      BY <2>2, <3>2, WriterFifo, ReaderFifo, OtherFifo DEF Next, Put, Strolling
    <3> QED BY <3>1, <3>2
  <2> QED BY <2>1, <2>2
<1> QED BY <1>1, <1>2 DEF FifoInv, PlaceInv

LEMMA FifoIsKept == Spec => [](TypeOK /\ FifoInv)
  BY InitType, NextType, InitFifo, NextFifo, PTL DEF Spec

\* Every behaviour of the channel is one of Fifo: each element that was written
\* is read once and in the order of its chain, no writer is more than Cap ahead,
\* and the list ends when every chain is closed and read, also when the VProcs
\* of the writers are killed or stop (Chan_put, Chan_next, Chan_close).
THEOREM ChannelIsFifo == Spec => IsFifo
<1>1. Init => Channel!Init
  BY InitPlaces DEF Init, Channel!Init
<1>2. TypeOK /\ FifoInv /\ [Next]_vars => [Channel!Next]_(Channel!vars)
  BY NextFifo
<1> QED BY <1>1, <1>2, FifoIsKept, PTL DEF Spec, IsFifo, Channel!Spec

----------------------------------------------------------------------------
(***************************************************************************)
(* The end of a statement.                                                 *)
(***************************************************************************)

\* Only what sets "state" wakes Owner.
LEMMA NextSettling == TypeOK /\ Settling /\ [Next]_vars => Settling'
<1> SUFFICES ASSUME TypeOK, Settling, [Next]_vars PROVE Settling'
  OBVIOUS
<1>1. ASSUME NEW s, SetState(s), UNCHANGED record PROVE Settling'
  BY <1>1 DEF Settling, SetState
<1>2. CASE UNCHANGED <<state, owner, record>>
  BY <1>2 DEF Settling
<1>3. ASSUME SettleBegin \/ Settle \/ End \/ Cancel \/ CancelChains \/ Join PROVE Settling'
  BY <1>3 DEF Settling, SettleBegin, Settle, Settles, StillRuns, WaitState, End, Cancel, CancelChains, Join, chan
<1>4. ASSUME NEW w \in Writers,
             \/ Room(w) \/ Put(w) \/ Finish(w) \/ Kill(w)
             \/ \E c \in Writers : Open(w, c) \/ Start(w, c)
      PROVE  Settling'
  <2>1. CASE SetBlocked(w) \/ SetRunning(w)
    BY <1>1, <1>2, <2>1 DEF SetBlocked, SetRunning
  <2>2. CASE ~(SetBlocked(w) \/ SetRunning(w))
    BY <1>2, <1>4, <2>2 DEF Put, Room, Aborts, HasRoom, NoRoom, WaitRoom, Write, Advance, Wake, Finish, Kill, Open, Start,
      chan, own
  <2> QED BY <2>1, <2>2
<1>5. ASSUME NEW w \in Writers, NEW p \in Releasers, Release(w, p) PROVE Settling'
  BY <1>1, <1>2, <1>5 DEF Release, Look, SetEnd, WakeEnd, SetDone, chan, own
<1>6. ASSUME ReadToken \/ Evaluate \/ Crash \/ Watch \/ CancelChain PROVE Settling'
  BY <1>2, <1>6 DEF ReadToken, Evaluate, RegisterFresh, RegisterAgain, RegisterLast, Register, TakeElement, TakeEnd,
    TakeNothing, GetConsumed, PutConsumed, WaitWake, Crash, Watch, CancelChain, chan, own
<1>7. UNCHANGED vars => UNCHANGED <<state, owner, record>>
  BY DEF vars, chan, own
<1> QED BY <1>2, <1>3, <1>4, <1>5, <1>6, <1>7 DEF Next, Stop

\* While no step says otherwise, who will set the state still will, or has
\* been stopped and another will.
LEMMA WillStillSet ==
  ASSUME TypeOK, PlaceInv, IsSubst, Next, state' = "running", NEW w \in Writers, WillSet(w)
  PROVE  \E v \in Writers : WillSet(v)'
<1>0. Closers
  BY DEF PlaceInv
<1>1. ASSUME at'[w] = at[w], closing'[w] = closing[w] PROVE WillSet(w)'
  BY <1>1 DEF WillSet
<1>2. ASSUME NEW v \in Writers, Strolling(v) PROVE \E u \in Writers : WillSet(u)'
  <2>1. CASE SetBlocked(v)
    BY <2>1 DEF SetBlocked, SetState
  <2>2. CASE SetRunning(v)
    <3>1. at'[v] = "room"
      BY <2>2 DEF TypeOK, SetRunning, Goes
    <3> QED BY <3>1 DEF WillSet
  <2>3. CASE ~(SetBlocked(v) \/ SetRunning(v))
    <3>1. UNCHANGED closing
      BY <1>2, Stroll
    <3>2. \/ at'[w] = at[w]
          \/ at'[w] \notin {"off", "made", "wait", "asleep", "ended", "dead"}
          \/ at[w] = "wait"
      BY <1>2, <2>3 DEF TypeOK, Strolling, Room, Aborts, HasRoom, NoRoom, WaitRoom, Wake, Start, Goes
    <3>3. at[w] = "wait" => at'[w] \in {"wait", "asleep", "woken"}
      BY <1>2, <2>3 DEF TypeOK, Strolling, Room, Aborts, HasRoom, NoRoom, WaitRoom, Wake, Start, Goes
    <3> QED BY <3>1, <3>2, <3>3 DEF WillSet
  <2> QED BY <2>1, <2>2, <2>3
<1>3. ASSUME NEW v \in Writers, Write(v) \/ Advance(v) \/ Finish(v) PROVE WillSet(w)'
  <2>1. /\ v = w => at'[w] \in {"advance", "wake", "release"}
        /\ v # w => at'[w] = at[w] /\ closing'[w] = closing[w]
    BY <1>3 DEF TypeOK, Write, Advance, Finish, Begins, Goes
  <2> QED BY <1>1, <2>1 DEF WillSet
<1>4. ASSUME NEW v \in Writers, Kill(v) PROVE WillSet(w)'
  <2>1. /\ v = w => closing'[w]["killer"] = "look"
        /\ v # w => at'[w] = at[w] /\ closing'[w] = closing[w]
    BY <1>4 DEF TypeOK, Kill, Begins, Releasers
  <2> QED BY <1>1, <2>1 DEF WillSet, Releasers
<1>5. ASSUME NEW v \in Writers, NEW c \in Writers, Open(v, c) PROVE WillSet(w)'
  <2>1. /\ closing' = closing /\ at[c] = "off" /\ at'[v] = "start"
        /\ \A u \in Writers \ {v, c} : at'[u] = at[u]
    BY <1>5 DEF TypeOK, Open
  <2>2. w # c
    BY <1>0, <2>1 DEF WillSet, Closers
  <2> QED BY <1>1, <2>1, <2>2 DEF WillSet
<1>6. ASSUME NEW v \in Writers, NEW p \in Releasers, Release(v, p) PROVE WillSet(w)'
  <2>1. CASE SetDone(v, p)
    BY <2>1 DEF SetDone, SetState
  <2>2. CASE ~SetDone(v, p)
    <3>1. PICK to \in {"end", "wake", "state"}, from \in {"look", "end", "wake"} : Releases(v, p, from, to)
      BY <1>6, <2>2 DEF Release, Look, SetEnd, WakeEnd, Closed
    <3>2. /\ at' = at /\ closing[v][p] = from /\ closing'[v][p] = to /\ (p = "self" => at[v] # "dead")
          /\ \A q \in Releasers \ {p} : closing'[v][q] = closing[v][q]
          /\ \A u \in Writers \ {v} : closing'[u] = closing[u]
      BY <3>1 DEF TypeOK, Releases
    <3>3. CASE v = w
      BY <3>2, <3>3 DEF WillSet
    <3>4. CASE v # w
      BY <1>1, <3>2, <3>4
    <3> QED BY <3>3, <3>4
  <2> QED BY <2>1, <2>2
<1>7. CASE Crash
  <2>1. /\ at[Root] = "run" /\ at'[Root] = "dead" /\ closing' = closing
        /\ \A u \in Writers \ {Root} : at'[u] = at[u]
    BY <1>7, RootAssumption DEF TypeOK, Crash, Goes
  <2>2. closing[Root]["watcher"] = "no"
    BY <1>0, <2>1, RootAssumption DEF Closers, Releasers
  <2> QED BY <2>1, <2>2, RootAssumption DEF WillSet
<1>8. CASE Watch
  <2>1. closing'[Root]["watcher"] = "look"
    BY <1>8, RootAssumption DEF TypeOK, Watch, Begins, Releasers
  <2> QED BY <2>1, RootAssumption DEF WillSet, Releasers
<1>9. ASSUME NEW v \in Writers, NEW n, SetConsumed(v, n), UNCHANGED closing PROVE WillSet(w)'
  <2>1. at'[w] = at[w] \/ at'[w] = "woken"
    BY <1>9, ConsumedStrolls
  <2> QED BY <1>9, <2>1 DEF WillSet
<1>10. PutConsumed => WillSet(w)'
  <2>1. PutConsumed => Looked \in Writers /\ SetConsumed(Looked, found + 1) /\ UNCHANGED closing
    BY DEF TypeOK, PutConsumed, Looked
  <2> QED BY <1>9, <2>1
<1>11. CancelChain => WillSet(w)'
  <2>1. CancelChain => Head(tells) \in Writers /\ SetConsumed(Head(tells), -1) /\ UNCHANGED closing
    BY HeadTailProperties DEF TypeOK, CancelChain, CancelMark
  <2> QED BY <1>9, <2>1
<1>12. ASSUME \/ ReadToken \/ RegisterFresh \/ RegisterAgain \/ RegisterLast \/ TakeElement \/ TakeEnd
              \/ TakeNothing \/ GetConsumed \/ WaitWake \/ SettleBegin \/ Settle \/ End
              \/ Cancel \/ CancelChains \/ Join
       PROVE  WillSet(w)'
  <2>1. UNCHANGED <<closing, at>>
    BY <1>12 DEF ReadToken, RegisterFresh, RegisterAgain, RegisterLast, Register, TakeElement, TakeEnd,
      TakeNothing, GetConsumed, WaitWake, SettleBegin, Settle, Settles, StillRuns, WaitState, End,
      Cancel, CancelChains, Join, write
  <2> QED BY <1>1, <2>1
<1> QED BY <1>2, <1>3, <1>4, <1>5, <1>6, <1>7, <1>8, <1>10, <1>11, <1>12 DEF Next, Put, Strolling, Evaluate, Stop

LEMMA NextSetters == TypeOK /\ PlaceInv /\ Setters /\ [Next]_vars => Setters'
<1> SUFFICES ASSUME TypeOK, PlaceInv, Setters, [Next]_vars, IsSubst, state' = "running"
             PROVE  \E w \in Writers : WillSet(w)'
  BY DEF Setters
<1>1. CASE UNCHANGED vars
  <2>1. UNCHANGED <<state, at, closing>>
    BY <1>1 DEF vars, chan, write
  <2> QED BY <2>1 DEF Setters, WillSet
<1>2. CASE Next /\ state = "running"
  BY <1>2, WillStillSet DEF Setters
\* A writer that goes on has set it again.
<1>3. CASE Next /\ state # "running"
  <2>1. PICK w \in Writers : SetRunning(w)
    BY <1>3 DEF Next, Put, Room, Aborts, HasRoom, NoRoom, WaitRoom, Write, Advance, Wake, SetBlocked, SetState, Finish, Kill,
      Open, Start, Release, Look, SetEnd, WakeEnd, SetDone, Crash, Watch, ReadToken, Evaluate, RegisterFresh,
      RegisterAgain, RegisterLast, Register, TakeElement, TakeEnd, TakeNothing, GetConsumed, PutConsumed, WaitWake,
      SettleBegin, Settle, Settles, StillRuns, WaitState, End, Stop, Cancel, CancelChains, CancelChain, Join, chan
  <2>2. at'[w] = "room"
    BY <2>1 DEF TypeOK, SetRunning, Goes
  <2> QED BY <2>2 DEF WillSet
<1> QED BY <1>1, <1>2, <1>3

\* While the end of a statement waits for the state of a $( ) to change, a
\* writer, or a VProc that closes the output of one, has yet to set it
\* (Subst_settle_one, Chan_wait_room, Sh_release).
THEOREM SettleDoesReturn == Spec => []SettleReturns
<1>1. Init => Settling /\ Setters
  <2>1. Init => Settling
    BY DEF Init, Settling
  <2>2. Init => WillSet(Root)
    BY RootAssumption DEF Init, WillSet
  <2> QED BY <2>1, <2>2, RootAssumption DEF Setters
<1>2. Settling /\ Setters => SettleReturns
  BY DEF Settling, Setters, SettleReturns
<1> QED BY <1>1, <1>2, NextSettling, NextSetters, PlacesAreRight, PTL DEF Spec

----------------------------------------------------------------------------
(***************************************************************************)
(* The reader that sleeps.                                                 *)
(***************************************************************************)

\* The steps that are not the reader's.
Elsewhere ==
  \/ \E w \in Writers :
       \/ Strolling(w) \/ Write(w) \/ Advance(w) \/ Finish(w) \/ Kill(w)
       \/ \E c \in Writers : Open(w, c)
       \/ \E p \in Releasers : Release(w, p)
  \/ Crash \/ Watch \/ CancelChain
  \/ SettleBegin \/ Settle \/ End \/ Cancel \/ CancelChains \/ Join

\* They leave the cursors alone, and wake the reader if they set "wake".
LEMMA ElsewhereReader ==
  ASSUME TypeOK, Elsewhere
  PROVE  /\ UNCHANGED <<cursors, k, taken, met, found, got, ended, until>>
         /\ \/ UNCHANGED <<reader, renewed>>
            \/ renewed' = TRUE /\ reader' = IF reader = "asleep" THEN "next" ELSE reader
<1>1. ASSUME NEW w \in Writers, Strolling(w) \/ Write(w) \/ Advance(w) \/ Finish(w) \/ Kill(w) \/ \E c \in Writers : Open(w, c)
      PROVE  /\ UNCHANGED <<cursors, k, taken, met, found, got, ended, until>>
             /\ \/ UNCHANGED <<reader, renewed>>
                \/ renewed' = TRUE /\ reader' = IF reader = "asleep" THEN "next" ELSE reader
  BY <1>1 DEF Strolling, Room, Aborts, HasRoom, NoRoom, SetBlocked, WaitRoom, SetRunning, Wake, SetWake, Start,
    Write, Advance, Finish, Kill, Open, chan, read
<1>2. ASSUME NEW w \in Writers, NEW p \in Releasers, Release(w, p)
      PROVE  /\ UNCHANGED <<cursors, k, taken, met, found, got, ended, until>>
             /\ \/ UNCHANGED <<reader, renewed>>
                \/ renewed' = TRUE /\ reader' = IF reader = "asleep" THEN "next" ELSE reader
  BY <1>2 DEF Release, Look, SetEnd, WakeEnd, SetDone, SetWake, chan, read
<1>3. ASSUME Crash \/ Watch \/ CancelChain \/ SettleBegin \/ Settle \/ End \/ Cancel \/ CancelChains \/ Join
      PROVE  UNCHANGED <<cursors, k, taken, met, found, got, ended, until, reader, renewed>>
  BY <1>3 DEF Crash, Watch, CancelChain, SettleBegin, Settle, Settles, StillRuns, WaitState, End, Cancel, CancelChains,
    Join, chan, read
<1> QED BY <1>1, <1>2, <1>3 DEF Elsewhere

\* What makes Quiet what it is.
LEMMA SameQuiet ==
  ASSUME NEW w \in Writers, Quiet(w),
         taken'[w] = taken[w], cells'[w] = cells[w], tail'[w] = tail[w], at'[w] = at[w], closing'[w] = closing[w],
         w \in ends' <=> w \in ends
  PROVE  Quiet(w)'
  BY DEF Quiet, Torn

\* A chain with nothing new stays so, or a new token comes.
LEMMA QuietStays ==
  ASSUME TypeOK, PlaceInv, NEW w \in Writers, Quiet(w), Elsewhere
  PROVE  Quiet(w)' \/ renewed'
<1>0. Opened /\ Tails /\ Closers /\ Closing /\ taken' = taken
  BY ElsewhereReader DEF PlaceInv
<1>1. ASSUME NEW v \in Writers, Strolling(v) PROVE Quiet(w)' \/ renewed'
  <2>1. Strolls /\ UNCHANGED <<cells, ends, tail, closing>>
    BY <1>1, Stroll
  <2>2. at[w] = "wake" => at'[w] = "wake" \/ renewed'
    BY <1>1 DEF TypeOK, Strolling, Room, Aborts, HasRoom, NoRoom, SetBlocked, WaitRoom, SetRunning, Wake, SetWake, Start, Goes
  <2>3. at[w] \in {"advance", "dead"} => at'[w] = at[w]
    BY <2>1 DEF Strolls, Plain
  <2> QED BY <1>0, <2>1, <2>2, <2>3 DEF Quiet, Torn
<1>2. ASSUME NEW v \in Writers, Write(v) PROVE Quiet(w)'
  <2>1. /\ UNCHANGED <<ends, tail, closing>> /\ at[v] = "write" /\ at'[v] = "advance"
        /\ \A u \in Writers \ {v} : at'[u] = at[u] /\ cells'[u] = cells[u]
    BY <1>2 DEF TypeOK, Write, Goes
  <2>2. v \notin ends
    BY <1>0, <2>1 DEF Closers
  <2> QED BY <1>0, <2>1, <2>2, SameQuiet DEF Quiet
<1>3. ASSUME NEW v \in Writers, Advance(v) PROVE Quiet(w)'
  <2>1. /\ UNCHANGED <<ends, cells, closing>> /\ at[v] = "advance" /\ at'[v] = "wake"
        /\ \A u \in Writers \ {v} : at'[u] = at[u] /\ tail'[u] = tail[u]
    BY <1>3 DEF TypeOK, Advance, Goes, chan
  <2>2. v \notin ends
    BY <1>0, <2>1 DEF Closers
  <2> QED BY <1>0, <2>1, <2>2, SameQuiet DEF Quiet
<1>4. ASSUME NEW v \in Writers, Finish(v) PROVE Quiet(w)'
  <2>1. /\ UNCHANGED <<ends, cells, tail>> /\ at[v] \in {"run", "over"} /\ closing'[v]["self"] = "look"
        /\ \A u \in Writers \ {v} : at'[u] = at[u] /\ closing'[u] = closing[u]
    BY <1>4 DEF TypeOK, Finish, Begins, chan, Releasers
  <2>2. v \notin ends
    BY <1>0, <2>1 DEF Closers
  <2> QED BY <1>0, <2>1, <2>2, SameQuiet DEF Quiet, Releasers
<1>5. ASSUME NEW v \in Writers, Kill(v) PROVE Quiet(w)'
  <2>1. /\ UNCHANGED <<ends, cells, tail>> /\ at[v] # "dead" /\ at'[v] = "dead"
        /\ closing[v]["killer"] = "no" /\ closing'[v]["killer"] = "look"
        /\ \A p \in {"self", "watcher"} : closing'[v][p] = closing[v][p]
        /\ \A u \in Writers \ {v} : at'[u] = at[u] /\ closing'[u] = closing[u]
        /\ at[v] # "ended"
    BY <1>5 DEF TypeOK, Kill, Begins, chan, Releasers
  <2>2. closing[v]["watcher"] = "no"
    BY <1>0, <2>1 DEF Closers, Releasers
  <2>3. CASE v = w
    BY <1>0, <2>1, <2>2, <2>3 DEF Quiet, Torn, Releasers
  <2>4. CASE v # w
    BY <1>0, <2>1, <2>4, SameQuiet
  <2> QED BY <2>3, <2>4
<1>6. ASSUME NEW v \in Writers, NEW c \in Writers, Open(v, c) PROVE Quiet(w)'
  <2>1. /\ UNCHANGED <<cells, ends, tail, closing>> /\ at[v] = "run" /\ at[c] = "off"
        /\ \A u \in Writers \ {v, c} : at'[u] = at[u]
    BY <1>6 DEF TypeOK, Open
  <2> QED BY <1>0, <2>1 DEF Quiet, Torn
<1>7. ASSUME NEW v \in Writers, NEW p \in Releasers, Release(v, p) PROVE Quiet(w)' \/ renewed'
  <2>1. CASE WakeEnd(v, p)
    BY <2>1 DEF WakeEnd, SetWake
  <2>2. CASE ~WakeEnd(v, p)
    <3>1. PICK from \in Closes, to \in Closes :
            /\ Releases(v, p, from, to)
            /\ \/ from = "look" /\ to = "end" /\ Null(v) /\ ends' = ends
               \/ from = "look" /\ to \in {"state", "over"} /\ ~Null(v) /\ ends' = ends
               \/ from = "end" /\ to = "wake" /\ ends' = ends \cup {v}
               \/ from = "state" /\ to = "over" /\ ends' = ends
      BY <1>7, <2>2 DEF Release, Look, SetEnd, SetDone, Closed, Closes, chan
    <3>2. /\ UNCHANGED <<cells, tail>>
          /\ closing[v][p] = from /\ closing'[v][p] = to /\ (p = "self" => at[v] # "dead")
          /\ \A q \in Releasers \ {p} : closing'[v][q] = closing[v][q]
          /\ \A u \in Writers \ {v} : closing'[u] = closing[u] /\ at'[u] = at[u]
          /\ at'[v] = IF p = "self" /\ to = "over" THEN "ended" ELSE at[v]
      BY <1>7, <3>1 DEF TypeOK, Release, Look, SetEnd, WakeEnd, SetDone, Releases, chan
    <3>3. at[v] \in {"release", "ended", "dead"}
      BY <1>0, <3>1, <3>2 DEF Closers
    <3>4. CASE v # w
      BY <1>0, <3>1, <3>2, <3>4, SameQuiet
    <3>5. CASE v = w /\ to \in {"end", "wake"}
      BY <1>0, <3>1, <3>2, <3>5 DEF Quiet, Null
    <3>6. CASE v = w /\ to \in {"state", "over"}
      <4>1. Torn(w) => Torn(w)'
        BY <3>1, <3>2, <3>6 DEF Torn, Releasers
      <4>2. \A q \in Releasers : closing[w][q] = "wake" => closing'[w][q] = "wake"
        BY <3>1, <3>2, <3>6
      <4>3. w \notin ends' \/ Torn(w)' \/ \E q \in Releasers : closing'[w][q] = "wake"
        BY <3>1, <3>6, <4>1, <4>2 DEF Quiet
      <4>4. CASE from = "look"
        <5>1. w \notin ends => Torn(w)'
          BY <1>0, <3>1, <3>2, <3>3, <3>6, <4>4 DEF Null, Tails, Torn
        <5> QED BY <3>1, <3>6, <4>3, <4>4, <5>1 DEF Quiet
      <4>5. CASE from = "state"
        <5>1. taken[w] = cells[w] \/ Torn(w) \/ \E q \in Releasers : closing[w][q] \in {"look", "end", "wake"}
          BY <3>3, <3>6 DEF Quiet
        <5>2. \A q \in Releasers : closing[w][q] \in {"look", "end", "wake"} => closing'[w][q] \in {"look", "end", "wake"}
          BY <3>2, <3>6, <4>5
        <5> QED BY <1>0, <3>2, <4>1, <4>3, <5>1, <5>2 DEF Quiet
      <4> QED BY <3>1, <3>6, <4>4, <4>5
    <3> QED BY <3>1, <3>4, <3>5, <3>6
  <2> QED BY <2>1, <2>2
<1>8. CASE Crash
  <2>1. /\ UNCHANGED <<ends, cells, tail, closing>> /\ at[Root] = "run" /\ at'[Root] = "dead"
        /\ \A u \in Writers \ {Root} : at'[u] = at[u]
    BY <1>8, RootAssumption DEF TypeOK, Crash, Goes, chan
  <2>2. Root \notin ends /\ \A p \in Releasers : closing[Root][p] = "no"
    BY <1>0, <2>1, RootAssumption DEF Closers
  <2>3. CASE w = Root
    BY <1>0, <2>1, <2>2, <2>3 DEF Quiet, Torn
  <2>4. CASE w # Root
    BY <1>0, <2>1, <2>4, SameQuiet
  <2> QED BY <2>3, <2>4
<1>9. CASE Watch
  <2>1. /\ UNCHANGED <<ends, cells, tail, at>>
        /\ closing[Root]["watcher"] = "no" /\ closing'[Root]["watcher"] = "look"
        /\ \A p \in {"self", "killer"} : closing'[Root][p] = closing[Root][p]
        /\ \A u \in Writers \ {Root} : closing'[u] = closing[u]
    BY <1>9, RootAssumption DEF TypeOK, Watch, Begins, chan, Releasers
  <2> QED BY <1>0, <2>1 DEF Quiet, Torn, Releasers
<1>10. CASE CancelChain
  <2>1. Head(tells) \in Writers /\ SetConsumed(Head(tells), -1)
    BY <1>10, HeadTailProperties DEF TypeOK, CancelChain, CancelMark
  <2>2. at'[w] = at[w] \/ (at[w] = "asleep" /\ at'[w] = "woken")
    BY <2>1, ConsumedStrolls
  <2>3. UNCHANGED <<ends, cells, tail, closing>>
    BY <1>10 DEF CancelChain
  <2> QED BY <1>0, <2>2, <2>3 DEF Quiet, Torn
<1>11. ASSUME SettleBegin \/ Settle \/ End \/ Cancel \/ CancelChains \/ Join PROVE Quiet(w)'
  <2>1. UNCHANGED <<ends, cells, tail, closing, at>>
    BY <1>11 DEF SettleBegin, Settle, Settles, StillRuns, WaitState, End, Cancel, CancelChains, Join, chan, write
  <2> QED BY <1>0, <2>1, SameQuiet
<1> QED BY <1>1, <1>2, <1>3, <1>4, <1>5, <1>6, <1>7, <1>8, <1>9, <1>10, <1>11 DEF Elsewhere

\* A chain that has just been made is empty.
LEMMA NewIsQuiet ==
  ASSUME TypeOK, FifoInv, NEW w \in Writers, NEW c \in Writers, Open(w, c)
  PROVE  Quiet(c)'
<1>1. /\ UNCHANGED <<cells, ends, taken, closing>> /\ at[c] = "off"
  BY DEF Open, read
<1>2. cells[c] = 0 /\ c \notin ends
  BY <1>1 DEF FifoInv, Opened, Closers
<1>3. taken[c] \in Nat /\ taken[c] <= cells[c]
  BY DEF TypeOK, FifoInv, Counts
<1>4. taken[c] = cells[c]
  BY <1>2, <1>3
<1> QED BY <1>1, <1>2, <1>4 DEF Quiet

\* The chains after such a step.
LEMMA ElsewhereChains ==
  ASSUME TypeOK, FifoInv, Elsewhere
  PROVE  /\ \A i \in DOMAIN chains : chains'[i] = chains[i]
         /\ \A w \in Made' \ Made : Quiet(w)'
<1>0. Opened
  BY DEF FifoInv
<1>1. ASSUME NEW w \in Writers, NEW c \in Writers, Open(w, c)
      PROVE  (\A i \in DOMAIN chains : chains'[i] = chains[i]) /\ \A v \in Made' \ Made : Quiet(v)'
  <2>1. Made' = Made \cup {c} /\ \A i \in DOMAIN chains : chains'[i] = chains[i]
    BY <1>0, <1>1, AddedChain
  <2> QED BY <1>1, <2>1, NewIsQuiet
<1>2. CASE \A w, c \in Writers : ~Open(w, c)
  <2>1. ASSUME NEW w \in Writers, Strolling(w) PROVE chains' = chains
    BY <2>1, Stroll
  <2>2. ASSUME NEW w \in Writers, Write(w) \/ Advance(w) \/ Finish(w) \/ Kill(w) \/ \E p \in Releasers : Release(w, p)
        PROVE  chains' = chains
    BY <2>2 DEF Write, Advance, Finish, Kill, Release, Look, SetEnd, WakeEnd, SetDone, chan
  <2>3. ASSUME Crash \/ Watch \/ CancelChain \/ SettleBegin \/ Settle \/ End \/ Cancel \/ CancelChains \/ Join
        PROVE  chains' = chains
    BY <2>3 DEF Crash, Watch, CancelChain, SettleBegin, Settle, Settles, StillRuns, WaitState, End, Cancel, CancelChains,
      Join, chan
  <2>4. chains' = chains
    BY <1>2, <2>1, <2>2, <2>3 DEF Elsewhere
  <2> QED BY <2>4, SameMade
<1> QED BY <1>1, <1>2

\* Such a step keeps Passed.
LEMMA ElsewherePassed ==
  ASSUME TypeOK, FifoInv, Passed, Elsewhere
  PROVE  Passed'
<1>1. /\ UNCHANGED <<cursors, k, taken, met>>
      /\ \/ UNCHANGED <<reader, renewed>>
         \/ renewed' = TRUE /\ reader' = IF reader = "asleep" THEN "next" ELSE reader
  BY ElsewhereReader
<1>2. Registered' = Registered /\ \A w \in Made' \ Made : Quiet(w)'
  BY <1>1, ElsewhereChains, SameRegistered
<1>3. \A w \in Writers : Quiet(w) => Quiet(w)' \/ renewed'
  BY QuietStays DEF FifoInv, PlaceInv
<1>4. \A w \in Range(cursors) \cup Before : w \in Writers
  BY DEF TypeOK, Range, Before
<1>5. \A w \in Made : w \in Writers
  BY DEF TypeOK, Made, Range
<1>6. CASE UNCHANGED <<reader, renewed>>
  <2>0. Range(cursors') = Range(cursors) /\ Before' = Before
    BY <1>1 DEF Before
  <2>1. reader' = "asleep" => ~renewed' /\ cursors' # <<>> /\ \A w \in Range(cursors') : Quiet(w)'
    BY <1>1, <1>3, <1>4, <1>6, <2>0 DEF Passed
  <2>2. reader' \in {"scan", "rescan"} /\ ~renewed' => \A w \in Before' : Quiet(w)'
    BY <1>1, <1>3, <1>4, <1>6, <2>0 DEF Passed
  <2>3. reader' \in {"rescan", "asleep"} /\ ~renewed' => \A w \in Made' \ Registered' : Quiet(w)'
    BY <1>1, <1>2, <1>3, <1>5, <1>6 DEF Passed
  <2> QED BY <1>1, <1>6, <2>1, <2>2, <2>3 DEF Passed
<1>7. CASE renewed' = TRUE /\ reader' = IF reader = "asleep" THEN "next" ELSE reader
  BY <1>1, <1>7 DEF Passed
<1> QED BY <1>1, <1>6, <1>7

\* A step of the reader does: it passes only cursors that are quiet.
LEMMA ReaderPassed ==
  ASSUME TypeOK, FifoInv, Passed, ReadToken \/ Evaluate
  PROVE  Passed'
<1>0. Opened /\ Cursors
  BY DEF FifoInv
<1>1. ASSUME reader' \in {"next", "idle", "get", "set"} PROVE Passed'
  BY <1>1 DEF Passed
<1>2. CASE ReadToken
  <2>1. reader' \in {"fresh", "scan"} /\ k' = 1 /\ cursors' = cursors
    BY <1>2 DEF ReadToken
  <2>2. \A i \in DOMAIN cursors' : ~(i < k')
    BY <2>1 DEF TypeOK
  <2> QED BY <2>1, <2>2 DEF Passed, Before
<1>3. CASE RegisterFresh
  <2>1. reader' = "scan" /\ k' = 1
    BY <1>3 DEF RegisterFresh, Passed
  <2>2. cursors' \in Seq(Writers)
    BY <1>3, ReaderType DEF Evaluate, TypeOK
  <2>3. \A i \in DOMAIN cursors' : ~(i < k')
    BY <2>1, <2>2
  <2> QED BY <2>1, <2>3 DEF Passed, Before
<1>4. CASE RegisterAgain
  <2>1. /\ reader = "scan" /\ reader' = "rescan" /\ renewed' = renewed /\ Register /\ UNCHANGED <<chan, write, taken>>
        /\ k' = (IF NewChain THEN 1 ELSE k) /\ k > Len(cursors)
    BY <1>4 DEF RegisterAgain, Exhausted, Register, chan
  <2>2. Registered' = Made /\ Made' = Made
    BY <1>0, <2>1, RegisterCursors, SameMade DEF chan
  <2>3. cursors' \in Seq(Writers) /\ cursors \in Seq(Writers)
    BY <1>4, ReaderType DEF Evaluate, TypeOK
  <2>4. ASSUME ~renewed, NEW w \in Before' PROVE Quiet(w)'
    <3>1. ~NewChain
      BY <2>1, <2>3, <2>4 DEF Before
    <3>2. cursors' = cursors /\ k' = k
      <4>1. NewCursors = <<>>
        BY <3>1, NewOnes
      <4> QED BY <2>1, <2>3, <3>1, <4>1 DEF Register
    <3>3. w \in Before /\ w \in Writers
      BY <2>3, <2>4, <3>2 DEF Before
    <3>4. Quiet(w)
      BY <2>1, <2>4, <3>3 DEF Passed
    <3> QED BY <2>1, <3>3, <3>4, SameQuiet DEF chan, write
  <2> QED BY <2>1, <2>2, <2>4 DEF Passed
<1>5. CASE RegisterLast \/ TakeElement \/ GetConsumed \/ PutConsumed
  BY <1>1, <1>5 DEF RegisterLast, TakeElement, GetConsumed, PutConsumed
<1>6. ASSUME UNCHANGED <<chan, write, met, taken>>
      PROVE  /\ renewed' = renewed /\ Registered' = Registered /\ Made' = Made
             /\ \A w \in Writers : Quiet(w) => Quiet(w)'
  <2>1. renewed' = renewed /\ Registered' = Registered /\ Made' = Made
    BY <1>6, SameMade DEF chan, Registered
  <2>2. \A w \in Writers : Quiet(w) => Quiet(w)'
    BY <1>6, SameQuiet DEF chan, write
  <2> QED BY <2>1, <2>2
<1>7. \A w \in Made : w \in Writers
  BY DEF TypeOK, Made, Range
<1>8. CASE TakeEnd
  <2>1. /\ reader \in {"scan", "rescan"} /\ k \in DOMAIN cursors /\ cursors' = RemoveAt(cursors, k)
        /\ UNCHANGED <<chan, write, met, taken, k, reader>>
    BY <1>8 DEF TypeOK, TakeEnd, Looking
  <2>2. ASSUME NEW i \in DOMAIN cursors', i < k PROVE i \in DOMAIN cursors /\ cursors'[i] = cursors[i] /\ cursors[i] \in Writers
    <3>1. /\ cursors' \in Seq(Writers) /\ Len(cursors') = Len(cursors) - 1
          /\ cursors'[i] = IF i < k THEN cursors[i] ELSE cursors[i + 1]
      BY <2>1, <2>2, Removed DEF TypeOK
    <3>2. cursors \in Seq(Writers) /\ i \in 1 .. Len(cursors') /\ Len(cursors) \in Nat
      <4>1. DOMAIN cursors' = 1 .. Len(cursors')
        BY <3>1
      <4> QED BY <4>1 DEF TypeOK
    <3>3. i \in DOMAIN cursors
      BY <3>1, <3>2
    <3> QED BY <2>2, <3>1, <3>2, <3>3
  <2>3. reader' \in {"scan", "rescan"} /\ ~renewed' => \A w \in Before' : Quiet(w)'
    <3> SUFFICES ASSUME ~renewed', NEW w \in Before' PROVE Quiet(w)'
      OBVIOUS
    <3>1. w \in Before /\ w \in Writers
      BY <2>1, <2>2 DEF Before
    <3>2. Quiet(w)
      BY <1>6, <2>1, <3>1 DEF Passed
    <3> QED BY <1>6, <2>1, <3>1, <3>2
  <2>4. reader' = "rescan" /\ ~renewed' => \A w \in Made' \ Registered' : Quiet(w)'
    BY <1>6, <1>7, <2>1 DEF Passed
  <2> QED BY <2>1, <2>3, <2>4 DEF Passed
<1>9. CASE TakeNothing
  <2>1. /\ reader \in {"scan", "rescan"} /\ k \in DOMAIN cursors /\ cursors \in Seq(Writers) /\ k' = k + 1
        /\ UNCHANGED <<chan, write, met, taken, cursors, reader>>
        /\ taken[cursors[k]] = cells[cursors[k]] /\ cursors[k] \notin ends
    BY <1>9 DEF TypeOK, TakeNothing, Looking, Looked
  <2>2. reader' \in {"scan", "rescan"} /\ ~renewed' => \A w \in Before' : Quiet(w)'
    <3> SUFFICES ASSUME ~renewed', NEW w \in Before' PROVE Quiet(w)'
      OBVIOUS
    <3>1. PICK i \in DOMAIN cursors : i < k + 1 /\ w = cursors[i]
      BY <2>1 DEF Before
    <3>2. w \in Writers /\ (w \in Before \/ w = cursors[k])
      <4>1. i < k \/ i = k
        BY <2>1, <3>1 DEF TypeOK
      <4> QED BY <2>1, <3>1, <4>1 DEF Before
    <3>3. Quiet(w)
      BY <1>6, <2>1, <3>2 DEF Passed, Quiet
    <3> QED BY <1>6, <2>1, <3>2, <3>3
  <2>3. reader' = "rescan" /\ ~renewed' => \A w \in Made' \ Registered' : Quiet(w)'
    BY <1>6, <1>7, <2>1 DEF Passed
  <2> QED BY <2>1, <2>2, <2>3 DEF Passed
<1>10. CASE WaitWake
  <2>1. /\ reader = "rescan" /\ k > Len(cursors) /\ cursors \in Seq(Writers) /\ cursors # <<>>
        /\ UNCHANGED <<chan, write, met, taken, cursors, k>>
        /\ reader' = IF ~renewed THEN "asleep" ELSE "next"
    BY <1>10 DEF TypeOK, WaitWake, Exhausted, Sleeps
  <2>2. CASE renewed
    BY <1>1, <2>1, <2>2
  <2>3. CASE ~renewed
    <3>1. \A w \in Range(cursors) : w \in Before /\ w \in Writers
      BY <2>1 DEF TypeOK, Before, Range
    <3>2. \A w \in Range(cursors) : Quiet(w)
      BY <2>1, <2>3, <3>1 DEF Passed
    <3>3. \A w \in Range(cursors') : Quiet(w)'
      BY <1>6, <2>1, <3>1, <3>2
    <3>4. \A w \in Made' \ Registered' : Quiet(w)'
      BY <1>6, <1>7, <2>1, <2>3 DEF Passed
    <3> QED BY <1>6, <2>1, <2>3, <3>3, <3>4 DEF Passed
  <2> QED BY <2>2, <2>3
<1> QED BY <1>2, <1>3, <1>4, <1>5, <1>8, <1>9, <1>10 DEF Evaluate

LEMMA InitPassed == Init => Passed
  BY DEF Init, Passed

LEMMA NextPassed == TypeOK /\ FifoInv /\ Passed /\ [Next]_vars => Passed'
<1> SUFFICES ASSUME TypeOK, FifoInv, Passed, [Next]_vars PROVE Passed'
  OBVIOUS
<1>1. CASE UNCHANGED vars
  <2>1. UNCHANGED <<reader, renewed, cursors, k, met, taken, cells, tail, at, closing, ends, chains>>
    BY <1>1 DEF vars, chan, write, read
  <2>2. \A w : Quiet(w)' = Quiet(w)
    BY <2>1 DEF Quiet, Torn
  <2>3. Before' = Before /\ Registered' = Registered /\ Made' = Made
    BY <2>1, SameMade DEF Before, Registered
  <2> QED BY <2>1, <2>2, <2>3 DEF Passed
<1>2. CASE Elsewhere
  BY <1>2, ElsewherePassed
<1>3. CASE ReadToken \/ Evaluate
  BY <1>3, ReaderPassed
<1> QED BY <1>1, <1>2, <1>3 DEF Next, Put, Strolling, Stop, Elsewhere

\* Of a reader that sleeps.
LEMMA SleepsRightly ==
  ASSUME TypeOK, FifoInv, Passed, reader = "asleep"
  PROVE  NothingNew
<1>1. ~renewed /\ cursors # <<>> /\ (\A w \in Range(cursors) : Quiet(w)) /\ \A w \in Made \ Registered : Quiet(w)
  BY DEF Passed
<1>2. \A w \in Registered \ Range(cursors) : taken[w] = cells[w]
  BY DEF FifoInv, Cursors
<1>3. ASSUME NEW w \in Made
      PROVE  \/ taken[w] = cells[w] \/ at[w] \in {"advance", "wake"} \/ Torn(w)
             \/ \E p \in Releasers : closing[w][p] \in {"look", "end", "wake"}
  BY <1>1, <1>2 DEF Quiet
<1>4. \E w \in Made : w \notin ends \/ Torn(w) \/ \E p \in Releasers : closing[w][p] = "wake"
  <2>1. cursors[1] \in Range(cursors) /\ 1 \in DOMAIN cursors
    BY <1>1, EmptySeq DEF TypeOK, Range
  <2>2. Range(cursors) \subseteq Made
    <3>1. \A i \in 1 .. met : i \in DOMAIN chains
      BY DEF TypeOK
    <3>2. Registered \subseteq Made
      BY <3>1 DEF Registered, Made, Range
    <3> QED BY <3>2 DEF FifoInv, Cursors
  <2> QED BY <1>1, <2>1, <2>2 DEF Quiet
<1> QED BY <1>3, <1>4 DEF NothingNew

\* Also when VProcs other than Owner read: the VProc that evaluates the LazyList
\* never sleeps over an element or an end of a chain, nor over a chain that was
\* added, unless the writer is about to renew the token (Chan_next).
THEOREM ReaderIsWoken == Spec => [](reader = "asleep" => NothingNew)
<1>1. TypeOK /\ FifoInv /\ Passed => (reader = "asleep" => NothingNew)
  BY SleepsRightly
<1> QED BY <1>1, InitPassed, NextPassed, FifoIsKept, PTL DEF Spec

----------------------------------------------------------------------------
(***************************************************************************)
(* The writers that sleep.                                                 *)
(***************************************************************************)

\* Steps that change neither consumed nor cancelled, nor what is taken.
LEMMA SameTold ==
  ASSUME Told, UNCHANGED <<consumed, cancelled, cursors, taken, k, found, tells>>,
         reader' = reader \/ (reader = "asleep" /\ reader' = "next"),
         owner' = owner \/ (owner = "asleep" /\ owner' = "settle"),
         \A w \in Writers : at'[w] \in Stuck => at[w] \in Stuck \/ ~cancelled
  PROVE  Told'
<1>1. \A w \in Writers : Serves(w)' = Serves(w)
  BY DEF Serves, Looked
<1>2. Looked' = Looked
  BY DEF Looked
<1> QED BY <1>1, <1>2 DEF Told

\* Steps that change neither consumed nor what was read of it.
LEMMA SameWaiting ==
  ASSUME Waiting, UNCHANGED <<consumed, cancelled, expects>>,
         \A w \in Writers : at'[w] = at[w] \/ at'[w] \notin Stuck \cup {"check"},
         \A w \in Writers : tail'[w] = tail[w] \/ at'[w] \notin Stuck
  PROVE  Waiting'
  BY DEF Waiting, Full, Stuck

\* consumed is below 0 only after a cancel.
LEMMA ConsumedSign ==
  ASSUME TypeOK, Told, NEW w \in Writers
  PROVE  consumed[w] >= 0 \/ (consumed[w] = -1 /\ cancelled)
<1>1. taken[w] \in Nat /\ consumed[w] \in Int
  BY DEF TypeOK
<1>2. Serves(w) => taken[w] > 0
  BY DEF Told
<1>3. CASE consumed[w] = -1 /\ cancelled
  BY <1>3
<1>4. CASE ~Serves(w) /\ consumed[w] = taken[w]
  BY <1>1, <1>4
<1>5. CASE Serves(w) /\ consumed[w] = taken[w] - 1
  BY <1>1, <1>2, <1>5
<1> QED BY <1>3, <1>4, <1>5 DEF Told

\* The steps of writers, of who closes their outputs, of kill and of a crash.
LEMMA WriterWaiting ==
  ASSUME TypeOK, PlaceInv, Waiting, Told, NEW w \in Writers,
         \/ Strolling(w) \/ Write(w) \/ Advance(w) \/ Finish(w) \/ Kill(w)
         \/ \E c \in Writers : Open(w, c)
         \/ \E p \in Releasers : Release(w, p)
         \/ Crash \/ Watch
  PROVE  Waiting' /\ Told'
<1>1. ASSUME NEW v \in Writers, Strolling(v) PROVE Waiting' /\ Told'
  <2>1. UNCHANGED <<consumed, cancelled, tail, cursors, taken, k, found, tells>>
    BY <1>1, Stroll
  <2>2. /\ reader' = reader \/ (reader = "asleep" /\ reader' = "next")
        /\ owner' = owner \/ (owner = "asleep" /\ owner' = "settle")
    BY <1>1 DEF Strolling, Room, Aborts, HasRoom, NoRoom, SetBlocked, WaitRoom, SetRunning, SetState, Wake, SetWake,
      Start, read, own
  <2>3. /\ \A u \in Writers \ {v} : at'[u] = at[u] \/ at'[u] = "run"
        /\ at'[v] \in Stuck => at[v] \in Stuck \/ (~cancelled /\ Full(v) /\ at[v] = "check")
        /\ at'[v] = "asleep" => at[v] = "asleep" \/ consumed[v] = expects[v]
        /\ at'[v] = "check" => expects'[v] = consumed[v] \/ at[v] = "check"
        /\ at'[v] \in Stuck => expects'[v] = expects[v]
    BY <1>1 DEF TypeOK, Strolling, Room, Aborts, HasRoom, NoRoom, SetBlocked, WaitRoom, Unchanged, SetRunning, Wake, Start,
      Goes, Stuck
  <2>4. \A u \in Writers \ {v} : expects'[u] = expects[u]
    BY <1>1 DEF TypeOK, Strolling, Room, Aborts, HasRoom, NoRoom, SetBlocked, WaitRoom, SetRunning, Wake, Start
  <2>5. at'[v] = "check" /\ at[v] = "check" => expects'[v] = expects[v]
    BY <1>1 DEF TypeOK, Strolling, Room, Aborts, HasRoom, NoRoom, SetBlocked, WaitRoom, SetRunning, Wake, Start, Goes
  <2>6. Waiting'
    <3>1. ASSUME NEW u \in Writers \ {v}
          PROVE  /\ at'[u] \in Stuck => expects'[u] >= 0 /\ Full(u)'
                 /\ at'[u] = "asleep" => consumed'[u] = expects'[u]
                 /\ at'[u] = "check" /\ expects'[u] < 0 => cancelled'
      BY <2>1, <2>3, <2>4 DEF Waiting, Full, Stuck
    <3>2. at'[v] \in Stuck => expects'[v] >= 0 /\ Full(v)'
      <4>1. at[v] = "check" /\ ~cancelled => expects[v] >= 0
        BY DEF Waiting, TypeOK
      <4> QED BY <2>1, <2>3, <4>1 DEF Waiting, Full
    <3>3. at'[v] = "asleep" => consumed'[v] = expects'[v]
      BY <2>1, <2>3 DEF Waiting, Stuck
    <3>4. at'[v] = "check" /\ expects'[v] < 0 => cancelled'
      <4>1. consumed[v] < 0 => cancelled
        BY ConsumedSign DEF TypeOK
      <4> QED BY <2>1, <2>3, <2>5, <4>1 DEF Waiting
    <3> QED BY <3>1, <3>2, <3>3, <3>4 DEF Waiting
  <2>7. Told'
    BY <2>1, <2>2, <2>3, SameTold DEF Stuck
  <2> QED BY <2>6, <2>7
<1>2. ASSUME UNCHANGED <<consumed, cancelled, expects, cursors, taken, k, found, tells>>,
             reader' = reader \/ (reader = "asleep" /\ reader' = "next"),
             owner' = owner \/ (owner = "asleep" /\ owner' = "settle"),
             \A u \in Writers : at'[u] = at[u] \/ at'[u] \notin Stuck \cup {"check"},
             \A u \in Writers : tail'[u] = tail[u] \/ at'[u] \notin Stuck
      PROVE  Waiting' /\ Told'
  <2>1. Waiting'
    BY <1>2, SameWaiting
  <2>2. Told'
    BY <1>2, SameTold
  <2> QED BY <2>1, <2>2
<1>3. CASE Write(w) \/ Advance(w) \/ Finish(w) \/ Kill(w)
  <2>1. /\ UNCHANGED <<consumed, cancelled, expects, cursors, taken, k, found, tells, reader, owner>>
        /\ \A u \in Writers \ {w} : at'[u] = at[u] /\ tail'[u] = tail[u]
        /\ at'[w] \in {"advance", "wake", "release", "dead"}
    BY <1>3 DEF TypeOK, Write, Advance, Finish, Kill, Goes, chan, read, own
  <2> QED BY <1>2, <2>1 DEF Stuck
<1>4. ASSUME NEW c \in Writers, Open(w, c) PROVE Waiting' /\ Told'
  <2>1. /\ UNCHANGED <<consumed, cancelled, expects, cursors, taken, k, found, tells, reader, owner, tail>>
        /\ \A u \in Writers : at'[u] = at[u] \/ at'[u] \in {"start", "made"}
    BY <1>4 DEF TypeOK, Open, read, own
  <2> QED BY <1>2, <2>1 DEF Stuck
<1>5. ASSUME NEW p \in Releasers, Release(w, p) PROVE Waiting' /\ Told'
  <2>1. /\ UNCHANGED <<consumed, cancelled, expects, cursors, taken, k, found, tells, tail>>
        /\ \A u \in Writers : at'[u] = at[u] \/ at'[u] = "ended"
        /\ reader' = reader \/ (reader = "asleep" /\ reader' = "next")
        /\ owner' = owner \/ (owner = "asleep" /\ owner' = "settle")
    BY <1>5 DEF TypeOK, Release, Look, SetEnd, WakeEnd, SetDone, SetWake, SetState, Releases, chan, read, own
  <2> QED BY <1>2, <2>1 DEF Stuck
<1>6. CASE Crash \/ Watch
  <2>1. /\ UNCHANGED <<consumed, cancelled, expects, cursors, taken, k, found, tells, tail, reader, owner>>
        /\ \A u \in Writers : at'[u] = at[u] \/ at'[u] = "dead"
    BY <1>6, RootAssumption DEF TypeOK, Crash, Watch, Goes, chan, read, own
  <2> QED BY <1>2, <2>1 DEF Stuck
<1> QED BY <1>1, <1>3, <1>4, <1>5, <1>6

\* The steps of the reader.
LEMMA ReaderWaiting ==
  ASSUME ~Shared, TypeOK, FifoInv, Waiting, Told, ReadToken \/ Evaluate
  PROVE  Waiting' /\ Told'
<1>0. owner = "run" /\ ~cancelled
  <2>1. reader # "idle" => owner = "run"
    BY DEF Told
  <2>2. owner = "run"
    BY <2>1 DEF ReadToken, MayRead, Evaluate, RegisterFresh, RegisterAgain, RegisterLast, Exhausted, TakeElement, TakeEnd,
      TakeNothing, Looking, GetConsumed, PutConsumed, WaitWake
  <2> QED BY <2>2 DEF Told
<1>1. CASE \/ ReadToken \/ RegisterFresh \/ RegisterAgain \/ RegisterLast \/ TakeEnd \/ TakeNothing \/ WaitWake
  <2>1. /\ UNCHANGED <<consumed, cancelled, expects, taken, tells, owner, at, tail>>
        /\ reader \notin {"get", "set"} /\ reader' \notin {"get", "set"}
    BY <1>1 DEF ReadToken, RegisterFresh, RegisterAgain, RegisterLast, Register, TakeEnd,
      TakeNothing, Looking, Exhausted, WaitWake, chan, write, own
  <2>2. \A u \in Writers : ~Serves(u) /\ ~Serves(u)'
    BY <2>1 DEF Serves
  <2>3. Told'
    BY <1>0, <2>1, <2>2 DEF Told
  <2> QED BY <2>1, <2>3, SameWaiting
<1>2. CASE TakeElement
  <2> DEFINE w == Looked
  <2>1. /\ w \in Writers /\ reader \in {"scan", "rescan"} /\ reader' = "get" /\ taken' = [taken EXCEPT ![w] = @ + 1]
        /\ UNCHANGED <<consumed, cancelled, expects, tells, owner, at, tail, cursors, k>> /\ Looked' = Looked
    BY <1>2 DEF TypeOK, TakeElement, Looking, Looked, chan, write, own
  <2>2. \A u \in Writers : ~Serves(u) /\ (Serves(u)' <=> u = w)
    BY <2>1 DEF Serves
  <2> HIDE DEF w
  <2>3. taken'[w] = taken[w] + 1 /\ taken[w] \in Nat /\ \A u \in Writers \ {w} : taken'[u] = taken[u]
    BY <2>1 DEF TypeOK
  <2>4. \A u \in Writers : consumed[u] = taken[u]
    BY <1>0, <2>2 DEF Told
  <2>5. Told'
    BY <1>0, <2>1, <2>2, <2>3, <2>4 DEF Told
  <2> QED BY <2>1, <2>5, SameWaiting
<1>3. CASE GetConsumed
  <2>1. /\ reader = "get" /\ reader' = "set" /\ found' = consumed[Looked]
        /\ UNCHANGED <<consumed, cancelled, expects, tells, owner, at, tail, cursors, k, taken>> /\ Looked' = Looked
    BY <1>3 DEF GetConsumed, Looked, chan, write, own
  <2>2. \A u \in Writers : Serves(u)' = Serves(u)
    BY <2>1 DEF Serves
  <2>3. Told'
    BY <1>0, <2>1, <2>2 DEF Told
  <2> QED BY <2>1, <2>3, SameWaiting
<1>4. CASE PutConsumed
  <2> DEFINE w == Looked
  <2>1. /\ w \in Writers /\ reader = "set" /\ reader' = "idle" /\ SetConsumed(w, found + 1)
        /\ UNCHANGED <<cancelled, expects, tells, owner, tail, taken>> /\ found = consumed[w]
    BY <1>4 DEF TypeOK, PutConsumed, Looked, own, Told
  <2>2. \A u \in Writers : (Serves(u) <=> u = w) /\ ~Serves(u)'
    BY <2>1 DEF Serves
  <2> HIDE DEF w
  <2>3. consumed[w] = taken[w] - 1 /\ taken[w] \in Nat /\ \A u \in Writers \ {w} : consumed[u] = taken[u]
    BY <1>0, <2>1, <2>2 DEF Told, TypeOK
  <2>4. consumed'[w] = found + 1 /\ \A u \in Writers \ {w} : consumed'[u] = consumed[u]
    BY <2>1 DEF SetConsumed, TypeOK
  <2>5. \A u \in Writers : consumed'[u] = taken[u]
    BY <2>1, <2>3, <2>4
  <2>6. Told'
    BY <1>0, <2>1, <2>2, <2>5 DEF Told
  <2>7. Waiting'
    <3>1. \A u \in Writers \ {w} : at'[u] = at[u]
      BY <2>1 DEF SetConsumed, TypeOK
    <3>2. at'[w] = IF at[w] = "asleep" /\ found + 1 # expects[w] THEN "woken" ELSE at[w]
      BY <2>1 DEF SetConsumed, TypeOK
    <3>3. \A u \in Writers : Full(u)' = Full(u)
      BY <2>1 DEF Full
    <3> QED BY <2>1, <2>4, <3>1, <3>2, <3>3 DEF Waiting, Stuck
  <2> QED BY <2>6, <2>7
<1> QED BY <1>1, <1>2, <1>3, <1>4 DEF Evaluate

\* The steps of Owner.
LEMMA OwnerWaiting ==
  ASSUME ~Shared, TypeOK, FifoInv, Waiting, Told, SettleBegin \/ Settle \/ End \/ Stop
  PROVE  Waiting' /\ Told'
<1>1. ASSUME UNCHANGED <<consumed, expects, taken, cursors, k, found, at, tail, reader>>
      PROVE  \A w \in Writers : Serves(w)' = Serves(w) /\ Looked' = Looked
  BY <1>1 DEF Serves, Looked
<1>2. CASE SettleBegin \/ Settle \/ End
  <2>1. /\ UNCHANGED <<consumed, cancelled, expects, taken, cursors, k, found, at, tail, reader, tells>>
        /\ owner \in {"run", "settle", "wait"} /\ owner' \notin {"snap", "tell"}
        /\ owner = "run" => reader = "idle"
    BY <1>2 DEF SettleBegin, Settle, Settles, StillRuns, WaitState, End, Free, chan, write, read
  <2>2. Looked' = Looked
    BY <2>1 DEF Looked
  <2>3. Told'
    BY <1>1, <2>1, <2>2 DEF Told
  <2> QED BY <2>1, <2>3, SameWaiting
<1>3. CASE Cancel
  <2>1. /\ UNCHANGED <<consumed, expects, taken, cursors, k, found, at, tail, reader, tells>>
        /\ owner = "cancel" /\ owner' = "snap" /\ cancelled' = TRUE
    BY <1>3 DEF Cancel, write, read
  <2>2. Looked' = Looked
    BY <2>1 DEF Looked
  <2>3. Told'
    BY <1>1, <2>1, <2>2 DEF Told
  <2>4. Waiting'
    BY <2>1 DEF Waiting, Full
  <2> QED BY <2>3, <2>4
<1>4. CASE CancelChains
  <2>1. /\ UNCHANGED <<consumed, cancelled, expects, taken, cursors, k, found, at, tail, reader, chains>>
        /\ owner = "snap" /\ owner' = "tell" /\ tells' = chains
    BY <1>4 DEF CancelChains, chan, write, read
  <2>2. Looked' = Looked
    BY <2>1 DEF Looked
  <2>3. \A w \in Writers : at[w] \in Stuck => w \in Range(tells')
    BY <2>1 DEF FifoInv, Opened, Stuck, Made
  <2>4. Told'
    BY <1>1, <2>1, <2>2, <2>3 DEF Told
  <2> QED BY <2>1, <2>4, SameWaiting
<1>5. CASE CancelChain
  <2> DEFINE w == Head(tells)
  <2>1. /\ w \in Writers /\ SetConsumed(w, -1) /\ owner = "tell" /\ tells' = Tail(tells)
        /\ UNCHANGED <<cancelled, expects, taken, cursors, k, found, tail, reader, owner>>
    BY <1>5, HeadTailProperties DEF TypeOK, CancelChain, CancelMark, read
  <2>2. \A u \in Range(tells) : u = w \/ u \in Range(Tail(tells))
    <3> SUFFICES ASSUME NEW i \in DOMAIN tells PROVE tells[i] = w \/ tells[i] \in Range(Tail(tells))
      BY DEF Range
    <3>1. tells \in Seq(Writers) /\ tells # <<>>
      BY <1>5 DEF TypeOK, CancelChain
    <3>2. /\ Tail(tells) \in Seq(Writers) /\ Len(Tail(tells)) = Len(tells) - 1
          /\ \A j \in 1 .. Len(Tail(tells)) : Tail(tells)[j] = tells[j + 1]
      BY <3>1, HeadTailProperties
    <3>3. CASE i = 1
      BY <3>1, <3>3
    <3>4. CASE i # 1
      <4>1. i - 1 \in DOMAIN Tail(tells) /\ i - 1 \in 1 .. Len(Tail(tells)) /\ (i - 1) + 1 = i
        BY <3>1, <3>2, <3>4
      <4>2. Tail(tells)[i - 1] = tells[i]
        BY <3>2, <4>1
      <4> QED BY <4>1, <4>2 DEF Range
    <3> QED BY <3>3, <3>4
  <2> HIDE DEF w
  <2>3. /\ consumed'[w] = -1 /\ \A u \in Writers \ {w} : consumed'[u] = consumed[u] /\ at'[u] = at[u]
        /\ at'[w] = IF at[w] = "asleep" /\ -1 # expects[w] THEN "woken" ELSE at[w]
    BY <2>1 DEF SetConsumed, TypeOK
  <2>4. reader = "idle" /\ cancelled
    BY <2>1 DEF Told
  <2>5. \A u \in Writers : Serves(u)' = Serves(u) /\ Full(u)' = Full(u)
    BY <2>1 DEF Serves, Looked, Full
  <2>6. Told'
    BY <2>1, <2>2, <2>3, <2>4, <2>5 DEF Told, Stuck
  <2>7. Waiting'
    BY <2>1, <2>3, <2>5 DEF Waiting, Stuck
  <2> QED BY <2>6, <2>7
<1>6. CASE Join
  <2>1. /\ UNCHANGED <<consumed, cancelled, expects, taken, cursors, k, found, at, tail, reader, tells>>
        /\ owner = "tell" /\ owner' = "ended" /\ tells = <<>>
    BY <1>6 DEF Join, chan, write, read
  <2>2. Looked' = Looked
    BY <2>1 DEF Looked
  <2>3. Told'
    BY <1>1, <2>1, <2>2 DEF Told, Range
  <2> QED BY <2>1, <2>3, SameWaiting
<1> QED BY <1>2, <1>3, <1>4, <1>5, <1>6 DEF Stop

LEMMA InitWaiting == Init => Waiting /\ Told
<1> SUFFICES ASSUME Init PROVE Waiting /\ Told
  OBVIOUS
<1>1. \A w \in Writers : at[w] \notin Stuck \cup {"check"} /\ ~Serves(w)
  BY DEF Init, Stuck, Serves
<1>2. Waiting
  BY <1>1 DEF Waiting, Stuck
<1>3. Told
  BY <1>1 DEF Init, Told
<1> QED BY <1>2, <1>3

LEMMA NextWaiting ==
  ASSUME ~Shared
  PROVE  TypeOK /\ FifoInv /\ Waiting /\ Told /\ [Next]_vars => (Waiting /\ Told)'
<1> SUFFICES ASSUME TypeOK, FifoInv, Waiting, Told, [Next]_vars PROVE Waiting' /\ Told'
  OBVIOUS
<1>1. CASE UNCHANGED vars
  <2>1. UNCHANGED <<consumed, cancelled, expects, taken, cursors, k, found, at, tail, reader, tells, owner>>
    BY <1>1 DEF vars, chan, write, read, own
  <2> QED BY <2>1, SameWaiting, SameTold
<1>2. CASE ReadToken \/ Evaluate
  BY <1>2, ReaderWaiting
<1>3. CASE SettleBegin \/ Settle \/ End \/ Stop
  BY <1>3, OwnerWaiting
<1>4. CASE Crash \/ Watch
  BY <1>4, WriterWaiting, RootAssumption DEF FifoInv, PlaceInv
<1>5. ASSUME NEW w \in Writers,
             \/ Room(w) \/ Put(w) \/ Finish(w) \/ Kill(w)
             \/ \E c \in Writers : Open(w, c) \/ Start(w, c)
             \/ \E p \in Releasers : Release(w, p)
      PROVE  Waiting' /\ Told'
  BY <1>5, WriterWaiting DEF Put, Strolling, FifoInv, PlaceInv
<1> QED BY <1>1, <1>2, <1>3, <1>4, <1>5 DEF Next

\* Nobody sleeps over what it waits for, when only Owner reads the LazyList: a
\* writer sleeps only while its chain is full, and not after a cancel; the
\* reader only while there is nothing to take; Owner only while the state says
\* that the $( ) runs (Chan_wait_room, Chan_put, Chan_next, Chan_cancel).
THEOREM WakeUpsArrive == ASSUME ~Shared PROVE Spec => []NoLostWakeUp
<1>1. ASSUME TypeOK, FifoInv, Waiting, Told, NEW w \in Writers, at[w] = "asleep"
      PROVE  StaysFull(w) /\ (cancelled => owner = "snap" \/ w \in Range(tells))
  <2>1. expects[w] >= 0 /\ Full(w) /\ consumed[w] = expects[w] /\ cells[w] = tail[w]
    BY <1>1 DEF Waiting, Stuck, FifoInv, Tails
  <2>2. /\ cells[w] \in Nat /\ taken[w] \in Nat /\ expects[w] \in Int /\ Cap \in Nat
        /\ consumed[w] = (IF Serves(w) THEN taken[w] - 1 ELSE taken[w])
    BY <1>1, <2>1, BoundAssumption DEF TypeOK, Told
  <2>3. cells[w] - taken[w] >= Cap \/ Serves(w)
    BY <2>1, <2>2 DEF Full
  <2>4. cancelled => owner = "snap" \/ w \in Range(tells)
    BY <1>1, <2>1 DEF Told, Stuck
  <2> QED BY <2>1, <2>3, <2>4 DEF StaysFull, Serves
<1>2. TypeOK /\ FifoInv /\ Passed /\ Waiting /\ Told /\ Settling => NoLostWakeUp
  BY <1>1, SleepsRightly DEF NoLostWakeUp, CancelWakes, Settling
<1>3. Init => Settling
  BY DEF Init, Settling
<1>4. TypeOK /\ FifoInv /\ Waiting /\ Told /\ [Next]_vars => (Waiting /\ Told)'
  BY NextWaiting
<1> QED BY <1>2, <1>3, <1>4, InitPassed, NextPassed, InitWaiting, NextSettling, FifoIsKept, PTL DEF Spec

=============================================================================
