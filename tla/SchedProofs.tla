---------------------------- MODULE SchedProofs ----------------------------
(***************************************************************************)
(* Proofs about Sched, for every number of CPUs and threads.               *)
(*                                                                         *)
(* Placement is not inductive alone: finish_switch needs to know where the *)
(* thread that left went, and that it is still on its stack.  Inv adds     *)
(* that (StackWhere) and who may be joining whom (JoinWaits).              *)
(***************************************************************************)
EXTENDS Sched, FiniteSetTheorems, SequenceTheorems, TLAPS

-----------------------------------------------------------------------------
(* Facts about queues without repetitions: what Append, RemoveAt and the   *)
(* concatenation of an ordered set do to them.                             *)

NoDup(q) == \A i, j \in DOMAIN q : q[i] = q[j] => i = j

\* Appending a thread that is not in a queue adds exactly that thread.
LEMMA AppendQueue ==
    ASSUME NEW S, NEW q \in Seq(S), NEW t \in S, NoDup(q), t \notin ToSet(q)
    PROVE  /\ Append(q, t) \in Seq(S)
           /\ NoDup(Append(q, t))
           /\ ToSet(Append(q, t)) = ToSet(q) \cup {t}
<1> DEFINE r == Append(q, t)
<1>1. /\ r \in Seq(S)
      /\ Len(r) = Len(q) + 1
      /\ \A i \in 1 .. Len(q) : r[i] = q[i]
      /\ r[Len(q) + 1] = t
  BY AppendProperties
<1>2. /\ Len(q) \in Nat
      /\ DOMAIN q = 1 .. Len(q)
      /\ DOMAIN r = 1 .. Len(q) + 1
  BY <1>1, LenProperties
<1> HIDE DEF r
<1>3. \A i \in DOMAIN q : q[i] \in ToSet(q)
  BY DEF ToSet
<1>4. NoDup(r)
  <2> SUFFICES ASSUME NEW i \in DOMAIN r, NEW j \in DOMAIN r, r[i] = r[j]
               PROVE  i = j
    BY DEF NoDup
  <2>1. i \in DOMAIN q \/ i = Len(q) + 1
    BY <1>2
  <2>2. j \in DOMAIN q \/ j = Len(q) + 1
    BY <1>2
  <2> QED
    BY <1>1, <1>2, <1>3, <2>1, <2>2 DEF NoDup
<1>5. ToSet(r) = ToSet(q) \cup {t}
  <2>1. ToSet(r) \subseteq ToSet(q) \cup {t}
    <3> SUFFICES ASSUME NEW i \in DOMAIN r PROVE r[i] \in ToSet(q) \cup {t}
      BY DEF ToSet
    <3>1. i \in DOMAIN q \/ i = Len(q) + 1
      BY <1>2
    <3> QED
      BY <1>1, <1>2, <1>3, <3>1
  <2>2. \A i \in DOMAIN q : q[i] \in ToSet(r)
    <3> TAKE i \in DOMAIN q
    <3>1. i \in DOMAIN r /\ r[i] = q[i]
      BY <1>1, <1>2
    <3> QED
      BY <3>1 DEF ToSet
  <2>3. t \in ToSet(r)
    <3>1. Len(q) + 1 \in DOMAIN r
      BY <1>2
    <3> QED
      BY <1>1, <3>1 DEF ToSet
  <2> QED
    BY <2>1, <2>2, <2>3, Zenon DEF ToSet
<1> QED
  BY <1>1, <1>4, <1>5 DEF r

\* Removing position i of a queue removes exactly the thread it holds.
LEMMA RemoveQueue ==
    ASSUME NEW S, NEW q \in Seq(S), NEW i \in DOMAIN q, NoDup(q)
    PROVE  /\ RemoveAt(q, i) \in Seq(S)
           /\ NoDup(RemoveAt(q, i))
           /\ ToSet(RemoveAt(q, i)) = ToSet(q) \ {q[i]}
<1> DEFINE r == RemoveAt(q, i)
           n == Len(q)
           a == SubSeq(q, 1, i - 1)
           b == SubSeq(q, i + 1, n)
<1>1. n \in Nat /\ DOMAIN q = 1 .. n /\ i \in 1 .. n /\ \A k \in 1 .. n : q[k] \in S
  BY LenProperties, ElementOfSeq
<1>2. /\ a \in Seq(S) /\ Len(a) = i - 1
      /\ \A k \in 1 .. i - 1 : a[k] = q[k]
  <2>1. /\ a \in Seq(S)
        /\ Len(a) = IF 1 <= i - 1 THEN (i - 1) - 1 + 1 ELSE 0
        /\ \A k \in 1 .. (i - 1) - 1 + 1 : a[k] = q[1 + k - 1]
    <3>1. 1 \in Int /\ i - 1 \in Int /\ \A k \in 1 .. i - 1 : q[k] \in S
      BY <1>1
    <3> QED
      BY <3>1, SubSeqProperties
  <2> HIDE DEF a, n
  <2> QED
    BY <1>1, <2>1
<1>3. /\ b \in Seq(S) /\ Len(b) = n - i
      /\ \A k \in 1 .. n - i : b[k] = q[i + k]
  <2>1. /\ b \in Seq(S)
        /\ Len(b) = IF i + 1 <= n THEN n - (i + 1) + 1 ELSE 0
        /\ \A k \in 1 .. n - (i + 1) + 1 : b[k] = q[(i + 1) + k - 1]
    <3>1. i + 1 \in Int /\ n \in Int /\ \A k \in i + 1 .. n : q[k] \in S
      BY <1>1
    <3> QED
      BY <3>1, SubSeqProperties
  <2> HIDE DEF b, n
  <2>2. \A k \in 1 .. n - i : k \in 1 .. n - (i + 1) + 1 /\ (i + 1) + k - 1 = i + k
    BY <1>1
  <2> QED
    BY <1>1, <2>1, <2>2
<1> HIDE DEF a, b, n
<1>4. r = a \o b
  BY DEF RemoveAt, a, b, n
<1>5. /\ r \in Seq(S) /\ Len(r) = n - 1
      /\ \A k \in 1 .. n - 1 : r[k] = IF k < i THEN q[k] ELSE q[k + 1]
      /\ DOMAIN r = 1 .. n - 1
  <2>1. /\ r \in Seq(S)
        /\ Len(r) = Len(a) + Len(b)
        /\ \A k \in 1 .. Len(a) + Len(b) :
              r[k] = IF k <= Len(a) THEN a[k] ELSE b[k - Len(a)]
    BY <1>2, <1>3, <1>4, ConcatProperties, SMTT(30)
  <2>2. DOMAIN r = 1 .. Len(r)
    BY <2>1, LenProperties
  <2> HIDE DEF r
  <2>3. Len(a) + Len(b) = n - 1
    BY <1>1, <1>2, <1>3
  <2>4. \A k \in 1 .. n - 1 : r[k] = IF k < i THEN q[k] ELSE q[k + 1]
    <3> SUFFICES ASSUME NEW k \in 1 .. n - 1
                 PROVE  r[k] = IF k < i THEN q[k] ELSE q[k + 1]
      OBVIOUS
    <3>1. CASE k < i
      BY <1>1, <1>2, <2>1, <2>3, <3>1
    <3>2. CASE ~(k < i)
      <4>1. k - (i - 1) \in 1 .. n - i /\ i + (k - (i - 1)) = k + 1
        BY <1>1, <3>2
      <4>2. b[k - (i - 1)] = q[k + 1]
        BY <1>3, <4>1
      <4> QED
        BY <1>1, <1>2, <2>1, <2>3, <3>2, <4>2
    <3> QED
      BY <3>1, <3>2
  <2> QED
    BY <2>1, <2>2, <2>3, <2>4
<1> HIDE DEF r
<1> DEFINE from(k) == IF k < i THEN k ELSE k + 1
<1>6. \A k \in DOMAIN r : from(k) \in DOMAIN q /\ from(k) # i /\ r[k] = q[from(k)]
  BY <1>1, <1>5
<1>7. NoDup(r)
  <2> SUFFICES ASSUME NEW k \in DOMAIN r, NEW l \in DOMAIN r, r[k] = r[l]
               PROVE  k = l
    BY DEF NoDup
  <2>1. from(k) = from(l)
    BY <1>6 DEF NoDup
  <2> QED
    BY <1>1, <1>5, <2>1
<1>8. ToSet(r) = ToSet(q) \ {q[i]}
  <2>1. ASSUME NEW k \in DOMAIN r PROVE r[k] \in ToSet(q) \ {q[i]}
    BY <1>6 DEF ToSet, NoDup
  <2>2. ASSUME NEW k \in DOMAIN q, q[k] # q[i] PROVE q[k] \in ToSet(r)
    <3>1. CASE k < i
      <4>1. k \in DOMAIN r /\ r[k] = q[k]
        BY <1>1, <1>5, <3>1
      <4> QED
        BY <4>1 DEF ToSet
    <3>2. CASE k > i
      <4>1. k - 1 \in DOMAIN r /\ r[k - 1] = q[k]
        BY <1>1, <1>5, <3>2
      <4> QED
        BY <4>1 DEF ToSet
    <3> QED
      BY <1>1, <2>2, <3>1, <3>2
  <2> QED
    BY <2>1, <2>2 DEF ToSet
<1> QED
  BY <1>5, <1>7, <1>8 DEF r

\* Appending the members of a finite set, in any order, adds exactly them.
LEMMA ConcatQueue ==
    ASSUME NEW S, IsFiniteSet(S), NEW q \in Seq(S), NoDup(q),
           NEW W \in SUBSET S, W \cap ToSet(q) = {}, NEW o \in SetToSeqs(W)
    PROVE  /\ q \o o \in Seq(S)
           /\ NoDup(q \o o)
           /\ ToSet(q \o o) = ToSet(q) \cup W
<1> DEFINE m == Cardinality(W)
           n == Len(q)
           r == q \o o
<1>1. IsFiniteSet(W) /\ m \in Nat /\ m = Cardinality(W)
  BY FS_Subset, FS_CardinalityType
<1>2. o \in [1 .. m -> W] /\ \A i, j \in 1 .. m : o[i] = o[j] => i = j
  BY DEF SetToSeqs
<1> HIDE DEF m
<1>3. \A w \in W : \E i \in 1 .. m : o[i] = w
  <2>1. o \in Injection(1 .. m, W)
    BY <1>2, Zenon DEF Injection, IsInjective
  <2>2. Cardinality(1 .. m) = m
    <3>1. Cardinality(1 .. m) = IF 1 > m THEN 0 ELSE m - 1 + 1
      BY <1>1, 1 \in Int, m \in Int, FS_Interval, ZenonT(30)
    <3> QED
      BY <1>1, <3>1
  <2>3. o \in Surjection(1 .. m, W)
    BY <1>1, <2>1, <2>2, FS_Injection
  <2> QED
    BY <2>3 DEF Surjection
<1>4. o \in Seq(S) /\ Len(o) = m /\ DOMAIN o = 1 .. m
  <2>1. o \in [1 .. m -> S]
    BY <1>2
  <2> QED
    BY <1>1, <2>1
<1>5. /\ n \in Nat /\ DOMAIN q = 1 .. n
      /\ r \in Seq(S) /\ DOMAIN r = 1 .. n + m
      /\ \A i \in 1 .. n + m : r[i] = IF i <= n THEN q[i] ELSE o[i - n]
  <2>1. n \in Nat /\ DOMAIN q = 1 .. n
    BY LenProperties
  <2>2. /\ r \in Seq(S) /\ Len(r) = n + m
        /\ \A i \in 1 .. n + m : r[i] = IF i <= n THEN q[i] ELSE o[i - n]
    BY <1>4, ConcatProperties, Zenon
  <2>3. DOMAIN r = 1 .. n + m
    BY <2>2, LenProperties
  <2> QED
    BY <2>1, <2>2, <2>3
<1> HIDE DEF n, r
<1>6. \A i \in DOMAIN q : q[i] \in ToSet(q) /\ q[i] \notin W
  BY DEF ToSet
<1>7. \A i \in DOMAIN r : \/ i \in DOMAIN q /\ r[i] = q[i]
                          \/ i - n \in 1 .. m /\ r[i] = o[i - n] /\ r[i] \in W
  <2> TAKE i \in DOMAIN r
  <2>1. CASE i <= n
    BY <1>5, <2>1
  <2>2. CASE i > n
    <3>1. i - n \in 1 .. m /\ r[i] = o[i - n]
      BY <1>1, <1>5, <2>2
    <3> QED
      BY <1>2, <3>1
  <2> QED
    BY <1>1, <1>5, <2>1, <2>2
<1>8. NoDup(r)
  <2> SUFFICES ASSUME NEW i \in DOMAIN r, NEW j \in DOMAIN r, r[i] = r[j]
               PROVE  i = j
    BY DEF NoDup
  <2>1. CASE i \in DOMAIN q /\ r[i] = q[i] /\ j \in DOMAIN q /\ r[j] = q[j]
    BY <2>1, Zenon DEF NoDup
  <2>2. CASE i - n \in 1 .. m /\ r[i] = o[i - n] /\ j - n \in 1 .. m /\ r[j] = o[j - n]
    <3>1. i - n = j - n
      BY <1>2, <2>2, Zenon
    <3> QED
      BY <1>1, <1>5, <3>1
  <2> QED
    BY <1>6, <1>7, <2>1, <2>2
<1>9. ToSet(r) = ToSet(q) \cup W
  <2>1. ASSUME NEW i \in DOMAIN r PROVE r[i] \in ToSet(q) \cup W
    BY <1>6, <1>7
  <2>2. ASSUME NEW i \in DOMAIN q PROVE q[i] \in ToSet(r)
    <3>1. i \in DOMAIN r /\ r[i] = q[i]
      BY <1>1, <1>5
    <3> QED
      BY <3>1 DEF ToSet
  <2>3. ASSUME NEW w \in W PROVE w \in ToSet(r)
    <3>1. PICK i \in 1 .. m : o[i] = w
      BY <1>3
    <3>2. n + i \in DOMAIN r /\ r[n + i] = w
      <4>1. n + i \in 1 .. n + m /\ ~(n + i <= n) /\ (n + i) - n = i
        BY <1>1, <1>5
      <4> QED
        BY <1>5, <3>1, <4>1
    <3> QED
      BY <3>2 DEF ToSet
  <2> QED
    BY <2>1, <2>2, <2>3 DEF ToSet
<1> QED
  BY <1>5, <1>8, <1>9 DEF r

-----------------------------------------------------------------------------

\* The stack a CPU is on: its running thread's or, between the two halves of
\* a switch, that of the thread that left, which no other CPU runs yet.
StackWhere ==
    /\ \A c \in CPU : onStack[c] = IF lock = c THEN prevForFinish[c] ELSE running[c]
    /\ \A c \in CPU : lock = c /\ prevForFinish[c] \in Thread =>
          state[prevForFinish[c]] \in {"Ready", "Sleeping", "Blocked", "Dying"}
    /\ \A t \in Thread : state[t] \notin {"New", "Gone"} => t \in stacks

Inv == SchedTypeOK /\ Placement /\ StackWhere /\ JoinWaits

-----------------------------------------------------------------------------

\* Placement of the states st, queue q and sleepers sl a caller of
\* schedule_locked prepared, no switch being in progress.
PlacedAs(st, q, sl) ==
    /\ lock = NoCpu
    /\ st \in [Thread -> State] /\ q \in Seq(Thread) /\ sl \in SUBSET Thread
    /\ NoDup(q)
    /\ \A t \in Thread : st[t] = "Ready" <=> t \in ToSet(q)
    /\ \A t \in Thread : st[t] = "Running" <=> \E c \in CPU : running[c] = t
    /\ \A t \in Thread : st[t] = "Sleeping" <=> t \in sl
    /\ \A t \in Thread : st[t] = "Dead" <=> t \in dead
    /\ \A t \in Thread : st[t] # "Dying"

\* Outside a switch, Placement is PlacedAs of the scheduler's own variables.
LEMMA PlacedNow ==
    ASSUME SchedTypeOK, Placement, lock = NoCpu
    PROVE  PlacedAs(state, runQueue, sleepers)
BY SchedAssumption, Zenon DEF SchedTypeOK, Placement, ReadyQueued, OthersPlaced, RunningOnce,
   PlacedAs, NoDup

\* What changes in a switch of CPU c, or in the idle thread going on.
switchTypes ==
    /\ lock' \in CPU \cup {NoCpu}
    /\ state' \in [Thread -> State]
    /\ runQueue' \in Seq(Thread)
    /\ sleepers' \in SUBSET Thread
    /\ running' \in [CPU -> Thread \cup {Idle}]
    /\ prevForFinish' \in [CPU -> Thread \cup {Idle, NoThread}]

\* rest is the queue q after `next`, when it is a thread, was taken out of it.
TakenFrom(rest, q, next) ==
    /\ rest \in Seq(Thread) /\ NoDup(rest)
    /\ ToSet(rest) = ToSet(q) \ {next}
    /\ next \in Thread => next \in ToSet(q)

\* What a switch of CPU c to `next` does.
Switched(c, next, newState, st) ==
    /\ \A t \in Thread : state'[t] = IF t = running[c] THEN newState
                                     ELSE IF t = next THEN "Running" ELSE st[t]
    /\ lock' = c /\ running' = [running EXCEPT ![c] = next]
    /\ prevForFinish' = [prevForFinish EXCEPT ![c] = running[c]]

\* Moving the CPU from its thread to `next`, taken out of the queue, keeps
\* every thread in one place.
LEMMA SwitchToPlaces ==
    ASSUME SchedTypeOK, Placement, NEW c \in CPU, NEW st, NEW q, NEW rest, NEW sl,
           NEW next \in Thread \cup {Idle}, next # running[c],
           NEW newState \in {"Ready", "Sleeping", "Blocked", "Dying"},
           running[c] = Idle => newState = "Ready",
           PlacedAs(st, q, sl),
           TakenFrom(rest, q, next), SwitchTo(c, next, rest, newState, st, sl), dead' = dead
    PROVE  switchTypes /\ Placement' /\ Switched(c, next, newState, st)
<1> DEFINE cur == running[c]
<1>1. /\ cur \in Thread \cup {Idle}
      /\ running \in [CPU -> Thread \cup {Idle}]
      /\ prevForFinish \in [CPU -> Thread \cup {Idle, NoThread}]
      /\ \A d \in CPU : prevForFinish[d] = NoThread
      /\ \A d, e \in CPU : running[d] = running[e] /\ running[d] # Idle => d = e
      /\ Idle \notin Thread /\ NoThread \notin Thread /\ NoThread # Idle /\ NoCpu \notin CPU
      /\ dead \in SUBSET Thread
  BY SchedAssumption DEF SchedTypeOK, Placement, PrevHeldByLock, RunningOnce, PlacedAs
<1>2. /\ state' = [t \in Thread |-> IF t = cur THEN newState
                                    ELSE IF t = next THEN "Running" ELSE st[t]]
      /\ runQueue' = IF newState = "Ready" /\ cur # Idle THEN Append(rest, cur) ELSE rest
      /\ sleepers' = IF newState = "Sleeping" THEN sl \cup {cur} ELSE sl
      /\ running' = [running EXCEPT ![c] = next]
      /\ prevForFinish' = [prevForFinish EXCEPT ![c] = cur]
      /\ lock' = c
  BY DEF SwitchTo, Requeue
<1>3. /\ cur \in Thread => st[cur] = "Running" /\ cur \notin ToSet(q)
      /\ next \in Thread => st[next] = "Ready"
  BY <1>1 DEF PlacedAs, TakenFrom
<1>4. /\ runQueue' \in Seq(Thread) /\ NoDup(runQueue')
      /\ ToSet(runQueue') = (ToSet(q) \ {next}) \cup
                            (IF newState = "Ready" /\ cur # Idle THEN {cur} ELSE {})
  <2>1. CASE newState = "Ready" /\ cur # Idle
    <3>1. cur \in Thread /\ cur \notin ToSet(rest)
      BY <1>1, <1>3, <2>1 DEF TakenFrom
    <3> QED
      BY <1>2, <2>1, <3>1, AppendQueue DEF TakenFrom
  <2>2. CASE ~(newState = "Ready" /\ cur # Idle)
    BY <1>2, <2>2, Zenon DEF TakenFrom
  <2> QED
    BY <2>1, <2>2
<1>5. st \in [Thread -> State] /\ sl \in SUBSET Thread
  BY DEF PlacedAs
<1>6. switchTypes
  BY <1>1, <1>2, <1>4, <1>5 DEF switchTypes, State
<1>7. ReadyQueued'
  <2>1. \A t \in Thread : state'[t] = "Ready" <=> t \in ToSet(runQueue')
    BY <1>1, <1>2, <1>3, <1>4 DEF PlacedAs
  <2> QED
    BY <1>4, <2>1 DEF ReadyQueued, NoDup
<1>8. RunningOnce'
  <2>1. \A d \in CPU : running[d] = next => next = Idle
    BY <1>1, <1>3 DEF PlacedAs
  <2>2. \A d, e \in CPU : running'[d] = running'[e] /\ running'[d] # Idle => d = e
    BY <1>1, <1>2, <2>1
  <2>3. \A t \in Thread : state'[t] = "Running" <=> \E d \in CPU : running'[d] = t
    <3> TAKE t \in Thread
    <3>1. CASE t = cur
      BY <1>1, <1>2, <3>1
    <3>2. CASE t = next
      BY <1>1, <1>2, <3>2
    <3>3. CASE t # cur /\ t # next
      <4>1. state'[t] = st[t]
        BY <1>2, <3>3
      <4>2. (\E d \in CPU : running'[d] = t) <=> (\E d \in CPU : running[d] = t)
        BY <1>1, <1>2, <3>3
      <4> QED
        BY <4>1, <4>2, Zenon DEF PlacedAs
    <3> QED
      BY <3>1, <3>2, <3>3, Zenon
  <2> QED
    BY <2>2, <2>3, Zenon DEF RunningOnce
<1>9. OthersPlaced' /\ PrevHeldByLock'
  <2>1. \A t \in Thread : state'[t] = "Sleeping" <=> t \in sleepers'
    BY <1>1, <1>2, <1>3 DEF PlacedAs
  <2>2. \A t \in Thread : state'[t] = "Dead" <=> t \in dead'
    BY <1>1, <1>2, <1>3, Zenon DEF PlacedAs
  <2>3. \A t \in Thread : state'[t] = "Dying" => lock' \in CPU /\ prevForFinish'[lock'] = t
    BY <1>1, <1>2, <1>3 DEF PlacedAs
  <2>4. PrevHeldByLock'
    BY <1>1, <1>2 DEF PrevHeldByLock
  <2> QED
    BY <2>1, <2>2, <2>3, <2>4, Zenon DEF OthersPlaced
<1> QED
  BY <1>2, <1>6, <1>7, <1>8, <1>9 DEF Placement, Switched


\* st is the state after some sleepers were woken.
WokenFrom(st) ==
    \A t \in Thread : st[t] = state[t] \/ (state[t] = "Sleeping" /\ st[t] = "Ready")

\* What schedule_locked leaves behind.
ScheduledBy(c, newState) ==
    /\ switchTypes
    /\ quantum' \in [CPU -> 0 .. QUANTUM_TICKS]
    /\ Placement' /\ StackWhere'
    /\ \A t \in Thread : Finished(t)' <=> Finished(t)
    /\ \A t \in Thread : state'[t] = "Blocked" =>
          state[t] = "Blocked" \/ (t = running[c] /\ newState = "Blocked")

\* schedule_locked, from any caller that prepared st, q and sl: types,
\* placement and stacks are kept, and apart from the thread that leaves and
\* the one that enters nobody changes state.
LEMMA ScheduleLockedKeeps ==
    ASSUME SchedTypeOK, Placement, StackWhere, NEW c \in CPU, NEW st, NEW q, NEW sl, NEW thr,
           NEW newState \in {"Ready", "Sleeping", "Blocked", "Dying"},
           running[c] = Idle => newState = "Ready",
           PlacedAs(st, q, sl),
           WokenFrom(st),
           ScheduleLocked(c, newState, st, q, sl, thr),
           dead' = dead, onStack' = onStack, stacks' = stacks
    PROVE  ScheduledBy(c, newState)
<1>1. quantum' \in [CPU -> 0 .. QUANTUM_TICKS]
  BY SchedAssumption DEF ScheduleLocked, SchedTypeOK
<1>2. \A i \in PickClass(q, c, thr) : i \in DOMAIN q
  BY Zenon DEF PickClass, NormalReady, Permitted
<1>3. /\ running[c] \in Thread \cup {Idle}
      /\ running[c] \in Thread => st[running[c]] = "Running"
      /\ Idle \notin Thread /\ NoThread \notin Thread /\ NoCpu \notin CPU
      /\ running \in [CPU -> Thread \cup {Idle}]
      /\ prevForFinish \in [CPU -> Thread \cup {Idle, NoThread}]
      /\ lock = NoCpu
      /\ st \in [Thread -> State]
  BY SchedAssumption, Zenon DEF SchedTypeOK, PlacedAs
<1>4. ASSUME NEW next \in Thread \cup {Idle}, next # running[c], NEW rest,
             TakenFrom(rest, q, next), SwitchTo(c, next, rest, newState, st, sl)
      PROVE  /\ switchTypes /\ Placement' /\ StackWhere'
             /\ \A t \in Thread : Finished(t)' <=> Finished(t)
             /\ \A t \in Thread : state'[t] = "Blocked" =>
                 state[t] = "Blocked" \/ (t = running[c] /\ newState = "Blocked")
  <2>0. switchTypes /\ Placement' /\ Switched(c, next, newState, st)
    BY <1>4, SwitchToPlaces, Zenon
  <2>1. /\ switchTypes
        /\ Placement'
        /\ \A t \in Thread : state'[t] = IF t = running[c] THEN newState
                                         ELSE IF t = next THEN "Running" ELSE st[t]
        /\ lock' = c /\ running' = [running EXCEPT ![c] = next]
        /\ prevForFinish' = [prevForFinish EXCEPT ![c] = running[c]]
    BY <2>0, Zenon DEF Switched
  <2>2. next \in Thread => st[next] = "Ready"
    BY <1>4, Zenon DEF PlacedAs, TakenFrom
  <2>3. \A t \in Thread : st[t] = state[t] \/ (state[t] = "Sleeping" /\ st[t] = "Ready")
    BY Zenon DEF WokenFrom
  <2>4. StackWhere'
    <3>1. \A d \in CPU : onStack'[d] = IF lock' = d THEN prevForFinish'[d] ELSE running'[d]
      BY <1>3, <2>1, Zenon DEF StackWhere
    <3>2. \A d \in CPU : lock' = d /\ prevForFinish'[d] \in Thread =>
             state'[prevForFinish'[d]] \in {"Ready", "Sleeping", "Blocked", "Dying"}
      BY <1>3, <2>1, Zenon
    <3>3. \A t \in Thread : state'[t] \notin {"New", "Gone"} => t \in stacks'
      BY <1>3, <2>1, <2>2, <2>3 DEF StackWhere
    <3> QED
      BY <3>1, <3>2, <3>3, Zenon DEF StackWhere
  <2>5. \A t \in Thread : Finished(t)' <=> Finished(t)
    BY <1>3, <2>1, <2>2, <2>3 DEF Finished
  <2>6. \A t \in Thread : state'[t] = "Blocked" =>
                 state[t] = "Blocked" \/ (t = running[c] /\ newState = "Blocked")
    BY <1>3, <2>1, <2>3, Zenon
  <2> QED
    BY <2>1, <2>4, <2>5, <2>6, Zenon
<1>5. ASSUME NEW i \in PickClass(q, c, thr),
             SwitchTo(c, q[i], RemoveAt(q, i), newState, st, sl)
      PROVE  /\ switchTypes /\ Placement' /\ StackWhere'
             /\ \A t \in Thread : Finished(t)' <=> Finished(t)
             /\ \A t \in Thread : state'[t] = "Blocked" =>
                 state[t] = "Blocked" \/ (t = running[c] /\ newState = "Blocked")
  <2>1. i \in DOMAIN q /\ q \in Seq(Thread) /\ NoDup(q)
    BY <1>2, Zenon DEF PlacedAs
  <2>2. q[i] \in Thread /\ q[i] \in ToSet(q)
    <3>1. q[i] \in Thread
      BY <2>1, LenProperties, ElementOfSeq, Zenon
    <3> QED
      BY <2>1, <3>1, Zenon DEF ToSet
  <2>3. q[i] # running[c]
    BY <1>3, <2>2, Zenon DEF PlacedAs
  <2>4. /\ RemoveAt(q, i) \in Seq(Thread)
        /\ NoDup(RemoveAt(q, i))
        /\ ToSet(RemoveAt(q, i)) = ToSet(q) \ {q[i]}
    BY <2>1, RemoveQueue, Zenon
  <2> QED
    BY <1>4, <1>5, <2>2, <2>3, <2>4, Zenon DEF TakenFrom
<1>6. ASSUME running[c] # Idle, SwitchTo(c, Idle, q, newState, st, sl)
      PROVE  /\ switchTypes /\ Placement' /\ StackWhere'
             /\ \A t \in Thread : Finished(t)' <=> Finished(t)
             /\ \A t \in Thread : state'[t] = "Blocked" =>
                 state[t] = "Blocked" \/ (t = running[c] /\ newState = "Blocked")
  <2>1. q \in Seq(Thread) /\ NoDup(q)
    BY Zenon DEF PlacedAs
  <2>2. \A i \in DOMAIN q : q[i] \in Thread
    BY <2>1, LenProperties, ElementOfSeq
  <2>3. ToSet(q) = ToSet(q) \ {Idle}
    BY <1>3, <2>2 DEF ToSet
  <2> QED
    BY <1>3, <1>4, <1>6, <2>1, <2>3, Zenon DEF TakenFrom
<1>7. ASSUME running[c] = Idle, state' = st, runQueue' = q, sleepers' = sl,
             UNCHANGED <<running, prevForFinish, lock>>
      PROVE  /\ switchTypes /\ Placement' /\ StackWhere'
             /\ \A t \in Thread : Finished(t)' <=> Finished(t)
             /\ \A t \in Thread : state'[t] = "Blocked" =>
                 state[t] = "Blocked" \/ (t = running[c] /\ newState = "Blocked")
  <2>1. switchTypes
    BY <1>3, <1>7, Zenon DEF switchTypes, PlacedAs
  <2>2. Placement'
    BY <1>3, <1>7 DEF Placement, ReadyQueued, RunningOnce, OthersPlaced, PrevHeldByLock,
       PlacedAs, NoDup
  <2>3. StackWhere'
    BY <1>3, <1>7, Zenon DEF StackWhere, WokenFrom
  <2>4. \A t \in Thread : Finished(t)' <=> Finished(t)
    BY <1>7, Zenon DEF Finished, WokenFrom
  <2> QED
    BY <1>7, <2>1, <2>2, <2>3, <2>4, Zenon DEF WokenFrom
<1> QED
  BY <1>1, <1>5, <1>6, <1>7, Zenon DEF ScheduleLocked, ScheduledBy

\* A running thread that gives up its CPU for newState.
LEMMA GivesUp ==
    ASSUME Inv, NEW c \in CPU, NEW t \in Thread, Runs(c, t),
           NEW newState \in {"Ready", "Sleeping", "Blocked", "Dying"},
           ScheduleLocked(c, newState, state, runQueue, sleepers, throttled),
           dead' = dead, onStack' = onStack, stacks' = stacks
    PROVE  ScheduledBy(c, newState)
<1>1. SchedTypeOK /\ Placement /\ StackWhere
  BY DEF Inv
<1>2. PlacedAs(state, runQueue, sleepers)
  BY <1>1, PlacedNow DEF Runs
<1>3. WokenFrom(state)
  BY DEF WokenFrom
<1>4. running[c] = Idle => newState = "Ready"
  BY SchedAssumption, Zenon DEF Runs
<1> QED
  BY <1>1, <1>2, <1>3, <1>4, ScheduleLockedKeeps

-----------------------------------------------------------------------------
(* Each action keeps Inv.                                                  *)

LEMMA InitInv == SchedInit => Inv
<1> SUFFICES ASSUME SchedInit PROVE Inv
  OBVIOUS
<1>1. 0 \in CPU
  BY SchedAssumption DEF CPU
<1>2. SchedTypeOK
  <2>1. throttled \in BOOLEAN /\ ipi \in [CPU -> BOOLEAN]
    BY Zenon DEF SchedInit
  <2>2. quantum \in [CPU -> 0 .. QUANTUM_TICKS]
    BY SchedAssumption DEF SchedInit
  <2>3. /\ state \in [Thread -> State] /\ prio \in [Thread -> {0, 1}]
        /\ pc \in [Thread -> {"run", "joinCheck", "joinYield", "join", "repos"}]
    BY DEF SchedInit, State
  <2>4. runQueue \in Seq(Thread)
    BY EmptySeq, Zenon DEF SchedInit
  <2>5. /\ running \in [CPU -> Thread \cup {Idle}]
        /\ prevForFinish \in [CPU -> Thread \cup {Idle, NoThread}]
        /\ affinity \in [Thread -> SUBSET CPU]
    BY <1>1, SchedAssumption, Zenon DEF SchedInit
  <2> QED
    BY <2>1, <2>2, <2>3, <2>4, <2>5, SchedAssumption DEF SchedInit, SchedTypeOK
<1>3. Placement
  <2>1. ReadyQueued
    BY DEF SchedInit, ReadyQueued, ToSet
  <2>2. RunningOnce
    BY <1>1, SchedAssumption, Zenon DEF SchedInit, RunningOnce
  <2>3. OthersPlaced /\ PrevHeldByLock
    BY SchedAssumption, Zenon DEF SchedInit, OthersPlaced, PrevHeldByLock
  <2> QED
    BY <2>1, <2>2, <2>3 DEF Placement
<1>4. StackWhere
  BY SchedAssumption, Zenon DEF SchedInit, StackWhere
<1>5. JoinWaits
  BY Zenon DEF SchedInit, JoinWaits
<1> QED
  BY <1>2, <1>3, <1>4, <1>5 DEF Inv

\* Steps that move no thread.
LEMMA StaysInv ==
    ASSUME Inv, SchedTypeOK', UNCHANGED <<placeVars, dead, onStack>>,
           \A t \in Thread : state[t] \notin {"New", "Gone"} /\ t \in stacks => t \in stacks',
           JoinWaits'
    PROVE  Inv'
<1>1. Placement'
  BY Zenon DEF Inv, placeVars, Placement, ReadyQueued, RunningOnce, OthersPlaced, PrevHeldByLock
<1>2. StackWhere'
  BY Zenon DEF Inv, placeVars, StackWhere
<1> QED
  BY <1>1, <1>2 DEF Inv

\* Threads that give up their CPU.
LEMMA SwitchInv ==
    ASSUME Inv, NEW c \in CPU, NEW newState, ScheduledBy(c, newState),
           dead' = dead, onStack' = onStack, stacks' = stacks,
           waiters' = waiters, target' = target,
           prio' = prio, affinity' = affinity,
           due' \in SUBSET Thread, throttled' \in BOOLEAN, ipi' \in [CPU -> BOOLEAN],
           pc' \in [Thread -> {"run", "joinCheck", "joinYield", "join", "repos"}],
           \A t \in Thread : pc'[t] = "joinCheck" =>
              pc[t] = "joinCheck" /\ ~(t = running[c] /\ newState = "Blocked")
    PROVE  Inv'
<1>1. SchedTypeOK'
  BY Zenon DEF Inv, SchedTypeOK, ScheduledBy, switchTypes
<1>2. JoinWaits'
  <2> SUFFICES ASSUME NEW t \in Thread, pc'[t] = "joinCheck", state'[t] = "Blocked"
               PROVE  ~Finished(target[t])' /\ t \in waiters[target[t]]
    BY Zenon DEF JoinWaits
  <2>1. pc[t] = "joinCheck" /\ state[t] = "Blocked"
    BY Zenon DEF ScheduledBy
  <2>2. ~Finished(target[t]) /\ t \in waiters[target[t]] /\ target[t] \in Thread
    BY <2>1, Zenon DEF Inv, SchedTypeOK, JoinWaits
  <2>3. \A u \in Thread : Finished(u)' <=> Finished(u)
    BY Zenon DEF ScheduledBy
  <2> QED
    BY <2>2, <2>3, Zenon DEF Finished
<1> QED
  BY <1>1, <1>2, Zenon DEF Inv, ScheduledBy

\* The frame of an action that switches, in the form SwitchInv wants it.
LEMMA YieldInv ==
    ASSUME Inv, NEW c \in CPU, NEW t \in Thread, YieldNow(c, t)
    PROVE  Inv'
<1>1. ScheduledBy(c, "Ready")
  BY GivesUp, Zenon DEF YieldNow, switchFrame
<1>2. pc' \in [Thread -> {"run", "joinCheck", "joinYield", "join", "repos"}]
  BY Zenon DEF YieldNow, Inv, SchedTypeOK
<1>3. \A u \in Thread : pc'[u] = "joinCheck" => pc[u] = "joinCheck"
  BY Zenon DEF YieldNow, Inv, SchedTypeOK
<1>4. due' \in SUBSET Thread /\ throttled' \in BOOLEAN /\ ipi' \in [CPU -> BOOLEAN]
  BY Zenon DEF YieldNow, switchFrame, Inv, SchedTypeOK
<1> QED
  BY <1>1, <1>2, <1>3, <1>4, SwitchInv DEF YieldNow, switchFrame

LEMMA SleepInv ==
    ASSUME Inv, NEW c \in CPU, NEW t \in Thread, SleepNs(c, t)
    PROVE  Inv'
<1>1. ScheduledBy(c, "Sleeping")
  BY GivesUp, Zenon DEF SleepNs, switchFrame
<1>2. due' \in SUBSET Thread /\ throttled' \in BOOLEAN /\ ipi' \in [CPU -> BOOLEAN]
  BY Zenon DEF SleepNs, switchFrame, Inv, SchedTypeOK
<1>3. pc' = pc /\ pc \in [Thread -> {"run", "joinCheck", "joinYield", "join", "repos"}]
  BY Zenon DEF SleepNs, Inv, SchedTypeOK
<1> QED
  BY <1>1, <1>2, <1>3, SwitchInv DEF SleepNs, switchFrame

LEMMA ExitInv ==
    ASSUME Inv, NEW c \in CPU, NEW t \in Thread, ExitCurrent(c, t)
    PROVE  Inv'
<1>1. ScheduledBy(c, "Dying")
  BY GivesUp DEF ExitCurrent, switchFrame
<1>2. due' \in SUBSET Thread /\ throttled' \in BOOLEAN /\ ipi' \in [CPU -> BOOLEAN]
  BY DEF ExitCurrent, switchFrame, Inv, SchedTypeOK
<1>3. pc' = pc /\ pc \in [Thread -> {"run", "joinCheck", "joinYield", "join", "repos"}]
  BY DEF ExitCurrent, Inv, SchedTypeOK
<1> QED
  BY <1>1, <1>2, <1>3, SwitchInv DEF ExitCurrent, switchFrame

\* A thread that parks is not inside join.
LEMMA ParkInv ==
    ASSUME Inv, NEW c \in CPU, NEW t \in Thread, ParkWith(c, t)
    PROVE  Inv'
<1>1. ScheduledBy(c, "Blocked")
  BY GivesUp, Zenon DEF ParkWith, switchFrame
<1>2. due' \in SUBSET Thread /\ throttled' \in BOOLEAN /\ ipi' \in [CPU -> BOOLEAN]
  BY Zenon DEF ParkWith, switchFrame, Inv, SchedTypeOK
<1>3. pc' = pc /\ pc \in [Thread -> {"run", "joinCheck", "joinYield", "join", "repos"}]
  BY Zenon DEF ParkWith, Inv, SchedTypeOK
<1>4. pc[running[c]] = "run"
  BY Zenon DEF ParkWith, Runs
<1> QED
  BY <1>1, <1>2, <1>3, <1>4, SwitchInv DEF ParkWith, switchFrame

\* A turn of join: it registers with a target that has not finished and
\* blocks in the same critical section.
LEMMA JoinTurnInv ==
    ASSUME Inv, NEW c \in CPU, NEW t \in Thread, NEW u \in Thread,
           Runs(c, t), JoinTurn(c, t, u)
    PROVE  Inv'
<1>1. SchedTypeOK
  BY Zenon DEF Inv
<1>2. CASE Finished(u)
  <2>1. SchedTypeOK'
    <3>1. /\ pc' = [pc EXCEPT ![t] = "run"]
          /\ target' = [target EXCEPT ![t] = t]
          /\ UNCHANGED <<placeVars, quantum, waiters, switchFrame, due>>
      BY <1>2 DEF JoinTurn
    <3> QED
      BY <1>1, <3>1, Zenon DEF SchedTypeOK, placeVars, switchFrame
  <2>2. JoinWaits'
    <3> SUFFICES ASSUME NEW w \in Thread, pc'[w] = "joinCheck", state'[w] = "Blocked"
                 PROVE  /\ state'[target'[w]] \notin {"New", "Dead", "Gone"}
                        /\ w \in waiters'[target'[w]]
      BY Zenon DEF JoinWaits, Finished
    <3>1. /\ pc' = [pc EXCEPT ![t] = "run"]
          /\ target' = [target EXCEPT ![t] = t]
          /\ UNCHANGED <<state, waiters>>
      BY <1>2, Zenon DEF JoinTurn, placeVars
    <3>2. w # t /\ pc[w] = "joinCheck" /\ target'[w] = target[w]
      BY <1>1, <3>1, Zenon DEF SchedTypeOK
    <3> QED
      BY <3>1, <3>2, Zenon DEF Inv, JoinWaits, Finished
  <2> QED
    BY <1>2, <2>1, <2>2, StaysInv, Zenon DEF JoinTurn, switchFrame
<1>3. CASE ~Finished(u)
  <2>1. ScheduledBy(c, "Blocked")
    BY <1>3, GivesUp, Zenon DEF JoinTurn, switchFrame
  <2>2. /\ pc' = [pc EXCEPT ![t] = "joinCheck"]
        /\ target' = [target EXCEPT ![t] = u]
        /\ waiters' = [waiters EXCEPT ![u] = @ \cup {t}]
        /\ UNCHANGED <<switchFrame, due>>
    BY <1>3, Zenon DEF JoinTurn
  <2>3. SchedTypeOK'
    BY <1>1, <2>1, <2>2, Zenon DEF SchedTypeOK, ScheduledBy, switchTypes, switchFrame
  <2>4. JoinWaits'
    <3> SUFFICES ASSUME NEW w \in Thread, pc'[w] = "joinCheck", state'[w] = "Blocked"
                 PROVE  /\ state'[target'[w]] \notin {"New", "Dead", "Gone"}
                        /\ w \in waiters'[target'[w]]
      BY DEF JoinWaits, Finished
    <3>0. \A x \in Thread : state[x] \notin {"New", "Dead", "Gone"} =>
                           state'[x] \notin {"New", "Dead", "Gone"}
      BY <2>1, Zenon DEF ScheduledBy, Finished
    <3>1. CASE w = t
      BY <1>1, <1>3, <2>2, <3>0, <3>1, Zenon DEF SchedTypeOK, Finished
    <3>2. CASE w # t
      <4>1. pc[w] = "joinCheck" /\ target'[w] = target[w] /\ target[w] \in Thread
        BY <1>1, <2>2, <3>2, Zenon DEF SchedTypeOK
      <4>2. state[w] = "Blocked"
        BY <2>1, <3>2, Zenon DEF ScheduledBy, Runs
      <4>3. state[target[w]] \notin {"New", "Dead", "Gone"} /\ w \in waiters[target[w]]
        BY <4>1, <4>2, Zenon DEF Inv, JoinWaits, Finished
      <4>4. state'[target[w]] \notin {"New", "Dead", "Gone"}
        BY <3>0, <4>1, <4>3, Zenon
      <4>5. w \in waiters'[target[w]]
        BY <1>1, <2>2, <4>1, <4>3, Zenon DEF SchedTypeOK
      <4> QED
        BY <4>1, <4>4, <4>5, Zenon
    <3> QED
      BY <3>1, <3>2, Zenon
  <2> QED
    BY <2>1, <2>3, <2>4, Zenon DEF Inv, ScheduledBy
<1> QED
  BY <1>2, <1>3, Zenon

LEMMA JoinCheckInv ==
    ASSUME Inv, NEW c \in CPU, NEW t \in Thread, JoinCheck(c, t)
    PROVE  Inv'
<1>1. SchedTypeOK'
  BY Zenon DEF Inv, SchedTypeOK, JoinCheck, placeVars, switchFrame
<1>2. JoinWaits'
  BY Zenon DEF Inv, SchedTypeOK, JoinCheck, JoinWaits, placeVars, Finished
<1> QED
  BY <1>1, <1>2, StaysInv, Zenon DEF JoinCheck, switchFrame

\* Steps that only change what a thread asked for, the clock or the quota.
LEMMA QuietInv ==
    ASSUME Inv, UNCHANGED <<placeVars, dead, onStack, waiters, quantum, target>>,
           stacks' \in SUBSET Thread,
           \A t \in Thread : state[t] \notin {"New", "Gone"} /\ t \in stacks => t \in stacks',
           prio' \in [Thread -> {0, 1}], affinity' \in [Thread -> SUBSET CPU],
           due' \in SUBSET Thread, throttled' \in BOOLEAN, ipi' \in [CPU -> BOOLEAN],
           pc' \in [Thread -> {"run", "joinCheck", "joinYield", "join", "repos"}],
           \A t \in Thread : pc'[t] = "joinCheck" => pc[t] = "joinCheck"
    PROVE  Inv'
<1>1. SchedTypeOK'
  BY Zenon DEF Inv, SchedTypeOK, placeVars
<1>2. JoinWaits'
  BY Zenon DEF Inv, SchedTypeOK, JoinWaits, placeVars, Finished
<1> QED
  BY <1>1, <1>2, StaysInv, Zenon

LEMMA SetPriorityInv ==
    ASSUME Inv, NEW c \in CPU, NEW t \in Thread, NEW p \in Prios, SetPriority(c, t, p)
    PROVE  Inv'
<1>1. prio' \in [Thread -> {0, 1}]
  BY SchedAssumption, Zenon DEF SetPriority, Inv, SchedTypeOK
<1> QED
  BY <1>1, QuietInv, Zenon DEF SetPriority, Inv, SchedTypeOK

LEMMA SetAffinityInv ==
    ASSUME Inv, NEW c \in CPU, NEW t \in Thread, NEW mask \in Masks, SetAffinity(c, t, mask)
    PROVE  Inv'
<1>1. mask \in SUBSET CPU
  BY SchedAssumption
<1>2. affinity' \in [Thread -> SUBSET CPU]
  BY <1>1, Zenon DEF SetAffinity, Inv, SchedTypeOK
<1>3. /\ pc' \in [Thread -> {"run", "joinCheck", "joinYield", "join", "repos"}]
      /\ \A u \in Thread : pc'[u] = "joinCheck" => pc[u] = "joinCheck"
  BY Zenon DEF SetAffinity, Inv, SchedTypeOK
<1> QED
  BY <1>2, <1>3, QuietInv, Zenon DEF SetAffinity, Inv, SchedTypeOK

LEMMA FreeStackInv ==
    ASSUME Inv, NEW u \in Thread, FreeStack(u)
    PROVE  Inv'
BY QuietInv, Zenon DEF FreeStack, Inv, SchedTypeOK

LEMMA TimePassesInv ==
    ASSUME Inv, NEW t \in Thread, TimePasses(t)
    PROVE  Inv'
BY QuietInv, Zenon DEF TimePasses, Inv, SchedTypeOK

LEMMA EndThrottleInv ==
    ASSUME Inv, EndThrottle
    PROVE  Inv'
BY QuietInv, Zenon DEF EndThrottle, Inv, SchedTypeOK

\* spawn_full and unpark put a thread that was nowhere at the end of the queue.
LEMMA EnqueuePlaces ==
    ASSUME SchedTypeOK, Placement, lock = NoCpu, NEW n \in Thread,
           state[n] \in {"New", "Blocked"},
           state' = [state EXCEPT ![n] = "Ready"],
           runQueue' = Append(runQueue, n),
           UNCHANGED <<lock, sleepers, dead, running, prevForFinish>>
    PROVE  /\ Placement'
           /\ state' \in [Thread -> State] /\ runQueue' \in Seq(Thread)
<1>1. /\ state \in [Thread -> State] /\ runQueue \in Seq(Thread)
      /\ NoDup(runQueue)
      /\ \A t \in Thread : state[t] = "Ready" <=> t \in ToSet(runQueue)
  BY Zenon DEF SchedTypeOK, Placement, ReadyQueued, NoDup
<1>2. /\ runQueue' \in Seq(Thread) /\ NoDup(runQueue')
      /\ ToSet(runQueue') = ToSet(runQueue) \cup {n}
  BY <1>1, AppendQueue
<1>3. \A t \in Thread : state'[t] = IF t = n THEN "Ready" ELSE state[t]
  BY <1>1, Zenon
<1>4. ReadyQueued'
  BY <1>1, <1>2, <1>3, Zenon DEF ReadyQueued, NoDup
<1>5. RunningOnce' /\ OthersPlaced' /\ PrevHeldByLock'
  BY <1>3 DEF Placement, RunningOnce, OthersPlaced, PrevHeldByLock
<1> QED
  BY <1>1, <1>2, <1>4, <1>5, Zenon DEF Placement, State

LEMMA KickType ==
    ASSUME NEW c \in CPU, ipi \in [CPU -> BOOLEAN], KickIdleCpu(c)
    PROVE  ipi' \in [CPU -> BOOLEAN]
BY Zenon DEF KickIdleCpu

LEMMA SpawnInv ==
    ASSUME Inv, NEW c \in CPU, NEW t \in Thread, NEW n \in Thread, NEW mask \in Masks,
           SpawnFull(c, t, n, mask)
    PROVE  Inv'
<1>1. SchedTypeOK /\ Placement /\ StackWhere /\ JoinWaits /\ lock = NoCpu
  BY Zenon DEF Inv, SpawnFull, Runs
<1>2. Placement' /\ state' \in [Thread -> State] /\ runQueue' \in Seq(Thread)
  BY <1>1, EnqueuePlaces, Zenon DEF SpawnFull
<1>3. ipi' \in [CPU -> BOOLEAN]
  BY <1>1, KickType, Zenon DEF SpawnFull, SchedTypeOK
<1>4. mask \in SUBSET CPU
  BY SchedAssumption, Zenon
<1>5. SchedTypeOK'
  <2>1. prio' \in [Thread -> {0, 1}] /\ affinity' \in [Thread -> SUBSET CPU]
    BY <1>1, <1>4, Zenon DEF SpawnFull, SchedTypeOK
  <2> QED
    BY <1>1, <1>2, <1>3, <2>1, Zenon DEF SpawnFull, SchedTypeOK
<1>6. StackWhere'
  BY <1>1, Zenon DEF SpawnFull, StackWhere, SchedTypeOK
<1>7. JoinWaits'
  BY <1>1, Zenon DEF SpawnFull, JoinWaits, Finished, SchedTypeOK
<1> QED
  BY <1>2, <1>5, <1>6, <1>7, Zenon DEF Inv

LEMMA UnparkInv ==
    ASSUME Inv, NEW c \in CPU, NEW u \in Thread, Unpark(c, u)
    PROVE  Inv'
<1>1. SchedTypeOK /\ Placement /\ StackWhere /\ JoinWaits /\ lock = NoCpu
  BY Zenon DEF Inv, Unpark
<1>2. Placement' /\ state' \in [Thread -> State] /\ runQueue' \in Seq(Thread)
  BY <1>1, EnqueuePlaces, Zenon DEF Unpark
<1>3. ipi' \in [CPU -> BOOLEAN]
  BY <1>1, KickType, Zenon DEF Unpark, SchedTypeOK
<1>4. SchedTypeOK'
  BY <1>1, <1>2, <1>3, Zenon DEF Unpark, SchedTypeOK
<1>5. StackWhere'
  BY <1>1, SchedAssumption DEF Unpark, StackWhere, SchedTypeOK
<1>6. JoinWaits'
  BY <1>1, Zenon DEF Unpark, JoinWaits, Finished, SchedTypeOK
<1> QED
  BY <1>2, <1>4, <1>5, <1>6, Zenon DEF Inv

LEMMA ReapInv ==
    ASSUME Inv, NEW c \in CPU, NEW t \in Thread, Reap(c, t)
    PROVE  Inv'
<1>1. SchedTypeOK /\ Placement /\ StackWhere /\ JoinWaits /\ lock = NoCpu
  BY Zenon DEF Inv, Reap, Runs
<1>2. /\ \A u \in Thread : state'[u] = IF u \in dead THEN "Gone" ELSE state[u]
      /\ \A u \in dead : state[u] = "Dead"
      /\ state' \in [Thread -> State]
  BY <1>1, Zenon DEF Reap, Placement, OthersPlaced, SchedTypeOK, State
<1>3. SchedTypeOK'
  BY <1>1, <1>2, Zenon DEF Reap, SchedTypeOK
<1>4. Placement'
  BY <1>1, <1>2, SMTT(30) DEF Reap, Placement, ReadyQueued, RunningOnce, OthersPlaced, PrevHeldByLock
<1>5. StackWhere'
  BY <1>1, <1>2, SchedAssumption, Zenon DEF Reap, StackWhere
<1>6. JoinWaits'
  <2>1. UNCHANGED <<waiters, pc, target>>
    BY Zenon DEF Reap
  <2> QED
    BY <1>1, <1>2, <2>1, Zenon DEF JoinWaits, Finished, SchedTypeOK
<1> QED
  BY <1>3, <1>4, <1>5, <1>6, Zenon DEF Inv

LEMMA ReschedInv ==
    ASSUME Inv, NEW c \in CPU, OnReschedIpi(c)
    PROVE  Inv'
<1>1. /\ SchedTypeOK /\ Placement /\ StackWhere /\ lock = NoCpu
      /\ pc \in [Thread -> {"run", "joinCheck", "joinYield", "join", "repos"}]
  BY Zenon DEF Inv, OnReschedIpi, SchedTypeOK
<1>2. ipi' \in [CPU -> BOOLEAN]
  <2>1. ipi \in [CPU -> BOOLEAN] /\ ipi' = [ipi EXCEPT ![c] = FALSE]
    BY <1>1, Zenon DEF OnReschedIpi, SchedTypeOK
  <2> QED
    BY <2>1, Zenon
<1>3. /\ UNCHANGED <<dead, onStack, stacks, waiters, prio, affinity, due, throttled, pc, target>>
      /\ due' \in SUBSET Thread /\ throttled' \in BOOLEAN
  BY <1>1, Zenon DEF OnReschedIpi, SchedTypeOK
<1>4. CASE UNCHANGED <<placeVars, quantum>>
  <2>1. SchedTypeOK'
    BY <1>1, <1>2, <1>3, <1>4, Zenon DEF SchedTypeOK, placeVars
  <2>2. JoinWaits'
    BY <1>3, <1>4, Zenon DEF Inv, JoinWaits, Finished, placeVars
  <2> QED
    BY <1>3, <1>4, <2>1, <2>2, StaysInv, Zenon
<1>5. CASE ScheduleLocked(c, "Ready", state, runQueue, sleepers, throttled)
  <2>1. PlacedAs(state, runQueue, sleepers)
    BY <1>1, PlacedNow
  <2>2. WokenFrom(state)
    BY DEF WokenFrom
  <2>3. ScheduledBy(c, "Ready")
    BY <1>1, <1>3, <1>5, <2>1, <2>2, ScheduleLockedKeeps, Zenon
  <2> QED
    BY <1>1, <1>2, <1>3, <2>3, SwitchInv
<1> QED
  BY <1>4, <1>5, Zenon DEF OnReschedIpi

\* The tick: sleepers past their deadline are queued, then perhaps a switch.
LEMMA TickInv ==
    ASSUME Inv, NEW c \in CPU, NEW boundary \in BOOLEAN, NEW over \in BOOLEAN,
           OnTick(c, boundary, over)
    PROVE  Inv'
<1> DEFINE woken == DueSleepers(c)
           st    == [t \in Thread |-> IF t \in woken THEN "Ready" ELSE state[t]]
           sl    == sleepers \ woken
           left  == QuantumLeft(c, boundary)
           thr   == throttled \/ (boundary /\ running[c] \in QuotaThread /\ over)
<1>1. /\ SchedTypeOK /\ Placement /\ StackWhere /\ JoinWaits /\ lock = NoCpu
      /\ pc \in [Thread -> {"run", "joinCheck", "joinYield", "join", "repos"}]
  BY Zenon DEF Inv, OnTick, SchedTypeOK
<1>2. PICK order \in SetToSeqs(woken) :
         \/ ScheduleLocked(c, "Ready", st, runQueue \o order, sl, thr)
         \/ /\ state' = st /\ runQueue' = runQueue \o order /\ sleepers' = sl
            /\ quantum' = [quantum EXCEPT ![c] = left]
            /\ UNCHANGED <<running, prevForFinish, lock>>
  BY Zenon DEF OnTick
<1>3. /\ UNCHANGED <<dead, onStack, stacks, waiters, prio, affinity, ipi, pc, target>>
      /\ throttled' = thr
      /\ due' = due \ woken
  BY Zenon DEF OnTick
<1>4. /\ throttled' \in BOOLEAN
      /\ due' \in SUBSET Thread
      /\ ipi' \in [CPU -> BOOLEAN]
  <2>1. throttled' \in BOOLEAN
    <3>1. throttled \in BOOLEAN
      BY <1>1, Zenon DEF SchedTypeOK
    <3> QED
      BY <1>3, <3>1, Zenon
  <2> QED
    BY <1>1, <1>3, <2>1, Zenon DEF SchedTypeOK
<1>5. /\ woken \in SUBSET Thread /\ woken \subseteq sleepers
      /\ \A t \in woken : state[t] = "Sleeping"
  BY <1>1, Zenon DEF DueSleepers, SchedTypeOK, Placement, OthersPlaced
<1>6. PlacedAs(state, runQueue, sleepers)
  BY <1>1, PlacedNow, Zenon
<1>7. woken \cap ToSet(runQueue) = {}
  BY <1>5, <1>6, Zenon DEF PlacedAs
<1> HIDE DEF woken
<1>8. /\ runQueue \o order \in Seq(Thread) /\ NoDup(runQueue \o order)
      /\ ToSet(runQueue \o order) = ToSet(runQueue) \cup woken
  <2>1. IsFiniteSet(Thread)
    BY SchedAssumption, Zenon
  <2> QED
    BY <1>5, <1>6, <1>7, <2>1, ConcatQueue, SMTT(30) DEF PlacedAs
<1>9. PlacedAs(st, runQueue \o order, sl)
  <2>1. \A t \in Thread : st[t] = IF t \in woken THEN "Ready" ELSE state[t]
    OBVIOUS
  <2>2. st \in [Thread -> State]
    BY <1>6, Zenon DEF PlacedAs, State
  <2> HIDE DEF st
  <2> QED
    BY <1>5, <1>6, <1>8, <2>1, <2>2 DEF PlacedAs
<1>10. WokenFrom(st)
  BY <1>5, Zenon DEF WokenFrom
<1> HIDE DEF st, sl, thr, left
<1>11. CASE ScheduleLocked(c, "Ready", st, runQueue \o order, sl, thr)
  <2>1. ScheduledBy(c, "Ready")
    BY <1>1, <1>3, <1>9, <1>10, <1>11, ScheduleLockedKeeps, Zenon
  <2> QED
    BY <1>1, <1>3, <1>4, <2>1, SwitchInv
<1>12. CASE /\ state' = st /\ runQueue' = runQueue \o order /\ sleepers' = sl
            /\ quantum' = [quantum EXCEPT ![c] = left]
            /\ UNCHANGED <<running, prevForFinish, lock>>
  <2>1. quantum' \in [CPU -> 0 .. QUANTUM_TICKS]
    BY <1>1, <1>12, SchedAssumption DEF SchedTypeOK, left, QuantumLeft
  <2>2. SchedTypeOK'
    BY <1>1, <1>3, <1>4, <1>9, <1>12, <2>1, Zenon DEF SchedTypeOK, PlacedAs
  <2>3. Placement'
    <3>1. RunningOnce'
      BY <1>1, <1>9, <1>12 DEF Placement, RunningOnce, PlacedAs
    <3>2. PrevHeldByLock'
      BY <1>1, <1>12, Zenon DEF Placement, PrevHeldByLock
    <3> QED
      BY <1>3, <1>9, <1>12, <3>1, <3>2, Zenon DEF Placement, ReadyQueued, OthersPlaced, PlacedAs, NoDup
  <2>4. StackWhere'
    BY <1>1, <1>3, <1>10, <1>12, SchedAssumption, Zenon DEF StackWhere, WokenFrom
  <2>5. JoinWaits'
    BY <1>1, <1>3, <1>10, <1>12, Zenon DEF JoinWaits, Finished, WokenFrom, SchedTypeOK
  <2> QED
    BY <2>2, <2>3, <2>4, <2>5 DEF Inv
<1> QED
  BY <1>2, <1>11, <1>12, Zenon

\* The second half of a switch: an exiting thread ends, its joiners wake.
LEMMA FinishInv ==
    ASSUME Inv, NEW c \in CPU, FinishSwitch(c)
    PROVE  Inv'
<1> DEFINE prev  == prevForFinish[c]
           ended == prev \in Thread /\ state[prev] = "Dying"
           woken == IF ended THEN JoinersToWake(prev) ELSE {}
<1>1. /\ SchedTypeOK /\ Placement /\ StackWhere /\ JoinWaits /\ lock = c
      /\ NoCpu \notin CPU /\ Idle \notin Thread
  BY SchedAssumption, Zenon DEF Inv, FinishSwitch
<1>2. /\ lock' = NoCpu
      /\ onStack' = [onStack EXCEPT ![c] = running[c]]
      /\ prevForFinish' = [prevForFinish EXCEPT ![c] = NoThread]
      /\ state' = [t \in Thread |-> CASE ended /\ t = prev -> "Dead"
                                      [] t \in woken       -> "Ready"
                                      [] OTHER             -> state[t]]
      /\ waiters' = IF ended THEN [waiters EXCEPT ![prev] = {}] ELSE waiters
      /\ dead' = IF ended THEN dead \cup {prev} ELSE dead
      /\ UNCHANGED <<sleepers, running, stacks, quantum, prio, affinity, due,
                     throttled, ipi, pc, target>>
  BY Zenon DEF FinishSwitch
<1>3. PICK order \in SetToSeqs(woken) : runQueue' = runQueue \o order
  BY Zenon DEF FinishSwitch
<1>4. /\ woken \in SUBSET Thread
      /\ \A t \in woken : state[t] = "Blocked"
      /\ ended => woken = {w \in waiters[prev] : state[w] = "Blocked"}
      /\ ended => prev \in Thread /\ state[prev] = "Dying"
  BY <1>1, Zenon DEF JoinersToWake, SchedTypeOK
<1>5. woken \cap ToSet(runQueue) = {}
  BY <1>1, <1>4, Zenon DEF Placement, ReadyQueued
<1> HIDE DEF woken, ended
<1>6. \A t \in Thread : state'[t] = IF ended /\ t = prev THEN "Dead"
                                    ELSE IF t \in woken THEN "Ready" ELSE state[t]
  BY <1>2, <1>4, Zenon
<1>7. state' \in [Thread -> State]
  BY <1>1, <1>2, <1>6, Zenon DEF SchedTypeOK, State
<1>8. /\ runQueue' \in Seq(Thread) /\ NoDup(runQueue')
      /\ ToSet(runQueue') = ToSet(runQueue) \cup woken
  <2>1. IsFiniteSet(Thread) /\ runQueue \in Seq(Thread) /\ NoDup(runQueue)
    BY <1>1, SchedAssumption, Zenon DEF SchedTypeOK, Placement, ReadyQueued, NoDup
  <2> QED
    BY <1>3, <1>4, <1>5, <2>1, ConcatQueue
<1> HIDE DEF prev
<1>9. SchedTypeOK'
  <2>1. /\ dead' \in SUBSET Thread
        /\ waiters' \in [Thread -> SUBSET Thread]
    BY <1>1, <1>2, <1>4, Zenon DEF SchedTypeOK
  <2>2. /\ onStack' \in [CPU -> Thread \cup {Idle}]
        /\ prevForFinish' \in [CPU -> Thread \cup {Idle, NoThread}]
    BY <1>1, <1>2, Zenon DEF SchedTypeOK
  <2> QED
    BY <1>1, <1>2, <1>7, <1>8, <2>1, <2>2, Zenon DEF SchedTypeOK
<1>10. Placement'
  <2>1. ReadyQueued'
    BY <1>1, <1>4, <1>6, <1>8, Zenon DEF Placement, ReadyQueued, NoDup
  <2>2. RunningOnce'
    BY <1>1, <1>2, <1>4, <1>6 DEF Placement, RunningOnce
  <2>3. PrevHeldByLock'
    BY <1>1, <1>2, SchedAssumption DEF Placement, PrevHeldByLock, SchedTypeOK
  <2>4. \A t \in Thread : state[t] = "Dying" => ended /\ t = prev
    BY <1>1, Zenon DEF Placement, OthersPlaced, ended, prev
  <2>5. OthersPlaced'
    BY <1>1, <1>2, <1>4, <1>6, <2>4 DEF Placement, OthersPlaced
  <2> QED
    BY <2>1, <2>2, <2>3, <2>5 DEF Placement
<1>11. StackWhere'
  BY <1>1, <1>2, <1>4, <1>6 DEF StackWhere, SchedTypeOK
<1>12. JoinWaits'
  <2> SUFFICES ASSUME NEW w \in Thread, pc[w] = "joinCheck", state'[w] = "Blocked"
               PROVE  /\ state'[target[w]] \notin {"New", "Dead", "Gone"}
                      /\ w \in waiters'[target[w]]
    BY <1>2, Zenon DEF JoinWaits, Finished
  <2>1. state[w] = "Blocked" /\ w \notin woken
    BY <1>4, <1>6, Zenon
  <2>2. /\ target[w] \in Thread
        /\ state[target[w]] \notin {"New", "Dead", "Gone"}
        /\ w \in waiters[target[w]]
    BY <1>1, <2>1, Zenon DEF SchedTypeOK, JoinWaits, Finished
  <2>3. ~(ended /\ target[w] = prev)
    BY <1>4, <2>1, <2>2, Zenon
  <2> QED
    BY <1>1, <1>2, <1>6, <2>2, <2>3, Zenon DEF SchedTypeOK
<1> QED
  BY <1>9, <1>10, <1>11, <1>12 DEF Inv

-----------------------------------------------------------------------------

\* Inv is inductive: one step per action of Next.
LEMMA NextInv == Inv /\ [SchedNext]_schedVars => Inv'
<1> SUFFICES ASSUME Inv, [SchedNext]_schedVars PROVE Inv'
  BY Zenon
<1>1. CASE UNCHANGED schedVars
  <2>1. SchedTypeOK' /\ JoinWaits'
    BY <1>1, Zenon DEF Inv, schedVars, SchedTypeOK, JoinWaits, Finished
  <2> QED
    BY <1>1, <2>1, StaysInv, Zenon DEF schedVars, placeVars
<1>2. ASSUME NEW c \in CPU, FinishSwitch(c) PROVE Inv'
  BY <1>2, FinishInv, Zenon
<1>3. ASSUME NEW c \in CPU, NEW t \in Thread,
             \/ YieldNow(c, t) \/ SleepNs(c, t) \/ ExitCurrent(c, t) \/ ParkWith(c, t)
             \/ JoinAgain(c, t) \/ JoinCheck(c, t) \/ Reap(c, t)
             \/ \E u \in Thread : Join(c, t, u)
             \/ \E u \in Thread, mask \in Masks : SpawnFull(c, t, u, mask)
             \/ \E p \in Prios : SetPriority(c, t, p)
             \/ \E mask \in Masks : SetAffinity(c, t, mask)
      PROVE  Inv'
  <2>1. CASE YieldNow(c, t)
    BY <2>1, YieldInv, Zenon
  <2>2. CASE SleepNs(c, t)
    BY <2>2, SleepInv
  <2>3. CASE ExitCurrent(c, t)
    BY <2>3, ExitInv
  <2>4. CASE ParkWith(c, t)
    BY <2>4, ParkInv
  <2>5. CASE JoinAgain(c, t)
    <3>1. target[t] \in Thread
      BY Zenon DEF Inv, SchedTypeOK
    <3> QED
      BY <2>5, <3>1, JoinTurnInv, Zenon DEF JoinAgain
  <2>6. CASE JoinCheck(c, t)
    BY <2>6, JoinCheckInv
  <2>7. CASE Reap(c, t)
    BY <2>7, ReapInv
  <2>8. CASE \E u \in Thread : Join(c, t, u)
    BY <2>8, JoinTurnInv, Zenon DEF Join
  <2>9. CASE \E u \in Thread, mask \in Masks : SpawnFull(c, t, u, mask)
    BY <2>9, SpawnInv, Zenon
  <2>10. CASE \E p \in Prios : SetPriority(c, t, p)
    BY <2>10, SetPriorityInv, Zenon
  <2>11. CASE \E mask \in Masks : SetAffinity(c, t, mask)
    BY <2>11, SetAffinityInv
  <2> QED
    BY <1>3, <2>1, <2>2, <2>3, <2>4, <2>5, <2>6, <2>7, <2>8, <2>9, <2>10, <2>11, Zenon
<1>4. ASSUME NEW c \in CPU, NEW u \in Thread, Unpark(c, u) PROVE Inv'
  BY <1>4, UnparkInv
<1>5. ASSUME NEW c \in CPU, NEW boundary \in BOOLEAN, NEW over \in BOOLEAN,
             OnTick(c, boundary, over)
      PROVE  Inv'
  BY <1>5, TickInv, Zenon
<1>6. ASSUME NEW c \in CPU, OnReschedIpi(c) PROVE Inv'
  BY <1>6, ReschedInv
<1>7. ASSUME NEW t \in Thread, FreeStack(t) \/ TimePasses(t) PROVE Inv'
  BY <1>7, FreeStackInv, TimePassesInv, Zenon
<1>8. CASE EndThrottle
  BY <1>8, EndThrottleInv, Zenon
<1> QED
  BY <1>1, <1>2, <1>3, <1>4, <1>5, <1>6, <1>7, <1>8, Zenon DEF SchedNext

\* Inv implies that no stack is shared and none in use is freed.
LEMMA InvStackSafe == Inv => StackSafe
<1> SUFFICES ASSUME Inv PROVE StackSafe
  OBVIOUS
<1>1. /\ SchedTypeOK /\ StackWhere /\ RunningOnce /\ PrevHeldByLock
      /\ Idle \notin Thread /\ NoThread \notin Thread /\ NoThread # Idle
  BY SchedAssumption, Zenon DEF Inv, Placement
<1>2. \A c \in CPU : /\ onStack[c] = IF lock = c THEN prevForFinish[c] ELSE running[c]
                     /\ running[c] \in Thread => state[running[c]] = "Running"
                     /\ lock = c => prevForFinish[c] \in Thread \cup {Idle}
  BY <1>1 DEF StackWhere, RunningOnce, SchedTypeOK, PrevHeldByLock
<1>3. \A c, d \in CPU : onStack[c] = onStack[d] /\ onStack[c] # Idle => c = d
  BY <1>1, <1>2 DEF StackWhere, RunningOnce, SchedTypeOK
<1>4. \A c \in CPU : onStack[c] \in stacks \cup {Idle}
  BY <1>1, <1>2, Zenon DEF StackWhere, SchedTypeOK
<1> QED
  BY <1>3, <1>4, Zenon DEF StackSafe

\* The variables of the scheduler keep their types.
THEOREM SchedTypes == SchedSpec => []SchedTypeOK
<1>1. Inv => SchedTypeOK
  BY DEF Inv
<1> QED
  BY <1>1, InitInv, NextInv, PTL DEF SchedSpec

\* Every thread is in exactly one place, the one its state names, for any
\* number of CPUs and threads (schedule_locked, finish_switch, unpark, join).
THEOREM SchedPlacement == SchedSpec => []Placement
<1>1. Inv => Placement
  BY DEF Inv
<1> QED
  BY <1>1, InitInv, NextInv, PTL DEF SchedSpec

\* No two CPUs are ever on one kernel stack, and none on a stack reap freed.
THEOREM SchedStackSafe == SchedSpec => []StackSafe
BY InitInv, NextInv, InvStackSafe, PTL DEF SchedSpec

\* No joiner is left blocked on a thread that has finished.
THEOREM SchedJoinWaits == SchedSpec => []JoinWaits
<1>1. Inv => JoinWaits
  BY DEF Inv
<1> QED
  BY <1>1, InitInv, NextInv, PTL DEF SchedSpec

-----------------------------------------------------------------------------
(* Whom a CPU goes to.                                                     *)

\* A thread receives a CPU only when it may use it.
DispatchStep ==
    \A c \in CPU, t \in Thread : Dispatched(c, t) =>
         c \in affinity'[t] /\ ~(t \in QuotaThread /\ throttled')

\* A low-priority thread receives it only when no normal one waits for it.
LowStep ==
    \A c \in CPU, t \in Thread : Dispatched(c, t) /\ prio[t] = 1 =>
          NormalReady(runQueue', c, throttled')
             \subseteq {i \in DOMAIN runQueue' : runQueue'[i] = running[c]}

\* The thread schedule_locked switches to may use the CPU, and is of low
\* priority only when no normal one that may use it is left in the queue.
LEMMA SwitchChooses ==
    ASSUME running \in [CPU -> Thread \cup {Idle}], NEW c \in CPU, NEW st, NEW sl, NEW thr,
           NEW q \in Seq(Thread), NoDup(q), NEW newState,
           \A t \in ToSet(q) : t # running[c],
           ScheduleLocked(c, newState, st, q, sl, thr),
           affinity' = affinity, throttled' = thr
    PROVE  DispatchStep /\ LowStep
<1>0. Idle \notin Thread
  BY SchedAssumption, Zenon
<1>1. ASSUME NEW i \in PickClass(q, c, thr),
             SwitchTo(c, q[i], RemoveAt(q, i), newState, st, sl)
      PROVE  DispatchStep /\ LowStep
  <2>1. /\ i \in DOMAIN q /\ AllowedOn(q[i], c, thr)
        /\ prio[q[i]] = 0 \/ NormalReady(q, c, thr) = {}
    BY Zenon DEF PickClass, NormalReady, Permitted
  <2>2. \A d \in CPU : running'[d] # running[d] => d = c /\ running'[d] = q[i]
    BY <1>1 DEF SwitchTo
  <2>3. DispatchStep
    <3> SUFFICES ASSUME NEW d \in CPU, NEW t \in Thread, Dispatched(d, t)
                 PROVE  d \in affinity'[t] /\ ~(t \in QuotaThread /\ throttled')
      BY Zenon DEF DispatchStep
    <3>1. d = c /\ t = q[i]
      BY <2>2, Zenon DEF Dispatched
    <3> QED
      BY <2>1, <3>1, Zenon DEF AllowedOn, EmThrottle
  <2>4. ASSUME NormalReady(q, c, thr) = {}
        PROVE  NormalReady(runQueue', c, throttled')
                 \subseteq {k \in DOMAIN runQueue' : runQueue'[k] = running[c]}
    <3>1. /\ RemoveAt(q, i) \in Seq(Thread) /\ NoDup(RemoveAt(q, i))
          /\ ToSet(RemoveAt(q, i)) = ToSet(q) \ {q[i]}
      BY <2>1, RemoveQueue, Zenon
    <3>2. /\ runQueue' \in Seq(Thread)
          /\ ToSet(runQueue') \subseteq ToSet(q) \cup {running[c]}
      <4>1. CASE runQueue' = RemoveAt(q, i)
        BY <3>1, <4>1, Zenon
      <4>2. CASE runQueue' = Append(RemoveAt(q, i), running[c]) /\ running[c] # Idle
        <5>1. running[c] \in Thread /\ running[c] \notin ToSet(RemoveAt(q, i))
          BY <3>1, <4>2, Zenon
        <5> QED
          BY <3>1, <4>2, <5>1, AppendQueue
      <4> QED
        BY <1>1, <4>1, <4>2, Zenon DEF SwitchTo, Requeue
    <3> SUFFICES ASSUME NEW k \in NormalReady(runQueue', c, thr), runQueue'[k] # running[c]
                 PROVE  FALSE
      BY Zenon DEF NormalReady, Permitted
    <3>3. k \in DOMAIN runQueue' /\ AllowedOn(runQueue'[k], c, thr) /\ prio[runQueue'[k]] = 0
      BY Zenon DEF NormalReady, Permitted
    <3>4. runQueue'[k] \in ToSet(q)
      BY <3>2, <3>3, Zenon DEF ToSet
    <3>5. PICK j \in DOMAIN q : q[j] = runQueue'[k]
      BY <3>4, Zenon DEF ToSet
    <3>6. j \in NormalReady(q, c, thr)
      BY <3>3, <3>5, Zenon DEF NormalReady, Permitted
    <3> QED
      BY <2>4, <3>6, Zenon
  <2>5. LowStep
    <3> SUFFICES ASSUME NEW d \in CPU, NEW t \in Thread, Dispatched(d, t), prio[t] = 1
                 PROVE  NormalReady(runQueue', d, throttled')
                          \subseteq {k \in DOMAIN runQueue' : runQueue'[k] = running[d]}
      BY Zenon DEF LowStep
    <3>1. d = c /\ t = q[i]
      BY <2>2, Zenon DEF Dispatched
    <3> QED
      BY <2>1, <2>4, <3>1
  <2> QED
    BY <2>3, <2>5, Zenon
<1>2. ASSUME \A d \in CPU : running'[d] # running[d] => running'[d] = Idle
      PROVE  DispatchStep /\ LowStep
  BY <1>0, <1>2, Zenon DEF DispatchStep, LowStep, Dispatched
<1>3. CASE SwitchTo(c, Idle, q, newState, st, sl)
  BY <1>2, <1>3, Zenon DEF SwitchTo
<1>4. CASE running' = running
  BY <1>2, <1>4, Zenon
<1> QED
  BY <1>1, <1>3, <1>4, Zenon DEF ScheduleLocked

\* A thread that gives up its CPU.
LEMMA GivesUpChooses ==
    ASSUME Inv, NEW c \in CPU, lock = NoCpu, NEW newState,
           ScheduleLocked(c, newState, state, runQueue, sleepers, throttled),
           affinity' = affinity, throttled' = throttled
    PROVE  DispatchStep /\ LowStep
<1>1. SchedTypeOK /\ PlacedAs(state, runQueue, sleepers)
  BY PlacedNow, Zenon DEF Inv
<1>2. /\ running \in [CPU -> Thread \cup {Idle}]
      /\ runQueue \in Seq(Thread) /\ NoDup(runQueue)
  BY <1>1, Zenon DEF SchedTypeOK, PlacedAs
<1>3. \A t \in ToSet(runQueue) : t # running[c]
  <2>1. \A t \in ToSet(runQueue) : t \in Thread
    BY <1>2, LenProperties, ElementOfSeq DEF ToSet
  <2> QED
    BY <1>1, <2>1, Zenon DEF PlacedAs
<1> QED
  BY <1>2, <1>3, SwitchChooses, Zenon

\* A step that switches no CPU gives none to anybody.
LEMMA NobodyChosen ==
    ASSUME running' = running
    PROVE  DispatchStep /\ LowStep
BY Zenon DEF DispatchStep, LowStep, Dispatched

\* The tick chooses after it decided the throttle and woke the sleepers.
LEMMA TickChooses ==
    ASSUME Inv, NEW c \in CPU, NEW boundary \in BOOLEAN, NEW over \in BOOLEAN,
           OnTick(c, boundary, over)
    PROVE  DispatchStep /\ LowStep
<1> DEFINE woken == DueSleepers(c)
           st    == [t \in Thread |-> IF t \in woken THEN "Ready" ELSE state[t]]
           sl    == sleepers \ woken
           thr   == throttled \/ (boundary /\ running[c] \in QuotaThread /\ over)
<1>1. PICK order \in SetToSeqs(woken) :
         \/ ScheduleLocked(c, "Ready", st, runQueue \o order, sl, thr)
         \/ running' = running
  BY Zenon DEF OnTick
<1>2. affinity' = affinity /\ throttled' = thr /\ lock = NoCpu
  BY Zenon DEF OnTick
<1>3. SchedTypeOK /\ PlacedAs(state, runQueue, sleepers) /\ IsFiniteSet(Thread)
  BY <1>2, PlacedNow, SchedAssumption, Zenon DEF Inv
<1>4. /\ woken \in SUBSET Thread
      /\ \A t \in woken : state[t] = "Sleeping"
  BY <1>3, Zenon DEF DueSleepers, SchedTypeOK, PlacedAs
<1>5. woken \cap ToSet(runQueue) = {}
  BY <1>3, <1>4, Zenon DEF PlacedAs
<1> HIDE DEF woken, st, sl, thr
<1>6. /\ runQueue \o order \in Seq(Thread) /\ NoDup(runQueue \o order)
      /\ ToSet(runQueue \o order) = ToSet(runQueue) \cup woken
  BY <1>3, <1>4, <1>5, ConcatQueue DEF PlacedAs
<1>7. \A t \in ToSet(runQueue \o order) : t # running[c]
  <2>1. /\ \A t \in ToSet(runQueue) : t \in Thread
        /\ running \in [CPU -> Thread \cup {Idle}]
    BY <1>3, LenProperties, ElementOfSeq DEF ToSet, SchedTypeOK
  <2>2. \A t \in Thread : t = running[c] => state[t] = "Running"
    BY <1>3, Zenon DEF PlacedAs
  <2>3. \A t \in ToSet(runQueue) : state[t] = "Ready"
    BY <1>3, <2>1, Zenon DEF PlacedAs
  <2> QED
    BY <1>4, <1>6, <2>1, <2>2, <2>3, Zenon
<1>8. running \in [CPU -> Thread \cup {Idle}]
  BY <1>3, Zenon DEF SchedTypeOK
<1> QED
  BY <1>1, <1>2, <1>6, <1>7, <1>8, SwitchChooses, NobodyChosen, Zenon

\* Every step of the scheduler chooses so.
LEMMA NextChooses ==
    ASSUME Inv, SchedNext
    PROVE  DispatchStep /\ LowStep
<1>1. ASSUME NEW c \in CPU, FinishSwitch(c) PROVE DispatchStep /\ LowStep
  BY <1>1, NobodyChosen DEF FinishSwitch
<1>2. ASSUME NEW c \in CPU, NEW t \in Thread, YieldNow(c, t) PROVE DispatchStep /\ LowStep
  BY <1>2, GivesUpChooses, Zenon DEF YieldNow, Runs, switchFrame
<1>3. ASSUME NEW c \in CPU, NEW t \in Thread, SleepNs(c, t) PROVE DispatchStep /\ LowStep
  BY <1>3, GivesUpChooses, Zenon DEF SleepNs, Runs, switchFrame
<1>4. ASSUME NEW c \in CPU, NEW t \in Thread, ExitCurrent(c, t) PROVE DispatchStep /\ LowStep
  BY <1>4, GivesUpChooses, Zenon DEF ExitCurrent, Runs, switchFrame
<1>5. ASSUME NEW c \in CPU, NEW t \in Thread, ParkWith(c, t) PROVE DispatchStep /\ LowStep
  BY <1>5, GivesUpChooses, Zenon DEF ParkWith, Runs, switchFrame
<1>6. ASSUME NEW c \in CPU, NEW t \in Thread, NEW u, Runs(c, t), JoinTurn(c, t, u)
      PROVE  DispatchStep /\ LowStep
  BY <1>6, GivesUpChooses, NobodyChosen, Zenon DEF JoinTurn, Runs, switchFrame, placeVars
<1>7. ASSUME NEW c \in CPU, NEW t \in Thread,
             \/ JoinCheck(c, t) \/ Reap(c, t)
             \/ \E u \in Thread, mask \in Masks : SpawnFull(c, t, u, mask)
             \/ \E p \in Prios : SetPriority(c, t, p)
             \/ \E mask \in Masks : SetAffinity(c, t, mask)
      PROVE  DispatchStep /\ LowStep
  BY <1>7, NobodyChosen, Zenon
     DEF JoinCheck, Reap, SpawnFull, SetPriority, SetAffinity, placeVars
<1>8. ASSUME NEW c \in CPU, NEW u \in Thread, Unpark(c, u) PROVE DispatchStep /\ LowStep
  BY <1>8, NobodyChosen, Zenon DEF Unpark
<1>9. ASSUME NEW c \in CPU, OnReschedIpi(c) PROVE DispatchStep /\ LowStep
  BY <1>9, GivesUpChooses, NobodyChosen, Zenon DEF OnReschedIpi, placeVars
<1>10. ASSUME NEW t \in Thread, FreeStack(t) \/ TimePasses(t) PROVE DispatchStep /\ LowStep
  BY <1>10, NobodyChosen, Zenon DEF FreeStack, TimePasses, placeVars
<1>11. CASE EndThrottle
  BY <1>11, NobodyChosen, Zenon DEF EndThrottle, placeVars
<1> QED
  BY <1>1, <1>2, <1>3, <1>4, <1>5, <1>6, <1>7, <1>8, <1>9, <1>10, <1>11, TickChooses, Zenon
     DEF SchedNext, Join, JoinAgain

\* A CPU goes only to a thread whose affinity has it and whose job has
\* budget, for any number of CPUs and threads (pick_next, on_tick).
THEOREM SchedDispatchAllowed == SchedSpec => DispatchAllowed
<1>1. Inv /\ [SchedNext]_schedVars =>
        [\A c \in CPU, t \in Thread : Dispatched(c, t) =>
           c \in affinity'[t] /\ ~(t \in QuotaThread /\ throttled')]_schedVars
  BY NextChooses, Zenon DEF DispatchStep
<1> QED
  BY <1>1, InitInv, NextInv, PTL DEF SchedSpec, DispatchAllowed

\* A low-priority thread receives a CPU only when no normal thread that may
\* run there waits in the queue, the thread that leaves apart (pick_next).
THEOREM SchedLowAfterNormal == SchedSpec => LowAfterNormal
<1>1. Inv /\ [SchedNext]_schedVars =>
        [\A c \in CPU, t \in Thread : Dispatched(c, t) /\ prio[t] = 1 =>
          NormalReady(runQueue', c, throttled')
             \subseteq {i \in DOMAIN runQueue' : runQueue'[i] = running[c]}]_schedVars
  BY NextChooses, Zenon DEF LowStep
<1> QED
  BY <1>1, InitInv, NextInv, PTL DEF SchedSpec, LowAfterNormal

=============================================================================
