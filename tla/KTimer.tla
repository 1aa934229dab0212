-------------------------------- MODULE KTimer --------------------------------
(***************************************************************************)
(* Kernel timers (kernel/src/timer.rs): one-shot and periodic callbacks.   *)
(* The tick of the boot CPU moves the timers that are due from PENDING,    *)
(* which is sorted, to FIRED; the thread ktimer takes FIRED as a batch and *)
(* runs the callbacks.  The deadline of a timer is computed before the     *)
(* lock of PENDING is taken.                                               *)
(***************************************************************************)
EXTENDS Integers, Sequences, FiniteSets, SequencesExt

CONSTANTS
    Id,           \* timers, each set once
    KtimerDelays,       \* delays and periods asked for
    KtimerMaxNow        \* bound: time

ASSUME KTimerAssumption ==
    /\ KtimerDelays \subseteq Nat
    /\ KtimerMaxNow \in Nat

VARIABLES
    ktimerNow,
    ktimerState,        \* of a timer: "new", "setting", "set", "cancelled"
    start, period, \* when it was asked for, after what delay or how often
    kind,         \* "once" or "periodic"
    pending,      \* PENDING: timers with their deadlines
    fired,        \* FIRED
    batch,        \* what ktimer took
    runs          \* times the callback ran

ktimerVars == <<ktimerNow, ktimerState, start, period, kind, pending, fired, batch, runs>>
def == <<start, period, kind>>

Pending == [id : Id, deadline : Nat]

KtimerTypeOK ==
    /\ ktimerNow \in 0 .. KtimerMaxNow
    /\ ktimerState \in [Id -> {"new", "setting", "set", "cancelled"}]
    /\ start \in [Id -> 0 .. KtimerMaxNow]
    /\ period \in [Id -> Nat]
    /\ kind \in [Id -> {"once", "periodic"}]
    /\ pending \in Seq(Pending)
    /\ fired \in Seq(Id)
    /\ batch \in Seq(Id)
    /\ runs \in [Id -> Nat]
    /\ \A i, j \in DOMAIN pending : pending[i].id = pending[j].id => i = j

KtimerInit ==
    /\ ktimerNow = 0
    /\ ktimerState = [i \in Id |-> "new"]
    /\ start = [i \in Id |-> 0]
    /\ period = [i \in Id |-> 0]
    /\ kind = [i \in Id |-> "once"]
    /\ pending = <<>>
    /\ fired = <<>>
    /\ batch = <<>>
    /\ runs = [i \in Id |-> 0]

-----------------------------------------------------------------------------
\* insert: before the first timer with a later deadline.
KtimerInsert(list, p) ==
    LET later == {i \in DOMAIN list : list[i].deadline > p.deadline}
        pos == IF later = {} THEN Len(list) + 1 ELSE CHOOSE i \in later : \A j \in later : i <= j
    IN InsertAt(list, pos, p)

\* after_ns and periodic_ns compute the deadline; a period is at least 1.
Set(i, d, k) ==
    /\ ktimerState[i] = "new"
    /\ ktimerState' = [ktimerState EXCEPT ![i] = "setting"]
    /\ start' = [start EXCEPT ![i] = ktimerNow]
    /\ period' = [period EXCEPT ![i] = IF k = "periodic" /\ d = 0 THEN 1 ELSE d]
    /\ kind' = [kind EXCEPT ![i] = k]
    /\ UNCHANGED <<ktimerNow, pending, fired, batch, runs>>

SetInsert(i) ==
    /\ ktimerState[i] = "setting"
    /\ ktimerState' = [ktimerState EXCEPT ![i] = "set"]
    /\ pending' = KtimerInsert(pending, [id |-> i, deadline |-> start[i] + period[i]])
    /\ UNCHANGED <<ktimerNow, def, fired, batch, runs>>

\* cancel: true when the timer was in PENDING.
KtimerCancel(i) ==
    /\ ktimerState[i] = "set"
    /\ pending' = SelectSeq(pending, LAMBDA p : p.id # i)
    /\ ktimerState' = [ktimerState EXCEPT ![i] = IF Len(pending') < Len(pending) THEN "cancelled" ELSE @]
    /\ UNCHANGED <<ktimerNow, def, fired, batch, runs>>

-----------------------------------------------------------------------------
\* The periodic timers of due go back, each a period later.
KtimerRequeue(list, due) ==
    FoldLeft(LAMBDA l, p : IF kind[p.id] = "periodic"
                             THEN KtimerInsert(l, [p EXCEPT !.deadline = @ + period[p.id]])
                             ELSE l,
             list, due)

\* The timers on_tick removes: those at the front that are due.
Due(list) == {i \in DOMAIN list : \A j \in 1 .. i : list[j].deadline <= ktimerNow}

KtimerOnTick ==
    LET n == Cardinality(Due(pending))
        due == SubSeq(pending, 1, n)
    IN /\ n > 0
       /\ fired' = fired \o [i \in 1 .. n |-> due[i].id]
       /\ pending' = KtimerRequeue(SubSeq(pending, n + 1, Len(pending)), due)
       /\ UNCHANGED <<ktimerNow, ktimerState, def, batch, runs>>

WorkerTake ==
    /\ batch = <<>>
    /\ fired # <<>>
    /\ batch' = fired
    /\ fired' = <<>>
    /\ UNCHANGED <<ktimerNow, ktimerState, def, pending, runs>>

WorkerRun ==
    /\ batch # <<>>
    /\ runs' = [runs EXCEPT ![Head(batch)] = @ + 1]
    /\ batch' = Tail(batch)
    /\ UNCHANGED <<ktimerNow, ktimerState, def, pending, fired>>

KtimerPass ==
    /\ ktimerNow < KtimerMaxNow
    /\ ktimerNow' = ktimerNow + 1
    /\ UNCHANGED <<ktimerState, def, pending, fired, batch, runs>>

-----------------------------------------------------------------------------
KtimerNext ==
    \/ \E i \in Id :
          \/ \E d \in KtimerDelays, k \in {"once", "periodic"} : Set(i, d, k)
          \/ SetInsert(i) \/ KtimerCancel(i)
    \/ KtimerOnTick \/ WorkerTake \/ WorkerRun \/ KtimerPass

KtimerSpec == KtimerInit /\ [][KtimerNext]_ktimerVars

-----------------------------------------------------------------------------
\* on_tick looks at the front of PENDING only, so the list stays sorted, also
\* when a periodic timer goes back and when a late thread inserts.
Sorted ==
    \A i, j \in DOMAIN pending : i <= j => pending[i].deadline <= pending[j].deadline

Count(i) == Len(SelectSeq(fired \o batch, LAMBDA x : x = i)) + runs[i]

\* A callback runs no earlier than asked: a one-shot at most once and after
\* its delay, a periodic one at most once for each period that passed; and
\* a one-shot whose cancel said true never runs.
NeverEarly ==
    \A i \in Id :
        /\ kind[i] = "once" => Count(i) <= 1
        /\ Count(i) > 0 => start[i] + Count(i) * period[i] <= ktimerNow
        /\ kind[i] = "once" /\ ktimerState[i] = "cancelled" => Count(i) = 0
=============================================================================
