------------------------------- MODULE Sched -------------------------------
(***************************************************************************)
(* The preemptive SMP scheduler of the kernel (kernel/src/sched.rs).       *)
(*                                                                         *)
(* Everything the scheduler does happens under one spinlock, SCHED.  A     *)
(* context switch starts under the lock on the stack of the thread that    *)
(* leaves (schedule_locked) and ends, still under the lock, on the stack   *)
(* of the thread that enters (finish_switch): the lock crosses the switch. *)
(* The two halves are two steps here, so that whatever does not take the   *)
(* lock (freeing the stacks of reaped threads) interleaves with them.      *)
(*                                                                         *)
(* Idle threads are not members of Thread: running[c] = Idle says that CPU *)
(* c runs its own idle thread, which is never queued.  quantum_left is     *)
(* kept per CPU: it is set when a thread gets a CPU and only the running   *)
(* thread's is ever read.                                                  *)
(***************************************************************************)
EXTENDS Integers, SequencesExt

CONSTANTS
    NCPU,          \* CPUs online; CPU 0 is the boot processor
    Thread,        \* thread identities, never reused (NEXT_ID)
    Main,          \* the boot thread, running when the scheduler starts
    QuotaThread,   \* threads of processes in a job with a CPU quota
    QUANTUM_TICKS, \* quantum, in ticks
    Masks,         \* affinity masks threads ask for
    Prios,         \* priorities threads ask for
    Idle, NoThread, NoCpu

CPU == 0 .. NCPU - 1

ASSUME SchedAssumption ==
    /\ NCPU \in Nat \ {0}
    /\ QUANTUM_TICKS \in Nat \ {0}
    /\ IsFiniteSet(Thread)
    /\ Main \in Thread
    /\ QuotaThread \subseteq Thread
    /\ Idle \notin Thread
    /\ NoThread \notin Thread
    /\ NoThread # Idle
    /\ NoCpu \notin CPU
    /\ Masks \subseteq (SUBSET CPU) \ {{}}
    /\ Prios \subseteq {0, 1}

VARIABLES
    lock,          \* CPU in the middle of a switch, holding SCHED, or NoCpu
    state,         \* Inner.state, "New" before spawn, "Gone" once out of `all`
    runQueue, sleepers, dead,
    running, prevForFinish,
    onStack,       \* whose kernel stack each CPU executes on
    stacks,        \* threads whose stack slot is mapped
    waiters,       \* Inner.waiters: threads blocked in join on this one
    quantum, prio, affinity,
    due,           \* sleepers whose wake_at_ns is in the past
    throttled,     \* the job of QuotaThread is out of budget
    ipi,           \* RESCHED interrupts sent and not yet taken
    pc, target     \* where a thread is inside join / set_affinity

placeVars == <<state, runQueue, sleepers, running, prevForFinish, lock>>
schedVars == <<lock, state, runQueue, sleepers, dead, running, prevForFinish,
          onStack, stacks, waiters, quantum, prio, affinity, due, throttled,
          ipi, pc, target>>

State == {"New", "Ready", "Running", "Sleeping", "Blocked", "Dying", "Dead", "Gone"}

\* sched::init and ap_idle_loop: main on the boot CPU and pinned to it, the
\* other CPUs in their idle threads.
SchedInit ==
    /\ lock = NoCpu
    /\ state = [t \in Thread |-> IF t = Main THEN "Running" ELSE "New"]
    /\ runQueue = <<>>
    /\ sleepers = {}
    /\ dead = {}
    /\ running = [c \in CPU |-> IF c = 0 THEN Main ELSE Idle]
    /\ prevForFinish = [c \in CPU |-> NoThread]
    /\ onStack = running
    /\ stacks = {Main}
    /\ waiters = [t \in Thread |-> {}]
    /\ quantum = [c \in CPU |-> QUANTUM_TICKS]
    /\ prio = [t \in Thread |-> 0]
    /\ affinity = [t \in Thread |-> IF t = Main THEN {0} ELSE CPU]
    /\ due = {}
    /\ throttled = FALSE
    /\ ipi = [c \in CPU |-> FALSE]
    /\ pc = [t \in Thread |-> "run"]
    /\ target = [t \in Thread |-> t]

-----------------------------------------------------------------------------
(* Choosing the next thread.                                               *)

EmThrottle(t, thr) == thr /\ t \in QuotaThread

\* mutant: the affinity mask is not looked at
AllowedAnywhere(t, c, thr) == ~EmThrottle(t, thr)

AllowedOn(t, c, thr) == c \in affinity[t] /\ ~EmThrottle(t, thr)

Permitted(q, c, thr) == {i \in DOMAIN q : AllowedOn(q[i], c, thr)}

NormalReady(q, c, thr) == {i \in Permitted(q, c, thr) : prio[q[i]] = 0}

\* Queue positions pick_next takes the first of: the normal threads this CPU
\* may run, or, when there is none, the low-priority ones.
PickClass(q, c, thr) ==
    IF NormalReady(q, c, thr) # {} THEN NormalReady(q, c, thr)
                                   ELSE Permitted(q, c, thr)

-----------------------------------------------------------------------------
(* The switch.  `st`, `q` and `sl` are the states, the run queue and the   *)
(* sleepers as the caller leaves them.                                     *)

\* mutant: a preempted thread goes back to the head of the queue
RequeueFirst(q, t) == <<t>> \o q

Requeue(q, t) == Append(q, t)

SwitchTo(c, next, rest, newState, st, sl) ==
    LET cur == running[c] IN
    /\ state' = [t \in Thread |-> CASE t = cur  -> newState
                                    [] t = next -> "Running"
                                    [] OTHER    -> st[t]]
    /\ runQueue' = IF newState = "Ready" /\ cur # Idle
                   THEN Requeue(rest, cur) ELSE rest
    /\ sleepers' = IF newState = "Sleeping" THEN sl \cup {cur} ELSE sl
    /\ running' = [running EXCEPT ![c] = next]
    /\ prevForFinish' = [prevForFinish EXCEPT ![c] = cur]
    /\ lock' = c

ScheduleLocked(c, newState, st, q, sl, thr) ==
    /\ quantum' = [quantum EXCEPT ![c] = QUANTUM_TICKS]
    /\ \/ \E i \in PickClass(q, c, thr) :
            /\ \A j \in PickClass(q, c, thr) : i <= j
            /\ SwitchTo(c, q[i], RemoveAt(q, i), newState, st, sl)
       \/ /\ PickClass(q, c, thr) = {}
          /\ running[c] # Idle
          /\ SwitchTo(c, Idle, q, newState, st, sl)
       \/ /\ PickClass(q, c, thr) = {}     \* nothing better: idle goes on
          /\ running[c] = Idle
          /\ state' = st /\ runQueue' = q /\ sleepers' = sl
          /\ UNCHANGED <<running, prevForFinish, lock>>

\* mutant: every joiner is queued, woken already or not
AllJoiners(prev) == waiters[prev]

\* Only joiners still blocked go back to the queue.
JoinersToWake(prev) == {w \in waiters[prev] : state[w] = "Blocked"}

\* finish_switch, on the stack of the thread that received the CPU.  The
\* joiners are queued in list order in the code, in any order here.
FinishSwitch(c) ==
    LET prev  == prevForFinish[c]
        ended == prev \in Thread /\ state[prev] = "Dying"
        woken == IF ended THEN JoinersToWake(prev) ELSE {}
    IN
    /\ lock = c
    /\ lock' = NoCpu
    /\ onStack' = [onStack EXCEPT ![c] = running[c]]
    /\ prevForFinish' = [prevForFinish EXCEPT ![c] = NoThread]
    /\ \E order \in SetToSeqs(woken) : runQueue' = runQueue \o order
    /\ state' = [t \in Thread |-> CASE ended /\ t = prev -> "Dead"
                                    [] t \in woken       -> "Ready"
                                    [] OTHER             -> state[t]]
    /\ waiters' = IF ended THEN [waiters EXCEPT ![prev] = {}] ELSE waiters
    /\ dead' = IF ended THEN dead \cup {prev} ELSE dead
    /\ UNCHANGED <<sleepers, running, stacks, quantum, prio, affinity, due,
                   throttled, ipi, pc, target>>

-----------------------------------------------------------------------------
(* Operations of the thread running on CPU c.                              *)

Runs(c, t) == lock = NoCpu /\ running[c] = t /\ t \in Thread

\* kick_idle_cpu: a RESCHED to the first other CPU that is idle.
KickIdleCpu(c) ==
    LET idle == {d \in CPU \ {c} : running[d] = Idle} IN
    ipi' = IF idle = {} THEN ipi ELSE [ipi EXCEPT ![Min(idle)] = TRUE]

SpawnFull(c, t, n, mask) ==
    /\ Runs(c, t) /\ pc[t] = "run"
    /\ state[n] = "New"
    /\ state' = [state EXCEPT ![n] = "Ready"]
    /\ runQueue' = Append(runQueue, n)
    /\ stacks' = stacks \cup {n}
    /\ prio' = [prio EXCEPT ![n] = prio[t]]
    /\ affinity' = [affinity EXCEPT ![n] = mask]
    /\ KickIdleCpu(c)
    /\ UNCHANGED <<lock, sleepers, dead, running, prevForFinish, onStack,
                   waiters, quantum, due, throttled, pc, target>>

\* The parts a thread that gives up its CPU leaves alone.
switchFrame == <<dead, onStack, stacks, prio, affinity, throttled, ipi>>

\* yield_now; inside join and set_affinity it is the step that follows.
YieldNow(c, t) ==
    /\ Runs(c, t) /\ pc[t] \in {"run", "joinYield", "repos"}
    /\ ScheduleLocked(c, "Ready", state, runQueue, sleepers, throttled)
    /\ pc' = [pc EXCEPT ![t] = IF pc[t] = "joinYield" THEN "join" ELSE "run"]
    /\ UNCHANGED <<switchFrame, waiters, due, target>>

SleepNs(c, t) ==
    /\ Runs(c, t) /\ pc[t] = "run"
    /\ due' = due \ {t}
    /\ ScheduleLocked(c, "Sleeping", state, runQueue, sleepers, throttled)
    /\ UNCHANGED <<switchFrame, waiters, pc, target>>

ExitCurrent(c, t) ==
    /\ Runs(c, t) /\ pc[t] = "run"
    /\ t # Main                            \* main ends in the loop of idle()
    /\ ScheduleLocked(c, "Dying", state, runQueue, sleepers, throttled)
    /\ UNCHANGED <<switchFrame, waiters, due, pc, target>>

\* park_with, the caller's own guard left out: the thread is Blocked before
\* anyone else can take SCHED.
ParkWith(c, t) ==
    /\ Runs(c, t) /\ pc[t] = "run"
    /\ ScheduleLocked(c, "Blocked", state, runQueue, sleepers, throttled)
    /\ UNCHANGED <<switchFrame, waiters, due, pc, target>>

\* unpark, from a thread or from an interrupt handler on CPU c.
Unpark(c, u) ==
    /\ lock = NoCpu
    /\ state[u] = "Blocked"
    /\ state' = [state EXCEPT ![u] = "Ready"]
    /\ runQueue' = Append(runQueue, u)
    /\ KickIdleCpu(c)
    /\ UNCHANGED <<lock, sleepers, dead, running, prevForFinish, onStack, stacks,
                   waiters, quantum, prio, affinity, due, throttled, pc, target>>

Finished(u) == state[u] \in {"New", "Dead", "Gone"}

\* mutant: blocks without looking at `finished` under the lock
JoinTurnUnchecked(c, t, u) ==
    /\ t # u
    /\ pc' = [pc EXCEPT ![t] = "joinCheck"]
    /\ target' = [target EXCEPT ![t] = u]
    /\ waiters' = [waiters EXCEPT ![u] = @ \cup {t}]
    /\ ScheduleLocked(c, "Blocked", state, runQueue, sleepers, throttled)
    /\ UNCHANGED <<switchFrame, due>>

\* One turn of the loop of join: register (once) and block.  A thread never
\* joins itself: thread_join refuses it.
JoinTurn(c, t, u) ==
    /\ t # u
    /\ IF Finished(u)
       THEN /\ pc' = [pc EXCEPT ![t] = "run"]
            /\ target' = [target EXCEPT ![t] = t]
            /\ UNCHANGED <<placeVars, quantum, waiters>>
       ELSE /\ pc' = [pc EXCEPT ![t] = "joinCheck"]
            /\ target' = [target EXCEPT ![t] = u]
            /\ waiters' = [waiters EXCEPT ![u] = @ \cup {t}]
            /\ ScheduleLocked(c, "Blocked", state, runQueue, sleepers, throttled)
    /\ UNCHANGED <<switchFrame, due>>

Join(c, t, u) == Runs(c, t) /\ pc[t] = "run" /\ ~Finished(u) /\ JoinTurn(c, t, u)

JoinAgain(c, t) == Runs(c, t) /\ pc[t] = "join" /\ JoinTurn(c, t, target[t])

\* Back from the block: is_finished, else one more turn after a yield.
JoinCheck(c, t) ==
    /\ Runs(c, t) /\ pc[t] = "joinCheck"
    /\ pc' = [pc EXCEPT ![t] = IF Finished(target[t]) THEN "run" ELSE "joinYield"]
    /\ target' = IF Finished(target[t]) THEN [target EXCEPT ![t] = t] ELSE target
    /\ UNCHANGED <<switchFrame, placeVars, quantum, waiters, due>>

\* sys_set_priority of the calling thread.
SetPriority(c, t, p) ==
    /\ Runs(c, t) /\ pc[t] = "run"
    /\ t # Main
    /\ prio' = [prio EXCEPT ![t] = p]
    /\ UNCHANGED <<placeVars, dead, onStack, stacks, waiters, quantum, affinity,
                   due, throttled, ipi, pc, target>>

\* sys_thread_set_affinity of the calling thread; the yield comes next.
SetAffinity(c, t, mask) ==
    /\ Runs(c, t) /\ pc[t] = "run"
    /\ t # Main                            \* a syscall: main makes none
    /\ affinity' = [affinity EXCEPT ![t] = mask]
    /\ pc' = [pc EXCEPT ![t] = "repos"]
    /\ UNCHANGED <<placeVars, dead, onStack, stacks, waiters, quantum, prio, due,
                   throttled, ipi, target>>

\* reap: dead threads leave `all` under the lock ...
Reap(c, t) ==
    /\ Runs(c, t) /\ pc[t] = "run"
    /\ dead # {}
    /\ dead' = {}
    /\ state' = [u \in Thread |-> IF u \in dead THEN "Gone" ELSE state[u]]
    /\ UNCHANGED <<lock, runQueue, sleepers, running, prevForFinish, onStack, stacks,
                   waiters, quantum, prio, affinity, due, throttled, ipi, pc, target>>

\* mutant: the stack of a thread is freed as soon as it is dying
FreeStackEarly(u) ==
    /\ state[u] \in {"Dying", "Dead", "Gone"} /\ u \in stacks
    /\ stacks' = stacks \ {u}
    /\ UNCHANGED <<placeVars, dead, onStack, waiters, quantum, prio, affinity, due,
                   throttled, ipi, pc, target>>

\* ... and their stacks are unmapped outside it, one by one.
FreeStack(u) ==
    /\ state[u] = "Gone" /\ u \in stacks
    /\ stacks' = stacks \ {u}
    /\ UNCHANGED <<placeVars, dead, onStack, waiters, quantum, prio, affinity, due,
                   throttled, ipi, pc, target>>

-----------------------------------------------------------------------------
(* Interrupts and time.                                                    *)

\* mutant: sleepers wake only on a CPU that is idle
DueWhenIdle(c) == IF running[c] = Idle THEN sleepers \cap due ELSE {}

\* Sleepers past their deadline wake in the tick of any CPU.
DueSleepers(c) == sleepers \cap due

\* The quantum is counted in millisecond boundaries and saturates at zero.
QuantumLeft(c, boundary) ==
    IF boundary /\ quantum[c] > 0 THEN quantum[c] - 1 ELSE quantum[c]

\* on_tick of CPU c.  `boundary`: the tick crossed a millisecond; `over`: the
\* job of the running thread spent its budget.  Work is looked for before the
\* throttle is decided, the switch looks again after.
OnTick(c, boundary, over) ==
    LET cur   == running[c]
        woken == DueSleepers(c)
        st    == [t \in Thread |-> IF t \in woken THEN "Ready" ELSE state[t]]
        sl    == sleepers \ woken
        left  == QuantumLeft(c, boundary)
        thr   == throttled \/ (boundary /\ cur \in QuotaThread /\ over)
    IN
    /\ lock = NoCpu
    /\ over => boundary /\ cur \in QuotaThread
    /\ throttled' = thr
    /\ due' = due \ woken
    /\ \E order \in SetToSeqs(woken) :
         LET q       == runQueue \o order
             work    == Permitted(q, c, throttled) # {}
             waiting == cur # Idle /\ prio[cur] = 1 /\ NormalReady(q, c, throttled) # {}
             leaves  == \/ cur # Idle /\ EmThrottle(cur, thr)
                        \/ work /\ (cur = Idle \/ left = 0 \/ waiting)
         IN IF leaves
            THEN ScheduleLocked(c, "Ready", st, q, sl, thr)
            ELSE /\ state' = st /\ runQueue' = q /\ sleepers' = sl
                 /\ quantum' = [quantum EXCEPT ![c] = left]
                 /\ UNCHANGED <<running, prevForFinish, lock>>
    /\ UNCHANGED <<dead, onStack, stacks, waiters, prio, affinity, ipi, pc, target>>

OnReschedIpi(c) ==
    LET cur  == running[c]
        goes == \/ cur = Idle /\ Permitted(runQueue, c, throttled) # {}
                \/ cur # Idle /\ prio[cur] = 1 /\ NormalReady(runQueue, c, throttled) # {}
    IN
    /\ lock = NoCpu
    /\ ipi[c]
    /\ ipi' = [ipi EXCEPT ![c] = FALSE]
    /\ IF goes
       THEN ScheduleLocked(c, "Ready", state, runQueue, sleepers, throttled)
       ELSE UNCHANGED <<placeVars, quantum>>
    /\ UNCHANGED <<dead, onStack, stacks, waiters, prio, affinity, due, throttled,
                   pc, target>>

\* The clock passes wake_at_ns of a sleeper.
TimePasses(t) ==
    /\ t \in sleepers \ due
    /\ due' = due \cup {t}
    /\ UNCHANGED <<placeVars, dead, onStack, stacks, waiters, quantum, prio,
                   affinity, throttled, ipi, pc, target>>

\* cpu_quota_tick in the ktimer thread ends the throttle.
EndThrottle ==
    /\ throttled
    /\ throttled' = FALSE
    /\ UNCHANGED <<placeVars, dead, onStack, stacks, waiters, quantum, prio,
                   affinity, due, ipi, pc, target>>

-----------------------------------------------------------------------------

SchedNext ==
    \/ \E c \in CPU : FinishSwitch(c)
    \/ \E c \in CPU, t \in Thread :
         \/ YieldNow(c, t) \/ SleepNs(c, t) \/ ExitCurrent(c, t) \/ ParkWith(c, t)
         \/ JoinAgain(c, t) \/ JoinCheck(c, t) \/ Reap(c, t)
         \/ \E u \in Thread : Join(c, t, u)
         \/ \E u \in Thread, mask \in Masks : SpawnFull(c, t, u, mask)
         \/ \E p \in Prios : SetPriority(c, t, p)
         \/ \E mask \in Masks : SetAffinity(c, t, mask)
    \/ \E c \in CPU, u \in Thread : Unpark(c, u)
    \/ \E c \in CPU, boundary, over \in BOOLEAN : OnTick(c, boundary, over)
    \/ \E c \in CPU : OnReschedIpi(c)
    \/ \E t \in Thread : FreeStack(t) \/ TimePasses(t)
    \/ EndThrottle

SchedSpec == SchedInit /\ [][SchedNext]_schedVars

-----------------------------------------------------------------------------
(* Properties.                                                             *)

SchedTypeOK ==
    /\ lock \in CPU \cup {NoCpu}
    /\ state \in [Thread -> State]
    /\ runQueue \in Seq(Thread)
    /\ sleepers \subseteq Thread /\ dead \subseteq Thread
    /\ running \in [CPU -> Thread \cup {Idle}]
    /\ prevForFinish \in [CPU -> Thread \cup {Idle, NoThread}]
    /\ onStack \in [CPU -> Thread \cup {Idle}]
    /\ stacks \subseteq Thread
    /\ waiters \in [Thread -> SUBSET Thread]
    /\ quantum \in [CPU -> 0 .. QUANTUM_TICKS]
    /\ prio \in [Thread -> {0, 1}]
    /\ affinity \in [Thread -> SUBSET CPU]
    /\ due \subseteq Thread
    /\ throttled \in BOOLEAN
    /\ ipi \in [CPU -> BOOLEAN]
    /\ pc \in [Thread -> {"run", "joinCheck", "joinYield", "join", "repos"}]
    /\ target \in [Thread -> Thread]

\* A thread is in the run queue exactly when it is Ready, and only once.
ReadyQueued ==
    /\ \A i, j \in DOMAIN runQueue : runQueue[i] = runQueue[j] => i = j
    /\ \A t \in Thread : state[t] = "Ready" <=> t \in ToSet(runQueue)

\* A thread is Running exactly when some CPU has it, and only one CPU has it.
RunningOnce ==
    /\ \A c, d \in CPU : running[c] = running[d] /\ running[c] # Idle => c = d
    /\ \A t \in Thread : state[t] = "Running" <=> \E c \in CPU : running[c] = t

\* The sleepers' list holds the sleeping threads, `dead` the dead ones, and a
\* dying thread is the one the switch in progress is leaving.
OthersPlaced ==
    /\ \A t \in Thread : state[t] = "Sleeping" <=> t \in sleepers
    /\ \A t \in Thread : state[t] = "Dead" <=> t \in dead
    /\ \A t \in Thread : state[t] = "Dying" => lock \in CPU /\ prevForFinish[lock] = t

\* Only the CPU that holds SCHED has a previous thread to finish with.
PrevHeldByLock ==
    \A c \in CPU : (prevForFinish[c] # NoThread) <=> (lock = c)

\* Every thread is in exactly one place, the one its state names: a queue
\* entry too many (a joiner woken by unpark and again by the thread it joins)
\* or an unpark of a thread that is not blocked would run one stack twice.
Placement == ReadyQueued /\ RunningOnce /\ OthersPlaced /\ PrevHeldByLock

\* No two CPUs execute on the same kernel stack, and none on the stack of a
\* thread that reap has freed, although a thread that yields is in the queue,
\* and one that exits is on its way to `dead`, while its CPU is still on it.
StackSafe ==
    /\ \A c, d \in CPU : onStack[c] = onStack[d] /\ onStack[c] # Idle => c = d
    /\ \A c \in CPU : onStack[c] \in stacks \cup {Idle}

\* A thread blocked in join is on the list of a thread that has not finished:
\* a joiner that was let go by a stale unpark re-registers, and no exit falls
\* between its check of `finished` and its block.
JoinWaits ==
    \A t \in Thread : pc[t] = "joinCheck" /\ state[t] = "Blocked" =>
        ~Finished(target[t]) /\ t \in waiters[target[t]]

\* Thread t receives CPU c in this step.
Dispatched(c, t) == running'[c] = t /\ running[c] # t

\* A CPU goes only to a thread that may use it: its affinity has the CPU and
\* its job has budget, the tick that finds the budget spent included
\* (allowed_on, looked at under the same lock as the choice).
DispatchAllowed ==
    [][\A c \in CPU, t \in Thread : Dispatched(c, t) =>
         c \in affinity'[t] /\ ~(t \in QuotaThread /\ throttled')]_schedVars

\* A low-priority thread receives a CPU only when no normal thread that may
\* run there was waiting in the queue; the thread that leaves does not count.
LowAfterNormal ==
    [][\A c \in CPU, t \in Thread : Dispatched(c, t) /\ prio[t] = 1 =>
          NormalReady(runQueue', c, throttled')
             \subseteq {i \in DOMAIN runQueue' : runQueue'[i] = running[c]}]_schedVars

\* "Baixa so roda quando nenhuma normal esta pronta para essa CPU" (comment of
\* pick_next): when a low-priority thread receives a CPU, no normal thread
\* that may run there is ready, the one that leaves included.
LowOnlyWithoutNormal ==
    [][\A c \in CPU, t \in Thread : Dispatched(c, t) /\ prio[t] = 1 =>
          NormalReady(runQueue', c, throttled') = {}]_schedVars

\* Every sleeper whose deadline passed wakes, whatever the other threads do.
SleeperWakes == \A t \in Thread : (t \in sleepers) ~> (t \notin sleepers)

\* A ready thread of normal priority, in no job with a quota, gets a CPU.
NormalRuns ==
    \A t \in Thread \ QuotaThread :
        (state[t] = "Ready" /\ prio[t] = 0) ~> (state[t] = "Running")

\* Normal threads run, and those of low priority do not run before them.
ReadyRuns == NormalRuns /\ LowAfterNormal
============================================================================
