------------------------------- MODULE JobQuota -------------------------------
(***************************************************************************)
(* The CPU quota of a job (kernel/src/process.rs, kernel/src/sched.rs).    *)
(* A process is credited the CPU time of its thread when the thread leaves *)
(* the CPU; the running thread adds its own slice when it asks, at each    *)
(* tick, whether the job spent its budget.  A periodic timer closes the    *)
(* window of every job in JOBS_COM_QUOTA.  set_cpu_limit, the timer and    *)
(* the ticks use atomics and take no common lock, so they interleave.      *)
(* Time is counted in ticks of 1 ms.                                       *)
(***************************************************************************)
EXTENDS Integers, FiniteSets, Functions

CONSTANTS
    Proc,         \* members of the job, one thread each
    Cpu,
    Limits,       \* budgets set_cpu_limit is called with
    Window,       \* JOB_CPU_WINDOW_NS in ticks
    None,
    QuotaOps,          \* which of "set", "exit" happen after the start
    MaxWindows    \* bound: windows closed

ASSUME JobQuotaAssumption ==
    /\ Limits \subseteq Nat
    /\ Window \in Nat \ {0}
    /\ None \notin Proc

VARIABLES
    limit, base, quotaThrottled,   \* cpu_limite_ns, cpu_base_ns, throttled
    listed,       \* the job is in JOBS_COM_QUOTA
    quotaCpu,          \* Process.cpu_ns: credited time
    alive,        \* members whose process still exists
    run, slice,   \* who a CPU runs, for how long uncredited
    ticked,       \* CPUs that had this unit's tick
    unit, windows, \* ticks in this window, windows that ended
    quotaDue, quota,   \* cpu_quota_tick: must run; where it stands
    setter,       \* set_cpu_limit: where it stands
    spent, quotaClosed, \* history: time used, windows closed since the limit
    late          \* history: ticks a CPU ran a member in throttle

quotaVars == <<limit, base, quotaThrottled, listed, quotaCpu, alive, run, slice, ticked,
          unit, windows, quotaDue, quota, setter, spent, quotaClosed, late>>
quotaJob == <<limit, base, quotaThrottled, listed>>
cpus == <<quotaCpu, alive, run, slice, ticked, late>>
clock == <<unit, windows, quotaDue>>
used == <<spent, quotaClosed>>

QuotaTypeOK ==
    /\ limit \in Limits \cup {0} /\ base \in Nat
    /\ quotaThrottled \in BOOLEAN /\ listed \in BOOLEAN
    /\ quotaCpu \in [Proc -> Nat] /\ alive \subseteq Proc
    /\ run \in [Cpu -> alive \cup {None}] /\ slice \in [Cpu -> Nat]
    /\ ticked \subseteq Cpu
    /\ unit \in 0 .. Window - 1 /\ windows \in 0 .. MaxWindows
    /\ quotaDue \in BOOLEAN
    /\ quota \in {"idle", "skip", "retain", "close"}
    /\ setter \in {"idle", "base", "push"}
    /\ spent \in Nat /\ quotaClosed \in 0 .. MaxWindows /\ late \in [Cpu -> Nat]
    /\ \A c, d \in Cpu : run[c] = run[d] /\ run[c] # None => c = d

QuotaInit ==
    /\ limit = 0 /\ base = 0 /\ quotaThrottled = FALSE /\ listed = FALSE
    /\ quotaCpu = [p \in Proc |-> 0] /\ alive = Proc
    /\ run = [c \in Cpu |-> None] /\ slice = [c \in Cpu |-> 0]
    /\ ticked = Cpu
    /\ unit = 0 /\ windows = 0 /\ quotaDue = FALSE /\ quota = "idle"
    /\ setter = "idle" /\ spent = 0 /\ quotaClosed = 0 /\ late = [c \in Cpu |-> 0]

-----------------------------------------------------------------------------
Monus(a, b) == IF a >= b THEN a - b ELSE 0

\* cpu_total_ns: only processes that still exist count.
Total == FoldFunctionOnSet(+, 0, quotaCpu, alive)

TemQuota == limit # 0

QuotaEmThrottle == quotaThrottled /\ TemQuota

Estourou(extra) == TemQuota /\ Monus(Total + extra, base) >= limit

\* The part of schedule_locked that credits the thread that leaves CPU c.
QuotaLeave(c) ==
    /\ run' = [run EXCEPT ![c] = None]
    /\ quotaCpu' = [quotaCpu EXCEPT ![run[c]] = @ + slice[c]]
    /\ slice' = [slice EXCEPT ![c] = 0]
    /\ late' = [late EXCEPT ![c] = 0]

\* on_tick at a boundary of 1 ms: mark the throttle and leave the CPU at once.
QuotaOnTick(c) ==
    /\ c \notin ticked
    /\ ticked' = ticked \cup {c}
    /\ quotaThrottled' = (quotaThrottled \/ (run[c] # None /\ Estourou(slice[c])))
    /\ IF run[c] # None /\ quotaThrottled' /\ TemQuota
         THEN QuotaLeave(c)
         ELSE late' = [late EXCEPT ![c] = 0] /\ UNCHANGED <<quotaCpu, run, slice>>
    /\ UNCHANGED <<limit, base, listed, alive, used, clock, quota, setter>>

\* The quantum ends, or the thread blocks.
Yield(c) ==
    /\ run[c] # None
    /\ QuotaLeave(c)
    /\ UNCHANGED <<quotaJob, alive, ticked, used, clock, quota, setter>>

\* allowed_on, pick_next: a CPU takes a member that is ready.
Pick(c, p) ==
    /\ run[c] = None
    /\ \A d \in Cpu : run[d] # p
    /\ ~QuotaEmThrottle
    /\ run' = [run EXCEPT ![c] = p]
    /\ UNCHANGED <<quotaJob, quotaCpu, alive, slice, ticked, used, late, clock, quota, setter>>

\* The member on CPU c exits: what it used no longer counts.
Exit(c) ==
    /\ "exit" \in QuotaOps
    /\ run[c] # None
    /\ alive' = alive \ {run[c]}
    /\ QuotaLeave(c)
    /\ UNCHANGED <<quotaJob, ticked, used, clock, quota, setter>>

-----------------------------------------------------------------------------
\* set_cpu_limit: the store of the limit, of the base, the entry in the list.
SetLimit(ns) ==
    /\ setter = "idle"
    /\ "set" \in QuotaOps \/ limit = 0
    /\ limit' = ns
    /\ setter' = "base"
    /\ UNCHANGED <<base, quotaThrottled, listed, cpus, used, clock, quota>>

SetBase ==
    /\ setter = "base"
    /\ base' = Total
    /\ quotaThrottled' = (quotaThrottled /\ limit # 0)
    /\ setter' = IF limit = 0 THEN "idle" ELSE "push"
    /\ spent' = 0
    /\ quotaClosed' = 0
    /\ UNCHANGED <<limit, listed, cpus, clock, quota>>

SetPush ==
    /\ setter = "push"
    /\ listed' = TRUE
    /\ setter' = "idle"
    /\ UNCHANGED <<limit, base, quotaThrottled, cpus, used, clock, quota>>

\* cpu_quota_tick: collect the jobs, drop those without quota, close.
QuotaCollect ==
    /\ quotaDue /\ quota = "idle"
    /\ quotaDue' = FALSE
    /\ quota' = IF listed THEN "retain" ELSE "skip"
    /\ UNCHANGED <<quotaJob, cpus, used, unit, windows, setter>>

QuotaRetain ==
    /\ quota \in {"retain", "skip"}
    /\ listed' = (listed /\ TemQuota)
    /\ quota' = IF quota = "retain" THEN "close" ELSE "idle"
    /\ UNCHANGED <<limit, base, quotaThrottled, cpus, used, clock, setter>>

\* Mutant: an exhausted budget leaves the base where it was.
FechaStuck ==
    /\ quota = "close"
    /\ quota' = "idle"
    /\ LET gasto == Monus(Total, base)
       IN /\ base' = IF limit = 0 \/ gasto >= limit THEN base ELSE Total
          /\ quotaThrottled' = (limit # 0 /\ gasto >= limit)
    /\ quotaClosed' = quotaClosed + 1
    /\ UNCHANGED <<limit, listed, cpus, spent, clock, setter>>

FechaJanela ==
    /\ quota = "close"
    /\ quota' = "idle"
    /\ LET gasto == Monus(Total, base)
       IN /\ base' = IF limit = 0 THEN base ELSE Monus(Total, Monus(gasto, limit))
          /\ quotaThrottled' = (limit # 0 /\ gasto >= limit)
    /\ quotaClosed' = quotaClosed + 1
    /\ UNCHANGED <<limit, listed, cpus, spent, clock, setter>>

\* A millisecond passes; the timer is due at the end of a window.  Neither
\* cpu_quota_tick nor set_cpu_limit takes a whole window.
QuotaPass ==
    /\ ticked = Cpu
    /\ windows < MaxWindows
    /\ unit = Window - 1 => ~quotaDue /\ quota = "idle" /\ setter = "idle"
    /\ unit' = (unit + 1) % Window
    /\ windows' = windows + (IF unit' = 0 THEN 1 ELSE 0)
    /\ quotaDue' = (quotaDue \/ unit' = 0)
    /\ slice' = [c \in Cpu |-> IF run[c] # None THEN slice[c] + 1 ELSE 0]
    /\ spent' = spent + Cardinality({c \in Cpu : run[c] # None})
    /\ late' = [c \in Cpu |-> IF run[c] # None /\ QuotaEmThrottle THEN late[c] + 1 ELSE 0]
    /\ ticked' = {}
    /\ UNCHANGED <<quotaJob, quotaCpu, alive, run, quotaClosed, quota, setter>>

-----------------------------------------------------------------------------
QuotaKernel == QuotaCollect \/ QuotaRetain \/ FechaJanela \/ SetBase \/ SetPush

QuotaNext ==
    \/ \E c \in Cpu : QuotaOnTick(c) \/ Yield(c) \/ Exit(c) \/ \E p \in alive : Pick(c, p)
    \/ \E ns \in Limits : SetLimit(ns)
    \/ QuotaKernel
    \/ QuotaPass

QuotaSpec == QuotaInit /\ [][QuotaNext]_quotaVars

-----------------------------------------------------------------------------
\* "the throttle acts in about 1 ms" (comment of estourou): no CPU runs a
\* member of a job in throttle for more than one tick, whatever the order of
\* ticks, limits and windows.
LateOneTick == \A c \in Cpu : late[c] <= 1

\* A job with a limit is closed every window: no order of set_cpu_limit and
\* cpu_quota_tick leaves it out of JOBS_COM_QUOTA.
Listed == setter = "idle" /\ TemQuota => listed

\* The excess is charged (comment in fecha_janela): over any number of
\* windows the members use the budget of those windows, and beyond it at
\* most what the CPUs can give them in two windows: the one that is skipped
\* when the job enters the list late, and one more, since a thread that
\* leaves the CPU before each tick is only found out when the window closes.
\* It holds as long as no member exits: cpu_total_ns forgets those that did.
LongRun ==
    setter = "idle" /\ TemQuota /\ alive = Proc =>
        spent <= limit * (quotaClosed + 1) + 2 * Window * Cardinality(Cpu)

\* What the members owe, slices that are not credited yet included.
Debt == Monus(Total + FoldFunctionOnSet(+, 0, slice, Cpu), base) + Cardinality(Cpu)

\* A throttled job is let run again: the windows in which it does not run
\* work off the debt, as long as there are enough of them in the bound.
Released ==
    (QuotaEmThrottle /\ setter = "idle" /\ Debt < limit * (MaxWindows - windows - 1)) ~> ~QuotaEmThrottle

\* set_cpu_limit starts the window anew ("reancora a janela atual"): the job
\* is not throttled in it before it used its budget.
Reanchored ==
    [][setter = "idle" /\ quotaClosed = 0 /\ ~quotaThrottled /\ quotaThrottled' => spent >= limit]_quotaVars

\* The next window is charged the excess and nothing else (syscall 42): a
\* window starts in throttle only if the excess used up its budget.
OnlyExcessCharged ==
    [][quota = "close" /\ quota' = "idle" /\ quotaThrottled'
          => Monus(Total, base) - limit >= limit]_quotaVars
=============================================================================
