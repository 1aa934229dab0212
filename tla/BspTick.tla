------------------------------- MODULE BspTick -------------------------------
(***************************************************************************)
(* The dynamic tick of the boot CPU, the BSP (kernel/src/time.rs): its     *)
(* local timer is one-shot and every interrupt arms it for the nearest     *)
(* deadline, at most a tick ahead; new deadlines arm it earlier, from the  *)
(* BSP or by an interprocessor interrupt from another CPU; a watchdog on   *)
(* the other CPUs (APs), whose timers are periodic, restarts it.           *)
(*                                                                         *)
(* after_ns runs with interrupts enabled: a thread may be preempted and    *)
(* moved to the other CPU between any two of its steps.  sleep_ns runs     *)
(* under the scheduler's lock with interrupts disabled, as does the timer  *)
(* handler.  An interrupt is taken before time goes on.                    *)
(***************************************************************************)
EXTENDS Integers, FiniteSets, FiniteSetsExt

CONSTANTS
    BspThread,       \* threads that set kernel timers
    Delays,       \* delays asked for
    TICK,         \* TICK_NS
    MIN_ARM,      \* MIN_ARM_NS
    MaxPending,   \* bound: deadlines at a time
    MaxNow        \* bound: time

ASSUME BspTickAssumption ==
    /\ Delays \subseteq Nat
    /\ MIN_ARM \in Nat \ {0}
    /\ TICK \in Nat /\ MIN_ARM <= TICK
    /\ MaxPending \in Nat
    /\ MaxNow \in Nat

BspCPU == {"BSP", "AP"}
Off == -1

VARIABLES
    now,
    deadlines,    \* deadlines of timers and sleepers not yet served
    armed,        \* ARMED_DEADLINE
    hw,           \* when the one-shot of the BSP expires, or Off
    bspIrq,          \* a timer interrupt or IPI is pending at the BSP
    apPeriod,     \* period of the AP's timer
    rescue,       \* LAST_RESCUE_NS
    cpu,          \* where a thread runs
    bspPc, bspDue, delta, at \* a thread in notify_deadline: step, its deadline, and
                       \* what arm_bsp computed: the delay and the instant

bsp == <<armed, hw, bspIrq>>
loc == <<bspDue, delta, at>>
bspVars == <<now, deadlines, armed, hw, bspIrq, apPeriod, rescue, cpu, bspPc, bspDue, delta, at>>

Time == 0 .. MaxNow + TICK
BspPc == {"user", "check", "which", "store", "ipi", "compute", "record", "start"}

BspTypeOK ==
    /\ now \in 0 .. MaxNow
    /\ deadlines \subseteq Nat
    /\ armed \in Nat
    /\ hw \in Time \cup {Off}
    /\ bspIrq \in BOOLEAN
    /\ apPeriod \in MIN_ARM .. TICK
    /\ rescue \in 0 .. MaxNow
    /\ cpu \in [BspThread -> BspCPU]
    /\ bspPc \in [BspThread -> BspPc]
    /\ bspDue \in [BspThread -> Nat]
    /\ delta \in [BspThread -> 0 .. TICK]
    /\ at \in [BspThread -> Time]

\* start_local_timer on both CPUs
BspInit ==
    /\ now = 0
    /\ deadlines = {}
    /\ armed = TICK
    /\ hw = TICK
    /\ bspIrq = FALSE
    /\ apPeriod = TICK
    /\ rescue = 0
    /\ cpu \in [BspThread -> BspCPU]
    /\ bspPc = [t \in BspThread |-> "user"]
    /\ bspDue = [t \in BspThread |-> 0]
    /\ delta = [t \in BspThread |-> 0]
    /\ at = [t \in BspThread |-> 0]

-----------------------------------------------------------------------------
\* The delay arm_bsp programs for deadline d.
ArmDelay(d) == Min({TICK, Max({MIN_ARM, d - now})})

\* The armed deadline is in the future and not later than d.
Covered(d) == d >= armed /\ armed > now

\* arm_bsp without interruption
ArmBsp(d) ==
    /\ armed' = now + ArmDelay(d)
    /\ hw' = now + ArmDelay(d)

-----------------------------------------------------------------------------
(* after_ns and periodic_ns: the timer is in PENDING, then notify_deadline *)
(* decides, and arm_bsp computes, records and starts.                      *)
BspGoto(t, l) == bspPc' = [bspPc EXCEPT ![t] = l]

Finish(t) ==
    /\ BspGoto(t, "user")
    /\ bspDue' = [bspDue EXCEPT ![t] = 0]
    /\ delta' = [delta EXCEPT ![t] = 0]
    /\ at' = [at EXCEPT ![t] = 0]

AfterNs(t, a) ==
    /\ bspPc[t] = "user"
    /\ Cardinality(deadlines) < MaxPending
    /\ deadlines' = deadlines \cup {now + a}
    /\ bspDue' = [bspDue EXCEPT ![t] = now + a]
    /\ BspGoto(t, "check")
    /\ UNCHANGED <<now, bsp, apPeriod, rescue, cpu, delta, at>>

NotifyDeadline(t) ==
    /\ bspPc[t] = "check"
    /\ IF Covered(bspDue[t]) THEN Finish(t) ELSE BspGoto(t, "which") /\ UNCHANGED loc
    /\ UNCHANGED <<now, deadlines, bsp, apPeriod, rescue, cpu>>

IsBsp(t) ==
    /\ bspPc[t] = "which"
    /\ BspGoto(t, IF cpu[t] = "BSP" THEN "compute" ELSE "store")
    /\ UNCHANGED <<now, deadlines, bsp, apPeriod, rescue, cpu, loc>>

\* From an AP: the deadline is recorded, then the IPI is sent.
AskStore(t) ==
    /\ bspPc[t] = "store"
    /\ armed' = bspDue[t]
    /\ BspGoto(t, "ipi")
    /\ UNCHANGED <<now, deadlines, hw, bspIrq, apPeriod, rescue, cpu, loc>>

AskIpi(t) ==
    /\ bspPc[t] = "ipi"
    /\ bspIrq' = TRUE
    /\ Finish(t)
    /\ UNCHANGED <<now, deadlines, armed, hw, apPeriod, rescue, cpu>>

ArmCompute(t) ==
    /\ bspPc[t] = "compute"
    /\ delta' = [delta EXCEPT ![t] = ArmDelay(bspDue[t])]
    /\ at' = [at EXCEPT ![t] = now + ArmDelay(bspDue[t])]
    /\ BspGoto(t, "record")
    /\ UNCHANGED <<now, deadlines, bsp, apPeriod, rescue, cpu, bspDue>>

ArmRecord(t) ==
    /\ bspPc[t] = "record"
    /\ armed' = at[t]
    /\ BspGoto(t, "start")
    /\ UNCHANGED <<now, deadlines, hw, bspIrq, apPeriod, rescue, cpu, loc>>

\* timer_start on the timer of the CPU the thread is on by now; the timer of
\* an AP is periodic and takes the count as its new period.
ArmStart(t) ==
    /\ bspPc[t] = "start"
    /\ IF cpu[t] = "BSP"
         THEN hw' = now + delta[t] /\ UNCHANGED apPeriod
         ELSE apPeriod' = delta[t] /\ UNCHANGED hw
    /\ Finish(t)
    /\ UNCHANGED <<now, deadlines, armed, bspIrq, rescue, cpu>>

\* The scheduler preempts a thread and runs it elsewhere.
Migrate(t) ==
    /\ \E c \in BspCPU : cpu' = [cpu EXCEPT ![t] = c]
    /\ UNCHANGED <<now, deadlines, bsp, apPeriod, rescue, bspPc, loc>>

\* cancel, or a sleeper woken by an AP
Cancel(d) ==
    /\ d \in deadlines
    /\ deadlines' = deadlines \ {d}
    /\ UNCHANGED <<now, bsp, apPeriod, rescue, cpu, bspPc, loc>>

-----------------------------------------------------------------------------
\* sleep_ns on CPU c
BspSleepNs(c, a) ==
    LET d == now + a
    IN /\ Cardinality(deadlines) < MaxPending
       /\ deadlines' = deadlines \cup {d}
       /\ \/ Covered(d) /\ UNCHANGED bsp
          \/ ~ Covered(d) /\ c = "BSP" /\ ArmBsp(d) /\ UNCHANGED bspIrq
          \/ ~ Covered(d) /\ c = "AP" /\ armed' = d /\ bspIrq' = TRUE /\ UNCHANGED hw
       /\ UNCHANGED <<now, apPeriod, rescue, cpu, bspPc, loc>>

\* Mutant: nothing is armed when no deadline is ahead.
TimerIrqIdle ==
    /\ bspIrq
    /\ LET ahead == {d \in deadlines : d > now}
       IN IF ahead = {} THEN hw' = Off /\ UNCHANGED armed ELSE ArmBsp(Min(ahead))
    /\ bspIrq' = FALSE
    /\ deadlines' = {d \in deadlines : d > now}
    /\ UNCHANGED <<now, apPeriod, rescue, cpu, bspPc, loc>>

\* Mutant: the handler arms the regular tick only.
TimerIrqRegular ==
    /\ bspIrq
    /\ ArmBsp(now + TICK)
    /\ bspIrq' = FALSE
    /\ deadlines' = {d \in deadlines : d > now}
    /\ UNCHANGED <<now, apPeriod, rescue, cpu, bspPc, loc>>

\* The handler on the BSP: rearm_bsp for the nearest deadline ahead, then
\* on_tick serves what is due.
TimerIrq ==
    /\ bspIrq
    /\ ArmBsp(Min({now + TICK} \cup {d \in deadlines : d > now}))
    /\ bspIrq' = FALSE
    /\ deadlines' = {d \in deadlines : d > now}
    /\ UNCHANGED <<now, apPeriod, rescue, cpu, bspPc, loc>>

\* ap_watchdog, from the tick of an AP
ApWatchdog ==
    /\ now >= armed + 4 * TICK
    /\ now >= rescue + 4 * TICK
    /\ rescue' = now
    /\ bspIrq' = TRUE
    /\ UNCHANGED <<now, deadlines, armed, hw, apPeriod, cpu, bspPc, loc>>

\* Time goes on; the one-shot that expires interrupts the BSP.
Pass ==
    /\ ~ bspIrq
    /\ now < MaxNow
    /\ now' = now + 1
    /\ bspIrq' = (hw = now + 1)
    /\ hw' = IF hw = now + 1 THEN Off ELSE hw
    /\ UNCHANGED <<deadlines, armed, apPeriod, rescue, cpu, bspPc, loc>>

-----------------------------------------------------------------------------
BspNext ==
    \/ \E t \in BspThread :
          \/ \E a \in Delays : AfterNs(t, a)
          \/ NotifyDeadline(t) \/ IsBsp(t) \/ AskStore(t) \/ AskIpi(t)
          \/ ArmCompute(t) \/ ArmRecord(t) \/ ArmStart(t) \/ Migrate(t)
    \/ \E c \in BspCPU, a \in Delays : BspSleepNs(c, a)
    \/ \E d \in deadlines : Cancel(d)
    \/ TimerIrq \/ ApWatchdog \/ Pass

BspSpec == BspInit /\ [][BspNext]_bspVars

-----------------------------------------------------------------------------
\* "nenhum rearme se perdeu": the BSP is never left without a tick, whatever
\* the order of handlers, threads, migrations and IPIs.
NeverDisarmed == hw # Off \/ bspIrq

\* As long as deadlines come from sleep_ns only and no delay is shorter than
\* MIN_ARM, a sleeper on either CPU is served within MIN_ARM of its deadline.
\* Shorter sleeps arm the timer anew for MIN_ARM each and so put it off.
ServedInTime == \A d \in deadlines : now < d + MIN_ARM \/ bspIrq

\* "periodico (1 ms) nas APs": nothing changes the period of an AP's timer.
ApPeriodic == apPeriod = TICK

\* "qualquer valor acima e um rearme perdido": a rescue by the watchdog finds
\* the timer of the BSP disarmed.
RescueMeansLost == [][rescue' # rescue => hw = Off]_bspVars
=============================================================================
