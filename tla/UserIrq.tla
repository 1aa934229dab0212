------------------------------- MODULE UserIrq -------------------------------
(***************************************************************************)
(* Interrupt vectors lent to driver processes (kernel/src/irq.rs and the   *)
(* irq_alloc, irq_wait and irq_channel system calls).  A process holds one *)
(* device grant; its vectors return to the pool when the grant is dropped. *)
(* Messages of the devices go to the boot CPU, so one handler runs at a    *)
(* time (isr), in parallel with the threads on other CPUs.  Threads taken  *)
(* from WAITERS and not yet unparked are in toWake.                        *)
(***************************************************************************)
EXTENDS Integers

CONSTANTS
    IrqProcess,
    IrqThread, IrqOwnerOf,   \* threads of the drivers; the process of a thread
    LastVector,              \* vectors are 0 .. LastVector, offsets from USER_VECTOR_BASE
    MaxIrqs,           \* bound: interrupts of a vector
    Killable           \* processes that are members of a job

Vector == 0 .. LastVector

ASSUME UserIrqAssumption ==
    /\ IrqOwnerOf \in [IrqThread -> IrqProcess]
    /\ LastVector \in Nat
    /\ MaxIrqs \in Nat
    /\ Killable \subseteq IrqProcess

NoVector == -1

VARIABLES
    allocated,         \* ALLOCATED: the vectors in use
    irqCounts,            \* COUNTS
    irqWaiters,           \* WAITERS: pairs of vector and thread
    channels,          \* CHANNELS: pairs of vector and process of the user end
    grant, vectors,    \* the grant of a process is held; DeviceGrant.vectors
    freeing,           \* vectors marked free whose waiters are still to wake
    irqQueue,             \* notices in a process's interrupt channel
    shut,              \* the user end of that channel: closed
    isr,               \* the handler: its step and its vector
    irqPc, vec, seen,     \* a thread: step, vector and count it knows
    irqToWake, irqKilled,
    unread             \* interrupts since the process last took a notice

irq == <<allocated, irqCounts, irqWaiters, channels>>
own == <<grant, vectors>>
irqChan == <<irqQueue, shut, unread>>
thr == <<irqPc, vec, seen>>
irqVars == <<allocated, irqCounts, irqWaiters, channels, grant, vectors, freeing, irqQueue,
          shut, isr, irqPc, vec, seen, irqToWake, irqKilled, unread>>

IrqTypeOK ==
    /\ allocated \subseteq Vector
    /\ irqCounts \in [Vector -> 0 .. MaxIrqs]
    /\ irqWaiters \subseteq Vector \X IrqThread
    /\ channels \subseteq Vector \X IrqProcess
    /\ grant \in [IrqProcess -> BOOLEAN]
    /\ vectors \in [IrqProcess -> SUBSET Vector]
    /\ freeing \subseteq Vector
    /\ irqQueue \in [IrqProcess -> {0, 1}]
    /\ shut \in [IrqProcess -> BOOLEAN]
    /\ isr \in {"idle", "notify", "wake"} \X (Vector \cup {NoVector})
    /\ irqPc \in [IrqThread -> {"user", "lock", "blocked"}]
    /\ vec \in [IrqThread -> Vector \cup {NoVector}]
    /\ seen \in [IrqThread -> 0 .. MaxIrqs]
    /\ irqToWake \subseteq IrqThread
    /\ irqKilled \subseteq IrqProcess
    /\ unread \in [IrqProcess -> 0 .. MaxIrqs]

IrqInit ==
    /\ allocated = {}
    /\ irqCounts = [v \in Vector |-> 0]
    /\ irqWaiters = {}
    /\ channels = {}
    /\ grant = [p \in IrqProcess |-> TRUE]
    /\ vectors = [p \in IrqProcess |-> {}]
    /\ freeing = {}
    /\ irqQueue = [p \in IrqProcess |-> 0]
    /\ shut = [p \in IrqProcess |-> FALSE]
    /\ isr = <<"idle", NoVector>>
    /\ irqPc = [t \in IrqThread |-> "user"]
    /\ vec = [t \in IrqThread |-> NoVector]
    /\ seen = [t \in IrqThread |-> 0]
    /\ irqToWake = {}
    /\ irqKilled = {}
    /\ unread = [p \in IrqProcess |-> 0]

-----------------------------------------------------------------------------
\* irq_alloc: the first free vector, which the grant then owns.
Alloc(p) ==
    /\ grant[p]
    /\ \E v \in Vector \ allocated :
          /\ \A w \in Vector \ allocated : v <= w
          /\ allocated' = allocated \cup {v}
          /\ vectors' = [vectors EXCEPT ![p] = @ \cup {v}]
    /\ UNCHANGED <<irqCounts, irqWaiters, channels, grant, freeing, irqChan, isr, thr, irqToWake, irqKilled>>

\* The last handle of the grant is closed: free(v) for each vector.
DropGrant(p) ==
    /\ grant[p]
    /\ grant' = [grant EXCEPT ![p] = FALSE]
    /\ vectors' = [vectors EXCEPT ![p] = {}]
    /\ allocated' = allocated \ vectors[p]
    /\ freeing' = freeing \cup vectors[p]
    /\ UNCHANGED <<irqCounts, irqWaiters, channels, irqChan, isr, thr, irqToWake, irqKilled>>

\* on_interrupt_wake_only
WakeOnly(v) ==
    LET mine == {w \in irqWaiters : w[1] = v}
    IN /\ irqWaiters' = irqWaiters \ mine
       /\ irqToWake' = irqToWake \cup {w[2] : w \in mine}

FreeWakes(v) ==
    /\ v \in freeing
    /\ freeing' = freeing \ {v}
    /\ WakeOnly(v)
    /\ UNCHANGED <<allocated, irqCounts, channels, own, irqChan, isr, thr, irqKilled>>

\* irq_channel: one channel for a process is modelled.
IrqChannel(p, v) ==
    /\ grant[p]
    /\ v \in vectors[p]
    /\ \A c \in channels : c[2] # p
    /\ ~ shut[p]
    /\ channels' = channels \cup {<<v, p>>}
    /\ UNCHANGED <<allocated, irqCounts, irqWaiters, own, freeing, irqChan, isr, thr, irqToWake, irqKilled>>

RecvNotice(p) ==
    /\ irqQueue[p] > 0
    /\ irqQueue' = [irqQueue EXCEPT ![p] = 0]
    /\ unread' = [unread EXCEPT ![p] = 0]
    /\ UNCHANGED <<irq, own, freeing, shut, isr, thr, irqToWake, irqKilled>>

CloseChannel(p) ==
    /\ ~ shut[p]
    /\ \E c \in channels : c[2] = p
    /\ shut' = [shut EXCEPT ![p] = TRUE]
    /\ irqQueue' = [irqQueue EXCEPT ![p] = 0]
    /\ unread' = [unread EXCEPT ![p] = 0]
    /\ UNCHANGED <<irq, own, freeing, isr, thr, irqToWake, irqKilled>>

-----------------------------------------------------------------------------
(* on_interrupt: the count, the channels, then those who wait.  A device   *)
(* that was programmed with a vector may use it after the grant is gone.   *)
Interrupt(v) ==
    /\ isr[1] = "idle"
    /\ irqCounts[v] < MaxIrqs
    /\ irqCounts' = [irqCounts EXCEPT ![v] = @ + 1]
    /\ unread' = [p \in IrqProcess |-> IF <<v, p>> \in channels /\ ~ shut[p]
                                      THEN unread[p] + 1 ELSE unread[p]]
    /\ isr' = <<"notify", v>>
    /\ UNCHANGED <<allocated, irqWaiters, channels, own, freeing, irqQueue, shut, thr, irqToWake, irqKilled>>

\* Mutant: a notice is left out when another process's channel has one.
NotifyOne ==
    LET mine == {c \in channels : c[1] = isr[2]}
    IN /\ isr[1] = "notify"
       /\ irqQueue' = [p \in IrqProcess |->
                       IF <<isr[2], p>> \in mine /\ ~ shut[p] /\ \A r \in IrqProcess : irqQueue[r] = 0
                         THEN 1 ELSE irqQueue[p]]
       /\ channels' = channels \ {c \in mine : shut[c[2]]}
       /\ isr' = <<"wake", isr[2]>>
       /\ UNCHANGED <<allocated, irqCounts, irqWaiters, own, freeing, shut, unread, thr, irqToWake, irqKilled>>

\* A notice for each channel of the vector that has none; a channel whose
\* user end is closed is dropped.
Notify ==
    LET mine == {c \in channels : c[1] = isr[2]}
    IN /\ isr[1] = "notify"
       /\ irqQueue' = [p \in IrqProcess |->
                       IF <<isr[2], p>> \in mine /\ ~ shut[p] THEN 1 ELSE irqQueue[p]]
       /\ channels' = channels \ {c \in mine : shut[c[2]]}
       /\ isr' = <<"wake", isr[2]>>
       /\ UNCHANGED <<allocated, irqCounts, irqWaiters, own, freeing, shut, unread, thr, irqToWake, irqKilled>>

IsrWakes ==
    /\ isr[1] = "wake"
    /\ WakeOnly(isr[2])
    /\ isr' = <<"idle", NoVector>>
    /\ UNCHANGED <<allocated, irqCounts, channels, own, freeing, irqChan, thr, irqKilled>>

-----------------------------------------------------------------------------
(* irq_wait: the grant is checked and let go; the vector need not be its   *)
(* own.  seen is the count the last wait returned.                         *)
IrqWait(t, v) ==
    /\ irqPc[t] = "user"
    /\ grant[IrqOwnerOf[t]]
    /\ IrqOwnerOf[t] \notin irqKilled
    /\ vec' = [vec EXCEPT ![t] = v]
    /\ seen' = [seen EXCEPT ![t] = IF vec[t] = v THEN @ ELSE 0]
    /\ irqPc' = [irqPc EXCEPT ![t] = "lock"]
    /\ UNCHANGED <<irq, own, freeing, irqChan, isr, irqToWake, irqKilled>>

\* Under the lock of WAITERS: return, or register and park.
IrqWaitLocked(t) ==
    /\ irqPc[t] = "lock"
    /\ \/ /\ irqCounts[vec[t]] > seen[t]
          /\ seen' = [seen EXCEPT ![t] = irqCounts[vec[t]]]
          /\ irqPc' = [irqPc EXCEPT ![t] = "user"]
          /\ UNCHANGED irqWaiters
       \/ /\ irqCounts[vec[t]] <= seen[t]
          /\ irqWaiters' = irqWaiters \cup {<<vec[t], t>>}
          /\ irqPc' = [irqPc EXCEPT ![t] = "blocked"]
          /\ UNCHANGED seen
    /\ UNCHANGED <<allocated, irqCounts, channels, own, freeing, irqChan, isr, vec, irqToWake, irqKilled>>

\* sched::unpark
IrqUnpark(t) ==
    /\ t \in irqToWake
    /\ irqToWake' = irqToWake \ {t}
    /\ irqPc' = IF irqPc[t] = "blocked" THEN [irqPc EXCEPT ![t] = "lock"] ELSE irqPc
    /\ UNCHANGED <<irq, own, freeing, irqChan, isr, vec, seen, irqKilled>>

\* Job::kill marks the process, closes its handles and unparks its threads.
IrqKill(p) ==
    /\ p \in Killable \ irqKilled
    /\ irqKilled' = irqKilled \cup {p}
    /\ grant' = [grant EXCEPT ![p] = FALSE]
    /\ vectors' = [vectors EXCEPT ![p] = {}]
    /\ allocated' = allocated \ vectors[p]
    /\ freeing' = freeing \cup vectors[p]
    /\ shut' = [shut EXCEPT ![p] = TRUE]
    /\ irqQueue' = [irqQueue EXCEPT ![p] = 0]
    /\ unread' = [unread EXCEPT ![p] = 0]
    /\ irqToWake' = irqToWake \cup {t \in IrqThread : IrqOwnerOf[t] = p}
    /\ UNCHANGED <<irqCounts, irqWaiters, channels, isr, thr>>

-----------------------------------------------------------------------------
System ==
    \/ Notify \/ IsrWakes
    \/ \E v \in Vector : FreeWakes(v)
    \/ \E t \in IrqThread : IrqWaitLocked(t) \/ IrqUnpark(t)

Use ==
    \/ \E p \in IrqProcess :
          \/ Alloc(p) \/ DropGrant(p) \/ RecvNotice(p) \/ CloseChannel(p) \/ IrqKill(p)
          \/ \E v \in Vector : IrqChannel(p, v)
    \/ \E t \in IrqThread, v \in Vector : IrqWait(t, v)
    \/ \E v \in Vector : Interrupt(v)

IrqNext == System \/ Use

IrqSpec == IrqInit /\ [][IrqNext]_irqVars

-----------------------------------------------------------------------------
\* irq::wait loses no interrupt: a blocked thread is registered and nothing
\* came since the count it knows, or the handler that counted it is still to
\* wake, or the thread is about to be unparked.
NoLostIrq ==
    \A t \in IrqThread : irqPc[t] = "blocked" =>
        \/ t \in irqToWake
        \/ /\ <<vec[t], t>> \in irqWaiters
           /\ irqCounts[vec[t]] <= seen[t] \/ (isr[1] # "idle" /\ isr[2] = vec[t])

\* Coalescing drops no news: while an interrupt was not answered by a notice
\* the process took, a notice is in its channel or the handler is about to
\* put one there.
NoticeStays ==
    \A p \in IrqProcess : unread[p] > 0 => irqQueue[p] > 0 \/ isr[1] = "notify"

\* A vector is of one grant at a time, and of a grant that is held.
VectorOwned ==
    \A p \in IrqProcess :
        /\ vectors[p] \subseteq allocated
        /\ vectors[p] # {} => grant[p]
        /\ \A r \in IrqProcess \ {p} : vectors[p] \cap vectors[r] = {}

\* Notices and vectors stay with their process: no news is dropped and no
\* vector is shared.
IrqKept == NoticeStays /\ VectorOwned

\* A wait for an interrupt that came returns.
IrqReturns ==
    \A t \in IrqThread :
        (irqPc[t] = "blocked" /\ irqCounts[vec[t]] > seen[t]) ~> irqPc[t] = "user"

\* job_kill: every thread of a killed process leaves "ao acordar de uma
\* espera".
KilledLeaves ==
    \A t \in IrqThread : (IrqOwnerOf[t] \in irqKilled) ~> irqPc[t] = "user"

\* irq_channel: notices are of a vector "de um irq_alloc da mesma concessao":
\* the handler puts no notice into the channel of a process when the vector
\* is another's.
NoticeFromOwn ==
    [][\A p, r \in IrqProcess :
          irqQueue'[p] > irqQueue[p] /\ isr[2] \in vectors[r] => r = p]_irqVars
=============================================================================
