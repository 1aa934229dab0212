------------------------------- MODULE WaitAny -------------------------------
(***************************************************************************)
(* The multiple wait of the kernel (wait_any_impl in kernel/src/x86/       *)
(* syscall.rs) over channels and events (kernel/src/ipc.rs), by threads    *)
(* that also receive from the channels.  The other side sends, closes its  *)
(* ends, signals and resets events, and kills the threads' process.        *)
(*                                                                         *)
(* A scan looks at one object at a time, under that object's lock.  Those  *)
(* who wake take the waiters under the lock and unpark them afterwards;    *)
(* the threads in between are in toWake.  sched::unpark wakes a thread     *)
(* that is Blocked; the multiple wait is Sleeping and ends with its tick.  *)
(***************************************************************************)
EXTENDS Integers, Sequences, Functions

CONSTANTS
    AnyThread,            \* threads of the waiting process
    AnyChannel,           \* channels whose one end that process holds
    ManualEvent, AutoEvent,      \* events, by mode
    Lists,             \* handle lists threads pass to channel_wait_any
    AnyQueueMax,
    MaxSignals         \* bound: signals of an automatic event

Event == ManualEvent \cup AutoEvent
Object == AnyChannel \cup Event

ASSUME WaitAnyAssumption ==
    /\ AnyChannel \cap Event = {}
    /\ ManualEvent \cap AutoEvent = {}
    /\ \A l \in Lists : l \in Seq(Object) /\ l # <<>>
    /\ AnyQueueMax \in Nat \ {0}
    /\ MaxSignals \in Nat

VARIABLES
    queue, anyClosed,      \* a channel: messages for this side; the peer closed
    sinalizado,         \* EventInner.sinalizado
    anyWaiters,            \* the waiters of an object
    toWake,             \* taken from a waiter list, not yet unparked
    anyKilled,             \* Process.killed
    anyPc, on, k,          \* a thread: step, its handle list, position in it
    deadline,           \* of a thread's wait: "none", "running" or "past"
    since,              \* objects ready ever since the wait began
    skipped,            \* objects passed over by a wait in spite of that
    signals, passes     \* signals of an event; waits it let through

objs == <<queue, anyClosed, sinalizado, anyWaiters>>
anyHist == <<signals, passes>>
anyVars == <<queue, anyClosed, sinalizado, anyWaiters, toWake, anyKilled, anyPc, on, k,
          deadline, since, skipped, signals, passes>>

AnyPc == {"user", "scan", "register", "rescan", "decide", "asleep",
       "recv", "lock", "blocked"}

AnyTypeOK ==
    /\ queue \in [AnyChannel -> 0 .. AnyQueueMax]
    /\ anyClosed \in [AnyChannel -> BOOLEAN]
    /\ sinalizado \in [Event -> BOOLEAN]
    /\ anyWaiters \in [Object -> SUBSET AnyThread]
    /\ toWake \subseteq AnyThread
    /\ anyKilled \in BOOLEAN
    /\ anyPc \in [AnyThread -> AnyPc]
    /\ on \in [AnyThread -> Lists \cup {<<c>> : c \in AnyChannel} \cup {<<>>}]
    /\ k \in [AnyThread -> Nat]
    /\ deadline \in [AnyThread -> {"none", "running", "past"}]
    /\ skipped \subseteq Object
    /\ since \in [AnyThread -> SUBSET Object]
    /\ signals \in [AutoEvent -> 0 .. MaxSignals]
    /\ passes \in [AutoEvent -> Nat]
    /\ \A t \in AnyThread : anyPc[t] \in {"scan", "register", "rescan"} => k[t] \in 1 .. Len(on[t])

AnyInit ==
    /\ queue = [c \in AnyChannel |-> 0]
    /\ anyClosed = [c \in AnyChannel |-> FALSE]
    /\ sinalizado = [e \in Event |-> FALSE]
    /\ anyWaiters = [o \in Object |-> {}]
    /\ toWake = {}
    /\ anyKilled = FALSE
    /\ anyPc = [t \in AnyThread |-> "user"]
    /\ on = [t \in AnyThread |-> <<>>]
    /\ k = [t \in AnyThread |-> 1]
    /\ deadline = [t \in AnyThread |-> "none"]
    /\ skipped = {}
    /\ since = [t \in AnyThread |-> {}]
    /\ signals = [e \in AutoEvent |-> 0]
    /\ passes = [e \in AutoEvent |-> 0]

-----------------------------------------------------------------------------
\* ChannelEnd::readable, Event.sinalizado
Ready(o) == IF o \in AnyChannel THEN queue[o] > 0 \/ anyClosed[o] ELSE sinalizado[o]

InWait(t) == anyPc[t] \in {"scan", "register", "rescan", "decide", "asleep"}

AnyGoto(t, l) == anyPc' = [anyPc EXCEPT ![t] = l]

\* The call of t returns, having passed over the objects of seq s.
AnyReturn(t, s) ==
    /\ AnyGoto(t, "user")
    /\ on' = [on EXCEPT ![t] = <<>>]
    /\ k' = [k EXCEPT ![t] = 1]
    /\ deadline' = [deadline EXCEPT ![t] = "none"]
    /\ skipped' = skipped \cup (Range(s) \cap since[t])

GoOn(t, l) == AnyGoto(t, l) /\ UNCHANGED <<on, deadline, skipped>>

-----------------------------------------------------------------------------
(* wait_any_impl.                                                          *)
AnyWait(t) ==
    /\ anyPc[t] = "user"
    /\ ~ anyKilled
    /\ \E l \in Lists, d \in {"none", "running"} :
          /\ on' = [on EXCEPT ![t] = l]
          /\ deadline' = [deadline EXCEPT ![t] = d]
    /\ AnyGoto(t, "scan")
    /\ UNCHANGED <<objs, toWake, anyKilled, k, skipped, anyHist>>

\* Mutant: the signal of an automatic event is left for the next waiter.
TakeKeeps(o) ==
    /\ passes' = IF o \in AutoEvent THEN [passes EXCEPT ![o] = @ + 1] ELSE passes
    /\ UNCHANGED sinalizado

\* Event::tomar on a signalled event; a channel is left as it is.
AnyTake(o) ==
    /\ sinalizado' = IF o \in AutoEvent THEN [sinalizado EXCEPT ![o] = FALSE] ELSE sinalizado
    /\ passes' = IF o \in AutoEvent THEN [passes EXCEPT ![o] = @ + 1] ELSE passes

\* tomar_se_pronto on the next object of the list.
Scan(t, from, to) ==
    LET o == on[t][k[t]]
        last == k[t] = Len(on[t])
    IN /\ anyPc[t] = from
       /\ IF Ready(o)
            THEN AnyTake(o) /\ AnyReturn(t, SubSeq(on[t], 1, k[t] - 1))
            ELSE /\ GoOn(t, IF last THEN to ELSE from)
                 /\ k' = [k EXCEPT ![t] = IF last THEN 1 ELSE @ + 1]
                 /\ UNCHANGED <<sinalizado, passes>>
       /\ UNCHANGED <<queue, anyClosed, anyWaiters, toWake, anyKilled, signals>>

Register(t) ==
    LET last == k[t] = Len(on[t])
    IN /\ anyPc[t] = "register"
       /\ anyWaiters' = [anyWaiters EXCEPT ![on[t][k[t]]] = @ \cup {t}]
       /\ k' = [k EXCEPT ![t] = IF last THEN 1 ELSE @ + 1]
       /\ AnyGoto(t, IF last THEN "rescan" ELSE "register")
       /\ UNCHANGED <<queue, anyClosed, sinalizado, toWake, anyKilled, on, deadline, skipped, anyHist>>

\* The deadline, then the kill, then sleep_ms(10).
Decide(t) ==
    /\ anyPc[t] = "decide"
    /\ IF deadline[t] = "past" \/ anyKilled
         THEN AnyReturn(t, on[t])
         ELSE GoOn(t, "asleep") /\ UNCHANGED k
    /\ UNCHANGED <<objs, toWake, anyKilled, anyHist>>

\* The sleep of 10 ms ends.
Tick(t) ==
    /\ anyPc[t] = "asleep"
    /\ AnyGoto(t, "scan")
    /\ UNCHANGED <<objs, toWake, anyKilled, on, k, deadline, skipped, anyHist>>

Expire(t) ==
    /\ InWait(t)
    /\ deadline[t] = "running"
    /\ deadline' = [deadline EXCEPT ![t] = "past"]
    /\ UNCHANGED <<objs, toWake, anyKilled, anyPc, on, k, skipped, anyHist>>

-----------------------------------------------------------------------------
(* ChannelEnd::recv_guarded and try_recv_guarded.                          *)
Recv(t, c) ==
    /\ anyPc[t] = "user"
    /\ ~ anyKilled
    /\ on' = [on EXCEPT ![t] = <<c>>]
    /\ AnyGoto(t, "recv")
    /\ UNCHANGED <<objs, toWake, anyKilled, k, deadline, skipped, anyHist>>

AnyRecvTop(t) ==
    /\ anyPc[t] = "recv"
    /\ IF anyKilled THEN AnyReturn(t, on[t]) ELSE GoOn(t, "lock") /\ UNCHANGED k
    /\ UNCHANGED <<objs, toWake, anyKilled, anyHist>>

AnyRecvLocked(t) ==
    LET c == on[t][1]
    IN /\ anyPc[t] = "lock"
       /\ \/ /\ Ready(c)
             /\ queue' = [queue EXCEPT ![c] = IF @ > 0 THEN @ - 1 ELSE @]
             /\ AnyReturn(t, <<>>)
             /\ UNCHANGED anyWaiters
          \/ /\ ~ Ready(c)
             /\ anyWaiters' = [anyWaiters EXCEPT ![c] = @ \cup {t}]
             /\ GoOn(t, "blocked")
             /\ UNCHANGED <<queue, k>>
       /\ UNCHANGED <<anyClosed, sinalizado, toWake, anyKilled, anyHist>>

AnyTryRecv(t, c) ==
    /\ anyPc[t] = "user"
    /\ ~ anyKilled
    /\ queue[c] > 0
    /\ queue' = [queue EXCEPT ![c] = @ - 1]
    /\ UNCHANGED <<anyClosed, sinalizado, anyWaiters, toWake, anyKilled, anyPc, on, k,
                   deadline, skipped, anyHist>>

-----------------------------------------------------------------------------
(* The other side.                                                         *)
Wakes(o) ==
    /\ toWake' = toWake \cup anyWaiters[o]
    /\ anyWaiters' = [anyWaiters EXCEPT ![o] = {}]

\* ChannelEnd::send
AnySend(c) ==
    /\ ~ anyClosed[c]
    /\ queue[c] < AnyQueueMax
    /\ queue' = [queue EXCEPT ![c] = @ + 1]
    /\ Wakes(c)
    /\ UNCHANGED <<anyClosed, sinalizado, anyKilled, anyPc, on, k, deadline, skipped, anyHist>>

\* ChannelEnd::close of the peer's end.
AnyClose(c) ==
    /\ ~ anyClosed[c]
    /\ anyClosed' = [anyClosed EXCEPT ![c] = TRUE]
    /\ Wakes(c)
    /\ UNCHANGED <<queue, sinalizado, anyKilled, anyPc, on, k, deadline, skipped, anyHist>>

\* Event::sinalizar.  An automatic event pops one entry; the thread may have
\* more of them.
Signal(e) ==
    /\ IF e \in AutoEvent
         THEN /\ signals[e] < MaxSignals
              /\ signals' = [signals EXCEPT ![e] = @ + 1]
              /\ \/ anyWaiters[e] = {} /\ UNCHANGED <<anyWaiters, toWake>>
                 \/ \E t \in anyWaiters[e], more \in BOOLEAN :
                       /\ toWake' = toWake \cup {t}
                       /\ anyWaiters' = [anyWaiters EXCEPT ![e] = IF more THEN @ ELSE @ \ {t}]
         ELSE Wakes(e) /\ UNCHANGED signals
    /\ sinalizado' = [sinalizado EXCEPT ![e] = TRUE]
    /\ UNCHANGED <<queue, anyClosed, anyKilled, anyPc, on, k, deadline, skipped, passes>>

\* Event::resetar
Reset(e) ==
    /\ sinalizado[e]
    /\ sinalizado' = [sinalizado EXCEPT ![e] = FALSE]
    /\ UNCHANGED <<queue, anyClosed, anyWaiters, toWake, anyKilled, anyPc, on, k, deadline, skipped, anyHist>>

\* sched::unpark
AnyUnpark(t) ==
    /\ t \in toWake
    /\ toWake' = toWake \ {t}
    /\ anyPc' = IF anyPc[t] = "blocked" THEN [anyPc EXCEPT ![t] = "recv"] ELSE anyPc
    /\ UNCHANGED <<objs, anyKilled, on, k, deadline, skipped, anyHist>>

\* Job::kill
Kill ==
    /\ ~ anyKilled
    /\ anyKilled' = TRUE
    /\ toWake' = AnyThread
    /\ UNCHANGED <<objs, anyPc, on, k, deadline, skipped, anyHist>>

-----------------------------------------------------------------------------
Inside(t) ==
    \/ Scan(t, "scan", "register") \/ Register(t) \/ Scan(t, "rescan", "decide")
    \/ Decide(t) \/ AnyRecvTop(t) \/ AnyRecvLocked(t)

AnyCall(t) == AnyWait(t) \/ \E c \in AnyChannel : Recv(t, c) \/ AnyTryRecv(t, c)

Other ==
    \/ \E c \in AnyChannel : AnySend(c) \/ AnyClose(c)
    \/ \E e \in Event : Signal(e) \/ Reset(e)
    \/ Kill

Step ==
    \/ \E t \in AnyThread : Inside(t) \/ AnyCall(t) \/ Tick(t) \/ Expire(t) \/ AnyUnpark(t)
    \/ Other

\* since is a history variable: Step does not depend on it.
Watch ==
    since' = [t \in AnyThread |->
                IF ~ InWait(t)' THEN {}
                ELSE {o \in IF InWait(t) THEN since[t] ELSE Range(on'[t]) : Ready(o)'}]

AnyNext == Step /\ Watch

AnySpec == AnyInit /\ [][AnyNext]_anyVars

-----------------------------------------------------------------------------
\* "so uma thread passa por sinalizacao": an automatic event lets through at
\* most one wait for each time it was signalled, however the waits of several
\* threads interleave with the signals.
OnePassPerSignal ==
    \A e \in AutoEvent : passes[e] + (IF sinalizado[e] THEN 1 ELSE 0) <= signals[e]

\* The multiple wait overlooks nothing: it never times out, nor gives up for
\* a kill, past an object that was ready during the whole call, and never
\* returns an object when one before it in the list was ready all along.
NothingSkipped == skipped = {}

\* A wait passes once for a signal, and passes nothing over.
WaitsPass == OnePassPerSignal /\ NothingSkipped

\* Waiter entries that a multiple wait left behind do no harm to recv: a
\* thread blocked on a channel is on the channel's list and nothing is there
\* for it, or it is about to be unparked.
BlockedServed ==
    \A t \in AnyThread : anyPc[t] = "blocked" =>
        LET c == on[t][1]
        IN t \in toWake \/ (t \in anyWaiters[c] /\ ~ Ready(c))

\* A multiple wait with a deadline, of a killed process or on a channel whose
\* peer closed ends.
WaitEnds ==
    \A t \in AnyThread :
        (InWait(t) /\ (deadline[t] # "none" \/ anyKilled \/ \E c \in AnyChannel : anyClosed[c] /\ c \in Range(on[t])))
            ~> ~ InWait(t)

\* channel_wait_any: "o `send` do par acorda imediatamente".  A send to a
\* channel on whose list a sleeping thread is makes that thread run: it is
\* not asleep any more once the send has unparked it.
SendWakes ==
    [][\A t \in AnyThread :
          (~ anyKilled /\ anyPc[t] = "asleep" /\ t \in toWake /\ t \notin toWake') => anyPc'[t] # "asleep"]_anyVars
=============================================================================
