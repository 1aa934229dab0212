------------------------------ MODULE Channel ------------------------------
(***************************************************************************)
(* One kernel channel (kernel/src/ipc.rs) and the threads of the two       *)
(* processes that hold its ends: blocking and non-blocking receive, send,  *)
(* closing a handle, process exit and the killing of a process by its job. *)
(*                                                                         *)
(* The channel's lock protects queues, closed and waiters.  Every wake-up  *)
(* happens after that lock is released, one thread at a time: between the  *)
(* two, the threads to wake are in list[a], in the hands of actor a.       *)
(* An end closes when the last reference to it is dropped: the handle in   *)
(* its process's table, or the copy a thread holds while inside a system   *)
(* call.  The collector of unreachable ends (collect_unreachable) looks at *)
(* tables only and may close an end a thread still holds.                  *)
(***************************************************************************)
EXTENDS Integers, Sequences, FiniteSets

CONSTANTS
    ChThread,          \* user threads
    SideOf,            \* the side whose process a thread belongs to
    Job,               \* the actor that runs Job::kill
    JobSide,           \* the side whose process is a member of the job
    CHANNEL_QUEUE_MAX, \* messages a queue holds
    MaxSent            \* bound: messages sent towards a side

Side == {0, 1}
Peer(s) == 1 - s
Actor == ChThread \cup {Job}

ASSUME ChannelAssumption ==
    /\ SideOf \in [ChThread -> Side]
    /\ Job \notin ChThread
    /\ JobSide \in Side
    /\ CHANNEL_QUEUE_MAX \in Nat \ {0}
    /\ MaxSent \in Nat

VARIABLES
    queues, closed,  chWaiters, \* ChannelInner
    handle,                  \* the side's handle is in its process's table
    killed, exited,          \* Process.killed, Process.exited, by side
    chPc, list, cont,        \* where an actor is, whom it still has to wake,
                             \* and where it goes after that
    sent, rcvd,              \* messages pushed towards / popped by a side
    eof,                     \* a receive of the side said PeerClosed
    collected                \* the end was closed by the collector

chan == <<queues, closed, chWaiters>>
hist == <<sent, rcvd, eof>>
channelVars == <<queues, closed, chWaiters, handle, killed, exited, chPc, list, cont,
          sent, rcvd, eof, collected>>

ThreadPc == {"user", "top", "lock", "blocked", "try", "send", "drop",
             "table", "collect", "wake", "dead"}
JobPc == {"idle", "table", "collect", "unpark", "wake", "done"}

ChannelTypeOK ==
    /\ queues \in [Side -> Seq(1 .. MaxSent)]
    /\ closed \in [Side -> BOOLEAN]
    /\ chWaiters \in [Side -> SUBSET ChThread]
    /\ handle \in [Side -> BOOLEAN]
    /\ killed \in [Side -> BOOLEAN]
    /\ exited \in [Side -> BOOLEAN]
    /\ chPc \in [Actor -> ThreadPc \cup JobPc]
    /\ list \in [Actor -> SUBSET ChThread]
    /\ cont \in [Actor -> ThreadPc \cup JobPc]
    /\ sent \in [Side -> 0 .. MaxSent]
    /\ rcvd \in [Side -> 0 .. MaxSent]
    /\ eof \in [Side -> BOOLEAN]
    /\ collected \in [Side -> BOOLEAN]
    /\ \A s \in Side : Len(queues[s]) <= CHANNEL_QUEUE_MAX

ChannelInit ==
    /\ queues = [s \in Side |-> <<>>]
    /\ closed = [s \in Side |-> FALSE]
    /\ chWaiters = [s \in Side |-> {}]
    /\ handle = [s \in Side |-> TRUE]
    /\ killed = [s \in Side |-> FALSE]
    /\ exited = [s \in Side |-> FALSE]
    /\ chPc = [a \in Actor |-> IF a = Job THEN "idle" ELSE "user"]
    /\ list = [a \in Actor |-> {}]
    /\ cont = [a \in Actor |-> "user"]
    /\ sent = [s \in Side |-> 0]
    /\ rcvd = [s \in Side |-> 0]
    /\ eof = [s \in Side |-> FALSE]
    /\ collected = [s \in Side |-> FALSE]

-----------------------------------------------------------------------------
(* References to an end, wake-ups and closing.                             *)

\* t holds a copy of its end's Arc, inside a system call.
Holds(t) ==
    \/ chPc[t] \in {"top", "lock", "blocked", "try", "send", "drop"}
    \/ chPc[t] = "wake" /\ cont[t] = "drop"

Sending(s) == Cardinality({t \in ChThread : SideOf[t] = s /\ chPc[t] = "send"})

\* a goes on to k, after having woken the threads of W one by one.
WakeThen(a, W, k) ==
    /\ chPc' = [chPc EXCEPT ![a] = IF W = {} THEN k ELSE "wake"]
    /\ list' = [list EXCEPT ![a] = W]
    /\ cont' = [cont EXCEPT ![a] = IF W = {} THEN "user" ELSE k]

Goto(a, k) ==
    /\ chPc' = [chPc EXCEPT ![a] = k]
    /\ UNCHANGED <<list, cont>>

\* sched::unpark: a thread that is not blocked is left alone.
ChUnpark(w, b, k) ==
    [chPc EXCEPT ![w] = IF @ = "blocked" THEN "top" ELSE @, ![b] = k]

Wake(a) ==
    /\ chPc[a] = "wake"
    /\ \E w \in list[a] :
          /\ list' = [list EXCEPT ![a] = @ \ {w}]
          /\ chPc' = ChUnpark(w, a, IF list[a] = {w} THEN cont[a] ELSE "wake")
          /\ cont' = [cont EXCEPT ![a] = IF list[a] = {w} THEN "user" ELSE @]
    /\ UNCHANGED <<chan, handle, killed, exited, hist, collected>>

\* Mutant: the waiters of the closing side are woken instead of the peer's.
CloseWrongSide(a, s, k) ==
    IF closed[s]
      THEN Goto(a, k) /\ UNCHANGED chan
      ELSE /\ closed' = [closed EXCEPT ![s] = TRUE]
           /\ queues' = [queues EXCEPT ![s] = <<>>]
           /\ chWaiters' = [chWaiters EXCEPT ![s] = {}]
           /\ WakeThen(a, chWaiters[s], k)

\* ChannelEnd::close, by actor a, which goes on to k.  The side's own
\* waiters stay.
Close(a, s, k) ==
    IF closed[s]
      THEN Goto(a, k) /\ UNCHANGED chan
      ELSE /\ closed' = [closed EXCEPT ![s] = TRUE]
           /\ queues' = [queues EXCEPT ![s] = <<>>]
           /\ chWaiters' = [chWaiters EXCEPT ![Peer(s)] = {}]
           /\ WakeThen(a, chWaiters[Peer(s)], k)

\* Actor a drops a reference to the end; the last one closes it.
DropRef(a, s, inTable, k) ==
    IF inTable \/ \E t \in ChThread \ {a} : SideOf[t] = s /\ Holds(t)
      THEN Goto(a, k) /\ UNCHANGED chan
      ELSE Close(a, s, k)

-----------------------------------------------------------------------------
(* System calls of a thread.                                               *)

\* dispatch: the handle is looked up in the table and the end's Arc cloned.
\* (Bound: no more than MaxSent messages are sent towards a side.)
Syscall(t, k) ==
    /\ chPc[t] = "user"
    /\ k = "send" => sent[Peer(SideOf[t])] + Sending(SideOf[t]) < MaxSent
    /\ ~ killed[SideOf[t]]
    /\ handle[SideOf[t]]
    /\ Goto(t, k)
    /\ UNCHANGED <<chan, handle, killed, exited, hist, collected>>

\* recv_guarded, top of the loop: the test of `killed`, outside the lock.
RecvTop(t) ==
    /\ chPc[t] = "top"
    /\ Goto(t, IF killed[SideOf[t]] THEN "drop" ELSE "lock")
    /\ UNCHANGED <<chan, handle, killed, exited, hist, collected>>

\* The queue of side s loses its head.
Pop(s) ==
    /\ queues' = [queues EXCEPT ![s] = Tail(@)]
    /\ rcvd' = [rcvd EXCEPT ![s] = Head(queues[s])]

RegisterAndPark(t) ==
    /\ chWaiters' = [chWaiters EXCEPT ![SideOf[t]] = @ \cup {t}]
    /\ Goto(t, "blocked")
    /\ UNCHANGED <<queues, rcvd, eof>>

EndOfQueue(t) ==
    /\ eof' = [eof EXCEPT ![SideOf[t]] = TRUE]
    /\ Goto(t, "drop")
    /\ UNCHANGED <<queues, chWaiters, rcvd>>

\* Mutant: the peer's state is looked at before the queue.
RecvClosedFirst(t) ==
    LET s == SideOf[t]
    IN /\ chPc[t] = "lock"
       /\ \/ closed[Peer(s)] /\ EndOfQueue(t)
          \/ ~ closed[Peer(s)] /\ queues[s] # <<>> /\ Pop(s)
               /\ Goto(t, "drop") /\ UNCHANGED <<chWaiters, eof>>
          \/ ~ closed[Peer(s)] /\ queues[s] = <<>> /\ RegisterAndPark(t)
       /\ UNCHANGED <<closed, handle, killed, exited, sent, collected>>

\* recv_guarded under the channel's lock: pop, PeerClosed, or register and
\* park (park_with releases the lock with the thread already Blocked).
RecvLocked(t) ==
    LET s == SideOf[t]
    IN /\ chPc[t] = "lock"
       /\ \/ queues[s] # <<>> /\ Pop(s) /\ Goto(t, "drop") /\ UNCHANGED <<chWaiters, eof>>
          \/ queues[s] = <<>> /\ closed[Peer(s)] /\ EndOfQueue(t)
          \/ queues[s] = <<>> /\ ~ closed[Peer(s)] /\ RegisterAndPark(t)
       /\ UNCHANGED <<closed, handle, killed, exited, sent, collected>>

\* try_recv_guarded.
TryRecv(t) ==
    LET s == SideOf[t]
    IN /\ chPc[t] = "try"
       /\ \/ queues[s] # <<>> /\ Pop(s) /\ Goto(t, "drop") /\ UNCHANGED <<chWaiters, eof>>
          \/ queues[s] = <<>> /\ closed[Peer(s)] /\ EndOfQueue(t)
          \/ queues[s] = <<>> /\ ~ closed[Peer(s)]
               /\ Goto(t, "drop") /\ UNCHANGED <<queues, chWaiters, rcvd, eof>>
       /\ UNCHANGED <<closed, handle, killed, exited, sent, collected>>

\* A message is queued towards side p and the threads of W are to be woken.
Push(t, p, W) ==
    /\ sent' = [sent EXCEPT ![p] = @ + 1]
    /\ queues' = [queues EXCEPT ![p] = Append(@, sent[p] + 1)]
    /\ chWaiters' = [chWaiters EXCEPT ![p] = {}]
    /\ WakeThen(t, W, "drop")

\* Mutant: one waiter is woken, the others are forgotten.
SendWakesOne(t) ==
    LET p == Peer(SideOf[t])
    IN /\ chPc[t] = "send"
       /\ ~ closed[p]
       /\ Len(queues[p]) < CHANNEL_QUEUE_MAX
       /\ Push(t, p, IF chWaiters[p] = {} THEN {} ELSE {CHOOSE w \in chWaiters[p] : TRUE})
       /\ UNCHANGED <<closed, handle, killed, exited, rcvd, eof, collected>>

\* ChannelEnd::send: PeerClosed and QueueFull leave the channel alone;
\* otherwise the message is queued and all waiters of the peer are taken.
Send(t) ==
    LET p == Peer(SideOf[t])
    IN /\ chPc[t] = "send"
       /\ \/ /\ closed[p] \/ Len(queues[p]) >= CHANNEL_QUEUE_MAX
             /\ Goto(t, "drop")
             /\ UNCHANGED <<queues, chWaiters, sent>>
          \/ /\ ~ closed[p]
             /\ Len(queues[p]) < CHANNEL_QUEUE_MAX
             /\ Push(t, p, chWaiters[p])
       /\ UNCHANGED <<closed, handle, killed, exited, rcvd, eof, collected>>

\* The system call returns: its copy of the end is dropped.
Return(t) ==
    /\ chPc[t] = "drop"
    /\ DropRef(t, SideOf[t], handle[SideOf[t]], "user")
    /\ UNCHANGED <<handle, killed, exited, hist, collected>>

\* handle_close: the handle leaves the table and is dropped.
HandleClose(t) ==
    /\ chPc[t] = "user"
    /\ ~ killed[SideOf[t]]
    /\ handle[SideOf[t]]
    /\ handle' = [handle EXCEPT ![SideOf[t]] = FALSE]
    /\ DropRef(t, SideOf[t], FALSE, "user")
    /\ UNCHANGED <<killed, exited, hist, collected>>

-----------------------------------------------------------------------------
(* Exit of a process and Job::kill.                                        *)

\* The collector closes the ends no table holds (or gives up, when calls
\* are in flight), waking each end's peer, and its caller goes on to k.
CollectUnreachable(a, k) ==
    /\ chPc[a] = "collect"
    /\ \/ Goto(a, k) /\ UNCHANGED <<chan, collected>>
       \/ \E s \in Side :
             /\ ~ handle[s] /\ ~ closed[s]
             /\ collected' = [collected EXCEPT ![s] = TRUE]
             /\ Close(a, s, "collect")
    /\ UNCHANGED <<handle, killed, exited, hist>>

\* process::exit_current: the first thread to come marks the process killed
\* and wakes its other threads; a later one only dies.
ChExitCurrent(t) ==
    LET s == SideOf[t]
    IN /\ chPc[t] = "user"
       /\ \/ /\ exited[s]
             /\ Goto(t, "dead")
             /\ UNCHANGED <<killed, exited>>
          \/ /\ ~ exited[s]
             /\ exited' = [exited EXCEPT ![s] = TRUE]
             /\ killed' = [killed EXCEPT ![s] = TRUE]
             /\ WakeThen(t, {u \in ChThread \ {t} : SideOf[u] = s}, "table")
       /\ UNCHANGED <<chan, handle, hist, collected>>

\* The process's table is taken and dropped.
TakeTable(a, s) ==
    /\ chPc[a] = "table"
    /\ handle' = [handle EXCEPT ![s] = FALSE]
    /\ IF handle[s] THEN DropRef(a, s, FALSE, "collect")
                    ELSE Goto(a, "collect") /\ UNCHANGED chan
    /\ UNCHANGED <<killed, exited, hist, collected>>

\* Job::kill, one member: nothing happens if it exited or is already killed.
KillMember ==
    /\ chPc[Job] = "idle"
    /\ IF exited[JobSide] \/ killed[JobSide]
         THEN Goto(Job, "done") /\ UNCHANGED killed
         ELSE Goto(Job, "table") /\ killed' = [killed EXCEPT ![JobSide] = TRUE]
    /\ UNCHANGED <<chan, handle, exited, hist, collected>>

KillUnpark ==
    /\ chPc[Job] = "unpark"
    /\ WakeThen(Job, {t \in ChThread : SideOf[t] = JobSide}, "done")
    /\ UNCHANGED <<chan, handle, killed, exited, hist, collected>>

ThreadStep(t) ==
    \/ RecvTop(t) \/ RecvLocked(t) \/ TryRecv(t) \/ Send(t) \/ Return(t)
    \/ Wake(t) \/ TakeTable(t, SideOf[t]) \/ CollectUnreachable(t, "dead")
    \/ killed[SideOf[t]] /\ ChExitCurrent(t)

Call(t) ==
    \/ Syscall(t, "top") \/ Syscall(t, "try") \/ Syscall(t, "send")
    \/ HandleClose(t)
    \/ ~ killed[SideOf[t]] /\ ChExitCurrent(t)

JobStep ==
    \/ Wake(Job) \/ TakeTable(Job, JobSide)
    \/ CollectUnreachable(Job, "unpark") \/ KillUnpark

ChannelNext == KillMember \/ JobStep \/ \E t \in ChThread : ThreadStep(t) \/ Call(t)

ChannelSpec == ChannelInit /\ [][ChannelNext]_channelVars

-----------------------------------------------------------------------------
\* No lost wake-up in send and close: a thread blocked in recv is registered
\* or in the hands of somebody who is about to wake it; and threads stay
\* registered only while the queue is empty and the peer open.
WaitersServed ==
    \A t \in ChThread :
        LET s == SideOf[t]
        IN /\ chPc[t] = "blocked" =>
                 t \in chWaiters[s] \/ \E a \in Actor : t \in list[a]
           /\ t \in chWaiters[s] => queues[s] = <<>> /\ ~ closed[Peer(s)]

\* A receive says PeerClosed only when nothing is left and nothing can come:
\* all that was sent to the side has been received, in order.  (Unless the
\* collector closed the peer under a thread that was about to send.)
EndOfStream ==
    \A s \in Side :
        /\ eof[s] /\ ~ collected[Peer(s)] /\ ~ closed[s] => rcvd[s] = sent[s]
        /\ ~ closed[s] => queues[s] = [i \in 1 .. sent[s] - rcvd[s] |-> rcvd[s] + i]

\* An end is closed exactly when no table and no thread holds it, or when the
\* collector closed it; in particular close never happens under a live handle.
ClosedWhenDropped ==
    \A s \in Side :
        /\ closed[s] => ~ handle[s]
        /\ closed[s] /\ ~ collected[s] =>
              \A t \in ChThread : SideOf[t] = s => ~ Holds(t)
        /\ ~ handle[s] /\ (\A t \in ChThread : SideOf[t] = s => ~ Holds(t))
              => closed[s]

\* An end closes when its last holder is gone, not before, and its peer reads
\* everything before it learns of it.
StreamEnds == EndOfStream /\ ClosedWhenDropped

\* A thread blocked in recv is released once there is a message for its side
\* or the peer is closed (send and close wake all the waiters they take).
BlockedReleased ==
    \A t \in ChThread :
        (chPc[t] = "blocked" /\ (queues[SideOf[t]] # <<>> \/ closed[Peer(SideOf[t])]))
            ~> chPc[t] # "blocked"

\* Job::kill: "cada membro sai com EXIT_KILLED na proxima syscall ou ao
\* acordar de uma espera": a blocked thread of a killed process is released.
KilledReleased ==
    \A t \in ChThread :
        (chPc[t] = "blocked" /\ killed[SideOf[t]]) ~> chPc[t] # "blocked"
=============================================================================
