------------------------------ MODULE Handles ------------------------------
(***************************************************************************)
(* Channel ends moving between processes, and the collector of unreachable *)
(* ends (kernel/src/ipc.rs).  A message may carry an end: it leaves the    *)
(* sender's handle table, is in the hands of the kernel, sits in a queue,  *)
(* is in the hands of the kernel again and enters the receiver's table.    *)
(* Ends that only queued messages refer to form cycles that reference      *)
(* counting never frees; collect_unreachable marks what the tables of live *)
(* processes reach and closes the rest.  It runs on one CPU while the      *)
(* others send and receive: the InFlight guard (IPC_INFLIGHT, IPC_GEN) is  *)
(* to tell it that handles were in the kernel's hands while it marked.     *)
(*                                                                         *)
(* Every channel has two ends, which are alike.  Each process runs one     *)
(* thread.  A table is the set of ends it has handles of (duplicates are   *)
(* left out); messages carry at most one handle, and messages without one  *)
(* are left out.  dropping[a] holds the references actor a is releasing.   *)
(***************************************************************************)
EXTENDS Integers, Sequences, FiniteSets

CONSTANTS
    HtProcess,
    Chan,              \* channels
    End, ChanOf,       \* channel ends, and the channel of each
    Tables,            \* the tables to begin with, one of these
    Collector,         \* the CPU that runs collect_unreachable
    NoEnd,
    HANDLES_MAX, HtQueueMax,
    MaxGen,            \* bound: in-flight windows opened
    MaxTries           \* bound: markings begun

EndsOf(C) == {e \in End : ChanOf[e] \in C}
HtPeer(e) == CHOOSE x \in End : x # e /\ ChanOf[x] = ChanOf[e]
HtActor == HtProcess \cup {Collector}

ASSUME HandlesAssumption ==
    /\ ChanOf \in [End -> Chan]
    /\ \A c \in Chan : \E e, x \in End : e # x /\ EndsOf({c}) = {e, x}
    /\ IsFiniteSet(HtProcess)
    /\ Tables \subseteq [HtProcess -> SUBSET End]
    /\ \A tab \in Tables :
          /\ \A p, q \in HtProcess : p # q => tab[p] \cap tab[q] = {}
          /\ \A p \in HtProcess : \A e \in tab[p] : \E q \in HtProcess : HtPeer(e) \in tab[q]
    /\ Collector \notin HtProcess
    /\ NoEnd \notin End
    /\ HANDLES_MAX \in Nat /\ HtQueueMax \in Nat /\ MaxGen \in Nat
    /\ MaxTries \in Nat

VARIABLES
    created,                  \* channels created (ends in REGISTRY)
    live,                     \* process::TABLE
    table,                    \* HandleTable
    htQueues, htClosed, pinned,   \* of each end
    IPC_INFLIGHT, IPC_GEN,
    htPc, via, hand,            \* a process's call: step, end used, end moved
    dropping,
    cpc, gen0, ends, marked, work, htTodo,  \* collect_unreachable
    tries,                    \* markings begun
    raced,                    \* a window was opening when gen0 was read
    doomed                    \* ends unreachable when the marking began

ipc == <<created, live, table, htQueues, htClosed, pinned>>
calls == <<htPc, via, hand>>
coll == <<cpc, gen0, ends, marked, work, htTodo, tries, raced, doomed>>
counts == <<IPC_INFLIGHT, IPC_GEN>>
handlesVars == <<created, live, table, htQueues, htClosed, pinned, IPC_INFLIGHT, IPC_GEN,
          htPc, via, hand, dropping, cpc, gen0, ends, marked, work, htTodo, tries,
          raced, doomed>>

Carried(e) == {htQueues[e][i] : i \in DOMAIN htQueues[e]}

HandlesTypeOK ==
    /\ created \subseteq Chan
    /\ live \subseteq HtProcess
    /\ table \in [HtProcess -> SUBSET End]
    /\ htQueues \in [End -> Seq(End)]
    /\ htClosed \in [End -> BOOLEAN]
    /\ pinned \in [End -> BOOLEAN]
    /\ IPC_INFLIGHT \in 0 .. Cardinality(HtProcess)
    /\ IPC_GEN \in 0 .. MaxGen
    /\ htPc \in [HtProcess -> {"user", "open", "take", "push", "popped", "insert",
                           "leave", "create", "exit", "dead"}]
    /\ via \in [HtProcess -> End \cup {NoEnd}]
    /\ hand \in [HtProcess -> End \cup {NoEnd}]
    /\ dropping \in [HtActor -> SUBSET End]
    /\ cpc \in {"idle", "gen", "ends", "pinned", "tables", "work", "close",
               "retry", "done"}
    /\ gen0 \in 0 .. MaxGen
    /\ ends \subseteq End
    /\ marked \subseteq End
    /\ work \subseteq marked
    /\ htTodo \subseteq HtProcess
    /\ tries \in 0 .. MaxTries
    /\ raced \in BOOLEAN
    /\ doomed \subseteq End
    /\ \A p \in HtProcess : Cardinality(table[p]) <= HANDLES_MAX
    /\ \A e \in End : Len(htQueues[e]) <= HtQueueMax

HandlesInit ==
    /\ table \in Tables
    /\ created = {ChanOf[e] : e \in UNION {table[p] : p \in HtProcess}}
    /\ live = HtProcess
    /\ htQueues = [e \in End |-> <<>>]
    /\ htClosed = [e \in End |-> FALSE]
    /\ pinned = [e \in End |-> FALSE]
    /\ IPC_INFLIGHT = 0
    /\ IPC_GEN = 0
    /\ htPc = [p \in HtProcess |-> "user"]
    /\ via = [p \in HtProcess |-> NoEnd]
    /\ hand = [p \in HtProcess |-> NoEnd]
    /\ dropping = [a \in HtActor |-> {}]
    /\ cpc = "idle"
    /\ gen0 = 0
    /\ ends = {}
    /\ marked = {}
    /\ work = {}
    /\ htTodo = {}
    /\ tries = 0
    /\ raced = FALSE
    /\ doomed = {}

-----------------------------------------------------------------------------
(* Dropping references and closing ends.                                   *)

\* ChannelEnd::close by actor a: the messages in the end's queue are dropped,
\* and with them the ends they carry.
HtClose(a, e) ==
    IF htClosed[e]
      THEN dropping' = [dropping EXCEPT ![a] = @ \ {e}] /\ UNCHANGED <<htClosed, htQueues>>
      ELSE /\ htClosed' = [htClosed EXCEPT ![e] = TRUE]
           /\ htQueues' = [htQueues EXCEPT ![e] = <<>>]
           /\ dropping' = [dropping EXCEPT ![a] = (@ \cup Carried(e)) \ {e}]

\* The collector's snapshot keeps its ends alive.
HeldByCollector(e) == e \in ends

\* a releases a reference to e: the last one closes the end.
Drop(a) ==
    \E e \in dropping[a] :
        /\ IF HeldByCollector(e)
             THEN /\ dropping' = [dropping EXCEPT ![a] = @ \ {e}]
                  /\ UNCHANGED <<htClosed, htQueues>>
             ELSE HtClose(a, e)
        /\ UNCHANGED <<created, live, table, pinned, counts, calls, coll>>

HtIdle(p) == htPc[p] = "user" /\ dropping[p] = {} /\ p \in live
At(p, l) == htPc[p] = l /\ dropping[p] = {}

-----------------------------------------------------------------------------
(* System calls.                                                           *)

\* HandleTable::insert of the end p has in hand: `pinned` falls first; a full
\* table loses the handle.
Insert(p, e) ==
    /\ pinned' = [pinned EXCEPT ![e] = FALSE]
    /\ IF Cardinality(table[p]) < HANDLES_MAX
         THEN /\ table' = [table EXCEPT ![p] = @ \cup {e}]
              /\ UNCHANGED dropping
         ELSE /\ dropping' = [dropping EXCEPT ![p] = @ \cup {e}]
              /\ UNCHANGED table

\* channel_create: the pair is born pinned; the ends enter the table under
\* one hold of its lock, and if there is no room both are dropped.
ChannelCreate(p, c) ==
    /\ HtIdle(p)
    /\ c \notin created
    /\ created' = created \cup {c}
    /\ pinned' = [e \in End |-> pinned[e] \/ ChanOf[e] = c]
    /\ \E e \in EndsOf({c}) : via' = [via EXCEPT ![p] = e]
    /\ htPc' = [htPc EXCEPT ![p] = "create"]
    /\ UNCHANGED <<live, table, htQueues, htClosed, counts, hand, dropping, coll>>

InsertPair(p) ==
    LET pair == {via[p], HtPeer(via[p])}
    IN /\ At(p, "create")
       /\ pinned' = [e \in End |-> pinned[e] /\ e \notin pair]
       /\ IF Cardinality(table[p]) + 2 <= HANDLES_MAX
            THEN /\ table' = [table EXCEPT ![p] = @ \cup pair]
                 /\ UNCHANGED dropping
            ELSE /\ dropping' = [dropping EXCEPT ![p] = pair]
                 /\ UNCHANGED table
       /\ htPc' = [htPc EXCEPT ![p] = "user"]
       /\ via' = [via EXCEPT ![p] = NoEnd]
       /\ UNCHANGED <<created, live, htQueues, htClosed, counts, hand, coll>>

\* InFlight::new is two atomic increments: the generation, then the count.
\* sys_channel_send looks the end up and opens the window.
SendOpen(p, e) ==
    /\ HtIdle(p)
    /\ e \in table[p]
    /\ IPC_GEN < MaxGen
    /\ IPC_GEN' = IPC_GEN + 1
    /\ via' = [via EXCEPT ![p] = e]
    /\ htPc' = [htPc EXCEPT ![p] = "open"]
    /\ UNCHANGED <<ipc, IPC_INFLIGHT, hand, dropping, coll>>

SendCount(p) ==
    /\ At(p, "open")
    /\ IPC_INFLIGHT' = IPC_INFLIGHT + 1
    /\ htPc' = [htPc EXCEPT ![p] = "take"]
    /\ UNCHANGED <<ipc, IPC_GEN, via, hand, dropping, coll>>

\* Mutant: the handle is copied into the message and stays in the table.
TakeCopies(p) ==
    /\ At(p, "take")
    /\ \E x \in table[p] :
          /\ ChanOf[x] # ChanOf[via[p]]
          /\ hand' = [hand EXCEPT ![p] = x]
          /\ htPc' = [htPc EXCEPT ![p] = "push"]
    /\ UNCHANGED <<ipc, counts, via, dropping, coll>>

\* The handle to send is checked (it is not of the same channel) and taken
\* out of the table; a handle that does not pass ends the call.
Take(p) ==
    /\ At(p, "take")
    /\ \/ \E x \in table[p] :
             /\ ChanOf[x] # ChanOf[via[p]]
             /\ table' = [table EXCEPT ![p] = @ \ {x}]
             /\ hand' = [hand EXCEPT ![p] = x]
             /\ htPc' = [htPc EXCEPT ![p] = "push"]
       \/ htPc' = [htPc EXCEPT ![p] = "leave"] /\ UNCHANGED <<table, hand>>
    /\ UNCHANGED <<created, live, htQueues, htClosed, pinned, counts, via, dropping, coll>>

\* A thread that has popped a message holds the channel's lock until its
\* InFlight is complete.
Locked(c) == \E p \in HtProcess : htPc[p] = "popped" /\ ChanOf[via[p]] = c

\* ChannelEnd::send: on PeerClosed and QueueFull the moved handle is dropped.
HtPush(p) ==
    LET q == HtPeer(via[p])
    IN /\ At(p, "push")
       /\ ~ Locked(ChanOf[q])
       /\ IF htClosed[q] \/ Len(htQueues[q]) >= HtQueueMax
            THEN /\ dropping' = [dropping EXCEPT ![p] = {hand[p]}]
                 /\ UNCHANGED htQueues
            ELSE /\ htQueues' = [htQueues EXCEPT ![q] = Append(@, hand[p])]
                 /\ UNCHANGED dropping
       /\ hand' = [hand EXCEPT ![p] = NoEnd]
       /\ htPc' = [htPc EXCEPT ![p] = "leave"]
       /\ UNCHANGED <<created, live, table, htClosed, pinned, counts, via, coll>>

\* The InFlight guard falls and the call returns.
Leave(p) ==
    /\ At(p, "leave")
    /\ IPC_INFLIGHT' = IPC_INFLIGHT - 1
    /\ htPc' = [htPc EXCEPT ![p] = "user"]
    /\ via' = [via EXCEPT ![p] = NoEnd]
    /\ UNCHANGED <<ipc, IPC_GEN, hand, dropping, coll>>

\* try_recv_guarded / recv_guarded: pop and InFlight::new under the lock of
\* the channel.
HtPop(p, e) ==
    /\ HtIdle(p)
    /\ e \in table[p]
    /\ ~ Locked(ChanOf[e])
    /\ htQueues[e] # <<>>
    /\ IPC_GEN < MaxGen
    /\ htQueues' = [htQueues EXCEPT ![e] = Tail(@)]
    /\ hand' = [hand EXCEPT ![p] = Head(htQueues[e])]
    /\ via' = [via EXCEPT ![p] = e]
    /\ IPC_GEN' = IPC_GEN + 1
    /\ htPc' = [htPc EXCEPT ![p] = "popped"]
    /\ UNCHANGED <<created, live, table, htClosed, pinned, IPC_INFLIGHT, dropping, coll>>

PopCount(p) ==
    /\ At(p, "popped")
    /\ IPC_INFLIGHT' = IPC_INFLIGHT + 1
    /\ htPc' = [htPc EXCEPT ![p] = "insert"]
    /\ UNCHANGED <<ipc, IPC_GEN, via, hand, dropping, coll>>

\* sys_channel_recv: the handle enters the table, or is dropped with the
\* message when the table is full or the caller's buffer too small.
RecvInsert(p) ==
    /\ At(p, "insert")
    /\ \/ Insert(p, hand[p])
       \/ /\ dropping' = [dropping EXCEPT ![p] = {hand[p]}]
          /\ UNCHANGED <<table, pinned>>
    /\ hand' = [hand EXCEPT ![p] = NoEnd]
    /\ htPc' = [htPc EXCEPT ![p] = "leave"]
    /\ UNCHANGED <<created, live, htQueues, htClosed, counts, via, coll>>

HtHandleClose(p, e) ==
    /\ HtIdle(p)
    /\ e \in table[p]
    /\ table' = [table EXCEPT ![p] = @ \ {e}]
    /\ dropping' = [dropping EXCEPT ![p] = {e}]
    /\ UNCHANGED <<created, live, htQueues, htClosed, pinned, counts, calls, coll>>

\* process::exit_current: the table is dropped, then the process leaves TABLE.
HtExitCurrent(p) ==
    /\ HtIdle(p)
    /\ table' = [table EXCEPT ![p] = {}]
    /\ dropping' = [dropping EXCEPT ![p] = table[p]]
    /\ htPc' = [htPc EXCEPT ![p] = "exit"]
    /\ UNCHANGED <<created, live, htQueues, htClosed, pinned, counts, via, hand, coll>>

LeaveTable(p) ==
    /\ At(p, "exit")
    /\ live' = live \ {p}
    /\ htPc' = [htPc EXCEPT ![p] = "dead"]
    /\ UNCHANGED <<created, table, htQueues, htClosed, pinned, counts, via, hand, dropping, coll>>

-----------------------------------------------------------------------------
(* collect_unreachable.                                                    *)

\* What processes and the kernel can still get at.
Roots == (UNION {table[p] : p \in HtProcess})
           \cup {hand[p] : p \in {r \in HtProcess : hand[r] # NoEnd}}
           \cup {e \in End : pinned[e]}
Reachable ==
    LET roots == Roots
        carries == [e \in End |-> Carried(e)]
        Closed(R) == \A x \in R : carries[x] \subseteq R
    IN {e \in End : \A R \in SUBSET End : roots \subseteq R /\ Closed(R) => e \in R}

Opening == \E p \in HtProcess : htPc[p] \in {"open", "popped"}

\* The wait for IPC_INFLIGHT = 0, then the reading of IPC_GEN.
WaitIdle ==
    /\ cpc = "idle"
    /\ dropping[Collector] = {}
    /\ IPC_INFLIGHT = 0
    /\ tries < MaxTries
    /\ tries' = tries + 1
    /\ cpc' = "gen"
    /\ UNCHANGED <<ipc, counts, calls, dropping, gen0, ends, marked, work, htTodo, raced, doomed>>

ReadGen ==
    /\ cpc = "gen"
    /\ gen0' = IPC_GEN
    /\ raced' = (IPC_INFLIGHT # 0 \/ Opening)
    /\ doomed' = EndsOf(created) \ Reachable
    /\ cpc' = "ends"
    /\ UNCHANGED <<ipc, counts, calls, tries, dropping, ends, marked, work, htTodo>>

\* The registry is copied, which keeps the ends alive from here on.
Snapshot ==
    /\ cpc = "ends"
    /\ ends' = {e \in EndsOf(created) : ~ htClosed[e]}
    /\ cpc' = "pinned"
    /\ UNCHANGED <<ipc, counts, calls, tries, dropping, gen0, marked, work, htTodo, raced, doomed>>

\* Mutant: ends the kernel alone holds are not roots.
MarkNoPinned ==
    /\ cpc = "pinned"
    /\ marked' = {}
    /\ work' = {}
    /\ htTodo' = live
    /\ cpc' = "tables"
    /\ UNCHANGED <<ipc, counts, calls, tries, dropping, gen0, ends, raced, doomed>>

\* The roots: the pinned ends, then the tables of the processes alive now.
MarkPinned ==
    /\ cpc = "pinned"
    /\ marked' = {e \in ends : pinned[e]}
    /\ work' = marked'
    /\ htTodo' = live
    /\ cpc' = "tables"
    /\ UNCHANGED <<ipc, counts, calls, tries, dropping, gen0, ends, raced, doomed>>

Root(S) ==
    /\ marked' = marked \cup S
    /\ work' = work \cup (S \ marked)

MarkTable(p) ==
    /\ cpc = "tables"
    /\ p \in htTodo
    /\ Root(table[p])
    /\ htTodo' = htTodo \ {p}
    /\ cpc' = IF htTodo = {p} THEN "work" ELSE "tables"
    /\ UNCHANGED <<ipc, counts, calls, tries, dropping, gen0, ends, raced, doomed>>

NoTables ==
    /\ cpc = "tables"
    /\ htTodo = {}
    /\ cpc' = "work"
    /\ UNCHANGED <<ipc, counts, calls, tries, dropping, gen0, ends, marked, work, htTodo, raced, doomed>>

\* Mutant: the peer of a marked end is marked with it.
TraverseBoth ==
    /\ cpc = "work"
    /\ \E e \in work :
          LET S == Carried(e) \cup {HtPeer(e)}
          IN /\ ~ Locked(ChanOf[e])
             /\ marked' = marked \cup S
             /\ work' = (work \ {e}) \cup (S \ marked)
    /\ UNCHANGED <<ipc, counts, calls, tries, dropping, cpc, gen0, ends, htTodo, raced, doomed>>

\* The queue of a marked end is read under its channel's lock.
Traverse ==
    /\ cpc = "work"
    /\ \E e \in work :
          /\ ~ Locked(ChanOf[e])
          /\ marked' = marked \cup Carried(e)
          /\ work' = (work \ {e}) \cup (Carried(e) \ marked)
    /\ UNCHANGED <<ipc, counts, calls, tries, dropping, cpc, gen0, ends, htTodo, raced, doomed>>

\* A window that opened during the marking makes it worthless.
Validate ==
    /\ cpc = "work"
    /\ work = {}
    /\ cpc' = IF IPC_INFLIGHT # 0 \/ IPC_GEN # gen0 THEN "retry" ELSE "close"
    /\ UNCHANGED <<ipc, counts, calls, tries, dropping, gen0, ends, marked, work, htTodo, raced, doomed>>

Unmarked == {e \in ends \ marked : ~ htClosed[e]}

CloseUnmarked ==
    /\ cpc = "close"
    /\ dropping[Collector] = {}
    /\ \/ /\ \E e \in Unmarked : HtClose(Collector, e)
          /\ UNCHANGED cpc
       \/ /\ Unmarked = {}
          /\ cpc' = "done"
          /\ UNCHANGED <<htClosed, htQueues, dropping>>
    /\ UNCHANGED <<created, live, table, pinned, counts, calls, tries, gen0, ends,
                   marked, work, htTodo, raced, doomed>>

\* The snapshot is dropped; ends without another reference close now.
Referenced(e) ==
    \/ e \in Roots
    \/ \E x \in End : e \in Carried(x)
    \/ \E a \in HtProcess : e \in dropping[a]

Release ==
    /\ cpc \in {"retry", "done"}
    /\ dropping' = [dropping EXCEPT ![Collector] = {e \in ends : ~ Referenced(e)}]
    /\ cpc' = "idle"
    /\ ends' = {}
    /\ marked' = {}
    /\ gen0' = 0
    /\ raced' = FALSE
    /\ doomed' = {}
    /\ UNCHANGED <<ipc, counts, calls, tries, work, htTodo>>

ProcessStep(p) ==
    \/ InsertPair(p) \/ SendCount(p) \/ Take(p) \/ HtPush(p) \/ Leave(p)
    \/ PopCount(p) \/ RecvInsert(p) \/ LeaveTable(p)
    \/ HtExitCurrent(p)
    \/ \E c \in Chan : ChannelCreate(p, c)
    \/ \E e \in End : SendOpen(p, e) \/ HtPop(p, e) \/ HtHandleClose(p, e)

CollectorStep ==
    \/ WaitIdle \/ ReadGen \/ Snapshot \/ MarkPinned \/ NoTables \/ Traverse
    \/ Validate \/ CloseUnmarked \/ Release
    \/ \E p \in HtProcess : MarkTable(p)

HandlesNext ==
    \/ \E a \in HtActor : Drop(a)
    \/ \E p \in HtProcess : ProcessStep(p)
    \/ CollectorStep

HandlesSpec == HandlesInit /\ [][HandlesNext]_handlesVars

-----------------------------------------------------------------------------
\* Handles move, they are never copied or lost on the way: an open end is in
\* one table, in one queue, in the hands of one call or being dropped, and in
\* one of these only.
Places(e) ==
    ({"table"} \X {p \in HtProcess : e \in table[p]})
      \cup ({"hand"} \X {p \in HtProcess : hand[p] = e})
      \cup ({"queue"} \X {x \in End : e \in Carried(x)})
      \cup ({"drop"} \X {a \in HtActor : e \in dropping[a]})

MovedOnce ==
    \A e \in EndsOf(created) :
        /\ \A x, y \in Places(e) : x = y
        /\ pinned[e] => Places(e) = {}
        /\ ~ htClosed[e] => Places(e) # {} \/ pinned[e] \/ HeldByCollector(e)

\* IPC_INFLIGHT counts the calls inside their window, so no handle is in the
\* kernel's hands with the count at zero, but for a call that has not yet
\* completed InFlight::new (and holds the lock of the channel it popped from).
WindowCovers ==
    /\ IPC_INFLIGHT = Cardinality({p \in HtProcess : htPc[p] \in {"take", "push", "insert", "leave"}})
    /\ \A p \in HtProcess : hand[p] # NoEnd => IPC_INFLIGHT > 0 \/ htPc[p] = "popped"

\* An end closes only when neither a process nor the kernel can reach it any
\* more, provided no window was being opened when the collector read IPC_GEN.
OnlyUnreachableClosed ==
    [][htClosed' # htClosed /\ ~ raced =>
         \A e \in Reachable : htClosed'[e] = htClosed[e]]_handlesVars

\* A collection that is not called off closes every end that was unreachable
\* when it started, cycles included.
GarbageClosed == cpc = "done" => \A e \in doomed : htClosed[e]

\* A handle on the move is in one place and the collector is told of it; what
\* it collects is all that was unreachable.
HandlesHeld == MovedOnce /\ WindowCovers /\ GarbageClosed

\* "sem esta guarda, um collect_unreachable concorrente fecharia pontas vivas":
\* an end that a process or the kernel can still reach is open.
LiveEndsOpen == \A e \in Reachable : ~ htClosed[e]
=============================================================================
