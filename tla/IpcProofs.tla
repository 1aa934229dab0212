----------------------------- MODULE IpcProofs -----------------------------
(***************************************************************************)
(* Communication between threads.  The channel (Channel), for any number   *)
(* of threads on its two sides, any depth of its queues and any number of  *)
(* messages: no wake-up is lost, an end is closed exactly when nobody      *)
(* holds it (or by the collector), and the peer reads all that was sent,   *)
(* in order, before it hears of the close.  The multiple wait (WaitAny),   *)
(* for any number of channels and events.                                  *)
(***************************************************************************)
EXTENDS Channel, WaitAny, TLAPS

-----------------------------------------------------------------------------
(* The channel.                                                            *)

ChTypes ==
    /\ DOMAIN queues = Side
    /\ closed \in [Side -> BOOLEAN]
    /\ chWaiters \in [Side -> SUBSET ChThread]
    /\ handle \in [Side -> BOOLEAN]
    /\ chPc \in [Actor -> ThreadPc \cup JobPc]
    /\ list \in [Actor -> SUBSET ChThread]
    /\ cont \in [Actor -> ThreadPc \cup JobPc]
    /\ collected \in [Side -> BOOLEAN]

\* Somebody has threads to wake only while it is waking, and then goes on to
\* something else.
ListsInUse ==
    \A a \in Actor : /\ chPc[a] # "wake" => list[a] = {}
                     /\ cont[a] \notin {"wake", "blocked"}

ChInv == ChTypes /\ ListsInUse /\ WaitersServed

-----------------------------------------------------------------------------
\* Sides, and the actors that are threads.
LEMMA SideFacts ==
    /\ \A s \in Side : Peer(s) \in Side /\ Peer(s) # s /\ Peer(Peer(s)) = s
    /\ \A s, r \in Side : s # r => r = Peer(s)
    /\ \A t \in ChThread : t \in Actor /\ SideOf[t] \in Side /\ t # Job
    /\ Job \in Actor /\ JobSide \in Side
BY ChannelAssumption DEF Side, Peer, Actor

\* The waiters of a side go to the list of an actor that was not waking.
LEMMA WakeThenServes ==
    ASSUME ChInv, NEW a \in Actor, NEW p \in Side, NEW c \in ThreadPc \cup JobPc,
           chPc[a] \notin {"wake", "blocked"}, c \notin {"wake", "blocked"},
           WakeThen(a, chWaiters[p], c),
           chWaiters' = [chWaiters EXCEPT ![p] = {}],
           DOMAIN queues' = Side, closed' \in [Side -> BOOLEAN],
           \A s \in Side \ {p} : /\ queues'[s] = queues[s] \/ queues'[s] = <<>>
                                 /\ closed'[Peer(s)] = closed[Peer(s)],
           handle' \in [Side -> BOOLEAN], collected' \in [Side -> BOOLEAN]
    PROVE  ChInv'
<1> USE SideFacts
<1> DEFINE W == chWaiters[p]
<1>1. /\ chPc' = [chPc EXCEPT ![a] = IF W = {} THEN c ELSE "wake"]
      /\ list' = [list EXCEPT ![a] = W]
      /\ cont' = [cont EXCEPT ![a] = IF W = {} THEN "user" ELSE c]
      /\ W \in SUBSET ChThread
  BY DEF WakeThen, ChInv, ChTypes
<1> HIDE DEF W
<1>2. "user" \in ThreadPc /\ "wake" \in ThreadPc
  BY DEF ThreadPc
<1>3. ChTypes'
  BY <1>1, <1>2, Zenon DEF ChInv, ChTypes
<1>4. ListsInUse'
  BY <1>1 DEF ChInv, ChTypes, ListsInUse
<1>5. WaitersServed'
  <2> SUFFICES ASSUME NEW t \in ChThread
               PROVE  /\ chPc'[t] = "blocked" =>
                           t \in chWaiters'[SideOf[t]] \/ \E b \in Actor : t \in list'[b]
                      /\ t \in chWaiters'[SideOf[t]] =>
                           queues'[SideOf[t]] = <<>> /\ ~ closed'[Peer(SideOf[t])]
    BY DEF WaitersServed
  <2>1. ASSUME chPc'[t] = "blocked"
        PROVE  t \in chWaiters'[SideOf[t]] \/ \E b \in Actor : t \in list'[b]
    <3>1. t # a /\ chPc[t] = "blocked"
      BY <1>1, <2>1 DEF ChInv, ChTypes
    <3>2. CASE t \in chWaiters[SideOf[t]]
      <4>1. CASE SideOf[t] = p
        BY <1>1, <3>2, <4>1 DEF W, ChInv, ChTypes
      <4>2. CASE SideOf[t] # p
        BY <3>2, <4>2 DEF ChInv, ChTypes
      <4> QED
        BY <4>1, <4>2
    <3>3. ASSUME NEW b \in Actor, t \in list[b]
          PROVE  t \in list'[b]
      BY <1>1, <3>3 DEF ChInv, ChTypes, ListsInUse
    <3> QED
      BY <3>1, <3>2, <3>3 DEF ChInv, WaitersServed
  <2>2. ASSUME t \in chWaiters'[SideOf[t]]
        PROVE  queues'[SideOf[t]] = <<>> /\ ~ closed'[Peer(SideOf[t])]
    <3>1. SideOf[t] # p /\ t \in chWaiters[SideOf[t]]
      BY <2>2 DEF ChInv, ChTypes
    <3> QED
      BY <3>1 DEF ChInv, WaitersServed
  <2> QED
    BY <2>1, <2>2
<1> QED
  BY <1>3, <1>4, <1>5 DEF ChInv

\* A step that neither blocks nor wakes, and adds no waiter.
LEMMA GotoServes ==
    ASSUME ChInv, NEW a \in Actor, NEW c \in ThreadPc \cup JobPc,
           chPc[a] # "wake", c \notin {"wake", "blocked"}, Goto(a, c),
           UNCHANGED <<chWaiters, closed>>, DOMAIN queues' = Side,
           \A s \in Side : queues[s] = <<>> => queues'[s] = <<>>,
           handle' \in [Side -> BOOLEAN], collected' \in [Side -> BOOLEAN]
    PROVE  ChInv'
<1> USE SideFacts
<1>1. chPc' = [chPc EXCEPT ![a] = c] /\ list' = list /\ cont' = cont
  BY DEF Goto
<1>2. ChTypes'
  BY <1>1 DEF ChInv, ChTypes
<1>3. ListsInUse'
  BY <1>1 DEF ChInv, ChTypes, ListsInUse
<1>4. WaitersServed'
  BY <1>1 DEF ChInv, ChTypes, WaitersServed
<1> QED
  BY <1>2, <1>3, <1>4 DEF ChInv

\* Threads of a process are woken because it ends; nobody is registered or
\* taken from a list.
LEMMA WakeAllServes ==
    ASSUME ChInv, NEW a \in Actor, NEW W \in SUBSET ChThread, NEW c \in ThreadPc \cup JobPc,
           chPc[a] # "wake", c \notin {"wake", "blocked"}, WakeThen(a, W, c),
           UNCHANGED <<chan, handle, collected>>
    PROVE  ChInv'
<1> USE SideFacts
<1>1. /\ chPc' = [chPc EXCEPT ![a] = IF W = {} THEN c ELSE "wake"]
      /\ list' = [list EXCEPT ![a] = W]
      /\ cont' = [cont EXCEPT ![a] = IF W = {} THEN "user" ELSE c]
      /\ UNCHANGED <<queues, closed, chWaiters, handle, collected>>
  BY DEF WakeThen, chan
<1>2. "user" \in ThreadPc /\ "wake" \in ThreadPc
  BY DEF ThreadPc
<1>3. ChTypes'
  BY <1>1, <1>2 DEF ChInv, ChTypes
<1>4. ListsInUse'
  BY <1>1 DEF ChInv, ChTypes, ListsInUse
<1>5. \A t \in ChThread : \A b \in Actor : t \in list[b] => t \in list'[b]
  BY <1>1 DEF ChInv, ChTypes, ListsInUse
<1>6. \A t \in ChThread : chPc'[t] = "blocked" => chPc[t] = "blocked"
  BY <1>1 DEF ChInv, ChTypes
<1>7. WaitersServed'
  BY <1>1, <1>5, <1>6 DEF ChInv, WaitersServed
<1> QED
  BY <1>3, <1>4, <1>7 DEF ChInv

\* ChannelEnd::close keeps ChInv.
LEMMA CloseServes ==
    ASSUME ChInv, NEW a \in Actor, NEW s \in Side, NEW c \in ThreadPc \cup JobPc,
           chPc[a] \notin {"wake", "blocked"}, c \notin {"wake", "blocked"}, Close(a, s, c),
           handle' \in [Side -> BOOLEAN], collected' \in [Side -> BOOLEAN]
    PROVE  ChInv'
<1>1. CASE closed[s]
  <2>1. Goto(a, c) /\ UNCHANGED <<queues, closed, chWaiters>>
    BY <1>1 DEF Close, chan
  <2> QED
    BY <2>1, GotoServes DEF ChInv, ChTypes
<1>2. CASE ~ closed[s]
  <2> DEFINE p == Peer(s)
  <2>1. /\ closed' = [closed EXCEPT ![s] = TRUE]
        /\ queues' = [queues EXCEPT ![s] = <<>>]
        /\ chWaiters' = [chWaiters EXCEPT ![p] = {}]
        /\ WakeThen(a, chWaiters[p], c)
    BY <1>2 DEF Close
  <2>2. DOMAIN queues' = Side /\ closed' \in [Side -> BOOLEAN]
    BY <2>1 DEF ChInv, ChTypes
  <2>3. \A r \in Side \ {p} : /\ queues'[r] = queues[r] \/ queues'[r] = <<>>
                              /\ closed'[Peer(r)] = closed[Peer(r)]
    BY <2>1, SideFacts, Zenon DEF ChInv, ChTypes
  <2>4. p \in Side
    BY SideFacts
  <2> HIDE DEF p
  <2> QED
    BY <2>1, <2>2, <2>3, <2>4, WakeThenServes, ZenonT(30)
<1> QED
  BY <1>1, <1>2

\* So does the drop of a reference.
LEMMA DropServes ==
    ASSUME ChInv, NEW a \in Actor, NEW s \in Side, NEW i, NEW c \in ThreadPc \cup JobPc,
           chPc[a] \notin {"wake", "blocked"}, c \notin {"wake", "blocked"}, DropRef(a, s, i, c),
           handle' \in [Side -> BOOLEAN], collected' \in [Side -> BOOLEAN]
    PROVE  ChInv'
<1>1. CASE Goto(a, c) /\ UNCHANGED chan
  BY <1>1, GotoServes DEF chan, ChInv, ChTypes
<1>2. CASE Close(a, s, c)
  BY <1>2, CloseServes
<1> QED
  BY <1>1, <1>2 DEF DropRef

\* An unpark keeps ChInv: a thread that leaves a list is not blocked any more.
LEMMA WakeServes ==
    ASSUME ChInv, NEW a \in Actor, Wake(a)
    PROVE  ChInv'
<1> USE SideFacts
<1>1. PICK w \in list[a] :
        /\ list' = [list EXCEPT ![a] = @ \ {w}]
        /\ chPc' = ChUnpark(w, a, IF list[a] = {w} THEN cont[a] ELSE "wake")
        /\ cont' = [cont EXCEPT ![a] = IF list[a] = {w} THEN "user" ELSE @]
  BY Zenon DEF Wake
<1>2. /\ chPc[a] = "wake" /\ w \in ChThread /\ w \in Actor
      /\ UNCHANGED <<queues, closed, chWaiters, handle, collected>>
  BY DEF Wake, chan, ChInv, ChTypes
<1>3. "user" \in ThreadPc /\ "wake" \in ThreadPc /\ "top" \in ThreadPc
  BY DEF ThreadPc
<1>4. /\ DOMAIN chPc' = Actor /\ chPc' \in [Actor -> ThreadPc \cup JobPc]
      /\ \A b \in Actor : b # a /\ b # w => chPc'[b] = chPc[b]
      /\ w # a => chPc'[w] = IF chPc[w] = "blocked" THEN "top" ELSE chPc[w]
      /\ chPc'[a] = IF list[a] = {w} THEN cont[a] ELSE "wake"
  BY <1>1, <1>2, <1>3 DEF ChUnpark, ChInv, ChTypes
<1>5. ChTypes'
  BY <1>1, <1>2, <1>3, <1>4 DEF ChInv, ChTypes
<1>6. ListsInUse'
  <2> SUFFICES ASSUME NEW b \in Actor
               PROVE  /\ chPc'[b] # "wake" => list'[b] = {}
                      /\ cont'[b] \notin {"wake", "blocked"}
    BY DEF ListsInUse
  <2>1. chPc[b] # "wake" => list[b] = {}
    BY DEF ChInv, ListsInUse
  <2>2. CASE b = a
    BY <1>1, <1>4, <2>2 DEF ChInv, ChTypes, ListsInUse
  <2>3. CASE b # a
    <3>1. list'[b] = list[b] /\ cont'[b] = cont[b]
      BY <1>1, <2>3 DEF ChInv, ChTypes
    <3>2. chPc'[b] # "wake" => chPc[b] # "wake"
      BY <1>4, <2>3
    <3> QED
      BY <2>1, <3>1, <3>2 DEF ChInv, ListsInUse
  <2> QED
    BY <2>2, <2>3
<1>7. \A t \in ChThread : chPc'[t] = "blocked" => t # w /\ chPc[t] = "blocked"
  BY <1>4 DEF ChInv, ListsInUse
<1>8. \A t \in ChThread : \A b \in Actor : t # w /\ t \in list[b] => t \in list'[b]
  BY <1>1 DEF ChInv, ChTypes
<1>9. WaitersServed'
  BY <1>2, <1>7, <1>8 DEF ChInv, WaitersServed
<1> QED
  BY <1>5, <1>6, <1>9 DEF ChInv

\* A receive under the channel's lock keeps ChInv.
LEMMA RecvServes ==
    ASSUME ChInv, NEW t \in ChThread, RecvLocked(t) \/ TryRecv(t)
    PROVE  ChInv'
<1> USE SideFacts
<1> DEFINE s == SideOf[t]
<1>1. /\ chPc[t] \in {"lock", "try"} /\ s \in Side /\ t \in Actor
      /\ UNCHANGED <<closed, handle, collected>>
      /\ handle' \in [Side -> BOOLEAN] /\ collected' \in [Side -> BOOLEAN]
  BY DEF RecvLocked, TryRecv, ChInv, ChTypes
<1>2. "drop" \in ThreadPc \cup JobPc /\ "blocked" \in ThreadPc \cup JobPc
  BY DEF ThreadPc
<1>3. CASE /\ Goto(t, "drop") /\ UNCHANGED chWaiters /\ DOMAIN queues' = Side
           /\ \A r \in Side : queues[r] = <<>> => queues'[r] = <<>>
  BY <1>1, <1>2, <1>3, GotoServes
<1>4. CASE queues[s] = <<>> /\ ~ closed[Peer(s)] /\ RegisterAndPark(t)
  <2>1. /\ chWaiters' = [chWaiters EXCEPT ![s] = @ \cup {t}]
        /\ chPc' = [chPc EXCEPT ![t] = "blocked"]
        /\ UNCHANGED <<queues, list, cont>>
    BY <1>4 DEF RegisterAndPark, Goto
  <2>2. ChTypes'
    BY <1>1, <1>2, <2>1 DEF ChInv, ChTypes
  <2>3. ListsInUse'
    BY <1>1, <2>1 DEF ChInv, ChTypes, ListsInUse
  <2>4. t \in chWaiters'[s] /\ \A r \in Side : chWaiters[r] \subseteq chWaiters'[r]
    BY <1>1, <2>1 DEF ChInv, ChTypes
  <2>5. \A u \in ChThread : chPc'[u] = "blocked" =>
           u \in chWaiters'[SideOf[u]] \/ \E b \in Actor : u \in list'[b]
    BY <1>1, <2>1, <2>4 DEF ChInv, ChTypes, WaitersServed
  <2>6. \A u \in ChThread : u \in chWaiters'[SideOf[u]] =>
           queues'[SideOf[u]] = <<>> /\ ~ closed'[Peer(SideOf[u])]
    BY <1>1, <1>4, <2>1 DEF ChInv, ChTypes, WaitersServed
  <2> QED
    BY <2>2, <2>3, <2>5, <2>6, Zenon DEF ChInv, WaitersServed
<1> QED
  <2>1. CASE queues[s] # <<>> /\ Pop(s) /\ Goto(t, "drop") /\ UNCHANGED <<chWaiters, eof>>
    <3>1. DOMAIN queues' = Side /\ \A r \in Side : queues[r] = <<>> => queues'[r] = <<>>
      BY <1>1, <2>1 DEF Pop, ChInv, ChTypes
    <3> QED
      BY <1>3, <2>1, <3>1
  <2>2. CASE Goto(t, "drop") /\ UNCHANGED <<queues, chWaiters>>
    BY <1>3, <2>2, Zenon DEF ChInv, ChTypes
  <2> QED
    BY <1>4, <2>1, <2>2 DEF RecvLocked, TryRecv, EndOfQueue

\* So does a send.
LEMMA SendServes ==
    ASSUME ChInv, NEW t \in ChThread, Send(t)
    PROVE  ChInv'
<1> USE SideFacts
<1> DEFINE p == Peer(SideOf[t])
<1>1. /\ chPc[t] = "send" /\ p \in Side /\ t \in Actor
      /\ UNCHANGED <<closed, handle, collected>>
      /\ handle' \in [Side -> BOOLEAN] /\ collected' \in [Side -> BOOLEAN]
      /\ closed' \in [Side -> BOOLEAN]
  BY DEF Send, ChInv, ChTypes
<1>2. "drop" \in ThreadPc \cup JobPc
  BY DEF ThreadPc
<1>3. CASE Goto(t, "drop") /\ UNCHANGED <<queues, chWaiters, sent>>
  BY <1>1, <1>2, <1>3, GotoServes, Zenon DEF ChInv, ChTypes
<1>4. CASE Push(t, p, chWaiters[p])
  <2>1. /\ queues' = [queues EXCEPT ![p] = Append(@, sent[p] + 1)]
        /\ chWaiters' = [chWaiters EXCEPT ![p] = {}]
        /\ WakeThen(t, chWaiters[p], "drop")
    BY <1>4 DEF Push
  <2>2. DOMAIN queues' = Side
    BY <2>1 DEF ChInv, ChTypes
  <2>3. \A s \in Side \ {p} : /\ queues'[s] = queues[s] \/ queues'[s] = <<>>
                              /\ closed'[Peer(s)] = closed[Peer(s)]
    BY <1>1, <2>1 DEF ChInv, ChTypes
  <2>4. chPc[t] \notin {"wake", "blocked"} /\ "drop" \notin {"wake", "blocked"}
    BY <1>1
  <2> HIDE DEF p
  <2> QED
    BY <1>1, <1>2, <2>1, <2>2, <2>3, <2>4, WakeThenServes, ZenonT(30)
<1> QED
  BY <1>3, <1>4, Zenon DEF Send

\* So do the calls and the steps that change no queue.
LEMMA CallServes ==
    ASSUME ChInv, NEW t \in ChThread,
           RecvTop(t) \/ Return(t) \/ HandleClose(t) \/ ChExitCurrent(t)
              \/ \E c \in {"top", "try", "send"} : Syscall(t, c)
    PROVE  ChInv'
<1> USE SideFacts
<1>1. t \in Actor /\ SideOf[t] \in Side
  OBVIOUS
<1>2. {"user", "top", "lock", "try", "send", "drop", "table", "dead"} \subseteq ThreadPc \cup JobPc
  BY DEF ThreadPc
<1>3. /\ chPc[t] \notin {"wake", "blocked"}
      /\ handle' \in [Side -> BOOLEAN] /\ collected' \in [Side -> BOOLEAN]
  BY ZenonT(30) DEF RecvTop, Return, HandleClose, ChExitCurrent, Syscall, ChInv, ChTypes
<1>4. ASSUME NEW c \in ThreadPc \cup JobPc, c \notin {"wake", "blocked"},
             Goto(t, c), UNCHANGED chan
      PROVE  ChInv'
  BY <1>1, <1>3, <1>4, GotoServes, Zenon DEF chan, ChInv, ChTypes
<1>5. CASE RecvTop(t)
  BY <1>2, <1>4, <1>5, Zenon DEF RecvTop
<1>6. CASE \E c \in {"top", "try", "send"} : Syscall(t, c)
  BY <1>2, <1>4, <1>6 DEF Syscall
<1>7. CASE Return(t)
  BY <1>1, <1>2, <1>3, <1>7, DropServes DEF Return
<1>8. CASE HandleClose(t)
  BY <1>1, <1>2, <1>3, <1>8, DropServes, Zenon DEF HandleClose
<1>9. CASE ChExitCurrent(t)
  <2>1. CASE Goto(t, "dead") /\ UNCHANGED chan
    BY <1>2, <1>4, <2>1
  <2>2. CASE WakeThen(t, {u \in ChThread \ {t} : SideOf[u] = SideOf[t]}, "table")
             /\ UNCHANGED <<chan, handle, collected>>
    BY <1>1, <1>2, <1>3, <2>2, WakeAllServes
  <2> QED
    BY <1>9, <2>1, <2>2 DEF ChExitCurrent
<1> QED
  BY <1>5, <1>6, <1>7, <1>8, <1>9

\* And the end of a process: its table, the collector, the job.
LEMMA EndServes ==
    ASSUME ChInv, NEW a \in Actor, NEW s \in Side, NEW c \in {"dead", "unpark"},
           TakeTable(a, s) \/ CollectUnreachable(a, c)
    PROVE  ChInv'
<1> USE SideFacts
<1>1. {"collect", "dead", "unpark"} \subseteq ThreadPc \cup JobPc
  BY DEF ThreadPc, JobPc
<1>2. /\ chPc[a] \notin {"wake", "blocked"}
      /\ handle' \in [Side -> BOOLEAN] /\ collected' \in [Side -> BOOLEAN]
  BY ZenonT(30) DEF TakeTable, CollectUnreachable, ChInv, ChTypes
<1>3. CASE TakeTable(a, s)
  <2>1. CASE DropRef(a, s, FALSE, "collect")
    BY <1>1, <1>2, <2>1, DropServes, Zenon
  <2>2. CASE Goto(a, "collect") /\ UNCHANGED chan
    BY <1>1, <1>2, <2>2, GotoServes, Zenon DEF chan, ChInv, ChTypes
  <2> QED
    BY <1>3, <2>1, <2>2, Zenon DEF TakeTable
<1>4. CASE CollectUnreachable(a, c)
  <2>1. CASE Goto(a, c) /\ UNCHANGED <<chan, collected>>
    BY <1>1, <1>2, <2>1, GotoServes DEF chan, ChInv, ChTypes
  <2>2. CASE \E r \in Side : Close(a, r, "collect")
    BY <1>1, <1>2, <2>2, CloseServes, Zenon
  <2> QED
    BY <1>4, <2>1, <2>2, Zenon DEF CollectUnreachable
<1> QED
  BY <1>3, <1>4

LEMMA KillServes ==
    ASSUME ChInv, KillMember \/ KillUnpark
    PROVE  ChInv'
<1> USE SideFacts
<1>1. Job \in Actor /\ {"table", "done"} \subseteq ThreadPc \cup JobPc
  BY DEF Actor, ThreadPc, JobPc
<1>2. chPc[Job] \notin {"wake", "blocked"} /\ UNCHANGED <<chan, handle, collected>>
  BY DEF KillMember, KillUnpark
<1>3. ASSUME NEW c \in {"table", "done"}, Goto(Job, c)
      PROVE  ChInv'
  BY <1>1, <1>2, <1>3, GotoServes, Zenon DEF chan, ChInv, ChTypes
<1>4. CASE KillMember
  BY <1>3, <1>4, Zenon DEF KillMember
<1>5. CASE KillUnpark
  BY <1>1, <1>2, <1>5, WakeAllServes DEF KillUnpark
<1> QED
  BY <1>4, <1>5

\* ChInv holds initially.
LEMMA ChStarts == ChannelInit => ChInv
<1> USE SideFacts
<1> SUFFICES ASSUME ChannelInit PROVE ChInv
  OBVIOUS
<1>1. {"idle", "user"} \subseteq ThreadPc \cup JobPc
  BY DEF ThreadPc, JobPc
<1>2. ChTypes
  BY <1>1 DEF ChannelInit, ChTypes
<1>3. ListsInUse
  BY DEF ChannelInit, ListsInUse
<1>4. WaitersServed
  BY DEF ChannelInit, WaitersServed, Actor
<1> QED
  BY <1>2, <1>3, <1>4 DEF ChInv

\* Every step keeps ChInv.
LEMMA ChStep ==
    ASSUME ChInv, [ChannelNext]_channelVars
    PROVE  ChInv'
<1>1. CASE UNCHANGED channelVars
  BY <1>1 DEF channelVars, ChInv, ChTypes, ListsInUse, WaitersServed
<1>2. CASE KillMember \/ KillUnpark
  BY <1>2, KillServes
<1>3. ASSUME NEW a \in Actor, Wake(a)
      PROVE  ChInv'
  BY <1>3, WakeServes
<1>4. ASSUME NEW a \in Actor, NEW s \in Side, NEW c \in {"dead", "unpark"},
             TakeTable(a, s) \/ CollectUnreachable(a, c)
      PROVE  ChInv'
  BY <1>4, EndServes
<1>5. CASE JobStep
  BY <1>2, <1>3, <1>4, <1>5, SideFacts DEF JobStep, Actor
<1>6. ASSUME NEW t \in ChThread, ThreadStep(t) \/ Call(t)
      PROVE  ChInv'
  <2>1. t \in Actor /\ SideOf[t] \in Side
    BY SideFacts
  <2>2. CASE ThreadStep(t)
    BY <1>3, <1>4, <2>1, <2>2, RecvServes, SendServes, CallServes, Zenon DEF ThreadStep
  <2>3. CASE Call(t)
    BY <2>3, CallServes DEF Call
  <2> QED
    BY <1>6, <2>2, <2>3
<1> QED
  BY <1>1, <1>2, <1>5, <1>6 DEF ChannelNext

\* No wake-up of send or close is lost, for any number of threads and any
\* queue length (WaitersServed; kernel/src/ipc.rs).
THEOREM NoWakeupLost == ChannelSpec => []WaitersServed
<1>1. ChInv => WaitersServed
  BY DEF ChInv
<1> QED
  BY <1>1, ChStarts, ChStep, PTL DEF ChannelSpec

-----------------------------------------------------------------------------
(* The ends of the stream.                                                 *)

\* What EndOfStream rests on: the numbers of the messages, what is left of a
\* closed side's queue, and that PeerClosed is said of a closed peer.
Numbers ==
    /\ sent \in [Side -> Nat] /\ rcvd \in [Side -> Nat]
    /\ DOMAIN eof = Side
    /\ \A s \in Side : /\ rcvd[s] <= sent[s]
                       /\ eof[s] => closed[Peer(s)]
                       /\ closed[s] => queues[s] = <<>>

\* Whoever wakes threads inside a call is about to return from it.
Away == {"user", "drop", "table", "collect", "done"}
Conts == cont \in [Actor -> Away]

StInv == ChInv /\ Conts /\ Numbers /\ StreamEnds

\* The consecutive messages r + 1 to r + n.
Run(r, n) == [i \in 1 .. n |-> r + i]

\* What the operations on a queue do to consecutive messages.
LEMMA RunFacts ==
    ASSUME NEW r \in Nat, NEW n \in Nat
    PROVE  /\ Run(r, n) \in Seq(Nat)
           /\ (Run(r, n) = <<>>) <=> n = 0
           /\ n # 0 => Head(Run(r, n)) = r + 1 /\ Tail(Run(r, n)) = Run(r + 1, n - 1)
           /\ Append(Run(r, n), r + n + 1) = Run(r, n + 1)
<1>1. Run(r, n) \in Seq(Nat) /\ Len(Run(r, n)) = n
  BY DEF Run
<1>2. (Run(r, n) = <<>>) <=> n = 0
  BY <1>1
<1>3. ASSUME n # 0
      PROVE  Head(Run(r, n)) = r + 1 /\ Tail(Run(r, n)) = Run(r + 1, n - 1)
  BY <1>1, <1>3 DEF Run
<1>4. Append(Run(r, n), r + n + 1) = Run(r, n + 1)
  BY <1>1 DEF Run
<1> QED
  BY <1>1, <1>2, <1>3, <1>4

\* EndOfStream with the queues as runs.
Runs ==
    \A s \in Side :
        /\ eof[s] /\ ~ collected[Peer(s)] /\ ~ closed[s] => rcvd[s] = sent[s]
        /\ ~ closed[s] => queues[s] = Run(rcvd[s], sent[s] - rcvd[s])

LEMMA StreamRuns == (EndOfStream <=> Runs) /\ (EndOfStream' <=> Runs')
BY DEF EndOfStream, Runs, Run

\* Nobody's holding of an end changes.
LEMMA HoldersKept ==
    ASSUME ClosedWhenDropped, UNCHANGED <<handle, closed, collected>>,
           \A t \in ChThread : Holds(t)' <=> Holds(t)
    PROVE  ClosedWhenDropped'
BY DEF ClosedWhenDropped

\* Actor a drops its reference to the end of side s; i: the table has one.
LEMMA DropCloses ==
    ASSUME ChInv, ClosedWhenDropped, NEW a \in Actor, NEW s \in Side, NEW i \in BOOLEAN,
           NEW c \in {"user", "collect"}, DropRef(a, s, i, c),
           a \in ChThread => SideOf[a] = s,
           i => handle[s], handle' = [handle EXCEPT ![s] = i], UNCHANGED collected
    PROVE  ClosedWhenDropped'
<1> USE SideFacts
<1>1. \A t \in ChThread : t # a => (Holds(t)' <=> Holds(t))
  BY DEF DropRef, Close, Goto, WakeThen, Holds, ChInv, ChTypes
<1>2. a \in ChThread => ~ Holds(a)'
  BY DEF DropRef, Close, Goto, WakeThen, Holds, ChInv, ChTypes
<1>3. \A r \in Side : handle'[r] = IF r = s THEN i ELSE handle[r]
  BY Zenon DEF ChInv, ChTypes
<1>4. CASE i \/ \E t \in ChThread \ {a} : SideOf[t] = s /\ Holds(t)
  <2>1. UNCHANGED closed
    BY <1>4 DEF DropRef, chan
  <2> QED
    BY <1>1, <1>2, <1>3, <1>4, <2>1 DEF ClosedWhenDropped
<1>5. CASE ~ (i \/ \E t \in ChThread \ {a} : SideOf[t] = s /\ Holds(t))
  <2>1. Close(a, s, c)
    BY <1>5 DEF DropRef
  <2>2. closed'[s] /\ \A r \in Side : r # s => closed'[r] = closed[r]
    BY <2>1 DEF Close, chan, ChInv, ChTypes
  <2> QED
    BY <1>1, <1>2, <1>3, <1>5, <2>2 DEF ClosedWhenDropped
<1> QED
  BY <1>4, <1>5

\* A system call begins: the table has the end.
LEMMA CallHolds ==
    ASSUME ChInv, ClosedWhenDropped, NEW t \in ChThread, handle[SideOf[t]],
           UNCHANGED <<handle, closed, collected>>,
           \A u \in ChThread : u # t => (Holds(u)' <=> Holds(u))
    PROVE  ClosedWhenDropped'
<1> USE SideFacts
<1>1. ~ closed[SideOf[t]]
  BY Zenon DEF ClosedWhenDropped
<1> QED
  BY <1>1 DEF ClosedWhenDropped

\* The unparks of an actor, the steps of a call that goes on.
LEMMA WakeHolds ==
    ASSUME ChInv, Conts, ClosedWhenDropped, NEW a \in Actor, Wake(a)
    PROVE  ClosedWhenDropped'
<1> USE SideFacts
<1>1. PICK w \in list[a] :
        /\ chPc' = ChUnpark(w, a, IF list[a] = {w} THEN cont[a] ELSE "wake")
        /\ cont' = [cont EXCEPT ![a] = IF list[a] = {w} THEN "user" ELSE @]
  BY DEF Wake
<1>2. chPc[a] = "wake" /\ w \in Actor /\ UNCHANGED <<handle, closed, collected>>
  BY Zenon DEF Wake, chan, ChInv, ChTypes
<1>3. /\ \A b \in Actor : b # a /\ b # w => chPc'[b] = chPc[b]
      /\ w # a => chPc'[w] = IF chPc[w] = "blocked" THEN "top" ELSE chPc[w]
      /\ chPc'[a] = IF list[a] = {w} THEN cont[a] ELSE "wake"
  BY <1>1, <1>2 DEF ChUnpark, ChInv, ChTypes
<1>4. /\ \A b \in Actor : b # a => cont'[b] = cont[b]
      /\ cont'[a] = IF list[a] = {w} THEN "user" ELSE cont[a]
      /\ cont[a] \in Away
  BY <1>1 DEF Conts
<1>5. \A b \in Actor : b # a => (Holds(b)' <=> Holds(b))
  BY <1>3, <1>4 DEF Holds
<1>6. Holds(a)' <=> Holds(a)
  BY <1>2, <1>3, <1>4, Zenon DEF Holds, Away
<1> QED
  BY <1>2, <1>5, <1>6, HoldersKept, Zenon

LEMMA InsideHolds ==
    ASSUME ChInv, ClosedWhenDropped, NEW t \in ChThread,
           RecvTop(t) \/ RecvLocked(t) \/ TryRecv(t) \/ Send(t)
    PROVE  ClosedWhenDropped'
<1> USE SideFacts
<1>1. UNCHANGED <<handle, closed, collected>>
  BY Zenon DEF RecvTop, RecvLocked, TryRecv, Send, chan
<1>2. ASSUME NEW c \in {"drop", "lock", "blocked"}, Goto(t, c), Holds(t)
      PROVE  \A u \in ChThread : Holds(u)' <=> Holds(u)
  BY <1>2, Zenon DEF Goto, Holds, ChInv, ChTypes
<1>3. ASSUME NEW W, WakeThen(t, W, "drop"), Holds(t)
      PROVE  \A u \in ChThread : Holds(u)' <=> Holds(u)
  BY <1>3, Zenon DEF WakeThen, Holds, ChInv, ChTypes
<1>4. Holds(t)
  BY Zenon DEF RecvTop, RecvLocked, TryRecv, Send, Holds
<1>5. CASE RecvTop(t)
  BY <1>1, <1>2, <1>4, <1>5, HoldersKept, Zenon DEF RecvTop
<1>6. CASE RecvLocked(t) \/ TryRecv(t)
  <2>1. Goto(t, "drop") \/ Goto(t, "blocked")
    BY <1>6, Zenon DEF RecvLocked, TryRecv, EndOfQueue, RegisterAndPark
  <2> QED
    BY <1>1, <1>2, <1>4, <2>1, HoldersKept
<1>7. CASE Send(t)
  <2>1. Goto(t, "drop") \/ WakeThen(t, chWaiters[Peer(SideOf[t])], "drop")
    BY <1>7, Zenon DEF Send, Push
  <2> QED
    BY <1>1, <1>2, <1>3, <1>4, <2>1, HoldersKept, Zenon
<1> QED
  BY <1>5, <1>6, <1>7

\* Ends are dropped by a call's return, handle_close and a process's table.
LEMMA DropsHold ==
    ASSUME ChInv, ClosedWhenDropped, NEW a \in Actor, NEW s \in Side,
           a \in ChThread => SideOf[a] = s,
           ((Return(a) \/ HandleClose(a)) /\ a \in ChThread) \/ TakeTable(a, s)
    PROVE  ClosedWhenDropped'
<1> USE SideFacts
<1>1. handle[s] \in BOOLEAN /\ UNCHANGED collected
  BY Zenon DEF Return, HandleClose, TakeTable, ChInv, ChTypes
<1>2. CASE Return(a) /\ a \in ChThread
  <2>1. DropRef(a, s, handle[s], "user") /\ handle' = [handle EXCEPT ![s] = handle[s]]
    BY <1>2, Zenon DEF Return, ChInv, ChTypes
  <2> QED
    BY <1>1, <2>1, DropCloses, ZenonT(30)
<1>3. CASE HandleClose(a) /\ a \in ChThread
  <2>1. DropRef(a, s, FALSE, "user") /\ handle' = [handle EXCEPT ![s] = FALSE]
    BY <1>3, Zenon DEF HandleClose
  <2> QED
    BY <1>1, <2>1, DropCloses, Zenon
<1>4. CASE TakeTable(a, s) /\ handle[s]
  <2>1. DropRef(a, s, FALSE, "collect") /\ handle' = [handle EXCEPT ![s] = FALSE]
    BY <1>4, Zenon DEF TakeTable
  <2> QED
    BY <1>1, <2>1, DropCloses, Zenon
<1>5. CASE TakeTable(a, s) /\ ~ handle[s]
  <2>1. UNCHANGED <<handle, closed>> /\ Goto(a, "collect") /\ chPc[a] = "table"
    BY <1>5 DEF TakeTable, chan, ChInv, ChTypes
  <2>2. \A t \in ChThread : Holds(t)' <=> Holds(t)
    BY <2>1, Zenon DEF Goto, Holds, ChInv, ChTypes
  <2> QED
    BY <1>1, <2>1, <2>2, HoldersKept, Zenon
<1> QED
  BY <1>2, <1>3, <1>4, <1>5, Zenon

\* Neither the collector's choice, nor exit_current, nor the job's kill changes
\* who holds an end.
LEMMA EndsHold ==
    ASSUME ChInv, ClosedWhenDropped,
           \/ \E a \in Actor, c \in {"dead", "unpark"} : CollectUnreachable(a, c)
           \/ \E t \in ChThread : ChExitCurrent(t)
           \/ KillMember \/ KillUnpark
    PROVE  ClosedWhenDropped'
<1> USE SideFacts
<1>1. ASSUME NEW a \in Actor, chPc[a] \in {"user", "collect", "idle", "unpark"}, NEW W,
             NEW c \in {"dead", "unpark", "collect", "table", "done"},
             Goto(a, c) \/ WakeThen(a, W, c)
      PROVE  \A t \in ChThread : Holds(t)' <=> Holds(t)
  BY <1>1 DEF Goto, WakeThen, Holds, ChInv, ChTypes
<1>2. ASSUME NEW a \in Actor, NEW c \in {"dead", "unpark"}, CollectUnreachable(a, c)
      PROVE  ClosedWhenDropped'
  <2>1. chPc[a] = "collect" /\ UNCHANGED handle
    BY <1>2, Zenon DEF CollectUnreachable
  <2>2. CASE Goto(a, c) /\ UNCHANGED <<chan, collected>>
    <3>1. \A t \in ChThread : Holds(t)' <=> Holds(t)
      BY <2>1, <2>2 DEF Goto, Holds, ChInv, ChTypes
    <3> QED
      BY <2>1, <2>2, <3>1, HoldersKept, Zenon DEF chan
  <2>3. ASSUME NEW s \in Side, ~ handle[s], ~ closed[s],
               collected' = [collected EXCEPT ![s] = TRUE], Close(a, s, "collect")
        PROVE  ClosedWhenDropped'
    <3>1. Goto(a, "collect") \/ WakeThen(a, chWaiters[Peer(s)], "collect")
      BY <2>3, Zenon DEF Close
    <3>2. \A t \in ChThread : Holds(t)' <=> Holds(t)
      BY <1>1, <2>1, <3>1, Zenon
    <3>3. /\ closed'[s] /\ collected'[s]
          /\ \A r \in Side : r # s => closed'[r] = closed[r] /\ collected'[r] = collected[r]
      BY <2>3 DEF Close, ChInv, ChTypes
    <3> QED
      BY <2>1, <2>3, <3>2, <3>3, Zenon DEF ClosedWhenDropped
  <2> QED
    BY <1>2, <2>2, <2>3, Zenon DEF CollectUnreachable
<1>3. ASSUME NEW t \in ChThread, ChExitCurrent(t)
      PROVE  ClosedWhenDropped'
  <2>1. /\ chPc[t] = "user" /\ UNCHANGED <<handle, closed, collected>>
        /\ \/ Goto(t, "dead")
           \/ WakeThen(t, {u \in ChThread \ {t} : SideOf[u] = SideOf[t]}, "table")
    BY <1>3, Zenon DEF ChExitCurrent, chan
  <2> QED
    BY <1>1, <2>1, HoldersKept, Zenon
<1>4. CASE KillMember \/ KillUnpark
  <2>1. /\ chPc[Job] \in {"idle", "unpark"} /\ UNCHANGED <<handle, closed, collected>>
        /\ \/ Goto(Job, "done") \/ Goto(Job, "table")
           \/ WakeThen(Job, {t \in ChThread : SideOf[t] = JobSide}, "done")
    BY <1>4, Zenon DEF KillMember, KillUnpark, chan
  <2> QED
    BY <1>1, <2>1, HoldersKept, Zenon
<1> QED
  BY <1>2, <1>3, <1>4

\* Conts is kept: every wake-up goes on to one of Away.
LEMMA ContsKept ==
    ASSUME Conts, [ChannelNext]_channelVars
    PROVE  Conts'
<1>1. {"user", "drop", "table", "collect", "done"} \subseteq Away
  BY DEF Away
<1>2. ASSUME NEW a, NEW W, NEW c \in Away, WakeThen(a, W, c)
      PROVE  Conts'
  BY <1>1, <1>2, Zenon DEF WakeThen, Conts
<1>3. ASSUME NEW a, NEW c, Goto(a, c)
      PROVE  Conts'
  BY <1>3 DEF Goto, Conts
<1>4. ASSUME NEW a, NEW s, NEW c \in Away, Close(a, s, c)
      PROVE  Conts'
  BY <1>2, <1>3, <1>4 DEF Close
<1>5. ASSUME NEW a, NEW s, NEW i, NEW c \in Away, DropRef(a, s, i, c)
      PROVE  Conts'
  BY <1>3, <1>4, <1>5 DEF DropRef
<1>6. ASSUME NEW a \in Actor, Wake(a)
      PROVE  Conts'
  BY <1>1, <1>6 DEF Wake, Conts
<1>7. ASSUME NEW a, NEW s, NEW c, TakeTable(a, s) \/ CollectUnreachable(a, c)
      PROVE  Conts'
  BY <1>1, <1>3, <1>4, <1>5, <1>7, Zenon DEF TakeTable, CollectUnreachable
<1>8. CASE KillMember \/ JobStep
  BY <1>1, <1>2, <1>3, <1>6, <1>7, <1>8 DEF KillMember, JobStep, KillUnpark, Actor
<1>9. ASSUME NEW t \in ChThread,
             \/ RecvTop(t) \/ RecvLocked(t) \/ TryRecv(t)
             \/ \E c \in {"top", "try", "send"} : Syscall(t, c)
      PROVE  Conts'
  BY <1>3, <1>9, Zenon DEF RecvTop, RecvLocked, TryRecv, Syscall, EndOfQueue, RegisterAndPark
<1>10. ASSUME NEW t \in ChThread, Send(t) \/ Return(t) \/ HandleClose(t) \/ ChExitCurrent(t)
       PROVE  Conts'
  BY <1>1, <1>2, <1>3, <1>5, <1>10, Zenon DEF Send, Push, Return, HandleClose, ChExitCurrent
<1>11. CASE UNCHANGED channelVars
  BY <1>11 DEF channelVars, Conts
<1> QED
  BY <1>6, <1>7, <1>8, <1>9, <1>10, <1>11, Zenon DEF ChannelNext, ThreadStep, Call, Actor

\* No message moves and no end closes.
LEMMA StreamKept ==
    ASSUME Numbers, EndOfStream, UNCHANGED <<queues, closed, sent, rcvd, eof, collected>>
    PROVE  Numbers' /\ EndOfStream'
BY ZenonT(30) DEF Numbers, EndOfStream

\* An end closes.
LEMMA CloseStream ==
    ASSUME ChTypes, Numbers, EndOfStream, NEW s \in Side, ~ closed[s],
           closed' = [closed EXCEPT ![s] = TRUE], queues' = [queues EXCEPT ![s] = <<>>],
           UNCHANGED hist, \A r \in Side : collected[r] => collected'[r]
    PROVE  Numbers' /\ EndOfStream'
<1> USE SideFacts
<1>1. /\ UNCHANGED <<sent, rcvd, eof>> /\ closed'[s] /\ queues'[s] = <<>>
      /\ \A r \in Side : r # s => closed'[r] = closed[r] /\ queues'[r] = queues[r]
      /\ \A r \in Side : closed[r] => closed'[r]
  BY DEF hist, ChTypes
<1>2. Numbers'
  BY <1>1, Zenon DEF Numbers
<1>3. EndOfStream'
  <2> SUFFICES ASSUME NEW r \in Side, ~ closed'[r]
               PROVE  /\ eof'[r] /\ ~ collected'[Peer(r)] => rcvd'[r] = sent'[r]
                      /\ queues'[r] = [i \in 1 .. sent'[r] - rcvd'[r] |-> rcvd'[r] + i]
    BY Zenon DEF EndOfStream
  <2>1. r # s /\ ~ closed[r] /\ queues'[r] = queues[r] /\ Peer(r) \in Side
    BY <1>1, Zenon
  <2>2. /\ eof[r] /\ ~ collected[Peer(r)] => rcvd[r] = sent[r]
        /\ queues[r] = [i \in 1 .. sent[r] - rcvd[r] |-> rcvd[r] + i]
    BY <2>1, Zenon DEF EndOfStream
  <2> QED
    BY <1>1, <2>1, <2>2, Zenon
<1> QED
  BY <1>2, <1>3

\* A reference is dropped.
LEMMA DropStream ==
    ASSUME ChTypes, Numbers, EndOfStream, NEW a, NEW s \in Side, NEW i, NEW c,
           DropRef(a, s, i, c), UNCHANGED hist, UNCHANGED collected
    PROVE  Numbers' /\ EndOfStream'
<1>1. CASE UNCHANGED chan
  BY <1>1, StreamKept DEF chan, hist
<1>2. CASE /\ ~ closed[s] /\ closed' = [closed EXCEPT ![s] = TRUE]
           /\ queues' = [queues EXCEPT ![s] = <<>>]
  BY <1>2, CloseStream, Zenon
<1> QED
  BY <1>1, <1>2 DEF DropRef, Close

\* A receive takes the next message, or finds that there will be none.
LEMMA RecvStream ==
    ASSUME ChTypes, Numbers, EndOfStream, NEW t \in ChThread, RecvLocked(t) \/ TryRecv(t)
    PROVE  Numbers' /\ EndOfStream'
<1> USE SideFacts
<1> DEFINE s == SideOf[t]
           n == sent[s] - rcvd[s]
<1>1. /\ s \in Side /\ rcvd[s] \in Nat /\ sent[s] \in Nat
      /\ n \in Nat /\ n = sent[s] - rcvd[s]
      /\ UNCHANGED <<closed, sent, collected>>
  <2>1. /\ s \in Side /\ rcvd[s] \in Nat /\ sent[s] \in Nat /\ rcvd[s] <= sent[s]
    BY Zenon DEF Numbers
  <2>2. UNCHANGED <<closed, sent, collected>>
    BY Zenon DEF RecvLocked, TryRecv
  <2> QED
    BY <2>1, <2>2
<1>2. ~ closed[s] => queues[s] = Run(rcvd[s], n)
  BY <1>1, Zenon DEF EndOfStream, Run
<1> HIDE DEF n, s
<1>6. /\ (Run(rcvd[s], n) = <<>>) <=> n = 0
      /\ n # 0 => /\ Head(Run(rcvd[s], n)) = rcvd[s] + 1
                  /\ Tail(Run(rcvd[s], n)) = Run(rcvd[s] + 1, n - 1)
  <2>1. rcvd[s] \in Nat /\ n \in Nat
    BY <1>1, Zenon
  <2> QED
    BY <2>1, RunFacts, ZenonT(30)
<1>3. CASE queues[s] # <<>> /\ Pop(s) /\ UNCHANGED eof
  <2>1. ~ closed[s] /\ n # 0
    BY <1>6, <1>1, <1>2, <1>3, Zenon DEF Numbers
  <2>2. /\ queues' = [queues EXCEPT ![s] = Run(rcvd[s] + 1, n - 1)]
        /\ rcvd' = [rcvd EXCEPT ![s] = rcvd[s] + 1]
    BY <1>6, <1>1, <1>2, <1>3, <2>1, Zenon DEF Pop
  <2>3. \A r \in Side : r # s => queues'[r] = queues[r] /\ rcvd'[r] = rcvd[r]
    BY <2>2, Zenon DEF ChTypes, Numbers
  <2>4. rcvd'[s] = rcvd[s] + 1 /\ rcvd' \in [Side -> Nat] /\ queues'[s] = Run(rcvd[s] + 1, n - 1)
    BY <1>1, <2>2 DEF ChTypes, Numbers
  <2>5. Numbers'
    <3>1. \A r \in Side : rcvd'[r] <= sent[r]
      <4>1. rcvd[s] + 1 <= sent[s]
        BY <1>1, <2>1
      <4> QED
        BY <2>3, <2>4, <4>1, Zenon DEF Numbers
    <3>2. \A r \in Side : closed[r] => queues'[r] = <<>>
      BY <2>1, <2>3, Zenon DEF Numbers
    <3> QED
      BY <1>1, <1>3, <2>4, <3>1, <3>2, Zenon DEF Numbers
  <2>6. ~ (eof[s] /\ ~ collected[Peer(s)])
    <3>1. rcvd[s] # sent[s]
      BY <1>1, <2>1
    <3> QED
      BY <1>1, <2>1, <3>1, Zenon DEF EndOfStream
  <2>7. queues'[s] = Run(rcvd'[s], sent[s] - rcvd'[s])
    <3>1. n - 1 = sent[s] - rcvd'[s]
      BY <1>1, <2>4
    <3> QED
      BY <2>4, <3>1, Zenon
  <2>8. \A r \in Side : r # s => UNCHANGED <<eof[r], queues[r], rcvd[r], sent[r]>>
    BY <1>1, <1>3, <2>3, Zenon
  <2>9. EndOfStream'
    BY <1>1, <1>3, <2>6, <2>7, <2>8, StreamRuns, Zenon DEF Runs
  <2> QED
    BY <2>5, <2>9
<1>4. CASE queues[s] = <<>> /\ closed[Peer(s)] /\ EndOfQueue(t)
  <2>1. ~ closed[s] => rcvd[s] = sent[s]
    BY <1>6, <1>1, <1>2, <1>4
  <2>2. /\ UNCHANGED <<queues, rcvd>> /\ DOMAIN eof' = Side
        /\ \A r \in Side : r # s => eof'[r] = eof[r]
    BY <1>4, Zenon DEF EndOfQueue, Numbers, s
  <2> QED
    <3>1. Numbers'
      BY <1>1, <1>4, <2>2, Zenon DEF Numbers
    <3>2. EndOfStream'
      BY <1>1, <2>1, <2>2, StreamRuns, Zenon DEF Runs
    <3> QED
      BY <3>1, <3>2
<1>5. CASE UNCHANGED <<queues, rcvd, eof>>
  BY <1>1, <1>5, StreamKept
<1> QED
  BY <1>3, <1>4, <1>5, Zenon DEF RecvLocked, TryRecv, RegisterAndPark, s

\* A send adds the next message; nobody sends to a side that was told, unless
\* the collector closed the end it sends on.
LEMMA SendStream ==
    ASSUME ChTypes, Numbers, StreamEnds, NEW t \in ChThread, Send(t)
    PROVE  Numbers' /\ EndOfStream'
<1> USE SideFacts
<1> DEFINE p == Peer(SideOf[t])
           n == sent[p] - rcvd[p]
<1>1. p \in Side /\ p = Peer(SideOf[t])
  OBVIOUS
<1>2. /\ rcvd[p] \in Nat /\ sent[p] \in Nat
      /\ n \in Nat /\ n = sent[p] - rcvd[p]
  BY <1>1 DEF Numbers
<1>3. UNCHANGED <<closed, rcvd, eof, collected>> /\ Holds(t)
  BY Zenon DEF Send, Holds
<1> HIDE DEF n, p
<1>4. CASE UNCHANGED <<queues, sent>>
  BY <1>3, <1>4, StreamKept DEF StreamEnds
<1>5. CASE ~ closed[p] /\ Push(t, p, chWaiters[p])
  <2>1. queues[p] = Run(rcvd[p], n)
    BY <1>1, <1>2, <1>3, <1>5, Zenon DEF StreamEnds, EndOfStream, Run
  <2>2. Append(queues[p], sent[p] + 1) = Run(rcvd[p], n + 1)
    <3>1. Append(Run(rcvd[p], n), rcvd[p] + n + 1) = Run(rcvd[p], n + 1)
      BY <1>2, RunFacts, Zenon
    <3>2. rcvd[p] + n + 1 = sent[p] + 1
      BY <1>2
    <3> QED
      BY <2>1, <3>1, <3>2, Zenon
  <2>3. /\ sent'[p] = sent[p] + 1 /\ sent' \in [Side -> Nat] /\ queues'[p] = Run(rcvd[p], n + 1)
        /\ \A r \in Side : r # p => queues'[r] = queues[r] /\ sent'[r] = sent[r]
    <3>1. /\ sent' = [sent EXCEPT ![p] = sent[p] + 1]
          /\ queues' = [queues EXCEPT ![p] = Append(queues[p], sent[p] + 1)]
      BY <1>5, Zenon DEF Push
    <3>2. sent[p] + 1 \in Nat
      BY <1>2
    <3>3. sent \in [Side -> Nat] /\ DOMAIN queues = Side
      BY Zenon DEF ChTypes, Numbers
    <3> QED
      BY <1>1, <2>2, <3>1, <3>2, <3>3, Zenon
  <2>4. Numbers'
    <3>1. rcvd' \in [Side -> Nat] /\ DOMAIN eof' = Side
      BY <1>3, Zenon DEF Numbers
    <3>2. \A r \in Side : rcvd'[r] <= sent'[r]
      <4>1. rcvd[p] <= sent[p] + 1
        BY <1>1, <1>2 DEF Numbers
      <4> QED
        BY <1>3, <2>3, <4>1, Zenon DEF Numbers
    <3>3. \A r \in Side : /\ eof'[r] => closed'[Peer(r)]
                          /\ closed'[r] => queues'[r] = <<>>
      BY <1>3, <1>5, <2>3, Zenon DEF Numbers
    <3> QED
      BY <2>3, <3>1, <3>2, <3>3, Zenon DEF Numbers
  <2>5. eof[p] => collected[Peer(p)]
    BY <1>1, <1>3, Zenon DEF Numbers, StreamEnds, ClosedWhenDropped
  <2>6. queues'[p] = Run(rcvd[p], sent'[p] - rcvd[p])
    <3>1. n + 1 = sent'[p] - rcvd[p]
      BY <1>2, <2>3
    <3> QED
      BY <2>3, <3>1, Zenon
  <2>7. \A r \in Side : r # p => UNCHANGED <<queues[r], sent[r]>>
    BY <2>3, Zenon
  <2>8. EndOfStream'
    BY <1>1, <1>3, <2>5, <2>6, <2>7, StreamRuns, Zenon DEF StreamEnds, Runs
  <2> QED
    BY <2>4, <2>8
<1> QED
  BY <1>4, <1>5, Zenon DEF Send, p

\* Every step keeps what StreamEnds rests on: first which ends are closed,
LEMMA ClosedStep ==
    ASSUME ChInv, Conts, ClosedWhenDropped, [ChannelNext]_channelVars
    PROVE  ClosedWhenDropped'
<1> USE SideFacts
<1>1. CASE UNCHANGED channelVars
  BY <1>1, Zenon DEF channelVars, ClosedWhenDropped, Holds
<1>2. ASSUME NEW a \in Actor, NEW s \in Side, a \in ChThread => SideOf[a] = s, TakeTable(a, s)
      PROVE  ClosedWhenDropped'
  BY <1>2, DropsHold, Zenon
<1>3. CASE KillMember \/ JobStep
  BY <1>2, <1>3, EndsHold, WakeHolds, Zenon DEF JobStep
<1>4. ASSUME NEW t \in ChThread, NEW c \in {"top", "try", "send"}, Syscall(t, c)
      PROVE  ClosedWhenDropped'
  <2>1. handle[SideOf[t]] /\ UNCHANGED <<handle, closed, collected>>
    BY <1>4 DEF Syscall, chan
  <2>2. \A u \in ChThread : u # t => (Holds(u)' <=> Holds(u))
    BY <1>4, Zenon DEF Syscall, Goto, Holds, ChInv, ChTypes
  <2> QED
    BY <2>1, <2>2, CallHolds
<1>5. ASSUME NEW t \in ChThread, ThreadStep(t) \/ Call(t)
      PROVE  ClosedWhenDropped'
  <2>1. t \in Actor /\ SideOf[t] \in Side
    OBVIOUS
  <2>2. CASE ThreadStep(t)
    BY <1>2, <2>1, <2>2, InsideHolds, DropsHold, EndsHold, WakeHolds, Zenon DEF ThreadStep
  <2>3. CASE Call(t)
    BY <1>4, <2>1, <2>3, DropsHold, EndsHold, Zenon DEF Call
  <2> QED
    BY <1>5, <2>2, <2>3
<1> QED
  BY <1>1, <1>3, <1>5 DEF ChannelNext

\* then the messages.
LEMMA StreamStep ==
    ASSUME ChInv, Numbers, StreamEnds, [ChannelNext]_channelVars
    PROVE  Numbers' /\ EndOfStream'
<1> USE SideFacts
<1>1. ChTypes /\ EndOfStream
  BY DEF ChInv, StreamEnds
<1>2. CASE UNCHANGED <<chan, hist, collected>>
  BY <1>1, <1>2, StreamKept DEF chan, hist
<1>3. ASSUME NEW a \in Actor, NEW c, CollectUnreachable(a, c)
      PROVE  Numbers' /\ EndOfStream'
  <2>1. ASSUME NEW s \in Side, ~ closed[s], collected' = [collected EXCEPT ![s] = TRUE],
               Close(a, s, "collect"), UNCHANGED hist
        PROVE  Numbers' /\ EndOfStream'
    <3>1. \A r \in Side : collected[r] => collected'[r]
      BY <1>1, <2>1, Zenon DEF ChTypes
    <3> QED
      BY <1>1, <2>1, <3>1, CloseStream DEF Close
  <2> QED
    BY <1>2, <1>3, <2>1, Zenon DEF CollectUnreachable
<1>4. ASSUME NEW a \in Actor, NEW s \in Side, TakeTable(a, s)
      PROVE  Numbers' /\ EndOfStream'
  <2>1. UNCHANGED <<hist, collected>> /\ (DropRef(a, s, FALSE, "collect") \/ UNCHANGED chan)
    BY <1>4, Zenon DEF TakeTable
  <2> QED
    BY <1>1, <1>2, <2>1, DropStream, Zenon
<1>5. ASSUME NEW t \in ChThread, Return(t) \/ HandleClose(t)
      PROVE  Numbers' /\ EndOfStream'
  <2>1. /\ UNCHANGED hist /\ UNCHANGED collected /\ SideOf[t] \in Side
        /\ \/ DropRef(t, SideOf[t], handle[SideOf[t]], "user")
           \/ DropRef(t, SideOf[t], FALSE, "user")
    BY <1>5, Zenon DEF Return, HandleClose
  <2> QED
    BY <1>1, <2>1, DropStream, Zenon
<1>6. ASSUME NEW a \in Actor, Wake(a)
      PROVE  Numbers' /\ EndOfStream'
  BY <1>2, <1>6, Zenon DEF Wake
<1>7. CASE KillMember \/ JobStep
  BY <1>2, <1>3, <1>4, <1>6, <1>7, Zenon DEF KillMember, KillUnpark, JobStep
<1>8. ASSUME NEW t \in ChThread, ThreadStep(t) \/ Call(t)
      PROVE  Numbers' /\ EndOfStream'
  <2>1. t \in Actor /\ SideOf[t] \in Side
    OBVIOUS
  <2>2. CASE RecvTop(t) \/ ChExitCurrent(t) \/ \E c \in {"top", "try", "send"} : Syscall(t, c)
    BY <1>2, <2>2, Zenon DEF RecvTop, ChExitCurrent, Syscall
  <2>3. CASE RecvLocked(t) \/ TryRecv(t)
    BY <1>1, <2>3, RecvStream
  <2>4. CASE Send(t)
    BY <1>1, <2>4, SendStream
  <2> QED
    BY <1>3, <1>4, <1>5, <1>6, <1>8, <2>1, <2>2, <2>3, <2>4, Zenon DEF ThreadStep, Call
<1>9. CASE UNCHANGED channelVars
  BY <1>2, <1>9 DEF channelVars, chan, hist
<1> QED
  BY <1>7, <1>8, <1>9 DEF ChannelNext

\* An end closes when its last holder is gone, not before, and its peer reads
\* everything, in order, before a receive says PeerClosed (StreamEnds), for any
\* number of threads and messages and any queue length.
THEOREM StreamEndsRight == ChannelSpec => []StreamEnds
<1> USE SideFacts
<1>1. ChannelInit => StInv
  <2> SUFFICES ASSUME ChannelInit PROVE StInv
    OBVIOUS
  <2>1. Conts
    BY DEF ChannelInit, Conts, Away
  <2>2. Numbers
    BY DEF ChannelInit, Numbers
  <2>3. \A s \in Side : queues[s] = Run(rcvd[s], sent[s] - rcvd[s])
    BY DEF ChannelInit, Run
  <2>4. EndOfStream
    BY <2>3, StreamRuns, Zenon DEF ChannelInit, Runs
  <2>5. ClosedWhenDropped
    BY Zenon DEF ChannelInit, ClosedWhenDropped
  <2> QED
    BY <2>1, <2>2, <2>4, <2>5, ChStarts DEF StInv, StreamEnds
<1>2. ASSUME StInv, [ChannelNext]_channelVars
      PROVE  StInv'
  <2>1. ChInv'
    BY <1>2, ChStep DEF StInv
  <2>2. Conts'
    BY <1>2, ContsKept DEF StInv
  <2>3. ClosedWhenDropped'
    BY <1>2, ClosedStep DEF StInv, StreamEnds
  <2>4. Numbers' /\ EndOfStream'
    BY <1>2, StreamStep DEF StInv
  <2> QED
    BY <2>1, <2>2, <2>3, <2>4 DEF StInv, StreamEnds
<1>3. StInv => StreamEnds
  BY DEF StInv
<1> QED
  BY <1>1, <1>2, <1>3, PTL DEF ChannelSpec

-----------------------------------------------------------------------------
(* The multiple wait.                                                      *)

AnyTypes ==
    /\ queue \in [AnyChannel -> Nat]
    /\ anyClosed \in [AnyChannel -> BOOLEAN]
    /\ sinalizado \in [Event -> BOOLEAN]
    /\ anyWaiters \in [Object -> SUBSET AnyThread]
    /\ anyPc \in [AnyThread -> AnyPc]
    /\ on \in [AnyThread -> Seq(Object)]
    /\ k \in [AnyThread -> Nat]
    /\ signals \in [AutoEvent -> Nat]
    /\ passes \in [AutoEvent -> Nat]

Walking == {"scan", "register", "rescan"}
Receiving == {"recv", "lock", "blocked"}

\* Where a thread is in its list, and what the list is.
Placed(t) ==
    /\ anyPc[t] \in Walking => k[t] \in 1 .. Len(on[t])
    /\ anyPc[t] \notin Walking => k[t] = 1
    /\ anyPc[t] \in {"decide", "asleep"} => Len(on[t]) > 0
    /\ anyPc[t] \in Receiving => \E c \in AnyChannel : on[t] = <<c>>

\* What was ready ever since the wait began is ahead of the first scan, and
\* nothing is once that scan is over.
Ahead(t) ==
    /\ anyPc[t] = "scan" => /\ since[t] \subseteq {on[t][j] : j \in 1 .. Len(on[t])}
                            /\ \A j \in 1 .. k[t] - 1 : on[t][j] \notin since[t]
    /\ anyPc[t] # "scan" => since[t] = {}

\* A blocked thread is to be unparked, or registered with nothing to receive.
Served(t) ==
    anyPc[t] = "blocked" =>
        \/ t \in toWake
        \/ t \in anyWaiters[on[t][1]] /\ queue[on[t][1]] = 0 /\ ~ anyClosed[on[t][1]]

AnyInv ==
    /\ AnyTypes
    /\ OnePassPerSignal
    /\ NothingSkipped
    /\ \A t \in AnyThread : Placed(t) /\ Ahead(t) /\ Served(t)
    /\ DOMAIN since = AnyThread

\* The objects are apart.
LEMMA ObjectsApart ==
    /\ \A c \in AnyChannel : c \notin Event /\ c \in Object
    /\ \A e \in Event : e \notin AnyChannel /\ e \in Object
    /\ \A e \in AutoEvent : e \in Event
BY WaitAnyAssumption DEF Event, Object

\* A thread the step leaves where it is keeps its place in the list.
LEMMA StaysAhead ==
    ASSUME AnyInv, Watch, NEW t \in AnyThread,
           anyPc'[t] = anyPc[t], on'[t] = on[t], k'[t] = k[t]
    PROVE  Placed(t)' /\ Ahead(t)'
<1>1. Placed(t)'
  BY DEF AnyInv, Placed
<1>2. InWait(t)' <=> InWait(t)
  BY DEF InWait
<1>3. since'[t] \subseteq since[t]
  <2>1. CASE InWait(t)
    BY <1>2, <2>1 DEF Watch
  <2>2. CASE ~ InWait(t)
    BY <1>2, <2>2 DEF Watch
  <2> QED
    BY <2>1, <2>2
<1>4. Ahead(t)'
  BY <1>3 DEF AnyInv, Ahead
<1> QED
  BY <1>1, <1>4

\* A blocked thread the step leaves blocked is served as before.
LEMMA StaysServed ==
    ASSUME AnyInv, NEW t \in AnyThread, anyPc'[t] = anyPc[t], on'[t] = on[t],
           t \in toWake => t \in toWake',
           \A c \in AnyChannel : /\ anyWaiters[c] \subseteq anyWaiters'[c] \cup toWake'
                                 /\ \/ queue'[c] <= queue[c] /\ (anyClosed'[c] => anyClosed[c])
                                    \/ anyWaiters[c] \subseteq toWake',
           queue' \in [AnyChannel -> Nat]
    PROVE  Served(t)'
<1> SUFFICES ASSUME anyPc[t] = "blocked", t \notin toWake'
             PROVE  /\ t \in anyWaiters'[on[t][1]] /\ queue'[on[t][1]] = 0
                    /\ ~ anyClosed'[on[t][1]]
  BY DEF Served
<1>1. PICK c \in AnyChannel : on[t] = <<c>>
  BY DEF AnyInv, Placed, Receiving
<1>2. on[t][1] = c
  BY <1>1
<1>3. t \in anyWaiters[c] /\ queue[c] = 0 /\ ~ anyClosed[c]
  BY <1>2 DEF AnyInv, Served
<1>4. queue'[c] \in Nat
  OBVIOUS
<1> QED
  BY <1>2, <1>3, <1>4

\* A step that moves at most thread t.
LEMMA OneMoves ==
    ASSUME AnyInv, Watch, NEW t \in AnyThread, AnyTypes', OnePassPerSignal', NothingSkipped',
           \A u \in AnyThread \ {t} : anyPc'[u] = anyPc[u] /\ on'[u] = on[u] /\ k'[u] = k[u],
           Placed(t)', Ahead(t)', Served(t)',
           \A u \in AnyThread \ {t} : u \in toWake => u \in toWake',
           \A c \in AnyChannel : /\ anyWaiters[c] \subseteq anyWaiters'[c] \cup toWake'
                                 /\ \/ queue'[c] <= queue[c] /\ (anyClosed'[c] => anyClosed[c])
                                    \/ anyWaiters[c] \subseteq toWake'
    PROVE  AnyInv'
<1>1. \A u \in AnyThread : Placed(u)' /\ Ahead(u)' /\ Served(u)'
  <2> SUFFICES ASSUME NEW u \in AnyThread, u # t PROVE Placed(u)' /\ Ahead(u)' /\ Served(u)'
    OBVIOUS
  <2>1. Placed(u)' /\ Ahead(u)'
    BY StaysAhead
  <2>2. queue' \in [AnyChannel -> Nat]
    BY DEF AnyTypes
  <2>3. Served(u)'
    BY <2>2, StaysServed, Zenon
  <2> QED
    BY <2>1, <2>3
<1>2. DOMAIN since' = AnyThread
  BY Zenon DEF Watch
<1> QED
  BY <1>1, <1>2, Zenon DEF AnyInv

\* The steps of the multiple wait that return: nothing that was ready ever since
\* the call began is passed over.
LEMMA ReturnKeeps ==
    ASSUME AnyInv, Watch, NEW t \in AnyThread, NEW s,
           AnyReturn(t, s), {s[j] : j \in DOMAIN s} \cap since[t] = {}
    PROVE  /\ NothingSkipped' /\ Placed(t)' /\ Ahead(t)' /\ Served(t)'
           /\ anyPc' \in [AnyThread -> AnyPc] /\ on' \in [AnyThread -> Seq(Object)]
           /\ k' \in [AnyThread -> Nat]
           /\ \A u \in AnyThread \ {t} : anyPc'[u] = anyPc[u] /\ on'[u] = on[u] /\ k'[u] = k[u]
<1>1. /\ anyPc' = [anyPc EXCEPT ![t] = "user"] /\ on' = [on EXCEPT ![t] = <<>>]
      /\ k' = [k EXCEPT ![t] = 1] /\ skipped' = skipped \cup (Range(s) \cap since[t])
  BY DEF AnyReturn, AnyGoto
<1>2. anyPc'[t] = "user" /\ k'[t] = 1
  BY <1>1 DEF AnyInv, AnyTypes
<1>3. NothingSkipped'
  BY <1>1, Zenon DEF AnyInv, NothingSkipped, Range
<1>4. Placed(t)' /\ Served(t)'
  BY <1>2 DEF Placed, Served, Walking, Receiving
<1>5. Ahead(t)'
  <2>1. ~ InWait(t)'
    BY <1>2 DEF InWait
  <2> QED
    BY <1>2, <2>1 DEF Ahead, Watch
<1>6. /\ anyPc' \in [AnyThread -> AnyPc] /\ on' \in [AnyThread -> Seq(Object)]
      /\ k' \in [AnyThread -> Nat]
  BY <1>1 DEF AnyInv, AnyTypes, AnyPc
<1> QED
  BY <1>1, <1>3, <1>4, <1>5, <1>6, Zenon DEF AnyInv, AnyTypes

\* A thread that looked at everything up to its place saw nothing skipped there.
LEMMA PassedOver ==
    ASSUME AnyInv, NEW t \in AnyThread, anyPc[t] \in Walking
    PROVE  LET s == SubSeq(on[t], 1, k[t] - 1)
           IN {s[j] : j \in DOMAIN s} \cap since[t] = {}
<1> DEFINE s == SubSeq(on[t], 1, k[t] - 1)
<1>1. on[t] \in Seq(Object) /\ k[t] \in 1 .. Len(on[t]) /\ k[t] \in Nat
  BY DEF AnyInv, AnyTypes, Placed
<1>2. DOMAIN s = 1 .. k[t] - 1 /\ \A j \in 1 .. k[t] - 1 : s[j] = on[t][j]
  BY <1>1
<1>3. \A j \in 1 .. k[t] - 1 : on[t][j] \notin since[t]
  BY DEF AnyInv, Ahead
<1> QED
  BY <1>2, <1>3, Zenon

\* What is ready when a signal is taken was signalled.
LEMMA TakeCounts ==
    ASSUME AnyInv, NEW o, Ready(o), AnyTake(o), UNCHANGED signals
    PROVE  /\ OnePassPerSignal' /\ sinalizado' \in [Event -> BOOLEAN]
           /\ passes' \in [AutoEvent -> Nat]
<1>1. CASE o \in AutoEvent
  <2>1. /\ sinalizado' = [sinalizado EXCEPT ![o] = FALSE]
        /\ passes' = [passes EXCEPT ![o] = @ + 1] /\ sinalizado[o]
    BY <1>1, ObjectsApart DEF AnyTake, Ready
  <2>2. sinalizado' \in [Event -> BOOLEAN] /\ passes' \in [AutoEvent -> Nat]
    <3>1. sinalizado' \in [Event -> BOOLEAN]
      BY <2>1, Zenon DEF AnyInv, AnyTypes
    <3>2. passes[o] + 1 \in Nat
      BY <1>1 DEF AnyInv, AnyTypes
    <3> QED
      BY <2>1, <3>1, <3>2, Zenon DEF AnyInv, AnyTypes
  <2>3. /\ passes'[o] = passes[o] + 1 /\ ~ sinalizado'[o]
        /\ \A e \in AutoEvent \ {o} : passes'[e] = passes[e] /\ sinalizado'[e] = sinalizado[e]
    <3>1. passes'[o] = passes[o] + 1 /\ \A e \in AutoEvent \ {o} : passes'[e] = passes[e]
      BY <1>1, <2>1 DEF AnyInv, AnyTypes
    <3>2. ~ sinalizado'[o] /\ \A e \in AutoEvent \ {o} : sinalizado'[e] = sinalizado[e]
      BY <1>1, <2>1, ObjectsApart DEF AnyInv, AnyTypes
    <3> QED
      BY <3>1, <3>2
  <2>4. \A e \in AutoEvent : passes[e] \in Nat /\ signals[e] \in Nat
    BY DEF AnyInv, AnyTypes
  <2>5. OnePassPerSignal'
    BY <1>1, <2>1, <2>3, <2>4 DEF AnyInv, OnePassPerSignal
  <2> QED
    BY <2>2, <2>5
<1>2. CASE o \notin AutoEvent
  BY <1>2 DEF AnyTake, AnyInv, AnyTypes, OnePassPerSignal
<1> QED
  BY <1>1, <1>2

\* A scan of an object that is not ready, and the registration, move on.
LEMMA MoveOn ==
    ASSUME AnyInv, Watch, NEW t \in AnyThread, NEW next \in AnyPc, anyPc[t] \in Walking,
           next \in {"register", "rescan", "decide"}, UNCHANGED <<on, queue, anyClosed, sinalizado>>,
           anyPc[t] = "scan" => ~ Ready(on[t][k[t]]),
           LET last == k[t] = Len(on[t])
           IN  /\ anyPc' = [anyPc EXCEPT ![t] = IF last THEN next ELSE anyPc[t]]
               /\ k' = [k EXCEPT ![t] = IF last THEN 1 ELSE @ + 1]
    PROVE  Placed(t)' /\ Ahead(t)' /\ Served(t)' /\ k' \in [AnyThread -> Nat]
<1>1. on[t] \in Seq(Object) /\ k[t] \in 1 .. Len(on[t]) /\ k[t] \in Nat /\ Len(on[t]) \in Nat
  BY DEF AnyInv, AnyTypes, Placed
<1>2. /\ k[t] = Len(on[t]) => anyPc'[t] = next /\ k'[t] = 1
      /\ k[t] # Len(on[t]) => anyPc'[t] = anyPc[t] /\ k'[t] = k[t] + 1
  BY DEF AnyInv, AnyTypes
<1>3. Placed(t)'
  BY <1>1, <1>2 DEF Placed, Walking, Receiving
<1>4. Served(t)'
  BY <1>2 DEF Served, Walking
<1>5. since'[t] = {o \in since[t] : Ready(o)'}
  <2>1. InWait(t) /\ InWait(t)'
    BY <1>2, Zenon DEF InWait, Walking
  <2> QED
    BY <2>1, Zenon DEF Watch
<1>6. \A o : Ready(o)' <=> Ready(o)
  BY Zenon DEF Ready
<1>7. Ahead(t)'
  <2>1. CASE anyPc[t] # "scan"
    BY <1>2, <1>5, <2>1, Zenon DEF AnyInv, Ahead
  <2>2. CASE anyPc[t] = "scan"
    <3>1. /\ since[t] \subseteq {on[t][j] : j \in 1 .. Len(on[t])}
          /\ \A j \in 1 .. k[t] - 1 : on[t][j] \notin since[t]
      BY <2>2, Zenon DEF AnyInv, Ahead
    <3>2. on[t][k[t]] \notin since'[t]
      BY <1>5, <1>6, <2>2, Zenon
    <3>3. \A j \in 1 .. k[t] : on[t][j] \notin since'[t]
      <4>1. since'[t] \subseteq since[t]
        BY <1>5, Zenon
      <4>2. \A j \in 1 .. k[t] : j = k[t] \/ j \in 1 .. k[t] - 1
        BY <1>1
      <4> QED
        BY <3>1, <3>2, <4>1, <4>2, Zenon
    <3>4. CASE k[t] = Len(on[t])
      <4>1. since'[t] = {}
        BY <1>5, <3>1, <3>3, <3>4, Zenon
      <4>2. anyPc'[t] # "scan"
        BY <1>2, <3>4, Zenon
      <4> QED
        BY <4>1, <4>2, Zenon DEF Ahead
    <3>5. CASE k[t] # Len(on[t])
      <4>1. anyPc'[t] = "scan" /\ k'[t] = k[t] + 1 /\ on'[t] = on[t] /\ since'[t] \subseteq since[t]
        BY <1>2, <1>5, <2>2, <3>5, Zenon
      <4>2. \A j \in 1 .. k'[t] - 1 : on'[t][j] \notin since'[t]
        <5>1. k'[t] - 1 = k[t]
          BY <1>1, <4>1
        <5> QED
          BY <3>3, <4>1, <5>1, Zenon
      <4> QED
        BY <3>1, <4>1, <4>2, Zenon DEF Ahead
    <3> QED
      BY <3>4, <3>5
  <2> QED
    BY <2>1, <2>2, Zenon
<1>8. k' \in [AnyThread -> Nat]
  BY <1>1 DEF AnyInv, AnyTypes
<1> QED
  BY <1>3, <1>4, <1>7, <1>8

\* A thread that begins, sleeps on or receives has nothing behind it.
LEMMA PlaceKeeps ==
    ASSUME AnyInv, Watch, NEW t \in AnyThread, anyPc[t] \notin Walking, UNCHANGED k,
           anyPc' \in [AnyThread -> AnyPc],
           \/ anyPc'[t] = "scan" /\ on'[t] = on[t] /\ anyPc[t] = "asleep"
           \/ /\ anyPc'[t] = "scan" /\ anyPc[t] = "user" /\ on'[t] # <<>>
              /\ on'[t] \in Seq(Object)
           \/ anyPc'[t] = "asleep" /\ on'[t] = on[t] /\ anyPc[t] = "decide"
           \/ anyPc'[t] \in Receiving /\ (\E c \in AnyChannel : on'[t] = <<c>>)
    PROVE  Placed(t)' /\ Ahead(t)'
<1>1. k'[t] = 1
  BY Zenon DEF AnyInv, Placed
<1>2. CASE anyPc'[t] = "scan" /\ on'[t] = on[t] /\ anyPc[t] = "asleep"
  <2>1. Placed(t)'
    <3>1. Len(on[t]) > 0 /\ Len(on[t]) \in Nat
      <4>1. Len(on[t]) > 0 /\ on[t] \in Seq(Object)
        BY <1>2, Zenon DEF AnyInv, AnyTypes, Placed
      <4> QED
        BY <4>1
    <3>2. 1 \in 1 .. Len(on[t])
      BY <3>1
    <3> QED
      BY <1>1, <1>2, <3>1, <3>2, Zenon DEF Placed, Walking, Receiving
  <2>2. since[t] = {} /\ InWait(t) /\ InWait(t)'
    BY <1>2 DEF AnyInv, Ahead, InWait
  <2>3. since'[t] = {}
    BY <2>2, Zenon DEF Watch
  <2> QED
    BY <1>2, <2>1, <2>3, Zenon DEF Ahead
<1>3. CASE anyPc'[t] = "scan" /\ anyPc[t] = "user" /\ on'[t] # <<>> /\ on'[t] \in Seq(Object)
  <2>1. Placed(t)'
    <3>1. Len(on'[t]) > 0 /\ Len(on'[t]) \in Nat
      BY <1>3
    <3>2. 1 \in 1 .. Len(on'[t])
      BY <3>1
    <3> QED
      BY <1>1, <1>3, <3>1, <3>2, Zenon DEF Placed, Walking, Receiving
  <2>2. ~ InWait(t) /\ InWait(t)'
    BY <1>3 DEF InWait
  <2>3. since'[t] \subseteq Range(on'[t])
    BY <2>2, Zenon DEF Watch
  <2>4. Range(on'[t]) = {on'[t][j] : j \in 1 .. Len(on'[t])}
    BY <1>3 DEF Range
  <2> QED
    <3>1. \A j \in 1 .. k'[t] - 1 : FALSE
      BY <1>1
    <3>2. since'[t] \subseteq {on'[t][j] : j \in 1 .. Len(on'[t])}
      BY <2>3, <2>4, Zenon
    <3> QED
      BY <1>3, <2>1, <3>1, <3>2, Zenon DEF Ahead
<1>4. CASE anyPc'[t] = "asleep" /\ on'[t] = on[t] /\ anyPc[t] = "decide"
  <2>1. since[t] = {} /\ InWait(t) /\ InWait(t)'
    BY <1>4, Zenon DEF AnyInv, Ahead, InWait
  <2>2. since'[t] = {}
    BY <2>1 DEF Watch
  <2> QED
    BY <1>1, <1>4, <2>2, Zenon DEF AnyInv, Placed, Ahead, Walking, Receiving
<1>5. CASE anyPc'[t] \in Receiving /\ (\E c \in AnyChannel : on'[t] = <<c>>)
  <2>1. ~ InWait(t)'
    BY <1>5, Zenon DEF InWait, Receiving
  <2>2. since'[t] = {}
    BY <2>1, Zenon DEF Watch
  <2>3. Placed(t)'
    BY <1>1, <1>5, Zenon DEF Placed, Walking, Receiving
  <2> QED
    BY <1>5, <2>2, <2>3, Zenon DEF Ahead, Receiving
<1> QED
  BY <1>2, <1>3, <1>4, <1>5, Zenon

\* Two steps of a thread in the multiple wait.
LEMMA ScanKeeps ==
    ASSUME AnyInv, Watch, NEW t \in AnyThread,
           Scan(t, "scan", "register") \/ Scan(t, "rescan", "decide")
    PROVE  AnyInv'
<1>1. /\ UNCHANGED <<queue, anyClosed, anyWaiters, toWake, signals>> /\ anyPc[t] \in Walking
      /\ anyPc[t] \in {"scan", "rescan"}
  BY Zenon DEF Scan, Walking
<1>2. \A c \in AnyChannel : /\ anyWaiters[c] \subseteq anyWaiters'[c] \cup toWake'
                            /\ queue'[c] <= queue[c] /\ (anyClosed'[c] => anyClosed[c])
  BY <1>1 DEF AnyInv, AnyTypes
<1>3. CASE Ready(on[t][k[t]])
  <2>1. /\ AnyTake(on[t][k[t]]) /\ AnyReturn(t, SubSeq(on[t], 1, k[t] - 1))
    BY <1>3, Zenon DEF Scan
  <2>2. /\ OnePassPerSignal' /\ sinalizado' \in [Event -> BOOLEAN]
        /\ passes' \in [AutoEvent -> Nat]
    BY <1>1, <1>3, <2>1, TakeCounts, Zenon
  <2>3. LET s == SubSeq(on[t], 1, k[t] - 1) IN {s[j] : j \in DOMAIN s} \cap since[t] = {}
    BY <1>1, PassedOver, Zenon
  <2>4. /\ NothingSkipped' /\ Placed(t)' /\ Ahead(t)' /\ Served(t)'
        /\ anyPc' \in [AnyThread -> AnyPc] /\ on' \in [AnyThread -> Seq(Object)]
        /\ k' \in [AnyThread -> Nat]
        /\ \A u \in AnyThread \ {t} : anyPc'[u] = anyPc[u] /\ on'[u] = on[u] /\ k'[u] = k[u]
    BY <2>1, <2>3, ReturnKeeps, Zenon
  <2>5. AnyTypes'
    BY <1>1, <2>2, <2>4, Zenon DEF AnyInv, AnyTypes
  <2> QED
    BY <1>1, <1>2, <2>2, <2>4, <2>5, OneMoves, ZenonT(30)
<1>4. CASE ~ Ready(on[t][k[t]])
  <2>1. PICK next \in {"register", "decide"} :
          /\ anyPc' = [anyPc EXCEPT ![t] = IF k[t] = Len(on[t]) THEN next ELSE anyPc[t]]
          /\ k' = [k EXCEPT ![t] = IF k[t] = Len(on[t]) THEN 1 ELSE @ + 1]
          /\ UNCHANGED <<on, skipped, sinalizado, passes>>
    BY <1>4, Zenon DEF Scan, GoOn, AnyGoto
  <2>2. next \in AnyPc /\ next \in {"register", "rescan", "decide"}
    BY DEF AnyPc
  <2>3. Placed(t)' /\ Ahead(t)' /\ Served(t)' /\ k' \in [AnyThread -> Nat]
    BY <1>1, <1>4, <2>1, <2>2, MoveOn, Zenon
  <2>4. AnyTypes'
    BY <1>1, <2>1, <2>2, <2>3, Zenon DEF AnyInv, AnyTypes
  <2>5. OnePassPerSignal' /\ NothingSkipped'
    BY <1>1, <2>1, Zenon DEF AnyInv, OnePassPerSignal, NothingSkipped
  <2>6. \A u \in AnyThread \ {t} : anyPc'[u] = anyPc[u] /\ on'[u] = on[u] /\ k'[u] = k[u]
    BY <2>1 DEF AnyInv, AnyTypes
  <2> QED
    BY <1>1, <1>2, <2>3, <2>4, <2>5, <2>6, OneMoves, ZenonT(30)
<1> QED
  BY <1>3, <1>4

\* The other steps of a thread.
LEMMA ThreadKeeps ==
    ASSUME AnyInv, Watch, NEW t \in AnyThread,
           \/ Register(t) \/ Decide(t) \/ Tick(t) \/ AnyWait(t) \/ AnyRecvTop(t) \/ AnyRecvLocked(t)
           \/ \E c \in AnyChannel : Recv(t, c)
    PROVE  AnyInv'
<1>0. /\ UNCHANGED <<anyClosed, sinalizado, toWake, signals, passes>> /\ OnePassPerSignal'
  BY Zenon DEF Register, Decide, Tick, AnyWait, AnyRecvTop, AnyRecvLocked, Recv, objs, anyHist, AnyInv,
     OnePassPerSignal
<1>1. ASSUME NEW s, AnyReturn(t, s), {s[j] : j \in DOMAIN s} \cap since[t] = {},
             UNCHANGED anyWaiters, queue' \in [AnyChannel -> Nat],
             \A c \in AnyChannel : queue'[c] <= queue[c]
      PROVE  AnyInv'
  <2>1. /\ NothingSkipped' /\ Placed(t)' /\ Ahead(t)' /\ Served(t)'
        /\ anyPc' \in [AnyThread -> AnyPc] /\ on' \in [AnyThread -> Seq(Object)]
        /\ k' \in [AnyThread -> Nat]
        /\ \A u \in AnyThread \ {t} : anyPc'[u] = anyPc[u] /\ on'[u] = on[u] /\ k'[u] = k[u]
    BY <1>1, ReturnKeeps, Zenon
  <2>2. AnyTypes'
    BY <1>0, <1>1, <2>1, Zenon DEF AnyInv, AnyTypes
  <2>3. \A c \in AnyChannel : /\ anyWaiters[c] \subseteq anyWaiters'[c] \cup toWake'
                              /\ queue'[c] <= queue[c] /\ (anyClosed'[c] => anyClosed[c])
    BY <1>0, <1>1, Zenon
  <2> QED
    BY <1>0, <2>1, <2>2, <2>3, OneMoves, ZenonT(30)
<1>2. ASSUME Placed(t)', Ahead(t)', Served(t)', UNCHANGED <<queue, skipped>>,
             anyPc' \in [AnyThread -> AnyPc], on' \in [AnyThread -> Seq(Object)],
             k' \in [AnyThread -> Nat], anyWaiters' \in [Object -> SUBSET AnyThread],
             \A c \in AnyChannel : anyWaiters[c] \subseteq anyWaiters'[c],
             \A u \in AnyThread \ {t} : anyPc'[u] = anyPc[u] /\ on'[u] = on[u] /\ k'[u] = k[u]
      PROVE  AnyInv'
  <2>1. AnyTypes' /\ NothingSkipped'
    BY <1>0, <1>2, Zenon DEF AnyInv, AnyTypes, NothingSkipped
  <2>2. \A c \in AnyChannel : /\ anyWaiters[c] \subseteq anyWaiters'[c] \cup toWake'
                              /\ queue'[c] <= queue[c] /\ (anyClosed'[c] => anyClosed[c])
    BY <1>0, <1>2 DEF AnyInv, AnyTypes
  <2> QED
    BY <1>0, <1>2, <2>1, <2>2, OneMoves, ZenonT(30)
<1>3. CASE Register(t)
  <2> DEFINE last == k[t] = Len(on[t])
  <2>1. /\ anyPc[t] = "register" /\ UNCHANGED <<queue, on, skipped>>
        /\ anyPc' = [anyPc EXCEPT ![t] = IF last THEN "rescan" ELSE anyPc[t]]
        /\ k' = [k EXCEPT ![t] = IF last THEN 1 ELSE @ + 1]
        /\ anyWaiters' = [anyWaiters EXCEPT ![on[t][k[t]]] = @ \cup {t}]
    BY <1>3, Zenon DEF Register, AnyGoto
  <2>2. "rescan" \in AnyPc /\ anyPc[t] \in Walking
    BY <2>1, Zenon DEF AnyPc, Walking
  <2>3. Placed(t)' /\ Ahead(t)' /\ Served(t)' /\ k' \in [AnyThread -> Nat]
    BY <1>0, <2>1, <2>2, MoveOn, Zenon
  <2>4. /\ anyWaiters' \in [Object -> SUBSET AnyThread]
        /\ \A c \in AnyChannel : anyWaiters[c] \subseteq anyWaiters'[c]
    BY <2>1, ObjectsApart, Zenon DEF AnyInv, AnyTypes
  <2>5. /\ anyPc' \in [AnyThread -> AnyPc] /\ on' \in [AnyThread -> Seq(Object)]
        /\ \A u \in AnyThread \ {t} : anyPc'[u] = anyPc[u] /\ on'[u] = on[u] /\ k'[u] = k[u]
    BY <2>1, <2>2, Zenon DEF AnyInv, AnyTypes
  <2> QED
    BY <1>2, <2>1, <2>3, <2>4, <2>5, Zenon
<1>4. CASE /\ Decide(t) \/ AnyRecvTop(t)
           /\ AnyReturn(t, on[t])
  <2>1. since[t] = {} /\ UNCHANGED <<queue, anyWaiters>>
    BY <1>4, Zenon DEF Decide, AnyRecvTop, objs, AnyInv, Ahead
  <2>2. \A c \in AnyChannel : queue[c] <= queue[c] /\ queue \in [AnyChannel -> Nat]
    BY DEF AnyInv, AnyTypes
  <2>3. queue \in [AnyChannel -> Nat]
    BY DEF AnyInv, AnyTypes
  <2> QED
    BY <1>1, <1>4, <2>1, <2>2, <2>3, Zenon
<1>5. ASSUME UNCHANGED <<queue, anyWaiters, k, skipped>>, anyPc[t] \notin Walking,
             NEW next \in AnyPc, anyPc' = [anyPc EXCEPT ![t] = next], next # "blocked",
             on' \in [AnyThread -> Seq(Object)], \A u \in AnyThread \ {t} : on'[u] = on[u],
             \/ next = "scan" /\ on'[t] = on[t] /\ anyPc[t] = "asleep"
             \/ next = "scan" /\ anyPc[t] = "user" /\ on'[t] # <<>>
             \/ next = "asleep" /\ on'[t] = on[t] /\ anyPc[t] = "decide"
             \/ next \in Receiving /\ (\E c \in AnyChannel : on'[t] = <<c>>)
      PROVE  AnyInv'
  <2>1. /\ anyPc' \in [AnyThread -> AnyPc] /\ anyPc'[t] = next
        /\ \A u \in AnyThread \ {t} : anyPc'[u] = anyPc[u]
    BY <1>5, Zenon DEF AnyInv, AnyTypes
  <2>2. on'[t] \in Seq(Object)
    BY <1>5, Zenon
  <2>3. Placed(t)' /\ Ahead(t)'
    BY <1>5, <2>1, <2>2, PlaceKeeps, Zenon
  <2>4. Served(t)'
    BY <1>5, <2>1, Zenon DEF Served
  <2>5. /\ k' \in [AnyThread -> Nat] /\ anyWaiters' \in [Object -> SUBSET AnyThread]
        /\ \A c \in AnyChannel : anyWaiters[c] \subseteq anyWaiters'[c]
        /\ \A u \in AnyThread \ {t} : k'[u] = k[u]
    BY <1>5, Zenon DEF AnyInv, AnyTypes
  <2> QED
    BY <1>2, <1>5, <2>1, <2>3, <2>4, <2>5, Zenon
<1>6. CASE Decide(t) /\ ~ AnyReturn(t, on[t])
  <2>1. /\ UNCHANGED <<queue, anyWaiters, k, skipped, on>> /\ anyPc[t] = "decide"
        /\ anyPc' = [anyPc EXCEPT ![t] = "asleep"]
    BY <1>6, Zenon DEF Decide, GoOn, AnyGoto, objs
  <2> QED
    BY <1>5, <2>1, Zenon DEF Walking, AnyPc, AnyInv, AnyTypes
<1>7. CASE Tick(t)
  <2>1. /\ UNCHANGED <<queue, anyWaiters, k, skipped, on>> /\ anyPc[t] = "asleep"
        /\ anyPc' = [anyPc EXCEPT ![t] = "scan"]
    BY <1>7 DEF Tick, AnyGoto, objs
  <2> QED
    BY <1>5, <2>1, Zenon DEF Walking, AnyPc, AnyInv, AnyTypes
<1>8. CASE AnyWait(t)
  <2>1. PICK l \in Lists :
          /\ UNCHANGED <<queue, anyWaiters, k, skipped>> /\ anyPc[t] = "user"
          /\ anyPc' = [anyPc EXCEPT ![t] = "scan"] /\ on' = [on EXCEPT ![t] = l]
    BY <1>8, Zenon DEF AnyWait, AnyGoto, objs
  <2>2. l \in Seq(Object) /\ l # <<>>
    BY WaitAnyAssumption
  <2>3. /\ on' \in [AnyThread -> Seq(Object)] /\ on'[t] = l
        /\ \A u \in AnyThread \ {t} : on'[u] = on[u]
    BY <2>1, <2>2, Zenon DEF AnyInv, AnyTypes
  <2>4. "scan" \in AnyPc /\ anyPc[t] \notin Walking
    BY <2>1 DEF AnyPc, Walking
  <2> QED
    BY <1>5, <2>1, <2>2, <2>3, <2>4, Zenon
<1>9. ASSUME NEW c \in AnyChannel, Recv(t, c)
      PROVE  AnyInv'
  <2>1. /\ UNCHANGED <<queue, anyWaiters, k, skipped>> /\ anyPc[t] = "user"
        /\ anyPc' = [anyPc EXCEPT ![t] = "recv"] /\ on' = [on EXCEPT ![t] = <<c>>]
    BY <1>9, Zenon DEF Recv, AnyGoto, objs
  <2>2. <<c>> \in Seq(Object)
    BY ObjectsApart
  <2>3. /\ on' \in [AnyThread -> Seq(Object)] /\ on'[t] = <<c>>
        /\ \A u \in AnyThread \ {t} : on'[u] = on[u]
    BY <2>1, <2>2, Zenon DEF AnyInv, AnyTypes
  <2>4. "recv" \in AnyPc /\ anyPc[t] \notin Walking /\ "recv" \in Receiving
    BY <2>1 DEF AnyPc, Walking, Receiving
  <2> QED
    BY <1>5, <2>1, <2>3, <2>4, Zenon
<1>10. CASE AnyRecvTop(t) /\ ~ AnyReturn(t, on[t])
  <2>1. /\ UNCHANGED <<queue, anyWaiters, k, skipped, on>> /\ anyPc[t] = "recv"
        /\ anyPc' = [anyPc EXCEPT ![t] = "lock"]
    BY <1>10, Zenon DEF AnyRecvTop, GoOn, AnyGoto, objs
  <2>2. \E c \in AnyChannel : on'[t] = <<c>>
    BY <2>1, Zenon DEF AnyInv, Placed, Receiving
  <2>3. "lock" \in AnyPc /\ anyPc[t] \notin Walking /\ "lock" \in Receiving
    BY <2>1 DEF AnyPc, Walking, Receiving
  <2>4. on' \in [AnyThread -> Seq(Object)] /\ \A u \in AnyThread \ {t} : on'[u] = on[u]
    BY <2>1 DEF AnyInv, AnyTypes
  <2> QED
    BY <1>5, <2>1, <2>2, <2>3, <2>4, Zenon
<1>11. CASE AnyRecvLocked(t)
  <2>0. anyPc[t] \in Receiving /\ Placed(t)
    BY <1>11, Zenon DEF AnyRecvLocked, Receiving, AnyInv
  <2>1. PICK c \in AnyChannel : on[t] = <<c>> /\ on[t][1] = c
    <3>1. PICK c \in AnyChannel : on[t] = <<c>>
      BY <2>0, Zenon DEF Placed
    <3>2. <<c>>[1] = c
      OBVIOUS
    <3> QED
      BY <3>1, <3>2, Zenon
  <2>2. CASE AnyReturn(t, <<>>) /\ UNCHANGED anyWaiters
             /\ queue' = [queue EXCEPT ![c] = IF @ > 0 THEN @ - 1 ELSE @]
    <3>1. queue' \in [AnyChannel -> Nat] /\ \A d \in AnyChannel : queue'[d] <= queue[d]
      BY <2>2 DEF AnyInv, AnyTypes
    <3>2. {<<>>[j] : j \in DOMAIN <<>>} \cap since[t] = {}
      <4>1. DOMAIN <<>> = {}
        OBVIOUS
      <4> QED
        BY <4>1, Zenon
    <3> QED
      BY <1>1, <2>2, <3>1, <3>2, Zenon
  <2>3. CASE /\ ~ Ready(c) /\ anyWaiters' = [anyWaiters EXCEPT ![c] = @ \cup {t}]
             /\ anyPc' = [anyPc EXCEPT ![t] = "blocked"] /\ UNCHANGED <<queue, k, on, skipped>>
    <3>1. "blocked" \in AnyPc /\ anyPc[t] \notin Walking /\ "blocked" \in Receiving
      BY <1>11, Zenon DEF AnyRecvLocked, AnyPc, Walking, Receiving
    <3>2. /\ anyPc' \in [AnyThread -> AnyPc] /\ anyPc'[t] = "blocked"
          /\ \A u \in AnyThread \ {t} : anyPc'[u] = anyPc[u]
      BY <2>3, <3>1, Zenon DEF AnyInv, AnyTypes
    <3>3. Placed(t)' /\ Ahead(t)'
      BY <2>1, <2>3, <3>1, <3>2, PlaceKeeps, Zenon
    <3>4. /\ anyWaiters' \in [Object -> SUBSET AnyThread] /\ t \in anyWaiters'[c]
          /\ \A d \in AnyChannel : anyWaiters[d] \subseteq anyWaiters'[d]
      BY <2>3, ObjectsApart, Zenon DEF AnyInv, AnyTypes
    <3>5. queue[c] = 0 /\ ~ anyClosed[c]
      BY <2>3 DEF Ready, AnyInv, AnyTypes
    <3>6. Served(t)'
      BY <1>0, <2>1, <2>3, <3>4, <3>5, Zenon DEF Served
    <3>7. on' \in [AnyThread -> Seq(Object)] /\ k' \in [AnyThread -> Nat]
      BY <2>3, Zenon DEF AnyInv, AnyTypes
    <3> QED
      BY <1>2, <2>3, <3>2, <3>3, <3>4, <3>6, <3>7, Zenon
  <2> QED
    BY <1>11, <2>1, <2>2, <2>3, Zenon DEF AnyRecvLocked, GoOn, AnyGoto
<1> QED
  BY <1>3, <1>4, <1>6, <1>7, <1>8, <1>9, <1>10, <1>11

\* The steps of the other side, which leave every thread where it is.
LEMMA OthersKeep ==
    ASSUME AnyInv, Watch, UNCHANGED <<anyPc, on, k, skipped>>, AnyTypes', OnePassPerSignal',
           toWake \subseteq toWake',
           \A c \in AnyChannel : /\ anyWaiters[c] \subseteq anyWaiters'[c] \cup toWake'
                                 /\ \/ queue'[c] <= queue[c] /\ (anyClosed'[c] => anyClosed[c])
                                    \/ anyWaiters[c] \subseteq toWake'
    PROVE  AnyInv'
<1>1. \A u \in AnyThread : Placed(u)' /\ Ahead(u)' /\ Served(u)'
  <2> SUFFICES ASSUME NEW u \in AnyThread PROVE Placed(u)' /\ Ahead(u)' /\ Served(u)'
    BY Zenon
  <2>1. Placed(u)' /\ Ahead(u)'
    BY StaysAhead, Zenon
  <2>2. queue' \in [AnyChannel -> Nat]
    BY Zenon DEF AnyTypes
  <2>3. Served(u)'
    BY <2>2, StaysServed, Zenon
  <2> QED
    BY <2>1, <2>3, Zenon
<1> QED
  BY <1>1, Zenon DEF AnyInv, Watch, NothingSkipped

\* Sends, closes, signals, resets, kills, deadlines and polls keep AnyInv.
LEMMA OtherKeeps ==
    ASSUME AnyInv, Watch,
           Other \/ \E t \in AnyThread : Expire(t) \/ \E c \in AnyChannel : AnyTryRecv(t, c)
    PROVE  AnyInv'
<1>0. \A c \in AnyChannel : queue[c] \in Nat /\ queue[c] <= queue[c]
  BY DEF AnyInv, AnyTypes
<1>1. ASSUME NEW c \in AnyChannel, AnySend(c) \/ AnyClose(c)
      PROVE  AnyInv'
  <2>1. /\ UNCHANGED <<sinalizado, signals, passes, anyPc, on, k, skipped>>
        /\ toWake' = toWake \cup anyWaiters[c]
        /\ anyWaiters' = [anyWaiters EXCEPT ![c] = {}]
    BY <1>1, Zenon DEF AnySend, AnyClose, Wakes, anyHist
  <2>2. /\ queue' \in [AnyChannel -> Nat] /\ anyClosed' \in [AnyChannel -> BOOLEAN]
        /\ \A d \in AnyChannel \ {c} : queue'[d] = queue[d] /\ anyClosed'[d] = anyClosed[d]
    <3>1. CASE AnySend(c)
      BY <1>0, <3>1 DEF AnySend, AnyInv, AnyTypes
    <3>2. CASE AnyClose(c)
      BY <3>2, Zenon DEF AnyClose, AnyInv, AnyTypes
    <3> QED
      BY <1>1, <3>1, <3>2, Zenon
  <2>3. AnyTypes' /\ OnePassPerSignal'
    BY <2>1, <2>2, Zenon DEF AnyInv, AnyTypes, OnePassPerSignal
  <2>4. \A d \in AnyChannel \ {c} : anyWaiters'[d] = anyWaiters[d]
    BY <2>1 DEF AnyInv, AnyTypes
  <2>5. \A d \in AnyChannel : /\ anyWaiters[d] \subseteq anyWaiters'[d] \cup toWake'
                              /\ \/ queue'[d] <= queue[d] /\ (anyClosed'[d] => anyClosed[d])
                                 \/ anyWaiters[d] \subseteq toWake'
    BY <1>0, <2>1, <2>2, <2>4, Zenon
  <2>6. toWake \subseteq toWake'
    BY <2>1
  <2> QED
    BY <2>1, <2>3, <2>5, <2>6, OthersKeep, Zenon
<1>2. ASSUME UNCHANGED <<queue, anyClosed, anyPc, on, k, skipped>>, toWake \subseteq toWake',
             sinalizado' \in [Event -> BOOLEAN], signals' \in [AutoEvent -> Nat], UNCHANGED passes,
             anyWaiters' \in [Object -> SUBSET AnyThread], OnePassPerSignal',
             \A c \in AnyChannel : anyWaiters'[c] = anyWaiters[c]
      PROVE  AnyInv'
  <2>1. AnyTypes'
    BY <1>2, Zenon DEF AnyInv, AnyTypes
  <2>2. \A d \in AnyChannel : /\ anyWaiters[d] \subseteq anyWaiters'[d] \cup toWake'
                              /\ queue'[d] <= queue[d] /\ (anyClosed'[d] => anyClosed[d])
    BY <1>0, <1>2, Zenon
  <2> QED
    BY <1>2, <2>1, <2>2, OthersKeep, Zenon
<1>3. ASSUME NEW e \in Event, Signal(e)
      PROVE  AnyInv'
  <2>1. /\ UNCHANGED <<queue, anyClosed, anyPc, on, k, skipped, passes>>
        /\ sinalizado' = [sinalizado EXCEPT ![e] = TRUE]
    BY <1>3, Zenon DEF Signal
  <2>2. sinalizado' \in [Event -> BOOLEAN] /\ \A f \in Event \ {e} : sinalizado'[f] = sinalizado[f]
    BY <2>1 DEF AnyInv, AnyTypes
  <2>3. PICK W \in SUBSET AnyThread : anyWaiters' = [anyWaiters EXCEPT ![e] = W]
    <3>1. anyWaiters = [anyWaiters EXCEPT ![e] = anyWaiters[e]] /\ anyWaiters[e] \subseteq AnyThread
      BY ObjectsApart, Zenon DEF AnyInv, AnyTypes
    <3>2. CASE e \in AutoEvent
      BY <1>3, <3>1, <3>2, Zenon DEF Signal
    <3>3. CASE e \notin AutoEvent
      BY <1>3, <3>3 DEF Signal, Wakes
    <3> QED
      BY <3>2, <3>3
  <2>4. /\ anyWaiters' \in [Object -> SUBSET AnyThread]
        /\ \A c \in AnyChannel : anyWaiters'[c] = anyWaiters[c]
    BY <2>3, ObjectsApart, Zenon DEF AnyInv, AnyTypes
  <2>5. toWake \subseteq toWake'
    BY <1>3 DEF Signal, Wakes
  <2>6. signals' \in [AutoEvent -> Nat] /\ OnePassPerSignal'
    <3>1. \A f \in AutoEvent : passes[f] \in Nat /\ signals[f] \in Nat
      BY Zenon DEF AnyInv, AnyTypes
    <3>2. CASE e \in AutoEvent
      <4>1. signals' = [signals EXCEPT ![e] = @ + 1]
        BY <1>3, <3>2 DEF Signal
      <4>2. /\ signals' \in [AutoEvent -> Nat] /\ signals'[e] = signals[e] + 1
            /\ \A f \in AutoEvent \ {e} : signals'[f] = signals[f]
        BY <3>1, <3>2, <4>1 DEF AnyInv, AnyTypes
      <4>3. \A f \in AutoEvent : passes[f] + (IF sinalizado'[f] THEN 1 ELSE 0) <= signals'[f]
        <5> SUFFICES ASSUME NEW f \in AutoEvent
                     PROVE  passes[f] + (IF sinalizado'[f] THEN 1 ELSE 0) <= signals'[f]
          BY Zenon
        <5>1. CASE f = e
          <6>1. passes[e] <= signals[e]
            BY <3>1, <3>2 DEF AnyInv, OnePassPerSignal
          <6> QED
            BY <3>1, <3>2, <4>2, <5>1, <6>1
        <5>2. CASE f # e
          <6>1. sinalizado'[f] = sinalizado[f]
            BY <2>2, <5>2, ObjectsApart
          <6> QED
            BY <4>2, <5>2, <6>1, Zenon DEF AnyInv, OnePassPerSignal
        <5> QED
          BY <5>1, <5>2, Zenon
      <4> QED
        BY <2>1, <4>2, <4>3, Zenon DEF OnePassPerSignal
    <3>3. CASE e \notin AutoEvent
      <4>1. signals' = signals
        BY <1>3, <3>3, Zenon DEF Signal
      <4>2. \A f \in AutoEvent : sinalizado'[f] = sinalizado[f]
        BY <2>2, <3>3, ObjectsApart
      <4> QED
        BY <2>1, <4>1, <4>2, Zenon DEF AnyInv, AnyTypes, OnePassPerSignal
    <3> QED
      BY <3>2, <3>3, Zenon
  <2> QED
    BY <1>2, <2>1, <2>2, <2>4, <2>5, <2>6, Zenon
<1>4. ASSUME NEW e \in Event, Reset(e)
      PROVE  AnyInv'
  <2>1. /\ UNCHANGED <<queue, anyClosed, anyWaiters, toWake, anyPc, on, k, skipped, signals, passes>>
        /\ sinalizado' = [sinalizado EXCEPT ![e] = FALSE]
    BY <1>4 DEF Reset, anyHist
  <2>2. /\ sinalizado' \in [Event -> BOOLEAN]
        /\ \A f \in Event : sinalizado'[f] => sinalizado[f]
    BY <2>1, Zenon DEF AnyInv, AnyTypes
  <2>3. \A f \in AutoEvent : passes[f] \in Nat /\ signals[f] \in Nat /\ f \in Event
    BY ObjectsApart, Zenon DEF AnyInv, AnyTypes
  <2>4. ASSUME NEW f \in AutoEvent
        PROVE  passes'[f] + (IF sinalizado'[f] THEN 1 ELSE 0) <= signals'[f]
    <3>1. passes[f] + (IF sinalizado[f] THEN 1 ELSE 0) <= signals[f]
      BY Zenon DEF AnyInv, OnePassPerSignal
    <3>2. sinalizado'[f] => sinalizado[f]
      BY <2>2, <2>3, Zenon
    <3>3. passes[f] <= signals[f] /\ (sinalizado'[f] => passes[f] + 1 <= signals[f])
      BY <2>3, <3>1, <3>2
    <3> QED
      BY <2>1, <2>3, <3>3, SMTT(30)
  <2>5. OnePassPerSignal'
    BY <2>4, Zenon DEF OnePassPerSignal
  <2> QED
    BY <1>2, <2>1, <2>2, <2>5, Zenon DEF AnyInv, AnyTypes
<1>5. CASE Kill \/ \E t \in AnyThread : Expire(t)
  <2>1. /\ UNCHANGED <<queue, anyClosed, sinalizado, anyWaiters, anyPc, on, k, skipped, signals, passes>>
        /\ toWake' = toWake \/ toWake' = AnyThread
    BY <1>5, Zenon DEF Kill, Expire, objs, anyHist
  <2>2. AnyTypes' /\ NothingSkipped' /\ OnePassPerSignal'
    BY <2>1, Zenon DEF AnyInv, AnyTypes, NothingSkipped, OnePassPerSignal
  <2>3. \A u \in AnyThread : Placed(u)' /\ Ahead(u)'
    BY <2>1, StaysAhead, Zenon
  <2>4. \A u \in AnyThread : Served(u)'
    BY <2>1, Zenon DEF AnyInv, Served
  <2> QED
    BY <2>2, <2>3, <2>4, Zenon DEF AnyInv, Watch
<1>6. ASSUME NEW t \in AnyThread, NEW c \in AnyChannel, AnyTryRecv(t, c)
      PROVE  AnyInv'
  <2>1. /\ UNCHANGED <<anyClosed, sinalizado, anyWaiters, toWake, anyPc, on, k, skipped, signals, passes>>
        /\ queue' = [queue EXCEPT ![c] = @ - 1] /\ queue[c] > 0
    BY <1>6, Zenon DEF AnyTryRecv, anyHist
  <2>2. queue' \in [AnyChannel -> Nat] /\ \A d \in AnyChannel : queue'[d] <= queue[d]
    BY <1>0, <2>1 DEF AnyInv, AnyTypes
  <2>3. AnyTypes' /\ OnePassPerSignal'
    BY <2>1, <2>2, Zenon DEF AnyInv, AnyTypes, OnePassPerSignal
  <2> QED
    BY <2>1, <2>2, <2>3, OthersKeep, Zenon
<1> QED
  BY <1>1, <1>3, <1>4, <1>5, <1>6 DEF Other

\* Unparking a thread serves it.
LEMMA UnparkKeeps ==
    ASSUME AnyInv, Watch, NEW t \in AnyThread, AnyUnpark(t)
    PROVE  AnyInv'
<1>1. /\ UNCHANGED <<queue, anyClosed, sinalizado, anyWaiters, on, k, skipped, signals, passes>>
      /\ toWake' = toWake \ {t}
      /\ anyPc' = IF anyPc[t] = "blocked" THEN [anyPc EXCEPT ![t] = "recv"] ELSE anyPc
  BY Zenon DEF AnyUnpark, objs, anyHist
<1>2. AnyTypes' /\ OnePassPerSignal' /\ NothingSkipped'
  BY <1>1, Zenon DEF AnyInv, AnyTypes, AnyPc, OnePassPerSignal, NothingSkipped
<1>3. anyPc'[t] # "blocked" /\ \A u \in AnyThread \ {t} : anyPc'[u] = anyPc[u]
  BY <1>1, Zenon DEF AnyInv, AnyTypes
<1>4. Placed(t)' /\ Ahead(t)'
  <2>1. CASE anyPc[t] = "blocked"
    <3>1. anyPc'[t] = "recv"
      BY <1>1, <2>1, Zenon DEF AnyInv, AnyTypes
    <3>2. \E c \in AnyChannel : on'[t] = <<c>>
      BY <1>1, <2>1, Zenon DEF AnyInv, Placed, Receiving
    <3> QED
      BY <1>1, <1>2, <2>1, <3>1, <3>2, PlaceKeeps, Zenon DEF AnyTypes, Walking, Receiving
  <2>2. CASE anyPc[t] # "blocked"
    BY <1>1, <2>2, StaysAhead, Zenon
  <2> QED
    BY <2>1, <2>2
<1>5. Served(t)'
  BY <1>3, Zenon DEF Served
<1>6. \A c \in AnyChannel : /\ anyWaiters[c] \subseteq anyWaiters'[c] \cup toWake'
                            /\ queue'[c] <= queue[c] /\ (anyClosed'[c] => anyClosed[c])
  BY <1>1 DEF AnyInv, AnyTypes
<1>7. \A u \in AnyThread \ {t} : u \in toWake => u \in toWake'
  BY <1>1
<1>8. \A u \in AnyThread \ {t} : anyPc'[u] = anyPc[u] /\ on'[u] = on[u] /\ k'[u] = k[u]
  BY <1>1, <1>3, Zenon
<1> QED
  BY <1>2, <1>4, <1>5, <1>6, <1>7, <1>8, OneMoves, ZenonT(30)

\* AnyInv holds of every behaviour.
LEMMA AnyInvariant == AnySpec => []AnyInv
<1>1. AnyInit => AnyInv
  <2> SUFFICES ASSUME AnyInit PROVE AnyInv
    OBVIOUS
  <2>1. AnyTypes
    BY DEF AnyInit, AnyTypes, AnyPc
  <2>2. OnePassPerSignal /\ NothingSkipped
    BY ObjectsApart DEF AnyInit, OnePassPerSignal, NothingSkipped
  <2>3. \A t \in AnyThread : Placed(t) /\ Ahead(t) /\ Served(t)
    BY Zenon DEF AnyInit, Placed, Ahead, Served, Walking, Receiving
  <2> QED
    BY <2>1, <2>2, <2>3 DEF AnyInit, AnyInv
<1>2. AnyInv /\ [AnyNext]_anyVars => AnyInv'
  <2> SUFFICES ASSUME AnyInv, [AnyNext]_anyVars PROVE AnyInv'
    OBVIOUS
  <2>1. CASE UNCHANGED anyVars
    <3>1. /\ UNCHANGED <<queue, anyClosed, sinalizado, anyWaiters, toWake, anyPc, on, k>>
          /\ UNCHANGED <<signals, passes, since, skipped>>
      BY <2>1, Zenon DEF anyVars
    <3>2. AnyTypes'
      BY <3>1, Zenon DEF AnyInv, AnyTypes
    <3>3. OnePassPerSignal' /\ NothingSkipped'
      BY <3>1, Zenon DEF AnyInv, OnePassPerSignal, NothingSkipped
    <3>4. \A t \in AnyThread : Placed(t)' /\ Ahead(t)' /\ Served(t)'
      BY <3>1 DEF AnyInv, Placed, Ahead, Served
    <3> QED
      BY <3>1, <3>2, <3>3, <3>4, Zenon DEF AnyInv
  <2>2. CASE Step /\ Watch
    BY <2>2, ScanKeeps, ThreadKeeps, OtherKeeps, UnparkKeeps DEF Step, Inside, AnyCall
  <2> QED
    BY <2>1, <2>2 DEF AnyNext
<1> QED
  BY <1>1, <1>2, PTL DEF AnySpec

\* An automatic event lets one wait through for a signal, and a multiple wait
\* passes over nothing that was ready all along, whatever the lists of handles,
\* the threads and the objects.
THEOREM WaitsPassRight == AnySpec => []WaitsPass
<1>1. AnyInv => WaitsPass
  BY DEF AnyInv, WaitsPass
<1> QED
  BY <1>1, AnyInvariant, PTL

\* What a multiple wait leaves in the lists of waiters costs no receiver its wake-up.
THEOREM ReceiversServed == AnySpec => []BlockedServed
<1>1. AnyInv => BlockedServed
  <2> SUFFICES ASSUME AnyInv, NEW t \in AnyThread, anyPc[t] = "blocked", t \notin toWake
               PROVE  t \in anyWaiters[on[t][1]] /\ ~ Ready(on[t][1])
    BY Zenon DEF BlockedServed
  <2>1. on[t][1] \in AnyChannel
    <3>1. PICK c \in AnyChannel : on[t] = <<c>>
      BY Zenon DEF AnyInv, Placed, Receiving
    <3> QED
      BY <3>1
  <2>2. t \in anyWaiters[on[t][1]] /\ queue[on[t][1]] = 0 /\ ~ anyClosed[on[t][1]]
    BY Zenon DEF AnyInv, Served
  <2> QED
    <3>1. ~(queue[on[t][1]] > 0)
      BY <2>2
    <3> QED
      BY <2>1, <2>2, <3>1, Zenon DEF Ready
<1> QED
  BY <1>1, AnyInvariant, PTL
=============================================================================
