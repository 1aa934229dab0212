---------------------------- MODULE HandleProofs ----------------------------
(***************************************************************************)
(* Handles and the collector of unreachable ends (Handles), for any number *)
(* of processes, channels and collections: handles move, they are never    *)
(* copied nor lost; the collector closes nothing that can be reached; and  *)
(* a collection that is not called off closes all that could not.          *)
(*                                                                         *)
(* HeldInv says where each end is and what each call holds.  Moves bounds  *)
(* what a step may do behind the collector's back.  MarkInv is the         *)
(* marking: if no window opened since the generation was read, roots and   *)
(* queues lead only to marked ends and to those still to be visited.       *)
(***************************************************************************)
EXTENDS Handles, FiniteSetTheorems, TLAPS

-----------------------------------------------------------------------------
(* The invariant.                                                          *)

InWindow == {"open", "take", "push", "popped", "insert", "leave"}
Counted == {"take", "push", "insert", "leave"}
Holding == {"push", "popped", "insert"}
HtSteps == InWindow \cup {"user", "create", "exit", "dead"}

HtTypes ==
    /\ created \subseteq Chan
    /\ live \subseteq HtProcess
    /\ table \in [HtProcess -> SUBSET End]
    /\ htQueues \in [End -> Seq(End)]
    /\ htClosed \in [End -> BOOLEAN]
    /\ pinned \in [End -> BOOLEAN]
    /\ IPC_GEN \in Nat
    /\ htPc \in [HtProcess -> HtSteps]
    /\ via \in [HtProcess -> End \cup {NoEnd}]
    /\ hand \in [HtProcess -> End \cup {NoEnd}]
    /\ dropping \in [HtActor -> SUBSET End]

\* The four places of an end that is not pinned.
Tabled(e) == \E p \in HtProcess : e \in table[p]
InHand(e) == \E p \in HtProcess : hand[p] = e
Queued(e) == \E x \in End : e \in Carried(x)
Falling(e) == \E a \in HtActor : e \in dropping[a]
Nowhere(e) == ~ Tabled(e) /\ ~ InHand(e) /\ ~ Queued(e) /\ ~ Falling(e)

\* An end is in one place at most, in none while it is pinned, and in none
\* before its channel is created; an open end is somewhere.
OneAt(e) ==
    /\ \A p, q \in HtProcess : e \in table[p] /\ e \in table[q] => p = q
    /\ \A p, q \in HtProcess : hand[p] = e /\ hand[q] = e => p = q
    /\ \A x, y \in End : e \in Carried(x) /\ e \in Carried(y) => x = y
    /\ \A a, b \in HtActor : e \in dropping[a] /\ e \in dropping[b] => a = b
    /\ Tabled(e) => ~ InHand(e) /\ ~ Queued(e) /\ ~ Falling(e)
    /\ InHand(e) => ~ Queued(e) /\ ~ Falling(e)
    /\ Queued(e) => ~ Falling(e)
    /\ pinned[e] => Nowhere(e)

EndOk(e) ==
    /\ OneAt(e)
    /\ ChanOf[e] \notin created => Nowhere(e) /\ ~ pinned[e] /\ ~ htClosed[e]
    /\ ChanOf[e] \in created /\ ~ htClosed[e] => ~ Nowhere(e) \/ pinned[e] \/ e \in ends

\* A queue has no end twice, and none when its end is closed or not created.
QueueOk(x) ==
    /\ \A i, j \in DOMAIN htQueues[x] : htQueues[x][i] = htQueues[x][j] => i = j
    /\ htClosed[x] \/ ChanOf[x] \notin created => htQueues[x] = <<>>

\* What a call holds at each of its steps.
CallOf(p) ==
    /\ hand[p] # NoEnd <=> htPc[p] \in Holding
    /\ htPc[p] \in InWindow \cup {"create"} => via[p] \in EndsOf(created)
    /\ htPc[p] = "create" => pinned[via[p]] /\ pinned[HtPeer(via[p])]
    /\ htPc[p] \in {"exit", "dead"} => table[p] = {}
    /\ p \in live \/ htPc[p] = "dead"

CreatesApart ==
    \A p, q \in HtProcess :
        htPc[p] = "create" /\ htPc[q] = "create" /\ ChanOf[via[p]] = ChanOf[via[q]] => p = q

Counts == IPC_INFLIGHT = Cardinality({p \in HtProcess : htPc[p] \in Counted})

HeldInv ==
    /\ HtTypes
    /\ \A e \in End : EndOk(e) /\ QueueOk(e)
    /\ (\A p \in HtProcess : CallOf(p)) /\ CreatesApart /\ Counts

\* The collector.
Copied == {"pinned", "tables", "work", "close", "retry", "done"}

CollTypes ==
    /\ cpc \in Copied \cup {"idle", "gen", "ends"}
    /\ gen0 \in Nat /\ raced \in BOOLEAN
    /\ ends \subseteq EndsOf(created)
    /\ marked \subseteq End
    /\ work \subseteq marked
    /\ htTodo \subseteq HtProcess
    /\ doomed \subseteq EndsOf(created)
    /\ cpc \notin Copied => ends = {} 
    /\ cpc \notin Copied \ {"pinned"} => marked = {}
    /\ cpc \in {"idle", "gen"} => doomed = {} /\ ~ raced
    /\ cpc \in {"close", "retry", "done"} => work = {}
    /\ cpc = "work" => htTodo = {}
    /\ cpc \notin {"idle", "close"} => dropping[Collector] = {}

\* A set of ends that no process and no end outside it leads to.
Sealed(G) ==
    /\ \A e \in G : ~ Tabled(e) /\ ~ InHand(e) /\ ~ pinned[e]
    /\ \A x \in End \ G : Carried(x) \cap G = {}

\* No window was open when the generation was read, and none opened since.
Undisturbed == ~ raced /\ IPC_GEN = gen0
NoWindow == \A p \in HtProcess : htPc[p] \notin InWindow

MarkInv ==
    /\ cpc \notin {"idle", "gen"} => gen0 <= IPC_GEN
    /\ cpc \in {"ends", "pinned", "tables", "work"} /\ Undisturbed => NoWindow
    /\ cpc \in {"pinned", "tables", "work"} /\ Undisturbed =>
          \A x \in End \ ends : Carried(x) = {}
    /\ cpc \in {"tables", "work"} /\ Undisturbed =>
          /\ \A p \in HtProcess \ htTodo : table[p] \cap ends \subseteq marked
          /\ \A e \in ends : pinned[e] => e \in marked
          /\ \A x \in marked \ work : Carried(x) \subseteq marked
    /\ cpc \in {"close", "done"} /\ ~ raced => Sealed(ends \ marked)

DoomInv ==
    /\ Sealed(doomed)
    /\ marked \cap doomed = {}
    /\ cpc \in Copied => \A e \in doomed : htClosed[e] \/ e \in ends
    /\ cpc = "done" => \A e \in ends \ marked : htClosed[e]

HtInv == HeldInv /\ CollTypes /\ MarkInv /\ DoomInv

-----------------------------------------------------------------------------
(* Where the ends are.                                                     *)

\* A channel has an end and its peer.
LEMMA PeerIs ==
    \A e \in End : /\ HtPeer(e) \in End /\ HtPeer(e) # e /\ ChanOf[HtPeer(e)] = ChanOf[e]
                   /\ EndsOf({ChanOf[e]}) = {e, HtPeer(e)}
<1> SUFFICES ASSUME NEW e \in End
    PROVE  /\ HtPeer(e) \in End /\ HtPeer(e) # e /\ ChanOf[HtPeer(e)] = ChanOf[e]
           /\ EndsOf({ChanOf[e]}) = {e, HtPeer(e)}
  BY Zenon
<1>1. ChanOf[e] \in Chan
  BY HandlesAssumption
<1>2. PICK a, b \in End : a # b /\ EndsOf({ChanOf[e]}) = {a, b}
  BY <1>1, HandlesAssumption
<1>3. \A x \in End : ChanOf[x] = ChanOf[e] <=> x \in {a, b}
  BY <1>2 DEF EndsOf
<1>4. \E x \in End : x # e /\ ChanOf[x] = ChanOf[e]
  BY <1>2, <1>3
<1>5. HtPeer(e) \in End /\ HtPeer(e) # e /\ ChanOf[HtPeer(e)] = ChanOf[e]
  BY <1>4, Zenon DEF HtPeer
<1> QED
  BY <1>2, <1>3, <1>5

\* What the queue of an end carries after each of the things that happen to it.
LEMMA CarriedSame ==
    ASSUME UNCHANGED htQueues
    PROVE  \A x : Carried(x)' = Carried(x)
BY Zenon DEF Carried

\* A queue after a send,
LEMMA CarriedPushed ==
    ASSUME HtTypes, NEW q \in End, NEW h \in End,
           htQueues' = [htQueues EXCEPT ![q] = Append(htQueues[q], h)]
    PROVE  /\ Carried(q)' = Carried(q) \cup {h}
           /\ \A x \in End \ {q} : Carried(x)' = Carried(x)
           /\ htQueues' \in [End -> Seq(End)]
           /\ QueueOk(q) /\ h \notin Carried(q) =>
                 \A i, j \in DOMAIN htQueues'[q] : htQueues'[q][i] = htQueues'[q][j] => i = j
<1>1. htQueues[q] \in Seq(End) /\ htQueues'[q] = Append(htQueues[q], h)
  BY Zenon DEF HtTypes
<1> DEFINE s == htQueues[q]
<1>2. /\ DOMAIN s = 1 .. Len(s) /\ Len(s) \in Nat
      /\ DOMAIN Append(s, h) = 1 .. Len(s) + 1
      /\ \A i \in 1 .. Len(s) : Append(s, h)[i] = s[i]
      /\ Append(s, h)[Len(s) + 1] = h
  BY <1>1
<1>3. Carried(q)' = Carried(q) \cup {h}
  BY <1>1, <1>2 DEF Carried
<1>4. \A x \in End \ {q} : Carried(x)' = Carried(x)
  BY Zenon DEF Carried, HtTypes
<1>5. htQueues' \in [End -> Seq(End)]
  BY <1>1 DEF HtTypes
<1>6. ASSUME QueueOk(q), h \notin Carried(q)
      PROVE  \A i, j \in DOMAIN htQueues'[q] : htQueues'[q][i] = htQueues'[q][j] => i = j
  BY <1>1, <1>2, <1>6 DEF Carried, QueueOk
<1> QED
  BY <1>3, <1>4, <1>5, <1>6

\* after a receive,
LEMMA CarriedPopped ==
    ASSUME HtTypes, NEW e \in End, htQueues[e] # <<>>, QueueOk(e),
           htQueues' = [htQueues EXCEPT ![e] = Tail(htQueues[e])]
    PROVE  /\ Head(htQueues[e]) \in End /\ Head(htQueues[e]) \in Carried(e)
           /\ Carried(e)' = Carried(e) \ {Head(htQueues[e])}
           /\ \A x \in End \ {e} : Carried(x)' = Carried(x)
           /\ htQueues' \in [End -> Seq(End)]
           /\ \A i, j \in DOMAIN htQueues'[e] : htQueues'[e][i] = htQueues'[e][j] => i = j
<1> DEFINE s == htQueues[e]
<1>1. s \in Seq(End) /\ s # <<>> /\ htQueues'[e] = Tail(s)
  BY Zenon DEF HtTypes
<1>2. /\ DOMAIN s = 1 .. Len(s) /\ Len(s) \in Nat \ {0}
      /\ Head(s) = s[1] /\ DOMAIN Tail(s) = 1 .. Len(s) - 1
      /\ \A i \in 1 .. Len(s) - 1 : Tail(s)[i] = s[i + 1]
      /\ Tail(s) \in Seq(End) /\ s[1] \in End
  BY <1>1
<1>3. \A i, j \in 1 .. Len(s) : s[i] = s[j] => i = j
  BY <1>2, Zenon DEF QueueOk
<1> HIDE DEF s
<1>4. {Tail(s)[i] : i \in 1 .. Len(s) - 1} = {s[i] : i \in 1 .. Len(s)} \ {s[1]}
  <2>1. ASSUME NEW i \in 1 .. Len(s) - 1 PROVE Tail(s)[i] \in {s[k] : k \in 1 .. Len(s)} \ {s[1]}
    <3>1. i + 1 \in 1 .. Len(s) /\ i + 1 # 1 /\ 1 \in 1 .. Len(s)
      BY <1>2
    <3>2. Tail(s)[i] = s[i + 1] /\ s[i + 1] # s[1]
      BY <1>2, <1>3, <3>1, Zenon
    <3> QED
      BY <3>1, <3>2, Zenon
  <2>2. ASSUME NEW i \in 1 .. Len(s), s[i] # s[1] PROVE s[i] \in {Tail(s)[k] : k \in 1 .. Len(s) - 1}
    <3>1. i - 1 \in 1 .. Len(s) - 1 /\ (i - 1) + 1 = i
      BY <1>2, <2>2
    <3>2. Tail(s)[i - 1] = s[i]
      BY <1>2, <3>1
    <3> QED
      BY <3>1, <3>2, Zenon
  <2> QED
    BY <2>1, <2>2, Zenon
<1>5. \A i, j \in 1 .. Len(s) - 1 : Tail(s)[i] = Tail(s)[j] => i = j
  <2> SUFFICES ASSUME NEW i \in 1 .. Len(s) - 1, NEW j \in 1 .. Len(s) - 1, Tail(s)[i] = Tail(s)[j]
      PROVE  i = j
    OBVIOUS
  <2>1. i + 1 \in 1 .. Len(s) /\ j + 1 \in 1 .. Len(s)
    BY <1>2
  <2>2. i + 1 = j + 1
    BY <1>2, <1>3, <2>1, Zenon
  <2> QED
    BY <2>2
<1>6. Carried(e)' = Carried(e) \ {Head(s)} /\ Head(s) \in Carried(e)
  <2>1. 1 \in 1 .. Len(s)
    BY <1>2
  <2>2. Carried(e) = {s[i] : i \in 1 .. Len(s)}
    BY <1>2, Zenon DEF Carried, s
  <2>3. Carried(e)' = {Tail(s)[i] : i \in 1 .. Len(s) - 1}
    BY <1>1, <1>2, Zenon DEF Carried
  <2> QED
    BY <1>2, <1>4, <2>1, <2>2, <2>3, Zenon
<1>7. \A x \in End \ {e} : Carried(x)' = Carried(x)
  BY Zenon DEF Carried, HtTypes
<1>8. htQueues' \in [End -> Seq(End)]
  BY <1>1, <1>2, Zenon DEF HtTypes, s
<1> QED
  BY <1>1, <1>2, <1>5, <1>6, <1>7, <1>8, ZenonT(30) DEF s

\* and when its end closes.
LEMMA CarriedCleared ==
    ASSUME HtTypes, NEW e \in End, htQueues' = [htQueues EXCEPT ![e] = <<>>]
    PROVE  /\ Carried(e)' = {}
           /\ \A x \in End \ {e} : Carried(x)' = Carried(x)
           /\ htQueues' \in [End -> Seq(End)] /\ htQueues'[e] = <<>>
<1>1. htQueues'[e] = <<>> /\ DOMAIN <<>> = {} /\ <<>> \in Seq(End)
  BY DEF HtTypes
<1>2. Carried(e)' = {}
  BY <1>1, Zenon DEF Carried
<1> QED
  BY <1>1, <1>2, Zenon DEF Carried, HtTypes

\* An end that stays where it is.
Same(e) ==
    /\ \A p \in HtProcess : (e \in table'[p] <=> e \in table[p]) /\ (hand'[p] = e <=> hand[p] = e)
    /\ \A x \in End : e \in Carried(x)' <=> e \in Carried(x)
    /\ \A a \in HtActor : e \in dropping'[a] <=> e \in dropping[a]
    /\ pinned'[e] <=> pinned[e]

\* An end that stays where it is is accounted for as it was.
LEMMA SameEnd ==
    ASSUME NEW e \in End, EndOk(e), Same(e), ChanOf[e] \in created' <=> ChanOf[e] \in created,
           htClosed'[e] = htClosed[e], e \in ends => e \in ends'
    PROVE  EndOk(e)'
<1>1. /\ Tabled(e)' <=> Tabled(e)
      /\ InHand(e)' <=> InHand(e)
      /\ Queued(e)' <=> Queued(e)
      /\ Falling(e)' <=> Falling(e)
  BY Zenon DEF Same, Tabled, InHand, Queued, Falling
<1>2. OneAt(e)'
  BY <1>1, Zenon DEF EndOk, OneAt, Same, Nowhere
<1> QED
  BY <1>1, <1>2, Zenon DEF EndOk, Same, Nowhere

\* An end that is in one place after a step, whichever kind of place that is.
LEMMA OnlyTable ==
    ASSUME NEW e \in End, NEW p \in HtProcess, e \in table'[p],
           \A q \in HtProcess : e \in table'[q] => q = p,
           ~ InHand(e)', ~ Queued(e)', ~ Falling(e)', ~ pinned'[e], ChanOf[e] \in created'
    PROVE  EndOk(e)'
<1>1. Tabled(e)'
  BY Zenon DEF Tabled
<1> QED
  BY <1>1, Zenon DEF EndOk, OneAt, Nowhere, InHand, Queued, Falling

\* An end that is in the hands of one call.
LEMMA OnlyHand ==
    ASSUME NEW e \in End, NEW p \in HtProcess, e = hand'[p],
           \A q \in HtProcess : e = hand'[q] => q = p,
           ~ Tabled(e)', ~ Queued(e)', ~ Falling(e)', ~ pinned'[e], ChanOf[e] \in created'
    PROVE  EndOk(e)'
<1>1. InHand(e)'
  BY Zenon DEF InHand
<1> QED
  BY <1>1, Zenon DEF EndOk, OneAt, Nowhere, Tabled, Queued, Falling

\* An end that is in one queue.
LEMMA OnlyQueue ==
    ASSUME NEW e \in End, NEW x \in End, e \in Carried(x)',
           \A y \in End : e \in Carried(y)' => y = x,
           ~ Tabled(e)', ~ InHand(e)', ~ Falling(e)', ~ pinned'[e], ChanOf[e] \in created'
    PROVE  EndOk(e)'
<1>1. Queued(e)'
  BY Zenon DEF Queued
<1> QED
  BY <1>1, Zenon DEF EndOk, OneAt, Nowhere, Tabled, InHand, Falling

\* An end that one actor is dropping.
LEMMA OnlyFalling ==
    ASSUME NEW e \in End, NEW a \in HtActor, e \in dropping'[a],
           \A b \in HtActor : e \in dropping'[b] => b = a,
           ~ Tabled(e)', ~ InHand(e)', ~ Queued(e)', ~ pinned'[e], ChanOf[e] \in created'
    PROVE  EndOk(e)'
<1>1. Falling(e)'
  BY Zenon DEF Falling
<1> QED
  BY <1>1, Zenon DEF EndOk, OneAt, Nowhere, Tabled, InHand, Queued

\* An end that is nowhere, but pinned, closed or in the collector's copy.
LEMMA OnlyNowhere ==
    ASSUME NEW e \in End, ~ Tabled(e)', ~ InHand(e)', ~ Queued(e)', ~ Falling(e)',
           ChanOf[e] \in created', pinned'[e] \/ htClosed'[e] \/ e \in ends'
    PROVE  EndOk(e)'
BY Zenon DEF EndOk, OneAt, Nowhere, Tabled, InHand, Queued, Falling

\* The calls other than p's go on as they were.
LEMMA OthersCall ==
    ASSUME HeldInv, NEW p \in HtProcess, CallOf(p)', created \subseteq created',
           \A q \in HtProcess \ {p} :
               /\ htPc'[q] = htPc[q] /\ via'[q] = via[q]
               /\ hand'[q] = hand[q] /\ table'[q] = table[q]
               /\ q \in live => q \in live',
           \A q \in HtProcess \ {p} : htPc[q] = "create" =>
               /\ pinned'[via[q]] /\ pinned'[HtPeer(via[q])]
               /\ htPc'[p] = "create" => ChanOf[via'[p]] # ChanOf[via[q]]
    PROVE  (\A q \in HtProcess : CallOf(q)') /\ CreatesApart'
<1>1. ASSUME NEW q \in HtProcess \ {p} PROVE CallOf(q)'
  <2>1. CallOf(q)
    BY Zenon DEF HeldInv
  <2>2. /\ htPc'[q] = htPc[q] /\ via'[q] = via[q] /\ hand'[q] = hand[q] /\ table'[q] = table[q]
        /\ q \in live => q \in live'
        /\ htPc[q] = "create" => pinned'[via[q]] /\ pinned'[HtPeer(via[q])]
    OBVIOUS
  <2>3. \A v \in EndsOf(created) : v \in EndsOf(created')
    BY DEF EndsOf
  <2> QED
    BY <2>1, <2>2, <2>3, Zenon DEF CallOf
<1>2. CreatesApart'
  <2> SUFFICES ASSUME NEW q \in HtProcess, NEW r \in HtProcess, htPc'[q] = "create",
                      htPc'[r] = "create", ChanOf[via'[q]] = ChanOf[via'[r]], q # r
      PROVE  FALSE
    BY Zenon DEF CreatesApart
  <2>1. CASE q # p /\ r # p
    BY <2>1 DEF HeldInv, CreatesApart
  <2>2. CASE q = p
    BY <2>2
  <2>3. CASE r = p
    BY <2>3
  <2> QED
    BY <2>1, <2>2, <2>3
<1> QED
  BY <1>1, <1>2, Zenon

\* The count of the calls inside their window.
LEMMA CountSame ==
    ASSUME HeldInv, NEW p \in HtProcess, \A q \in HtProcess \ {p} : htPc'[q] = htPc[q],
           htPc'[p] \in Counted <=> htPc[p] \in Counted, UNCHANGED IPC_INFLIGHT
    PROVE  Counts'
<1>1. {q \in HtProcess : htPc'[q] \in Counted} = {q \in HtProcess : htPc[q] \in Counted}
  OBVIOUS
<1> QED
  BY <1>1, Zenon DEF HeldInv, Counts

\* A call enters the counted part of its window:
LEMMA CountUp ==
    ASSUME HeldInv, NEW p \in HtProcess, \A q \in HtProcess \ {p} : htPc'[q] = htPc[q],
           htPc'[p] \in Counted, htPc[p] \notin Counted, IPC_INFLIGHT' = IPC_INFLIGHT + 1
    PROVE  Counts'
<1> DEFINE C == {q \in HtProcess : htPc[q] \in Counted}
<1>1. {q \in HtProcess : htPc'[q] \in Counted} = C \cup {p} /\ p \notin C
  OBVIOUS
<1>2. IsFiniteSet(C)
  BY FS_Subset, HandlesAssumption
<1>3. Cardinality(C \cup {p}) = Cardinality(C) + 1
  BY <1>1, <1>2, FS_AddElement
<1> QED
  BY <1>1, <1>3, Zenon DEF HeldInv, Counts

\* and leaves it.
LEMMA CountDown ==
    ASSUME HeldInv, NEW p \in HtProcess, \A q \in HtProcess \ {p} : htPc'[q] = htPc[q],
           htPc'[p] \notin Counted, htPc[p] \in Counted, IPC_INFLIGHT' = IPC_INFLIGHT - 1
    PROVE  Counts'
<1> DEFINE C == {q \in HtProcess : htPc[q] \in Counted}
<1>1. {q \in HtProcess : htPc'[q] \in Counted} = C \ {p} /\ p \in C
  OBVIOUS
<1>2. IsFiniteSet(C)
  BY FS_Subset, HandlesAssumption
<1>3. Cardinality(C \ {p}) = Cardinality(C) - 1
  BY <1>1, <1>2, FS_RemoveElement
<1> QED
  BY <1>1, <1>3 DEF HeldInv, Counts

\* A step that moves no end.
LEMMA StillEnds ==
    ASSUME HeldInv, UNCHANGED <<created, table, htQueues, htClosed, pinned, hand, dropping>>,
           ends \subseteq ends'
    PROVE  \A e \in End : EndOk(e)' /\ QueueOk(e)'
<1> SUFFICES ASSUME NEW e \in End PROVE EndOk(e)' /\ QueueOk(e)'
  OBVIOUS
<1>1. EndOk(e) /\ QueueOk(e)
  BY Zenon DEF HeldInv
<1>2. Same(e)
  BY CarriedSame, Zenon DEF Same
<1>3. EndOk(e)'
  BY <1>1, <1>2, SameEnd, Zenon
<1> QED
  BY <1>1, <1>3, Zenon DEF QueueOk

\* A function changed at p.
LEMMA ChangedAt ==
    ASSUME NEW D, NEW R, NEW f \in [D -> R], NEW p \in D, NEW v \in R, NEW g,
           g = [f EXCEPT ![p] = v]
    PROVE  g \in [D -> R] /\ g[p] = v /\ \A q \in D \ {p} : g[q] = f[q]
BY Zenon

\* The calls that open or leave a window, and the end of a process.
LEMMA QuietHolds ==
    ASSUME HeldInv, NEW p \in HtProcess,
           SendCount(p) \/ PopCount(p) \/ Leave(p) \/ LeaveTable(p) \/ \E e \in End : SendOpen(p, e)
    PROVE  HeldInv'
<1>0. /\ HtTypes /\ CallOf(p) /\ htPc \in [HtProcess -> HtSteps]
      /\ via \in [HtProcess -> End \cup {NoEnd}]
  BY Zenon DEF HeldInv, HtTypes
<1>1. UNCHANGED <<created, table, htQueues, htClosed, pinned, hand, dropping, ends>>
  BY Zenon DEF SendCount, PopCount, Leave, LeaveTable, SendOpen, ipc, coll
<1>2. \A e \in End : EndOk(e)' /\ QueueOk(e)'
  BY <1>1, StillEnds
<1>3. ASSUME NEW l \in HtSteps, NEW v \in End \cup {NoEnd},
             htPc' = [htPc EXCEPT ![p] = l], via' = [via EXCEPT ![p] = v],
             hand[p] # NoEnd <=> l \in Holding, l \in InWindow => v \in EndsOf(created), l # "create",
             l \in {"exit", "dead"} => table[p] = {}, p \in live' \/ l = "dead",
             live' \subseteq live, \A q \in live \ {p} : q \in live',
             IPC_GEN' \in Nat,
             l \in Counted /\ htPc[p] \notin Counted => IPC_INFLIGHT' = IPC_INFLIGHT + 1,
             l \notin Counted /\ htPc[p] \in Counted => IPC_INFLIGHT' = IPC_INFLIGHT - 1,
             (l \in Counted <=> htPc[p] \in Counted) => UNCHANGED IPC_INFLIGHT
      PROVE  HeldInv'
  <2>1. htPc' \in [HtProcess -> HtSteps] /\ htPc'[p] = l /\ \A q \in HtProcess \ {p} : htPc'[q] = htPc[q]
    BY <1>0, <1>3, ChangedAt, Zenon
  <2>2. /\ via' \in [HtProcess -> End \cup {NoEnd}] /\ via'[p] = v
        /\ \A q \in HtProcess \ {p} : via'[q] = via[q]
    BY <1>0, <1>3, ChangedAt, Zenon
  <2>3. HtTypes'
    BY <1>0, <1>1, <1>3, <2>1, <2>2, Zenon DEF HtTypes
  <2>4. CallOf(p)'
    BY <1>1, <1>3, <2>1, <2>2, Zenon DEF CallOf
  <2>5. \A q \in HtProcess : htPc[q] = "create" => pinned'[via[q]] /\ pinned'[HtPeer(via[q])]
    BY <1>1, Zenon DEF HeldInv, CallOf
  <2>6. (\A q \in HtProcess : CallOf(q)') /\ CreatesApart'
    BY <1>1, <1>3, <2>1, <2>2, <2>4, <2>5, OthersCall, Zenon
  <2>7. Counts'
    BY <1>3, <2>1, CountSame, CountUp, CountDown, Zenon
  <2> QED
    BY <1>2, <2>3, <2>6, <2>7, Zenon DEF HeldInv
<1>5. via[p] \in End \cup {NoEnd} /\ IPC_GEN \in Nat /\ IPC_GEN + 1 \in Nat /\ live \subseteq HtProcess
  BY <1>0 DEF HtTypes
<1>6. CASE SendCount(p)
  <2>1. /\ htPc[p] = "open" /\ htPc' = [htPc EXCEPT ![p] = "take"] /\ via' = [via EXCEPT ![p] = via[p]]
        /\ IPC_INFLIGHT' = IPC_INFLIGHT + 1 /\ UNCHANGED <<live, IPC_GEN>>
    BY <1>0, <1>6, Zenon DEF SendCount, At, ipc
  <2>2. /\ "take" \in HtSteps /\ "take" \in Counted /\ "take" \notin Holding /\ "open" \in InWindow
        /\ "open" \notin Counted /\ "open" \notin Holding
    BY Zenon DEF HtSteps, Counted, Holding, InWindow
  <2>3. hand[p] = NoEnd /\ p \in live /\ via[p] \in EndsOf(created)
    BY <1>0, <2>1, <2>2, Zenon DEF CallOf
  <2> QED
    BY <1>3, <1>5, <2>1, <2>2, <2>3, Zenon
<1>7. CASE PopCount(p)
  <2>1. /\ htPc[p] = "popped" /\ htPc' = [htPc EXCEPT ![p] = "insert"] /\ via' = [via EXCEPT ![p] = via[p]]
        /\ IPC_INFLIGHT' = IPC_INFLIGHT + 1 /\ UNCHANGED <<live, IPC_GEN>>
    BY <1>0, <1>7, Zenon DEF PopCount, At, ipc
  <2>2. /\ "insert" \in HtSteps /\ "insert" \in Counted /\ "insert" \in Holding
        /\ "popped" \notin Counted /\ "popped" \in Holding /\ "popped" \in InWindow
    BY Zenon DEF HtSteps, Counted, Holding, InWindow
  <2>3. hand[p] # NoEnd /\ p \in live /\ via[p] \in EndsOf(created)
    BY <1>0, <2>1, <2>2, Zenon DEF CallOf
  <2> QED
    BY <1>3, <1>5, <2>1, <2>2, <2>3, Zenon
<1>8. CASE Leave(p)
  <2>1. /\ htPc[p] = "leave" /\ htPc' = [htPc EXCEPT ![p] = "user"] /\ via' = [via EXCEPT ![p] = NoEnd]
        /\ IPC_INFLIGHT' = IPC_INFLIGHT - 1 /\ UNCHANGED <<live, IPC_GEN>>
    BY <1>0, <1>8, Zenon DEF Leave, At, ipc
  <2>2. /\ "user" \in HtSteps /\ "user" \notin Counted /\ "user" \notin Holding /\ "user" \notin InWindow
        /\ "leave" \in Counted /\ "leave" \notin Holding
    BY Zenon DEF HtSteps, Counted, Holding, InWindow
  <2>3. hand[p] = NoEnd /\ p \in live
    BY <1>0, <2>1, <2>2, Zenon DEF CallOf
  <2> QED
    BY <1>3, <1>5, <2>1, <2>2, <2>3, Zenon
<1>9. CASE LeaveTable(p)
  <2>1. /\ htPc[p] = "exit" /\ htPc' = [htPc EXCEPT ![p] = "dead"] /\ via' = [via EXCEPT ![p] = via[p]]
        /\ live' = live \ {p} /\ UNCHANGED <<IPC_INFLIGHT, IPC_GEN>>
    BY <1>0, <1>9, Zenon DEF LeaveTable, At, counts
  <2>2. /\ "dead" \in HtSteps /\ "dead" \notin Counted /\ "dead" \notin Holding /\ "dead" \notin InWindow
        /\ "exit" \notin Counted /\ "exit" \notin Holding
    BY Zenon DEF HtSteps, Counted, Holding, InWindow
  <2>3. hand[p] = NoEnd /\ table[p] = {}
    BY <1>0, <2>1, <2>2, Zenon DEF CallOf
  <2>4. live' \subseteq live /\ \A q \in live \ {p} : q \in live'
    BY <2>1, Zenon
  <2> QED
    BY <1>3, <1>5, <2>1, <2>2, <2>3, <2>4, Zenon
<1>10. ASSUME NEW e \in End, SendOpen(p, e) PROVE HeldInv'
  <2>1. /\ htPc[p] = "user" /\ htPc' = [htPc EXCEPT ![p] = "open"] /\ via' = [via EXCEPT ![p] = e]
        /\ p \in live /\ IPC_GEN' = IPC_GEN + 1 /\ UNCHANGED <<live, IPC_INFLIGHT>>
    BY <1>0, <1>10, Zenon DEF SendOpen, HtIdle, ipc
  <2>2. /\ "open" \in HtSteps /\ "open" \notin Counted /\ "open" \notin Holding
        /\ "user" \notin Counted /\ "user" \notin Holding
    BY Zenon DEF HtSteps, Counted, Holding, InWindow
  <2>3. hand[p] = NoEnd
    BY <1>0, <2>1, <2>2, Zenon DEF CallOf
  <2>4. e \in EndsOf(created)
    <3>1. e \in table[p] /\ EndOk(e)
      BY <1>10, Zenon DEF SendOpen, HeldInv
    <3> QED
      BY <3>1, Zenon DEF EndOk, Nowhere, Tabled, EndsOf
  <2> QED
    BY <1>3, <1>5, <2>1, <2>2, <2>3, <2>4, Zenon
<1> QED
  BY <1>6, <1>7, <1>8, <1>9, <1>10, Zenon

\* A step of p's call that leaves the counts alone: where the call is then, the
\* end it works on, the one it has in hand and its table.
CallGoes(p, l, v, h, T) ==
    /\ htPc' = [htPc EXCEPT ![p] = l]
    /\ via' = [via EXCEPT ![p] = v]
    /\ hand' = [hand EXCEPT ![p] = h]
    /\ table' = [table EXCEPT ![p] = T]
    /\ p \in live /\ UNCHANGED <<live, IPC_INFLIGHT>>

\* Where the calls are after such a step.
LEMMA CallMoves ==
    ASSUME HeldInv, NEW p \in HtProcess, NEW l \in HtSteps \ {"dead"}, NEW v \in End \cup {NoEnd},
           NEW h \in End \cup {NoEnd}, NEW T \in SUBSET End, CallGoes(p, l, v, h, T),
           h # NoEnd <=> l \in Holding,
           l \in InWindow \cup {"create"} => v \in EndsOf(created'),
           created \subseteq created',
           l = "exit" => T = {},
           l = "create" => pinned'[v] /\ pinned'[HtPeer(v)],
           l \in Counted <=> htPc[p] \in Counted,
           \A q \in HtProcess \ {p} : htPc[q] = "create" =>
               /\ pinned'[via[q]] /\ pinned'[HtPeer(via[q])]
               /\ l = "create" => ChanOf[v] # ChanOf[via[q]]
    PROVE  /\ htPc' \in [HtProcess -> HtSteps]
           /\ via' \in [HtProcess -> End \cup {NoEnd}]
           /\ hand' \in [HtProcess -> End \cup {NoEnd}] /\ hand'[p] = h
           /\ table' \in [HtProcess -> SUBSET End] /\ table'[p] = T
           /\ \A q \in HtProcess \ {p} : hand'[q] = hand[q] /\ table'[q] = table[q]
           /\ \A q \in HtProcess : CallOf(q)'
           /\ CreatesApart' /\ Counts'
<1>0. /\ htPc \in [HtProcess -> HtSteps]
      /\ via \in [HtProcess -> End \cup {NoEnd}]
      /\ hand \in [HtProcess -> End \cup {NoEnd}]
      /\ table \in [HtProcess -> SUBSET End]
  BY Zenon DEF HeldInv, HtTypes
<1>1. htPc' \in [HtProcess -> HtSteps] /\ htPc'[p] = l /\ \A q \in HtProcess \ {p} : htPc'[q] = htPc[q]
  BY <1>0, Zenon DEF CallGoes
<1>2. /\ via' \in [HtProcess -> End \cup {NoEnd}] /\ via'[p] = v
      /\ \A q \in HtProcess \ {p} : via'[q] = via[q]
  BY <1>0, Zenon DEF CallGoes
<1>3. /\ hand' \in [HtProcess -> End \cup {NoEnd}] /\ hand'[p] = h
      /\ \A q \in HtProcess \ {p} : hand'[q] = hand[q]
  BY <1>0, Zenon DEF CallGoes
<1>4. /\ table' \in [HtProcess -> SUBSET End] /\ table'[p] = T
      /\ \A q \in HtProcess \ {p} : table'[q] = table[q]
  BY <1>0, Zenon DEF CallGoes
<1>5. CallOf(p)'
  BY <1>1, <1>2, <1>3, <1>4, Zenon DEF CallOf, CallGoes
<1>6. (\A q \in HtProcess : CallOf(q)') /\ CreatesApart'
  BY <1>1, <1>2, <1>3, <1>4, <1>5, OthersCall, Zenon DEF CallGoes
<1>7. Counts'
  BY <1>1, CountSame, Zenon DEF CallGoes
<1> QED
  BY <1>1, <1>2, <1>3, <1>4, <1>6, <1>7, Zenon

\* The same for the steps that pin and unpin nothing.
LEMMA CallMovesOn ==
    ASSUME HeldInv, NEW p \in HtProcess, NEW l \in HtSteps \ {"dead", "create"},
           NEW v \in End \cup {NoEnd}, NEW h \in End \cup {NoEnd}, NEW T \in SUBSET End,
           CallGoes(p, l, v, h, T),
           h # NoEnd <=> l \in Holding,
           l \in InWindow => v \in EndsOf(created),
           l = "exit" => T = {},
           l \in Counted <=> htPc[p] \in Counted,
           UNCHANGED created, \A e \in End : pinned'[e] <=> pinned[e]
    PROVE  /\ htPc' \in [HtProcess -> HtSteps]
           /\ via' \in [HtProcess -> End \cup {NoEnd}]
           /\ hand' \in [HtProcess -> End \cup {NoEnd}] /\ hand'[p] = h
           /\ table' \in [HtProcess -> SUBSET End] /\ table'[p] = T
           /\ \A q \in HtProcess \ {p} : hand'[q] = hand[q] /\ table'[q] = table[q]
           /\ \A q \in HtProcess : CallOf(q)'
           /\ CreatesApart' /\ Counts'
<1>1. ASSUME NEW q \in HtProcess, htPc[q] = "create" PROVE pinned'[via[q]] /\ pinned'[HtPeer(via[q])]
  BY <1>1, PeerIs, Zenon DEF HeldInv, CallOf, EndsOf
<1>2. l \in HtSteps \ {"dead"} /\ l # "create"
  OBVIOUS
<1> QED
  BY <1>1, <1>2, CallMoves

\* A step that leaves the queues alone.
LEMMA QueuesStay ==
    ASSUME HeldInv, UNCHANGED <<htQueues, htClosed>>, created \subseteq created'
    PROVE  \A x \in End : QueueOk(x)'
BY Zenon DEF HeldInv, QueueOk

\* channel_create: the new pair is pinned and nowhere.
LEMMA CreateHolds ==
    ASSUME HeldInv, ends \subseteq EndsOf(created), NEW p \in HtProcess, NEW c \in Chan, ChannelCreate(p, c)
    PROVE  HeldInv'
<1>0. /\ HtTypes /\ CallOf(p) /\ HtIdle(p) /\ c \notin created /\ created' = created \cup {c}
      /\ htPc[p] = "user" /\ p \in live
      /\ UNCHANGED <<live, table, htQueues, htClosed, IPC_GEN, IPC_INFLIGHT, hand, dropping, ends>>
      /\ pinned' = [e \in End |-> pinned[e] \/ ChanOf[e] = c]
  BY Zenon DEF HeldInv, ChannelCreate, HtIdle, counts, coll
<1>1. PICK v \in EndsOf({c}) : via' = [via EXCEPT ![p] = v]
  BY Zenon DEF ChannelCreate
<1>2. v \in End /\ ChanOf[v] = c /\ HtPeer(v) \in End /\ ChanOf[HtPeer(v)] = c
  BY <1>1, PeerIs, Zenon DEF EndsOf
<1>3. /\ "create" \in HtSteps \ {"dead"} /\ "create" \notin InWindow /\ "create" \notin Holding /\ "create" \notin Counted
      /\ "user" \notin Holding /\ "user" \notin Counted
  BY DEF HtSteps, Holding, Counted, InWindow
<1>4. hand[p] = NoEnd /\ table[p] \in SUBSET End
  BY <1>0, <1>3, Zenon DEF CallOf, HtTypes
<1>5. CallGoes(p, "create", v, NoEnd, table[p])
  BY <1>0, <1>1, <1>4, Zenon DEF CallGoes, HtTypes, ChannelCreate
<1>6. \A e \in End : pinned'[e] <=> pinned[e] \/ ChanOf[e] = c
  BY <1>0, Zenon
<1>7. ASSUME NEW q \in HtProcess \ {p}, htPc[q] = "create"
      PROVE  /\ pinned'[via[q]] /\ pinned'[HtPeer(via[q])] /\ ChanOf[v] # ChanOf[via[q]]
  <2>1. via[q] \in End /\ pinned[via[q]] /\ pinned[HtPeer(via[q])] /\ HtPeer(via[q]) \in End
    BY <1>7, PeerIs, Zenon DEF HeldInv, CallOf, EndsOf
  <2>2. ChanOf[via[q]] \in created
    BY <2>1, Zenon DEF HeldInv, EndOk
  <2> QED
    BY <1>0, <1>2, <1>6, <2>1, <2>2, Zenon
<1>8. /\ htPc' \in [HtProcess -> HtSteps]
      /\ via' \in [HtProcess -> End \cup {NoEnd}]
      /\ (\A q \in HtProcess : CallOf(q)') /\ CreatesApart' /\ Counts'
  <2>1. pinned'[v] /\ pinned'[HtPeer(v)] /\ v \in End \cup {NoEnd} /\ NoEnd \in End \cup {NoEnd}
    BY <1>2, <1>6, Zenon
  <2>3. v \in EndsOf(created') /\ created \subseteq created'
    BY <1>0, <1>2, Zenon DEF EndsOf
  <2>2. ~ (NoEnd # NoEnd) /\ "create" # "exit" /\ ~ htPc[p] \in Counted
    BY <1>0, <1>3, Zenon
  <2> QED
    BY <1>2, <1>3, <1>4, <1>5, <1>7, <2>1, <2>2, <2>3, CallMoves
<1>9. ASSUME NEW e \in End PROVE EndOk(e)'
  <2>1. EndOk(e) /\ \A x : Carried(x)' = Carried(x)
    BY <1>0, CarriedSame, Zenon DEF HeldInv
  <2>2. CASE ChanOf[e] # c
    <3>1. Same(e) /\ (ChanOf[e] \in created' <=> ChanOf[e] \in created)
      BY <1>0, <1>6, <2>1, <2>2, Zenon DEF Same
    <3> QED
      BY <1>0, <2>1, <3>1, SameEnd, Zenon
  <2>3. CASE ChanOf[e] = c
    <3>1. Nowhere(e) /\ pinned'[e] /\ ChanOf[e] \in created'
      BY <1>0, <1>6, <2>1, <2>3, Zenon DEF EndOk
    <3>2. ~ Tabled(e)' /\ ~ InHand(e)' /\ ~ Queued(e)' /\ ~ Falling(e)'
      BY <1>0, <2>1, <3>1, Zenon DEF Nowhere, Tabled, InHand, Queued, Falling
    <3> QED
      BY <3>1, <3>2, OnlyNowhere, Zenon
  <2> QED
    BY <2>2, <2>3, Zenon
<1>10. \A x \in End : QueueOk(x)'
  BY <1>0, QueuesStay, Zenon
<1>11. HtTypes'
  BY <1>0, <1>8, Zenon DEF HtTypes
<1> QED
  BY <1>8, <1>9, <1>10, <1>11, Zenon DEF HeldInv

\* Take moves an end from the table into the hand.
LEMMA TakeHolds ==
    ASSUME HeldInv, NEW p \in HtProcess, Take(p)
    PROVE  HeldInv'
<1>0. /\ HtTypes /\ CallOf(p) /\ htPc[p] = "take"
      /\ UNCHANGED <<created, live, htQueues, htClosed, pinned, IPC_GEN, IPC_INFLIGHT, dropping, ends>>
      /\ via' = via
  BY Zenon DEF HeldInv, Take, At, counts, coll
<1>1. /\ "take" \notin Holding /\ "take" \in Counted /\ "take" \in InWindow
      /\ "push" \in HtSteps \ {"dead", "create"} /\ "push" \in Holding /\ "push" \in Counted
      /\ "leave" \in HtSteps \ {"dead", "create"} /\ "leave" \notin Holding /\ "leave" \in Counted
      /\ "push" # "exit" /\ "leave" # "exit"
  BY DEF HtSteps, Holding, Counted, InWindow
<1>2. /\ hand[p] = NoEnd /\ table[p] \in SUBSET End /\ p \in live /\ via[p] \in EndsOf(created)
      /\ via' = [via EXCEPT ![p] = via[p]] /\ via[p] \in End \cup {NoEnd}
  BY <1>0, <1>1, Zenon DEF CallOf, HtTypes
<1>3. \A x \in End : QueueOk(x)'
  BY <1>0, QueuesStay, Zenon
<1>4. \A x : Carried(x)' = Carried(x)
  BY <1>0, CarriedSame, Zenon
<1>5. ASSUME NEW x \in table[p], table' = [table EXCEPT ![p] = table[p] \ {x}],
             hand' = [hand EXCEPT ![p] = x], htPc' = [htPc EXCEPT ![p] = "push"]
      PROVE  HeldInv'
  <2>1. x \in End /\ x # NoEnd
    BY <1>2, HandlesAssumption
  <2>2. CallGoes(p, "push", via[p], x, table[p] \ {x})
    BY <1>0, <1>2, <1>5, Zenon DEF CallGoes
  <2>3. /\ htPc' \in [HtProcess -> HtSteps]
        /\ via' \in [HtProcess -> End \cup {NoEnd}]
        /\ hand' \in [HtProcess -> End \cup {NoEnd}] /\ hand'[p] = x
        /\ table' \in [HtProcess -> SUBSET End] /\ table'[p] = table[p] \ {x}
        /\ \A q \in HtProcess \ {p} : hand'[q] = hand[q] /\ table'[q] = table[q]
        /\ (\A q \in HtProcess : CallOf(q)') /\ CreatesApart' /\ Counts'
    BY <1>0, <1>1, <1>2, <2>1, <2>2, CallMovesOn
  <2>4. ASSUME NEW e \in End \ {x} PROVE EndOk(e)'
    <3>1. EndOk(e)
      BY Zenon DEF HeldInv
    <3>2. e \in End /\ e # x /\ e # NoEnd
      BY HandlesAssumption
    <3>3. ASSUME NEW q \in HtProcess
          PROVE  (e \in table'[q] <=> e \in table[q]) /\ (hand'[q] = e <=> hand[q] = e)
      BY <1>2, <2>3, <3>2
    <3>4. Same(e)
      BY <1>0, <1>4, <3>3, Zenon DEF Same
    <3> QED
      BY <1>0, <3>1, <3>4, SameEnd
  <2>5. EndOk(x)'
    <3>1. EndOk(x) /\ Tabled(x)
      BY <1>5, <2>1, Zenon DEF HeldInv, Tabled
    <3>2. /\ ~ InHand(x) /\ ~ Queued(x) /\ ~ Falling(x) /\ ~ pinned[x] /\ ChanOf[x] \in created
          /\ \A q \in HtProcess : x \in table[q] => q = p
      BY <1>5, <3>1, Zenon DEF EndOk, OneAt, Nowhere
    <3>3. ~ Tabled(x)' /\ ~ Queued(x)' /\ ~ Falling(x)'
      BY <1>0, <1>4, <2>3, <3>2, Zenon DEF Tabled, Queued, Falling
    <3>4. \A q \in HtProcess : x = hand'[q] => q = p
      BY <2>3, <3>2, Zenon DEF InHand
    <3> QED
      BY <1>0, <2>1, <2>3, <3>2, <3>3, <3>4, OnlyHand
  <2>6. HtTypes'
    BY <1>0, <2>3, Zenon DEF HtTypes
  <2> QED
    BY <1>3, <2>3, <2>4, <2>5, <2>6, Zenon DEF HeldInv
<1>6. CASE htPc' = [htPc EXCEPT ![p] = "leave"] /\ UNCHANGED <<table, hand>>
  <2>1. CallGoes(p, "leave", via[p], NoEnd, table[p])
    BY <1>0, <1>2, <1>6, Zenon DEF CallGoes, HtTypes
  <2>2. NoEnd \in End \cup {NoEnd} /\ ~ (NoEnd # NoEnd)
    OBVIOUS
  <2>3. /\ htPc' \in [HtProcess -> HtSteps]
        /\ via' \in [HtProcess -> End \cup {NoEnd}]
        /\ (\A q \in HtProcess : CallOf(q)') /\ CreatesApart' /\ Counts'
    BY <1>0, <1>1, <1>2, <2>1, <2>2, CallMovesOn, ZenonT(30)
  <2>4. \A e \in End : EndOk(e)'
    BY <1>0, <1>6, StillEnds
  <2>5. HtTypes'
    BY <1>0, <1>6, <2>3, Zenon DEF HtTypes
  <2> QED
    BY <1>3, <2>3, <2>4, <2>5, Zenon DEF HeldInv
<1> QED
  BY <1>5, <1>6, Zenon DEF Take

\* HtPush moves the end in hand to the peer's queue, or drops it.
LEMMA PushHolds ==
    ASSUME HeldInv, NEW p \in HtProcess, HtPush(p)
    PROVE  HeldInv'
<1>0. /\ HtTypes /\ CallOf(p) /\ htPc[p] = "push" /\ dropping[p] = {}
      /\ UNCHANGED <<created, live, table, htClosed, pinned, IPC_GEN, IPC_INFLIGHT, ends>>
      /\ via' = via /\ hand' = [hand EXCEPT ![p] = NoEnd] /\ htPc' = [htPc EXCEPT ![p] = "leave"]
  BY Zenon DEF HeldInv, HtPush, At, counts, coll
<1>1. /\ "push" \in Holding /\ "push" \in Counted /\ "push" \in InWindow
      /\ "leave" \in HtSteps \ {"dead", "create"} /\ "leave" \notin Holding /\ "leave" \in Counted
      /\ "leave" # "exit" /\ NoEnd \in End \cup {NoEnd} /\ ~ (NoEnd # NoEnd)
  BY DEF HtSteps, Holding, Counted, InWindow
<1>2. /\ hand[p] # NoEnd /\ hand[p] \in End \cup {NoEnd} /\ table[p] \in SUBSET End /\ p \in live
      /\ via[p] \in EndsOf(created) /\ via' = [via EXCEPT ![p] = via[p]]
      /\ via[p] \in End \cup {NoEnd} /\ table' = [table EXCEPT ![p] = table[p]]
  BY <1>0, <1>1, Zenon DEF CallOf, HtTypes
<1>a. PICK h \in End : h = hand[p]
  BY <1>2
<1>b. PICK q \in End : q = HtPeer(via[p]) /\ ChanOf[q] \in created
  BY <1>2, PeerIs, Zenon DEF EndsOf
<1>3. p \in HtActor
  BY Zenon DEF HtActor
<1>4. CallGoes(p, "leave", via[p], NoEnd, table[p])
  BY <1>0, <1>2, Zenon DEF CallGoes
<1>5. /\ htPc' \in [HtProcess -> HtSteps]
      /\ via' \in [HtProcess -> End \cup {NoEnd}]
      /\ hand' \in [HtProcess -> End \cup {NoEnd}] /\ hand'[p] = NoEnd
      /\ \A r \in HtProcess \ {p} : hand'[r] = hand[r]
      /\ (\A r \in HtProcess : CallOf(r)') /\ CreatesApart' /\ Counts'
  BY <1>0, <1>1, <1>2, <1>4, CallMovesOn, ZenonT(30)
<1>6. /\ EndOk(h) /\ InHand(h) /\ ~ Tabled(h) /\ ~ Queued(h) /\ ~ Falling(h) /\ ~ pinned[h]
      /\ ChanOf[h] \in created /\ \A r \in HtProcess : hand[r] = h => r = p
  <2>1. EndOk(h) /\ InHand(h)
    BY <1>a, Zenon DEF HeldInv, InHand
  <2> QED
    BY <1>a, <2>1, Zenon DEF EndOk, OneAt, Nowhere
<1>7. ~ InHand(h)' /\ ~ Tabled(h)'
  BY <1>0, <1>2, <1>5, <1>6, <1>a, Zenon DEF InHand, Tabled
<1>8. \A e \in End \ {h} : \A r \in HtProcess : hand'[r] = e <=> hand[r] = e
  <2>1. \A e \in End : e # NoEnd
    BY HandlesAssumption, Zenon
  <2> QED
    BY <1>5, <1>a, <2>1, Zenon
<1>9. CASE dropping' = [dropping EXCEPT ![p] = {h}] /\ UNCHANGED htQueues
  <2>1. \A x : Carried(x)' = Carried(x)
    BY <1>9, CarriedSame, Zenon
  <2>2. /\ dropping' \in [HtActor -> SUBSET End] /\ dropping'[p] = {h}
        /\ \A a \in HtActor \ {p} : dropping'[a] = dropping[a]
    <3>1. dropping \in [HtActor -> SUBSET End] /\ {h} \in SUBSET End
      BY <1>0, <1>3, Zenon DEF HtTypes
    <3> QED
      BY <1>3, <1>9, <3>1, ChangedAt, Zenon
  <2>3. ASSUME NEW e \in End \ {h} PROVE EndOk(e)'
    <3>1. EndOk(e)
      BY Zenon DEF HeldInv
    <3>2. \A a \in HtActor : e \in dropping'[a] <=> e \in dropping[a]
      BY <1>0, <2>2, Zenon
    <3>3. Same(e)
      BY <1>0, <1>8, <2>1, <3>2, Zenon DEF Same
    <3> QED
      BY <1>0, <3>1, <3>3, SameEnd
  <2>4. EndOk(h)'
    <3>1. ~ Queued(h)' /\ \A b \in HtActor : h \in dropping'[b] => b = p
      BY <1>6, <2>1, <2>2, Zenon DEF Queued, Falling
    <3>2. h \in dropping'[p]
      BY <2>2, Zenon
    <3> QED
      BY <1>0, <1>3, <1>6, <1>7, <3>1, <3>2, OnlyFalling, ZenonT(30)
  <2>5. \A x \in End : QueueOk(x)'
    BY <1>0, <1>9, QueuesStay, Zenon
  <2>6. HtTypes'
    BY <1>0, <1>5, <1>9, <2>2, Zenon DEF HtTypes
  <2> QED
    BY <1>5, <2>3, <2>4, <2>5, <2>6, Zenon DEF HeldInv
<1>10. CASE ~ htClosed[q] /\ htQueues' = [htQueues EXCEPT ![q] = Append(htQueues[q], h)] /\ UNCHANGED dropping
  <2>0. QueueOk(q) /\ h \notin Carried(q)
    BY <1>3, <1>6, Zenon DEF HeldInv, Queued
  <2>1. /\ Carried(q)' = Carried(q) \cup {h}
        /\ \A x \in End \ {q} : Carried(x)' = Carried(x)
        /\ htQueues' \in [End -> Seq(End)]
        /\ \A i, j \in DOMAIN htQueues'[q] : htQueues'[q][i] = htQueues'[q][j] => i = j
    BY <1>0, <1>3, <1>10, <2>0, CarriedPushed, Zenon
  <2>2. ASSUME NEW e \in End \ {h} PROVE EndOk(e)'
    <3>1. EndOk(e)
      BY Zenon DEF HeldInv
    <3>2. \A x \in End : e \in Carried(x)' <=> e \in Carried(x)
      BY <2>1, Zenon
    <3>3. Same(e)
      BY <1>0, <1>8, <1>10, <3>2, Zenon DEF Same
    <3> QED
      BY <1>0, <3>1, <3>3, SameEnd
  <2>3. EndOk(h)'
    <3>0. ~ Falling(h)' /\ \A y \in End : h \notin Carried(y)
      BY <1>6, <1>10, Zenon DEF Queued, Falling
    <3>1. h \in Carried(q)' /\ \A y \in End : h \in Carried(y)' => y = q
      BY <2>1, <3>0, Zenon
    <3>2. ~ pinned'[h] /\ ChanOf[h] \in created'
      BY <1>0, <1>6, Zenon
    <3> QED
      BY <1>7, <3>0, <3>1, <3>2, OnlyQueue, Zenon
  <2>4. ASSUME NEW x \in End PROVE QueueOk(x)'
    <3>1. CASE x = q
      BY <1>0, <1>b, <1>10, <2>1, <3>1, Zenon DEF QueueOk
    <3>2. CASE x # q
      <4>1. QueueOk(x) /\ htQueues'[x] = htQueues[x]
        BY <1>0, <1>10, <3>2, Zenon DEF HeldInv, HtTypes
      <4> QED
        BY <1>0, <4>1, Zenon DEF QueueOk
    <3> QED
      BY <3>1, <3>2, Zenon
  <2>5. HtTypes'
    BY <1>0, <1>5, <1>10, <2>1, Zenon DEF HtTypes
  <2> QED
    BY <1>5, <2>2, <2>3, <2>4, <2>5, Zenon DEF HeldInv
<1> QED
  BY <1>a, <1>b, <1>9, <1>10, Zenon DEF HtPush

\* HtPop moves the first end of the queue into the hand.
LEMMA PopHolds ==
    ASSUME HeldInv, NEW p \in HtProcess, NEW v \in End, HtPop(p, v)
    PROVE  HeldInv'
<1>0. /\ HtTypes /\ CallOf(p) /\ htPc[p] = "user" /\ dropping[p] = {} /\ p \in live /\ v \in table[p]
      /\ UNCHANGED <<created, live, table, htClosed, pinned, IPC_INFLIGHT, dropping, ends>>
      /\ IPC_GEN' = IPC_GEN + 1 /\ htQueues[v] # <<>> /\ QueueOk(v) /\ EndOk(v)
      /\ htQueues' = [htQueues EXCEPT ![v] = Tail(htQueues[v])]
      /\ via' = [via EXCEPT ![p] = v] /\ hand' = [hand EXCEPT ![p] = Head(htQueues[v])]
      /\ htPc' = [htPc EXCEPT ![p] = "popped"]
  BY Zenon DEF HeldInv, HtPop, HtIdle, coll
<1>1. /\ "popped" \in HtSteps \ {"dead", "create"} /\ "popped" \in Holding /\ "popped" \notin Counted
      /\ "user" \notin Counted /\ "user" \notin Holding /\ "popped" # "exit"
  BY DEF HtSteps, Holding, Counted, InWindow
<1>2. hand[p] = NoEnd /\ table[p] \in SUBSET End /\ table' = [table EXCEPT ![p] = table[p]]
  BY <1>0, <1>1, Zenon DEF CallOf, HtTypes
<1>a. PICK h : h = Head(htQueues[v])
  OBVIOUS
<1>3. /\ h \in End /\ h \in Carried(v)
      /\ Carried(v)' = Carried(v) \ {h}
      /\ \A x \in End \ {v} : Carried(x)' = Carried(x)
      /\ htQueues' \in [End -> Seq(End)]
      /\ \A i, j \in DOMAIN htQueues'[v] : htQueues'[v][i] = htQueues'[v][j] => i = j
  BY <1>0, <1>a, CarriedPopped, Zenon
<1>4. v \in EndsOf(created) /\ v \in End \cup {NoEnd} /\ h \in End \cup {NoEnd} /\ h # NoEnd
  <2>1. ChanOf[v] \in created
    BY <1>0, Zenon DEF EndOk, Nowhere, Tabled
  <2> QED
    BY <1>3, <2>1, HandlesAssumption, Zenon DEF EndsOf
<1>5. CallGoes(p, "popped", v, h, table[p])
  BY <1>0, <1>2, <1>a, Zenon DEF CallGoes
<1>6. /\ htPc' \in [HtProcess -> HtSteps]
      /\ via' \in [HtProcess -> End \cup {NoEnd}]
      /\ hand' \in [HtProcess -> End \cup {NoEnd}] /\ hand'[p] = h
      /\ \A r \in HtProcess \ {p} : hand'[r] = hand[r]
      /\ (\A r \in HtProcess : CallOf(r)') /\ CreatesApart' /\ Counts'
  BY <1>0, <1>1, <1>2, <1>4, <1>5, CallMovesOn
<1>7. ASSUME NEW e \in End \ {h} PROVE EndOk(e)'
  <2>1. EndOk(e) /\ e # NoEnd
    BY HandlesAssumption, Zenon DEF HeldInv
  <2>2. \A x \in End : e \in Carried(x)' <=> e \in Carried(x)
    BY <1>3, Zenon
  <2>3. \A r \in HtProcess : hand'[r] = e <=> hand[r] = e
    BY <1>2, <1>6, <2>1, Zenon
  <2>4. Same(e)
    BY <1>0, <2>2, <2>3, Zenon DEF Same
  <2> QED
    BY <1>0, <2>1, <2>4, SameEnd, Zenon
<1>8. EndOk(h)'
  <2>1. EndOk(h) /\ Queued(h)
    BY <1>3, Zenon DEF HeldInv, Queued
  <2>2. /\ ~ Tabled(h) /\ ~ InHand(h) /\ ~ Falling(h) /\ ~ pinned[h] /\ ChanOf[h] \in created
        /\ \A x \in End : h \in Carried(x) => x = v
    BY <1>3, <2>1, Zenon DEF EndOk, OneAt, Nowhere
  <2>3. ~ Tabled(h)' /\ ~ Falling(h)' /\ ~ pinned'[h] /\ ChanOf[h] \in created'
    BY <1>0, <2>2, Zenon DEF Tabled, Falling
  <2>4. ~ Queued(h)'
    BY <1>3, <2>2, Zenon DEF Queued
  <2>5. h = hand'[p] /\ \A r \in HtProcess : h = hand'[r] => r = p
    BY <1>6, <2>2, Zenon DEF InHand
  <2> QED
    BY <1>3, <2>3, <2>4, <2>5, OnlyHand, Zenon
<1>9. ASSUME NEW x \in End PROVE QueueOk(x)'
  <2>1. CASE x = v
    <3>1. ~ htClosed'[v] /\ ChanOf[v] \in created'
      BY <1>0, <1>4, Zenon DEF QueueOk
    <3> QED
      BY <1>3, <2>1, <3>1, Zenon DEF QueueOk
  <2>2. CASE x # v
    <3>1. QueueOk(x) /\ htQueues'[x] = htQueues[x]
      BY <1>0, <2>2, Zenon DEF HeldInv, HtTypes
    <3> QED
      BY <1>0, <3>1, Zenon DEF QueueOk
  <2> QED
    BY <2>1, <2>2, Zenon
<1>10. HtTypes'
  <2>1. IPC_GEN' \in Nat
    BY <1>0 DEF HtTypes
  <2> QED
    BY <1>0, <1>3, <1>6, <2>1, Zenon DEF HtTypes
<1> QED
  BY <1>6, <1>7, <1>8, <1>9, <1>10, Zenon DEF HeldInv

\* A step that takes the ends of M out of one kind of place and puts them in
\* p's table or among the references p drops.
Settles(p, M, T, D) ==
    /\ table' = [table EXCEPT ![p] = T]
    /\ dropping' = [dropping EXCEPT ![p] = D]
    /\ UNCHANGED <<created, live, htQueues, htClosed, IPC_GEN, IPC_INFLIGHT, ends>>
    /\ \A e \in End \ M : pinned'[e] <=> pinned[e]
    /\ \A e \in M : ~ pinned'[e]
    /\ \/ T \ M = table[p] \ M /\ D = M /\ T \cap M = {} /\ dropping[p] = {}
       \/ T = table[p] \cup M /\ D = dropping[p]
    /\ \A e \in M : /\ ChanOf[e] \in created
                    /\ ~ Queued(e) /\ ~ Falling(e) /\ ~ InHand(e)'
                    /\ \A q \in HtProcess : e \in table[q] => q = p
    /\ \A e \in End \ M : \A q \in HtProcess : hand'[q] = e <=> hand[q] = e

\* Such a step keeps every end in one place.
LEMMA SettleHolds ==
    ASSUME HeldInv, NEW p \in HtProcess, NEW M \in SUBSET End, NEW T \in SUBSET End, NEW D \in SUBSET End,
           Settles(p, M, T, D)
    PROVE  /\ \A e \in End : EndOk(e)' /\ QueueOk(e)'
           /\ table' \in [HtProcess -> SUBSET End]
           /\ dropping' \in [HtActor -> SUBSET End]
<1>a. /\ \/ T \ M = table[p] \ M /\ D = M /\ T \cap M = {} /\ dropping[p] = {}
         \/ T = table[p] \cup M /\ D = dropping[p]
      /\ \A e \in M : /\ ChanOf[e] \in created
                      /\ ~ Queued(e) /\ ~ Falling(e) /\ ~ InHand(e)'
                      /\ \A q \in HtProcess : e \in table[q] => q = p
      /\ \A e \in End \ M : \A q \in HtProcess : hand'[q] = e <=> hand[q] = e
  BY Zenon DEF Settles
<1>0. table \in [HtProcess -> SUBSET End] /\ dropping \in [HtActor -> SUBSET End] /\ p \in HtActor
  BY Zenon DEF HeldInv, HtTypes, HtActor
<1>1. table' \in [HtProcess -> SUBSET End] /\ table'[p] = T /\ \A q \in HtProcess \ {p} : table'[q] = table[q]
  BY <1>0, ChangedAt, Zenon DEF Settles
<1>2. /\ dropping' \in [HtActor -> SUBSET End] /\ dropping'[p] = D
      /\ \A a \in HtActor \ {p} : dropping'[a] = dropping[a]
  BY <1>0, ChangedAt, Zenon DEF Settles
<1>3. \A x : Carried(x)' = Carried(x)
  BY CarriedSame, Zenon DEF Settles
<1>4. ASSUME NEW e \in End \ M PROVE EndOk(e)'
  <2>1. EndOk(e)
    BY Zenon DEF HeldInv
  <2>2. (e \in T <=> e \in table[p]) /\ (e \in D <=> e \in dropping[p])
    BY <1>a, Zenon
  <2>3. Same(e)
    BY <1>a, <1>1, <1>2, <1>3, <2>2, Zenon DEF Same, Settles
  <2> QED
    BY <2>1, <2>3, SameEnd, Zenon DEF Settles
<1>5. ASSUME NEW e \in M PROVE EndOk(e)'
  <2>1. ~ Queued(e)' /\ ~ pinned'[e] /\ ChanOf[e] \in created' /\ ~ InHand(e)'
    BY <1>3, <1>a, Zenon DEF Queued, Settles
  <2>2. e \in End /\ (\A q \in HtProcess : e \in table[q] => q = p)
    BY <1>a, Zenon
  <2>5. \A a \in HtActor : e \notin dropping[a]
    BY <1>a, Zenon DEF Falling
  <2>3. CASE T \cap M = {} /\ D = M
    <3>1. ~ Tabled(e)'
      BY <1>1, <2>2, <2>3, Zenon DEF Tabled
    <3>2. e \in dropping'[p] /\ \A b \in HtActor : e \in dropping'[b] => b = p
      BY <1>2, <2>3, <2>5, Zenon
    <3> QED
      BY <1>0, <2>1, <2>2, <3>1, <3>2, OnlyFalling, Zenon
  <2>4. CASE T = table[p] \cup M /\ D = dropping[p]
    <3>1. e \in table'[p] /\ \A q \in HtProcess : e \in table'[q] => q = p
      BY <1>1, <2>2, <2>4, Zenon
    <3>2. ~ Falling(e)'
      BY <1>0, <1>2, <2>4, <2>5, Zenon DEF Falling
    <3> QED
      BY <2>1, <2>2, <3>1, <3>2, OnlyTable, Zenon
  <2> QED
    BY <1>a, <2>3, <2>4, Zenon
<1>6. \A x \in End : QueueOk(x)'
  BY QueuesStay, Zenon DEF Settles
<1> QED
  BY <1>1, <1>2, <1>4, <1>5, <1>6, Zenon

\* handle_close and exit_current: ends fall out of the table.
LEMMA CloseHandleHolds ==
    ASSUME HeldInv, NEW p \in HtProcess, HtExitCurrent(p) \/ \E e \in End : HtHandleClose(p, e)
    PROVE  HeldInv'
<1>0. /\ HtTypes /\ CallOf(p) /\ htPc[p] = "user" /\ dropping[p] = {} /\ p \in live
      /\ UNCHANGED <<created, live, htQueues, htClosed, pinned, IPC_GEN, IPC_INFLIGHT, via, hand, ends>>
  BY Zenon DEF HeldInv, HtExitCurrent, HtHandleClose, HtIdle, counts, coll, calls
<1>1. /\ "user" \in HtSteps \ {"dead", "create"} /\ "user" \notin Holding /\ "user" \notin Counted
      /\ "user" \notin InWindow
      /\ "exit" \in HtSteps \ {"dead", "create"} /\ "exit" \notin Holding /\ "exit" \notin Counted
      /\ "exit" \notin InWindow /\ "user" # "exit"
  BY DEF HtSteps, Holding, Counted, InWindow
<1>2. /\ hand[p] = NoEnd /\ table[p] \in SUBSET End /\ via[p] \in End \cup {NoEnd}
      /\ via' = [via EXCEPT ![p] = via[p]] /\ hand' = [hand EXCEPT ![p] = NoEnd]
      /\ NoEnd \in End \cup {NoEnd} /\ ~ (NoEnd # NoEnd)
  BY <1>0, <1>1, ZenonT(30) DEF CallOf, HtTypes
<1>3. ASSUME NEW M \in SUBSET table[p], NEW l \in {"user", "exit"}, l = "exit" => M = table[p],
             table' = [table EXCEPT ![p] = table[p] \ M],
             dropping' = [dropping EXCEPT ![p] = M],
             htPc' = [htPc EXCEPT ![p] = l]
      PROVE  HeldInv'
  <2>1. M \in SUBSET End /\ table[p] \ M \in SUBSET End /\ (l = "exit" => table[p] \ M = {})
    BY <1>2, <1>3
  <2>2. CallGoes(p, l, via[p], NoEnd, table[p] \ M)
    BY <1>0, <1>2, <1>3, Zenon DEF CallGoes
  <2>3. /\ htPc' \in [HtProcess -> HtSteps]
        /\ via' \in [HtProcess -> End \cup {NoEnd}]
        /\ (\A r \in HtProcess : CallOf(r)') /\ CreatesApart' /\ Counts'
    <3>1. /\ l \in HtSteps \ {"dead", "create"} /\ l \notin Holding /\ l \notin InWindow
          /\ l \in Counted <=> htPc[p] \in Counted
      BY <1>0, <1>1, <1>3
    <3> QED
      BY <1>0, <1>2, <2>1, <2>2, <3>1, CallMovesOn, ZenonT(30)
  <2>4. ASSUME NEW e \in M
        PROVE  /\ ChanOf[e] \in created /\ ~ pinned[e]
               /\ ~ Queued(e) /\ ~ Falling(e) /\ ~ InHand(e)'
               /\ \A q \in HtProcess : e \in table[q] => q = p
    <3>1. e \in End /\ e \in table[p] /\ EndOk(e) /\ Tabled(e)
      BY <2>1, Zenon DEF HeldInv, Tabled
    <3>2. ~ Queued(e) /\ ~ Falling(e) /\ ~ InHand(e) /\ ~ pinned[e] /\ ChanOf[e] \in created
      BY <3>1, Zenon DEF EndOk, OneAt, Nowhere
    <3>3. \A q \in HtProcess : e \in table[q] => q = p
      BY <3>1, Zenon DEF EndOk, OneAt
    <3> QED
      BY <1>0, <3>2, <3>3, Zenon DEF InHand
  <2>6. (table[p] \ M) \ M = table[p] \ M /\ (table[p] \ M) \cap M = {}
    OBVIOUS
  <2>5. Settles(p, M, table[p] \ M, M)
    BY <1>0, <1>3, <2>1, <2>4, <2>6, Zenon DEF Settles
  <2>7. /\ \A e \in End : EndOk(e)' /\ QueueOk(e)'
        /\ table' \in [HtProcess -> SUBSET End]
        /\ dropping' \in [HtActor -> SUBSET End]
    BY <2>1, <2>5, SettleHolds, Zenon
  <2>8. HtTypes'
    BY <1>0, <2>3, <2>7, Zenon DEF HtTypes
  <2> QED
    BY <2>3, <2>7, <2>8, Zenon DEF HeldInv
<1>4. CASE HtExitCurrent(p)
  <2>1. table[p] \ table[p] = {} /\ table[p] \in SUBSET table[p]
    OBVIOUS
  <2> QED
    BY <1>3, <1>4, <2>1, Zenon DEF HtExitCurrent
<1>5. ASSUME NEW e \in End, HtHandleClose(p, e) PROVE HeldInv'
  <2>1. {e} \in SUBSET table[p] /\ htPc' = [htPc EXCEPT ![p] = "user"] /\ "user" # "exit"
    BY <1>0, <1>5 DEF HtHandleClose, HtTypes, calls
  <2> QED
    BY <1>3, <1>5, <2>1, Zenon DEF HtHandleClose
<1> QED
  BY <1>4, <1>5

\* RecvInsert moves the end in hand into the table, or drops it.
LEMMA InsertHolds ==
    ASSUME HeldInv, NEW p \in HtProcess, RecvInsert(p)
    PROVE  HeldInv'
<1>0. /\ HtTypes /\ CallOf(p) /\ htPc[p] = "insert" /\ dropping[p] = {}
      /\ UNCHANGED <<created, live, htQueues, htClosed, IPC_GEN, IPC_INFLIGHT, ends>>
      /\ via' = via /\ hand' = [hand EXCEPT ![p] = NoEnd] /\ htPc' = [htPc EXCEPT ![p] = "leave"]
  BY Zenon DEF HeldInv, RecvInsert, At, counts, coll
<1>1. /\ "insert" \in Holding /\ "insert" \in Counted /\ "insert" \in InWindow
      /\ "leave" \in HtSteps \ {"dead", "create"} /\ "leave" \notin Holding /\ "leave" \in Counted
      /\ "leave" # "exit" /\ NoEnd \in End \cup {NoEnd} /\ ~ (NoEnd # NoEnd)
  BY DEF HtSteps, Holding, Counted, InWindow
<1>2. /\ hand[p] # NoEnd /\ hand[p] \in End \cup {NoEnd} /\ table[p] \in SUBSET End /\ p \in live
      /\ via[p] \in EndsOf(created) /\ via' = [via EXCEPT ![p] = via[p]]
      /\ via[p] \in End \cup {NoEnd} /\ p \in HtActor
  BY <1>0, <1>1, Zenon DEF CallOf, HtTypes, HtActor
<1>a. PICK h \in End : h = hand[p]
  BY <1>2
<1>3. /\ ~ Tabled(h) /\ ~ Queued(h) /\ ~ Falling(h) /\ ~ pinned[h]
      /\ ChanOf[h] \in created /\ \A r \in HtProcess : hand[r] = h => r = p
  <2>1. EndOk(h) /\ InHand(h)
    BY <1>a, Zenon DEF HeldInv, InHand
  <2> QED
    BY <1>a, <2>1, Zenon DEF EndOk, OneAt, Nowhere
<1>4. ASSUME NEW T \in SUBSET End, NEW D \in SUBSET End,
             \/ T = table[p] /\ D = {h}
             \/ T = table[p] \cup {h} /\ D = dropping[p],
             table' = [table EXCEPT ![p] = T], dropping' = [dropping EXCEPT ![p] = D],
             \A e \in End : pinned'[e] <=> pinned[e], pinned' \in [End -> BOOLEAN]
      PROVE  HeldInv'
  <2>1. CallGoes(p, "leave", via[p], NoEnd, T)
    BY <1>0, <1>2, <1>4, Zenon DEF CallGoes
  <2>2. /\ htPc' \in [HtProcess -> HtSteps]
        /\ via' \in [HtProcess -> End \cup {NoEnd}]
        /\ hand' \in [HtProcess -> End \cup {NoEnd}] /\ hand'[p] = NoEnd
        /\ \A r \in HtProcess \ {p} : hand'[r] = hand[r]
        /\ (\A r \in HtProcess : CallOf(r)') /\ CreatesApart' /\ Counts'
    BY <1>0, <1>1, <1>2, <1>4, <2>1, CallMovesOn, ZenonT(30)
  <2>3. ~ InHand(h)'
    BY <1>2, <1>3, <1>a, <2>2, Zenon DEF InHand
  <2>4. \A e \in End \ {h} : \A r \in HtProcess : hand'[r] = e <=> hand[r] = e
    <3>1. \A e \in End : e # NoEnd
      BY HandlesAssumption, Zenon
    <3> QED
      BY <1>a, <2>2, <3>1, Zenon
  <2>6. h \notin table[p]
    BY <1>3, Zenon DEF Tabled
  <2>7. \/ T \ {h} = table[p] \ {h} /\ D = {h} /\ T \cap {h} = {} /\ dropping[p] = {}
        \/ T = table[p] \cup {h} /\ D = dropping[p]
    BY <1>0, <1>4, <2>6
  <2>8. \A e \in {h} : /\ ChanOf[e] \in created
                       /\ ~ Queued(e) /\ ~ Falling(e) /\ ~ InHand(e)'
                       /\ \A q \in HtProcess : e \in table[q] => q = p
    BY <1>3, <2>3, Zenon DEF Tabled
  <2>9. /\ \A e \in End : EndOk(e)' /\ QueueOk(e)'
        /\ table' \in [HtProcess -> SUBSET End]
        /\ dropping' \in [HtActor -> SUBSET End]
    <3>1. Settles(p, {h}, T, D) /\ {h} \in SUBSET End
      BY <1>0, <1>3, <1>4, <2>4, <2>7, <2>8, Zenon DEF Settles
    <3> QED
      BY <3>1, SettleHolds, Zenon
  <2>10. HtTypes'
    BY <1>0, <1>4, <2>2, <2>9, Zenon DEF HtTypes
  <2> QED
    BY <2>2, <2>9, <2>10, Zenon DEF HeldInv
<1>5. /\ table[p] \cup {h} \in SUBSET End /\ {h} \in SUBSET End /\ dropping[p] \in SUBSET End
      /\ dropping[p] \cup {h} = {h}
      /\ dropping = [dropping EXCEPT ![p] = dropping[p]] /\ table = [table EXCEPT ![p] = table[p]]
      /\ pinned \in [End -> BOOLEAN]
  BY <1>0, <1>2, <1>a DEF HtTypes
<1>6. CASE Insert(p, h)
  <2>1. pinned' = [pinned EXCEPT ![h] = FALSE]
    BY <1>6, Zenon DEF Insert
  <2>2. pinned' \in [End -> BOOLEAN] /\ \A e \in End : pinned'[e] <=> pinned[e]
    BY <1>3, <1>5, <2>1
  <2>3. CASE table' = [table EXCEPT ![p] = table[p] \cup {h}] /\ UNCHANGED dropping
    <3>1. dropping' = [dropping EXCEPT ![p] = dropping[p]]
      BY <1>5, <2>3, Zenon
    <3> QED
      BY <1>4, <1>5, <2>2, <2>3, <3>1, Zenon
  <2>4. CASE dropping' = [dropping EXCEPT ![p] = dropping[p] \cup {h}] /\ UNCHANGED table
    <3>1. dropping' = [dropping EXCEPT ![p] = {h}] /\ table' = [table EXCEPT ![p] = table[p]]
      BY <1>5, <2>4, Zenon
    <3> QED
      BY <1>2, <1>4, <1>5, <2>2, <3>1, Zenon
  <2> QED
    BY <1>6, <2>3, <2>4, Zenon DEF Insert
<1>7. CASE dropping' = [dropping EXCEPT ![p] = {h}] /\ UNCHANGED <<table, pinned>>
  <2>1. table' = [table EXCEPT ![p] = table[p]] /\ pinned' \in [End -> BOOLEAN] /\ \A e \in End : pinned'[e] <=> pinned[e]
    BY <1>5, <1>7, Zenon
  <2> QED
    BY <1>2, <1>4, <1>5, <1>7, <2>1, Zenon
<1> QED
  BY <1>6, <1>7, <1>a, Zenon DEF RecvInsert

\* InsertPair moves the new pair into the table, or drops it.
LEMMA InsertPairHolds ==
    ASSUME HeldInv, NEW p \in HtProcess, InsertPair(p)
    PROVE  HeldInv'
<1>0. /\ HtTypes /\ CallOf(p) /\ htPc[p] = "create" /\ dropping[p] = {}
      /\ UNCHANGED <<created, live, htQueues, htClosed, IPC_GEN, IPC_INFLIGHT, ends>>
      /\ hand' = hand /\ via' = [via EXCEPT ![p] = NoEnd] /\ htPc' = [htPc EXCEPT ![p] = "user"]
      /\ pinned' = [e \in End |-> pinned[e] /\ e \notin {via[p], HtPeer(via[p])}]
  BY Zenon DEF HeldInv, InsertPair, At, counts, coll
<1>1. /\ "create" \notin Holding /\ "create" \notin Counted
      /\ "user" \in HtSteps \ {"dead"} /\ "user" \notin Holding /\ "user" \notin Counted
      /\ "user" \notin InWindow \cup {"create"} /\ "user" # "create"
      /\ "user" # "exit" /\ NoEnd \in End \cup {NoEnd} /\ ~ (NoEnd # NoEnd)
  BY DEF HtSteps, Holding, Counted, InWindow
<1>2. /\ hand[p] = NoEnd /\ table[p] \in SUBSET End /\ p \in live /\ via[p] \in End
      /\ hand' = [hand EXCEPT ![p] = NoEnd] /\ HtPeer(via[p]) \in End
      /\ pinned[via[p]] /\ pinned[HtPeer(via[p])]
      /\ \A e \in End : ChanOf[e] = ChanOf[via[p]] <=> e \in {via[p], HtPeer(via[p])}
  <2>1. via[p] \in End
    BY <1>0, Zenon DEF CallOf, EndsOf
  <2>2. \A e \in End : ChanOf[e] = ChanOf[via[p]] <=> e \in {via[p], HtPeer(via[p])}
    BY <2>1, PeerIs, Zenon DEF EndsOf
  <2>3. hand[p] = NoEnd /\ p \in live /\ pinned[via[p]] /\ pinned[HtPeer(via[p])]
    BY <1>0, <1>1, Zenon DEF CallOf
  <2>4. table[p] \in SUBSET End /\ hand' = [hand EXCEPT ![p] = NoEnd]
    BY <1>0, <2>3, Zenon DEF HtTypes
  <2> QED
    BY <2>1, <2>2, <2>3, <2>4, PeerIs, Zenon
<1>a. PICK M \in SUBSET End : M = {via[p], HtPeer(via[p])}
  BY <1>2, Zenon
<1>3. ASSUME NEW e \in M
      PROVE  /\ e \in End /\ pinned[e] /\ ChanOf[e] \in created /\ Nowhere(e)
             /\ ~ Tabled(e) /\ ~ InHand(e) /\ ~ Queued(e) /\ ~ Falling(e)
  <2>1. e \in End /\ pinned[e]
    BY <1>2, <1>a, Zenon
  <2>2. EndOk(e)
    BY <2>1, Zenon DEF HeldInv
  <2> QED
    BY <2>1, <2>2, Zenon DEF EndOk, OneAt, Nowhere
<1>4. pinned' \in [End -> BOOLEAN] /\ \A e \in End : pinned'[e] <=> pinned[e] /\ e \notin M
  BY <1>0, <1>a, Zenon
<1>5. ASSUME NEW q \in HtProcess \ {p}, htPc[q] = "create"
      PROVE  pinned'[via[q]] /\ pinned'[HtPeer(via[q])]
  <2>1. /\ via[q] \in End /\ pinned[via[q]] /\ pinned[HtPeer(via[q])] /\ HtPeer(via[q]) \in End
        /\ ChanOf[HtPeer(via[q])] = ChanOf[via[q]]
    BY <1>5, PeerIs, Zenon DEF HeldInv, CallOf, EndsOf
  <2>2. ChanOf[via[q]] # ChanOf[via[p]]
    BY <1>0, <1>5, Zenon DEF HeldInv, CreatesApart
  <2> QED
    BY <1>2, <1>4, <1>a, <2>1, <2>2, Zenon
<1>6. ASSUME NEW T \in SUBSET End, NEW D \in SUBSET End,
             \/ T = table[p] /\ D = M
             \/ T = table[p] \cup M /\ D = dropping[p],
             table' = [table EXCEPT ![p] = T], dropping' = [dropping EXCEPT ![p] = D]
      PROVE  HeldInv'
  <2>1. CallGoes(p, "user", NoEnd, NoEnd, T)
    BY <1>0, <1>2, <1>6, Zenon DEF CallGoes
  <2>2. /\ htPc' \in [HtProcess -> HtSteps]
        /\ via' \in [HtProcess -> End \cup {NoEnd}]
        /\ (\A r \in HtProcess : CallOf(r)') /\ CreatesApart' /\ Counts'
    <3>1. created \subseteq created'
      BY <1>0, Zenon
    <3> QED
      <4>1. /\ NoEnd # NoEnd <=> "user" \in Holding
            /\ "user" \in InWindow \cup {"create"} => NoEnd \in EndsOf(created')
            /\ "user" = "exit" => T = {}
            /\ "user" = "create" => pinned'[NoEnd] /\ pinned'[HtPeer(NoEnd)]
            /\ "user" \in Counted <=> htPc[p] \in Counted
        BY <1>0, <1>1, Zenon
      <4>2. \A q \in HtProcess \ {p} : htPc[q] = "create" =>
               /\ pinned'[via[q]] /\ pinned'[HtPeer(via[q])]
               /\ "user" = "create" => ChanOf[NoEnd] # ChanOf[via[q]]
        BY <1>1, <1>5, Zenon
      <4> QED
        BY <1>1, <2>1, <3>1, <4>1, <4>2, CallMoves, Zenon
  <2>6. \A e \in M : e \notin table[p]
    BY <1>3, Zenon DEF Tabled
  <2>7. \/ T \ M = table[p] \ M /\ D = M /\ T \cap M = {} /\ dropping[p] = {}
        \/ T = table[p] \cup M /\ D = dropping[p]
    BY <1>0, <1>6, <2>6
  <2>8. \A e \in M : /\ ChanOf[e] \in created
                     /\ ~ Queued(e) /\ ~ Falling(e) /\ ~ InHand(e)'
                     /\ \A q \in HtProcess : e \in table[q] => q = p
    BY <1>0, <1>3, Zenon DEF Tabled, InHand
  <2>4. \A e \in End \ M : \A r \in HtProcess : hand'[r] = e <=> hand[r] = e
    BY <1>0, Zenon
  <2>9. /\ \A e \in End : EndOk(e)' /\ QueueOk(e)'
        /\ table' \in [HtProcess -> SUBSET End]
        /\ dropping' \in [HtActor -> SUBSET End]
    <3>1. Settles(p, M, T, D)
      BY <1>0, <1>3, <1>4, <1>6, <2>4, <2>7, <2>8, Zenon DEF Settles
    <3> QED
      BY <3>1, SettleHolds, Zenon
  <2>10. HtTypes'
    BY <1>0, <1>4, <2>2, <2>9, Zenon DEF HtTypes
  <2> QED
    BY <2>2, <2>9, <2>10, Zenon DEF HeldInv
<1>7. /\ table[p] \cup M \in SUBSET End /\ dropping[p] \in SUBSET End /\ p \in HtActor
      /\ dropping = [dropping EXCEPT ![p] = dropping[p]] /\ table = [table EXCEPT ![p] = table[p]]
  BY <1>0, <1>2 DEF HtTypes, HtActor
<1>8. CASE table' = [table EXCEPT ![p] = table[p] \cup M] /\ UNCHANGED dropping
  <2>1. dropping' = [dropping EXCEPT ![p] = dropping[p]]
    BY <1>7, <1>8, Zenon
  <2> QED
    BY <1>6, <1>7, <1>8, <2>1, Zenon
<1>9. CASE dropping' = [dropping EXCEPT ![p] = M] /\ UNCHANGED table
  <2>1. table' = [table EXCEPT ![p] = table[p]]
    BY <1>7, <1>9, Zenon
  <2> QED
    BY <1>2, <1>6, <1>9, <2>1, Zenon
<1> QED
  BY <1>8, <1>9, <1>a, Zenon DEF InsertPair

\* A step of no call.
LEMMA CallsStay ==
    ASSUME HeldInv, UNCHANGED <<created, live, table, pinned, IPC_INFLIGHT, htPc, via, hand>>
    PROVE  (\A p \in HtProcess : CallOf(p)') /\ CreatesApart' /\ Counts'
<1>1. (\A p \in HtProcess : CallOf(p)) /\ CreatesApart /\ Counts
  BY Zenon DEF HeldInv
<1>2. \A p \in HtProcess : CallOf(p)'
  BY <1>1, Zenon DEF CallOf
<1>3. CreatesApart' /\ Counts'
  BY <1>1, Zenon DEF CreatesApart, Counts
<1> QED
  BY <1>2, <1>3, Zenon

\* An end that stays where it is and closes, or leaves the collector's copy.
LEMMA SameElse ==
    ASSUME NEW e \in End, EndOk(e), Same(e), UNCHANGED created,
           htClosed'[e] = htClosed[e] \/ (htClosed'[e] /\ ChanOf[e] \in created),
           e \in ends => e \in ends' \/ ~ Nowhere(e) \/ pinned[e]
    PROVE  EndOk(e)'
<1>1. /\ Tabled(e)' <=> Tabled(e)
      /\ InHand(e)' <=> InHand(e)
      /\ Queued(e)' <=> Queued(e)
      /\ Falling(e)' <=> Falling(e)
  BY Zenon DEF Same, Tabled, InHand, Queued, Falling
<1>2. OneAt(e)'
  BY <1>1, Zenon DEF EndOk, OneAt, Same, Nowhere
<1> QED
  BY <1>1, <1>2, Zenon DEF EndOk, Same, Nowhere

\* ChannelEnd::close, of an end whose last reference a drops or that the
\* collector has not marked.
LEMMA CloseHolds ==
    ASSUME HeldInv, NEW a \in HtActor, NEW e \in End, HtClose(a, e),
           UNCHANGED <<created, live, table, pinned, IPC_INFLIGHT, IPC_GEN, htPc, via, hand, ends>>,
           e \in dropping[a] \/ (~ htClosed[e] /\ ChanOf[e] \in created)
    PROVE  HeldInv'
<1>0. HtTypes /\ EndOk(e) /\ dropping \in [HtActor -> SUBSET End] /\ dropping[a] \in SUBSET End
  BY Zenon DEF HeldInv, HtTypes
<1>1. (\A p \in HtProcess : CallOf(p)') /\ CreatesApart' /\ Counts'
  BY CallsStay, Zenon
<1>2. ChanOf[e] \in created
  BY <1>0, Zenon DEF EndOk, Nowhere, Falling
<1>3. CASE htClosed[e]
  <2>1. e \in dropping[a] /\ dropping' = [dropping EXCEPT ![a] = dropping[a] \ {e}] /\ UNCHANGED <<htClosed, htQueues>>
    BY <1>3, Zenon DEF HtClose
  <2>2. /\ dropping' \in [HtActor -> SUBSET End] /\ dropping'[a] = dropping[a] \ {e}
        /\ \A b \in HtActor \ {a} : dropping'[b] = dropping[b]
    <3>1. dropping[a] \ {e} \in SUBSET End
      BY <1>0
    <3> QED
      BY <1>0, <2>1, <3>1, ChangedAt, Zenon
  <2>3. \A x : Carried(x)' = Carried(x)
    BY <2>1, CarriedSame, Zenon
  <2>4. ASSUME NEW x \in End \ {e} PROVE EndOk(x)'
    <3>1. EndOk(x)
      BY Zenon DEF HeldInv
    <3>2. Same(x)
      BY <2>2, <2>3, Zenon DEF Same
    <3> QED
      BY <2>1, <3>1, <3>2, SameEnd, Zenon
  <2>5. EndOk(e)'
    <3>1. /\ ~ Tabled(e) /\ ~ InHand(e) /\ ~ Queued(e)
          /\ \A b \in HtActor : e \in dropping[b] => b = a
      BY <1>0, <2>1, Zenon DEF EndOk, OneAt, Falling
    <3>2. ~ Tabled(e)' /\ ~ InHand(e)' /\ ~ Queued(e)'
      BY <2>3, <3>1, Zenon DEF Tabled, InHand, Queued
    <3>3. ~ Falling(e)'
      BY <2>2, <3>1, Zenon DEF Falling
    <3>4. ChanOf[e] \in created' /\ htClosed'[e]
      BY <1>2, <1>3, <2>1, Zenon
    <3> QED
      BY <3>2, <3>3, <3>4, OnlyNowhere, Zenon
  <2>6. \A x \in End : QueueOk(x)'
    BY <2>1, QueuesStay, Zenon
  <2>7. HtTypes'
    BY <1>0, <2>1, <2>2, Zenon DEF HtTypes
  <2> QED
    BY <1>1, <2>4, <2>5, <2>6, <2>7, Zenon DEF HeldInv
<1>4. CASE ~ htClosed[e]
  <2>1. /\ htClosed' = [htClosed EXCEPT ![e] = TRUE]
        /\ htQueues' = [htQueues EXCEPT ![e] = <<>>]
        /\ dropping' = [dropping EXCEPT ![a] = (dropping[a] \cup Carried(e)) \ {e}]
    BY <1>4, Zenon DEF HtClose
  <2>2. /\ Carried(e)' = {}
        /\ \A x \in End \ {e} : Carried(x)' = Carried(x)
        /\ htQueues' \in [End -> Seq(End)] /\ htQueues'[e] = <<>>
    BY <1>0, <2>1, CarriedCleared, Zenon
  <2>3. Carried(e) \in SUBSET End
    <3>1. htQueues[e] \in Seq(End)
      BY <1>0, Zenon DEF HtTypes
    <3> QED
      BY <3>1 DEF Carried
  <2>4. /\ dropping' \in [HtActor -> SUBSET End] /\ dropping'[a] = (dropping[a] \cup Carried(e)) \ {e}
        /\ \A b \in HtActor \ {a} : dropping'[b] = dropping[b]
    <3>1. (dropping[a] \cup Carried(e)) \ {e} \in SUBSET End
      BY <1>0, <2>3
    <3> QED
      BY <1>0, <2>1, <3>1, ChangedAt, Zenon
  <2>5. /\ htClosed' \in [End -> BOOLEAN] /\ htClosed'[e]
        /\ \A x \in End \ {e} : htClosed'[x] = htClosed[x]
    BY <1>0, <2>1, Zenon DEF HtTypes
  <2>6. ASSUME NEW x \in End \ {e}, x \notin Carried(e) PROVE EndOk(x)'
    <3>1. EndOk(x)
      BY Zenon DEF HeldInv
    <3>2. \A y \in End : x \in Carried(y)' <=> x \in Carried(y)
      BY <2>2, <2>6, Zenon
    <3>3. \A b \in HtActor : x \in dropping'[b] <=> x \in dropping[b]
      BY <2>4, <2>6, Zenon
    <3>4. Same(x)
      BY <3>2, <3>3, Zenon DEF Same
    <3> QED
      BY <2>5, <3>1, <3>4, SameEnd, Zenon
  <2>7. ASSUME NEW x \in End, x \in Carried(e)
        PROVE  /\ ~ Tabled(x)' /\ ~ InHand(x)' /\ ~ Queued(x)' /\ ~ pinned'[x] /\ ChanOf[x] \in created'
               /\ \A b \in HtActor : x \notin dropping[b]
    <3>1. EndOk(x) /\ Queued(x)
      BY <2>7, Zenon DEF HeldInv, Queued
    <3>2. /\ ~ Tabled(x) /\ ~ InHand(x) /\ ~ Falling(x) /\ ~ pinned[x] /\ ChanOf[x] \in created
          /\ \A y \in End : x \in Carried(y) => y = e
      BY <2>7, <3>1, Zenon DEF EndOk, OneAt, Nowhere
    <3>3. ~ Queued(x)'
      BY <2>2, <3>2, Zenon DEF Queued
    <3> QED
      BY <3>2, <3>3, Zenon DEF Tabled, InHand, Falling
  <2>8. ASSUME NEW x \in End \ {e}, x \in Carried(e) PROVE EndOk(x)'
    <3>1. x \in dropping'[a] /\ \A b \in HtActor : x \in dropping'[b] => b = a
      BY <2>4, <2>7, <2>8, Zenon
    <3> QED
      BY <2>7, <2>8, <3>1, OnlyFalling, Zenon
  <2>9. EndOk(e)'
    <3>1. CASE e \in Carried(e)
      <4>1. ~ Falling(e)'
        BY <2>4, <2>7, <3>1, Zenon DEF Falling
      <4> QED
        BY <2>5, <2>7, <3>1, <4>1, OnlyNowhere, Zenon
    <3>2. CASE e \notin Carried(e) /\ e \notin dropping[a]
      <4>1. \A y \in End : e \in Carried(y)' <=> e \in Carried(y)
        BY <2>2, <3>2, Zenon
      <4>2. \A b \in HtActor : e \in dropping'[b] <=> e \in dropping[b]
        BY <2>4, <3>2, Zenon
      <4>3. Same(e)
        BY <4>1, <4>2, Zenon DEF Same
      <4> QED
        BY <1>0, <1>2, <2>5, <4>3, SameElse, Zenon
    <3>3. CASE e \notin Carried(e) /\ e \in dropping[a]
      <4>1. /\ ~ Tabled(e) /\ ~ InHand(e) /\ ~ Queued(e)
            /\ \A b \in HtActor : e \in dropping[b] => b = a
        BY <1>0, <3>3, Zenon DEF EndOk, OneAt, Falling
      <4>2. ~ Tabled(e)' /\ ~ InHand(e)' /\ ~ Queued(e)'
        BY <2>2, <4>1, Zenon DEF Tabled, InHand, Queued
      <4>3. ~ Falling(e)'
        BY <2>4, <4>1, Zenon DEF Falling
      <4>4. ChanOf[e] \in created'
        BY <1>2, Zenon
      <4> QED
        BY <2>5, <4>2, <4>3, <4>4, OnlyNowhere, Zenon
    <3> QED
      BY <3>1, <3>2, <3>3, Zenon
  <2>10. ASSUME NEW x \in End PROVE QueueOk(x)'
    <3>1. CASE x = e
      <4>1. DOMAIN <<>> = {}
        OBVIOUS
      <4> QED
        BY <2>2, <3>1, <4>1, Zenon DEF QueueOk
    <3>2. CASE x # e
      <4>1. QueueOk(x) /\ htQueues'[x] = htQueues[x] /\ htClosed'[x] = htClosed[x]
        BY <1>0, <2>1, <2>5, <3>2, Zenon DEF HeldInv, HtTypes
      <4> QED
        BY <4>1, Zenon DEF QueueOk
    <3> QED
      BY <3>1, <3>2, Zenon
  <2>11. HtTypes'
    BY <1>0, <2>2, <2>4, <2>5, Zenon DEF HtTypes
  <2> QED
    BY <1>1, <2>6, <2>8, <2>9, <2>10, <2>11, Zenon DEF HeldInv
<1> QED
  BY <1>3, <1>4, Zenon

\* A reference falls: the end closes, or stays in the collector's copy.
LEMMA DropHolds ==
    ASSUME HeldInv, CollTypes, NEW a \in HtActor, Drop(a)
    PROVE  HeldInv'
<1>0. /\ UNCHANGED <<created, live, table, pinned, IPC_INFLIGHT, IPC_GEN, htPc, via, hand, ends>>
      /\ HtTypes /\ dropping \in [HtActor -> SUBSET End] /\ dropping[a] \in SUBSET End
  BY Zenon DEF Drop, counts, calls, coll, HeldInv, HtTypes
<1>1. PICK e \in dropping[a] :
         IF HeldByCollector(e)
           THEN dropping' = [dropping EXCEPT ![a] = dropping[a] \ {e}] /\ UNCHANGED <<htClosed, htQueues>>
           ELSE HtClose(a, e)
  BY Zenon DEF Drop
<1>2. e \in End /\ EndOk(e)
  BY <1>0, <1>1, Zenon DEF HeldInv
<1>3. CASE ~ HeldByCollector(e)
  BY <1>0, <1>1, <1>2, <1>3, CloseHolds, Zenon
<1>4. CASE HeldByCollector(e)
  <2>1. dropping' = [dropping EXCEPT ![a] = dropping[a] \ {e}] /\ UNCHANGED <<htClosed, htQueues>> /\ e \in ends
    BY <1>1, <1>4, Zenon DEF HeldByCollector
  <2>2. /\ dropping' \in [HtActor -> SUBSET End] /\ dropping'[a] = dropping[a] \ {e}
        /\ \A b \in HtActor \ {a} : dropping'[b] = dropping[b]
    <3>1. dropping[a] \ {e} \in SUBSET End
      BY <1>0
    <3> QED
      BY <1>0, <2>1, <3>1, ChangedAt, Zenon
  <2>3. \A x : Carried(x)' = Carried(x)
    BY <2>1, CarriedSame, Zenon
  <2>4. ASSUME NEW x \in End \ {e} PROVE EndOk(x)'
    <3>1. EndOk(x)
      BY Zenon DEF HeldInv
    <3>2. Same(x)
      BY <1>0, <2>2, <2>3, Zenon DEF Same
    <3> QED
      BY <1>0, <2>1, <3>1, <3>2, SameEnd, Zenon
  <2>5. EndOk(e)'
    <3>1. /\ ~ Tabled(e) /\ ~ InHand(e) /\ ~ Queued(e) /\ ChanOf[e] \in created
          /\ \A b \in HtActor : e \in dropping[b] => b = a
      BY <1>1, <1>2, Zenon DEF EndOk, OneAt, Falling, Nowhere
    <3>2. ~ Tabled(e)' /\ ~ InHand(e)' /\ ~ Queued(e)'
      BY <1>0, <2>3, <3>1, Zenon DEF Tabled, InHand, Queued
    <3>3. ~ Falling(e)'
      BY <2>2, <3>1, Zenon DEF Falling
    <3>4. ChanOf[e] \in created' /\ e \in ends'
      BY <1>0, <2>1, <3>1, Zenon
    <3> QED
      BY <1>2, <3>2, <3>3, <3>4, OnlyNowhere, Zenon
  <2>6. \A x \in End : QueueOk(x)'
    BY <1>0, <2>1, QueuesStay, Zenon
  <2>7. HtTypes'
    BY <1>0, <2>1, <2>2, Zenon DEF HtTypes
  <2>8. (\A p \in HtProcess : CallOf(p)') /\ CreatesApart' /\ Counts'
    BY <1>0, CallsStay
  <2> QED
    BY <2>4, <2>5, <2>6, <2>7, <2>8, Zenon DEF HeldInv
<1> QED
  BY <1>3, <1>4, Zenon

\* The roots: what is in a table or in hand, and what is pinned.
LEMMA RootsAre ==
    \A e \in End : e \in Roots <=> Tabled(e) \/ InHand(e) \/ pinned[e]
<1> SUFFICES ASSUME NEW e \in End PROVE e \in Roots <=> Tabled(e) \/ InHand(e) \/ pinned[e]
  OBVIOUS
<1>1. e \in UNION {table[p] : p \in HtProcess} <=> Tabled(e)
  BY DEF Tabled
<1>2. e # NoEnd
  BY HandlesAssumption, Zenon
<1>3. e \in {hand[p] : p \in {r \in HtProcess : hand[r] # NoEnd}} <=> InHand(e)
  <2>1. ASSUME NEW q \in HtProcess, hand[q] = e
        PROVE  e \in {hand[p] : p \in {r \in HtProcess : hand[r] # NoEnd}}
    <3>1. q \in {r \in HtProcess : hand[r] # NoEnd}
      BY <1>2, <2>1, Zenon
    <3> QED
      BY <2>1, <3>1, Zenon
  <2> QED
    BY <2>1, Zenon DEF InHand
<1>4. e \in {x \in End : pinned[x]} <=> pinned[e]
  OBVIOUS
<1> QED
  BY <1>1, <1>3, <1>4, Zenon DEF Roots

\* The collector drops its copy: ends nobody else refers to fall.
LEMMA ReleaseHolds ==
    ASSUME HeldInv, CollTypes, Release
    PROVE  HeldInv'
<1>0. /\ UNCHANGED <<created, live, table, htQueues, htClosed, pinned, IPC_INFLIGHT, IPC_GEN, htPc, via, hand>>
      /\ HtTypes /\ dropping \in [HtActor -> SUBSET End] /\ Collector \in HtActor
      /\ dropping' = [dropping EXCEPT ![Collector] = {e \in ends : ~ Referenced(e)}]
      /\ dropping[Collector] = {} /\ ends \subseteq EndsOf(created)
  <2>1. cpc # "idle" /\ cpc # "close"
    BY DEF Release
  <2> QED
    BY <2>1, Zenon DEF Release, counts, calls, ipc, HeldInv, HtTypes, CollTypes, HtActor
<1>a. PICK F : F = {e \in ends : ~ Referenced(e)}
  BY Zenon
<1>1. /\ dropping' \in [HtActor -> SUBSET End] /\ dropping'[Collector] = F
      /\ \A b \in HtActor \ {Collector} : dropping'[b] = dropping[b]
  <2>1. F \in SUBSET End
    BY <1>0, <1>a DEF EndsOf
  <2> QED
    BY <1>0, <1>a, <2>1, ChangedAt, Zenon
<1>2. \A x : Carried(x)' = Carried(x)
  BY <1>0, CarriedSame, Zenon
<1>3. \A e \in End : ~ Referenced(e) => ~ Tabled(e) /\ ~ InHand(e) /\ ~ Queued(e) /\ ~ pinned[e] /\ ~ Falling(e)
  <2> SUFFICES ASSUME NEW e \in End, ~ Referenced(e)
      PROVE ~ Tabled(e) /\ ~ InHand(e) /\ ~ Queued(e) /\ ~ pinned[e] /\ ~ Falling(e)
    OBVIOUS
  <2>1. e \notin Roots /\ ~ Queued(e) /\ \A b \in HtProcess : e \notin dropping[b]
    BY Zenon DEF Referenced, Queued
  <2>2. ~ Tabled(e) /\ ~ pinned[e]
    BY <2>1, RootsAre, Zenon
  <2>3. ~ InHand(e)
    BY <2>1, RootsAre, Zenon
  <2>4. ~ Falling(e)
    BY <1>0, <2>1, Zenon DEF Falling, HtActor
  <2> QED
    BY <2>1, <2>2, <2>3, <2>4, Zenon
<1>4. \A e \in End : Referenced(e) => ~ Nowhere(e) \/ pinned[e]
  <2> SUFFICES ASSUME NEW e \in End, Referenced(e) PROVE ~ Nowhere(e) \/ pinned[e]
    OBVIOUS
  <2>1. CASE e \in Roots
    BY <2>1, RootsAre, Zenon DEF Nowhere
  <2>2. CASE e \notin Roots
    BY <2>2, Zenon DEF Referenced, Nowhere, Queued, Falling, HtActor
  <2> QED
    BY <2>1, <2>2, Zenon
<1>5. ASSUME NEW e \in End, e \notin F PROVE EndOk(e)'
  <2>1. EndOk(e)
    BY Zenon DEF HeldInv
  <2>2. Same(e)
    BY <1>0, <1>1, <1>2, <1>5, Zenon DEF Same
  <2>3. e \in ends => ~ Nowhere(e) \/ pinned[e]
    BY <1>4, <1>5, <1>a, Zenon
  <2> QED
    BY <1>0, <2>1, <2>2, <2>3, SameElse, Zenon
<1>6. ASSUME NEW e \in F PROVE EndOk(e)'
  <2>1. e \in End /\ ChanOf[e] \in created /\ ~ Referenced(e)
    BY <1>0, <1>a, Zenon DEF EndsOf
  <2>2. ~ Tabled(e) /\ ~ InHand(e) /\ ~ Queued(e) /\ ~ pinned[e] /\ ~ Falling(e)
    BY <1>3, <2>1, Zenon
  <2>3. ~ Tabled(e)' /\ ~ InHand(e)' /\ ~ Queued(e)' /\ ~ pinned'[e] /\ ChanOf[e] \in created'
    BY <1>0, <1>2, <2>1, <2>2, Zenon DEF Tabled, InHand, Queued
  <2>4. e \in dropping'[Collector] /\ \A b \in HtActor : e \in dropping'[b] => b = Collector
    BY <1>1, <2>2, Zenon DEF Falling
  <2> QED
    BY <1>0, <2>1, <2>3, <2>4, OnlyFalling, Zenon
<1>7. \A x \in End : QueueOk(x)'
  BY <1>0, QueuesStay, Zenon
<1>8. HtTypes'
  BY <1>0, <1>1, Zenon DEF HtTypes
<1>9. (\A p \in HtProcess : CallOf(p)') /\ CreatesApart' /\ Counts'
  BY <1>0, CallsStay
<1> QED
  BY <1>5, <1>6, <1>7, <1>8, <1>9, Zenon DEF HeldInv

\* The steps of the collector that only read.
Reading ==
    \/ WaitIdle \/ ReadGen \/ Snapshot \/ MarkPinned \/ NoTables \/ Traverse \/ Validate
    \/ (\E p \in HtProcess : MarkTable(p)) \/ UNCHANGED handlesVars

\* They change nothing but what the collector knows.
LEMMA ReadHolds ==
    ASSUME HeldInv, CollTypes, Reading
    PROVE  /\ HeldInv' /\ ends \subseteq ends'
           /\ UNCHANGED <<created, live, table, htQueues, htClosed, pinned, IPC_INFLIGHT, IPC_GEN,
                          htPc, via, hand, dropping>>
<1>1. UNCHANGED <<created, live, table, htQueues, htClosed, pinned, IPC_INFLIGHT, IPC_GEN,
                  htPc, via, hand, dropping>>
  BY Zenon DEF Reading, WaitIdle, ReadGen, Snapshot, MarkPinned, NoTables, Traverse, Validate, MarkTable,
     ipc, counts, calls, handlesVars
<1>2. ends \subseteq ends'
  <2>1. CASE Snapshot
    <3>1. cpc \notin Copied
      BY <2>1 DEF Snapshot, Copied
    <3> QED
      BY <3>1, Zenon DEF CollTypes
  <2>2. CASE ~ Snapshot
    BY <2>2, Zenon DEF Reading, WaitIdle, ReadGen, MarkPinned, NoTables, Traverse, Validate, MarkTable, handlesVars
  <2> QED
    BY <2>1, <2>2, Zenon
<1>3. \A e \in End : EndOk(e)' /\ QueueOk(e)'
  BY <1>1, <1>2, StillEnds
<1>4. (\A p \in HtProcess : CallOf(p)') /\ CreatesApart' /\ Counts'
  BY <1>1, CallsStay
<1>5. HtTypes'
  BY <1>1, Zenon DEF HeldInv, HtTypes
<1> QED
  BY <1>1, <1>2, <1>3, <1>4, <1>5, Zenon DEF HeldInv

\* The collector closes an end it has not marked.
LEMMA CloseUnmarkedHolds ==
    ASSUME HeldInv, CollTypes, CloseUnmarked
    PROVE  HeldInv'
<1>0. /\ UNCHANGED <<created, live, table, pinned, IPC_INFLIGHT, IPC_GEN, htPc, via, hand, ends>>
      /\ Collector \in HtActor
  BY Zenon DEF CloseUnmarked, counts, calls, HtActor
<1>1. ASSUME NEW e \in Unmarked, HtClose(Collector, e) PROVE HeldInv'
  <2>1. e \in End /\ ChanOf[e] \in created /\ ~ htClosed[e]
    BY Zenon DEF Unmarked, CollTypes, EndsOf
  <2> QED
    BY <1>0, <1>1, <2>1, CloseHolds, Zenon
<1>2. CASE UNCHANGED <<htClosed, htQueues, dropping>>
  <2>1. \A e \in End : EndOk(e)' /\ QueueOk(e)'
    BY <1>0, <1>2, StillEnds
  <2>2. (\A p \in HtProcess : CallOf(p)') /\ CreatesApart' /\ Counts'
    BY <1>0, CallsStay
  <2>3. HtTypes'
    BY <1>0, <1>2, Zenon DEF HeldInv, HtTypes
  <2> QED
    BY <2>1, <2>2, <2>3, Zenon DEF HeldInv
<1> QED
  BY <1>1, <1>2, Zenon DEF CloseUnmarked

\* Every step keeps every end in one place.
LEMMA HeldNext ==
    ASSUME HeldInv, CollTypes, [HandlesNext]_handlesVars
    PROVE  HeldInv'
<1>1. ASSUME NEW p \in HtProcess, ProcessStep(p) PROVE HeldInv'
  <2>1. CASE SendCount(p) \/ PopCount(p) \/ Leave(p) \/ LeaveTable(p) \/ \E e \in End : SendOpen(p, e)
    BY <2>1, QuietHolds, Zenon
  <2>2. CASE HtExitCurrent(p) \/ \E e \in End : HtHandleClose(p, e)
    BY <2>2, CloseHandleHolds, Zenon
  <2>3. ASSUME NEW c \in Chan, ChannelCreate(p, c) PROVE HeldInv'
    BY <2>3, CreateHolds, Zenon DEF CollTypes
  <2>4. ASSUME NEW e \in End, HtPop(p, e) PROVE HeldInv'
    BY <2>4, PopHolds, Zenon
  <2> QED
    BY <1>1, <2>1, <2>2, <2>3, <2>4, InsertPairHolds, TakeHolds, PushHolds, InsertHolds, Zenon DEF ProcessStep
<1>2. CASE CollectorStep \/ UNCHANGED handlesVars
  BY <1>2, ReadHolds, ReleaseHolds, CloseUnmarkedHolds, Zenon DEF CollectorStep, Reading
<1> QED
  BY <1>1, <1>2, DropHolds, Zenon DEF HandlesNext

-----------------------------------------------------------------------------
(* What a step may do behind the collector's back.                         *)

Onward ==
    /\ created \subseteq created' /\ IPC_GEN <= IPC_GEN'
    /\ \A e \in End : htClosed[e] => htClosed'[e]

\* An end comes into a table, into a hand or into a queue from one of these.
NoneGained ==
    \A e \in EndsOf(created) :
        /\ Tabled(e)' \/ InHand(e)' \/ pinned'[e] =>
              Tabled(e) \/ InHand(e) \/ pinned[e] \/ \E v \in End : Tabled(v) /\ e \in Carried(v)
        /\ \A x \in End : e \in Carried(x)' => e \in Carried(x) \/ InHand(e)

\* While no window is open, queues only lose messages and a table gains only
\* ends that were pinned.
Calm ==
    IPC_GEN' = IPC_GEN /\ NoWindow =>
        /\ NoWindow'
        /\ \A x \in End : Carried(x)' \subseteq Carried(x)
        /\ \A e \in EndsOf(created) : pinned'[e] => pinned[e]
        /\ \A p \in HtProcess : \A e \in table'[p] : e \in table[p] \/ pinned[e]

Moves == Onward /\ NoneGained /\ Calm

\* A step that only takes away.
LEMMA ShrinkMoves ==
    ASSUME HtTypes, created \subseteq created', IPC_GEN' = IPC_GEN, UNCHANGED <<pinned, hand>>,
           \A e \in End : htClosed[e] => htClosed'[e],
           \A p \in HtProcess : table'[p] \subseteq table[p],
           \A x \in End : Carried(x)' \subseteq Carried(x),
           NoWindow => NoWindow'
    PROVE  Moves
<1>1. Onward
  BY DEF Onward, HtTypes
<1>2. NoneGained
  BY Zenon DEF NoneGained, Tabled, InHand
<1>3. Calm
  BY Zenon DEF Calm
<1> QED
  BY <1>1, <1>2, <1>3, Zenon DEF Moves

\* ChannelEnd::close empties one queue and closes one end.
LEMMA ClosesOnly ==
    ASSUME HtTypes, NEW a \in HtActor, NEW e \in End, HtClose(a, e)
    PROVE  /\ \A x \in End : Carried(x)' \subseteq Carried(x)
           /\ \A x \in End : htClosed[x] => htClosed'[x]
           /\ \A x \in End \ {e} : htClosed'[x] = htClosed[x]
           /\ \A b \in HtActor \ {a} : dropping'[b] = dropping[b]
<1>0. \A b \in HtActor \ {a} : dropping'[b] = dropping[b]
  BY Zenon DEF HtTypes, HtClose
<1>1. CASE htClosed[e]
  <2>1. UNCHANGED <<htClosed, htQueues>>
    BY <1>1, Zenon DEF HtClose
  <2>2. \A x : Carried(x)' = Carried(x)
    BY <2>1, CarriedSame, Zenon
  <2> QED
    BY <1>0, <2>1, <2>2, Zenon
<1>2. CASE ~ htClosed[e]
  <2>1. htClosed' = [htClosed EXCEPT ![e] = TRUE] /\ htQueues' = [htQueues EXCEPT ![e] = <<>>]
    BY <1>2, Zenon DEF HtClose
  <2>2. Carried(e)' = {} /\ \A x \in End \ {e} : Carried(x)' = Carried(x)
    BY <2>1, CarriedCleared, Zenon
  <2>3. \A x \in End : Carried(x)' \subseteq Carried(x)
    BY <2>2, Zenon
  <2>4. \A x \in End : htClosed'[x] = IF x = e THEN TRUE ELSE htClosed[x]
    BY <2>1, Zenon DEF HtTypes
  <2> QED
    BY <1>0, <2>3, <2>4, Zenon
<1> QED
  BY <1>1, <1>2, Zenon

\* Dropping and the collector's own steps.
LEMMA OtherMoves ==
    ASSUME HeldInv, CollTypes, CollectorStep \/ (\E a \in HtActor : Drop(a)) \/ UNCHANGED handlesVars
    PROVE  Moves
<1>0. /\ HtTypes /\ UNCHANGED <<created, IPC_GEN, pinned, hand, table, htPc>>
  BY Zenon DEF HeldInv, CollectorStep, Drop, WaitIdle, ReadGen, Snapshot, MarkPinned, NoTables, Traverse, Validate,
     MarkTable, CloseUnmarked, Release, ipc, counts, calls, handlesVars
<1>1. (NoWindow => NoWindow') /\ created \subseteq created' /\ \A p \in HtProcess : table'[p] \subseteq table[p]
  BY <1>0, Zenon DEF NoWindow
<1>2. CASE UNCHANGED <<htClosed, htQueues>>
  <2>1. \A x : Carried(x)' = Carried(x)
    BY <1>2, CarriedSame, Zenon
  <2>2. /\ \A x \in End : Carried(x)' \subseteq Carried(x)
        /\ \A x \in End : htClosed[x] => htClosed'[x]
    BY <1>2, <2>1, Zenon
  <2> QED
    BY <1>0, <1>1, <2>2, ShrinkMoves, Zenon
<1>3. ASSUME NEW a \in HtActor, NEW e \in End, HtClose(a, e) PROVE Moves
  BY <1>0, <1>1, <1>3, ClosesOnly, ShrinkMoves, Zenon
<1>4. ASSUME NEW a \in HtActor, Drop(a) PROVE Moves
  <2>1. dropping[a] \in SUBSET End
    BY <1>0, Zenon DEF HtTypes
  <2> QED
    BY <1>2, <1>3, <1>4, <2>1, Zenon DEF Drop
<1>5. CASE CloseUnmarked
  <2>1. \A e \in Unmarked : e \in End
    BY Zenon DEF Unmarked, CollTypes, EndsOf
  <2>2. Collector \in HtActor
    BY Zenon DEF HtActor
  <2> QED
    BY <1>2, <1>3, <1>5, <2>1, <2>2, Zenon DEF CloseUnmarked
<1>6. CASE CollectorStep /\ ~ CloseUnmarked
  <2>1. UNCHANGED <<htClosed, htQueues>>
    BY <1>6, Zenon DEF CollectorStep, WaitIdle, ReadGen, Snapshot, MarkPinned, NoTables, Traverse, Validate,
       MarkTable, Release, ipc
  <2> QED
    BY <1>2, <2>1, Zenon
<1>7. CASE UNCHANGED handlesVars
  BY <1>2, <1>7, Zenon DEF handlesVars
<1> QED
  BY <1>4, <1>5, <1>6, <1>7, Zenon

\* The system calls.
LEMMA QuietMoves ==
    ASSUME HeldInv, NEW p \in HtProcess,
           \/ SendCount(p) \/ PopCount(p) \/ Leave(p) \/ LeaveTable(p) \/ HtExitCurrent(p)
           \/ \E e \in End : HtHandleClose(p, e)
    PROVE  Moves
<1>0. /\ HtTypes /\ UNCHANGED <<created, IPC_GEN, pinned, hand, htQueues, htClosed>>
      /\ table \in [HtProcess -> SUBSET End] /\ htPc \in [HtProcess -> HtSteps]
  BY Zenon DEF HeldInv, HtTypes, SendCount, PopCount, Leave, LeaveTable, HtExitCurrent, HtHandleClose, ipc, counts, calls
<1>1. \A q \in HtProcess : table'[q] \subseteq table[q]
  <2>1. CASE UNCHANGED table
    BY <2>1, Zenon
  <2>2. CASE HtExitCurrent(p)
    BY <1>0, <2>2 DEF HtExitCurrent
  <2>3. ASSUME NEW e \in End, HtHandleClose(p, e) PROVE \A q \in HtProcess : table'[q] \subseteq table[q]
    BY <1>0, <2>3 DEF HtHandleClose
  <2> QED
    BY <2>1, <2>2, <2>3, Zenon DEF SendCount, PopCount, Leave, LeaveTable, ipc
<1>2. NoWindow => NoWindow'
  <2>1. CASE UNCHANGED htPc
    BY <2>1, Zenon DEF NoWindow
  <2>2. CASE SendCount(p) \/ PopCount(p) \/ Leave(p)
    <3>1. htPc[p] \in InWindow
      BY <2>2 DEF SendCount, PopCount, Leave, At, InWindow
    <3> QED
      BY <3>1, Zenon DEF NoWindow
  <2>3. CASE LeaveTable(p) \/ HtExitCurrent(p)
    <3>1. "dead" \notin InWindow /\ "exit" \notin InWindow
      BY DEF InWindow
    <3> QED
      BY <1>0, <2>3, <3>1, Zenon DEF NoWindow, LeaveTable, HtExitCurrent
  <2> QED
    BY <2>1, <2>2, <2>3, Zenon DEF HtHandleClose, calls
<1>3. \A x : Carried(x)' = Carried(x)
  BY <1>0, CarriedSame, Zenon
<1>4. /\ \A x \in End : Carried(x)' \subseteq Carried(x)
      /\ \A x \in End : htClosed[x] => htClosed'[x]
      /\ created \subseteq created'
  BY <1>0, <1>3, Zenon
<1> QED
  BY <1>0, <1>1, <1>2, <1>4, ShrinkMoves, Zenon

\* Calls that open a window; a receive takes an end out of a queue it can read.
LEMMA OpenMoves ==
    ASSUME HeldInv, NEW p \in HtProcess, NEW v \in End, SendOpen(p, v) \/ HtPop(p, v)
    PROVE  Moves
<1>0. /\ HtTypes /\ QueueOk(v) /\ UNCHANGED <<created, table, pinned, htClosed>>
      /\ IPC_GEN' = IPC_GEN + 1 /\ v \in table[p]
  BY Zenon DEF HeldInv, SendOpen, HtPop, ipc
<1>1. Onward /\ IPC_GEN' # IPC_GEN
  BY <1>0 DEF Onward, HtTypes
<1>2. Calm
  BY <1>1, Zenon DEF Calm
<1>3. CASE SendOpen(p, v)
  <2>1. UNCHANGED <<htQueues, hand>>
    BY <1>3, Zenon DEF SendOpen, ipc
  <2>2. \A x : Carried(x)' = Carried(x)
    BY <2>1, CarriedSame, Zenon
  <2>3. NoneGained
    BY <1>0, <2>1, <2>2, Zenon DEF NoneGained, Tabled, InHand
  <2> QED
    BY <1>1, <1>2, <2>3, Zenon DEF Moves
<1>4. CASE HtPop(p, v)
  <2>a. PICK h : h = Head(htQueues[v])
    OBVIOUS
  <2>1. /\ htQueues[v] # <<>> /\ htQueues' = [htQueues EXCEPT ![v] = Tail(htQueues[v])]
        /\ hand' = [hand EXCEPT ![p] = h] /\ hand \in [HtProcess -> End \cup {NoEnd}]
    BY <1>0, <1>4, <2>a, Zenon DEF HtPop, HtTypes
  <2>2. /\ h \in Carried(v)
        /\ Carried(v)' = Carried(v) \ {h}
        /\ \A x \in End \ {v} : Carried(x)' = Carried(x)
    BY <1>0, <2>1, <2>a, CarriedPopped, Zenon
  <2>3. \A x \in End : Carried(x)' \subseteq Carried(x)
    BY <2>2, Zenon
  <2>4. \A q \in HtProcess : hand'[q] = hand[q] \/ hand'[q] = h
    BY <2>1, Zenon
  <2>5. Tabled(v)
    BY <1>0, Zenon DEF Tabled
  <2>6. \A e : InHand(e)' => InHand(e) \/ e = h
    BY <2>4, Zenon DEF InHand
  <2>7. NoneGained
    BY <1>0, <2>2, <2>3, <2>5, <2>6, Zenon DEF NoneGained, Tabled
  <2> QED
    BY <1>1, <1>2, <2>7, Zenon DEF Moves
<1> QED
  BY <1>3, <1>4, Zenon

\* Calls inside their window.
LEMMA HandMoves ==
    ASSUME HeldInv, NEW p \in HtProcess, Take(p) \/ HtPush(p) \/ RecvInsert(p)
    PROVE  Moves
<1>0. HtTypes /\ CallOf(p) /\ UNCHANGED <<created, IPC_GEN, htClosed>>
  BY Zenon DEF HeldInv, Take, HtPush, RecvInsert, counts
<1>1. Onward
  BY <1>0 DEF Onward, HtTypes
<1>2. Calm
  <2>1. htPc[p] \in InWindow
    BY Zenon DEF Take, HtPush, RecvInsert, At, InWindow
  <2> QED
    BY <2>1, Zenon DEF Calm, NoWindow
<1>3. /\ hand \in [HtProcess -> End \cup {NoEnd}] /\ table \in [HtProcess -> SUBSET End]
      /\ hand[p] \in End \cup {NoEnd} /\ pinned \in [End -> BOOLEAN]
  BY <1>0, Zenon DEF HtTypes
<1>4. \A e \in End : e # NoEnd
  BY HandlesAssumption, Zenon
<1>5. CASE Take(p)
  <2>1. UNCHANGED <<htQueues, pinned>>
    BY <1>5, Zenon DEF Take
  <2>2. \A x : Carried(x)' = Carried(x)
    BY <2>1, CarriedSame, Zenon
  <2>3. ASSUME UNCHANGED <<table, hand>> PROVE NoneGained
    BY <2>1, <2>2, <2>3, Zenon DEF NoneGained, Tabled, InHand
  <2>4. ASSUME NEW x \in table[p], table' = [table EXCEPT ![p] = table[p] \ {x}],
               hand' = [hand EXCEPT ![p] = x]
        PROVE  NoneGained
    <3>1. \A q \in HtProcess : table'[q] \subseteq table[q]
      BY <1>3, <2>4
    <3>2. \A q \in HtProcess : hand'[q] = hand[q] \/ hand'[q] = x
      BY <1>3, <2>4, Zenon
    <3>3. \A e : (InHand(e)' => InHand(e) \/ e = x) /\ (Tabled(e)' => Tabled(e)) /\ Tabled(x)
      BY <3>1, <3>2, Zenon DEF InHand, Tabled
    <3> QED
      BY <2>1, <2>2, <3>3, Zenon DEF NoneGained
  <2>5. NoneGained
    BY <1>5, <2>3, <2>4, Zenon DEF Take
  <2> QED
    BY <1>1, <1>2, <2>5, Zenon DEF Moves
<1>6. CASE HtPush(p) \/ RecvInsert(p)
  <2>1. hand' = [hand EXCEPT ![p] = NoEnd] /\ hand[p] # NoEnd
    <3>1. htPc[p] \in Holding
      BY <1>6, Zenon DEF HtPush, RecvInsert, At, Holding
    <3> QED
      BY <1>0, <1>6, <3>1, Zenon DEF HtPush, RecvInsert, CallOf
  <2>a. PICK h \in End : h = hand[p]
    BY <1>3, <2>1
  <2>2. \A q \in HtProcess : hand'[q] = hand[q] \/ hand'[q] = NoEnd
    BY <1>3, <2>1, Zenon
  <2>3. (\A e \in End : InHand(e)' => InHand(e)) /\ InHand(h)
    BY <1>4, <2>2, <2>a, Zenon DEF InHand
  <2>4. ASSUME HtPush(p) PROVE NoneGained
    <3>1. UNCHANGED <<table, pinned>>
      BY <2>4, Zenon DEF HtPush
    <3>2. CASE UNCHANGED htQueues
      <4>1. \A x : Carried(x)' = Carried(x)
        BY <3>2, CarriedSame, Zenon
      <4> QED
        BY <2>3, <3>1, <4>1, Zenon DEF NoneGained, Tabled, EndsOf
    <3>3. CASE htQueues' = [htQueues EXCEPT ![HtPeer(via[p])] = Append(htQueues[HtPeer(via[p])], h)]
      <4>1. PICK q \in End : q = HtPeer(via[p])
        <5>1. htPc[p] \in InWindow
          BY <2>4, Zenon DEF HtPush, At, InWindow
        <5> QED
          BY <1>0, <5>1, PeerIs, Zenon DEF CallOf, EndsOf
      <4>2. htQueues' = [htQueues EXCEPT ![q] = Append(htQueues[q], h)]
        BY <3>3, <4>1, Zenon
      <4>3. Carried(q)' = Carried(q) \cup {h} /\ \A x \in End \ {q} : Carried(x)' = Carried(x)
        BY <1>0, <4>2, CarriedPushed, Zenon
      <4>4. \A x \in End : \A e : e \in Carried(x)' => e \in Carried(x) \/ e = h
        BY <4>3, Zenon
      <4> QED
        BY <2>3, <3>1, <4>4, Zenon DEF NoneGained, Tabled, EndsOf
    <3> QED
      BY <2>4, <2>a, <3>2, <3>3, Zenon DEF HtPush
  <2>5. ASSUME RecvInsert(p) PROVE NoneGained
    <3>1. UNCHANGED htQueues
      BY <2>5, Zenon DEF RecvInsert
    <3>2. \A x : Carried(x)' = Carried(x)
      BY <3>1, CarriedSame, Zenon
    <3>3. UNCHANGED table \/ table' = [table EXCEPT ![p] = table[p] \cup {h}]
      BY <2>5, <2>a, Zenon DEF RecvInsert, Insert
    <3>4. \A q \in HtProcess : \A e \in table'[q] : e \in table[q] \/ e = h
      BY <1>3, <3>3
    <3>5. \A e : Tabled(e)' => Tabled(e) \/ e = h
      BY <3>4, Zenon DEF Tabled
    <3>6. \A e \in End : pinned'[e] => pinned[e]
      <4>1. UNCHANGED pinned \/ pinned' = [pinned EXCEPT ![h] = FALSE]
        BY <2>5, <2>a, Zenon DEF RecvInsert, Insert
      <4> QED
        BY <1>3, <4>1
    <3> QED
      BY <2>3, <3>2, <3>5, <3>6, Zenon DEF NoneGained, EndsOf
  <2> QED
    BY <1>1, <1>2, <1>6, <2>4, <2>5, Zenon DEF Moves
<1> QED
  BY <1>5, <1>6, Zenon

\* channel_create: what is pinned is new, what enters the table was pinned.
LEMMA CreateMoves ==
    ASSUME HeldInv, NEW p \in HtProcess, InsertPair(p) \/ \E c \in Chan : ChannelCreate(p, c)
    PROVE  Moves
<1>0. /\ HtTypes /\ CallOf(p) /\ UNCHANGED <<IPC_GEN, htClosed, htQueues, hand>>
      /\ htPc \in [HtProcess -> HtSteps] /\ table \in [HtProcess -> SUBSET End]
  BY Zenon DEF HeldInv, InsertPair, ChannelCreate, counts, HtTypes
<1>1. \A x : Carried(x)' = Carried(x)
  BY <1>0, CarriedSame, Zenon
<1>2. NoWindow => NoWindow'
  <2>1. "user" \notin InWindow /\ "create" \notin InWindow
    BY DEF InWindow
  <2>2. htPc' = [htPc EXCEPT ![p] = "user"] \/ htPc' = [htPc EXCEPT ![p] = "create"]
    BY Zenon DEF InsertPair, ChannelCreate
  <2> QED
    BY <1>0, <2>1, <2>2, Zenon DEF NoWindow
<1>3. CASE InsertPair(p)
  <2>1. /\ UNCHANGED created /\ htPc[p] = "create"
        /\ pinned' = [e \in End |-> pinned[e] /\ e \notin {via[p], HtPeer(via[p])}]
    BY <1>3, Zenon DEF InsertPair, At
  <2>2. pinned[via[p]] /\ pinned[HtPeer(via[p])]
    BY <1>0, <2>1, Zenon DEF CallOf
  <2>3. \A e \in End : pinned'[e] => pinned[e]
    BY <2>1, Zenon
  <2>4. \A q \in HtProcess : \A e \in table'[q] : e \in table[q] \/ pinned[e]
    <3>1. UNCHANGED table \/ table' = [table EXCEPT ![p] = table[p] \cup {via[p], HtPeer(via[p])}]
      BY <1>3, Zenon DEF InsertPair
    <3>2. \A q \in HtProcess : table'[q] = table[q] \/ table'[q] = table[q] \cup {via[p], HtPeer(via[p])}
      BY <1>0, <3>1, Zenon
    <3> QED
      BY <2>2, <3>2, Zenon
  <2>5. \A e : Tabled(e)' => Tabled(e) \/ pinned[e]
    BY <2>4, Zenon DEF Tabled
  <2>6. NoneGained
    BY <1>0, <1>1, <2>3, <2>5, Zenon DEF NoneGained, InHand, EndsOf
  <2>7. Calm
    BY <1>1, <1>2, <2>3, <2>4, Zenon DEF Calm, EndsOf
  <2>8. Onward
    BY <1>0, <2>1 DEF Onward, HtTypes
  <2> QED
    BY <2>6, <2>7, <2>8, Zenon DEF Moves
<1>4. ASSUME NEW c \in Chan, ChannelCreate(p, c) PROVE Moves
  <2>1. /\ c \notin created /\ created' = created \cup {c} /\ UNCHANGED table
        /\ pinned' = [e \in End |-> pinned[e] \/ ChanOf[e] = c]
    BY <1>4, Zenon DEF ChannelCreate
  <2>2. \A e \in EndsOf(created) : pinned'[e] => pinned[e]
    BY <2>1, Zenon DEF EndsOf
  <2>3. NoneGained
    BY <1>0, <1>1, <2>1, <2>2, Zenon DEF NoneGained, InHand, Tabled
  <2>4. Calm
    BY <1>1, <1>2, <2>1, <2>2, Zenon DEF Calm
  <2>5. Onward
    BY <1>0, <2>1 DEF Onward, HtTypes
  <2> QED
    BY <2>3, <2>4, <2>5, Zenon DEF Moves
<1> QED
  BY <1>3, <1>4, Zenon

\* No step does more than that.
LEMMA MovesNext ==
    ASSUME HeldInv, CollTypes, [HandlesNext]_handlesVars
    PROVE  Moves
<1>1. ASSUME NEW p \in HtProcess, ProcessStep(p) PROVE Moves
  BY <1>1, QuietMoves, OpenMoves, HandMoves, CreateMoves, Zenon DEF ProcessStep
<1> QED
  BY <1>1, OtherMoves, Zenon DEF HandlesNext

\* A sealed set stays sealed.
LEMMA SealedKept ==
    ASSUME HeldInv, CollTypes, [HandlesNext]_handlesVars,
           NEW G \in SUBSET EndsOf(created), Sealed(G)
    PROVE  Sealed(G)'
<1>1. NoneGained
  BY MovesNext, Zenon DEF Moves
<1>2. ASSUME NEW e \in G PROVE ~ Tabled(e)' /\ ~ InHand(e)' /\ ~ pinned'[e]
  <2>1. e \in EndsOf(created) /\ ~ Tabled(e) /\ ~ InHand(e) /\ ~ pinned[e]
    BY Zenon DEF Sealed
  <2>2. ASSUME NEW v \in End, Tabled(v), e \in Carried(v) PROVE FALSE
    <3>1. v \in G
      BY <2>2, Zenon DEF Sealed
    <3> QED
      BY <2>2, <3>1, Zenon DEF Sealed
  <2> QED
    BY <1>1, <2>1, <2>2, Zenon DEF NoneGained
<1>3. ASSUME NEW x \in End \ G, NEW e \in G, e \in Carried(x)' PROVE FALSE
  <2>1. e \in EndsOf(created) /\ ~ InHand(e) /\ e \notin Carried(x)
    BY Zenon DEF Sealed
  <2> QED
    BY <1>1, <1>3, <2>1, Zenon DEF NoneGained
<1> QED
  BY <1>2, <1>3, Zenon DEF Sealed

\* Nothing in a sealed set can be reached.
LEMMA SealedUnreachable ==
    ASSUME HtTypes, NEW G \in SUBSET End, Sealed(G)
    PROVE  G \cap Reachable = {}
<1> DEFINE R == End \ G
<1>1. R \in SUBSET End
  OBVIOUS
<1>2. Roots \subseteq R
  <2>1. Roots \subseteq End
    <3>1. UNION {table[p] : p \in HtProcess} \subseteq End
      BY DEF HtTypes
    <3>2. {hand[p] : p \in {r \in HtProcess : hand[r] # NoEnd}} \subseteq End
      BY DEF HtTypes
    <3> QED
      BY <3>1, <3>2, Zenon DEF Roots
  <2> QED
    BY <2>1, RootsAre, Zenon DEF Sealed
<1>3. \A x \in R : [e \in End |-> Carried(e)][x] \subseteq R
  <2> SUFFICES ASSUME NEW x \in R PROVE Carried(x) \subseteq R
    BY Zenon
  <2>1. htQueues[x] \in Seq(End)
    BY Zenon DEF HtTypes
  <2>2. Carried(x) \subseteq End
    BY <2>1 DEF Carried
  <2> QED
    BY <2>2, Zenon DEF Sealed
<1> QED
  BY <1>1, <1>2, <1>3, Zenon DEF Reachable

\* What cannot be reached is sealed.
LEMMA UnreachableSealed ==
    ASSUME HeldInv, NEW G, G = EndsOf(created) \ Reachable
    PROVE  Sealed(G)
<1>0. HtTypes /\ G \subseteq End
  BY Zenon DEF HeldInv, EndsOf
<1>1. ASSUME NEW e \in G PROVE ~ Tabled(e) /\ ~ InHand(e) /\ ~ pinned[e]
  <2>1. e \in End /\ e \notin Reachable
    BY <1>0, Zenon
  <2>2. e \notin Roots
    BY <2>1, Zenon DEF Reachable
  <2> QED
    BY <2>1, <2>2, RootsAre, Zenon
<1>2. ASSUME NEW x \in End \ G, NEW e \in G, e \in Carried(x) PROVE FALSE
  <2>1. e \in End /\ e \notin Reachable
    BY <1>0, Zenon
  <2>2. CASE x \in Reachable
    <3>1. PICK R \in SUBSET End : /\ Roots \subseteq R /\ e \notin R
                                  /\ \A y \in R : [z \in End |-> Carried(z)][y] \subseteq R
      BY <2>1, Zenon DEF Reachable
    <3>2. x \in R
      BY <2>2, <3>1, Zenon DEF Reachable
    <3>3. Carried(x) \subseteq R
      BY <3>1, <3>2, Zenon
    <3> QED
      BY <1>2, <3>1, <3>3, Zenon
  <2>3. CASE x \notin EndsOf(created)
    <3>1. htQueues[x] = <<>>
      BY <2>3, Zenon DEF HeldInv, QueueOk, EndsOf
    <3>2. Carried(x) = {}
      BY <3>1 DEF Carried
    <3> QED
      BY <1>2, <3>2, Zenon
  <2> QED
    BY <2>2, <2>3, Zenon
<1> QED
  BY <1>1, <1>2, Zenon DEF Sealed

\* The collector's own variables.
LEMMA CollNext ==
    ASSUME HeldInv, CollTypes, [HandlesNext]_handlesVars
    PROVE  CollTypes'
<1>0. /\ HtTypes /\ created \subseteq created' /\ IPC_GEN \in Nat
      /\ \A e \in EndsOf(created) : e \in EndsOf(created')
      /\ dropping \in [HtActor -> SUBSET End] /\ table \in [HtProcess -> SUBSET End]
  BY MovesNext, Zenon DEF HeldInv, HtTypes, Moves, Onward, EndsOf
<1>1. Collector \in HtActor /\ \A p \in HtProcess : p \in HtActor /\ p # Collector
  BY HandlesAssumption, Zenon DEF HtActor
<1>2. ASSUME UNCHANGED coll, cpc \notin {"idle", "close"} => dropping'[Collector] = {}
      PROVE  CollTypes'
  BY <1>0, <1>2, Zenon DEF CollTypes, coll
<1>3. ASSUME NEW p \in HtProcess, ProcessStep(p) PROVE CollTypes'
  <2>1. UNCHANGED coll
    BY <1>3, Zenon DEF ProcessStep, InsertPair, SendCount, Take, HtPush, Leave, PopCount, RecvInsert, LeaveTable,
       HtExitCurrent, ChannelCreate, SendOpen, HtPop, HtHandleClose
  <2>2. \/ UNCHANGED dropping
        \/ \E D : dropping' = [dropping EXCEPT ![p] = D]
    BY <1>3, Zenon DEF ProcessStep, InsertPair, SendCount, Take, HtPush, Leave, PopCount, RecvInsert, LeaveTable,
       HtExitCurrent, ChannelCreate, SendOpen, HtPop, HtHandleClose, Insert
  <2>3. dropping'[Collector] = dropping[Collector]
    BY <1>0, <1>1, <2>2, Zenon
  <2> QED
    BY <1>2, <2>1, <2>3, Zenon DEF CollTypes
<1>4. ASSUME NEW a \in HtActor, Drop(a) PROVE CollTypes'
  <2>1. UNCHANGED coll
    BY <1>4, Zenon DEF Drop
  <2>2. PICK D : dropping' = [dropping EXCEPT ![a] = D]
    BY <1>4, Zenon DEF Drop, HtClose
  <2>3. a = Collector => dropping[Collector] # {}
    BY <1>4, Zenon DEF Drop
  <2>4. a # Collector => dropping'[Collector] = dropping[Collector]
    BY <1>0, <1>1, <2>2, Zenon
  <2> QED
    BY <1>2, <2>1, <2>3, <2>4, Zenon DEF CollTypes
<1>5. \A x \in End : Carried(x) \subseteq End
  <2> SUFFICES ASSUME NEW x \in End PROVE Carried(x) \subseteq End
    OBVIOUS
  <2>1. htQueues[x] \in Seq(End)
    BY <1>0, Zenon DEF HtTypes
  <2> QED
    BY <2>1 DEF Carried
<1>6. CASE WaitIdle
  BY <1>0, <1>6 DEF WaitIdle, CollTypes, Copied, ipc
<1>7. CASE ReadGen
  <2>1. doomed' \subseteq EndsOf(created')
    BY <1>0, <1>7, Zenon DEF ReadGen
  <2>2. raced' \in BOOLEAN
    BY <1>7 DEF ReadGen
  <2> QED
    BY <1>0, <1>7, <2>1, <2>2 DEF ReadGen, CollTypes, Copied, ipc
<1>8. CASE Snapshot
  <2>1. ends' \subseteq EndsOf(created')
    BY <1>0, <1>8, Zenon DEF Snapshot
  <2> QED
    BY <1>0, <1>8, <2>1 DEF Snapshot, CollTypes, Copied, ipc
<1>9. CASE MarkPinned
  <2>1. marked' \subseteq End /\ work' = marked' /\ live \subseteq HtProcess
    BY <1>0, <1>9, Zenon DEF MarkPinned, CollTypes, EndsOf, HtTypes
  <2> QED
    BY <1>0, <1>9, <2>1 DEF MarkPinned, CollTypes, Copied, ipc
<1>10. ASSUME NEW p \in HtProcess, MarkTable(p) PROVE CollTypes'
  <2>1. marked' = marked \cup table[p] /\ work' = work \cup (table[p] \ marked) /\ table[p] \subseteq End
    BY <1>0, <1>10, Zenon DEF MarkTable, Root
  <2>2. marked' \subseteq End /\ work' \subseteq marked'
    BY <2>1 DEF CollTypes
  <2> QED
    BY <1>0, <1>10, <2>2 DEF MarkTable, CollTypes, Copied, ipc
<1>11. CASE NoTables
  BY <1>0, <1>11 DEF NoTables, CollTypes, Copied, ipc
<1>12. CASE Traverse
  <2>1. PICK e \in work : /\ marked' = marked \cup Carried(e)
                          /\ work' = (work \ {e}) \cup (Carried(e) \ marked)
    BY <1>12, Zenon DEF Traverse
  <2>2. Carried(e) \subseteq End
    BY <1>5 DEF CollTypes
  <2>3. marked' \subseteq End /\ work' \subseteq marked'
    BY <2>1, <2>2 DEF CollTypes
  <2> QED
    BY <1>0, <1>12, <2>3 DEF Traverse, CollTypes, Copied, ipc
<1>13. CASE Validate
  BY <1>0, <1>13 DEF Validate, CollTypes, Copied, ipc
<1>14. CASE CloseUnmarked
  BY <1>0, <1>14 DEF CloseUnmarked, CollTypes, Copied
<1>15. CASE Release
  BY <1>0, <1>15, Zenon DEF Release, CollTypes, Copied, ipc
<1>16. CASE UNCHANGED handlesVars
  BY <1>2, <1>16, Zenon DEF handlesVars, coll, CollTypes
<1> QED
  BY <1>3, <1>4, <1>6, <1>7, <1>8, <1>9, <1>10, <1>11, <1>12, <1>13, <1>14, <1>15, <1>16, Zenon
     DEF HandlesNext, CollectorStep

\* The marking, while a process takes a step.
LEMMA MarkAside ==
    ASSUME HeldInv, CollTypes, MarkInv, [HandlesNext]_handlesVars, UNCHANGED coll
    PROVE  MarkInv'
<1>0. /\ UNCHANGED <<cpc, gen0, ends, marked, work, htTodo, raced>> /\ Onward /\ Calm
      /\ IPC_GEN \in Nat /\ gen0 \in Nat /\ ends \subseteq EndsOf(created)
  BY MovesNext, Zenon DEF coll, Moves, CollTypes, HeldInv, HtTypes
<1>1. cpc \notin {"idle", "gen"} => gen0 <= IPC_GEN /\ IPC_GEN <= IPC_GEN'
  BY <1>0, Zenon DEF MarkInv, Onward
<1>2. IPC_GEN' \in Nat
  BY HeldNext, Zenon DEF HeldInv, HtTypes
<1>3. cpc \notin {"idle", "gen"} => gen0 <= IPC_GEN'
  BY <1>0, <1>1, <1>2
<1>4. ASSUME cpc \in {"ends", "pinned", "tables", "work"}, Undisturbed'
      PROVE  /\ Undisturbed /\ NoWindow /\ NoWindow'
             /\ \A x \in End : Carried(x)' \subseteq Carried(x)
             /\ \A e \in EndsOf(created) : pinned'[e] => pinned[e]
             /\ \A p \in HtProcess : \A e \in table'[p] : e \in table[p] \/ pinned[e]
  <2>1. cpc \notin {"idle", "gen"}
    BY <1>4
  <2>2. IPC_GEN' = gen0 /\ ~ raced
    BY <1>0, <1>4, Zenon DEF Undisturbed
  <2>3. IPC_GEN = gen0 /\ IPC_GEN' = IPC_GEN
    BY <1>0, <1>1, <1>2, <2>1, <2>2
  <2>4. Undisturbed /\ NoWindow
    BY <1>4, <2>2, <2>3, Zenon DEF Undisturbed, MarkInv
  <2> QED
    BY <1>0, <2>3, <2>4, Zenon DEF Calm
<1>5. ASSUME cpc \in {"pinned", "tables", "work"}, Undisturbed', NEW x \in End \ ends PROVE Carried(x)' = {}
  <2>1. cpc \in {"ends", "pinned", "tables", "work"}
    BY <1>5
  <2>2. Carried(x) = {}
    BY <1>4, <1>5, <2>1, Zenon DEF MarkInv
  <2> QED
    BY <1>4, <1>5, <2>1, <2>2, Zenon
<1>6. ASSUME cpc \in {"tables", "work"}, Undisturbed'
      PROVE  /\ \A p \in HtProcess \ htTodo : table'[p] \cap ends \subseteq marked
             /\ \A e \in ends : pinned'[e] => e \in marked
             /\ \A x \in marked \ work : Carried(x)' \subseteq marked
  <2>1. cpc \in {"ends", "pinned", "tables", "work"}
    BY <1>6
  <2>2. Undisturbed
    BY <1>4, <1>6, <2>1, Zenon
  <2>3. /\ \A p \in HtProcess \ htTodo : table[p] \cap ends \subseteq marked
        /\ \A e \in ends : pinned[e] => e \in marked
        /\ \A x \in marked \ work : Carried(x) \subseteq marked
    BY <1>6, <2>2, Zenon DEF MarkInv
  <2>4. marked \subseteq End
    BY Zenon DEF CollTypes
  <2>5. \A p \in HtProcess \ htTodo : table'[p] \cap ends \subseteq marked
    BY <1>4, <1>6, <2>1, <2>3, Zenon
  <2>6. \A e \in ends : pinned'[e] => e \in marked
    BY <1>0, <1>4, <1>6, <2>1, <2>3, Zenon
  <2>7. \A x \in marked \ work : Carried(x)' \subseteq marked
    BY <1>4, <1>6, <2>1, <2>3, <2>4, Zenon
  <2> QED
    BY <2>5, <2>6, <2>7, Zenon
<1>7. ASSUME cpc \in {"close", "done"}, ~ raced PROVE Sealed(ends \ marked)'
  <2>1. PICK G \in SUBSET EndsOf(created) : G = ends \ marked
    BY <1>0, Zenon
  <2>2. Sealed(G)
    BY <1>7, <2>1, Zenon DEF MarkInv
  <2>3. Sealed(G)' /\ G = ends' \ marked'
    BY <1>0, <2>1, <2>2, SealedKept, Zenon
  <2> QED
    BY <2>3, Zenon
<1> QED
  BY <1>0, <1>3, <1>4, <1>5, <1>6, <1>7, Zenon DEF MarkInv

\* The marking itself.
LEMMA MarkCollect ==
    ASSUME HeldInv, CollTypes, MarkInv, CollectorStep
    PROVE  MarkInv'
<1>0. /\ UNCHANGED <<created, table, pinned, htPc, IPC_GEN, live>> /\ HtTypes
      /\ IPC_GEN \in Nat /\ ends \subseteq EndsOf(created)
      /\ (NoWindow <=> NoWindow')
  <2>1. UNCHANGED <<created, table, pinned, htPc, IPC_GEN, live>>
    BY Zenon DEF CollectorStep, WaitIdle, ReadGen, Snapshot, MarkPinned, NoTables, Traverse, Validate,
       MarkTable, CloseUnmarked, Release, ipc, counts, calls
  <2> QED
    BY <2>1, Zenon DEF HeldInv, HtTypes, CollTypes, NoWindow
<1>1. CASE WaitIdle \/ Release
  <2>1. cpc' \in {"idle", "gen"}
    BY <1>1 DEF WaitIdle, Release
  <2> QED
    BY <2>1 DEF MarkInv
<1>2. CASE ReadGen
  <2>1. cpc' = "ends" /\ gen0' = IPC_GEN /\ raced' = (IPC_INFLIGHT # 0 \/ Opening)
    BY <1>2, Zenon DEF ReadGen
  <2>2. ASSUME ~ raced' PROVE NoWindow
    <3>1. IPC_INFLIGHT = 0 /\ ~ Opening
      BY <2>1, <2>2, Zenon
    <3>2. {p \in HtProcess : htPc[p] \in Counted} = {}
      <4>1. IsFiniteSet({p \in HtProcess : htPc[p] \in Counted})
        BY FS_Subset, HandlesAssumption
      <4>2. Cardinality({p \in HtProcess : htPc[p] \in Counted}) = 0
        BY <3>1, Zenon DEF HeldInv, Counts
      <4> QED
        BY <4>1, <4>2, FS_EmptySet
    <3>3. \A p \in HtProcess : htPc[p] \notin Counted /\ htPc[p] \notin {"open", "popped"}
      BY <3>1, <3>2 DEF Opening
    <3> QED
      BY <3>3 DEF NoWindow, InWindow, Counted
  <2>3. gen0' <= IPC_GEN'
    BY <1>0, <2>1
  <2> QED
    BY <1>0, <2>1, <2>2, <2>3, Zenon DEF MarkInv, Undisturbed
<1>3. CASE Snapshot
  <2>1. /\ cpc = "ends" /\ cpc' = "pinned" /\ UNCHANGED <<gen0, raced, htQueues>>
        /\ ends' = {e \in EndsOf(created) : ~ htClosed[e]}
    BY <1>3, Zenon DEF Snapshot, ipc
  <2>2. ASSUME NEW x \in End \ ends' PROVE Carried(x)' = {}
    <3>1. htQueues[x] = <<>>
      BY <2>1, Zenon DEF HeldInv, QueueOk, EndsOf
    <3>2. Carried(x) = {}
      BY <3>1 DEF Carried
    <3> QED
      BY <2>1, <3>2, CarriedSame, Zenon
  <2>3. gen0' <= IPC_GEN' /\ (Undisturbed' => NoWindow')
    BY <1>0, <2>1 DEF MarkInv, Undisturbed
  <2> QED
    BY <2>1, <2>2, <2>3, Zenon DEF MarkInv
<1>4. ASSUME cpc \in {"pinned", "tables", "work"}, cpc' \in {"tables", "work"}, UNCHANGED <<gen0, raced, htQueues, ends>>,
             Undisturbed =>
                /\ \A p \in HtProcess \ htTodo' : table[p] \cap ends \subseteq marked'
                /\ \A e \in ends : pinned[e] => e \in marked'
                /\ \A x \in marked' \ work' : Carried(x) \subseteq marked'
      PROVE  MarkInv'
  <2>1. \A x : Carried(x)' = Carried(x)
    BY <1>4, CarriedSame, Zenon
  <2>2. Undisturbed' <=> Undisturbed
    BY <1>0, <1>4, Zenon DEF Undisturbed
  <2>3. gen0 <= IPC_GEN /\ (Undisturbed => NoWindow) /\ (Undisturbed => \A x \in End \ ends : Carried(x) = {})
    BY <1>4, Zenon DEF MarkInv
  <2>4. cpc' \notin {"close", "done"} /\ gen0' <= IPC_GEN'
    BY <1>0, <1>4, <2>3, Zenon
  <2>5. Undisturbed' => \A x \in End \ ends' : Carried(x)' = {}
    BY <1>4, <2>1, <2>2, <2>3, Zenon
  <2>6. Undisturbed' =>
           /\ \A p \in HtProcess \ htTodo' : table'[p] \cap ends' \subseteq marked'
           /\ \A e \in ends' : pinned'[e] => e \in marked'
           /\ \A x \in marked' \ work' : Carried(x)' \subseteq marked'
    BY <1>0, <1>4, <2>1, <2>2, Zenon
  <2> QED
    BY <1>0, <2>2, <2>3, <2>4, <2>5, <2>6, Zenon DEF MarkInv
<1>5. CASE MarkPinned
  <2>1. /\ cpc = "pinned" /\ cpc' = "tables" /\ UNCHANGED <<gen0, raced, htQueues, ends>>
        /\ marked' = {e \in ends : pinned[e]} /\ work' = marked' /\ htTodo' = live
    BY <1>5, Zenon DEF MarkPinned, ipc
  <2>2. \A p \in HtProcess \ live : table[p] = {}
    BY DEF HeldInv, CallOf
  <2>3. /\ \A p \in HtProcess \ htTodo' : table[p] \cap ends \subseteq marked'
        /\ \A e \in ends : pinned[e] => e \in marked'
        /\ \A x \in marked' \ work' : Carried(x) \subseteq marked'
    BY <2>1, <2>2, Zenon
  <2>4. cpc \in {"pinned", "tables", "work"} /\ cpc' \in {"tables", "work"}
    BY <2>1
  <2> QED
    BY <1>4, <2>1, <2>3, <2>4, Zenon
<1>6. ASSUME NEW q \in HtProcess, MarkTable(q) PROVE MarkInv'
  <2>1. /\ cpc = "tables" /\ cpc' \in {"tables", "work"} /\ UNCHANGED <<gen0, raced, htQueues, ends>>
        /\ marked' = marked \cup table[q] /\ work' = work \cup (table[q] \ marked) /\ htTodo' = htTodo \ {q}
    BY <1>6 DEF MarkTable, Root, ipc
  <2>2. ASSUME Undisturbed
        PROVE  /\ \A p \in HtProcess \ htTodo' : table[p] \cap ends \subseteq marked'
               /\ \A e \in ends : pinned[e] => e \in marked'
               /\ \A x \in marked' \ work' : Carried(x) \subseteq marked'
    <3>1. /\ \A p \in HtProcess \ htTodo : table[p] \cap ends \subseteq marked
          /\ \A e \in ends : pinned[e] => e \in marked
          /\ \A x \in marked \ work : Carried(x) \subseteq marked
      BY <2>1, <2>2 DEF MarkInv
    <3>2. \A x \in marked' \ work' : x \in marked \ work
      BY <2>1
    <3> QED
      BY <2>1, <3>1, <3>2, Zenon
  <2>3. cpc \in {"pinned", "tables", "work"}
    BY <2>1
  <2> QED
    BY <1>4, <2>1, <2>2, <2>3, Zenon
<1>7. CASE NoTables
  <2>1. /\ cpc = "tables" /\ cpc' = "work" /\ UNCHANGED <<gen0, raced, htQueues, ends, marked, work, htTodo>>
    BY <1>7, Zenon DEF NoTables, ipc
  <2>2. cpc \in {"pinned", "tables", "work"} /\ cpc \in {"tables", "work"} /\ cpc' \in {"tables", "work"}
    BY <2>1
  <2> QED
    BY <1>4, <2>1, <2>2, Zenon DEF MarkInv
<1>8. CASE Traverse
  <2>1. /\ cpc = "work" /\ UNCHANGED <<cpc, gen0, raced, htQueues, ends, htTodo>>
        /\ \E e \in work : /\ marked' = marked \cup Carried(e)
                           /\ work' = (work \ {e}) \cup (Carried(e) \ marked)
    BY <1>8, Zenon DEF Traverse, ipc
  <2>2. PICK e \in work : /\ marked' = marked \cup Carried(e)
                          /\ work' = (work \ {e}) \cup (Carried(e) \ marked)
    BY <2>1, Zenon
  <2>3. ASSUME Undisturbed
        PROVE  /\ \A p \in HtProcess \ htTodo' : table[p] \cap ends \subseteq marked'
               /\ \A x \in ends : pinned[x] => x \in marked'
               /\ \A x \in marked' \ work' : Carried(x) \subseteq marked'
    <3>1. /\ \A p \in HtProcess \ htTodo : table[p] \cap ends \subseteq marked
          /\ \A x \in ends : pinned[x] => x \in marked
          /\ \A x \in marked \ work : Carried(x) \subseteq marked
      BY <2>1, <2>3 DEF MarkInv
    <3>2. \A x \in marked' \ work' : x \in marked \ work \/ x = e
      BY <2>2
    <3> QED
      BY <2>1, <2>2, <3>1, <3>2, Zenon
  <2>4. cpc \in {"pinned", "tables", "work"} /\ cpc' \in {"tables", "work"}
    BY <2>1
  <2> QED
    BY <1>4, <2>1, <2>3, <2>4, Zenon
<1>9. CASE Validate
  <2>1. /\ cpc = "work" /\ work = {} /\ UNCHANGED <<gen0, raced, htQueues, ends, marked, hand>>
        /\ cpc' \in {"retry", "close"} /\ (cpc' = "close" => IPC_GEN = gen0)
    BY <1>9 DEF Validate, ipc, calls
  <2>2. gen0' <= IPC_GEN'
    BY <1>0, <2>1 DEF MarkInv
  <2>3. ASSUME cpc' = "close", ~ raced PROVE Sealed(ends \ marked)
    <3>1. Undisturbed /\ htTodo = {}
      BY <2>1, <2>3, Zenon DEF Undisturbed, CollTypes
    <3>2. /\ NoWindow
          /\ \A x \in End \ ends : Carried(x) = {}
          /\ \A p \in HtProcess : table[p] \cap ends \subseteq marked
          /\ \A e \in ends : pinned[e] => e \in marked
          /\ \A x \in marked : Carried(x) \subseteq marked
      BY <2>1, <3>1 DEF MarkInv
    <3>3. \A p \in HtProcess : hand[p] = NoEnd
      <4>1. \A l \in Holding : l \in InWindow
        BY DEF Holding, InWindow
      <4> QED
        BY <3>2, <4>1, Zenon DEF HeldInv, CallOf, NoWindow
    <3>4. \A e \in End : ~ InHand(e)
      BY <3>3, HandlesAssumption, Zenon DEF InHand
    <3>5. \A e \in ends \ marked : ~ Tabled(e) /\ ~ InHand(e) /\ ~ pinned[e]
      BY <1>0, <3>2, <3>4, Zenon DEF Tabled, EndsOf
    <3>6. \A x \in End \ (ends \ marked) : Carried(x) \cap (ends \ marked) = {}
      BY <3>2, Zenon
    <3> QED
      BY <3>5, <3>6, Zenon DEF Sealed
  <2>4. ASSUME cpc' = "close", ~ raced PROVE Sealed(ends \ marked)'
    <3>1. \A x : Carried(x)' = Carried(x)
      BY <2>1, CarriedSame, Zenon
    <3>2. Sealed(ends \ marked)
      BY <2>3, <2>4, Zenon
    <3> QED
      BY <1>0, <2>1, <3>1, <3>2, Zenon DEF Sealed, Tabled, InHand
  <2>5. cpc' \notin {"ends", "pinned", "tables", "work"} /\ (cpc' \in {"close", "done"} => cpc' = "close")
    BY <2>1
  <2>6. cpc' \notin {"pinned", "tables", "work"} /\ cpc' \notin {"tables", "work"}
    BY <2>1
  <2> QED
    BY <2>1, <2>2, <2>4, <2>5, <2>6, Zenon DEF MarkInv
<1>10. CASE CloseUnmarked
  <2>1. /\ cpc = "close" /\ cpc' \in {"close", "done"} /\ UNCHANGED <<gen0, raced, ends, marked>>
    BY <1>10 DEF CloseUnmarked
  <2>2. gen0' <= IPC_GEN'
    BY <1>0, <2>1 DEF MarkInv
  <2>3. ASSUME ~ raced PROVE Sealed(ends \ marked)'
    <3>1. PICK G \in SUBSET EndsOf(created) : G = ends \ marked
      BY <1>0, Zenon
    <3>2. Sealed(G)
      BY <2>1, <2>3, <3>1 DEF MarkInv
    <3>3. Sealed(G)' /\ G = ends' \ marked'
      BY <2>1, <3>1, <3>2, SealedKept, Zenon DEF HandlesNext
    <3> QED
      BY <3>3, Zenon
  <2> QED
    BY <2>1, <2>2, <2>3, Zenon DEF MarkInv
<1> QED
  BY <1>1, <1>2, <1>3, <1>5, <1>6, <1>7, <1>8, <1>9, <1>10, Zenon DEF CollectorStep

\* What was unreachable when the marking began.
LEMMA DoomNext ==
    ASSUME HeldInv, CollTypes, DoomInv, [HandlesNext]_handlesVars
    PROVE  DoomInv'
<1>0. HtTypes /\ Onward /\ ends \subseteq EndsOf(created) /\ doomed \in SUBSET EndsOf(created) /\ work \subseteq marked
  BY MovesNext, Zenon DEF HeldInv, Moves, CollTypes
<1>1. ASSUME UNCHANGED doomed PROVE Sealed(doomed)'
  <2>1. PICK G \in SUBSET EndsOf(created) : G = doomed
    BY <1>0, Zenon
  <2>2. Sealed(G)' /\ G = doomed'
    BY <1>1, <2>1, SealedKept, Zenon DEF DoomInv
  <2> QED
    BY <2>2, Zenon
<1>2. doomed \subseteq End /\ ends \subseteq End
  BY <1>0, Zenon DEF EndsOf
<1>3. ASSUME UNCHANGED <<doomed, ends>>, marked' \cap doomed = {}, cpc' \in Copied => cpc \in Copied,
             cpc' = "done" => \A e \in ends \ marked' : htClosed'[e]
      PROVE  DoomInv'
  <2>1. cpc' \in Copied => \A e \in doomed : htClosed'[e] \/ e \in ends
    BY <1>0, <1>2, <1>3, Zenon DEF DoomInv, Onward
  <2> QED
    BY <1>1, <1>3, <2>1, Zenon DEF DoomInv
<1>4. CASE UNCHANGED coll
  <2>1. UNCHANGED <<doomed, ends, marked, cpc>>
    BY <1>4, Zenon DEF coll
  <2>2. cpc = "done" => \A e \in ends \ marked : htClosed'[e]
    BY <1>0, <1>2, Zenon DEF DoomInv, Onward
  <2> QED
    BY <1>3, <2>1, <2>2, Zenon DEF DoomInv
<1>5. CASE WaitIdle
  <2>1. UNCHANGED <<doomed, ends, marked>> /\ cpc' \notin Copied /\ cpc' # "done"
    BY <1>5 DEF WaitIdle, Copied
  <2> QED
    BY <1>3, <2>1, Zenon DEF DoomInv
<1>6. CASE ReadGen
  <2>1. /\ doomed' = EndsOf(created) \ Reachable /\ cpc' \notin Copied /\ cpc' # "done" /\ cpc \notin Copied
        /\ UNCHANGED marked /\ UNCHANGED <<table, hand, pinned, htQueues>>
    BY <1>6 DEF ReadGen, Copied, ipc, calls
  <2>2. marked = {}
    BY <2>1, Zenon DEF CollTypes
  <2>3. PICK G : G = EndsOf(created) \ Reachable
    BY Zenon
  <2>4. Sealed(G)
    BY <2>3, UnreachableSealed, Zenon
  <2>5. \A x : Carried(x)' = Carried(x)
    BY <2>1, CarriedSame, Zenon
  <2>6. Sealed(G)'
    BY <2>1, <2>4, <2>5, Zenon DEF Sealed, Tabled, InHand
  <2>7. Sealed(doomed)' /\ marked' \cap doomed' = {}
    BY <2>1, <2>2, <2>3, <2>6, Zenon
  <2> QED
    BY <2>1, <2>7, Zenon DEF DoomInv
<1>7. CASE Snapshot
  <2>1. /\ UNCHANGED <<doomed, marked, htClosed>> /\ cpc' # "done"
        /\ ends' = {e \in EndsOf(created) : ~ htClosed[e]}
    BY <1>7 DEF Snapshot, ipc
  <2>2. \A e \in doomed : htClosed'[e] \/ e \in ends'
    BY <1>0, <2>1, Zenon
  <2> QED
    BY <1>1, <2>1, <2>2, Zenon DEF DoomInv
<1>8. CASE MarkPinned
  <2>1. /\ UNCHANGED <<doomed, ends>> /\ cpc \in Copied /\ cpc' # "done"
        /\ marked' = {e \in ends : pinned[e]}
    BY <1>8 DEF MarkPinned, Copied
  <2>2. marked' \cap doomed = {}
    BY <2>1, Zenon DEF DoomInv, Sealed
  <2> QED
    BY <1>3, <2>1, <2>2, Zenon
<1>9. ASSUME NEW p \in HtProcess, MarkTable(p) PROVE DoomInv'
  <2>1. /\ UNCHANGED <<doomed, ends>> /\ cpc \in Copied /\ cpc' # "done"
        /\ marked' = marked \cup table[p]
    BY <1>9 DEF MarkTable, Copied, Root
  <2>2. marked' \cap doomed = {}
    BY <2>1, Zenon DEF DoomInv, Sealed, Tabled
  <2> QED
    BY <1>3, <2>1, <2>2, Zenon
<1>10. CASE NoTables \/ Validate
  <2>1. UNCHANGED <<doomed, ends, marked>> /\ cpc \in Copied /\ cpc' # "done"
    BY <1>10 DEF NoTables, Validate, Copied
  <2> QED
    BY <1>3, <2>1, Zenon DEF DoomInv
<1>11. CASE Traverse
  <2>1. /\ UNCHANGED <<doomed, ends, cpc>> /\ cpc = "work"
    BY <1>11, Zenon DEF Traverse
  <2>2. cpc \in Copied /\ cpc' # "done"
    BY <2>1 DEF Copied
  <2>3. PICK e \in work : marked' = marked \cup Carried(e)
    BY <1>11, Zenon DEF Traverse
  <2>4. e \in End \ doomed
    BY <1>0, Zenon DEF DoomInv, CollTypes
  <2>5. marked' \cap doomed = {}
    BY <2>3, <2>4, Zenon DEF DoomInv, Sealed
  <2> QED
    BY <1>3, <2>1, <2>2, <2>5, Zenon
<1>12. CASE CloseUnmarked
  <2>1. UNCHANGED <<doomed, ends, marked>> /\ cpc \in Copied /\ (cpc' = "done" => Unmarked = {} /\ UNCHANGED htClosed)
    BY <1>12 DEF CloseUnmarked, Copied
  <2>2. cpc' = "done" => \A e \in ends \ marked' : htClosed'[e]
    BY <2>1, Zenon DEF Unmarked
  <2> QED
    BY <1>3, <2>1, <2>2, Zenon DEF DoomInv
<1>13. CASE Release
  <2>1. doomed' = {} /\ cpc' = "idle"
    BY <1>13, Zenon DEF Release
  <2>2. cpc' # "done"
    BY <2>1
  <2>3. Sealed(doomed)'
    BY <2>1, Zenon DEF Sealed
  <2> QED
    BY <2>1, <2>2, <2>3, Zenon DEF DoomInv
<1>14. ASSUME NEW p \in HtProcess, ProcessStep(p) PROVE UNCHANGED coll
  BY <1>14, Zenon DEF ProcessStep, InsertPair, SendCount, Take, HtPush, Leave, PopCount, RecvInsert, LeaveTable,
     HtExitCurrent, ChannelCreate, SendOpen, HtPop, HtHandleClose
<1>15. ASSUME NEW a \in HtActor, Drop(a) PROVE UNCHANGED coll
  BY <1>15, Zenon DEF Drop
<1>16. CASE UNCHANGED handlesVars
  BY <1>4, <1>16, Zenon DEF handlesVars, coll
<1> QED
  BY <1>4, <1>5, <1>6, <1>7, <1>8, <1>9, <1>10, <1>11, <1>12, <1>13, <1>14, <1>15, <1>16, Zenon
     DEF HandlesNext, CollectorStep

\* The invariant is inductive:
LEMMA HtNext ==
    ASSUME HtInv, [HandlesNext]_handlesVars
    PROVE  HtInv'
<1>0. HeldInv /\ CollTypes /\ MarkInv /\ DoomInv
  BY Zenon DEF HtInv
<1>1. HeldInv' /\ CollTypes' /\ DoomInv'
  BY <1>0, HeldNext, CollNext, DoomNext, Zenon
<1>2. ASSUME NEW p \in HtProcess, ProcessStep(p) PROVE UNCHANGED coll
  BY <1>2, Zenon DEF ProcessStep, InsertPair, SendCount, Take, HtPush, Leave, PopCount, RecvInsert, LeaveTable,
     HtExitCurrent, ChannelCreate, SendOpen, HtPop, HtHandleClose
<1>3. ASSUME NEW a \in HtActor, Drop(a) PROVE UNCHANGED coll
  BY <1>3, Zenon DEF Drop
<1>4. UNCHANGED handlesVars => UNCHANGED coll
  BY Zenon DEF handlesVars, coll
<1>5. UNCHANGED coll \/ CollectorStep
  BY <1>2, <1>3, <1>4, Zenon DEF HandlesNext
<1>6. MarkInv'
  BY <1>0, <1>5, MarkAside, MarkCollect, Zenon
<1> QED
  BY <1>1, <1>6, Zenon DEF HtInv

\* it holds to begin with,
LEMMA HtStart ==
    ASSUME HandlesInit
    PROVE  HtInv
<1>0. /\ table \in Tables
      /\ created = {ChanOf[e] : e \in UNION {table[p] : p \in HtProcess}}
      /\ live = HtProcess
      /\ htQueues = [e \in End |-> <<>>]
      /\ htClosed = [e \in End |-> FALSE]
      /\ pinned = [e \in End |-> FALSE]
      /\ htPc = [p \in HtProcess |-> "user"]
      /\ via = [p \in HtProcess |-> NoEnd]
      /\ hand = [p \in HtProcess |-> NoEnd]
      /\ dropping = [a \in HtActor |-> {}]
  BY Zenon DEF HandlesInit
<1>1. /\ table \in [HtProcess -> SUBSET End]
      /\ \A p, q \in HtProcess : p # q => table[p] \cap table[q] = {}
      /\ \A p \in HtProcess : \A e \in table[p] : \E q \in HtProcess : HtPeer(e) \in table[q]
  BY <1>0, HandlesAssumption, Zenon
<1>2. \A e \in End : ChanOf[e] \in created <=> Tabled(e)
  <2> SUFFICES ASSUME NEW e \in End PROVE ChanOf[e] \in created <=> Tabled(e)
    OBVIOUS
  <2>1. ASSUME Tabled(e) PROVE ChanOf[e] \in created
    <3>1. e \in UNION {table[p] : p \in HtProcess}
      BY <2>1, Zenon DEF Tabled
    <3> QED
      BY <1>0, <3>1, Zenon
  <2>2. ASSUME ChanOf[e] \in created PROVE Tabled(e)
    <3>1. PICK x \in UNION {table[p] : p \in HtProcess} : ChanOf[e] = ChanOf[x]
      BY <1>0, <2>2, Zenon
    <3>2. PICK p \in HtProcess : x \in table[p]
      BY Zenon
    <3>3. x \in End /\ e \in {x, HtPeer(x)}
      BY <1>1, <3>1, <3>2, PeerIs, Zenon DEF EndsOf
    <3> QED
      BY <1>1, <3>2, <3>3, Zenon DEF Tabled
  <2> QED
    BY <2>1, <2>2, Zenon
<1>3. \A x \in End : Carried(x) = {} /\ htQueues[x] = <<>>
  BY <1>0 DEF Carried
<1>4. HtTypes
  <2>1. created \subseteq Chan
    BY <1>0, <1>1, HandlesAssumption
  <2>2. "user" \in HtSteps /\ <<>> \in Seq(End) /\ 0 \in Nat
    BY DEF HtSteps
  <2>3. IPC_GEN \in Nat
    BY DEF HandlesInit
  <2> QED
    BY <1>0, <1>1, <2>1, <2>2, <2>3, Zenon DEF HtTypes
<1>5. ASSUME NEW e \in End PROVE EndOk(e)
  <2>1. ~ InHand(e) /\ ~ Queued(e) /\ ~ Falling(e) /\ ~ pinned[e] /\ ~ htClosed[e]
    <3>1. e # NoEnd
      BY HandlesAssumption, Zenon
    <3> QED
      BY <1>0, <1>3, <3>1, Zenon DEF InHand, Queued, Falling
  <2>2. \A p, q \in HtProcess : e \in table[p] /\ e \in table[q] => p = q
    BY <1>1, Zenon
  <2>3. OneAt(e)
    BY <2>1, <2>2, Zenon DEF OneAt, InHand, Queued, Falling
  <2> QED
    BY <1>2, <2>1, <2>3, Zenon DEF EndOk, Nowhere
<1>6. ASSUME NEW x \in End PROVE QueueOk(x)
  BY <1>3 DEF QueueOk
<1>7. (\A p \in HtProcess : CallOf(p)) /\ CreatesApart
  <2>1. "user" \notin Holding /\ "user" \notin InWindow \cup {"create"} /\ "user" # "create" /\ "user" \notin {"exit", "dead"}
    BY DEF Holding, InWindow
  <2> QED
    BY <1>0, <2>1, Zenon DEF CallOf, CreatesApart
<1>8. Counts
  <2>1. "user" \notin Counted
    BY DEF Counted
  <2>2. {p \in HtProcess : htPc[p] \in Counted} = {}
    BY <1>0, <2>1, Zenon
  <2>3. IPC_INFLIGHT = 0
    BY Zenon DEF HandlesInit
  <2> QED
    BY <2>2, <2>3, FS_EmptySet, Zenon DEF Counts
<1>9. CollTypes
  <2>1. dropping[Collector] = {}
    BY <1>0, Zenon DEF HtActor
  <2> QED
    BY <2>1, Zenon DEF CollTypes, HandlesInit, Copied
<1>10. MarkInv
  BY Zenon DEF MarkInv, HandlesInit
<1>11. DoomInv
  <2>1. doomed = {} /\ cpc = "idle"
    BY Zenon DEF HandlesInit
  <2>2. cpc \notin Copied /\ cpc # "done"
    BY <2>1 DEF Copied
  <2> QED
    BY <2>1, <2>2, Zenon DEF DoomInv, Sealed
<1> QED
  BY <1>4, <1>5, <1>6, <1>7, <1>8, <1>9, <1>10, <1>11, Zenon DEF HtInv, HeldInv

\* and so it always holds.
LEMMA HtHolds == HandlesSpec => []HtInv
<1>1. HandlesInit => HtInv
  BY HtStart
<1>2. HtInv /\ [HandlesNext]_handlesVars => HtInv'
  BY HtNext
<1> QED
  BY <1>1, <1>2, PTL DEF HandlesSpec

\* Handles move and are neither copied nor lost, whatever the interleaving of
\* calls, drops and collections; every handle in the kernel's hands is counted;
\* and a collection that is not called off closes all that was unreachable.
THEOREM HandlesAreHeld == HandlesSpec => []HandlesHeld
<1>1. ASSUME HtInv PROVE MovedOnce
  <2> SUFFICES ASSUME NEW e \in EndsOf(created)
      PROVE  /\ \A x, y \in Places(e) : x = y
             /\ pinned[e] => Places(e) = {}
             /\ ~ htClosed[e] => Places(e) # {} \/ pinned[e] \/ HeldByCollector(e)
    BY Zenon DEF MovedOnce
  <2>1. EndOk(e) /\ e \in End /\ ChanOf[e] \in created
    BY <1>1, Zenon DEF HtInv, HeldInv, EndsOf
  <2>2. /\ \A p, q \in HtProcess : e \in table[p] /\ e \in table[q] => p = q
        /\ \A p, q \in HtProcess : hand[p] = e /\ hand[q] = e => p = q
        /\ \A x, y \in End : e \in Carried(x) /\ e \in Carried(y) => x = y
        /\ \A a, b \in HtActor : e \in dropping[a] /\ e \in dropping[b] => a = b
    BY <2>1, Zenon DEF EndOk, OneAt
  <2> DEFINE A == {p \in HtProcess : e \in table[p]}
             B == {p \in HtProcess : hand[p] = e}
             C == {x \in End : e \in Carried(x)}
             D == {a \in HtActor : e \in dropping[a]}
  <2>3. /\ Tabled(e) <=> A # {}
        /\ InHand(e) <=> B # {}
        /\ Queued(e) <=> C # {}
        /\ Falling(e) <=> D # {}
    BY Zenon DEF Tabled, InHand, Queued, Falling
  <2>4. /\ \A p, q \in A : p = q
        /\ \A p, q \in B : p = q
        /\ \A p, q \in C : p = q
        /\ \A p, q \in D : p = q
    BY <2>2, Zenon
  <2>5. /\ A # {} => B = {} /\ C = {} /\ D = {}
        /\ B # {} => C = {} /\ D = {}
        /\ C # {} => D = {}
        /\ pinned[e] => A = {} /\ B = {} /\ C = {} /\ D = {}
        /\ ~ htClosed[e] => A # {} \/ B # {} \/ C # {} \/ D # {} \/ pinned[e] \/ e \in ends
    BY <2>1, <2>3, Zenon DEF EndOk, OneAt, Nowhere
  <2>6. Places(e) = ({"table"} \X A) \cup ({"hand"} \X B) \cup ({"queue"} \X C) \cup ({"drop"} \X D)
    BY Zenon DEF Places
  <2> HIDE DEF A, B, C, D
  <2>7. \A x \in Places(e) : /\ x = <<x[1], x[2]>>
                             /\ \/ x[1] = "table" /\ x[2] \in A
                                \/ x[1] = "hand" /\ x[2] \in B
                                \/ x[1] = "queue" /\ x[2] \in C
                                \/ x[1] = "drop" /\ x[2] \in D
    BY <2>6
  <2>8. \A x, y \in Places(e) : x[1] = y[1] /\ x[2] = y[2]
    BY <2>4, <2>5, <2>7
  <2>9. \A x, y \in Places(e) : x = y
    BY <2>7, <2>8
  <2>10. pinned[e] => Places(e) = {}
    BY <2>5, <2>7
  <2>11. /\ A # {} => Places(e) # {}
         /\ B # {} => Places(e) # {}
         /\ C # {} => Places(e) # {}
         /\ D # {} => Places(e) # {}
    <3>1. ASSUME NEW k, NEW S, NEW x \in S PROVE <<k, x>> \in {k} \X S
      OBVIOUS
    <3>2. /\ \A x \in A : <<"table", x>> \in Places(e)
          /\ \A x \in B : <<"hand", x>> \in Places(e)
          /\ \A x \in C : <<"queue", x>> \in Places(e)
          /\ \A x \in D : <<"drop", x>> \in Places(e)
      BY <2>6, <3>1, Zenon
    <3> QED
      BY <3>2, Zenon
  <2> QED
    BY <2>5, <2>9, <2>10, <2>11, Zenon DEF HeldByCollector
<1>2. ASSUME HtInv PROVE WindowCovers
  <2>1. /\ Counts /\ Counted = {"take", "push", "insert", "leave"}
        /\ \A p \in HtProcess : hand[p] # NoEnd => htPc[p] = "popped" \/ htPc[p] \in Counted
    BY <1>2 DEF HtInv, HeldInv, CallOf, Holding, Counted
  <2>2. ASSUME NEW p \in HtProcess, htPc[p] \in Counted PROVE IPC_INFLIGHT > 0
    <3> DEFINE S == {q \in HtProcess : htPc[q] \in Counted}
    <3>1. IsFiniteSet(S) /\ S # {}
      BY <2>2, FS_Subset, HandlesAssumption
    <3>2. Cardinality(S) \in Nat /\ Cardinality(S) # 0
      BY <3>1, FS_CardinalityType, FS_EmptySet
    <3>3. IPC_INFLIGHT = Cardinality(S)
      BY <2>1, Zenon DEF Counts
    <3> QED
      BY <3>2, <3>3
  <2> QED
    BY <2>1, <2>2, Zenon DEF WindowCovers, Counts
<1>3. ASSUME HtInv PROVE GarbageClosed
  <2>1. DoomInv /\ (cpc = "done" => cpc \in Copied)
    BY <1>3 DEF HtInv, Copied
  <2> QED
    BY <2>1, Zenon DEF GarbageClosed, DoomInv
<1>4. HtInv => HandlesHeld
  BY <1>1, <1>2, <1>3, Zenon DEF HandlesHeld
<1> QED
  BY <1>4, HtHolds, PTL

\* No step of a call, of a drop or of the collector closes an end that a
\* process or the kernel can still reach, when no window was being opened as
\* the collector read the generation.
THEOREM ReachableStaysOpen == HandlesSpec => OnlyUnreachableClosed
<1>1. ASSUME HtInv, HandlesNext, ~ raced, NEW e \in Reachable, htClosed'[e] # htClosed[e]
      PROVE  FALSE
  <2>0. HeldInv /\ HtTypes /\ CollTypes /\ MarkInv /\ e \in End
    BY <1>1, Zenon DEF HtInv, HeldInv, Reachable
  <2>1. ASSUME NEW a \in HtActor, NEW x \in End, HtClose(a, x) PROVE e = x
    BY <1>1, <2>0, <2>1, ClosesOnly, Zenon
  <2>2. ASSUME NEW a \in HtActor, Drop(a) PROVE FALSE
    <3>1. PICK x \in dropping[a] : HtClose(a, x)
      BY <1>1, <2>2, Zenon DEF Drop
    <3>2. x \in End
      BY <2>0, Zenon DEF HtTypes
    <3>3. e = x /\ Falling(e) /\ EndOk(e)
      BY <2>0, <2>1, <3>1, <3>2, Zenon DEF Falling, HeldInv
    <3>4. ~ Tabled(e) /\ ~ InHand(e) /\ ~ Queued(e) /\ ~ pinned[e]
      BY <3>3, Zenon DEF EndOk, OneAt, Nowhere
    <3>5. Sealed({e}) /\ {e} \in SUBSET End
      BY <2>0, <3>4, Zenon DEF Sealed, Queued
    <3> QED
      BY <1>1, <2>0, <3>5, SealedUnreachable, Zenon
  <2>3. ASSUME CloseUnmarked PROVE FALSE
    <3>1. cpc = "close" /\ \E x \in Unmarked : HtClose(Collector, x)
      BY <1>1, <2>3, Zenon DEF CloseUnmarked
    <3>2. PICK x \in Unmarked : HtClose(Collector, x)
      BY <3>1, Zenon
    <3>3. x \in ends \ marked /\ x \in End /\ Collector \in HtActor /\ ends \ marked \in SUBSET End
      BY <2>0 DEF Unmarked, CollTypes, EndsOf, HtActor
    <3>4. e \in ends \ marked
      BY <2>1, <3>2, <3>3, Zenon
    <3>5. Sealed(ends \ marked)
      BY <1>1, <2>0, <3>1 DEF MarkInv
    <3>6. PICK G \in SUBSET End : G = ends \ marked
      BY <3>3, Zenon
    <3> QED
      BY <1>1, <2>0, <3>4, <3>5, <3>6, SealedUnreachable, Zenon
  <2>4. ASSUME UNCHANGED htClosed PROVE FALSE
    BY <1>1, <2>4, Zenon
  <2>5. ASSUME NEW p \in HtProcess, ProcessStep(p) PROVE UNCHANGED htClosed
    BY <2>5, Zenon DEF ProcessStep, InsertPair, SendCount, Take, HtPush, Leave, PopCount, RecvInsert, LeaveTable,
       HtExitCurrent, ChannelCreate, SendOpen, HtPop, HtHandleClose, ipc
  <2>6. ASSUME CollectorStep, ~ CloseUnmarked PROVE UNCHANGED htClosed
    BY <2>6, Zenon DEF CollectorStep, WaitIdle, ReadGen, Snapshot, MarkPinned, NoTables, Traverse, Validate,
       MarkTable, Release, ipc
  <2> QED
    BY <1>1, <2>2, <2>3, <2>4, <2>5, <2>6, Zenon DEF HandlesNext
<1>2. HtInv /\ [HandlesNext]_handlesVars =>
         [htClosed' # htClosed /\ ~ raced => \A e \in Reachable : htClosed'[e] = htClosed[e]]_handlesVars
  BY <1>1, Zenon
<1> QED
  BY <1>2, HtHolds, PTL DEF HandlesSpec, OnlyUnreachableClosed
=============================================================================
