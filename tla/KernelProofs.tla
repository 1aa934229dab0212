---------------------------- MODULE KernelProofs ----------------------------
(***************************************************************************)
(* Parts of the kernel.  The frame allocator (FrameBitmap), for every      *)
(* capacity and word size: its statistics agree with its bitmaps, the pool *)
(* holds usable frames that nobody holds, and it fails only when it is     *)
(* empty.  Address spaces (Spaces), for any number of CPUs, frames and     *)
(* processes: a CPU has the space of the thread it runs, and never one     *)
(* that was dropped.  Interrupts lent to drivers (UserIrq), for any number *)
(* of threads and vectors.  The one-shot timer of the boot CPU (BspTick),  *)
(* for any tick, delays and threads: it is never lost, and sleepers are    *)
(* served in time.  The CPU quota of a job (JobQuota), for any CPUs,       *)
(* members and limits: the job is listed while it has a limit, and a       *)
(* throttled member is off its CPU by the next tick.                       *)
(***************************************************************************)
EXTENDS FrameBitmap, Spaces, UserIrq, BspTick, JobQuota, FiniteSetTheorems,
        WellFoundedInduction, TLAPS

-----------------------------------------------------------------------------
(* The frames.                                                             *)

\* There is a word, and the words have a bit for every frame.
LEMMA WordsFacts ==
    /\ Words \in Nat \ {0}
    /\ Capacity <= Words * WordBits
    /\ Words * WordBits \in Nat
    /\ Frame \subseteq AllBits
<1> DEFINE n == Capacity + WordBits - 1
<1>1. n \in Nat /\ Capacity \in Nat \ {0} /\ WordBits \in Nat \ {0}
  BY FrameAssumption
<1>2. n \div WordBits \in Int /\ n = WordBits * (n \div WordBits) + (n % WordBits)
      /\ n % WordBits \in 0 .. WordBits - 1
  BY <1>1
<1>3. Words = n \div WordBits
  BY DEF Words
<1> HIDE DEF n
<1>4. WordBits * Words >= Capacity /\ Words \in Int
  <2>1. n = Capacity + WordBits - 1
    BY DEF n
  <2> QED
    BY <1>1, <1>2, <1>3, <2>1
<1>5. Words \in Nat \ {0}
  BY <1>1, <1>4
<1>6. WordBits * Words = Words * WordBits /\ Words * WordBits \in Nat
  BY <1>1, <1>5
<1> QED
  BY <1>1, <1>4, <1>5, <1>6 DEF Frame, AllBits

\* The bits and their parts are finite.
LEMMA BitsFinite ==
    /\ IsFiniteSet(AllBits)
    /\ \A S : S \subseteq AllBits => IsFiniteSet(S)
<1>1. IsFiniteSet(AllBits)
  BY WordsFacts, FS_Interval, 0 \in Int, Words * WordBits - 1 \in Int DEF AllBits
<1> QED
  BY <1>1, FS_Subset

\* The bits of a word are bits, and every bit is in a word.
LEMMA WordOfBit ==
    ASSUME NEW f \in AllBits
    PROVE  /\ f \div WordBits \in 0 .. Words - 1
           /\ f \in Bit(f \div WordBits)
<1> DEFINE q == f \div WordBits
<1>1. f \in Nat /\ WordBits \in Nat \ {0} /\ f < Words * WordBits /\ Words \in Nat \ {0}
  BY WordsFacts, FrameAssumption DEF AllBits
<1>2. q \in Int /\ f = WordBits * q + (f % WordBits) /\ f % WordBits \in 0 .. WordBits - 1
  BY <1>1
<1> HIDE DEF q
<1>3. WordBits * q <= f /\ f < WordBits * q + WordBits
  BY <1>1, <1>2
<1>4. q >= 0
  BY <1>1, <1>2, <1>3
<1>5. q < Words
  <2>1. WordBits * q < WordBits * Words
    BY <1>1, <1>2, <1>3
  <2> QED
    BY <1>1, <1>2, <2>1
<1> QED
  BY <1>1, <1>2, <1>3, <1>4, <1>5 DEF q, Bit

-----------------------------------------------------------------------------
\* The inductive invariant: the counters follow the bitmaps step by step
\* because a frame enters or leaves the pool exactly when its bit changes.
\* That free <= total follows from the rest.
Pool == AllBits \ bits
Counts == free = Cardinality(Pool) /\ total = Cardinality(usable)
IInv == FrameTypeOK /\ Counts /\ Exclusive

\* The pool and the usable frames are finite; their sizes are numbers.
LEMMA Sizes ==
    ASSUME IInv
    PROVE  /\ IsFiniteSet(Pool) /\ IsFiniteSet(usable)
           /\ Cardinality(Pool) \in Nat /\ Cardinality(usable) \in Nat
           /\ Cardinality(Pool) <= Cardinality(usable)
<1>1. IsFiniteSet(Pool) /\ IsFiniteSet(usable) /\ Pool \subseteq usable
  BY BitsFinite, WordsFacts DEF IInv, FrameTypeOK, Pool, Exclusive
<1> QED
  BY <1>1, FS_CardinalityType, FS_Subset

\* The invariant implies what the runs check.
LEMMA IInvImplies == IInv => FrameTypeOK /\ Accounting /\ Exclusive
  BY Sizes DEF IInv, Counts, Accounting, Pool

\* phys::init starts with an empty pool.
LEMMA InitIInv == FrameInit => IInv
<1> SUFFICES ASSUME FrameInit PROVE IInv
  OBVIOUS
<1>1. Pool = {} /\ usable = {} /\ Cardinality({}) = 0
  BY FS_EmptySet DEF FrameInit, Pool
<1>2. FrameTypeOK
  BY WordsFacts DEF FrameInit, FrameTypeOK
<1>3. free = 0 /\ total = 0 /\ held = {}
  BY DEF FrameInit
<1> QED
  BY <1>1, <1>2, <1>3 DEF IInv, Counts, Exclusive, Pool

\* Frames that were not usable join the pool, and both counts grow by them.
LEMMA MarkUsableStep ==
    ASSUME IInv, NEW s, NEW e, MarkUsable(s, e)
    PROVE  IInv'
<1> DEFINE fresh == FrameRange(s, e) \ usable
<1>1. fresh \subseteq Frame /\ Frame \subseteq AllBits /\ Pool \subseteq usable
  BY WordsFacts DEF FrameRange, IInv, Exclusive, Pool
<1>2. fresh \cap usable = {}
  OBVIOUS
<1>3. /\ usable' = usable \cup fresh /\ bits' = bits \ fresh
      /\ total' = total + Cardinality(fresh) /\ free' = free + Cardinality(fresh)
      /\ UNCHANGED <<booting, hint, allocations, frees, failures, held>>
  BY DEF MarkUsable
<1> HIDE DEF fresh
<1>4. IsFiniteSet(fresh) /\ Cardinality(fresh) \in Nat
  BY <1>1, BitsFinite, FS_CardinalityType
<1>5. Pool' = Pool \cup fresh /\ Pool \cap fresh = {}
  BY <1>1, <1>2, <1>3, Zenon DEF Pool, AllBits
<1>6. Counts'
  <2>1. Cardinality(Pool \cup fresh) = Cardinality(Pool) + Cardinality(fresh) - Cardinality({})
    BY <1>4, <1>5, Sizes, FS_Union
  <2>2. Cardinality(usable \cup fresh) = Cardinality(usable) + Cardinality(fresh) - Cardinality({})
    <3>1. usable \cap fresh = {}
      BY <1>2
    <3> QED
      BY <1>4, <3>1, Sizes, FS_Union
  <2>3. Cardinality({}) = 0
    BY FS_EmptySet
  <2> QED
    BY <1>3, <1>4, <1>5, <2>1, <2>2, <2>3, Sizes DEF IInv, Counts
<1>7. FrameTypeOK'
  BY <1>1, <1>3, <1>4 DEF IInv, FrameTypeOK, AllBits, Words, Frame
<1>8. Exclusive'
  BY <1>1, <1>2, <1>3, <1>5 DEF IInv, Exclusive, Pool, AllBits, Words
<1> QED
  BY <1>6, <1>7, <1>8 DEF IInv

\* The frames that were clear leave the pool, and free shrinks by them.
LEMMA MarkUsedStep ==
    ASSUME IInv, NEW s, NEW e, MarkUsed(s, e)
    PROVE  IInv'
<1> DEFINE taken == FrameRange(s, e) \ bits
<1>1. taken \subseteq Pool /\ Pool \subseteq AllBits
  BY WordsFacts DEF FrameRange, Pool
<1>2. /\ bits' = bits \cup taken /\ free' = free - Cardinality(taken)
      /\ UNCHANGED <<booting, usable, hint, total, allocations, frees, failures, held>>
  BY DEF MarkUsed
<1> HIDE DEF taken
<1>3. IsFiniteSet(taken) /\ Cardinality(taken) \in Nat /\ Cardinality(taken) <= Cardinality(Pool)
  BY <1>1, Sizes, FS_Subset, FS_CardinalityType
<1>4. Pool' = Pool \ taken
  BY <1>1, <1>2 DEF Pool, AllBits, Words
<1>5. Pool \cap taken = taken
  BY <1>1
<1>6. Counts'
  BY <1>2, <1>3, <1>4, <1>5, Sizes, FS_Difference, ZenonT(30) DEF IInv, Counts
<1>7. FrameTypeOK'
  BY <1>1, <1>2, <1>3, Sizes DEF IInv, FrameTypeOK, Counts, AllBits, Words, Frame
<1>8. Exclusive'
  BY <1>1, <1>2, <1>4 DEF IInv, Exclusive, Pool, AllBits, Words
<1> QED
  BY <1>6, <1>7, <1>8 DEF IInv

\* allocate takes one frame out of the pool.
LEMMA AllocateStep ==
    ASSUME IInv, NEW step \in 0 .. Words - 1, NEW f \in Frame, Allocate(step, f)
    PROVE  IInv'
<1>1. f \in Pool /\ f \in usable
  BY WordsFacts DEF Allocate, Found, Candidate, IInv, Exclusive, Pool
<1>2. /\ bits' = bits \cup {f} /\ free' = free - 1 /\ held' = held \cup {f}
      /\ hint' = WordAt(step) /\ allocations' = allocations + 1
      /\ UNCHANGED <<booting, usable, total, frees, failures>>
  BY DEF Allocate
<1>3. Pool' = Pool \ {f}
  BY <1>1, <1>2 DEF Pool, AllBits, Words
<1>4. Counts'
  BY <1>1, <1>2, <1>3, Sizes, FS_RemoveElement, Zenon DEF IInv, Counts
<1>5. Cardinality(Pool) # 0
  BY <1>1, Sizes, FS_EmptySet
<1>6. WordAt(step) \in 0 .. Words - 1
  BY WordsFacts DEF WordAt, IInv, FrameTypeOK
<1>7. FrameTypeOK'
  BY <1>1, <1>2, <1>5, <1>6, Sizes DEF IInv, FrameTypeOK, Counts, AllBits, Words, Frame, Pool
<1>8. Exclusive'
  BY <1>1, <1>2, <1>3 DEF IInv, Exclusive, Pool, AllBits, Words
<1> QED
  BY <1>4, <1>7, <1>8 DEF IInv

\* free puts one frame back.
LEMMA FreeStep ==
    ASSUME IInv, NEW f \in Frame, Free(f)
    PROVE  IInv'
<1>1. f \in AllBits /\ f \notin Pool /\ f \in usable
  BY WordsFacts DEF Free, Pool
<1>2. /\ bits' = bits \ {f} /\ free' = free + 1 /\ held' = held \ {f}
      /\ hint' = IF f \div WordBits < hint THEN f \div WordBits ELSE hint
      /\ frees' = frees + 1
      /\ UNCHANGED <<booting, usable, total, allocations, failures>>
  BY DEF Free
<1>3. Pool' = Pool \cup {f}
  BY <1>1, <1>2 DEF Pool, AllBits, Words
<1>4. Counts'
  BY <1>1, <1>2, <1>3, Sizes, FS_AddElement, Zenon DEF IInv, Counts
<1>5. hint' \in 0 .. Words - 1
  BY <1>1, <1>2, WordOfBit DEF IInv, FrameTypeOK
<1>6. FrameTypeOK'
  BY <1>1, <1>2, <1>5, Sizes DEF IInv, FrameTypeOK, Counts, AllBits, Words, Frame
<1>7. Exclusive'
  BY <1>1, <1>2, <1>3 DEF IInv, Exclusive, Pool, AllBits, Words
<1> QED
  BY <1>4, <1>6, <1>7 DEF IInv

\* Every step keeps the invariant.
LEMMA NextIInv == IInv /\ [FrameNext]_frameVars => IInv'
<1> SUFFICES ASSUME IInv, [FrameNext]_frameVars PROVE IInv'
  OBVIOUS
<1>1. ASSUME NEW s, NEW e, MarkUsable(s, e) \/ MarkUsed(s, e) PROVE IInv'
  BY <1>1, MarkUsableStep, MarkUsedStep
<1>2. CASE UNCHANGED <<usable, bits, hint, total, free, held, allocations, frees>>
           /\ failures' \in Nat /\ booting' \in BOOLEAN
  BY <1>2 DEF IInv, FrameTypeOK, Counts, Exclusive, Pool, AllBits, Words, Frame
<1>3. CASE Publish
  BY <1>2, <1>3, Zenon DEF Publish, IInv, FrameTypeOK
<1>4. CASE AllocateFails
  BY <1>2, <1>4 DEF AllocateFails, IInv, FrameTypeOK
<1>5. CASE UNCHANGED frameVars
  BY <1>2, <1>5 DEF frameVars, IInv, FrameTypeOK
<1> QED
  BY <1>1, <1>3, <1>4, <1>5, AllocateStep, FreeStep DEF FrameNext

-----------------------------------------------------------------------------
\* The types hold: above all, the hint always names a word and free and total
\* are never negative.
THEOREM FrameTypes == FrameSpec => []FrameTypeOK
<1>1. IInv => FrameTypeOK
  BY DEF IInv
<1> QED
  BY <1>1, InitIInv, NextIInv, PTL DEF FrameSpec

\* FrameStats agrees with the bitmaps.
THEOREM FrameAccounting == FrameSpec => []Accounting
  BY InitIInv, NextIInv, IInvImplies, PTL DEF FrameSpec

\* The pool has usable frames that nobody holds.
THEOREM FrameExclusive == FrameSpec => []Exclusive
  BY InitIInv, NextIInv, IInvImplies, PTL DEF FrameSpec

-----------------------------------------------------------------------------
\* Wherever the hint points, the steps of allocate reach every word.
LEMMA EveryWord ==
    ASSUME FrameTypeOK, NEW w \in 0 .. Words - 1
    PROVE  \E step \in 0 .. Words - 1 : WordAt(step) = w
<1>1. Words \in Nat \ {0} /\ hint \in 0 .. Words - 1
  BY WordsFacts DEF FrameTypeOK
<1>2. CASE hint <= w
  <2>1. w - hint \in 0 .. Words - 1 /\ hint + (w - hint) = w
    BY <1>1, <1>2
  <2>2. w % Words = w
    BY <1>1
  <2> QED
    BY <2>1, <2>2 DEF WordAt
<1>3. CASE hint > w
  <2> DEFINE step == Words - hint + w
  <2>1. step \in 0 .. Words - 1 /\ hint + step = w + Words
    BY <1>1, <1>3
  <2>2. (w + Words) % Words = w
    BY <1>1
  <2> HIDE DEF step
  <2> QED
    BY <2>1, <2>2 DEF WordAt
<1> QED
  BY <1>1, <1>2, <1>3

\* A non-empty set of numbers has a least one.
LEMMA LeastNumber ==
    ASSUME NEW S \in SUBSET Nat, S # {}
    PROVE  \E m \in S : \A x \in S : m <= x
<1>1. PICK m \in S : \A x \in S : ~(<<x, m>> \in OpToRel(<, Nat))
  BY WFMin, NatLessThanWellFounded, Zenon
<1>2. \A x \in S : ~(x < m)
  BY <1>1, Zenon DEF OpToRel
<1> QED
  BY <1>2

\* A free frame gives its word a candidate.
LEMMA FreeCandidate ==
    ASSUME NEW f \in Frame, f \notin bits
    PROVE  /\ f \div WordBits \in 0 .. Words - 1
           /\ \E g \in Frame : Candidate(f \div WordBits, g)
<1> DEFINE w == f \div WordBits
           clear == Bit(w) \ bits
<1>1. w \in 0 .. Words - 1 /\ f \in clear
  BY WordsFacts, WordOfBit
<1>2. clear \in SUBSET Nat
  <2>1. w \in Nat /\ WordBits \in Nat
    BY <1>1, WordsFacts, FrameAssumption
  <2> HIDE DEF w
  <2>2. w * WordBits \in Nat
    BY <2>1
  <2> QED
    BY <2>2 DEF Bit
<1>3. PICK g \in clear : \A b \in clear : g <= b
  BY <1>1, <1>2, LeastNumber, Zenon
<1>4. g <= f /\ g \in Nat /\ f < Capacity /\ f \in Nat
  BY <1>1, <1>2, <1>3, FrameAssumption DEF Frame
<1> HIDE DEF w
<1>5. g \in Frame /\ g < Capacity
  BY <1>4, FrameAssumption DEF Frame
<1>6. Candidate(w, g)
  BY <1>3, <1>5 DEF Candidate
<1> QED
  BY <1>1, <1>5, <1>6 DEF w

\* If no step finds a frame, no frame is free.
LEMMA NotFoundFull ==
    ASSUME FrameTypeOK, \A step \in 0 .. Words - 1, f \in Frame : ~Found(step, f)
    PROVE  Frame \subseteq bits
<1> SUFFICES ASSUME NEW f \in Frame, f \notin bits PROVE FALSE
  OBVIOUS
<1> DEFINE hits == {step \in 0 .. Words - 1 : \E g \in Frame : Candidate(WordAt(step), g)}
<1>1. PICK w \in 0 .. Words - 1, g \in Frame : Candidate(w, g)
  BY FreeCandidate
<1>2. PICK step \in 0 .. Words - 1 : WordAt(step) = w
  BY EveryWord
<1>3. hits # {} /\ hits \in SUBSET Nat
  BY <1>1, <1>2
<1>4. PICK first \in hits : \A s \in hits : first <= s
  BY <1>3, LeastNumber, Zenon
<1>5. first \in 0 .. Words - 1 /\ Words \in Nat
  BY <1>4, WordsFacts
<1>6. \A s \in 0 .. first - 1 : s \in 0 .. Words - 1 /\ ~(first <= s)
  BY <1>5
<1>7. \A s \in 0 .. first - 1 : ~ \E h \in Frame : Candidate(WordAt(s), h)
  BY <1>4, <1>6
<1>8. \E h \in Frame : Found(first, h)
  BY <1>4, <1>7 DEF Found
<1> QED
  BY <1>5, <1>8

\* The hint stays at or before the word of every free frame: allocate moves
\* it over words without a candidate, free moves it back, and while the
\* memory is described it is 0.
HInv == FrameTypeOK /\ HintLowest /\ (booting => hint = 0)

LEMMA AllocateHint ==
    ASSUME HInv, NEW step \in 0 .. Words - 1, NEW f \in Frame, Allocate(step, f)
    PROVE  HintLowest'
<1> SUFFICES ASSUME NEW g \in Frame, g \notin bits PROVE WordAt(step) <= g \div WordBits
  BY DEF HintLowest, Allocate, Frame
<1> DEFINE w == g \div WordBits
<1>1. w \in 0 .. Words - 1 /\ hint <= w /\ hint \in 0 .. Words - 1 /\ Words \in Nat \ {0}
  BY WordsFacts, WordOfBit DEF HInv, HintLowest, FrameTypeOK
<1>2. \E h \in Frame : Candidate(w, h)
  BY FreeCandidate
<1> HIDE DEF w
<1>3. CASE hint + step < Words
  <2>1. WordAt(step) = hint + step
    BY <1>1, <1>3 DEF WordAt
  <2>2. ASSUME w < hint + step PROVE FALSE
    <3>1. w - hint \in 0 .. step - 1 /\ hint + (w - hint) = w
      BY <1>1, <2>2
    <3>2. WordAt(w - hint) = w
      BY <1>1, <3>1 DEF WordAt
    <3> QED
      BY <1>2, <3>1, <3>2 DEF Allocate, Found
  <2> QED
    BY <1>1, <2>1, <2>2 DEF w
<1>4. CASE hint + step >= Words
  <2>1. (hint + step - Words) + Words = hint + step /\ hint + step - Words \in 0 .. Words - 1
    BY <1>1, <1>4
  <2>2. WordAt(step) = hint + step - Words
    BY <1>1, <2>1 DEF WordAt
  <2> QED
    BY <1>1, <2>2 DEF w
<1> QED
  BY <1>1, <1>3, <1>4

\* No free frame lies before the word of the hint.
THEOREM FrameHint == FrameSpec => []HintLowest
<1>1. FrameInit => HInv
  BY InitIInv, WordsFacts DEF FrameInit, HInv, HintLowest, IInv
<1>2. HInv /\ FrameTypeOK' /\ [FrameNext]_frameVars => HInv'
  <2> SUFFICES ASSUME HInv, FrameTypeOK', [FrameNext]_frameVars PROVE HInv'
    OBVIOUS
  <2>1. ASSUME NEW s, NEW e, MarkUsable(s, e) \/ MarkUsed(s, e) PROVE HInv'
    <3>1. hint = 0 /\ hint' = 0
      BY <2>1 DEF MarkUsable, MarkUsed, HInv
    <3>2. \A f \in Frame : 0 <= f \div WordBits
      BY WordsFacts, WordOfBit
    <3> QED
      BY <3>1, <3>2 DEF HInv, HintLowest, Frame
  <2>2. ASSUME NEW step \in 0 .. Words - 1, NEW f \in Frame, Allocate(step, f) PROVE HInv'
    BY <2>2, AllocateHint DEF HInv, Allocate
  <2>3. ASSUME NEW f \in Frame, Free(f) PROVE HInv'
    <3>1. \A g \in Frame : g \div WordBits \in Int
      BY WordsFacts, WordOfBit
    <3>2. HintLowest'
      BY <2>3, <3>1 DEF HInv, HintLowest, FrameTypeOK, Free, Frame
    <3> QED
      BY <2>3, <3>2 DEF HInv, Free
  <2>4. CASE Publish \/ AllocateFails \/ UNCHANGED frameVars
    BY <2>4 DEF Publish, AllocateFails, frameVars, HInv, HintLowest, Frame
  <2> QED
    BY <2>1, <2>2, <2>3, <2>4 DEF FrameNext
<1>3. HInv => HintLowest
  BY DEF HInv
<1> QED
  BY <1>1, <1>2, <1>3, FrameTypes, PTL DEF FrameSpec

\* The allocator is sound: accounting, exclusion and hint together.
THEOREM FrameSound == FrameSpec => []FramesSound
  BY FrameAccounting, FrameExclusive, FrameHint, PTL DEF FramesSound

\* allocate fails only when no frame is free.
THEOREM FrameFails == FrameSpec => FailsOnlyWhenFull
<1>1. ASSUME FrameTypeOK, [FrameNext]_frameVars, failures' > failures
      PROVE  Frame \subseteq bits
  <2>1. failures \in Nat
    BY <1>1 DEF FrameTypeOK
  <2>2. ~(failures > failures)
    BY <2>1
  <2>3. AllocateFails
    BY <1>1, <2>2, Zenon DEF FrameNext, frameVars, MarkUsable, MarkUsed, Publish, Allocate, Free
  <2> QED
    BY <1>1, <2>3, NotFoundFull DEF AllocateFails
<1> QED
  BY <1>1, FrameTypes, PTL DEF FrameSpec, FailsOnlyWhenFull

-----------------------------------------------------------------------------
(* The address spaces.                                                     *)

Thread(t) == <<"thread", t>>

ThreadStates ==
    [UThreads \union KThreads -> {"none", "ready", "running", "dying", "dead", "taken", "gone"}]

Holders ==
    LET T == UThreads \union KThreads
    IN  {TABLE, Handle} \union {Thread(t) : t \in T}
           \union {Arc(t) : t \in T} \union {Stack(t) : t \in T}

SpTypes ==
    /\ nextSpace \in 1 .. MaxSpaces + 1
    /\ root \in [Ids -> Roots \union {KERNEL}]
    /\ arcs \in [Ids -> SUBSET Holders]
    /\ spThr \in ThreadStates
    /\ cur \in [SpCpus -> UThreads \union KThreads]
    /\ cr3 \in [SpCpus -> Roots \union {KERNEL}]
    /\ loaded \in [SpCpus -> Ids \union {KERNEL}]
    /\ tlb \in [SpCpus -> SUBSET Ids]

\* A thread that is not reaped keeps its process; a space exists as long as
\* somebody has its process, and has a frame of its own.
Kept ==
    /\ \A t \in UThreads : spThr[t] \notin {"none", "gone"} => Thread(t) \in arcs[t[1]]
    /\ \A i \in Ids : arcs[i] # {} <=> root[i] # KERNEL
    /\ \A i, j \in Ids : i # j /\ root[i] # KERNEL => root[i] # root[j]
    /\ \A i \in Ids : i >= nextSpace => root[i] = KERNEL /\ spThr[<<i, 2>>] = "none"

\* A thread runs on one CPU, which has its space.
RunsHere ==
    \A c \in SpCpus :
        /\ cur[c] \in UThreads \union {<<KERNEL, c>>} /\ spThr[cur[c]] = "running"
        /\ \A d \in SpCpus : cur[d] = cur[c] => d = c
        /\ loaded[c] = cur[c][1]

Loaded ==
    \A c \in SpCpus :
        /\ cr3[c] = IF loaded[c] = KERNEL THEN KERNEL ELSE root[loaded[c]]
        /\ tlb[c] \subseteq {loaded[c]}

SpInv == SpTypes /\ Kept /\ RunsHere /\ Loaded /\ ~recycled

-----------------------------------------------------------------------------
\* The threads of the kernel are not threads of a process.
LEMMA ThreadFacts ==
    /\ KERNEL \notin Ids /\ KERNEL \notin Roots
    /\ \A t \in UThreads : t[1] \in Ids /\ t # <<KERNEL, t[2]>> /\ t \notin KThreads
    /\ \A c \in SpCpus : <<KERNEL, c>> \in KThreads /\ <<KERNEL, c>> \notin UThreads
                         /\ <<KERNEL, c>>[1] = KERNEL
    /\ \A i \in Ids : <<i, 1>> \in UThreads /\ <<i, 2>> \in UThreads
BY SpRoots, SpBounds DEF KERNEL, Ids, UThreads, KThreads

\* The space of a CPU that runs a thread of a process exists.
LEMMA RunningLives ==
    ASSUME SpInv, NEW c \in SpCpus
    PROVE  /\ cur[c] \in UThreads => /\ loaded[c] = cur[c][1] /\ loaded[c] \in Ids
                                     /\ Thread(cur[c]) \in arcs[loaded[c]]
                                     /\ root[loaded[c]] # KERNEL
                                     /\ cr3[c] = root[loaded[c]]
                                     /\ loaded[c] < nextSpace
           /\ cur[c] \notin UThreads => loaded[c] = KERNEL /\ cr3[c] = KERNEL
                                        /\ cur[c] = <<KERNEL, c>>
<1> USE ThreadFacts
<1>1. CASE cur[c] \in UThreads
  <2>1. loaded[c] = cur[c][1] /\ loaded[c] \in Ids /\ spThr[cur[c]] = "running"
    BY <1>1 DEF SpInv, RunsHere
  <2>2. Thread(cur[c]) \in arcs[loaded[c]]
    BY <1>1, <2>1, Zenon DEF SpInv, Kept
  <2>3. root[loaded[c]] # KERNEL
    BY <2>1, <2>2 DEF SpInv, Kept
  <2>4. ~(loaded[c] >= nextSpace)
    BY <2>1, <2>3, Zenon DEF SpInv, Kept
  <2>5. loaded[c] < nextSpace
    BY <2>1, <2>4, SpBounds DEF SpInv, SpTypes, ThreadStates, Ids
  <2> QED
    BY <1>1, <2>1, <2>2, <2>3, <2>5, Zenon DEF SpInv, Loaded
<1>2. CASE cur[c] \notin UThreads
  BY <1>2 DEF SpInv, RunsHere, Loaded
<1> QED
  BY <1>1, <1>2, Zenon

\* A CPU that has not loaded space i has another frame in CR3.
LEMMA OtherFrame ==
    ASSUME SpInv, NEW c \in SpCpus, NEW i \in Ids, root[i] # KERNEL, loaded[c] # i
    PROVE  cr3[c] # root[i]
<1>1. CASE cur[c] \in UThreads
  <2>1. loaded[c] \in Ids /\ cr3[c] = root[loaded[c]]
    BY <1>1, RunningLives, Zenon
  <2> QED
    BY <2>1, Zenon DEF SpInv, Kept
<1>2. CASE cur[c] \notin UThreads
  BY <1>2, RunningLives, Zenon
<1> QED
  BY <1>1, <1>2, Zenon

\* SpInv holds at the start.
LEMMA SpStarts == SpInit => SpInv
<1> SUFFICES ASSUME SpInit PROVE SpInv
  OBVIOUS
<1> USE ThreadFacts, SpBounds
<1>1. SpTypes
  BY DEF SpInit, SpTypes, ThreadStates, Ids
<1>2. Kept
  BY Zenon DEF SpInit, Kept
<1>3. RunsHere
  BY Zenon DEF SpInit, RunsHere
<1>4. Loaded /\ ~recycled
  BY DEF SpInit, Loaded
<1> QED
  BY <1>1, <1>2, <1>3, <1>4 DEF SpInv

\* The end of a reference keeps SpInv, if it is not that of a thread that may
\* still run: no CPU has the space that goes with the last one.
LEMMA ReleaseKeeps ==
    ASSUME SpInv, NEW c \in SpCpus, NEW i \in Ids, NEW h, Release(c, i, h),
           \A t \in UThreads : h = Thread(t) => spThr'[t] = "gone" /\ spThr[t] # "running",
           \A t \in UThreads : spThr'[t] \in {spThr[t], "gone"},
           \A t \in UThreads : spThr[t] = "running" => spThr'[t] = "running",
           \A t \in UThreads : spThr[t] = "none" => spThr'[t] = "none",
           \A t \in KThreads : spThr'[t] = spThr[t],
           spThr' \in ThreadStates,
           UNCHANGED <<nextSpace, cur, recycled>>
    PROVE  SpInv'
<1> USE ThreadFacts
<1>1. arcs' = [arcs EXCEPT ![i] = @ \ {h}] /\ h \in arcs[i]
  BY Zenon DEF Release
<1>2. spThr' \in ThreadStates
  BY Zenon
<1>3. \A t \in UThreads : spThr'[t] \notin {"none", "gone"} => Thread(t) \in arcs'[t[1]]
  <2> SUFFICES ASSUME NEW t \in UThreads, spThr'[t] \notin {"none", "gone"}
               PROVE  Thread(t) \in arcs'[t[1]]
    OBVIOUS
  <2>1. Thread(t) \in arcs[t[1]] /\ h # Thread(t)
    BY Zenon DEF SpInv, Kept
  <2> QED
    BY <1>1, <2>1, Zenon DEF SpInv, SpTypes, ThreadStates
<1>4. \A d \in SpCpus : arcs[i] = {h} => loaded[d] # i
  <2> SUFFICES ASSUME NEW d \in SpCpus, arcs[i] = {h}, loaded[d] = i
               PROVE  FALSE
    BY Zenon
  <2>1. cur[d] \in UThreads /\ Thread(cur[d]) = h
    BY RunningLives, Zenon
  <2>2. spThr[cur[d]] = "running"
    BY Zenon DEF SpInv, RunsHere
  <2> QED
    BY <2>1, <2>2, Zenon
<1>5. UNCHANGED cpuVars
  <2>1. CASE arcs[i] # {h}
    BY <2>1, Zenon DEF Release
  <2>2. CASE arcs[i] = {h}
    <3>1. root[i] # KERNEL
      BY <1>1, Zenon DEF SpInv, Kept
    <3>2. cr3[c] # root[i]
      BY <1>4, <2>2, <3>1, OtherFrame, Zenon
    <3> QED
      BY <2>2, <3>2, Zenon DEF Release, Dropped
  <2> QED
    BY <2>1, <2>2, Zenon
<1>6. root' = IF arcs[i] = {h} THEN [root EXCEPT ![i] = KERNEL] ELSE root
  BY Zenon DEF Release, Dropped
<1>7. SpTypes'
  BY <1>1, <1>2, <1>5, <1>6, Zenon DEF SpInv, SpTypes, ThreadStates, cpuVars
<1>8. Kept'
  <2>1. \A j \in Ids : arcs'[j] # {} <=> root'[j] # KERNEL
    <3> SUFFICES ASSUME NEW j \in Ids PROVE arcs'[j] # {} <=> root'[j] # KERNEL
      BY Zenon
    <3>1. arcs[j] # {} <=> root[j] # KERNEL
      BY Zenon DEF SpInv, Kept
    <3>2. /\ arcs'[i] = arcs[i] \ {h} /\ (arcs[i] = {h} => root'[i] = KERNEL)
          /\ j # i => arcs'[j] = arcs[j] /\ root'[j] = root[j]
      BY <1>1, <1>6, Zenon DEF SpInv, SpTypes
    <3>3. CASE j = i /\ arcs[i] = {h}
      BY <3>2, <3>3, Zenon
    <3>4. CASE j = i /\ arcs[i] # {h}
      BY <1>1, <1>6, <3>1, <3>2, <3>4, Zenon
    <3> QED
      BY <3>1, <3>2, <3>3, <3>4, Zenon
  <2>2. \A j, k \in Ids : j # k /\ root'[j] # KERNEL => root'[j] # root'[k]
    <3>1. \A j \in Ids : root'[j] \in {root[j], KERNEL}
      BY <1>6, Zenon DEF SpInv, SpTypes
    <3> SUFFICES ASSUME NEW j \in Ids, NEW k \in Ids, j # k, root'[j] # KERNEL
                 PROVE  root'[j] # root'[k]
      BY Zenon
    <3>2. root'[j] = root[j] /\ root[j] # root[k]
      BY <3>1, Zenon DEF SpInv, Kept
    <3> QED
      BY <3>1, <3>2, Zenon
  <2>3. \A j \in Ids : j >= nextSpace' => root'[j] = KERNEL /\ spThr'[<<j, 2>>] = "none"
    <3> SUFFICES ASSUME NEW j \in Ids, j >= nextSpace
                 PROVE  root'[j] = KERNEL /\ spThr'[<<j, 2>>] = "none"
      BY Zenon
    <3>1. root[j] = KERNEL /\ spThr[<<j, 2>>] = "none" /\ <<j, 2>> \in UThreads
      BY Zenon DEF SpInv, Kept
    <3> QED
      BY <1>6, <3>1, Zenon DEF SpInv, SpTypes, ThreadStates
  <2> QED
    BY <1>3, <2>1, <2>2, <2>3, Zenon DEF Kept
<1>9. RunsHere'
  <2> SUFFICES ASSUME NEW d \in SpCpus
               PROVE  /\ cur[d] \in UThreads \union {<<KERNEL, d>>} /\ spThr'[cur[d]] = "running"
                      /\ \A e \in SpCpus : cur[e] = cur[d] => e = d
                      /\ loaded[d] = cur[d][1]
    BY <1>5, Zenon DEF RunsHere, cpuVars
  <2>1. /\ cur[d] \in UThreads \union {<<KERNEL, d>>} /\ spThr[cur[d]] = "running"
        /\ \A e \in SpCpus : cur[e] = cur[d] => e = d
        /\ loaded[d] = cur[d][1]
    BY Zenon DEF SpInv, RunsHere
  <2> QED
    BY <2>1, Zenon
<1>10. Loaded'
  <2> SUFFICES ASSUME NEW d \in SpCpus
               PROVE  /\ cr3[d] = IF loaded[d] = KERNEL THEN KERNEL ELSE root'[loaded[d]]
                      /\ tlb[d] \subseteq {loaded[d]}
    BY <1>5, Zenon DEF Loaded, cpuVars
  <2>1. /\ cr3[d] = IF loaded[d] = KERNEL THEN KERNEL ELSE root[loaded[d]]
        /\ tlb[d] \subseteq {loaded[d]} /\ loaded[d] \in Ids \union {KERNEL}
    BY Zenon DEF SpInv, SpTypes, Loaded
  <2>2. loaded[d] # KERNEL => root'[loaded[d]] = root[loaded[d]]
    BY <1>4, <1>6, <2>1, Zenon DEF SpInv, SpTypes
  <2> QED
    BY <2>1, <2>2, Zenon
<1> QED
  BY <1>7, <1>8, <1>9, <1>10, Zenon DEF SpInv

\* A step that leaves threads, spaces and what the CPUs have loaded alone keeps
\* SpInv, if references only come, or one that is not a thread's goes and
\* another stays, and a TLB loses entries.
LEMMA ArcsKeep ==
    ASSUME SpInv, UNCHANGED <<nextSpace, root, spThr, cur, cr3, loaded, recycled>>,
           arcs' \in [Ids -> SUBSET Holders],
           \A i \in Ids : arcs'[i] # {} <=> arcs[i] # {},
           \A i \in Ids : \A t \in UThreads : Thread(t) \in arcs[i] => Thread(t) \in arcs'[i],
           tlb' \in [SpCpus -> SUBSET Ids],
           \A c \in SpCpus : tlb'[c] \subseteq {loaded[c]}
    PROVE  SpInv'
<1> USE ThreadFacts
<1>1. SpTypes'
  BY Zenon DEF SpInv, SpTypes, ThreadStates
<1>2. Kept'
  BY Zenon DEF SpInv, Kept
<1>3. RunsHere' /\ Loaded' /\ ~recycled'
  BY Zenon DEF SpInv, RunsHere, Loaded
<1> QED
  BY <1>1, <1>2, <1>3, Zenon DEF SpInv

\* A new space and its first thread.
LEMMA SpawnKeeps ==
    ASSUME SpInv, NEW c \in SpCpus, NEW t, SpawnElf(c, t)
    PROVE  SpInv'
<1> USE ThreadFacts
<1> DEFINE n == nextSpace
<1>1. n \in Ids /\ n + 1 \in 1 .. MaxSpaces + 1
  BY SpBounds DEF SpawnElf, SpInv, SpTypes, ThreadStates, Ids
<1>2. PICK r \in FreeRoots : root' = [root EXCEPT ![n] = r]
  BY Zenon DEF SpawnElf
<1>3. r \in Roots /\ r # KERNEL /\ \A i \in Ids : root[i] # r
  BY Zenon DEF FreeRoots
<1>4. /\ arcs' = [arcs EXCEPT ![n] = {TABLE, Handle, Thread(<<n, 1>>)}]
      /\ spThr' = [spThr EXCEPT ![<<n, 1>>] = "ready"]
      /\ nextSpace' = n + 1
      /\ UNCHANGED <<cur, cr3, loaded, tlb, recycled>>
  BY Zenon DEF SpawnElf, Thread, cpuVars
<1>5. {TABLE, Handle, Thread(<<n, 1>>)} \subseteq Holders
  BY <1>1, Zenon DEF Holders
<1>6. root[n] = KERNEL /\ spThr[<<n, 2>>] = "none"
  <2>1. n >= nextSpace
    BY <1>1, SpBounds DEF Ids
  <2> QED
    BY <1>1, <2>1, Zenon DEF SpInv, Kept
<1>7. \A d \in SpCpus : cur[d] # <<n, 1>> /\ loaded[d] # n
  <2> SUFFICES ASSUME NEW d \in SpCpus, cur[d] = <<n, 1>> \/ loaded[d] = n
               PROVE  FALSE
    OBVIOUS
  <2>1. loaded[d] = n
    BY <1>1 DEF SpInv, RunsHere
  <2> QED
    BY <1>1, <1>6, <2>1, RunningLives, Zenon
<1> HIDE DEF n
<1>8. SpTypes'
  BY <1>1, <1>2, <1>3, <1>4, <1>5, Zenon DEF SpInv, SpTypes, ThreadStates
<1>9. Kept'
  <2>1. \A u \in UThreads : spThr'[u] \notin {"none", "gone"} => Thread(u) \in arcs'[u[1]]
    <3> SUFFICES ASSUME NEW u \in UThreads, spThr'[u] \notin {"none", "gone"}
                 PROVE  Thread(u) \in arcs'[u[1]]
      OBVIOUS
    <3>1. CASE u = <<n, 1>>
      BY <1>1, <1>4, <3>1, Zenon DEF SpInv, SpTypes, ThreadStates
    <3>2. CASE u # <<n, 1>>
      <4>1. spThr[u] \notin {"none", "gone"} /\ Thread(u) \in arcs[u[1]] /\ root[u[1]] # KERNEL
        BY <1>4, <3>2, Zenon DEF SpInv, SpTypes, ThreadStates, Kept
      <4>2. u[1] # n
        BY <1>6, <4>1, Zenon
      <4> QED
        BY <1>4, <4>1, <4>2, Zenon DEF SpInv, SpTypes, ThreadStates
    <3> QED
      BY <3>1, <3>2, Zenon
  <2>2. \A i \in Ids : arcs'[i] # {} <=> root'[i] # KERNEL
    BY <1>1, <1>2, <1>3, <1>4, Zenon DEF SpInv, SpTypes, ThreadStates, Kept
  <2>3. \A i, j \in Ids : i # j /\ root'[i] # KERNEL => root'[i] # root'[j]
    BY <1>1, <1>2, <1>3, Zenon DEF SpInv, SpTypes, ThreadStates, Kept
  <2>4. \A i \in Ids : i >= n + 1 => root'[i] = KERNEL /\ spThr'[<<i, 2>>] = "none"
    <3> SUFFICES ASSUME NEW i \in Ids, i >= n + 1
                 PROVE  root'[i] = KERNEL /\ spThr'[<<i, 2>>] = "none"
      BY Zenon
    <3>1. i # n /\ i >= nextSpace /\ <<i, 2>> # <<n, 1>>
      BY <1>1, SpBounds DEF n, Ids
    <3>2. root[i] = KERNEL /\ spThr[<<i, 2>>] = "none"
      BY <3>1, Zenon DEF SpInv, Kept
    <3> QED
      BY <1>1, <1>2, <1>4, <3>1, <3>2, Zenon DEF SpInv, SpTypes, ThreadStates
  <2> QED
    BY <1>4, <2>1, <2>2, <2>3, <2>4, Zenon DEF Kept
<1>10. RunsHere'
  BY <1>1, <1>4, <1>7, Zenon DEF SpInv, SpTypes, ThreadStates, RunsHere
<1>11. Loaded' /\ ~recycled'
  <2>1. ~recycled'
    BY <1>4, Zenon DEF SpInv
  <2> SUFFICES ASSUME NEW d \in SpCpus
               PROVE  /\ cr3[d] = IF loaded[d] = KERNEL THEN KERNEL ELSE root'[loaded[d]]
                      /\ tlb[d] \subseteq {loaded[d]}
    BY <1>4, <2>1, Zenon DEF Loaded
  <2>2. /\ cr3[d] = IF loaded[d] = KERNEL THEN KERNEL ELSE root[loaded[d]]
        /\ tlb[d] \subseteq {loaded[d]} /\ loaded[d] \in Ids \union {KERNEL}
    BY Zenon DEF SpInv, SpTypes, Loaded
  <2>3. loaded[d] # KERNEL => root'[loaded[d]] = root[loaded[d]]
    BY <1>1, <1>2, <1>7, <2>2, Zenon DEF SpInv, SpTypes
  <2> QED
    BY <2>2, <2>3, Zenon
<1> QED
  BY <1>8, <1>9, <1>10, <1>11, Zenon DEF SpInv

\* A second thread of the process.
LEMMA CreateKeeps ==
    ASSUME SpInv, NEW c \in SpCpus, NEW t, CreateThread(c, t)
    PROVE  SpInv'
<1> USE ThreadFacts
<1> DEFINE i == t[1]
           u == <<i, 2>>
<1>1. /\ cur[c] = t /\ t \in UThreads /\ i \in Ids /\ u \in UThreads
      /\ spThr[u] = "none" /\ spThr' = [spThr EXCEPT ![u] = "ready"]
      /\ arcs' = [arcs EXCEPT ![i] = @ \union {Thread(u)}]
      /\ UNCHANGED <<nextSpace, root, cur, cr3, loaded, tlb, recycled>>
  BY Zenon DEF CreateThread, Runs, On, Thread, cpuVars
<1>2. i < nextSpace /\ root[i] # KERNEL /\ u[1] = i
  BY <1>1, RunningLives
<1>3. \A d \in SpCpus : cur[d] # u
  BY <1>1 DEF SpInv, RunsHere
<1> HIDE DEF u, i
<1>4. SpTypes'
  BY <1>1 DEF SpInv, SpTypes, ThreadStates, Holders
<1>5. Kept'
  <2>1. \A v \in UThreads : spThr'[v] \notin {"none", "gone"} => Thread(v) \in arcs'[v[1]]
    BY <1>1, <1>2, Zenon DEF SpInv, SpTypes, ThreadStates, Kept
  <2>2. \A j \in Ids : arcs'[j] # {} <=> root'[j] # KERNEL
    BY <1>1, <1>2, Zenon DEF SpInv, SpTypes, ThreadStates, Kept
  <2>3. \A j \in Ids : j >= nextSpace => root[j] = KERNEL /\ spThr'[<<j, 2>>] = "none"
    <3> SUFFICES ASSUME NEW j \in Ids, j >= nextSpace
                 PROVE  root[j] = KERNEL /\ spThr'[<<j, 2>>] = "none"
      OBVIOUS
    <3>1. j # i /\ root[j] = KERNEL /\ spThr[<<j, 2>>] = "none"
      BY <1>2, Zenon DEF SpInv, Kept
    <3>2. <<j, 2>> # u
      BY <1>2, <3>1, Zenon DEF u
    <3> QED
      BY <1>1, <3>1, <3>2, Zenon DEF SpInv, SpTypes, ThreadStates
  <2> QED
    BY <1>1, <2>1, <2>2, <2>3, Zenon DEF SpInv, Kept
<1>6. RunsHere'
  BY <1>1, <1>3, Zenon DEF SpInv, SpTypes, ThreadStates, RunsHere
<1>7. Loaded' /\ ~recycled'
  BY <1>1, Zenon DEF SpInv, Loaded
<1> QED
  BY <1>4, <1>5, <1>6, <1>7, Zenon DEF SpInv

\* The context switch: a reload finds another frame in CR3.
LEMMA SwitchKeeps ==
    ASSUME SpInv, NEW c \in SpCpus, NEW n \in UThreads \union KThreads, SwitchTo(c, n)
    PROVE  SpInv'
<1> USE ThreadFacts
<1> DEFINE t == cur[c]
<1>1. PICK s \in {"ready", "dying"} : spThr' = [spThr EXCEPT ![t] = s, ![n] = "running"]
  BY Zenon DEF SwitchTo
<1>2. /\ spThr[n] = "ready" /\ n \in UThreads \union {<<KERNEL, c>>}
      /\ cur' = [cur EXCEPT ![c] = n]
      /\ Load(c, n)
      /\ UNCHANGED <<nextSpace, root, arcs>>
  BY Zenon DEF SwitchTo
<1>3. /\ t \in UThreads \union {<<KERNEL, c>>} /\ t \in UThreads \union KThreads
      /\ spThr[t] = "running" /\ t # n
  BY <1>2, Zenon DEF SpInv, SpTypes, ThreadStates, RunsHere
<1>4. \A d \in SpCpus : cur[d] # n
  BY <1>2, Zenon DEF SpInv, RunsHere
<1> HIDE DEF t
<1>5. n \in UThreads => n[1] \in Ids /\ root[n[1]] # KERNEL
  BY <1>2, Zenon DEF SpInv, Kept
<1>6. n \notin UThreads => n = <<KERNEL, c>> /\ n[1] = KERNEL /\ n \in KThreads
  BY <1>2, Zenon
<1>7. Target(c, n) = <<IF n[1] = KERNEL THEN KERNEL ELSE root[n[1]], n[1]>>
  BY <1>5, <1>6, Zenon DEF Target
<1>8. loaded[c] # n[1] => cr3[c] # Target(c, n)[1]
  <2>1. n \in UThreads => Target(c, n)[1] = root[n[1]]
    BY <1>5, <1>7
  <2>2. n \notin UThreads => Target(c, n)[1] = KERNEL
    BY <1>6, <1>7
  <2>3. CASE n \in UThreads
    BY <1>5, <2>1, <2>3, OtherFrame, Zenon
  <2>4. CASE n \notin UThreads
    BY <1>6, <2>2, <2>4, RunningLives, Zenon
  <2> QED
    BY <2>3, <2>4, Zenon
<1>9. /\ loaded' = [loaded EXCEPT ![c] = n[1]]
      /\ cr3' = [cr3 EXCEPT ![c] = IF n[1] = KERNEL THEN KERNEL ELSE root[n[1]]]
      /\ tlb' = [tlb EXCEPT ![c] = IF loaded[c] = n[1] THEN @ ELSE {}]
      /\ ~recycled'
  <2>1. CASE loaded[c] # n[1]
    <3>1. Target(c, n)[2] = n[1]
          /\ Target(c, n)[1] = IF n[1] = KERNEL THEN KERNEL ELSE root[n[1]]
      BY <1>7
    <3>2. /\ recycled' = (recycled \/ cr3[c] = Target(c, n)[1])
          /\ cr3' = [cr3 EXCEPT ![c] = Target(c, n)[1]]
          /\ loaded' = [loaded EXCEPT ![c] = Target(c, n)[2]]
          /\ tlb' = [tlb EXCEPT ![c] = {}]
      BY <1>2, <2>1, <3>1, Zenon DEF Load
    <3>3. ~recycled'
      BY <1>8, <2>1, <3>2, Zenon DEF SpInv
    <3> QED
      BY <2>1, <3>1, <3>2, <3>3, Zenon
  <2>2. CASE loaded[c] = n[1]
    <3>1. UNCHANGED <<cpuVars, recycled>>
      <4>1. Target(c, n)[2] = n[1]
        BY <1>7
      <4> QED
        BY <1>2, <2>2, <4>1, Zenon DEF Load
    <3>2. cr3[c] = IF n[1] = KERNEL THEN KERNEL ELSE root[n[1]]
      BY <2>2, Zenon DEF SpInv, Loaded
    <3> QED
      BY <2>2, <3>1, <3>2, Zenon DEF cpuVars, SpInv, SpTypes, ThreadStates
  <2> QED
    BY <2>1, <2>2, Zenon
<1>10. n[1] \in Ids \union {KERNEL}
  BY <1>5, <1>6, Zenon
<1>11. (IF n[1] = KERNEL THEN KERNEL ELSE root[n[1]]) \in Roots \union {KERNEL}
  BY <1>10, Zenon DEF SpInv, SpTypes, ThreadStates
<1>12. SpTypes'
  BY <1>1, <1>2, <1>3, <1>9, <1>10, <1>11, Zenon DEF SpInv, SpTypes, ThreadStates
<1>13. Kept'
  <2>1. \A v \in UThreads : spThr'[v] \notin {"none", "gone"} => spThr[v] \notin {"none", "gone"}
    BY <1>1, <1>2, <1>3, Zenon DEF SpInv, SpTypes, ThreadStates
  <2>2. \A v \in UThreads : spThr[v] = "none" => spThr'[v] = "none"
    BY <1>1, <1>2, <1>3, Zenon DEF SpInv, SpTypes, ThreadStates
  <2> QED
    BY <1>2, <2>1, <2>2, Zenon DEF SpInv, Kept
<1>14. RunsHere'
  <2> SUFFICES ASSUME NEW d \in SpCpus
               PROVE  /\ cur'[d] \in UThreads \union {<<KERNEL, d>>} /\ spThr'[cur'[d]] = "running"
                      /\ \A e \in SpCpus : cur'[e] = cur'[d] => e = d
                      /\ loaded'[d] = cur'[d][1]
    BY Zenon DEF RunsHere
  <2>1. CASE d = c
    BY <1>1, <1>2, <1>3, <1>4, <1>9, <2>1, Zenon DEF SpInv, SpTypes, ThreadStates
  <2>2. CASE d # c
    <3>1. /\ cur'[d] = cur[d] /\ loaded'[d] = loaded[d]
          /\ cur[d] # t /\ cur[d] # n
      BY <1>2, <1>4, <1>9, <2>2 DEF SpInv, SpTypes, ThreadStates, RunsHere, t
    <3>2. spThr'[cur[d]] = "running"
      BY <1>1, <1>3, <3>1, Zenon DEF SpInv, SpTypes, ThreadStates, RunsHere
    <3>3. \A e \in SpCpus : cur'[e] = cur'[d] => e = d
      BY <1>2, <1>4, <3>1, Zenon DEF SpInv, SpTypes, ThreadStates, RunsHere
    <3> QED
      BY <3>1, <3>2, <3>3, Zenon DEF SpInv, RunsHere
  <2> QED
    BY <2>1, <2>2, Zenon
<1>15. Loaded'
  BY <1>2, <1>9, Zenon DEF SpInv, SpTypes, ThreadStates, Loaded
<1> QED
  BY <1>9, <1>12, <1>13, <1>14, <1>15 DEF SpInv

\* Threads that only go from "dying" to "dead" to "taken" keep SpInv.
LEMMA LeavesKeep ==
    ASSUME SpInv, UNCHANGED <<nextSpace, root, arcs, cur, cpuVars, recycled>>,
           spThr' \in ThreadStates,
           \A t \in UThreads \union KThreads :
              spThr'[t] # spThr[t] => spThr[t] \in {"dying", "dead"} /\ spThr'[t] \in {"dead", "taken"}
    PROVE  SpInv'
<1> USE ThreadFacts
<1>1. SpTypes'
  BY Zenon DEF SpInv, SpTypes, ThreadStates, cpuVars
<1>2. Kept'
  BY ZenonT(30) DEF SpInv, Kept
<1>3. RunsHere'
  BY DEF SpInv, SpTypes, ThreadStates, RunsHere, cpuVars
<1>4. Loaded' /\ ~recycled'
  BY Zenon DEF SpInv, Loaded, cpuVars
<1> QED
  BY <1>1, <1>2, <1>3, <1>4, Zenon DEF SpInv

\* What a CPU does between system calls keeps SpInv.
LEMMA CpuKeeps ==
    ASSUME SpInv, NEW c \in SpCpus, CpuStep(c)
    PROVE  SpInv'
<1> USE ThreadFacts
<1>1. CASE \E n \in UThreads \union KThreads : SwitchTo(c, n)
  BY <1>1, SwitchKeeps, Zenon
<1>2. CASE FinishSwitch(c)
  <2>1. /\ spThr' = [spThr EXCEPT ![prev[c]] = IF @ = "dying" THEN "dead" ELSE @]
        /\ UNCHANGED <<nextSpace, root, arcs, cur, cpuVars, recycled>>
    BY <1>2, Zenon DEF FinishSwitch
  <2>2. spThr' \in ThreadStates
    BY <2>1, Zenon DEF SpInv, SpTypes, ThreadStates
  <2>3. \A t \in UThreads \union KThreads :
           spThr'[t] # spThr[t] => spThr[t] = "dying" /\ spThr'[t] = "dead"
    BY <2>1, Zenon DEF SpInv, SpTypes, ThreadStates
  <2> QED
    BY <2>1, <2>2, <2>3, LeavesKeep, Zenon
<1>3. CASE ReapTake(c)
  <2>1. /\ spThr' = [t \in DOMAIN spThr |-> IF spThr[t] = "dead" THEN "taken" ELSE spThr[t]]
        /\ UNCHANGED <<nextSpace, root, arcs, cur, cpuVars, recycled>>
    BY <1>3, Zenon DEF ReapTake
  <2>2. spThr' \in ThreadStates
    BY <2>1, Zenon DEF SpInv, SpTypes, ThreadStates
  <2>3. \A t \in UThreads \union KThreads :
           spThr'[t] # spThr[t] => spThr[t] = "dead" /\ spThr'[t] = "taken"
    BY <2>1, Zenon DEF SpInv, SpTypes, ThreadStates
  <2> QED
    BY <2>1, <2>2, <2>3, LeavesKeep, Zenon
<1>4. CASE ReapDrop(c)
  <2>1. PICK t \in UThreads : /\ spThr[t] = "taken"
                              /\ spThr' = [spThr EXCEPT ![t] = "gone"]
                              /\ Release(c, t[1], Thread(t))
    BY <1>4, Zenon DEF ReapDrop, Thread
  <2>2. UNCHANGED <<nextSpace, cur, recycled>> /\ t[1] \in Ids
    BY <1>4, Zenon DEF ReapDrop
  <2>3. /\ spThr' \in ThreadStates
        /\ \A u \in UThreads \union KThreads : spThr'[u] = IF u = t THEN "gone" ELSE spThr[u]
    BY <2>1, Zenon DEF SpInv, SpTypes, ThreadStates
  <2>4. \A u \in UThreads : Thread(t) = Thread(u) => spThr'[u] = "gone" /\ spThr[u] # "running"
    BY <2>1, <2>3, Zenon DEF Thread
  <2>5. /\ \A u \in UThreads : spThr'[u] \in {spThr[u], "gone"}
        /\ \A u \in UThreads : spThr[u] = "running" => spThr'[u] = "running"
        /\ \A u \in UThreads : spThr[u] = "none" => spThr'[u] = "none"
        /\ \A u \in KThreads : spThr'[u] = spThr[u]
    BY <2>1, <2>3, Zenon
  <2> QED
    BY <2>1, <2>2, <2>3, <2>4, <2>5, ReleaseKeeps, ZenonT(30)
<1>5. CASE TlbFlush(c)
  <2>1. /\ tlb' = [tlb EXCEPT ![c] = {}]
        /\ UNCHANGED <<nextSpace, root, arcs, spThr, cur, cr3, loaded, recycled>>
    BY <1>5, Zenon DEF TlbFlush, schedVars
  <2>2. tlb' \in [SpCpus -> SUBSET Ids] /\ \A d \in SpCpus : tlb'[d] \subseteq {loaded[d]}
    BY <2>1, Zenon DEF SpInv, SpTypes, ThreadStates, Loaded
  <2>3. arcs' \in [Ids -> SUBSET Holders] /\ arcs' = arcs
    BY <2>1, Zenon DEF SpInv, SpTypes, ThreadStates
  <2> QED
    BY <2>1, <2>2, <2>3, ArcsKeep, Zenon
<1> QED
  BY <1>1, <1>2, <1>3, <1>4, <1>5, Zenon DEF CpuStep

\* A system call, an access or the end of a thread keeps SpInv.
LEMMA ThreadKeeps ==
    ASSUME SpInv, NEW c \in SpCpus, SpThread(c, cur[c])
    PROVE  SpInv'
<1> USE ThreadFacts
<1> DEFINE t == cur[c]
<1> HIDE DEF t
<1>0. /\ t \in UThreads \union KThreads
      /\ t \in UThreads => t[1] \in Ids /\ Thread(t) \in arcs[t[1]] /\ loaded[c] = t[1]
                           /\ root[t[1]] # KERNEL /\ cr3[c] = root[t[1]]
  BY RunningLives, Zenon DEF SpInv, SpTypes, ThreadStates, t
<1>a. /\ arcs \in [Ids -> SUBSET Holders] /\ tlb \in [SpCpus -> SUBSET Ids]
      /\ \A d \in SpCpus : tlb[d] \subseteq {loaded[d]}
  BY Zenon DEF SpInv, SpTypes, ThreadStates, Loaded
<1>b. \A u : Arc(u) # TABLE /\ Arc(u) # Handle /\ Handle # TABLE
  BY Zenon DEF Arc, TABLE, Handle
<1>c. \A u, v : Thread(u) # TABLE /\ Thread(u) # Handle /\ Thread(u) # Arc(v)
  BY Zenon DEF Arc, TABLE, Handle, Thread
<1>1. CASE SpawnElf(c, t)
  BY <1>1, SpawnKeeps, Zenon
<1>2. CASE SpawnFails(c, t)
  <2>1. nextSpace' = nextSpace + 1 /\ nextSpace <= MaxSpaces
        /\ UNCHANGED <<root, arcs, spThr, cur, cr3, loaded, tlb, recycled>>
    BY <1>2, Zenon DEF SpawnFails, schedVars, cpuVars
  <2>2. nextSpace' \in 1 .. MaxSpaces + 1
    BY <2>1, SpBounds DEF SpInv, SpTypes, ThreadStates
  <2>3. \A i \in Ids : i >= nextSpace' => i >= nextSpace
    BY <2>1, SpBounds DEF SpInv, SpTypes, ThreadStates, Ids
  <2>4. SpTypes' /\ Kept'
    BY <2>1, <2>2, <2>3, Zenon DEF SpInv, SpTypes, ThreadStates, Kept
  <2>5. RunsHere' /\ Loaded' /\ ~recycled'
    BY <2>1, Zenon DEF SpInv, RunsHere, Loaded
  <2> QED
    BY <2>4, <2>5, Zenon DEF SpInv
<1>3. CASE CreateThread(c, t)
  BY <1>3, CreateKeeps, Zenon
<1>4. CASE ExitProcess(c, t)
  <2>1. /\ t \in UThreads
        /\ arcs' = [arcs EXCEPT ![t[1]] = IF t[1] \in spExited THEN @ \union {Stack(t)} ELSE @ \ {TABLE}]
        /\ UNCHANGED <<nextSpace, root, spThr, cur, cr3, loaded, tlb, recycled>>
    BY <1>4, Zenon DEF ExitProcess, schedVars, cpuVars
  <2>2. arcs' \in [Ids -> SUBSET Holders]
    BY <1>0, <1>a, <2>1 DEF Holders
  <2>3. \A i \in Ids : \A u \in UThreads : Thread(u) \in arcs[i] => Thread(u) \in arcs'[i]
    BY <1>0, <1>a, <1>c, <2>1, Zenon
  <2>4. \A i \in Ids : arcs'[i] # {} <=> arcs[i] # {}
    BY <1>0, <1>a, <2>1, <2>3, Zenon
  <2> QED
    BY <1>a, <2>1, <2>2, <2>3, <2>4, ArcsKeep, Zenon
<1>5. CASE Borrow(c, t)
  <2>1. PICK i \in Ids : /\ TABLE \in arcs[i]
                         /\ arcs' = [arcs EXCEPT ![i] = @ \union {Arc(t)}]
    BY <1>5, Zenon DEF Borrow
  <2>2. UNCHANGED <<nextSpace, root, spThr, cur, cr3, loaded, tlb, recycled>>
    BY <1>5, Zenon DEF Borrow, schedVars, cpuVars
  <2>3. arcs' \in [Ids -> SUBSET Holders]
    BY <1>0, <1>a, <2>1 DEF Holders
  <2>4. \A j \in Ids : \A u \in UThreads : Thread(u) \in arcs[j] => Thread(u) \in arcs'[j]
    BY <1>a, <2>1, Zenon
  <2>5. \A j \in Ids : arcs'[j] # {} <=> arcs[j] # {}
    BY <1>a, <2>1, Zenon
  <2> QED
    BY <1>a, <2>2, <2>3, <2>4, <2>5, ArcsKeep, Zenon
<1>6. ASSUME NEW h, NEW i \in Ids, Release(c, i, h), \A u : h # Thread(u),
             UNCHANGED <<nextSpace, schedVars, recycled>>
      PROVE  SpInv'
  <2>1. UNCHANGED <<nextSpace, spThr, cur, recycled>>
    BY <1>6, Zenon DEF schedVars
  <2>2. spThr \in ThreadStates
    BY Zenon DEF SpInv, SpTypes, ThreadStates
  <2> QED
    BY <1>6, <2>1, <2>2, ReleaseKeeps, Zenon
<1>7. CASE GiveBack(c, t)
  BY <1>7, <1>6, <1>c, Zenon DEF GiveBack
<1>8. CASE CloseHandle(c, t)
  BY <1>8, <1>6, <1>c, Zenon DEF CloseHandle
<1>9. CASE Touch(c, t)
  <2>1. PICK i \in LiveSpaces : /\ root[i] = cr3[c]
                                /\ tlb' = [tlb EXCEPT ![c] = @ \union {i}]
    BY <1>9, Zenon DEF Touch
  <2>2. /\ t \in UThreads /\ i \in Ids /\ root[i] # KERNEL
        /\ UNCHANGED <<nextSpace, root, arcs, spThr, cur, cr3, loaded, recycled>>
    BY <1>9, Zenon DEF Touch, schedVars, LiveSpaces
  <2>3. i = loaded[c]
    BY <2>1, <2>2, OtherFrame, Zenon
  <2>4. tlb' \in [SpCpus -> SUBSET Ids] /\ \A d \in SpCpus : tlb'[d] \subseteq {loaded[d]}
    BY <1>a, <2>1, <2>2, <2>3, Zenon
  <2> QED
    BY <1>a, <2>2, <2>4, ArcsKeep, Zenon
<1>10. CASE Invlpg(c, t)
  <2>1. /\ tlb' = [tlb EXCEPT ![c] = @ \ {t[1]}]
        /\ UNCHANGED <<nextSpace, root, arcs, spThr, cur, cr3, loaded, recycled>>
    BY <1>10, Zenon DEF Invlpg, schedVars
  <2>2. tlb' \in [SpCpus -> SUBSET Ids] /\ \A d \in SpCpus : tlb'[d] \subseteq {loaded[d]}
    BY <1>a, <2>1, Zenon
  <2> QED
    BY <1>a, <2>1, <2>2, ArcsKeep, Zenon
<1>11. CASE ExitThread(c, t) \/ MemoryMap(c, t) \/ UnmapEntry(c, t) \/ flush_tlb_others(c, t)
  <2>1. UNCHANGED <<nextSpace, root, arcs, spThr, cur, cr3, loaded, tlb, recycled>>
    BY <1>11, Zenon DEF ExitThread, MemoryMap, UnmapEntry, flush_tlb_others, schedVars, cpuVars
  <2> QED
    BY <1>a, <2>1, ArcsKeep, Zenon
<1> QED
  BY <1>1, <1>2, <1>3, <1>4, <1>5, <1>7, <1>8, <1>9, <1>10, <1>11, Zenon DEF SpThread, t

\* SpInv is an invariant.
THEOREM SpInvariant == SpSpec => []SpInv
<1>1. SpInv /\ [SpNext]_spVars => SpInv'
  <2> SUFFICES ASSUME SpInv, [SpNext]_spVars PROVE SpInv'
    OBVIOUS
  <2>1. CASE UNCHANGED spVars
    BY <2>1, Zenon DEF spVars, SpInv, SpTypes, ThreadStates, Kept, RunsHere, Loaded
  <2> QED
    BY <2>1, CpuKeeps, ThreadKeeps DEF SpNext
<1> QED
  BY SpStarts, <1>1, PTL DEF SpSpec

\* For any number of CPUs, frames and processes: a CPU that runs a thread of a
\* process has its space and translations of no other, no CPU has a space whose
\* last Arc<Process> is gone, and the reload in schedule_locked never meets the
\* frame it is about to load.
THEOREM SpacesAreSound == SpSpec => []SpacesSound
<1>1. SpInv => SpacesSound
  <2> SUFFICES ASSUME SpInv PROVE SpacesSound
    OBVIOUS
  <2>1. \A c \in SpCpus : cur[c] \in UThreads => loaded[c] = cur[c][1] /\ cr3[c] = root[cur[c][1]]
    BY RunningLives, Zenon
  <2>2. \A c \in SpCpus : loaded[c] # KERNEL => loaded[c] \in LiveSpaces
    BY RunningLives, Zenon DEF LiveSpaces
  <2> QED
    BY <2>1, <2>2, Zenon DEF SpInv, Loaded, SpacesSound
<1> QED
  BY SpInvariant, <1>1, PTL-----------------------------------------------------------------------------
(* Interrupts of drivers.                                                  *)

IrqTypes ==
    /\ allocated \subseteq Vector
    /\ irqCounts \in [Vector -> Nat]
    /\ grant \in [IrqProcess -> BOOLEAN]
    /\ vectors \in [IrqProcess -> SUBSET Vector]
    /\ irqQueue \in [IrqProcess -> Nat]
    /\ shut \in [IrqProcess -> BOOLEAN]
    /\ isr \in {"idle", "notify", "wake"} \X (Vector \cup {NoVector})
    /\ isr[1] # "idle" => isr[2] \in Vector
    /\ irqPc \in [IrqThread -> {"user", "lock", "blocked"}]
    /\ vec \in [IrqThread -> Vector \cup {NoVector}]
    /\ \A t \in IrqThread : irqPc[t] # "user" => vec[t] \in Vector
    /\ seen \in [IrqThread -> Nat]
    /\ unread \in [IrqProcess -> Nat]

\* A notice that is not in the channel yet is the running handler's to put there.
NoticeDue ==
    \A p \in IrqProcess : unread[p] > 0 /\ irqQueue[p] = 0 =>
        isr[1] = "notify" /\ <<isr[2], p>> \in channels /\ ~ shut[p]

IrqInv == IrqTypes /\ NoLostIrq /\ NoticeDue /\ VectorOwned

\* Giving vectors back keeps the others with their grants.
LEMMA VectorGivenBack ==
    ASSUME IrqTypes, VectorOwned, NEW p \in IrqProcess,
           grant' = [grant EXCEPT ![p] = FALSE], vectors' = [vectors EXCEPT ![p] = {}],
           allocated' = allocated \ vectors[p]
    PROVE  /\ VectorOwned' /\ grant' \in [IrqProcess -> BOOLEAN]
           /\ vectors' \in [IrqProcess -> SUBSET Vector] /\ allocated' \subseteq Vector
BY DEF IrqTypes, VectorOwned

\* The entry of a waiter: the vector and the thread.
LEMMA PairIs == \A v, t : <<v, t>>[1] = v /\ <<v, t>>[2] = t
OBVIOUS

\* Waking those who wait on a vector loses none of them.
LEMMA WakeKeeps ==
    ASSUME IrqTypes, NoLostIrq, NEW v, WakeOnly(v), UNCHANGED <<irqPc, vec, seen, irqCounts>>,
           isr' = isr \/ isr[2] = v
    PROVE  NoLostIrq'
<1> SUFFICES ASSUME NEW t \in IrqThread, irqPc[t] = "blocked", t \notin irqToWake'
             PROVE  /\ <<vec[t], t>> \in irqWaiters'
                    /\ irqCounts[vec[t]] <= seen[t] \/ (isr'[1] # "idle" /\ isr'[2] = vec[t])
  BY DEF NoLostIrq
<1>1. /\ irqWaiters' = irqWaiters \ {w \in irqWaiters : w[1] = v}
      /\ irqToWake' = irqToWake \cup {w[2] : w \in {w \in irqWaiters : w[1] = v}}
  BY DEF WakeOnly
<1>2. /\ <<vec[t], t>> \in irqWaiters
      /\ irqCounts[vec[t]] <= seen[t] \/ (isr[1] # "idle" /\ isr[2] = vec[t])
  BY <1>1 DEF NoLostIrq
<1>3. vec[t] # v
  <2>1. <<vec[t], t>>[1] = vec[t] /\ <<vec[t], t>>[2] = t
    BY PairIs, Zenon
  <2> QED
    BY <1>1, <1>2, <2>1, Zenon
<1>4. <<vec[t], t>>[1] = vec[t]
  BY PairIs, Zenon
<1> QED
  BY <1>1, <1>2, <1>3, <1>4, Zenon

\* A channel without notices.
LEMMA NothingUnread == \A n : n = 0 => ~(n > 0)
OBVIOUS

\* Every step of the drivers, the handler and the kernel keeps IrqInv.
LEMMA IrqKeeps ==
    ASSUME IrqInv, [IrqNext]_irqVars
    PROVE  IrqInv'
<1> USE UserIrqAssumption DEF IrqInv
<1>1. CASE UNCHANGED irqVars
  BY <1>1, Zenon DEF irqVars, IrqTypes, NoLostIrq, NoticeDue, VectorOwned
<1>2. ASSUME NEW p \in IrqProcess, Alloc(p)
      PROVE  IrqInv'
  <2>1. PICK v \in Vector \ allocated : /\ allocated' = allocated \cup {v}
                                        /\ vectors' = [vectors EXCEPT ![p] = @ \cup {v}]
    BY <1>2, Zenon DEF Alloc
  <2>2. vectors' \in [IrqProcess -> SUBSET Vector]
    <3>1. vectors \in [IrqProcess -> SUBSET Vector] /\ vectors[p] \cup {v} \in SUBSET Vector
      BY <2>1, Zenon DEF IrqTypes
    <3> QED
      BY <2>1, <3>1, Zenon
  <2>3. /\ vectors'[p] = vectors[p] \cup {v}
        /\ \A r \in IrqProcess \ {p} : vectors'[r] = vectors[r]
    BY <2>1 DEF IrqTypes
  <2>4. VectorOwned'
    BY <1>2, <2>1, <2>3 DEF Alloc, VectorOwned
  <2> QED
    BY <1>2, <2>1, <2>2, <2>4, Zenon DEF Alloc, irqChan, thr, IrqTypes, NoLostIrq, NoticeDue
<1>3. ASSUME NEW p \in IrqProcess, DropGrant(p)
      PROVE  IrqInv'
  <2>1. /\ VectorOwned' /\ grant' \in [IrqProcess -> BOOLEAN]
        /\ vectors' \in [IrqProcess -> SUBSET Vector] /\ allocated' \subseteq Vector
    BY <1>3, VectorGivenBack, Zenon DEF DropGrant
  <2> QED
    BY <1>3, <2>1, Zenon DEF DropGrant, irqChan, thr, IrqTypes, NoLostIrq, NoticeDue
<1>4. ASSUME NEW p \in IrqProcess, RecvNotice(p) \/ CloseChannel(p)
      PROVE  IrqInv'
  <2>1. /\ UNCHANGED <<irq, own, isr, thr, irqToWake>>
        /\ irqQueue' = [irqQueue EXCEPT ![p] = 0] /\ unread' = [unread EXCEPT ![p] = 0]
        /\ shut' = shut \/ shut' = [shut EXCEPT ![p] = TRUE]
    BY <1>4, Zenon DEF RecvNotice, CloseChannel
  <2>2. UNCHANGED <<irqPc, vec, seen, irqCounts, irqWaiters, irqToWake, isr, grant, vectors, allocated>>
    BY <2>1 DEF irq, own, thr
  <2>5. IrqTypes'
    BY <2>1, <2>2, Zenon DEF IrqTypes
  <2>4. NoLostIrq' /\ VectorOwned'
    BY <2>2, Zenon DEF NoLostIrq, VectorOwned
  <2>3. NoticeDue'
    <3>1. /\ unread'[p] = 0 /\ UNCHANGED <<isr, channels>>
          /\ \A r \in IrqProcess \ {p} :
                unread'[r] = unread[r] /\ irqQueue'[r] = irqQueue[r] /\ (shut'[r] <=> shut[r])
      BY <1>4 DEF RecvNotice, CloseChannel, irq, IrqTypes
    <3> QED
      <4> SUFFICES ASSUME NEW r \in IrqProcess, unread'[r] > 0, irqQueue'[r] = 0
                   PROVE  isr[1] = "notify" /\ <<isr[2], r>> \in channels /\ ~ shut'[r]
        BY <3>1, Zenon DEF NoticeDue
      <4>1. r # p
        BY <3>1, NothingUnread, Zenon
      <4>2. unread[r] > 0 /\ irqQueue[r] = 0 /\ (shut'[r] <=> shut[r])
        BY <3>1, <4>1, Zenon
      <4> QED
        BY <4>2, Zenon DEF NoticeDue
  <2> QED
    BY <2>3, <2>4, <2>5
<1>5. ASSUME NEW p \in IrqProcess, IrqKill(p)
      PROVE  IrqInv'
  <2>1. IrqTypes' /\ VectorOwned'
    BY <1>5, VectorGivenBack, Zenon DEF IrqKill, thr, IrqTypes
  <2>2. NoLostIrq'
    BY <1>5, Zenon DEF IrqKill, thr, NoLostIrq
  <2>3. NoticeDue'
    BY <1>5 DEF IrqKill, NoticeDue, IrqTypes
  <2> QED
    BY <2>1, <2>2, <2>3
<1>6. ASSUME NEW p \in IrqProcess, NEW v \in Vector, IrqChannel(p, v)
      PROVE  IrqInv'
  BY <1>6, Zenon DEF IrqChannel, own, irqChan, thr, IrqTypes, NoLostIrq, NoticeDue, VectorOwned
<1>7. ASSUME NEW t \in IrqThread, NEW v \in Vector, IrqWait(t, v)
      PROVE  IrqInv'
  <2>1. IrqTypes'
    BY <1>7, Zenon DEF IrqWait, irq, own, irqChan, IrqTypes
  <2>2. NoLostIrq'
    BY <1>7 DEF IrqWait, irq, NoLostIrq, IrqTypes
  <2> QED
    BY <1>7, <2>1, <2>2 DEF IrqWait, irq, own, irqChan, NoticeDue, VectorOwned
<1>8. ASSUME NEW v \in Vector, Interrupt(v)
      PROVE  IrqInv'
  <2>1. IrqTypes'
    BY <1>8 DEF Interrupt, own, thr, IrqTypes
  <2>2. NoLostIrq'
    BY <1>8, Zenon DEF Interrupt, thr, NoLostIrq, IrqTypes
  <2>3. NoticeDue'
    BY <1>8, Zenon DEF Interrupt, NoticeDue, IrqTypes
  <2> QED
    BY <1>8, <2>1, <2>2, <2>3, Zenon DEF Interrupt, own, VectorOwned
<1>9. CASE Notify
  <2>1. IrqTypes'
    BY <1>9, Zenon DEF Notify, own, thr, IrqTypes
  <2>2. NoLostIrq'
    BY <1>9 DEF Notify, thr, NoLostIrq, IrqTypes
  <2>3. NoticeDue'
    BY <1>9 DEF Notify, NoticeDue, IrqTypes
  <2> QED
    BY <1>9, <2>1, <2>2, <2>3, Zenon DEF Notify, own, VectorOwned
<1>10. CASE IsrWakes
  <2>1. NoLostIrq'
    BY <1>10, WakeKeeps DEF IsrWakes, thr
  <2> QED
    BY <1>10, <2>1, Zenon DEF IsrWakes, own, irqChan, thr, IrqTypes, NoticeDue, VectorOwned
<1>11. ASSUME NEW v \in Vector, FreeWakes(v)
       PROVE  IrqInv'
  <2>1. NoLostIrq'
    BY <1>11, WakeKeeps DEF FreeWakes, thr
  <2> QED
    BY <1>11, <2>1, Zenon DEF FreeWakes, own, irqChan, thr, IrqTypes, NoticeDue, VectorOwned
<1>12. ASSUME NEW t \in IrqThread, IrqWaitLocked(t) \/ IrqUnpark(t)
       PROVE  IrqInv'
  <2>1. IrqTypes'
    BY <1>12, Zenon DEF IrqWaitLocked, IrqUnpark, irq, own, irqChan, IrqTypes
  <2>2. NoLostIrq'
    BY <1>12, Zenon DEF IrqWaitLocked, IrqUnpark, irq, NoLostIrq, IrqTypes
  <2> QED
    BY <1>12, <2>1, <2>2, Zenon DEF IrqWaitLocked, IrqUnpark, irq, own, irqChan, NoticeDue, VectorOwned
<1> QED
  BY <1>1, <1>2, <1>3, <1>4, <1>5, <1>6, <1>7, <1>8, <1>9, <1>10, <1>11, <1>12, Zenon
     DEF IrqNext, System, Use

\* IrqInv holds of every behaviour of the drivers.
LEMMA IrqInvariant == IrqSpec => []IrqInv
<1>1. IrqInit => IrqInv
  <2> SUFFICES ASSUME IrqInit PROVE IrqInv
    OBVIOUS
  <2>1. IrqTypes
    BY Zenon DEF IrqInit, IrqTypes
  <2>2. NoticeDue
    BY DEF IrqInit, NoticeDue
  <2> QED
    BY <2>1, <2>2, Zenon DEF IrqInit, IrqInv, NoLostIrq, VectorOwned
<1> QED
  BY <1>1, IrqKeeps, PTL DEF IrqSpec

\* irq::wait loses no interrupt, however the handler, the threads that wait, the
\* return of vectors and kills interleave.
THEOREM NoIrqLost == IrqSpec => []NoLostIrq
BY IrqInvariant, PTL DEF IrqInv

\* Coalescing drops no news and no vector has two grants, whatever the number of
\* drivers and vectors.
THEOREM IrqIsKept == IrqSpec => []IrqKept
<1>1. IrqInv => IrqKept
  <2>1. ASSUME IrqInv PROVE NoticeStays
    <3>1. \A p \in IrqProcess : irqQueue[p] \in Nat
      BY <2>1 DEF IrqInv, IrqTypes
    <3>2. \A p \in IrqProcess : unread[p] > 0 /\ irqQueue[p] = 0 => isr[1] = "notify"
      BY <2>1, Zenon DEF IrqInv, NoticeDue
    <3> QED
      BY <3>1, <3>2, SMTT(20) DEF NoticeStays
  <2> QED
    BY <2>1 DEF IrqInv, IrqKept
<1> QED
  BY <1>1, IrqInvariant, PTL

-----------------------------------------------------------------------------
(* The timer of the boot CPU.                                              *)

\* What arm_bsp programs: at least MIN_ARM, at most a tick, and not later
\* than asked beyond MIN_ARM.
LEMMA ArmDelayIs ==
    ASSUME NEW d \in Int, now \in Nat
    PROVE  /\ ArmDelay(d) \in MIN_ARM .. TICK
           /\ ArmDelay(d) <= MIN_ARM \/ now + ArmDelay(d) <= d
<1>1. MIN_ARM \in Nat \ {0} /\ TICK \in Nat /\ MIN_ARM <= TICK
  BY BspTickAssumption
<1> DEFINE m == Max({MIN_ARM, d - now})
<1>2. m \in {MIN_ARM, d - now} /\ m >= MIN_ARM /\ m >= d - now
  <2>1. \E x \in {MIN_ARM, d - now} : \A y \in {MIN_ARM, d - now} : x >= y
    BY <1>1
  <2> QED
    BY <1>1, <2>1 DEF Max
<1> HIDE DEF m
<1> DEFINE a == Min({TICK, m})
<1>3. a \in {TICK, m} /\ a <= TICK /\ a <= m
  <2>1. \E x \in {TICK, m} : \A y \in {TICK, m} : x <= y
    BY <1>1, <1>2
  <2> QED
    BY <1>1, <1>2, <2>1 DEF Min
<1>4. ArmDelay(d) = a
  BY DEF ArmDelay, m, a
<1> HIDE DEF a
<1> QED
  BY <1>1, <1>2, <1>3, <1>4

\* The nearest deadline is one of them.
LEMMA NearestIs ==
    ASSUME NEW S \in SUBSET Nat, S # {}
    PROVE  Min(S) \in S /\ \A y \in S : Min(S) <= y
BY LeastNumber, Zenon DEF Min

TickTypes ==
    /\ now \in Nat /\ deadlines \subseteq Nat
    /\ hw \in Nat \cup {Off}
    /\ delta \in [BspThread -> Nat]
    /\ bspDue \in [BspThread -> Nat]

TickInv == TickTypes /\ NeverDisarmed

\* "nenhum rearme se perdeu" (kernel/src/time.rs): for any number of threads
\* that set timers, on either CPU and migrating between them, the boot CPU is
\* never left without a tick.
THEOREM TickNeverLost == BspSpec => []NeverDisarmed
<1>1. BspInit => TickInv
  <2> SUFFICES ASSUME BspInit PROVE TickInv
    OBVIOUS
  <2>2. hw \in Nat /\ hw # Off
    BY BspTickAssumption DEF BspInit, Off
  <2> QED
    BY <2>2 DEF BspInit, TickInv, TickTypes, NeverDisarmed
<1>2. TickInv /\ [BspNext]_bspVars => TickInv'
  <2> SUFFICES ASSUME TickInv, [BspNext]_bspVars PROVE TickInv'
    OBVIOUS
  <2>0. Off \notin Nat
    BY DEF Off
  <2>1. /\ now \in Nat /\ deadlines \subseteq Nat /\ hw \in Nat \cup {Off}
        /\ delta \in [BspThread -> Nat] /\ bspDue \in [BspThread -> Nat]
        /\ hw = Off => bspIrq
    BY DEF TickInv, TickTypes, NeverDisarmed
  <2>2. Delays \subseteq Nat /\ TICK \in Nat
    BY BspTickAssumption
  <2>3. ASSUME NEW d \in Int PROVE now + ArmDelay(d) \in Nat /\ ArmDelay(d) \in Nat
    BY <2>1, ArmDelayIs, BspTickAssumption
  <2>4. ASSUME UNCHANGED <<now, hw, bspIrq>>, deadlines' \subseteq Nat,
               delta' \in [BspThread -> Nat], bspDue' \in [BspThread -> Nat]
        PROVE  TickInv'
    BY <2>1, <2>4 DEF TickInv, TickTypes, NeverDisarmed
  <2>5. ASSUME NEW t \in BspThread, Finish(t)
        PROVE  delta' \in [BspThread -> Nat] /\ bspDue' \in [BspThread -> Nat]
    BY <2>1, <2>5 DEF Finish
  <2>6. ASSUME NEW t \in BspThread, NEW a \in Delays, AfterNs(t, a) PROVE TickInv'
    <3>1. now + a \in Nat
      BY <2>1, <2>2
    <3> QED
      BY <2>1, <2>4, <2>6, <3>1, Zenon DEF AfterNs, bsp
  <2>7. ASSUME NEW t \in BspThread, NotifyDeadline(t) \/ IsBsp(t) \/ AskStore(t) PROVE TickInv'
    <3>1. UNCHANGED <<now, hw, bspIrq, deadlines>> /\ (Finish(t) \/ UNCHANGED loc)
      BY <2>7, Zenon DEF NotifyDeadline, IsBsp, AskStore, bsp
    <3> QED
      BY <2>1, <2>4, <2>5, <3>1 DEF loc
  <2>8. ASSUME NEW t \in BspThread, AskIpi(t) PROVE TickInv'
    <3>1. bspIrq' /\ UNCHANGED <<now, hw, deadlines>> /\ Finish(t)
      BY <2>8, Zenon DEF AskIpi
    <3> QED
      BY <2>1, <2>5, <3>1 DEF TickInv, TickTypes, NeverDisarmed
  <2>9. ASSUME NEW t \in BspThread, ArmCompute(t) PROVE TickInv'
    <3>1. ArmDelay(bspDue[t]) \in Nat
      BY <2>1, <2>3
    <3>2. delta' \in [BspThread -> Nat]
      BY <2>1, <2>9, <3>1 DEF ArmCompute
    <3> QED
      BY <2>1, <2>4, <2>9, <3>2 DEF ArmCompute, bsp
  <2>10. ASSUME NEW t \in BspThread, ArmRecord(t) \/ Migrate(t) PROVE TickInv'
    <3>1. UNCHANGED <<now, hw, bspIrq, deadlines, loc>>
      BY <2>10, Zenon DEF ArmRecord, Migrate, bsp
    <3> QED
      BY <2>1, <2>4, <3>1 DEF loc
  <2>11. ASSUME NEW t \in BspThread, ArmStart(t) PROVE TickInv'
    <3>1. /\ hw' = now + delta[t] \/ hw' = hw
          /\ Finish(t) /\ UNCHANGED <<now, deadlines, bspIrq>>
      BY <2>11, Zenon DEF ArmStart
    <3>2. now + delta[t] \in Nat
      BY <2>1
    <3> QED
      BY <2>0, <2>1, <2>5, <3>1, <3>2 DEF TickInv, TickTypes, NeverDisarmed
  <2>12. ASSUME NEW c \in BspCPU, NEW a \in Delays, BspSleepNs(c, a) PROVE TickInv'
    <3>1. now + a \in Nat
      BY <2>1, <2>2
    <3>2. now + ArmDelay(now + a) \in Nat
      BY <2>3, <3>1
    <3>3. deadlines' \subseteq Nat /\ UNCHANGED <<now, loc>>
      BY <2>1, <2>12, <3>1, Zenon DEF BspSleepNs
    <3>4. \/ UNCHANGED <<hw, bspIrq>>
          \/ hw' = now + ArmDelay(now + a)
          \/ bspIrq' /\ UNCHANGED hw
      BY <2>12, Zenon DEF BspSleepNs, bsp, ArmBsp
    <3> QED
      BY <2>0, <2>1, <3>2, <3>3, <3>4 DEF TickInv, TickTypes, NeverDisarmed, loc
  <2>13. ASSUME NEW d \in deadlines, Cancel(d) PROVE TickInv'
    BY <2>1, <2>4, <2>13 DEF Cancel, bsp, loc
  <2>14. CASE TimerIrq
    <3> DEFINE S == {now + TICK} \cup {d \in deadlines : d > now}
    <3>1. S \in SUBSET Nat /\ S # {}
      <4>1. now + TICK \in Nat
        BY <2>1, <2>2
      <4> QED
        BY <2>1, <4>1, Zenon
    <3> DEFINE m == Min(S)
    <3>2. m \in Nat
      BY <3>1, NearestIs, Zenon
    <3>3. hw' = now + ArmDelay(m) /\ deadlines' \subseteq deadlines /\ UNCHANGED <<now, loc>>
      BY <2>14 DEF TimerIrq, ArmBsp
    <3> HIDE DEF S, m
    <3>4. hw' \in Nat
      BY <2>3, <3>2, <3>3
    <3> QED
      BY <2>0, <2>1, <3>3, <3>4 DEF TickInv, TickTypes, NeverDisarmed, loc
  <2>15. CASE ApWatchdog
    <3>1. bspIrq' /\ UNCHANGED <<now, hw, deadlines, loc>>
      BY <2>15, Zenon DEF ApWatchdog
    <3> QED
      BY <2>1, <3>1 DEF TickInv, TickTypes, NeverDisarmed, loc
  <2>16. CASE Pass
    <3>1. /\ hw' = hw \/ (hw' = Off /\ bspIrq')
          /\ ~ bspIrq /\ now' = now + 1 /\ UNCHANGED <<deadlines, loc>>
      BY <2>16, Zenon DEF Pass
    <3> QED
      BY <2>0, <2>1, <3>1 DEF TickInv, TickTypes, NeverDisarmed, loc
  <2>17. CASE UNCHANGED bspVars
    BY <2>1, <2>4, <2>17 DEF bspVars
  <2> QED
    BY <2>6, <2>7, <2>8, <2>9, <2>10, <2>11, <2>12, <2>13, <2>14, <2>15, <2>16, <2>17, Zenon
       DEF BspNext
<1> QED
  BY <1>1, <1>2, PTL DEF BspSpec, TickInv

\* Without threads that set timers what is armed is what the timer is set to,
\* and it comes soon enough for everybody who sleeps.
SleepInv ==
    /\ now \in Nat /\ deadlines \subseteq Nat /\ armed \in Int
    /\ ~ bspIrq => /\ hw = armed /\ now < hw
                   /\ \A d \in deadlines : hw < d + MIN_ARM

\* sleep_ns and the one-shot timer of the boot CPU: when no sleep is shorter
\* than MIN_ARM_NS, each sleeper is served within MIN_ARM_NS of its deadline,
\* whatever the order of sleeps on both CPUs, interrupts and rescues.
THEOREM SleepersServed ==
    ASSUME BspThread = {}, \A a \in Delays : a >= MIN_ARM
    PROVE  BspSpec => []ServedInTime
<1>0. MIN_ARM \in Nat \ {0} /\ TICK \in Nat /\ MIN_ARM <= TICK /\ Delays \subseteq Nat
  BY BspTickAssumption
<1>1. BspInit => SleepInv
  BY <1>0 DEF BspInit, SleepInv
<1>2. SleepInv /\ [BspNext]_bspVars => SleepInv'
  <2> SUFFICES ASSUME SleepInv, [BspNext]_bspVars PROVE SleepInv'
    OBVIOUS
  <2>1. ASSUME NEW c \in BspCPU, NEW a \in Delays, BspSleepNs(c, a) PROVE SleepInv'
    <3> DEFINE d == now + a
    <3>1. d \in Nat /\ d >= now + MIN_ARM
      BY <1>0 DEF SleepInv
    <3>2. deadlines' = deadlines \cup {d} /\ now' = now
      BY <2>1 DEF BspSleepNs
    <3>3. CASE Covered(d) /\ UNCHANGED bsp
      BY <1>0, <3>1, <3>2, <3>3 DEF SleepInv, bsp, Covered
    <3>4. CASE ~ Covered(d) /\ ArmBsp(d) /\ UNCHANGED bspIrq
      <4>1. ArmDelay(d) \in MIN_ARM .. TICK /\ now + ArmDelay(d) <= d
        BY <1>0, <3>1, ArmDelayIs DEF SleepInv
      <4>2. hw' = now + ArmDelay(d) /\ armed' = now + ArmDelay(d)
        BY <3>4 DEF ArmBsp
      <4>3. ~ bspIrq => d < hw
        BY <3>1, <3>4 DEF SleepInv, Covered
      <4> QED
        BY <1>0, <3>1, <3>2, <3>4, <4>1, <4>2, <4>3 DEF SleepInv
    <3>5. CASE armed' = d /\ bspIrq' = TRUE
      <4>1. bspIrq' /\ armed' = d
        BY <3>5, Zenon
      <4>2. d \in Nat /\ d \in Int
        BY <3>1
      <4> QED
        BY <3>2, <4>1, <4>2, Zenon DEF SleepInv
    <3> QED
      BY <2>1, <3>3, <3>4, <3>5, Zenon DEF BspSleepNs
  <2>2. ASSUME NEW d \in deadlines, Cancel(d) PROVE SleepInv'
    BY <2>2 DEF Cancel, SleepInv, bsp
  <2>3. CASE TimerIrq
    <3> DEFINE S == {now + TICK} \cup {d \in deadlines : d > now}
               m == Min(S)
    <3>0. S \in SUBSET Nat /\ S # {}
      <4>1. now + TICK \in Nat /\ deadlines \subseteq Nat
        BY <1>0 DEF SleepInv
      <4> QED
        BY <4>1, Zenon
    <3>1. m \in S /\ S \subseteq Nat /\ \A y \in S : m <= y
      BY <3>0, NearestIs, Zenon
    <3> HIDE DEF m
    <3>2. /\ ArmDelay(m) \in MIN_ARM .. TICK
          /\ ArmDelay(m) <= MIN_ARM \/ now + ArmDelay(m) <= m
      BY <3>1, ArmDelayIs DEF SleepInv
    <3>3. /\ hw' = now + ArmDelay(m) /\ armed' = now + ArmDelay(m) /\ now' = now
          /\ deadlines' = {d \in deadlines : d > now} /\ bspIrq' = FALSE
      BY <2>3 DEF TimerIrq, ArmBsp, m
    <3>4. \A d \in deadlines' : d \in Nat /\ d > now /\ m <= d
      BY <3>1, <3>3 DEF SleepInv
    <3> QED
      BY <1>0, <3>1, <3>2, <3>3, <3>4 DEF SleepInv
  <2>4. CASE ApWatchdog
    BY <2>4 DEF ApWatchdog, SleepInv
  <2>5. CASE Pass
    <3>1. /\ hw' = hw \/ bspIrq'
          /\ ~ bspIrq /\ now' = now + 1 /\ UNCHANGED <<deadlines, armed>>
          /\ ~ bspIrq' => hw # now + 1
      BY <2>5, Zenon DEF Pass
    <3> QED
      BY <3>1 DEF SleepInv
  <2>6. CASE UNCHANGED bspVars
    BY <2>6 DEF bspVars, SleepInv
  <2> QED
    BY <2>1, <2>2, <2>3, <2>4, <2>5, <2>6 DEF BspNext
<1>3. SleepInv => ServedInTime
  BY <1>0 DEF SleepInv, ServedInTime
<1> QED
  BY <1>1, <1>2, <1>3, PTL DEF BspSpec

-----------------------------------------------------------------------------
(* The CPU quota.                                                          *)

\* What the promises rest on: a CPU that had its tick is not late.
QuotaInv ==
    /\ Listed
    /\ late \in [Cpu -> 0 .. 1]
    /\ \A c \in Cpu : c \in ticked => late[c] = 0

\* A CPU that is left is no longer late.
LEMMA LeaveNotLate ==
    ASSUME QuotaInv, NEW c \in Cpu, late' = [late EXCEPT ![c] = 0], ticked' \subseteq ticked \cup {c},
           UNCHANGED <<limit, listed, setter>>
    PROVE  QuotaInv'
BY DEF QuotaInv, Listed, TemQuota

\* QuotaInv holds whatever the CPUs, the window's end and set_cpu_limit do.
LEMMA QuotaHolds == QuotaSpec => []QuotaInv
<1>1. QuotaInit => QuotaInv
  BY DEF QuotaInit, QuotaInv, Listed, TemQuota
<1>2. QuotaInv /\ [QuotaNext]_quotaVars => QuotaInv'
  <2> SUFFICES ASSUME QuotaInv, [QuotaNext]_quotaVars PROVE QuotaInv'
    OBVIOUS
  <2>1. ASSUME NEW c \in Cpu, QuotaOnTick(c) \/ Yield(c) \/ Exit(c) PROVE QuotaInv'
    BY <2>1, LeaveNotLate DEF QuotaOnTick, Yield, Exit, QuotaLeave, quotaJob
  <2>2. ASSUME NEW c \in Cpu, NEW p \in alive, Pick(c, p) PROVE QuotaInv'
    BY <2>2 DEF Pick, QuotaInv, Listed, TemQuota, quotaJob
  <2>3. ASSUME NEW ns \in Limits, SetLimit(ns) PROVE QuotaInv'
    BY <2>3 DEF SetLimit, QuotaInv, Listed, TemQuota, cpus
  <2>4. CASE SetBase
    BY <2>4 DEF SetBase, QuotaInv, Listed, TemQuota, cpus
  <2>5. CASE SetPush
    BY <2>5 DEF SetPush, QuotaInv, Listed, TemQuota, cpus
  <2>6. CASE QuotaCollect \/ QuotaRetain \/ FechaJanela
    BY <2>6, Zenon DEF QuotaCollect, QuotaRetain, FechaJanela, QuotaInv, Listed, TemQuota, cpus, quotaJob
  <2>7. CASE QuotaPass
    <3>1. \A c \in Cpu : late[c] = 0
      BY <2>7, Zenon DEF QuotaPass, QuotaInv
    <3>2. late' = [c \in Cpu |-> IF run[c] # None /\ QuotaEmThrottle THEN late[c] + 1 ELSE 0]
      BY <2>7, Zenon DEF QuotaPass
    <3>3. late' \in [Cpu -> 0 .. 1]
      BY <3>1, <3>2
    <3> QED
      BY <2>7, <3>3, Zenon DEF QuotaPass, QuotaInv, Listed, TemQuota, quotaJob
  <2>8. CASE UNCHANGED quotaVars
    BY <2>8 DEF quotaVars, QuotaInv, Listed, TemQuota
  <2> QED
    BY <2>1, <2>2, <2>3, <2>4, <2>5, <2>6, <2>7, <2>8, Zenon DEF QuotaNext, QuotaKernel
<1> QED
  BY <1>1, <1>2, PTL DEF QuotaSpec

\* set_cpu_limit against cpu_quota_tick (kernel/src/process.rs): whatever the
\* order of their steps, a job with a limit stays in JOBS_COM_QUOTA.
THEOREM QuotaListed == QuotaSpec => []Listed
BY QuotaHolds, PTL DEF QuotaInv

\* on_tick (kernel/src/sched.rs): for any number of CPUs and members, none
\* runs a member of a job in throttle for more than one tick.
THEOREM QuotaLateOneTick == QuotaSpec => []LateOneTick
<1>1. QuotaInv => LateOneTick
  BY DEF QuotaInv, LateOneTick
<1> QED
  BY <1>1, QuotaHolds, PTL
=============================================================================
