----------------------------- MODULE FrameBitmap -----------------------------
(***************************************************************************)
(* The allocator of physical frames (kernel/lib/mm/src/bitmap.rs) behind   *)
(* the lock of kernel/src/mm/phys.rs.  A frame is its index.  bits has the *)
(* frames whose bit is 1: taken or not available; the bits of the last     *)
(* word that stand for no frame are 1 and stay so.                         *)
(***************************************************************************)
EXTENDS Integers, FiniteSets

CONSTANTS
    Capacity,     \* frames managed
    WordBits,     \* bits of a word: 64 in the code
    MaxOps        \* bound: allocations, frees and failures

ASSUME FrameAssumption ==
    /\ Capacity \in Nat \ {0}
    /\ WordBits \in Nat \ {0}
    /\ MaxOps \in Nat

VARIABLES
    booting,      \* phys::init is still describing the memory
    usable, bits, \* the two bitmaps
    hint,         \* the word allocate looks at first
    total, free, allocations, frees, failures,   \* FrameStats
    held          \* history: frames allocate gave out and nobody freed

frameVars == <<booting, usable, bits, hint, total, free, allocations, frees, failures, held>>

Frame == 0 .. Capacity - 1
Words == (Capacity + WordBits - 1) \div WordBits
Bit(w) == w * WordBits .. w * WordBits + WordBits - 1
AllBits == 0 .. Words * WordBits - 1

FrameTypeOK ==
    /\ booting \in BOOLEAN
    /\ usable \subseteq Frame
    /\ bits \subseteq AllBits
    /\ hint \in 0 .. Words - 1
    /\ total \in Nat /\ free \in Nat
    /\ allocations \in Nat /\ frees \in Nat /\ failures \in Nat
    /\ held \subseteq Frame

FrameInit ==
    /\ booting = TRUE
    /\ usable = {}
    /\ bits = AllBits
    /\ hint = 0
    /\ total = 0 /\ free = 0
    /\ allocations = 0 /\ frees = 0 /\ failures = 0
    /\ held = {}

-----------------------------------------------------------------------------
\* frame_range: the frames of [s, e), cut at the capacity.
FrameRange(s, e) == {f \in Frame : s <= f /\ f < e}

\* Mutant: a frame that is usable already is counted and cleared again.
MarkUsableAgain(s, e) ==
    LET fresh == FrameRange(s, e)
    IN /\ booting
       /\ usable' = usable \cup fresh
       /\ bits' = bits \ fresh
       /\ total' = total + Cardinality(fresh)
       /\ free' = free + Cardinality(fresh)
       /\ UNCHANGED <<booting, hint, allocations, frees, failures, held>>

MarkUsable(s, e) ==
    LET fresh == FrameRange(s, e) \ usable
    IN /\ booting
       /\ usable' = usable \cup fresh
       /\ bits' = bits \ fresh
       /\ total' = total + Cardinality(fresh)
       /\ free' = free + Cardinality(fresh)
       /\ UNCHANGED <<booting, hint, allocations, frees, failures, held>>

MarkUsed(s, e) ==
    LET taken == FrameRange(s, e) \ bits
    IN /\ booting
       /\ bits' = bits \cup taken
       /\ free' = free - Cardinality(taken)
       /\ UNCHANGED <<booting, usable, hint, total, allocations, frees, failures, held>>

\* phys::init publishes the allocator.
Publish ==
    /\ booting
    /\ booting' = FALSE
    /\ UNCHANGED <<usable, bits, hint, total, free, allocations, frees, failures, held>>

-----------------------------------------------------------------------------
\* The word allocate looks at in its nth step.
WordAt(step) == (hint + step) % Words

\* The lowest clear bit of a word, if it stands for a frame.
Candidate(w, f) ==
    /\ f \in Bit(w) \ bits
    /\ \A b \in Bit(w) \ bits : f <= b
    /\ f < Capacity

\* Mutant: the search starts at the word after the hint.
FoundSkipsFirst(step, f) ==
    /\ step > 0
    /\ Candidate(WordAt(step), f)
    /\ \A s \in 1 .. step - 1 : ~ \E g \in Frame : Candidate(WordAt(s), g)

\* allocate stops at this step with this frame.
Found(step, f) ==
    /\ Candidate(WordAt(step), f)
    /\ \A s \in 0 .. step - 1 : ~ \E g \in Frame : Candidate(WordAt(s), g)

Allocate(step, f) ==
    /\ ~booting
    /\ Found(step, f)
    /\ allocations < MaxOps
    /\ bits' = bits \cup {f}
    /\ hint' = WordAt(step)
    /\ free' = free - 1
    /\ allocations' = allocations + 1
    /\ held' = held \cup {f}
    /\ UNCHANGED <<booting, usable, total, frees, failures>>

AllocateFails ==
    /\ ~booting
    /\ \A step \in 0 .. Words - 1, f \in Frame : ~Found(step, f)
    /\ failures < MaxOps
    /\ failures' = failures + 1
    /\ UNCHANGED <<booting, usable, bits, hint, total, free, allocations, frees, held>>

\* free, for a frame that is usable and taken; every other frame is refused
\* (OutOfRange, NotUsable, DoubleFree) and nothing changes.  A frame that
\* mark_used took may be freed as well.
Free(f) ==
    /\ ~booting
    /\ f \in usable
    /\ f \in bits
    /\ frees < MaxOps
    /\ bits' = bits \ {f}
    /\ hint' = IF f \div WordBits < hint THEN f \div WordBits ELSE hint
    /\ free' = free + 1
    /\ frees' = frees + 1
    /\ held' = held \ {f}
    /\ UNCHANGED <<booting, usable, total, allocations, failures>>

-----------------------------------------------------------------------------
FrameNext ==
    \/ \E s, e \in 0 .. Capacity : MarkUsable(s, e) \/ MarkUsed(s, e)
    \/ Publish
    \/ \E step \in 0 .. Words - 1, f \in Frame : Allocate(step, f)
    \/ AllocateFails
    \/ \E f \in Frame : Free(f)

FrameSpec == FrameInit /\ [][FrameNext]_frameVars

-----------------------------------------------------------------------------
\* FrameStats agrees with the bitmaps: free counts the clear bits and total
\* the usable frames, so used() never underflows.
Accounting ==
    /\ free = Cardinality(AllBits \ bits)
    /\ total = Cardinality(usable)
    /\ free <= total

\* The pool has usable frames only ("impede que uma liberação errada devolva
\* memória reservada ao pool"), and never a frame that somebody holds.
Exclusive ==
    /\ AllBits \ bits \subseteq usable
    /\ held \subseteq bits \cap usable

\* No free frame lies in a word before the hint, so allocate gives out the
\* lowest free frame of all.
HintLowest == \A f \in Frame \ bits : hint <= f \div WordBits

\* The allocator is sound: the counters agree with the bitmaps, nobody's frame
\* is in the pool and no free frame lies before the hint.
FramesSound == Accounting /\ Exclusive /\ HintLowest

\* allocate fails only when no frame is free, wherever the hint points.
FailsOnlyWhenFull == [][failures' > failures => Frame \subseteq bits]_frameVars
=============================================================================
