-------------------------------- MODULE KHeap --------------------------------
(***************************************************************************)
(* The kernel heap: the first-fit list of free blocks of kernel/lib/heap   *)
(* and the global allocator of kernel/src/mm/heap.rs, which maps more      *)
(* pages when a request does not fit.  Addresses and sizes count units of  *)
(* MIN_ALIGN (16 bytes) from KERNEL_HEAP_BASE, so a free node is one unit  *)
(* and the header of an allocation two.  One lock covers every operation.  *)
(***************************************************************************)
EXTENDS Integers, Sequences, FiniteSets, SequencesExt

CONSTANTS
    Page, GrowStep, Initial, MaxSize,   \* PAGE_SIZE, GROW_STEP, INITIAL_SIZE, KERNEL_HEAP_MAX_SIZE
    Sizes, Aligns,   \* the layouts that are asked for
    Frames,          \* frames of the machine
    MaxOom           \* bound: failures counted

ASSUME KHeapAssumption ==
    /\ Page \in Nat \ {0}
    /\ GrowStep % Page = 0 /\ Initial % Page = 0
    /\ Sizes \subseteq Nat /\ Aligns \subseteq Nat \ {0}

VARIABLES
    heapList,         \* the free list: [start, size]
    heapLive,         \* blocks given out: [start, size, ptr, want, align]
    heapTotal, heapUsed,  \* HeapStats
    end,          \* mapped_end
    mapped,       \* pages of the heap's range that are mapped
    frames,       \* free physical frames
    oom           \* allocations that failed

heapVars == <<heapList, heapLive, heapTotal, heapUsed, end, mapped, frames, oom>>

Header == 2
Node == 1
Pages == 0 .. MaxSize \div Page - 1
AlignUp(v, a) == ((v + a - 1) \div a) * a

Block == [start : 0 .. MaxSize, size : 1 .. MaxSize]
Live == [start : 0 .. MaxSize, size : 1 .. MaxSize, ptr : 0 .. MaxSize, want : Sizes, align : Aligns]

HeapTypeOK ==
    /\ heapList \in Seq(Block)
    /\ heapLive \subseteq Live
    /\ heapTotal \in Nat /\ heapUsed \in Nat
    /\ end \in 0 .. MaxSize
    /\ mapped \subseteq Pages
    /\ frames \in 0 .. Frames
    /\ oom \in 0 .. MaxOom

\* init maps and adds the initial size.
HeapInit ==
    /\ heapList = <<[start |-> 0, size |-> Initial]>>
    /\ heapLive = {}
    /\ heapTotal = Initial /\ heapUsed = 0
    /\ end = Initial
    /\ mapped = 0 .. Initial \div Page - 1
    /\ frames = Frames - Initial \div Page
    /\ oom = 0

-----------------------------------------------------------------------------
(* The list (kernel/lib/heap).                                             *)

\* Where an allocation would lie in a block: its pointer, the gap before its
\* header, and its end.  A gap too small for a node pushes it on.
Place(b, size, align) ==
    LET p == AlignUp(b.start + Header, align)
        gap == p - Header - b.start
        ptr == IF gap # 0 /\ gap < Node THEN AlignUp(b.start + Node + Header, align) ELSE p
    IN [ptr |-> ptr, gap |-> ptr - Header - b.start, end |-> ptr + size]

Fits(b, size, align) == Place(b, size, align).end <= b.start + b.size

\* The first block that fits, or 0.
FirstFit(l, size, align) ==
    LET ok == {i \in DOMAIN l : Fits(l[i], size, align)}
    IN IF ok = {} THEN 0 ELSE CHOOSE i \in ok : \A j \in ok : i <= j

\* Mutant: a gap is not kept as a free block.
CutNoGap(b, size, align) ==
    LET p == Place(b, size, align)
        tail == b.start + b.size - p.end
        stop == IF tail < Node THEN b.start + b.size ELSE p.end
    IN [new |-> [start |-> p.ptr - Header, size |-> stop - (p.ptr - Header), ptr |-> p.ptr,
                 want |-> size, align |-> align],
        rest |-> IF stop < b.start + b.size
                   THEN <<[start |-> stop, size |-> b.start + b.size - stop]>> ELSE <<>>]

\* The allocation made in a block, and the free blocks that remain of it.
Cut(b, size, align) ==
    LET p == Place(b, size, align)
        tail == b.start + b.size - p.end
        stop == IF tail < Node THEN b.start + b.size ELSE p.end
    IN [new |-> [start |-> p.ptr - Header, size |-> stop - (p.ptr - Header), ptr |-> p.ptr,
                 want |-> size, align |-> align],
        rest |-> (IF p.gap # 0 THEN <<[start |-> b.start, size |-> p.gap]>> ELSE <<>>)
                 \o (IF stop < b.start + b.size
                       THEN <<[start |-> stop, size |-> b.start + b.size - stop]>> ELSE <<>>)]

\* insert_free: in address order, joined with its neighbours.
InsertFree(l, b) ==
    LET n == Cardinality({i \in DOMAIN l : l[i].start <= b.start})
        joinsNext == n < Len(l) /\ b.start + b.size = l[n + 1].start
        joinsPrev == n > 0 /\ l[n].start + l[n].size = b.start
        grown == [b EXCEPT !.size = @ + (IF joinsNext THEN l[n + 1].size ELSE 0)]
        after == SubSeq(l, n + (IF joinsNext THEN 2 ELSE 1), Len(l))
    IN IF joinsPrev
         THEN SubSeq(l, 1, n - 1) \o <<[l[n] EXCEPT !.size = @ + grown.size]>> \o after
         ELSE SubSeq(l, 1, n) \o <<grown>> \o after

-----------------------------------------------------------------------------
(* The global allocator (kernel/src/mm/heap.rs).                           *)

\* allocate on list l takes block i.
HeapTake(l, i, size, align) ==
    LET c == Cut(l[i], size, align)
    IN /\ heapList' = SubSeq(l, 1, i - 1) \o c.rest \o SubSeq(l, i + 1, Len(l))
       /\ heapLive' = heapLive \cup {c.new}
       /\ heapUsed' = heapUsed + c.new.size

\* grow: the request, its alignment and 64 bytes, or GROW_STEP.
Grow(size, align) ==
    LET min == size + align + 4
    IN AlignUp(IF min > GrowStep THEN min ELSE GrowStep, Page)

\* The pages map_range maps, and those it does map: it stops at a page that
\* is mapped already and when the frames run out.
RangePages(step) == end \div Page .. (end + step) \div Page - 1
MapRange(step) ==
    {p \in RangePages(step) :
        \A q \in end \div Page .. p : q \notin mapped /\ q - end \div Page < frames}

AllocAtOnce(size, align) ==
    LET i == FirstFit(heapList, size, align)
    IN /\ i # 0
       /\ HeapTake(heapList, i, size, align)
       /\ UNCHANGED <<heapTotal, end, mapped, frames, oom>>

\* The request does not fit; grow maps all it needs, and the second try may
\* fail all the same.
AllocGrows(size, align) ==
    LET step == Grow(size, align)
        l == InsertFree(heapList, [start |-> end, size |-> step])
        i == FirstFit(l, size, align)
    IN /\ FirstFit(heapList, size, align) = 0
       /\ end + step <= MaxSize
       /\ MapRange(step) = RangePages(step)
       /\ mapped' = mapped \cup RangePages(step)
       /\ frames' = frames - Cardinality(RangePages(step))
       /\ end' = end + step
       /\ heapTotal' = heapTotal + step
       /\ IF i # 0
            THEN /\ HeapTake(l, i, size, align)
                 /\ UNCHANGED oom
            ELSE /\ heapList' = l
                 /\ oom < MaxOom
                 /\ oom' = oom + 1
                 /\ UNCHANGED <<heapLive, heapUsed>>

\* grow fails: the limit, or a page that cannot be mapped.  What was mapped
\* before that page stays mapped.
AllocFails(size, align) ==
    LET step == Grow(size, align)
        part == IF end + step > MaxSize THEN {} ELSE MapRange(step)
    IN /\ FirstFit(heapList, size, align) = 0
       /\ end + step > MaxSize \/ part # RangePages(step)
       /\ oom < MaxOom
       /\ mapped' = mapped \cup part
       /\ frames' = frames - Cardinality(part)
       /\ oom' = oom + 1
       /\ UNCHANGED <<heapList, heapLive, heapTotal, heapUsed, end>>

Dealloc(a) ==
    /\ a \in heapLive
    /\ heapLive' = heapLive \ {a}
    /\ heapList' = InsertFree(heapList, [start |-> a.start, size |-> a.size])
    /\ heapUsed' = heapUsed - a.size
    /\ UNCHANGED <<heapTotal, end, mapped, frames, oom>>

\* Other parts of the kernel allocate and free frames.
OthersTake == frames > 0 /\ frames' = frames - 1 /\ UNCHANGED <<heapList, heapLive, heapTotal, heapUsed, end, mapped, oom>>
OthersGive ==
    /\ frames + Cardinality(mapped) < Frames
    /\ frames' = frames + 1
    /\ UNCHANGED <<heapList, heapLive, heapTotal, heapUsed, end, mapped, oom>>

-----------------------------------------------------------------------------
HeapNext ==
    \/ \E s \in Sizes, a \in Aligns : AllocAtOnce(s, a) \/ AllocGrows(s, a) \/ AllocFails(s, a)
    \/ \E a \in heapLive : Dealloc(a)
    \/ OthersTake \/ OthersGive

HeapSpec == HeapInit /\ [][HeapNext]_heapVars

-----------------------------------------------------------------------------
Units(b) == b.start .. b.start + b.size - 1
Blocks == heapLive \cup Range(heapList)

\* Free blocks and allocations tile the heap: every unit up to mapped_end is
\* in exactly one of them, so nothing overlaps and nothing is lost, however
\* requests, frees and growth alternate; the statistics say so too.
Tiled ==
    /\ UNION {Units(b) : b \in Blocks} = 0 .. end - 1
    /\ \A b, c \in Blocks : b # c => Units(b) \cap Units(c) = {}
    /\ heapTotal = end
    /\ heapUsed + FoldLeft(LAMBDA n, b : n + b.size, 0, heapList) = heapTotal

\* The free list is in address order without neighbours that touch, which is
\* what keeps the largest request possible.
Coalesced ==
    \A i \in 1 .. Len(heapList) - 1 : heapList[i].start + heapList[i].size < heapList[i + 1].start

\* The memory given out is aligned as asked and lies, with the header before
\* it, inside the block.
Aligned ==
    \A a \in heapLive :
        /\ a.ptr % a.align = 0
        /\ a.ptr = a.start + Header
        /\ a.ptr + a.want <= a.start + a.size

\* The heap is sound: blocks tile it, free neighbours are joined and what is
\* given out is aligned and inside its block.
HeapSound == Tiled /\ Coalesced /\ Aligned

\* An allocation that fails after grow was tried is a "real" lack of memory
\* (comment of oom): the limit is reached or there are too few frames.
RealOom ==
    [][\A s \in Sizes, a \in Aligns :
          oom' > oom /\ AllocFails(s, a)
            => end + Grow(s, a) > MaxSize \/ frames < Grow(s, a) \div Page]_heapVars
=============================================================================
