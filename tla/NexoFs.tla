------------------------------- MODULE NexoFs -------------------------------
(***************************************************************************)
(* NexoFS v0 (libraries/nexofs/src/lib.rs): inodes, directories of slots,  *)
(* copy-on-write file data, a block bitmap that is only a cache, and the   *)
(* mount-time check that repairs what a power cut left.                    *)
(*                                                                         *)
(* An operation runs alone in the fs service, so what it will write is     *)
(* decided by the volume it starts on: it becomes the sequence todo of its *)
(* device writes, applied one per step, and a cut may come between any two.*)
(* A file is a sequence of units, Units of them to a block.  The generation*)
(* counters and checksums are left out: a commit record lies within one    *)
(* sector, so it is written whole or not at all.                           *)
(***************************************************************************)
EXTENDS Naturals, Sequences, FiniteSetsExt, SequencesExt, TLC

CONSTANTS Inodes,    \* inode numbers, 1 .. n; 1 is ROOT_INO
          Blocks,    \* data blocks, 1 .. n
          Paths,     \* the paths callers name
          Vals,      \* what a caller may write
          Units,     \* BLOCK, in units
          NDirect,   \* NDIRECT
          Ptrs,      \* PTRS_PER_BLOCK
          Slots,     \* directory entries per block
          MaxDepth,  \* MAX_DEPTH
          MaxUnits,  \* longest file a caller tries to write, in units
          Volatile,  \* the device may lose or reorder writes not yet flushed
          Ops        \* the operations callers use in this instance

VARIABLES disk,      \* the volume as reads see it: ino, blk, map
          dur,       \* what is certain to survive a cut
          cache,     \* writes accepted since, in order (Volatile only)
          bits,      \* Fs::bitmap, the blocks in use according to memory
          todo,      \* device writes the operation in progress has left
          phase,     \* "off", "mounting", "on" or "corrupt"
          found,     \* what a mount would make of disk, for the properties
          trees      \* the trees callers saw since the last sync (Volatile only)

fsVars == <<disk, dur, cache, bits, todo, phase, found, trees>>

ROOT_INO == 1

FREE == [kind |-> "free", size |-> 0, direct |-> [i \in 1 .. NDirect |-> 0], ind |-> 0]

NoEntry == [ino |-> 0, name |-> ""]

\* A block of zeros, as data, as directory entries and as pointers.
ZERO == [data |-> [u \in 1 .. Units |-> 0], ents |-> [s \in 1 .. Slots |-> NoEntry],
         ptrs |-> [i \in 1 .. Ptrs |-> 0]]

-----------------------------------------------------------------------------
(* Device writes. *)

WBlk(b, v) == [k |-> "blk", at |-> b, v |-> v]

WIno(i, v) == [k |-> "ino", at |-> i, v |-> v]

WMap(v) == [k |-> "map", at |-> 0, v |-> v]

WFree(s) == [k |-> "ino", at |-> 0, v |-> s]

Apply(d, w) ==
    CASE w.k = "blk" -> [d EXCEPT !.blk[w.at] = w.v]
      [] w.k = "ino" /\ w.at # 0 -> [d EXCEPT !.ino[w.at] = w.v]
      [] w.k = "ino" /\ w.at = 0 -> [d EXCEPT !.ino = [i \in w.v |-> FREE] @@ @]
      [] w.k = "map" -> [d EXCEPT !.map = w.v]

ApplyAll(d, ws) == FoldLeft(Apply, d, ws)

\* The device block a write lands in; the inode table is one block here.
Home(w) == IF w.k = "blk" THEN <<"blk", w.at>> ELSE <<w.k, 0>>

\* What a cut may leave of unflushed writes: of each block, some earlier version.
Surviving(ws, cut) ==
    LET keep == {i \in DOMAIN ws : i <= cut[Home(ws[i])]}
    IN [j \in 1 .. Cardinality(keep) |->
          ws[CHOOSE i \in keep : Cardinality({x \in keep : x <= i}) = j]]

Homes(ws) == {Home(ws[i]) : i \in DOMAIN ws}

-----------------------------------------------------------------------------
(* Reading the volume. *)

\* The lowest clear bit, or 0 for NoSpace.
alloc_block(b) == IF Blocks \subseteq b THEN 0 ELSE Min(Blocks \ b)

alloc_inode(d) ==
    LET open == {i \in Inodes \ {ROOT_INO} : d.ino[i].kind = "free"}
    IN IF open = {} THEN 0 ELSE Min(open)

block_ptr(d, node, idx) ==
    IF idx < NDirect THEN node.direct[idx + 1]
    ELSE IF node.ind = 0 THEN 0 ELSE d.blk[node.ind].ptrs[idx - NDirect + 1]

read(d, node) ==
    [u \in 1 .. node.size |->
        LET p == block_ptr(d, node, (u - 1) \div Units)
        IN IF p = 0 THEN 0 ELSE d.blk[p].data[((u - 1) % Units) + 1]]

\* Entry s (from 0) of a directory; its size counts entries.
Entry(d, node, s) ==
    LET p == block_ptr(d, node, s \div Slots)
    IN IF p = 0 THEN NoEntry ELSE d.blk[p].ents[(s % Slots) + 1]

find_in_dir(d, node, name) ==
    {s \in 0 .. node.size - 1 :
        LET e == Entry(d, node, s) IN e.ino # 0 /\ e.name = name}

\* The inode a path names, 0 if it names none.
resolve(d, path) ==
    FoldLeft(LAMBDA i, n :
               IF i = 0 \/ d.ino[i].kind # "dir" THEN 0
               ELSE LET f == find_in_dir(d, d.ino[i], n)
                    IN IF f = {} THEN 0 ELSE Entry(d, d.ino[i], Min(f)).ino,
             ROOT_INO, path)

WEntry(d, node, s, e) ==
    LET p == block_ptr(d, node, s \div Slots)
    IN WBlk(p, [d.blk[p] EXCEPT !.ents[(s % Slots) + 1] = e])

\* Every block an inode points at, in the order mark_inode marks them.
BlocksOf(d, node) ==
    SelectSeq(node.direct \o
              (IF node.ind = 0 THEN <<>> ELSE <<node.ind>> \o d.blk[node.ind].ptrs),
              LAMBDA p : p # 0)

-----------------------------------------------------------------------------
(* Each operation: whether it got to do anything, the bitmap it leaves in  *)
(* memory and its device writes in order.                                  *)

Done(b, ws) == [ok |-> TRUE, bits |-> b, ws |-> ws]

Fail == [ok |-> FALSE, bits |-> bits, ws |-> <<>>]

\* A free slot, the directory extended by an empty block when it has none.
dir_alloc_slot(d, pino) ==
    LET node == d.ino[pino]
        open == {s \in 0 .. node.size - 1 :
                    Entry(d, node, s).ino = 0 /\ block_ptr(d, node, s \div Slots) # 0}
        idx  == node.size \div Slots
        nb   == alloc_block(bits)
        new  == [node EXCEPT !.direct[idx + 1] = nb, !.size = (idx + 1) * Slots]
    IN IF open # {} THEN Done(bits, <<>>) @@ [slot |-> Min(open)]
       ELSE IF idx >= NDirect \/ nb = 0 THEN Fail @@ [slot |-> 0]
       ELSE Done(bits \cup {nb},
                 <<WBlk(nb, ZERO), WIno(pino, new), WMap(bits \cup {nb})>>)
            @@ [slot |-> idx * Slots]

create(d, path, kind) ==
    LET pino == resolve(d, Front(path))
        s    == dir_alloc_slot(d, pino)
        d1   == ApplyAll(d, s.ws)
        ino  == alloc_inode(d1)
    IN IF pino = 0 THEN Fail
       ELSE IF d.ino[pino].kind # "dir" THEN Fail
       ELSE IF find_in_dir(d, d.ino[pino], Last(path)) # {} \/ ~s.ok THEN Fail
       ELSE IF ino = 0 THEN s
       ELSE Done(s.bits, s.ws \o
                 <<WIno(ino, [FREE EXCEPT !.kind = kind]),
                   WEntry(d1, d1.ino[pino], s.slot, [ino |-> ino, name |-> Last(path)])>>)

\* The inodes the parent of path is reached through, the root first.
Through(d, path) == {resolve(d, SubSeq(path, 1, n)) : n \in 1 .. Len(path) - 1}

rename(d, src, dst) ==
    LET spino == resolve(d, Front(src))
        dpino == resolve(d, Front(dst))
        ino   == resolve(d, src)
        s     == dir_alloc_slot(d, dpino)
        d1    == ApplyAll(d, s.ws)
        new   == WEntry(d1, d1.ino[dpino], s.slot, [ino |-> ino, name |-> Last(dst)])
        d2    == Apply(d1, new)
        sslot == Min(find_in_dir(d2, d2.ino[spino], Last(src)))
    IN IF ino = 0 \/ dpino = 0 THEN Fail
       ELSE IF d.ino[ino].kind = "dir" /\ ino \in Through(d, dst) THEN Fail
       ELSE IF d.ino[dpino].kind # "dir" THEN Fail
       ELSE IF find_in_dir(d, d.ino[dpino], Last(dst)) # {} \/ ~s.ok THEN Fail
       ELSE Done(s.bits, s.ws \o <<new, WEntry(d2, d2.ino[spino], sslot, NoEntry)>>)

\* The inode is freed while its name still points at it.
InodeFirst(entry, ino) == <<WIno(ino, FREE), entry>>

UnlinkOrder(entry, ino) == <<entry, WIno(ino, FREE)>>

unlink(d, path) ==
    LET pino == resolve(d, Front(path))
        ino  == resolve(d, path)
        node == d.ino[ino]
        slot == Min(find_in_dir(d, d.ino[pino], Last(path)))
        left == bits \ Range(BlocksOf(d, node))
    IN IF ino = 0 THEN Fail
       ELSE IF node.kind = "dir"
               /\ \E s \in 0 .. node.size - 1 : Entry(d, node, s).ino # 0 THEN Fail
       ELSE Done(left, Append(UnlinkOrder(WEntry(d, d.ino[pino], slot, NoEntry), ino),
                              WMap(left)))

\* One block of a write: old bytes kept below the old size, the rest zero,
\* the new data over them, all into a fresh block.  A step that finds no
\* free block ends the call there, its earlier allocations still marked.
WriteBlock(d, old, off, n, v, acc, idx) ==
    LET ptr == block_ptr(d, old, idx)
        lo  == idx * Units
        blk == [ZERO EXCEPT !.data = [u \in 1 .. Units |->
                  IF lo + u \in off + 1 .. off + n THEN v
                  ELSE IF ptr # 0 /\ lo + u <= old.size THEN d.blk[ptr].data[u] ELSE 0]]
        nb  == alloc_block(acc.bits)
        b1  == acc.bits \cup {nb}
        ib  == IF idx < NDirect \/ acc.node.ind # 0 THEN acc.node.ind ELSE alloc_block(b1)
        now == IF idx < NDirect THEN [acc.node EXCEPT !.direct[idx + 1] = nb]
               ELSE [acc.node EXCEPT !.ind = ib]
    IN IF ~acc.ok THEN acc
       ELSE IF nb = 0 THEN [acc EXCEPT !.ok = FALSE]
       ELSE IF idx >= NDirect /\ ib = 0
            THEN [acc EXCEPT !.ok = FALSE, !.bits = b1, !.ws = Append(@, WBlk(nb, blk))]
       ELSE [ok   |-> TRUE,
             bits |-> b1 \cup ({ib} \ {0}),
             ws   |-> Append(acc.ws, WBlk(nb, blk)) \o
                      (IF now.ind # acc.node.ind
                       THEN <<WBlk(ib, ZERO)>> ELSE <<>>),
             node |-> now,
             ind  |-> IF idx < NDirect THEN acc.ind
                      ELSE [acc.ind EXCEPT !.ptrs[idx - NDirect + 1] = nb],
             old  |-> acc.old \cup ({ptr} \ {0})]

\* The inode is committed before the blocks it points at are written.
CommitFirst(data, ind, commit) == <<commit>> \o data \o ind

CommitLast(data, ind, commit) == data \o ind \o <<commit>>

write(d, path, off, n, v) ==
    LET ino   == resolve(d, path)
        node  == d.ino[ino]
        first == off \div Units
        last  == (off + n - 1) \div Units
        r     == FoldLeft(LAMBDA acc, k : WriteBlock(d, node, off, n, v, acc, first + k - 1),
                          [ok |-> TRUE, bits |-> bits, ws |-> <<>>, node |-> node,
                           ind |-> IF node.ind = 0 THEN ZERO ELSE d.blk[node.ind],
                           old |-> {}],
                          [k \in 1 .. last - first + 1 |-> k])
        size  == IF off + n > node.size THEN off + n ELSE node.size
    IN IF ino = 0 THEN Fail
       ELSE IF node.kind # "file" THEN Fail
       ELSE IF off + n > (NDirect + Ptrs) * Units THEN Fail
       ELSE IF ~r.ok THEN Done(r.bits, r.ws)
       ELSE Done(r.bits \ r.old,
                 Append(CommitLast(r.ws, IF last < NDirect THEN <<>>
                                         ELSE <<WBlk(r.node.ind, r.ind)>>,
                                   WIno(ino, [r.node EXCEPT !.size = size])),
                        WMap(r.bits \ r.old)))

CutIndirect(d, node, keep) ==
    IF node.ind = 0 \/ keep <= NDirect THEN <<>>
    ELSE <<WBlk(node.ind, [d.blk[node.ind] EXCEPT !.ptrs =
             [i \in 1 .. Ptrs |-> IF i + NDirect > keep THEN 0 ELSE @[i]]])>>

\* The indirect block is cut in place before the commit, and read back after
\* it to find what to free.
truncate(d, path, size) ==
    LET ino  == resolve(d, path)
        node == d.ino[ino]
        keep == (size + Units - 1) \div Units
        wind == CutIndirect(d, node, keep)
        new  == [node EXCEPT !.size = size,
                             !.direct = [i \in 1 .. NDirect |-> IF i > keep THEN 0 ELSE @[i]],
                             !.ind = IF keep <= NDirect THEN 0 ELSE @]
        d1   == ApplyAll(d, Append(wind, WIno(ino, new)))
        dropped == {node.direct[i] : i \in {j \in 1 .. NDirect : j > keep}}
        inddrop == IF node.ind = 0 THEN {}
                   ELSE {d1.blk[node.ind].ptrs[i] : i \in {j \in 1 .. Ptrs : j + NDirect > keep}}
                        \cup (IF keep <= NDirect THEN {node.ind} ELSE {})
        left == bits \ (dropped \cup inddrop)
    IN IF ino = 0 THEN Fail
       ELSE IF node.kind # "file" \/ size >= node.size THEN Fail
       ELSE Done(left, wind \o <<WIno(ino, new), WMap(left)>>)

-----------------------------------------------------------------------------
(* The mount-time check: a walk from the root that marks inodes and blocks,*)
(* drops the second name of an inode, then clears orphans.                 *)

Bad(acc) == [acc EXCEPT !.ok = FALSE]

\* The blocks of an inode stay free in the rebuilt bitmap.
MarkInodeOnly(d, acc, i) ==
    IF d.ino[i].kind = "free" \/ i \in acc.used THEN Bad(acc)
    ELSE [acc EXCEPT !.used = @ \cup {i}]

mark_inode(d, acc, i) ==
    LET bs == BlocksOf(d, d.ino[i])
    IN IF d.ino[i].kind = "free" \/ i \in acc.used
          \/ Cardinality(Range(bs)) # Len(bs) \/ Range(bs) \cap acc.bits # {}
       THEN Bad(acc)
       ELSE [acc EXCEPT !.used = @ \cup {i}, !.bits = @ \cup Range(bs)]

RECURSIVE Walk(_, _, _, _, _)

Walk(d, acc, dir, path, depth) ==
    FoldLeft(LAMBDA a, k :
        LET s == k - 1
            e == Entry(d, d.ino[dir], s)
            p == Append(path, e.name)
            m == mark_inode(d, a, e.ino)
            n == d.ino[e.ino]
            t == [m EXCEPT !.tree = (p :> [kind |-> n.kind,
                     data |-> IF n.kind = "file" THEN read(d, n) ELSE <<>>]) @@ @]
        IN IF ~a.ok \/ e.ino = 0 THEN a
           ELSE IF n.kind # "free" /\ e.ino \in a.used
                THEN [a EXCEPT !.drop = Append(@, <<dir, s>>)]
           ELSE IF ~m.ok THEN m
           ELSE IF n.kind # "dir" THEN t
           ELSE IF depth + 1 >= MaxDepth THEN Bad(a)
           ELSE Walk(d, t, e.ino, p, depth + 1),
      acc, [k \in 1 .. d.ino[dir].size |-> k])

RepairMap(d, b) == IF d.map # b THEN <<WMap(b)>> ELSE <<>>

check(d) ==
    LET start == [ok |-> TRUE, used |-> {}, bits |-> {}, drop |-> <<>>, tree |-> << >>]
        w     == Walk(d, mark_inode(d, start, ROOT_INO), ROOT_INO, <<>>, 0)
        Drop(acc, x) == LET ew == WEntry(acc.d, acc.d.ino[x[1]], x[2], NoEntry)
                        IN [d |-> Apply(acc.d, ew), ws |-> Append(acc.ws, ew)]
        lost  == {i \in Inodes : d.ino[i].kind # "free" /\ i \notin w.used}
    IN [ok |-> w.ok, bits |-> w.bits, tree |-> w.tree,
        ws |-> FoldLeft(Drop, [d |-> d, ws |-> <<>>], w.drop).ws
               \o (IF lost # {} THEN <<WFree(lost)>> ELSE <<>>)
               \o RepairMap(d, w.bits)]

-----------------------------------------------------------------------------
(* Behaviour. *)

FsInit ==
    /\ disk = [ino |-> [i \in Inodes |-> IF i = ROOT_INO THEN [FREE EXCEPT !.kind = "dir"]
                                         ELSE FREE],
               blk |-> [b \in Blocks |-> ZERO], map |-> {}]
    /\ dur = disk /\ cache = <<>> /\ bits = {} /\ todo = <<>> /\ phase = "on"
    /\ found = check(disk) /\ trees = {}

\* One operation of a caller begins.
Begin(op) ==
    /\ phase = "on" /\ todo = <<>> /\ op.ok
    /\ todo' = op.ws /\ bits' = op.bits
    /\ UNCHANGED <<disk, dur, cache, phase>>

Create == "create" \in Ops /\ \E p \in Paths, k \in {"file", "dir"} : Begin(create(disk, p, k))

Write == "write" \in Ops /\ \E p \in Paths, off \in 0 .. MaxUnits - 1, v \in Vals :
            \E n \in 1 .. MaxUnits - off : Begin(write(disk, p, off, n, v))

Truncate == "truncate" \in Ops /\ \E p \in Paths, n \in 0 .. MaxUnits - 1 :
               Begin(truncate(disk, p, n))

Unlink == "unlink" \in Ops /\ \E p \in Paths : Begin(unlink(disk, p))

Rename == "rename" \in Ops /\ \E p, q \in Paths : Begin(rename(disk, p, q))

\* A write reaches the device.
Put(w) ==
    /\ disk' = Apply(disk, w)
    /\ IF Volatile THEN dur' = dur /\ cache' = Append(cache, w)
       ELSE dur' = disk' /\ UNCHANGED cache

\* The next write of the operation in progress.
DeviceWrite ==
    /\ todo # <<>> /\ Put(Head(todo))
    /\ todo' = Tail(todo)
    /\ phase' = IF phase = "mounting" /\ Len(todo) = 1 THEN "on" ELSE phase
    /\ UNCHANGED bits

\* sync: the bitmap, then BlockDevice::flush, which the fs service leaves at
\* its default and does nothing.
Sync ==
    /\ "sync" \in Ops /\ phase = "on" /\ todo = <<>> /\ Put(WMap(bits))
    /\ UNCHANGED <<bits, todo, phase>>

\* The power fails: memory is gone, and of what was not flushed any version
\* of each block may have reached the medium.
PowerCut ==
    /\ phase # "off"
    /\ \E cut \in [Homes(cache) -> 0 .. Len(cache)] :
          disk' = ApplyAll(dur, Surviving(cache, cut))
    /\ dur' = disk' /\ cache' = <<>> /\ todo' = <<>> /\ bits' = {} /\ phase' = "off"

Mount ==
    /\ phase = "off"
    /\ phase' = IF ~found.ok THEN "corrupt"
                ELSE IF found.ws = <<>> THEN "on" ELSE "mounting"
    /\ todo' = IF found.ok THEN found.ws ELSE <<>>
    /\ bits' = found.bits
    /\ UNCHANGED <<disk, dur, cache>>

Step == Create \/ Write \/ Truncate \/ Unlink \/ Rename \/ DeviceWrite \/ Sync
        \/ PowerCut \/ Mount

FsNext ==
    /\ Step
    /\ found' = IF disk' = disk THEN found ELSE check(disk')
    /\ trees' = IF ~Volatile THEN {}
                ELSE IF Sync THEN {found.tree} ELSE trees \cup {found.tree}

FsSpec == FsInit /\ [][FsNext]_fsVars

-----------------------------------------------------------------------------
(* Properties. *)

Ptr == Blocks \cup {0}

\* Every pointer an inode holds is a data block or 0, every size is within
\* what the pointers can address, and the bitmaps hold data blocks only.
FsTypeOK ==
    /\ \A i \in Inodes :
          /\ disk.ino[i].kind \in {"free", "file", "dir"}
          /\ disk.ino[i].direct \in [1 .. NDirect -> Ptr] /\ disk.ino[i].ind \in Ptr
          /\ disk.ino[i].size <= IF disk.ino[i].kind = "dir" THEN NDirect * Slots
                                 ELSE (NDirect + Ptrs) * Units
    /\ disk.map \subseteq Blocks /\ bits \subseteq Blocks
    /\ phase \in {"off", "mounting", "on", "corrupt"}

\* Wherever an operation or a repair is cut, the next mount accepts the
\* volume: the walk meets no entry of a free inode, no block marked twice
\* and no directory past MAX_DEPTH.
Mountable == found.ok

\* Between operations no block an inode points at is free in Fs::bitmap, so
\* alloc_block never hands out a block in use.
NoReuse ==
    phase = "on" /\ todo = <<>> =>
       \A i \in Inodes : disk.ino[i].kind # "free" =>
          Range(BlocksOf(disk, disk.ino[i])) \subseteq bits

\* Between operations Fs::bitmap holds exactly the blocks the tree reaches:
\* an operation gives back what it no longer uses.
NoLeak == phase = "on" /\ todo = <<>> => bits = found.bits

\* A mount that ran to its end, even after cut mounts, leaves nothing for
\* the next one to repair.
RepairedOnce == [][phase' = "on" /\ phase # "on" => found'.ws = <<>>]_fsVars

\* After a cut each path holds a version it had since the last sync, nothing
\* in between: no file has a size without its data, and what a sync covered
\* is there.
VersionAfterCut ==
    [][phase' = "off" /\ phase # "off" =>
         \A p \in Paths : \E t \in trees' :
            /\ p \in DOMAIN found'.tree <=> p \in DOMAIN t
            /\ p \in DOMAIN t => found'.tree[p] = t[p]]_fsVars

Atomic == INSTANCE AtomicFs WITH tree <- found.tree

\* What a mount would find changes only by whole operations: each file is in
\* its previous version or the new one, and a renamed file has one name.  The
\* repairs of a mount, interrupted or not, are done once.
AtomicOperations == Atomic!Spec /\ RepairedOnce
=============================================================================
