-------------------------------- MODULE Fat --------------------------------
(* The FAT volume of the boot partition as upd uses it (libraries/fat):    *)
(* rewrite_file replaces the contents of a file that exists, read follows  *)
(* the chain of one from a cursor.  Every write of a sector is a step, and *)
(* the power may fail or the device refuse between any two.  Contents are  *)
(* one value per cluster.                                                  *)
EXTENDS Integers, FiniteSets

CONSTANTS Clusters,   \* number of data clusters; they are numbered from 2
          PerSector,  \* entries of the table in one sector
          Straddle,   \* FAT12: clusters whose entry lies on two sectors
          FatFiles,   \* the files
          Copies,     \* copies of the table
          MaxLen,     \* longest file, in clusters
          Versions,   \* what is written
          MaxBreaks   \* power failures and refusals of the device

ASSUME FatShape == {Copies, PerSector, MaxBreaks} \subseteq Nat \ {0}

VARIABLES table,      \* the copies of the FAT
          dir,        \* directory entries: first, size
          data,       \* contents of each cluster
          fat_cache,  \* the last sector of the table that was read: a function on its clusters
          cursor,     \* where the last read ended: first, index, cluster
          rw,         \* the rewrite in progress
          broken      \* history: how many rewrites were cut short

fatVars == <<table, dir, data, fat_cache, cursor, rw, broken>>

Cluster == 2 .. Clusters + 1
FREE_CLUSTER == 0
EOC == Clusters + 2
Sector(c) == {x \in Cluster : x \div PerSector = c \div PerSector}
Capped(n) == IF n < MaxBreaks THEN n ELSE MaxBreaks
NoCache == [x \in {} |-> 0]
NoCursor == [first |-> 0, index |-> 0, cluster |-> 0]

NoRewrite == [at |-> "rest", file |-> 0, size |-> 0, v |-> 0, done |-> 0, first |-> 0, prev |-> 0,
              hint |-> 2, c |-> 0, old |-> 0, copy |-> 1, half |-> FALSE]

\* Every file begins with one cluster of its own.
FatInit ==
    /\ table = [k \in 1 .. Copies |->
                   [c \in Cluster |-> IF c - 1 \in FatFiles THEN EOC ELSE FREE_CLUSTER]]
    /\ dir = [f \in FatFiles |-> [first |-> f + 1, size |-> 1]]
    /\ data = [c \in Cluster |-> 0]
    /\ fat_cache = NoCache /\ cursor = NoCursor /\ rw = NoRewrite /\ broken = 0

----------------------------------------------------------------------------
(* Reading. *)

\* fat_raw through the cache of one sector: the value, and the cache after.
Cached(cache, c) == IF c \in DOMAIN cache THEN cache ELSE [x \in Sector(c) |-> table[1][x]]
fat_raw(cache, c) == Cached(cache, c)[c]

\* The walk of read from cluster c over n links: the cluster it ends at, 0
\* when the chain is too short, and the cache it leaves.
Follow(cache, c, n) ==
    LET walk[i \in 0 .. n] ==
            IF i = 0 THEN [c |-> c, cache |-> cache]
            ELSE LET p == walk[i - 1]
                 IN  IF p.c \notin Cluster THEN p
                     ELSE LET v == fat_raw(p.cache, p.c)
                          IN  [c |-> IF v \in Cluster THEN v ELSE 0, cache |-> Cached(p.cache, p.c)]
    IN  walk[n]

\* read of one cluster's worth at index i of the file f, from the cursor when
\* it is of this file and not past i.
Read(f, i) ==
    LET e == dir[f]
        near == cursor.first = e.first /\ cursor.index <= i /\ cursor # NoCursor
        from == IF near THEN cursor ELSE [first |-> e.first, index |-> 0, cluster |-> e.first]
        end == Follow(fat_cache, from.cluster, i - from.index)
    IN  /\ rw.at = "rest" /\ i < e.size
        /\ fat_cache' = end.cache
        /\ cursor' = IF end.c \in Cluster THEN [first |-> e.first, index |-> i, cluster |-> end.c]
                     ELSE cursor
        /\ UNCHANGED <<table, dir, data, rw, broken>>

----------------------------------------------------------------------------
(* rewrite_file. *)

find_entry_pos(f) == dir[f].first

Rewrite(f, size, v) ==
    /\ rw.at = "rest"
    /\ rw' = [NoRewrite EXCEPT !.at = IF size = 0 THEN "commit" ELSE "alloc",
                               !.file = f, !.size = size, !.v = v, !.old = find_entry_pos(f)]
    /\ UNCHANGED <<table, dir, data, fat_cache, cursor, broken>>

\* How far the scan from `hint` on, and round once, has to go to reach c.
Ahead(hint, c) ==
    LET start == IF hint \in Cluster THEN hint ELSE Clusters + 1
    IN  IF c >= start THEN c - start ELSE c + Clusters - start

\* The first free cluster of the scan; "volume cheio" ends the rewrite.
alloc_cluster ==
    LET free == {c \in Cluster : fat_raw(fat_cache, c) = FREE_CLUSTER}
        seen == IF free = {} THEN Cluster ELSE free
        last == IF free = {} THEN CHOOSE x \in seen : \A y \in seen : Ahead(rw.hint, x) >= Ahead(rw.hint, y)
                ELSE CHOOSE x \in seen : \A y \in seen : Ahead(rw.hint, x) <= Ahead(rw.hint, y)
    IN  /\ rw.at = "alloc"
        /\ fat_cache' = Cached(fat_cache, last)
        /\ IF free = {} THEN rw' = NoRewrite /\ broken' = Capped(broken + 1)
           ELSE rw' = [rw EXCEPT !.at = "reserve", !.c = last] /\ UNCHANGED broken
        /\ UNCHANGED <<table, dir, data, cursor>>

\* fat_set: the sector of c is read from the first copy and written to every
\* copy, one after the other; an entry on two sectors takes two writes, and
\* between them its value is anything.
SetEntry(c, v, next) ==
    /\ LET sector == [x \in Cluster |-> IF x \in Sector(c) THEN table[1][x] ELSE table[rw.copy][x]]
       IN  IF c \in Straddle /\ ~rw.half
           THEN /\ \E h \in 0 .. EOC : table' = [table EXCEPT ![rw.copy] = [sector EXCEPT ![c] = h]]
                /\ rw' = [rw EXCEPT !.half = TRUE]
           ELSE /\ table' = [table EXCEPT ![rw.copy] = [sector EXCEPT ![c] = v]]
                /\ rw' = IF rw.copy < Copies THEN [rw EXCEPT !.copy = @ + 1, !.half = FALSE]
                         ELSE [next EXCEPT !.copy = 1, !.half = FALSE]
    /\ UNCHANGED <<dir, data, broken>>

\* Mutant: only the cache is dropped.
fat_set_cursor(c, v, next) == SetEntry(c, v, next) /\ fat_cache' = NoCache /\ UNCHANGED cursor

fat_set(c, v, next) == SetEntry(c, v, next) /\ fat_cache' = NoCache /\ cursor' = NoCursor

Reserve ==
    /\ rw.at = "reserve"
    /\ fat_set(rw.c, EOC, [rw EXCEPT !.at = IF rw.prev = 0 THEN "data" ELSE "link",
                                     !.first = IF rw.prev = 0 THEN rw.c ELSE @])

Link ==
    /\ rw.at = "link"
    /\ fat_set(rw.prev, rw.c, [rw EXCEPT !.at = "data"])

WriteData ==
    /\ rw.at = "data"
    /\ data' = [data EXCEPT ![rw.c] = rw.v]
    /\ rw' = [rw EXCEPT !.at = IF rw.done + 1 < rw.size THEN "alloc" ELSE "commit",
                        !.done = @ + 1, !.prev = rw.c, !.hint = rw.c + 1]
    /\ UNCHANGED <<table, dir, fat_cache, cursor, broken>>

CommitEntry ==
    /\ rw.at = "commit"
    /\ dir' = [dir EXCEPT ![rw.file] = [first |-> rw.first, size |-> rw.size]]
    /\ rw' = IF rw.old \in Cluster THEN [NoRewrite EXCEPT !.at = "free", !.c = rw.old] ELSE NoRewrite
    /\ UNCHANGED <<table, data, fat_cache, cursor, broken>>

\* free_chain reads the link of a cluster before it frees it; prev keeps it.
free_chain ==
    \/ /\ rw.at = "free"
       /\ fat_cache' = Cached(fat_cache, rw.c)
       /\ rw' = [rw EXCEPT !.at = "freeing", !.prev = fat_raw(fat_cache, rw.c)]
       /\ UNCHANGED <<table, dir, data, cursor, broken>>
    \/ /\ rw.at = "freeing"
       /\ fat_set(rw.c, FREE_CLUSTER,
                  IF rw.prev \in Cluster THEN [rw EXCEPT !.at = "free", !.c = rw.prev] ELSE NoRewrite)

----------------------------------------------------------------------------
(* Failures. *)

\* The device refuses: rewrite_file returns where it is.
IoFails ==
    /\ rw.at # "rest" /\ broken < MaxBreaks
    /\ rw' = NoRewrite /\ broken' = broken + 1
    /\ UNCHANGED <<table, dir, data, fat_cache, cursor>>

\* The power fails, and the volume is mounted again.
CutAndMount ==
    /\ rw' = NoRewrite
    /\ rw.at # "rest" => broken < MaxBreaks
    /\ broken' = IF rw.at = "rest" THEN broken ELSE broken + 1
    /\ fat_cache' = NoCache /\ cursor' = NoCursor
    /\ UNCHANGED <<table, dir, data>>

FatNext ==
    \/ \E f \in FatFiles, i \in 0 .. MaxLen - 1 : Read(f, i)
    \/ \E f \in FatFiles, n \in 0 .. MaxLen, v \in Versions : Rewrite(f, n, v)
    \/ alloc_cluster \/ Reserve \/ Link \/ WriteData \/ CommitEntry \/ free_chain
    \/ IoFails \/ CutAndMount
----------------------------------------------------------------------------
(* Properties. *)

\* The clusters of a file after the copy k of the table, 0 from where the
\* chain breaks.
ChainOf(f, k) ==
    LET at[i \in 1 .. MaxLen] ==
            IF i = 1 THEN dir[f].first
            ELSE IF at[i - 1] \in Cluster THEN table[k][at[i - 1]] ELSE 0
    IN  [i \in 1 .. dir[f].size |-> IF at[i] \in Cluster THEN at[i] ELSE 0]

ContentsOf(f, k) ==
    LET chain == ChainOf(f, k)
    IN  [i \in 1 .. dir[f].size |-> IF chain[i] = 0 THEN -1 ELSE data[chain[i]]]

ClustersOf(f) == {ChainOf(f, 1)[i] : i \in 1 .. dir[f].size}

\* The volume between two steps: files share no cluster; what the reader
\* remembers is what the disk holds; and if no rewrite was cut short, then
\* between two of them the copies agree and no cluster is lost.
VolumeSound ==
    /\ \A f, g \in FatFiles : f # g => ClustersOf(f) \cap ClustersOf(g) = {}
    /\ \A c \in DOMAIN fat_cache : fat_cache[c] = table[1][c]
    /\ \A f \in FatFiles :
           cursor # NoCursor /\ cursor.first = dir[f].first /\ cursor.index < dir[f].size
               => ChainOf(f, 1)[cursor.index + 1] = cursor.cluster
    /\ rw.at = "rest" /\ broken = 0 =>
           /\ \A k \in 1 .. Copies : table[k] = table[1]
           /\ {c \in Cluster : table[1][c] # FREE_CLUSTER} = UNION {ClustersOf(f) : f \in FatFiles}

\* "Um corte deixa ou o arquivo antigo intacto ou o novo completo": whichever
\* copy of the table it is read with, the contents of a file change in one
\* step, from the old to all of the new, and the volume stays sound.
FilesAtomic ==
    [][ /\ \A f \in FatFiles, k \in 1 .. Copies :
              \/ ContentsOf(f, k)' = ContentsOf(f, k)
              \/ rw.file = f /\ ContentsOf(f, k)' = [i \in 1 .. rw.size |-> rw.v]
        /\ VolumeSound' ]_fatVars
=============================================================================
