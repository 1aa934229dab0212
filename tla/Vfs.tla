-------------------------------- MODULE Vfs --------------------------------
(* The virtual file system (services/vfs): sessions with masks of mounts,  *)
(* the scan that picks the next request, the files of /tmp, and the inode  *)
(* numbers it makes up for paths of /boot.  Clients send, open sessions    *)
(* for others and close as they like; what a request asks is chosen when   *)
(* it is served.  /disk is forwarded to the file system and keeps no state *)
(* here.                                                                   *)
EXTENDS Integers

CONSTANTS VFS_CLIENTS,  \* MAX_CLIENTS
          RAM_FILES,
          RAM_MAX,      \* RAM_FILE_MAX, in units of a write
          BOOT_PATHS,
          Mounts,       \* masks the service is started with
          TmpNames,     \* names in /tmp
          BootNames     \* paths in /boot; ROOT is the mount itself

ASSUME VfsShape == {VFS_CLIENTS, RAM_FILES, RAM_MAX, BOOT_PATHS} \subseteq Nat \ {0}

VARIABLES sess,    \* clients: mask of mounts, {} if the slot is free
          ends,    \* the other end of each session: a request waits, it closed
          scan,    \* slot, the session served last
          ram,     \* RamFile and its data
          boot,    \* BOOT_TABLE
          handed,  \* history: inode numbers given for paths of /boot
          widened, \* history: a session got a mount its opener did not have
          passed   \* history: requests served while this one waited

vfsVars == <<sess, ends, scan, ram, boot, handed, widened, passed>>

VfsSession == 0 .. VFS_CLIENTS - 1
ALL == {"disk", "boot", "tmp"}
ROOT == ""
NoName == "-"
Gone == [waits |-> FALSE, closed |-> FALSE]

\* A file of /tmp.  own: the units of its data written since it was created;
\* gap: a write began past its end.
NoFile == [used |-> FALSE, name |-> NoName, size |-> 0, own |-> {}, gap |-> FALSE]

VfsInit ==
    /\ \E m \in Mounts : sess = [k \in VfsSession |-> IF k = 0 THEN m ELSE {}]
    /\ widened = FALSE
    /\ ends = [k \in VfsSession |-> Gone]
    /\ scan = 0
    /\ ram = [i \in 1 .. RAM_FILES |-> NoFile]
    /\ boot = [i \in 1 .. BOOT_PATHS |-> ROOT]
    /\ handed = {}
    /\ passed = [k \in VfsSession |-> 0]

----------------------------------------------------------------------------
(* The clients. *)

VfsSend(k) ==
    /\ sess[k] # {} /\ ~ends[k].closed /\ ~ends[k].waits
    /\ ends' = [ends EXCEPT ![k].waits = TRUE]
    /\ UNCHANGED <<sess, scan, ram, boot, handed, widened, passed>>

VfsClose(k) ==
    /\ sess[k] # {} /\ ~ends[k].closed
    /\ ends' = [ends EXCEPT ![k].closed = TRUE]
    /\ UNCHANGED <<sess, scan, ram, boot, handed, widened, passed>>

----------------------------------------------------------------------------
(* The scan. *)

\* How many sessions the scan looks at before k: it begins after the one
\* served last.
ScanOrderFixed(k) == k
ScanOrder(k) == (k - scan - 1) % VFS_CLIENTS

\* The session whose request is taken, and those found closed on the way.
Found == {k \in VfsSession : ends[k].waits /\ \A j \in VfsSession : ends[j].waits => ScanOrder(k) <= ScanOrder(j)}
Dead(n) == {k \in VfsSession : sess[k] # {} /\ ends[k].closed /\ ~ends[k].waits /\ ScanOrder(k) < n}

\* The slots of the sessions ks are free again.
Freed(ks) ==
    /\ sess' = [k \in VfsSession |-> IF k \in ks THEN {} ELSE sess[k]]
    /\ ends' = [k \in VfsSession |-> IF k \in ks THEN Gone ELSE ends[k]]

\* A round that finds nothing to serve collects the closed sessions; the
\* service exits with the last of them.
Collect ==
    /\ Found = {} /\ Dead(VFS_CLIENTS) # {}
    /\ Freed(Dead(VFS_CLIENTS))
    /\ UNCHANGED <<scan, ram, boot, handed, widened, passed>>

----------------------------------------------------------------------------
(* The operations, for a session with mask m; each gives the new value. *)

\* open: the mask is cut to that of the session that asks.
Narrowed(asked, m) == (IF asked = {} THEN m ELSE asked) \cap m

ram_find(name) == {i \in 1 .. RAM_FILES : ram[i].used /\ ram[i].name = name}
LowestOf(S) == CHOOSE i \in S : \A j \in S : i <= j

\* A file that is created keeps what its slot held; only the size is reset.
Created(i, name) ==
    [ram EXCEPT ![i] = [used |-> TRUE, name |-> name, size |-> 0, own |-> {}, gap |-> FALSE]]

create_tmp(name) ==
    LET free == {i \in 1 .. RAM_FILES : ~ram[i].used}
    IN  IF ram_find(name) # {} \/ free = {} THEN ram ELSE Created(LowestOf(free), name)

unlink_tmp(name) ==
    IF ram_find(name) = {} THEN ram
    ELSE [ram EXCEPT ![LowestOf(ram_find(name))] =
              [used |-> FALSE, name |-> @.name, size |-> @.size, own |-> {}, gap |-> FALSE]]

rename_tmp(from, to) ==
    IF ram_find(to) # {} \/ ram_find(from) = {} THEN ram
    ELSE [ram EXCEPT ![LowestOf(ram_find(from))].name = to]

\* By inode number, which is the slot and may be from an earlier file.
write_tmp(i, off) ==
    IF ~ram[i].used \/ off + 1 > RAM_MAX THEN ram
    ELSE [ram EXCEPT ![i] =
              [used |-> TRUE, name |-> @.name, size |-> IF @.size < off + 1 THEN off + 1 ELSE @.size,
               own |-> @.own \cup {off}, gap |-> @.gap \/ off > @.size]]

truncate_tmp(i, size) ==
    IF ram[i].used /\ size < ram[i].size THEN [ram EXCEPT ![i].size = size] ELSE ram

\* boot_remember: the entry that has the path, else the first free one.  The
\* free ones have the empty path, so that of the mount takes no entry.
boot_remember(p) ==
    LET same == {i \in 1 .. BOOT_PATHS : boot[i] = p}
        free == {i \in 1 .. BOOT_PATHS : boot[i] = ROOT}
    IN  IF same # {} THEN LowestOf(same) ELSE IF free # {} THEN LowestOf(free) ELSE 0

----------------------------------------------------------------------------
(* Serving the request of session k. *)

TmpRequest(m) ==
    /\ \/ "tmp" \notin m /\ UNCHANGED ram
       \/ /\ "tmp" \in m
          /\ \/ \E x \in TmpNames : ram' = create_tmp(x)
             \/ \E x \in TmpNames : ram' = unlink_tmp(x)
             \/ \E x, y \in TmpNames : ram' = rename_tmp(x, y)
             \/ \E i \in 1 .. RAM_FILES, off \in 0 .. RAM_MAX : ram' = write_tmp(i, off)
             \/ \E i \in 1 .. RAM_FILES, n \in 0 .. RAM_MAX : ram' = truncate_tmp(i, n)
    /\ UNCHANGED <<boot, handed>>

StatBoot(m, p) ==
    LET i == boot_remember(p)
    IN  /\ "boot" \in m /\ i # 0
        /\ boot' = [boot EXCEPT ![i] = p]
        /\ handed' = handed \cup {<<p, i>>}
        /\ UNCHANGED ram

\* list, info, read, sync, check and map read, or go to the disk's server.
ReadRequest == UNCHANGED <<ram, boot, handed>>

\* open gives the new session the first free slot, after the scan freed those
\* of the closed ones.
OpenSession(k, dead, asked) ==
    LET m == sess[k]
        mask == Narrowed(asked, m)
        free == {j \in VfsSession : sess[j] = {}} \cup dead
    IN  /\ mask # {} /\ free # {}
        /\ sess' = [j \in VfsSession |-> IF j = LowestOf(free) THEN mask ELSE IF j \in dead THEN {} ELSE sess[j]]
        /\ widened' = (widened \/ ~(mask \subseteq m))
        /\ ends' = [j \in VfsSession |-> IF j \in dead THEN Gone
                                      ELSE IF j = k THEN [ends[k] EXCEPT !.waits = FALSE] ELSE ends[j]]
        /\ UNCHANGED <<ram, boot, handed>>

VfsServe(k) ==
    LET dead == Dead(ScanOrder(k))
    IN  /\ k \in Found
        /\ scan' = k
        /\ passed' = [j \in VfsSession |-> IF j = k THEN 0
                                        ELSE IF ends[j].waits THEN passed[j] + 1 ELSE passed[j]]
        /\ \/ \E asked \in SUBSET ALL : OpenSession(k, dead, asked)
           \/ /\ sess' = [j \in VfsSession |-> IF j \in dead THEN {} ELSE sess[j]]
              /\ ends' = [j \in VfsSession |-> IF j \in dead THEN Gone
                                            ELSE IF j = k THEN [ends[k] EXCEPT !.waits = FALSE] ELSE ends[j]]
              /\ \/ TmpRequest(sess[k]) \/ ReadRequest
                 \/ \E p \in BootNames : StatBoot(sess[k], p)
              /\ UNCHANGED widened

VfsNext ==
    \/ Collect
    \/ \E k \in VfsSession : VfsSend(k) \/ VfsClose(k) \/ VfsServe(k)

VfsSpec == VfsInit /\ [][VfsNext]_vfsVars

----------------------------------------------------------------------------
(* Properties. *)

\* A session sees no mount its opener did not see; no request waits while
\* more than one of every other session is served; a name of /tmp stands for
\* one file, and every unit of a file written without gaps was written to
\* that file; an inode number given for a path of /boot stays with it.
VfsSound ==
    /\ ~widened
    /\ \A k \in VfsSession : passed[k] < VFS_CLIENTS
    /\ \A x \in TmpNames : \A i, j \in ram_find(x) : i = j
    /\ \A i \in 1 .. RAM_FILES :
           ram[i].used /\ ~ram[i].gap => 0 .. ram[i].size - 1 \subseteq ram[i].own
    /\ \A h \in handed : h[1] # ROOT => boot[h[2]] = h[1]

\* The number given for the mount itself stays with it too.  Not so: the
\* next new path takes the entry.
RootKeepsIno == \A h \in handed : boot[h[2]] = h[1]
=============================================================================
