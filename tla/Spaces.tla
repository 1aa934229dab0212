------------------------------- MODULE Spaces -------------------------------
(***************************************************************************)
(* Address spaces: which one a CPU has loaded and what its TLB holds, from *)
(* the creation of a process to the drop of the last Arc<Process>, which   *)
(* gives the frame of the PML4 back for the next space.                    *)
(*                                                                         *)
(* A kernel thread is <<0, c>>, one for each CPU; a thread of process i is *)
(* <<i, k>>, k = 1 for the main one.  A TLB is the set of spaces of which  *)
(* it holds a translation (of the one shared page a process maps).         *)
(***************************************************************************)
EXTENDS Naturals

CONSTANTS SpCpus,      \* CPUs
          Roots,       \* frames that PML4s are taken from
          MaxSpaces,   \* bound: address spaces created
          Threaded,    \* bound: processes that map memory and create a thread
          Borrowers    \* bound: threads that look at the table of processes

ASSUME SpBounds == MaxSpaces \in Nat

KERNEL == 0                         \* the kernel's space, and its PML4
Ids == 1 .. MaxSpaces
UThreads == Ids \X {1, 2}
KThreads == {KERNEL} \X SpCpus

ASSUME SpRoots == KERNEL \notin Roots

VARIABLES nextSpace,   \* PROXIMO_ESPACO
          root,        \* the PML4 of each space, KERNEL when it does not exist
          page,        \* its shared page: "none", "mapped", "unmapped"
          arcs,        \* who has an Arc of the process
          spExited,    \* processes with `exited`
          spThr,       \* state of each thread
          doing,       \* what a thread is in the middle of
          cur, prev,   \* by CPU: running, prev_for_finish (or the running one)
          swLock,      \* the CPU that holds the scheduler's lock
          cr3, loaded, tlb,   \* by CPU; loaded is espaco_carregado
          ipi,         \* CPUs with a TLB_FLUSH on its way
          recycled     \* RECICLAGENS_PML4 > 0

spVars == <<nextSpace, root, page, arcs, spExited, spThr, doing, cur, prev, swLock,
            cr3, loaded, tlb, ipi, recycled>>
cpuVars == <<cr3, loaded, tlb>>
schedVars == <<spThr, cur, prev, swLock>>

NOCPU == "none"
LiveSpaces == {i \in Ids : root[i] # KERNEL}
FreeRoots == Roots \ {root[i] : i \in Ids}

SpInit ==
    /\ nextSpace = 1
    /\ root = [i \in Ids |-> KERNEL] /\ page = [i \in Ids |-> "none"]
    /\ arcs = [i \in Ids |-> {}] /\ spExited = {}
    /\ spThr = [t \in UThreads \union KThreads |->
                IF t \in KThreads THEN "running" ELSE "none"]
    /\ doing = [t \in UThreads \union KThreads |-> "run"]
    /\ cur = [c \in SpCpus |-> <<KERNEL, c>>] /\ prev = cur
    /\ swLock = NOCPU
    /\ cr3 = [c \in SpCpus |-> KERNEL] /\ loaded = [c \in SpCpus |-> KERNEL]
    /\ tlb = [c \in SpCpus |-> {}]
    /\ ipi = {} /\ recycled = FALSE

\* Thread t executes on CPU c, outside of a context switch.
On(c, t) == cur[c] = t /\ swLock # c
Runs(c, t) == On(c, t) /\ doing[t] = "run"

\* -------------------------------------------------- references to a process

\* The drop of AddressSpace, on CPU c.
Dropped(c, i) ==
    /\ root' = [root EXCEPT ![i] = KERNEL]
    /\ IF cr3[c] = root[i]
       THEN /\ cr3' = [cr3 EXCEPT ![c] = KERNEL]
            /\ loaded' = [loaded EXCEPT ![c] = KERNEL]
            /\ tlb' = [tlb EXCEPT ![c] = {}]
       ELSE UNCHANGED cpuVars

\* CPU c gives up the reference that h has to process i.
Release(c, i, h) ==
    /\ h \in arcs[i]
    /\ arcs' = [arcs EXCEPT ![i] = @ \ {h}]
    /\ IF arcs[i] = {h} THEN Dropped(c, i) ELSE UNCHANGED <<root, cpuVars>>

Arc(t) == <<"arc", t>>          \* a local of t: for_each_live, Job::kill
Stack(t) == <<"stack", t>>      \* a local that is never dropped
Handle == <<"handle", KERNEL>>
TABLE == <<"table", KERNEL>>

\* ---------------------------------------------------------------- processes

\* AddressSpace::new and the rest of spawn_elf_with_handles; the caller puts the
\* Arc into a handle.
SpawnElf(c, t) ==
    /\ Runs(c, t) /\ nextSpace <= MaxSpaces
    /\ \E r \in FreeRoots : root' = [root EXCEPT ![nextSpace] = r]
    /\ nextSpace' = nextSpace + 1
    /\ arcs' = [arcs EXCEPT ![nextSpace] = {TABLE, Handle, <<"thread", <<nextSpace, 1>>>>}]
    /\ spThr' = [spThr EXCEPT ![<<nextSpace, 1>>] = "ready"]
    /\ UNCHANGED <<page, spExited, doing, cur, prev, swLock, cpuVars, ipi, recycled>>

\* A segment that cannot be loaded: the space is dropped again.
SpawnFails(c, t) ==
    /\ Runs(c, t) /\ nextSpace <= MaxSpaces /\ FreeRoots # {}
    /\ nextSpace' = nextSpace + 1
    /\ UNCHANGED <<root, page, arcs, spExited, doing, schedVars, cpuVars, ipi, recycled>>

\* create_user_thread, by a thread of the process.
CreateThread(c, t) ==
    /\ Runs(c, t) /\ t \in UThreads
    /\ t[1] \in Threaded /\ spThr[<<t[1], 2>>] = "none"
    /\ spThr' = [spThr EXCEPT ![<<t[1], 2>>] = "ready"]
    /\ arcs' = [arcs EXCEPT ![t[1]] = @ \union {<<"thread", <<t[1], 2>>>>}]
    /\ UNCHANGED <<nextSpace, root, page, spExited, doing, cur, prev, swLock, cpuVars, ipi, recycled>>

\* exit_current: the first thread takes the process off TABLE; one that finds it
\* exited goes straight to the scheduler, with `p` on its stack.
ExitProcess(c, t) ==
    /\ Runs(c, t) /\ t \in UThreads
    /\ \A i \in Ids : Arc(t) \notin arcs[i]
    /\ doing' = [doing EXCEPT ![t] = "leave"]
    /\ spExited' = spExited \union {t[1]}
    /\ arcs' = [arcs EXCEPT ![t[1]] = IF t[1] \in spExited THEN @ \union {Stack(t)}
                                      ELSE @ \ {TABLE}]
    /\ UNCHANGED <<nextSpace, root, page, schedVars, cpuVars, ipi, recycled>>

\* thread_exit of a thread that is not the last of the list.
ExitThread(c, t) ==
    /\ Runs(c, t) /\ t \in UThreads
    /\ \A i \in Ids : Arc(t) \notin arcs[i]
    /\ \E u \in UThreads : u # t /\ u[1] = t[1] /\ spThr[u] # "none" /\ doing[u] # "quit"
    /\ doing' = [doing EXCEPT ![t] = "quit"]
    /\ UNCHANGED <<nextSpace, root, page, arcs, spExited, schedVars, cpuVars, ipi, recycled>>

\* for_each_live or Job::kill: an Arc of a process of the table, for a while.
Borrow(c, t) ==
    /\ Runs(c, t) /\ t \in Borrowers
    /\ \E i \in Ids : /\ TABLE \in arcs[i] /\ Arc(t) \notin arcs[i]
                      /\ arcs' = [arcs EXCEPT ![i] = @ \union {Arc(t)}]
    /\ UNCHANGED <<nextSpace, root, page, spExited, doing, schedVars, cpuVars, ipi, recycled>>

GiveBack(c, t) ==
    /\ Runs(c, t)
    /\ \E i \in Ids : Release(c, i, Arc(t))
    /\ UNCHANGED <<nextSpace, page, spExited, doing, schedVars, ipi, recycled>>

CloseHandle(c, t) ==
    /\ Runs(c, t)
    /\ \E i \in Ids : Release(c, i, Handle)
    /\ UNCHANGED <<nextSpace, page, spExited, doing, schedVars, ipi, recycled>>

\* ---------------------------------------------------------- context switches

\* schedule_locked: the space of the thread that comes in, by identity.
TargetLazy(c, n) == IF n \in KThreads THEN <<cr3[c], loaded[c]>> ELSE <<root[n[1]], n[1]>>

Target(c, n) == IF n \in KThreads THEN <<KERNEL, KERNEL>> ELSE <<root[n[1]], n[1]>>

Load(c, n) ==
    IF loaded[c] # Target(c, n)[2]
    THEN /\ recycled' = (recycled \/ cr3[c] = Target(c, n)[1])
         /\ cr3' = [cr3 EXCEPT ![c] = Target(c, n)[1]]
         /\ loaded' = [loaded EXCEPT ![c] = Target(c, n)[2]]
         /\ tlb' = [tlb EXCEPT ![c] = {}]
    ELSE UNCHANGED <<cpuVars, recycled>>

\* The thread on c goes back to the queue, or is dying; a kernel thread that is
\* left stays on its CPU.
SwitchTo(c, n) ==
    LET t == cur[c] IN
    /\ swLock = NOCPU /\ spThr[n] = "ready" /\ n \in UThreads \union {<<KERNEL, c>>}
    /\ \E s \in {"ready", "dying"} :
          /\ s = "dying" => doing[t] \in {"leave", "quit"}
          /\ spThr' = [spThr EXCEPT ![t] = s, ![n] = "running"]
    /\ cur' = [cur EXCEPT ![c] = n] /\ prev' = [prev EXCEPT ![c] = t]
    /\ swLock' = c
    /\ Load(c, n)
    /\ UNCHANGED <<nextSpace, root, page, arcs, spExited, doing, ipi>>

FinishSwitch(c) ==
    /\ swLock = c
    /\ spThr' = [spThr EXCEPT ![prev[c]] = IF @ = "dying" THEN "dead" ELSE @]
    /\ prev' = [prev EXCEPT ![c] = cur[c]]
    /\ swLock' = NOCPU
    /\ UNCHANGED <<nextSpace, root, page, arcs, spExited, doing, cur, cpuVars, ipi, recycled>>

\* reap takes the dead threads under the lock and drops them after it.
ReapTake(c) ==
    /\ Runs(c, <<KERNEL, c>>) /\ swLock = NOCPU
    /\ \E t \in UThreads : spThr[t] = "dead"
    /\ spThr' = [t \in DOMAIN spThr |-> IF spThr[t] = "dead" THEN "taken" ELSE spThr[t]]
    /\ UNCHANGED <<nextSpace, root, page, arcs, spExited, doing, cur, prev, swLock, cpuVars, ipi, recycled>>

ReapDrop(c) ==
    /\ Runs(c, <<KERNEL, c>>)
    /\ \E t \in UThreads : /\ spThr[t] = "taken"
                           /\ spThr' = [spThr EXCEPT ![t] = "gone"]
                           /\ Release(c, t[1], <<"thread", t>>)
    /\ UNCHANGED <<nextSpace, page, spExited, doing, cur, prev, swLock, ipi, recycled>>

\* ------------------------------------------------------------ the shared page

\* sys_memory_map: an address that was never used before.
MemoryMap(c, t) ==
    /\ Runs(c, t) /\ t \in UThreads /\ t[1] \in Threaded /\ page[t[1]] = "none"
    /\ page' = [page EXCEPT ![t[1]] = "mapped"]
    /\ UNCHANGED <<nextSpace, root, arcs, spExited, doing, schedVars, cpuVars, ipi, recycled>>

\* A user access: the CPU walks the tables of the PML4 in CR3.
Touch(c, t) ==
    /\ Runs(c, t) /\ t \in UThreads
    /\ \E i \in LiveSpaces : /\ root[i] = cr3[c] /\ page[i] = "mapped" /\ i \notin tlb[c]
                       /\ tlb' = [tlb EXCEPT ![c] = @ \union {i}]
    /\ UNCHANGED <<nextSpace, root, page, arcs, spExited, doing, schedVars, cr3, loaded, ipi, recycled>>

\* unmap_user_shared, with interrupts on: the entry of the table, invlpg, the
\* interrupt for the other CPUs.
UnmapEntry(c, t) ==
    /\ Runs(c, t) /\ t \in UThreads /\ page[t[1]] = "mapped"
    /\ page' = [page EXCEPT ![t[1]] = "unmapped"]
    /\ doing' = [doing EXCEPT ![t] = "invlpg"]
    /\ UNCHANGED <<nextSpace, root, arcs, spExited, schedVars, cpuVars, ipi, recycled>>

Invlpg(c, t) ==
    /\ On(c, t) /\ doing[t] = "invlpg"
    /\ tlb' = [tlb EXCEPT ![c] = @ \ {t[1]}]
    /\ doing' = [doing EXCEPT ![t] = "flush"]
    /\ UNCHANGED <<nextSpace, root, page, arcs, spExited, schedVars, cr3, loaded, ipi, recycled>>

flush_tlb_others(c, t) ==
    /\ On(c, t) /\ doing[t] = "flush"
    /\ ipi' = ipi \union (SpCpus \ {c})
    /\ doing' = [doing EXCEPT ![t] = "run"]
    /\ UNCHANGED <<nextSpace, root, page, arcs, spExited, schedVars, cpuVars, recycled>>

\* The handler of TLB_FLUSH; interrupts are off during a switch.
TlbFlush(c) ==
    /\ c \in ipi /\ swLock # c
    /\ tlb' = [tlb EXCEPT ![c] = {}]
    /\ ipi' = ipi \ {c}
    /\ UNCHANGED <<nextSpace, root, page, arcs, spExited, doing, schedVars, cr3, loaded, recycled>>

SpThread(c, t) ==
    \/ SpawnElf(c, t) \/ SpawnFails(c, t) \/ CreateThread(c, t) \/ ExitProcess(c, t) \/ ExitThread(c, t)
    \/ Borrow(c, t) \/ GiveBack(c, t) \/ CloseHandle(c, t)
    \/ MemoryMap(c, t) \/ Touch(c, t) \/ UnmapEntry(c, t) \/ Invlpg(c, t) \/ flush_tlb_others(c, t)

CpuStep(c) ==
    \/ \E n \in UThreads \union KThreads : SwitchTo(c, n)
    \/ FinishSwitch(c) \/ ReapTake(c) \/ ReapDrop(c) \/ TlbFlush(c)

SpNext == \E c \in SpCpus : CpuStep(c) \/ SpThread(c, cur[c])

SpSpec == SpInit /\ [][SpNext]_spVars

\* -------------------------------------------------------------- properties

SpTypeOK ==
    /\ nextSpace \in 1 .. MaxSpaces + 1
    /\ root \in [Ids -> Roots \union {KERNEL}]
    /\ page \in [Ids -> {"none", "mapped", "unmapped"}]
    /\ spExited \subseteq Ids
    /\ spThr \in [UThreads \union KThreads -> {"none", "ready", "running", "dying", "dead", "taken", "gone"}]
    /\ doing \in [UThreads \union KThreads -> {"run", "leave", "quit", "invlpg", "flush"}]
    /\ cur \in [SpCpus -> UThreads \union KThreads] /\ prev \in [SpCpus -> UThreads \union KThreads]
    /\ swLock \in SpCpus \union {NOCPU}
    /\ cr3 \in [SpCpus -> Roots \union {KERNEL}]
    /\ loaded \in [SpCpus -> Ids \union {KERNEL}]
    /\ tlb \in [SpCpus -> SUBSET Ids]
    /\ ipi \subseteq SpCpus
    /\ recycled \in BOOLEAN

\* "Comparar enderecos de PML4 so e correto por causa de uma invariante nao
\* declarada" (CHANGELOG.md:547).  This is the invariant: a CPU that runs a thread
\* of a process has the space of the process and translations of no other; no CPU
\* has a space that was dropped, whoever drops it; so a reload never meets the
\* frame it is about to load (RECICLAGENS_PML4 stays 0).
SpacesSound ==
    /\ \A c \in SpCpus :
          /\ cur[c] \in UThreads => loaded[c] = cur[c][1] /\ cr3[c] = root[cur[c][1]]
          /\ loaded[c] # KERNEL => loaded[c] \in LiveSpaces
          /\ cr3[c] = IF loaded[c] = KERNEL THEN KERNEL ELSE root[loaded[c]]
          /\ tlb[c] \subseteq {loaded[c]}
    /\ ~recycled

\* "limpa as PTEs e ainda faz shootdown de TLB nas outras CPUs, exatamente para
\* que a mudanca valha em todas elas" (usercopy.rs:7): a translation of an
\* unmapped page is left only where the flush is still on its way.
UnmapReaches ==
    \A c \in SpCpus : \A i \in tlb[c] :
        page[i] = "unmapped" =>
            \/ c \in ipi
            \/ \E t \in UThreads : t[1] = i /\ doing[t] \in {"invlpg", "flush"}

\* "Nenhum `Arc<Process>` pode ficar vivo nesta pilha: a thread nunca retorna"
\* (syscall.rs:948): once its threads are reaped and nobody refers to a process,
\* its space is gone.
SpaceGone ==
    \A i \in LiveSpaces : \E h \in arcs[i] : h[1] # "stack"
=============================================================================
