------------------------------ MODULE ProcLife ------------------------------
(***************************************************************************)
(* The life of processes, their threads and a job (kernel/src/process.rs): *)
(* spawning a process and creating a thread, the exit of a thread and of a *)
(* process, waiting for a process, joining a job and being killed by it.   *)
(* System calls run with interrupts enabled, so each is cut into the steps *)
(* between its locks and atomics.  join is atomic here: a thread in "join" *)
(* goes on when the threads it waits for are dead (see Sched, JoinWaits).  *)
(***************************************************************************)
EXTENDS Integers, FiniteSets

CONSTANTS
    Process, ProcThread,
    OwnerOf,           \* the process a thread is of
    MainOf,            \* the main thread of a process
    Boot,              \* the process that exists to begin with
    Jobs,              \* processes in the job to begin with: {} or {Boot}
    Ops,               \* bound: the system calls threads make
    THREADS_MAX_PER_PROCESS,
    NoProc

Codes == {"zero", "code", "EXIT_KILLED"}

ASSUME ProcLifeAssumption ==
    /\ OwnerOf \in [ProcThread -> Process]
    /\ MainOf \in [Process -> ProcThread]
    /\ \A p \in Process : OwnerOf[MainOf[p]] = p
    /\ Boot \in Process
    /\ Jobs \subseteq {Boot}
    /\ THREADS_MAX_PER_PROCESS \in Nat
    /\ NoProc \notin Process

VARIABLES
    born,                       \* processes with a Process structure
    handed,                     \* processes whose handle spawn has returned
    procExited, procKilled, exitCode,   \* Process.exited, killed, exit_code
    job, members,               \* Process.job is the job; Job.members
    threads,                    \* Process.threads
    exitWaiters,                \* Process.exit_waiters
    procPc, arg, todo,              \* a thread: step, process concerned, work left
    endCode,                    \* the code of the exit that won
    got                         \* what the last process_wait returned

procVars == <<born, handed, procExited, procKilled, exitCode, job, members, threads, exitWaiters,
          procPc, arg, todo, endCode, got>>
proc == <<procExited, procKilled, exitCode, endCode>>
jobs == <<job, members>>

Pc == {"unborn", "user", "create", "list", "attach", "start", "main",
       "exit", "code", "unpark", "waiters", "wait", "lock", "blocked", "join",
       "result", "kill", "dead"}

ProcTypeOK ==
    /\ born \subseteq Process
    /\ handed \subseteq born
    /\ procExited \in [Process -> BOOLEAN]
    /\ procKilled \in [Process -> BOOLEAN]
    /\ exitCode \in [Process -> Codes]
    /\ job \in [Process -> BOOLEAN]
    /\ members \subseteq Process
    /\ threads \in [Process -> SUBSET ProcThread]
    /\ exitWaiters \in [Process -> SUBSET ProcThread]
    /\ procPc \in [ProcThread -> Pc]
    /\ arg \in [ProcThread -> Process \cup {NoProc}]
    /\ todo \in [ProcThread -> SUBSET (ProcThread \cup Process)]
    /\ endCode \in [Process -> Codes]
    /\ got \in [ProcThread -> Codes \cup {"none"}]
    /\ \A p \in Process : threads[p] \subseteq {t \in ProcThread : OwnerOf[t] = p}

ProcInit ==
    /\ born = {Boot}
    /\ handed = {Boot}
    /\ procExited = [p \in Process |-> FALSE]
    /\ procKilled = [p \in Process |-> FALSE]
    /\ exitCode = [p \in Process |-> "zero"]
    /\ job = [p \in Process |-> p \in Jobs]
    /\ members = Jobs
    /\ threads = [p \in Process |-> IF p = Boot THEN {MainOf[p]} ELSE {}]
    /\ exitWaiters = [p \in Process |-> {}]
    /\ procPc = [t \in ProcThread |-> IF t = MainOf[Boot] THEN "user" ELSE "unborn"]
    /\ arg = [t \in ProcThread |-> NoProc]
    /\ todo = [t \in ProcThread |-> {}]
    /\ endCode = [p \in Process |-> "zero"]
    /\ got = [t \in ProcThread |-> "none"]

-----------------------------------------------------------------------------
Me(t) == OwnerOf[t]
Of(p) == {t \in ProcThread : OwnerOf[t] = p}
ProcFinished(t) == procPc[t] = "dead"

\* A thread in user mode enters system call op.
Calls(t, op) == procPc[t] = "user" /\ ~ procKilled[Me(t)] /\ op \in Ops

ProcGoto(t, l) == procPc' = [procPc EXCEPT ![t] = l]
Unparked(S) == [u \in ProcThread |-> IF u \in S /\ procPc[u] = "blocked" THEN "wait" ELSE procPc[u]]

-----------------------------------------------------------------------------
(* create_user_thread: the limit is tested under the lock of the list, the *)
(* thread starts, and its creator adds it to the list.                     *)
LiveThreads(p) == {u \in threads[p] : ~ ProcFinished(u)}

ThreadCreate(t) ==
    /\ Calls(t, "thread_create")
    /\ Cardinality(LiveThreads(Me(t))) < THREADS_MAX_PER_PROCESS
    /\ ProcGoto(t, "create")
    /\ UNCHANGED <<born, handed, proc, jobs, threads, exitWaiters, arg, todo, got>>

StartThread(t) ==
    /\ procPc[t] = "create"
    /\ \E u \in Of(Me(t)) :
          /\ procPc[u] = "unborn"
          /\ procPc' = [procPc EXCEPT ![t] = "list", ![u] = "user"]
          /\ todo' = [todo EXCEPT ![t] = {u}]
    /\ UNCHANGED <<born, handed, proc, jobs, threads, exitWaiters, arg, got>>

ListThread(t) ==
    /\ procPc[t] = "list"
    /\ threads' = [threads EXCEPT ![Me(t)] = @ \cup todo[t]]
    /\ todo' = [todo EXCEPT ![t] = {}]
    /\ ProcGoto(t, "user")
    /\ UNCHANGED <<born, handed, proc, jobs, exitWaiters, arg, got>>

-----------------------------------------------------------------------------
(* spawn_elf_with_handles: the child inherits the job, is attached to it,  *)
(* enters TABLE, and its main thread starts before it is in the list.      *)
Spawn(t, p) ==
    /\ Calls(t, "spawn")
    /\ p \notin born
    /\ born' = born \cup {p}
    /\ job' = [job EXCEPT ![p] = job[Me(t)]]
    /\ arg' = [arg EXCEPT ![t] = p]
    /\ ProcGoto(t, IF job[Me(t)] THEN "attach" ELSE "start")
    /\ UNCHANGED <<handed, proc, members, threads, exitWaiters, todo, got>>

\* Job::attach
AttachChild(t) ==
    /\ procPc[t] = "attach"
    /\ members' = members \cup {arg[t]}
    /\ job' = [job EXCEPT ![arg[t]] = TRUE]
    /\ ProcGoto(t, "start")
    /\ UNCHANGED <<born, handed, proc, threads, exitWaiters, arg, todo, got>>

StartMain(t) ==
    /\ procPc[t] = "start"
    /\ procPc' = [procPc EXCEPT ![t] = "main", ![MainOf[arg[t]]] = "user"]
    /\ UNCHANGED <<born, handed, proc, jobs, threads, exitWaiters, arg, todo, got>>

ListMain(t) ==
    /\ procPc[t] = "main"
    /\ threads' = [threads EXCEPT ![arg[t]] = @ \cup {MainOf[arg[t]]}]
    /\ handed' = handed \cup {arg[t]}
    /\ arg' = [arg EXCEPT ![t] = NoProc]
    /\ ProcGoto(t, "user")
    /\ UNCHANGED <<born, proc, jobs, exitWaiters, todo, got>>

\* job_attach by a thread that holds both handles.
JobAttach(t, p) ==
    /\ Calls(t, "job_attach")
    /\ p \in handed
    /\ members' = members \cup {p}
    /\ job' = [job EXCEPT ![p] = TRUE]
    /\ UNCHANGED <<born, handed, proc, threads, exitWaiters, procPc, arg, todo, got>>

-----------------------------------------------------------------------------
(* Exits.                                                                  *)

\* Mutant: every thread that exits ends the process.
EnterExitAgain(t, c) ==
    /\ procExited' = [procExited EXCEPT ![Me(t)] = TRUE]
    /\ endCode' = [endCode EXCEPT ![Me(t)] = c]
    /\ ProcGoto(t, "code")

\* process::exit_current(c): the first thread to set `exited` ends the
\* process, any other only dies.
EnterExit(t, c) ==
    LET p == Me(t)
    IN IF procExited[p]
         THEN ProcGoto(t, "dead") /\ UNCHANGED <<procExited, endCode>>
         ELSE /\ procExited' = [procExited EXCEPT ![p] = TRUE]
              /\ endCode' = [endCode EXCEPT ![p] = c]
              /\ ProcGoto(t, "code")

\* thread_exit_current: the last thread of the list ends the process with 0.
ThreadExit(t) ==
    LET left == threads[Me(t)] \ {t}
    IN /\ Calls(t, "thread_exit")
       /\ threads' = [threads EXCEPT ![Me(t)] = left]
       /\ ProcGoto(t, IF left = {} THEN "exit" ELSE "dead")
       /\ UNCHANGED <<born, handed, proc, jobs, exitWaiters, arg, todo, got>>

LastExits(t) ==
    /\ procPc[t] = "exit"
    /\ EnterExit(t, "zero")
    /\ UNCHANGED <<born, handed, procKilled, exitCode, jobs, threads, exitWaiters, arg, todo, got>>

\* The exit system call, and the death of a killed thread at the entry or
\* the end of a system call.
ProcessExit(t) ==
    /\ Calls(t, "exit")
    /\ EnterExit(t, "code")
    /\ UNCHANGED <<born, handed, procKilled, exitCode, jobs, threads, exitWaiters, arg, todo, got>>

DieKilled(t) ==
    /\ procPc[t] = "user"
    /\ procKilled[Me(t)]
    /\ EnterExit(t, "EXIT_KILLED")
    /\ UNCHANGED <<born, handed, procKilled, exitCode, jobs, threads, exitWaiters, arg, todo, got>>

StoreCode(t) ==
    /\ procPc[t] = "code"
    /\ exitCode' = [exitCode EXCEPT ![Me(t)] = endCode[Me(t)]]
    /\ procKilled' = [procKilled EXCEPT ![Me(t)] = TRUE]
    /\ ProcGoto(t, "unpark")
    /\ UNCHANGED <<born, handed, procExited, endCode, jobs, threads, exitWaiters, arg, todo, got>>

\* The other threads are woken, under the lock of the list; the handles are
\* closed and the process leaves TABLE.
UnparkOthers(t) ==
    /\ procPc[t] = "unpark"
    /\ procPc' = [Unparked(threads[Me(t)] \ {t}) EXCEPT ![t] = "waiters"]
    /\ UNCHANGED <<born, handed, proc, jobs, threads, exitWaiters, arg, todo, got>>

\* Mutant: the waiters are taken and not woken.
WakeNoWaiter(t) ==
    /\ procPc[t] = "waiters"
    /\ procPc' = [Unparked({}) EXCEPT ![t] = "dead"]
    /\ exitWaiters' = [exitWaiters EXCEPT ![Me(t)] = {}]
    /\ UNCHANGED <<born, handed, proc, jobs, threads, arg, todo, got>>

WakeWaiters(t) ==
    /\ procPc[t] = "waiters"
    /\ procPc' = [Unparked(exitWaiters[Me(t)]) EXCEPT ![t] = "dead"]
    /\ exitWaiters' = [exitWaiters EXCEPT ![Me(t)] = {}]
    /\ UNCHANGED <<born, handed, proc, jobs, threads, arg, todo, got>>

-----------------------------------------------------------------------------
(* wait_process.                                                           *)
Wait(t, p) ==
    /\ Calls(t, "wait")
    /\ p \in handed \ {Me(t)}
    /\ arg' = [arg EXCEPT ![t] = p]
    /\ got' = [got EXCEPT ![t] = "none"]
    /\ ProcGoto(t, "wait")
    /\ UNCHANGED <<born, handed, proc, jobs, threads, exitWaiters, todo>>

WaitTop(t) ==
    /\ procPc[t] = "wait"
    /\ ProcGoto(t, IF procKilled[Me(t)] THEN "user" ELSE "lock")
    /\ arg' = IF procKilled[Me(t)] THEN [arg EXCEPT ![t] = NoProc] ELSE arg
    /\ UNCHANGED <<born, handed, proc, jobs, threads, exitWaiters, todo, got>>

\* Under the lock of exit_waiters: exited, or registered and parked.
WaitLocked(t) ==
    LET p == arg[t]
    IN /\ procPc[t] = "lock"
       /\ \/ /\ procExited[p]
             /\ ProcGoto(t, "join")
             /\ UNCHANGED exitWaiters
          \/ /\ ~ procExited[p]
             /\ exitWaiters' = [exitWaiters EXCEPT ![p] = @ \cup {t}]
             /\ ProcGoto(t, "blocked")
       /\ UNCHANGED <<born, handed, proc, jobs, threads, arg, todo, got>>

\* The list is copied and its threads are joined.
WaitCopy(t) ==
    /\ procPc[t] = "join"
    /\ todo' = [todo EXCEPT ![t] = threads[arg[t]]]
    /\ ProcGoto(t, "result")
    /\ UNCHANGED <<born, handed, proc, jobs, threads, exitWaiters, arg, got>>

WaitResult(t) ==
    /\ procPc[t] = "result"
    /\ \A u \in todo[t] : ProcFinished(u)
    /\ got' = [got EXCEPT ![t] = exitCode[arg[t]]]
    /\ todo' = [todo EXCEPT ![t] = {}]
    /\ ProcGoto(t, "user")
    /\ UNCHANGED <<born, handed, proc, jobs, threads, exitWaiters, arg>>

-----------------------------------------------------------------------------
(* Job::kill: the members are copied, then killed one by one.              *)
JobKill(t) ==
    /\ Calls(t, "job_kill")
    /\ members # {}
    /\ todo' = [todo EXCEPT ![t] = members]
    /\ arg' = [arg EXCEPT ![t] = NoProc]
    /\ ProcGoto(t, "kill")
    /\ UNCHANGED <<born, handed, proc, jobs, threads, exitWaiters, got>>

\* A member that exited or was killed before is passed over.
ProcKillMember(t, p) ==
    /\ procPc[t] = "kill"
    /\ arg[t] = NoProc
    /\ p \in todo[t]
    /\ IF procExited[p] \/ procKilled[p]
         THEN /\ todo' = [todo EXCEPT ![t] = @ \ {p}]
              /\ procPc' = IF todo[t] = {p} THEN [procPc EXCEPT ![t] = "user"] ELSE procPc
              /\ UNCHANGED <<procKilled, arg>>
         ELSE /\ procKilled' = [procKilled EXCEPT ![p] = TRUE]
              /\ arg' = [arg EXCEPT ![t] = p]
              /\ UNCHANGED <<todo, procPc>>
    /\ UNCHANGED <<born, handed, procExited, exitCode, endCode, jobs, threads, exitWaiters, got>>

ProcKillUnpark(t) ==
    /\ procPc[t] = "kill"
    /\ arg[t] # NoProc
    /\ todo' = [todo EXCEPT ![t] = @ \ {arg[t]}]
    /\ procPc' = [Unparked(threads[arg[t]]) EXCEPT
                 ![t] = IF todo[t] = {arg[t]} THEN "user" ELSE "kill"]
    /\ arg' = [arg EXCEPT ![t] = NoProc]
    /\ UNCHANGED <<born, handed, proc, jobs, threads, exitWaiters, got>>

-----------------------------------------------------------------------------
\* Steps a thread takes inside the kernel, and a killed one's next call.
Kernel(t) ==
    \/ StartThread(t) \/ ListThread(t) \/ AttachChild(t) \/ StartMain(t)
    \/ ListMain(t) \/ LastExits(t) \/ DieKilled(t) \/ StoreCode(t)
    \/ UnparkOthers(t) \/ WakeWaiters(t) \/ WaitTop(t) \/ WaitLocked(t)
    \/ WaitCopy(t) \/ WaitResult(t) \/ ProcKillUnpark(t)
    \/ \E p \in Process : ProcKillMember(t, p)

ProcCall(t) ==
    \/ ThreadCreate(t) \/ ThreadExit(t) \/ ProcessExit(t) \/ JobKill(t)
    \/ \E p \in Process : Spawn(t, p) \/ JobAttach(t, p) \/ Wait(t, p)

ProcNext == \E t \in ProcThread : Kernel(t) \/ ProcCall(t)

ProcSpec == ProcInit /\ [][ProcNext]_procVars

-----------------------------------------------------------------------------
\* exit_current: a process ends once, and its exit code is that of the exit
\* that won, stored before `killed` lets its other threads go.
ExitOnce ==
    \A p \in Process :
        /\ \A t, u \in {v \in Of(p) : procPc[v] \in {"code", "unpark", "waiters"}} : t = u
        /\ procExited[p] /\ procKilled[p] =>
              exitCode[p] = endCode[p] \/ \E t \in Of(p) : procPc[t] = "code"

\* No lost wake-up in wait_process: whoever is blocked on a process is
\* registered, and the process has not ended or its last thread is still to
\* wake the registered ones.
ProcWaitersServed ==
    \A t \in ProcThread : procPc[t] = "blocked" =>
        /\ t \in exitWaiters[arg[t]]
        /\ ~ procExited[arg[t]]
             \/ \E u \in Of(arg[t]) : procPc[u] \in {"code", "unpark", "waiters"}

\* wait_process on a process that never made a second thread returns the code
\* it ended with: exit_code is stored after `exited` is set, so that joining
\* the threads of the list is what makes the value certain.
WaitCode ==
    \A t \in ProcThread :
        LET p == arg[t]
        IN got[t] # "none" /\ procPc[t] = "user" /\ p # NoProc
             /\ (\A u \in Of(p) \ {MainOf[p]} : procPc[u] = "unborn")
           => got[t] = endCode[p]

\* A process ends once, with one code, and that is the code a wait returns.
ProcessEnds == ExitOnce /\ WaitCode

\* A thread blocked on a process that ended is released.
WaitReleased ==
    \A t \in ProcThread :
        (procPc[t] = "blocked" /\ procExited[arg[t]]) ~> procPc[t] # "blocked"

\* thread_exit: "a ultima viva termina o processo com 0": a process whose
\* threads are all dead has ended.
LastThreadEnds ==
    \A p \in born :
        (\A t \in Of(p) : procPc[t] \in {"unborn", "dead"}) /\ (\E t \in Of(p) : ProcFinished(t))
            => procExited[p]

\* "threads vivas do processo (a principal conta)" never exceed the limit.
ThreadLimit ==
    \A p \in Process :
        Cardinality({t \in Of(p) : procPc[t] \notin {"unborn", "dead"}})
            <= THREADS_MAX_PER_PROCESS

\* wait_process: "Garante que TODAS as threads terminaram de sair".
AllThreadsGone ==
    \A t \in ProcThread :
        got[t] # "none" /\ arg[t] # NoProc /\ procPc[t] = "user" =>
            \A u \in Of(arg[t]) : procPc[u] \in {"unborn", "dead"}
=============================================================================
