----------------------------- MODULE ProcProofs -----------------------------
(***************************************************************************)
(* The life of processes, for any number of processes and threads: the end *)
(* of a process, the code its waiters get and the waking of the waiters.   *)
(***************************************************************************)
EXTENDS ProcLife, TLAPS

-----------------------------------------------------------------------------
(* The life of processes.                                                  *)

ProcTypes ==
    /\ born \subseteq Process
    /\ handed \subseteq born
    /\ procExited \in [Process -> BOOLEAN]
    /\ procKilled \in [Process -> BOOLEAN]
    /\ exitCode \in [Process -> Codes]
    /\ endCode \in [Process -> Codes]
    /\ threads \in [Process -> SUBSET ProcThread]
    /\ exitWaiters \in [Process -> SUBSET ProcThread]
    /\ procPc \in [ProcThread -> Pc]
    /\ arg \in [ProcThread -> Process \cup {NoProc}]
    /\ got \in [ProcThread -> Codes \cup {"none"}]
    /\ members \subseteq Process
    /\ todo \in [ProcThread -> SUBSET (ProcThread \cup Process)]

Spawning == {"attach", "start", "main"}
Ending == {"code", "unpark", "waiters"}
Asking == {"wait", "lock", "blocked", "join", "result"}

\* A process is spawned by one thread, which starts its main thread; that one
\* is running before any other thread of the process.
Births ==
    /\ \A t \in ProcThread : procPc[t] # "unborn" =>
          OwnerOf[t] \in born /\ procPc[MainOf[OwnerOf[t]]] # "unborn"
    /\ \A t \in ProcThread : procPc[t] \in Spawning => arg[t] \in born \ handed
    /\ \A t, u \in ProcThread : procPc[t] \in {"attach", "start"} /\ OwnerOf[u] = arg[t] =>
          procPc[u] = "unborn"
    /\ \A t, u \in ProcThread : procPc[t] \in Spawning /\ procPc[u] \in Spawning =>
          t = u \/ arg[t] # arg[u]
    /\ \A t \in ProcThread : procPc[t] = "main" => procPc[MainOf[arg[t]]] # "unborn"

\* The threads of a list, and the one about to join it, have started.
Listed ==
    /\ \A p \in Process : \A u \in threads[p] : OwnerOf[u] = p /\ procPc[u] # "unborn"
    /\ \A t \in ProcThread : procPc[t] = "list" =>
          \A u \in todo[t] : /\ u \in ProcThread /\ OwnerOf[u] = OwnerOf[t]
                             /\ procPc[u] # "unborn" /\ u # MainOf[OwnerOf[t]]

\* One thread ends a process, and its code is the one of that exit from the
\* store on.
Ends ==
    /\ \A t, u \in ProcThread :
          procPc[t] \in Ending /\ procPc[u] \in Ending /\ OwnerOf[t] = OwnerOf[u] => t = u
    /\ \A t \in ProcThread : procPc[t] \in Ending => procExited[OwnerOf[t]]
    /\ \A p \in Process :
          IF procExited[p]
          THEN exitCode[p] = endCode[p] \/ \E t \in Of(p) : procPc[t] = "code"
          ELSE exitCode[p] = "zero" /\ endCode[p] = "zero"

\* A thread in wait_process.
WaitsOf(t) ==
    LET p == arg[t] IN
        /\ procPc[t] \in Asking => p \in handed /\ got[t] = "none"
        /\ procPc[t] \in {"join", "result"} => procExited[p]
        /\ procPc[t] = "result" /\ MainOf[p] \notin todo[t] => MainOf[p] \notin threads[p]
        /\ procPc[t] = "blocked" =>
              /\ t \in exitWaiters[p]
              /\ procExited[p] => \E u \in Of(p) : procPc[u] \in Ending

\* The process never made a second thread.
Alone(p) == \A u \in Of(p) : u # MainOf[p] => procPc[u] = "unborn"

\* Such a process ends with its main thread, and with 0 once that one has left
\* the list.
AloneEnds ==
    \A p \in Process : Alone(p) =>
        /\ procExited[p] => procPc[MainOf[p]] \in Ending \cup {"dead"}
        /\ p \in handed /\ MainOf[p] \notin threads[p] =>
              /\ procPc[MainOf[p]] \in Ending \cup {"exit", "dead"}
              /\ exitCode[p] = "zero" /\ endCode[p] = "zero"

\* What a wait returned is the code, of a process that has ended.
AnswersOf(t) ==
    LET p == arg[t] IN
        got[t] # "none" /\ p # NoProc /\ procPc[t] \notin Spawning \cup {"kill"} =>
            procExited[p] /\ (Alone(p) => got[t] = endCode[p])

ProcInv ==
    /\ ProcTypes /\ Births /\ Listed /\ Ends /\ AloneEnds
    /\ \A t \in ProcThread : WaitsOf(t) /\ AnswersOf(t)

\* Every process's main thread is one of its threads.
LEMMA ProcFacts ==
    /\ \A t \in ProcThread : OwnerOf[t] \in Process
    /\ \A p \in Process : /\ MainOf[p] \in ProcThread /\ OwnerOf[MainOf[p]] = p
                          /\ MainOf[p] \in Of(p) /\ p # NoProc
    /\ \A p : \A t : t \in Of(p) <=> t \in ProcThread /\ OwnerOf[t] = p
BY ProcLifeAssumption DEF Of

\* The steps of t that end, start, list and hand over nothing.
LEMMA QuietKeeps ==
    ASSUME ProcInv, ProcTypes', NEW t \in ProcThread,
           UNCHANGED <<born, handed, procExited, exitCode, endCode, threads>>,
           \A p \in Process : exitWaiters[p] \subseteq exitWaiters'[p],
           procPc[t] \notin {"unborn", "dead", "code"},
           procPc'[t] \notin {"unborn", "list", "main", "code"},
           procPc'[t] \in Ending <=> procPc[t] \in Ending,
           procPc'[t] \in {"attach", "start"} =>
               procPc[t] \in {"attach", "start"} /\ arg'[t] = arg[t],
           procPc[t] = "exit" => procPc'[t] = "dead",
           \A u \in ProcThread \ {t} :
               /\ arg'[u] = arg[u] /\ todo'[u] = todo[u] /\ got'[u] = got[u]
               /\ procPc'[u] = procPc[u] \/ (procPc[u] = "blocked" /\ procPc'[u] = "wait"),
           WaitsOf(t)', AnswersOf(t)'
    PROVE  ProcInv'
<1>1. \A u \in ProcThread : /\ procPc'[u] = "unborn" <=> procPc[u] = "unborn"
                            /\ procPc'[u] = "code" <=> procPc[u] = "code"
                            /\ procPc'[u] \in Ending <=> procPc[u] \in Ending
                            /\ procPc'[u] = "list" => procPc[u] = "list" /\ todo'[u] = todo[u]
                            /\ procPc'[u] = "main" => procPc[u] = "main" /\ arg'[u] = arg[u]
                            /\ procPc'[u] \in {"attach", "start"} =>
                                  procPc[u] \in {"attach", "start"} /\ arg'[u] = arg[u]
  BY DEF Ending
<1>2. Births'
  BY <1>1, ProcFacts DEF ProcInv, ProcTypes, Births, Spawning
<1>3. Listed'
  BY <1>1 DEF ProcInv, ProcTypes, Listed
<1>4. Ends'
  BY <1>1, ProcFacts DEF ProcInv, Ends
<1>5. \A p \in Process : Alone(p)' <=> Alone(p)
  BY <1>1, ProcFacts DEF Alone
<1>6. AloneEnds'
  <2> SUFFICES ASSUME NEW p \in Process, Alone(p)
               PROVE  /\ procExited[p] => procPc'[MainOf[p]] \in Ending \cup {"dead"}
                      /\ p \in handed /\ MainOf[p] \notin threads[p] =>
                            /\ procPc'[MainOf[p]] \in Ending \cup {"exit", "dead"}
                            /\ exitCode[p] = "zero" /\ endCode[p] = "zero"
    BY <1>5 DEF AloneEnds
  <2>1. /\ procExited[p] => procPc[MainOf[p]] \in Ending \cup {"dead"}
        /\ p \in handed /\ MainOf[p] \notin threads[p] =>
              /\ procPc[MainOf[p]] \in Ending \cup {"exit", "dead"}
              /\ exitCode[p] = "zero" /\ endCode[p] = "zero"
    BY DEF ProcInv, AloneEnds
  <2> QED
    BY <1>1, <2>1, ProcFacts DEF Ending
<1>7. \A u \in ProcThread : WaitsOf(u)' /\ AnswersOf(u)'
  <2> SUFFICES ASSUME NEW u \in ProcThread, u # t PROVE WaitsOf(u)' /\ AnswersOf(u)'
    OBVIOUS
  <2>1. WaitsOf(u) /\ AnswersOf(u)
    BY DEF ProcInv
  <2>2. arg[u] \in Process \cup {NoProc} /\ handed \subseteq Process
    BY DEF ProcInv, ProcTypes
  <2>3. WaitsOf(u)'
    BY <1>1, <2>1, <2>2 DEF WaitsOf, Asking, Of
  <2>4. AnswersOf(u)'
    BY <1>5, <2>1, <2>2 DEF AnswersOf, Spawning
  <2> QED
    BY <2>3, <2>4
<1> QED
  BY <1>2, <1>3, <1>4, <1>6, <1>7 DEF ProcInv

\* Thread t goes on to b, with process q, work w and answer g; others are woken
\* at most.
Quiet(t, b, q, w, g) ==
    /\ UNCHANGED <<born, handed, procExited, exitCode, endCode, threads>>
    /\ procKilled' \in [Process -> BOOLEAN] /\ members' \subseteq Process
    /\ exitWaiters' \in [Process -> SUBSET ProcThread]
    /\ \A p \in Process : exitWaiters[p] \subseteq exitWaiters'[p]
    /\ \/ procPc' = [procPc EXCEPT ![t] = b]
       \/ \E S : procPc' = [Unparked(S) EXCEPT ![t] = b]
    /\ arg' = [arg EXCEPT ![t] = q] /\ todo' = [todo EXCEPT ![t] = w]
    /\ got' = [got EXCEPT ![t] = g]

\* Such a step is from and to places where nothing starts or ends, and what t
\* knows is still so.
QuietPlace(t, b, q, w, g) ==
    /\ b \in Pc /\ q \in Process \cup {NoProc} /\ g \in Codes \cup {"none"}
    /\ w \subseteq ProcThread \cup Process
    /\ procPc[t] \notin {"unborn", "dead", "code", "exit"}
    /\ b \notin {"unborn", "list", "main", "code"}
    /\ b \in Ending <=> procPc[t] \in Ending
    /\ b \in {"attach", "start"} => procPc[t] \in {"attach", "start"} /\ q = arg[t]
    /\ \/ b \notin Asking
       \/ q \in handed /\ g = "none" /\ b \in {"wait", "lock"}
       \/ q \in handed /\ g = "none" /\ b = "join" /\ procExited[q]
       \/ q \in handed /\ g = "none" /\ b = "result" /\ procExited[q] /\ w = threads[q]
       \/ q \in handed /\ g = "none" /\ b = "blocked" /\ ~ procExited[q] /\ t \in exitWaiters'[q]
    /\ \/ q = NoProc \/ g = "none" \/ b = "kill" \/ b \in Spawning
       \/ procPc[t] \notin Spawning \cup {"kill"} /\ q = arg[t] /\ g = got[t]
       \/ procExited[q] /\ (Alone(q) => g = endCode[q])

\* The step of a thread that goes on to b, with its own process, work and answer.
LEMMA QuietSteps ==
    ASSUME ProcInv, NEW t \in ProcThread,
           \/ ThreadCreate(t) \/ AttachChild(t) \/ WaitTop(t) \/ WaitCopy(t) \/ WaitResult(t)
           \/ JobKill(t) \/ WaitLocked(t) \/ ProcKillUnpark(t) \/ UnparkOthers(t)
           \/ \E p \in Process : JobAttach(t, p) \/ Wait(t, p) \/ ProcKillMember(t, p)
    PROVE  ProcInv'
<1>0. /\ procPc \in [ProcThread -> Pc] /\ arg \in [ProcThread -> Process \cup {NoProc}]
      /\ got \in [ProcThread -> Codes \cup {"none"}]
      /\ todo \in [ProcThread -> SUBSET (ProcThread \cup Process)] /\ members \subseteq Process
      /\ threads \in [Process -> SUBSET ProcThread]
      /\ exitWaiters \in [Process -> SUBSET ProcThread] /\ procKilled \in [Process -> BOOLEAN]
      /\ WaitsOf(t) /\ AnswersOf(t) /\ handed \subseteq Process
  BY DEF ProcInv, ProcTypes
<1>1. ASSUME NEW b, NEW q, NEW w, NEW g, Quiet(t, b, q, w, g), QuietPlace(t, b, q, w, g)
      PROVE  ProcInv'
  <2>1. /\ procPc' \in [ProcThread -> Pc] /\ procPc'[t] = b
        /\ \A u \in ProcThread \ {t} :
              procPc'[u] = procPc[u] \/ (procPc[u] = "blocked" /\ procPc'[u] = "wait")
    <3>1. b \in Pc /\ "wait" \in Pc
      BY <1>1 DEF QuietPlace, Pc
    <3>2. CASE procPc' = [procPc EXCEPT ![t] = b]
      BY <1>0, <3>1, <3>2
    <3>3. ASSUME NEW S, procPc' = [Unparked(S) EXCEPT ![t] = b]
          PROVE  /\ procPc' \in [ProcThread -> Pc] /\ procPc'[t] = b
                 /\ \A u \in ProcThread \ {t} :
                       procPc'[u] = procPc[u] \/ (procPc[u] = "blocked" /\ procPc'[u] = "wait")
      BY <1>0, <3>1, <3>3 DEF Unparked
    <3> QED
      BY <1>1, <3>2, <3>3 DEF Quiet
  <2>2. /\ arg' \in [ProcThread -> Process \cup {NoProc}] /\ arg'[t] = q
        /\ \A u \in ProcThread \ {t} : arg'[u] = arg[u]
    BY <1>0, <1>1, Zenon DEF Quiet, QuietPlace
  <2>3. /\ got' \in [ProcThread -> Codes \cup {"none"}] /\ got'[t] = g
        /\ \A u \in ProcThread \ {t} : got'[u] = got[u]
    BY <1>0, <1>1, Zenon DEF Quiet, QuietPlace
  <2>4. /\ todo' \in [ProcThread -> SUBSET (ProcThread \cup Process)] /\ todo'[t] = w
        /\ \A u \in ProcThread \ {t} : todo'[u] = todo[u]
    BY <1>0, <1>1, Zenon DEF Quiet, QuietPlace
  <2>5. ProcTypes'
    BY <1>1, <2>1, <2>2, <2>3, <2>4, Zenon DEF Quiet, ProcInv, ProcTypes
  <2>6. WaitsOf(t)'
    BY <1>0, <1>1, <2>1, <2>2, <2>3, <2>4 DEF Quiet, QuietPlace, WaitsOf, Asking
  <2>7. \A p : Alone(p)' => Alone(p)
    BY <1>1, <2>1, ProcFacts DEF QuietPlace, Alone
  <2>8. AnswersOf(t)'
    BY <1>0, <1>1, <2>1, <2>2, <2>3, <2>7 DEF Quiet, QuietPlace, AnswersOf
  <2>9. /\ procPc[t] \notin {"unborn", "dead", "code"} /\ procPc[t] # "exit"
        /\ procPc'[t] \notin {"unborn", "list", "main", "code"}
        /\ procPc'[t] \in Ending <=> procPc[t] \in Ending
        /\ procPc'[t] \in {"attach", "start"} =>
               procPc[t] \in {"attach", "start"} /\ arg'[t] = arg[t]
    BY <1>1, <2>1, <2>2, Zenon DEF QuietPlace
  <2>10. \A u \in ProcThread \ {t} :
            /\ arg'[u] = arg[u] /\ todo'[u] = todo[u] /\ got'[u] = got[u]
            /\ procPc'[u] = procPc[u] \/ (procPc[u] = "blocked" /\ procPc'[u] = "wait")
    BY <2>1, <2>2, <2>3, <2>4, Zenon
  <2> QED
    <3>1. /\ UNCHANGED <<born, handed, procExited, exitCode, endCode, threads>>
          /\ \A p \in Process : exitWaiters[p] \subseteq exitWaiters'[p]
      BY <1>1 DEF Quiet
    <3> QED
      BY <2>5, <2>6, <2>8, <2>9, <2>10, <3>1, QuietKeeps, ZenonT(30)
<1>2. /\ arg = [arg EXCEPT ![t] = arg[t]] /\ arg[t] \in Process \cup {NoProc}
      /\ got = [got EXCEPT ![t] = got[t]] /\ got[t] \in Codes \cup {"none"}
      /\ todo = [todo EXCEPT ![t] = todo[t]] /\ todo[t] \subseteq ProcThread \cup Process
      /\ procPc = [procPc EXCEPT ![t] = procPc[t]]
      /\ procPc[t] \in Pc /\ \A p \in Process : exitWaiters[p] \subseteq exitWaiters[p]
  BY <1>0
<1>3. CASE ThreadCreate(t)
  <2>1. Quiet(t, "create", arg[t], todo[t], got[t])
    BY <1>0, <1>2, <1>3 DEF Quiet, ProcGoto, ThreadCreate, proc, jobs
  <2>2. QuietPlace(t, "create", arg[t], todo[t], got[t])
    BY <1>2, <1>3 DEF QuietPlace, ThreadCreate, Calls, Pc, Ending, Asking, Spawning
  <2> QED
    BY <1>1, <2>1, <2>2, Zenon
<1>4. CASE AttachChild(t)
  <2>1. Quiet(t, "start", arg[t], todo[t], got[t])
    <3>1. arg[t] \in Process
      BY <1>4, Zenon DEF AttachChild, ProcInv, ProcTypes, Births, Spawning
    <3> QED
      BY <1>0, <1>2, <1>4, <3>1 DEF Quiet, ProcGoto, AttachChild, proc
  <2>2. QuietPlace(t, "start", arg[t], todo[t], got[t])
    BY <1>2, <1>4 DEF QuietPlace, AttachChild, Pc, Ending, Asking, Spawning
  <2> QED
    BY <1>1, <2>1, <2>2
<1>5. CASE WaitTop(t)
  <2> DEFINE b == IF procKilled[OwnerOf[t]] THEN "user" ELSE "lock"
             q == IF procKilled[OwnerOf[t]] THEN NoProc ELSE arg[t]
  <2>1. Quiet(t, b, q, todo[t], got[t])
    BY <1>0, <1>2, <1>5, Zenon DEF Quiet, ProcGoto, WaitTop, Me, proc, jobs
  <2>2. QuietPlace(t, b, q, todo[t], got[t])
    BY <1>0, <1>2, <1>5, Zenon DEF QuietPlace, WaitTop, WaitsOf, Pc, Ending, Asking, Spawning
  <2> HIDE DEF b, q
  <2> QED
    BY <1>1, <2>1, <2>2
<1>6. CASE WaitCopy(t)
  <2>1. Quiet(t, "result", arg[t], threads[arg[t]], got[t])
    BY <1>0, <1>2, <1>6 DEF Quiet, ProcGoto, WaitCopy, proc, jobs
  <2>2. QuietPlace(t, "result", arg[t], threads[arg[t]], got[t])
    BY <1>0, <1>2, <1>6, Zenon DEF QuietPlace, WaitCopy, WaitsOf, Pc, Ending, Asking, Spawning
  <2> QED
    BY <1>1, <2>1, <2>2, Zenon
<1>7. CASE JobKill(t)
  <2>1. Quiet(t, "kill", NoProc, members, got[t])
    BY <1>0, <1>2, <1>7 DEF Quiet, ProcGoto, JobKill, proc, jobs
  <2>2. QuietPlace(t, "kill", NoProc, members, got[t])
    BY <1>0, <1>2, <1>7, Zenon DEF QuietPlace, JobKill, Calls, Pc, Ending, Asking, Spawning
  <2> QED
    BY <1>1, <2>1, <2>2
<1>8. CASE WaitLocked(t)
  <2>1. arg[t] \in handed /\ got[t] = "none" /\ procPc[t] = "lock"
    BY <1>0, <1>8, Zenon DEF WaitLocked, WaitsOf, Asking
  <2>2. CASE procExited[arg[t]]
    <3>1. Quiet(t, "join", arg[t], todo[t], got[t])
      BY <1>0, <1>2, <1>8, <2>2 DEF Quiet, ProcGoto, WaitLocked, proc, jobs
    <3>2. QuietPlace(t, "join", arg[t], todo[t], got[t])
      BY <1>2, <2>1, <2>2 DEF QuietPlace, Pc, Ending, Asking
    <3> QED
      BY <1>1, <3>1, <3>2, Zenon
  <2>3. CASE ~ procExited[arg[t]]
    <3>1. exitWaiters' = [exitWaiters EXCEPT ![arg[t]] = @ \cup {t}]
      BY <1>8, <2>3, Zenon DEF WaitLocked
    <3>2. /\ exitWaiters' \in [Process -> SUBSET ProcThread] /\ t \in exitWaiters'[arg[t]]
          /\ \A p \in Process : exitWaiters[p] \subseteq exitWaiters'[p]
      BY <1>0, <2>1, <3>1
    <3>3. Quiet(t, "blocked", arg[t], todo[t], got[t])
      BY <1>0, <1>2, <1>8, <2>3, <3>2 DEF Quiet, ProcGoto, WaitLocked, proc, jobs
    <3>4. QuietPlace(t, "blocked", arg[t], todo[t], got[t])
      BY <1>2, <2>1, <2>3, <3>2 DEF QuietPlace, Pc, Ending, Asking
    <3> QED
      BY <1>1, <3>3, <3>4, Zenon
  <2> QED
    BY <2>2, <2>3, Zenon
<1>9. CASE ProcKillUnpark(t)
  <2> DEFINE b == IF todo[t] = {arg[t]} THEN "user" ELSE "kill"
             w == todo[t] \ {arg[t]}
  <2>1. Quiet(t, b, NoProc, w, got[t])
    BY <1>0, <1>2, <1>9, Zenon DEF Quiet, ProcGoto, ProcKillUnpark, proc, jobs
  <2>2. QuietPlace(t, b, NoProc, w, got[t])
    BY <1>2, <1>9, Zenon DEF QuietPlace, ProcKillUnpark, Pc, Ending, Asking, Spawning
  <2> HIDE DEF b, w
  <2> QED
    BY <1>1, <2>1, <2>2
<1>10. CASE UnparkOthers(t)
  <2>1. Quiet(t, "waiters", arg[t], todo[t], got[t])
    BY <1>0, <1>2, <1>10, Zenon DEF Quiet, ProcGoto, UnparkOthers, proc, jobs
  <2>2. QuietPlace(t, "waiters", arg[t], todo[t], got[t])
    BY <1>2, <1>10 DEF QuietPlace, UnparkOthers, Pc, Ending, Asking, Spawning
  <2> QED
    BY <1>1, <2>1, <2>2, Zenon
<1>11. ASSUME NEW p \in Process, JobAttach(t, p)
       PROVE  ProcInv'
  <2>1. Quiet(t, "user", arg[t], todo[t], got[t])
    BY <1>0, <1>2, <1>11 DEF Quiet, ProcGoto, JobAttach, Calls, proc
  <2>2. QuietPlace(t, "user", arg[t], todo[t], got[t])
    BY <1>2, <1>11 DEF QuietPlace, JobAttach, Calls, Pc, Ending, Asking, Spawning
  <2> QED
    BY <1>1, <2>1, <2>2, Zenon
<1>12. ASSUME NEW p \in Process, Wait(t, p)
       PROVE  ProcInv'
  <2>1. Quiet(t, "wait", p, todo[t], "none")
    BY <1>0, <1>2, <1>12 DEF Quiet, ProcGoto, Wait, proc, jobs
  <2>2. QuietPlace(t, "wait", p, todo[t], "none")
    BY <1>2, <1>12 DEF QuietPlace, Wait, Calls, Pc, Ending, Asking
  <2> QED
    BY <1>1, <2>1, <2>2
<1>13. ASSUME NEW p \in Process, ProcKillMember(t, p)
       PROVE  ProcInv'
  <2>1. CASE procExited[p] \/ procKilled[p]
    <3> DEFINE b == IF todo[t] = {p} THEN "user" ELSE procPc[t]
               w == todo[t] \ {p}
    <3>1. Quiet(t, b, arg[t], w, got[t])
      BY <1>0, <1>2, <1>13, <2>1 DEF Quiet, ProcGoto, ProcKillMember, jobs
    <3>2. QuietPlace(t, b, arg[t], w, got[t])
      BY <1>2, <1>13, Zenon DEF QuietPlace, ProcKillMember, Pc, Ending, Asking, Spawning
    <3> HIDE DEF b, w
    <3> QED
      BY <1>1, <3>1, <3>2, Zenon
  <2>2. CASE ~ (procExited[p] \/ procKilled[p])
    <3>1. procKilled' \in [Process -> BOOLEAN]
      BY <1>0, <1>13, <2>2, Zenon DEF ProcKillMember
    <3>2. Quiet(t, procPc[t], p, todo[t], got[t])
      BY <1>0, <1>2, <1>13, <2>2, <3>1, Zenon DEF Quiet, ProcGoto, ProcKillMember, jobs
    <3>3. QuietPlace(t, procPc[t], p, todo[t], got[t])
      BY <1>2, <1>13, Zenon DEF QuietPlace, ProcKillMember, Pc, Ending, Asking, Spawning
    <3> QED
      BY <1>1, <3>2, <3>3, Zenon
  <2> QED
    BY <2>1, <2>2, Zenon
<1>14. CASE WaitResult(t)
  <2> DEFINE p == arg[t]
  <2>1. /\ p \in handed /\ p \in Process /\ procExited[p] /\ procPc[t] = "result"
        /\ MainOf[p] \notin todo[t] => MainOf[p] \notin threads[p]
    BY <1>0, <1>14, Zenon DEF WaitResult, WaitsOf, Asking
  <2>2. Alone(p) => exitCode[p] = endCode[p]
    <3> SUFFICES ASSUME Alone(p) PROVE exitCode[p] = endCode[p]
      BY Zenon
    <3>1. CASE MainOf[p] \in todo[t]
      <4>1. procPc[MainOf[p]] = "dead"
        BY <1>14, <3>1, Zenon DEF WaitResult, ProcFinished
      <4>2. \A u \in Of(p) : procPc[u] # "code"
        BY <4>1, Zenon DEF Alone
      <4> QED
        BY <2>1, <4>2, Zenon DEF ProcInv, Ends
    <3>2. CASE MainOf[p] \notin todo[t]
      BY <2>1, <3>2, Zenon DEF ProcInv, AloneEnds
    <3> QED
      BY <3>1, <3>2, Zenon
  <2>3. exitCode[p] \in Codes
    BY <2>1, Zenon DEF ProcInv, ProcTypes
  <2>4. Quiet(t, "user", p, {}, exitCode[p])
    BY <1>0, <1>2, <1>14, Zenon DEF Quiet, ProcGoto, WaitResult, proc, jobs
  <2>5. QuietPlace(t, "user", p, {}, exitCode[p])
    BY <2>1, <2>2, <2>3, Zenon DEF QuietPlace, Pc, Ending, Asking
  <2> QED
    BY <1>1, <2>4, <2>5, Zenon
<1> QED
  BY <1>3, <1>4, <1>5, <1>6, <1>7, <1>8, <1>9, <1>10, <1>11, <1>12, <1>13, <1>14

\* A thread the step does not move still waits and knows as before.
LEMMA StillHolds ==
    ASSUME ProcInv, NEW u \in ProcThread, procPc'[u] = procPc[u],
           arg'[u] = arg[u], todo'[u] = todo[u], got'[u] = got[u], handed \subseteq handed',
           \A p \in Process : procExited[p] => procExited'[p] /\ endCode'[p] = endCode[p],
           \A p \in Process : Alone(p)' => Alone(p),
           \A p \in handed : MainOf[p] \notin threads[p] => MainOf[p] \notin threads'[p],
           procPc[u] = "blocked" =>
               /\ u \in exitWaiters'[arg[u]]
               /\ procExited'[arg[u]] => \E v \in Of(arg[u]) : procPc'[v] \in Ending
    PROVE  WaitsOf(u)' /\ AnswersOf(u)'
<1>1. WaitsOf(u) /\ AnswersOf(u)
  BY Zenon DEF ProcInv
<1>2. arg[u] \in Process \cup {NoProc} /\ handed \subseteq Process
  BY Zenon DEF ProcInv, ProcTypes
<1>3. WaitsOf(u)'
  BY <1>1, <1>2, Zenon DEF WaitsOf, Asking, Of
<1>4. AnswersOf(u)'
  BY <1>1, <1>2, Zenon DEF AnswersOf
<1> QED
  BY <1>3, <1>4, Zenon

\* The start of a thread.
LEMMA StartKeeps ==
    ASSUME ProcInv, NEW t \in ProcThread, NEW v \in ProcThread, NEW b \in {"list", "main"},
           procPc[v] = "unborn", procPc' = [procPc EXCEPT ![t] = b, ![v] = "user"],
           UNCHANGED <<born, handed, procExited, procKilled, exitCode, endCode, members, threads,
                       exitWaiters, arg, got>>,
           \/ /\ b = "list" /\ procPc[t] = "create" /\ OwnerOf[v] = OwnerOf[t]
              /\ todo' = [todo EXCEPT ![t] = {v}]
           \/ /\ b = "main" /\ procPc[t] = "start" /\ v = MainOf[arg[t]]
              /\ UNCHANGED todo
    PROVE  ProcInv'
<1>0. /\ procPc \in [ProcThread -> Pc] /\ todo \in [ProcThread -> SUBSET (ProcThread \cup Process)]
      /\ handed \subseteq Process /\ born \subseteq Process
  BY DEF ProcInv, ProcTypes
<1>1. /\ procPc'[t] = b /\ procPc'[v] = "user" /\ v # t
      /\ \A u \in ProcThread \ {t, v} : procPc'[u] = procPc[u]
  BY <1>0
<1>2. (\A u \in ProcThread \ {t} : todo'[u] = todo[u]) /\ (b = "list" => todo'[t] = {v})
  BY <1>0
<1>12. \A u \in ProcThread : procPc[u] # "unborn" => procPc'[u] # "unborn"
  BY <1>1, Zenon
<1>3. ProcTypes'
  <2>1. procPc' \in [ProcThread -> Pc] /\ todo' \in [ProcThread -> SUBSET (ProcThread \cup Process)]
    BY <1>0 DEF Pc
  <2> QED
    BY <2>1, Zenon DEF ProcInv, ProcTypes
<1>4. b = "list" => v # MainOf[OwnerOf[t]] /\ OwnerOf[t] \in born
  BY Zenon DEF ProcInv, Births
<1>5. b = "main" => arg[t] \in born /\ arg[t] \in Process /\ OwnerOf[v] = arg[t]
  BY <1>0, ProcFacts, Zenon DEF ProcInv, Births, Spawning
<1>6. Births'
  <2>1. ASSUME NEW u \in ProcThread, procPc'[u] # "unborn"
        PROVE  OwnerOf[u] \in born /\ procPc'[MainOf[OwnerOf[u]]] # "unborn"
    <3>1. CASE procPc[u] # "unborn"
      BY <1>12, <3>1, ProcFacts, Zenon DEF ProcInv, Births
    <3>2. CASE u = v /\ b = "list"
      <4>1. OwnerOf[v] = OwnerOf[t] /\ procPc[t] # "unborn"
        BY <3>2, Zenon
      <4>2. procPc[MainOf[OwnerOf[t]]] # "unborn" /\ MainOf[OwnerOf[t]] \in ProcThread
        BY <4>1, ProcFacts, Zenon DEF ProcInv, Births
      <4> QED
        BY <1>4, <1>12, <3>2, <4>1, <4>2, Zenon
    <3>3. CASE u = v /\ b = "main"
      BY <1>1, <1>5, <3>3, Zenon
    <3>4. u = v \/ procPc[u] # "unborn"
      BY <1>1, <2>1, Zenon
    <3> QED
      BY <3>1, <3>2, <3>3, <3>4
  <2>2. \A s, u \in ProcThread : procPc'[s] \in {"attach", "start"} /\ OwnerOf[u] = arg[s] =>
            procPc'[u] = "unborn"
    <3> SUFFICES ASSUME NEW s \in ProcThread, NEW u \in ProcThread,
                        procPc'[s] \in {"attach", "start"}, OwnerOf[u] = arg[s]
                 PROVE  procPc'[u] = "unborn"
      BY Zenon
    <3>1. s # t /\ s # v /\ procPc[s] \in {"attach", "start"}
      BY <1>1, Zenon
    <3>2. \A x \in ProcThread : OwnerOf[x] = arg[s] => procPc[x] = "unborn"
      BY <3>1, Zenon DEF ProcInv, Births
    <3>3. u # t
      BY <3>2
    <3>4. CASE u = v /\ b = "list"
      BY <3>2, <3>4
    <3>5. CASE u = v /\ b = "main"
      BY <1>5, <3>1, <3>5, Zenon DEF ProcInv, Births, Spawning
    <3> QED
      BY <1>1, <3>2, <3>3, <3>4, <3>5, Zenon
  <2>3. \A s, u \in ProcThread : procPc'[s] \in Spawning /\ procPc'[u] \in Spawning =>
            s = u \/ arg[s] # arg[u]
    <3>1. \A s \in ProcThread : procPc'[s] \in Spawning => procPc[s] \in Spawning
      BY <1>1, Zenon DEF Spawning
    <3> QED
      BY <3>1, Zenon DEF ProcInv, Births
  <2>4. \A s \in ProcThread : procPc'[s] \in Spawning => arg[s] \in born \ handed
    BY <1>1, Zenon DEF ProcInv, Births, Spawning
  <2>5. \A s \in ProcThread : procPc'[s] = "main" => procPc'[MainOf[arg[s]]] # "unborn"
    <3> SUFFICES ASSUME NEW s \in ProcThread, procPc'[s] = "main"
                 PROVE  procPc'[MainOf[arg[s]]] # "unborn"
      BY Zenon
    <3>1. CASE s = t
      BY <1>1, <3>1
    <3>2. CASE s # t
      <4>1. procPc[s] = "main" /\ arg[s] \in Process
        BY <1>0, <1>1, <3>2, Zenon DEF ProcInv, Births, Spawning
      <4> QED
        BY <1>12, <4>1, ProcFacts, Zenon DEF ProcInv, Births
    <3> QED
      BY <3>1, <3>2, Zenon
  <2> QED
    BY <2>1, <2>2, <2>3, <2>4, <2>5, Zenon DEF Births
<1>7. Listed'
  <2>1. \A p \in Process : \A u \in threads[p] : OwnerOf[u] = p /\ procPc'[u] # "unborn"
    <3>1. \A p \in Process : threads[p] \subseteq ProcThread
      BY Zenon DEF ProcInv, ProcTypes
    <3> QED
      BY <1>12, <3>1, Zenon DEF ProcInv, Listed
  <2>2. ASSUME NEW s \in ProcThread, procPc'[s] = "list", NEW u \in todo'[s]
        PROVE  /\ u \in ProcThread /\ OwnerOf[u] = OwnerOf[s]
               /\ procPc'[u] # "unborn" /\ u # MainOf[OwnerOf[s]]
    <3>1. CASE s = t
      BY <1>1, <1>2, <1>4, <2>2, <3>1
    <3>2. CASE s # t
      <4>1. procPc[s] = "list" /\ u \in todo[s]
        BY <1>1, <1>2, <2>2, <3>2
      <4> QED
        BY <1>12, <4>1, Zenon DEF ProcInv, Listed
    <3> QED
      BY <3>1, <3>2, Zenon
  <2> QED
    BY <2>1, <2>2, Zenon DEF Listed
<1>8. Ends'
  <2>1. \A u \in ProcThread : /\ procPc'[u] \in Ending <=> procPc[u] \in Ending
                              /\ procPc'[u] = "code" <=> procPc[u] = "code"
    BY <1>1, Zenon DEF Ending
  <2> QED
    BY <2>1, ProcFacts, ZenonT(30) DEF ProcInv, Ends
<1>9. \A p \in Process : Alone(p)' => Alone(p)
  BY <1>1, ProcFacts, ZenonT(30) DEF Alone
<1>10. AloneEnds'
  <2> SUFFICES ASSUME NEW p \in Process, Alone(p)'
               PROVE  /\ procExited[p] => procPc'[MainOf[p]] \in Ending \cup {"dead"}
                      /\ p \in handed /\ MainOf[p] \notin threads[p] =>
                            /\ procPc'[MainOf[p]] \in Ending \cup {"exit", "dead"}
                            /\ exitCode[p] = "zero" /\ endCode[p] = "zero"
    BY Zenon DEF AloneEnds
  <2>1. /\ procExited[p] => procPc[MainOf[p]] \in Ending \cup {"dead"}
        /\ p \in handed /\ MainOf[p] \notin threads[p] =>
              /\ procPc[MainOf[p]] \in Ending \cup {"exit", "dead"}
              /\ exitCode[p] = "zero" /\ endCode[p] = "zero"
    BY <1>9, Zenon DEF ProcInv, AloneEnds
  <2>2. procPc'[MainOf[p]] = procPc[MainOf[p]] \/ procPc[MainOf[p]] \notin Ending \cup {"exit", "dead"}
    BY <1>1, ProcFacts, Zenon DEF Ending
  <2> QED
    BY <2>1, <2>2, Zenon
<1>11. ASSUME NEW u \in ProcThread
       PROVE  WaitsOf(u)' /\ AnswersOf(u)'
  <2>1. WaitsOf(u) /\ AnswersOf(u) /\ arg[u] \in Process \cup {NoProc}
    BY Zenon DEF ProcInv, ProcTypes
  <2>2. CASE u = t \/ u = v
    <3>1. WaitsOf(u)'
      BY <1>1, <2>2, Zenon DEF WaitsOf, Asking
    <3>2. AnswersOf(u)'
      BY <1>1, <1>9, <2>1, <2>2, Zenon DEF AnswersOf, Spawning
    <3> QED
      BY <3>1, <3>2, Zenon
  <2>3. CASE u \notin {t, v}
    <3>1. procPc[u] = "blocked" /\ procExited[arg[u]] => \E x \in Of(arg[u]) : procPc'[x] \in Ending
      BY <1>1, <2>1, Zenon DEF WaitsOf, Of, Ending
    <3>2. procPc[u] = "blocked" => u \in exitWaiters[arg[u]]
      BY <2>1, Zenon DEF WaitsOf
    <3> QED
      BY <1>1, <1>2, <1>9, <2>3, <3>1, <3>2, StillHolds, Zenon
  <2> QED
    BY <2>2, <2>3, Zenon
<1> QED
  BY <1>3, <1>6, <1>7, <1>8, <1>10, <1>11, Zenon DEF ProcInv

\* A new process: no thread of it has started.
LEMMA SpawnKeeps ==
    ASSUME ProcInv, NEW t \in ProcThread, NEW p \in Process, Spawn(t, p)
    PROVE  ProcInv'
<1>0. /\ procPc \in [ProcThread -> Pc] /\ arg \in [ProcThread -> Process \cup {NoProc}]
      /\ handed \subseteq born /\ born \subseteq Process
  BY DEF ProcInv, ProcTypes
<1>1. PICK b \in {"attach", "start"} : procPc' = [procPc EXCEPT ![t] = b]
  BY Zenon DEF Spawn, ProcGoto
<1>2. /\ p \notin born /\ born' = born \cup {p} /\ arg' = [arg EXCEPT ![t] = p]
      /\ procPc[t] = "user"
      /\ UNCHANGED <<handed, procExited, procKilled, exitCode, endCode, members, threads,
                     exitWaiters, todo, got>>
  BY DEF Spawn, Calls, proc
<1>3. /\ procPc'[t] = b /\ arg'[t] = p
      /\ \A u \in ProcThread \ {t} : procPc'[u] = procPc[u] /\ arg'[u] = arg[u]
  BY <1>0, <1>1, <1>2
<1>4. ProcTypes'
  <2>1. procPc' \in [ProcThread -> Pc] /\ arg' \in [ProcThread -> Process \cup {NoProc}]
    BY <1>0, <1>1, <1>2 DEF Pc
  <2> QED
    BY <1>2, <2>1 DEF ProcInv, ProcTypes
<1>5. \A u \in ProcThread : procPc'[u] = "unborn" <=> procPc[u] = "unborn"
  BY <1>2, <1>3
<1>6. \A u \in ProcThread : OwnerOf[u] = p => procPc[u] = "unborn"
  BY <1>2, Zenon DEF ProcInv, Births
<1>7. \A s \in ProcThread \ {t} : procPc[s] \in Spawning => arg[s] # p /\ arg[s] \in Process
  BY <1>0, <1>2, Zenon DEF ProcInv, Births
<1>8. Births'
  <2>1. \A u \in ProcThread : procPc'[u] # "unborn" =>
            OwnerOf[u] \in born' /\ procPc'[MainOf[OwnerOf[u]]] # "unborn"
    BY <1>2, <1>5, ProcFacts, Zenon DEF ProcInv, Births
  <2>2. \A s \in ProcThread : procPc'[s] \in Spawning => arg'[s] \in born' \ handed'
    BY <1>0, <1>2, <1>3, Zenon DEF ProcInv, Births
  <2>3. \A s, u \in ProcThread : procPc'[s] \in {"attach", "start"} /\ OwnerOf[u] = arg'[s] =>
            procPc'[u] = "unborn"
    BY <1>3, <1>5, <1>6 DEF ProcInv, Births
  <2>4. \A s, u \in ProcThread : procPc'[s] \in Spawning /\ procPc'[u] \in Spawning =>
            s = u \/ arg'[s] # arg'[u]
    BY <1>3, <1>7 DEF ProcInv, Births
  <2>5. \A s \in ProcThread : procPc'[s] = "main" => procPc'[MainOf[arg'[s]]] # "unborn"
    BY <1>3, <1>5, <1>7, ProcFacts DEF ProcInv, Births, Spawning
  <2> QED
    BY <2>1, <2>2, <2>3, <2>4, <2>5, Zenon DEF Births
<1>9. Listed'
  <2>1. \A q \in Process : threads[q] \subseteq ProcThread
    BY DEF ProcInv, ProcTypes
  <2> QED
    BY <1>2, <1>3, <1>5, <2>1 DEF ProcInv, Listed
<1>10. \A u \in ProcThread : /\ procPc'[u] \in Ending <=> procPc[u] \in Ending
                             /\ procPc'[u] = "code" <=> procPc[u] = "code"
                             /\ procPc[u] \in {"exit", "dead"} => procPc'[u] = procPc[u]
  BY <1>2, <1>3, Zenon DEF Ending
<1>11. Ends'
  BY <1>2, <1>10, ProcFacts, Zenon DEF ProcInv, Ends
<1>12. \A q \in Process : Alone(q)' => Alone(q)
  BY <1>5, ProcFacts, Zenon DEF Alone
<1>13. AloneEnds'
  <2>1. \A q \in Process : MainOf[q] \in ProcThread
    BY ProcFacts
  <2> QED
    BY <1>2, <1>10, <1>12, <2>1, Zenon DEF ProcInv, AloneEnds
<1>14. ASSUME NEW u \in ProcThread
       PROVE  WaitsOf(u)' /\ AnswersOf(u)'
  <2>1. CASE u = t
    BY <1>3, <2>1, Zenon DEF WaitsOf, AnswersOf, Asking, Spawning
  <2>2. CASE u # t
    <3>1. WaitsOf(u)
      BY DEF ProcInv
    <3>2. procPc[u] = "blocked" =>
             /\ u \in exitWaiters[arg[u]]
             /\ procExited[arg[u]] => \E v \in Of(arg[u]) : procPc'[v] \in Ending
      BY <1>10, <3>1, ProcFacts, Zenon DEF WaitsOf
    <3> QED
      BY <1>2, <1>3, <1>12, <2>2, <3>2, StillHolds, Zenon
  <2> QED
    BY <2>1, <2>2
<1> QED
  BY <1>4, <1>8, <1>9, <1>11, <1>13, <1>14 DEF ProcInv

\* A started thread joins the list, and the process is handed over with its main
\* thread in it.
LEMMA ListKeeps ==
    ASSUME ProcInv, NEW t \in ProcThread, ListThread(t) \/ ListMain(t)
    PROVE  ProcInv'
<1>0. /\ procPc \in [ProcThread -> Pc] /\ arg \in [ProcThread -> Process \cup {NoProc}]
      /\ todo \in [ProcThread -> SUBSET (ProcThread \cup Process)]
      /\ threads \in [Process -> SUBSET ProcThread]
      /\ handed \subseteq born /\ born \subseteq Process
  BY DEF ProcInv, ProcTypes
<1>1. PICK p \in Process, q \in Process \cup {NoProc}, new \in SUBSET ProcThread :
        /\ procPc' = [procPc EXCEPT ![t] = "user"] /\ procPc[t] \in {"list", "main"}
        /\ threads' = [threads EXCEPT ![p] = @ \cup new]
        /\ arg' = [arg EXCEPT ![t] = q] /\ q \in {arg[t], NoProc}
        /\ todo' = todo \/ todo' = [todo EXCEPT ![t] = {}]
        /\ \A u \in new : OwnerOf[u] = p /\ procPc[u] # "unborn"
        /\ \/ handed' = handed /\ q = arg[t] /\ MainOf[p] \notin new /\ procPc[t] = "list"
           \/ /\ handed' = handed \cup {p} /\ p = arg[t] /\ p \in born \ handed /\ q = NoProc
              /\ MainOf[p] \in new /\ procPc[t] = "main"
        /\ UNCHANGED <<born, procExited, procKilled, exitCode, endCode, members, exitWaiters, got>>
  <2>1. CASE ListThread(t)
    <3>1. /\ todo[t] \subseteq ProcThread /\ OwnerOf[t] \in Process
          /\ \A u \in todo[t] : OwnerOf[u] = OwnerOf[t] /\ procPc[u] # "unborn"
          /\ MainOf[OwnerOf[t]] \notin todo[t]
      BY <2>1, ProcFacts, Zenon DEF ListThread, ProcInv, Listed
    <3>2. arg = [arg EXCEPT ![t] = arg[t]] /\ arg[t] \in Process \cup {NoProc}
      BY <1>0
    <3>3. /\ procPc' = [procPc EXCEPT ![t] = "user"] /\ procPc[t] = "list"
          /\ threads' = [threads EXCEPT ![OwnerOf[t]] = @ \cup todo[t]]
          /\ arg' = [arg EXCEPT ![t] = arg[t]] /\ todo' = [todo EXCEPT ![t] = {}]
          /\ handed' = handed
          /\ UNCHANGED <<born, procExited, procKilled, exitCode, endCode, members, exitWaiters, got>>
      BY <2>1, <3>2, Zenon DEF ListThread, ProcGoto, Me, proc, jobs
    <3> QED
      BY <3>1, <3>2, <3>3, ZenonT(30)
  <2>2. CASE ListMain(t)
    <3>1. arg[t] \in born \ handed /\ arg[t] \in Process /\ procPc[MainOf[arg[t]]] # "unborn"
      BY <1>0, <2>2, Zenon DEF ListMain, ProcInv, Births, Spawning
    <3>2. {MainOf[arg[t]]} \in SUBSET ProcThread /\ OwnerOf[MainOf[arg[t]]] = arg[t]
      BY <3>1, ProcFacts
    <3>3. /\ procPc' = [procPc EXCEPT ![t] = "user"] /\ procPc[t] = "main"
          /\ threads' = [threads EXCEPT ![arg[t]] = @ \cup {MainOf[arg[t]]}]
          /\ arg' = [arg EXCEPT ![t] = NoProc] /\ todo' = todo
          /\ handed' = handed \cup {arg[t]}
          /\ UNCHANGED <<born, procExited, procKilled, exitCode, endCode, members, exitWaiters, got>>
      BY <2>2, Zenon DEF ListMain, ProcGoto, proc, jobs
    <3> QED
      BY <3>1, <3>2, <3>3, ZenonT(30)
  <2> QED
    BY <2>1, <2>2, Zenon
<1>2. /\ procPc'[t] = "user" /\ arg'[t] = q
      /\ \A u \in ProcThread \ {t} : procPc'[u] = procPc[u] /\ arg'[u] = arg[u] /\ todo'[u] = todo[u]
      /\ threads'[p] = threads[p] \cup new /\ \A r \in Process \ {p} : threads'[r] = threads[r]
  BY <1>0, <1>1, Zenon
<1>3. ProcTypes'
  <2>1. /\ procPc' \in [ProcThread -> Pc] /\ arg' \in [ProcThread -> Process \cup {NoProc}]
        /\ threads' \in [Process -> SUBSET ProcThread] /\ handed' \subseteq born
        /\ todo' \in [ProcThread -> SUBSET (ProcThread \cup Process)]
    BY <1>0, <1>1, Zenon DEF Pc
  <2> QED
    BY <1>1, <2>1, Zenon DEF ProcInv, ProcTypes
<1>4. \A u \in ProcThread : /\ procPc'[u] = "unborn" <=> procPc[u] = "unborn"
                            /\ procPc'[u] \in Ending <=> procPc[u] \in Ending
                            /\ procPc'[u] = "code" <=> procPc[u] = "code"
                            /\ procPc[u] \in {"exit", "dead"} => procPc'[u] = procPc[u]
                            /\ procPc'[u] \in Spawning \cup {"list"} => u # t
  BY <1>1, <1>2, Zenon DEF Ending, Spawning
<1>5. Births'
  <2>1. \A u \in ProcThread : procPc'[u] # "unborn" =>
            OwnerOf[u] \in born' /\ procPc'[MainOf[OwnerOf[u]]] # "unborn"
    BY <1>1, <1>4, ProcFacts, SMTT(30) DEF ProcInv, Births
  <2>2. \A s \in ProcThread : procPc'[s] \in Spawning => arg'[s] \in born' \ handed'
    <3> SUFFICES ASSUME NEW s \in ProcThread, procPc'[s] \in Spawning
                 PROVE  arg'[s] \in born' \ handed'
      OBVIOUS
    <3>1. s # t /\ procPc[s] \in Spawning /\ arg'[s] = arg[s]
      BY <1>2, <1>4, Zenon
    <3>2. arg[s] \in born \ handed
      BY <3>1, Zenon DEF ProcInv, Births
    <3>3. handed' = handed \cup {p} => arg[s] # p \/ handed' = handed
      BY <1>1, <3>1 DEF ProcInv, Births, Spawning
    <3> QED
      BY <1>1, <3>1, <3>2, <3>3
  <2>3. \A s, u \in ProcThread : procPc'[s] \in {"attach", "start"} /\ OwnerOf[u] = arg'[s] =>
            procPc'[u] = "unborn"
    BY <1>2, <1>4 DEF ProcInv, Births, Spawning
  <2>4. \A s, u \in ProcThread : procPc'[s] \in Spawning /\ procPc'[u] \in Spawning =>
            s = u \/ arg'[s] # arg'[u]
    BY <1>2, <1>4, SMTT(30) DEF ProcInv, Births
  <2>5. \A s \in ProcThread : procPc'[s] = "main" => procPc'[MainOf[arg'[s]]] # "unborn"
    <3> SUFFICES ASSUME NEW s \in ProcThread, procPc'[s] = "main"
                 PROVE  procPc'[MainOf[arg'[s]]] # "unborn"
      OBVIOUS
    <3>1. procPc[s] = "main" /\ arg'[s] = arg[s]
      BY <1>2, <1>4, Zenon
    <3>2. arg[s] \in Process /\ procPc[MainOf[arg[s]]] # "unborn"
      BY <1>0, <3>1, Zenon DEF ProcInv, Births, Spawning
    <3> QED
      BY <1>4, <3>1, <3>2, ProcFacts, SMTT(30)
  <2> QED
    BY <2>1, <2>2, <2>3, <2>4, <2>5, Zenon DEF Births
<1>6. Listed'
  <2>1. \A r \in Process : \A u \in threads'[r] : u \in ProcThread /\ OwnerOf[u] = r /\ procPc[u] # "unborn"
    BY <1>0, <1>1, <1>2 DEF ProcInv, Listed
  <2> QED
    BY <1>2, <1>4, <2>1, SMTT(30) DEF ProcInv, Listed
<1>7. Ends'
  BY <1>1, <1>4, ProcFacts DEF ProcInv, Ends
<1>8. \A r \in Process : Alone(r)' => Alone(r)
  BY <1>4, ProcFacts, Zenon DEF Alone
<1>9. AloneEnds'
  <2> SUFFICES ASSUME NEW r \in Process, Alone(r)'
               PROVE  /\ procExited[r] => procPc'[MainOf[r]] \in Ending \cup {"dead"}
                      /\ r \in handed' /\ MainOf[r] \notin threads'[r] =>
                            /\ procPc'[MainOf[r]] \in Ending \cup {"exit", "dead"}
                            /\ exitCode[r] = "zero" /\ endCode[r] = "zero"
    BY <1>1, Zenon DEF AloneEnds
  <2>1. r \in handed' /\ MainOf[r] \notin threads'[r] => r \in handed /\ MainOf[r] \notin threads[r]
    BY <1>1, <1>2
  <2>2. MainOf[r] \in ProcThread
    BY ProcFacts, Zenon
  <2> QED
    BY <1>4, <1>8, <2>1, <2>2, Zenon DEF ProcInv, AloneEnds
<1>10. ASSUME NEW u \in ProcThread
       PROVE  WaitsOf(u)' /\ AnswersOf(u)'
  <2>0. WaitsOf(u) /\ AnswersOf(u) /\ arg[u] \in Process \cup {NoProc}
    BY <1>0 DEF ProcInv
  <2>1. CASE u = t
    <3>1. WaitsOf(u)'
      BY <1>2, <2>1, Zenon DEF WaitsOf, Asking
    <3>2. AnswersOf(u)'
      BY <1>1, <1>2, <1>8, <2>0, <2>1 DEF AnswersOf, Spawning
    <3> QED
      BY <3>1, <3>2
  <2>2. CASE u # t
    <3>1. procPc[u] = "blocked" =>
             /\ u \in exitWaiters[arg[u]]
             /\ procExited[arg[u]] => \E v \in Of(arg[u]) : procPc'[v] \in Ending
      BY <1>4, <2>0, ProcFacts, Zenon DEF WaitsOf
    <3>2. \A r \in handed : MainOf[r] \notin threads[r] => MainOf[r] \notin threads'[r]
      BY <1>0, <1>1, <1>2, Zenon
    <3>3. handed \subseteq handed'
      BY <1>1
    <3> QED
      BY <1>1, <1>2, <1>8, <2>2, <3>1, <3>2, <3>3, StillHolds, Zenon
  <2> QED
    BY <2>1, <2>2
<1> QED
  BY <1>3, <1>5, <1>6, <1>7, <1>9, <1>10 DEF ProcInv

\* A step that starts no thread, and no spawn, leaves the births.
LEMMA BirthsKept ==
    ASSUME ProcInv, UNCHANGED <<born, handed, arg>>,
           \A u \in ProcThread : /\ procPc'[u] = "unborn" <=> procPc[u] = "unborn"
                                 /\ procPc'[u] \in Spawning => procPc'[u] = procPc[u]
    PROVE  Births'
<1>1. \A u \in ProcThread : procPc'[u] # "unborn" =>
          OwnerOf[u] \in born' /\ procPc'[MainOf[OwnerOf[u]]] # "unborn"
  BY ProcFacts, Zenon DEF ProcInv, Births
<1>2. \A s \in ProcThread : procPc'[s] \in Spawning => arg'[s] \in born' \ handed'
  BY Zenon DEF ProcInv, Births
<1>3. \A s, u \in ProcThread : procPc'[s] \in {"attach", "start"} /\ OwnerOf[u] = arg'[s] =>
          procPc'[u] = "unborn"
  BY Zenon DEF ProcInv, Births, Spawning
<1>4. \A s, u \in ProcThread : procPc'[s] \in Spawning /\ procPc'[u] \in Spawning =>
          s = u \/ arg'[s] # arg'[u]
  BY Zenon DEF ProcInv, Births
<1>5. \A s \in ProcThread : procPc'[s] = "main" => procPc'[MainOf[arg'[s]]] # "unborn"
  <2> SUFFICES ASSUME NEW s \in ProcThread, procPc'[s] = "main"
               PROVE  procPc'[MainOf[arg[s]]] # "unborn"
    OBVIOUS
  <2>1. procPc[s] = "main"
    BY DEF Spawning
  <2>2. arg[s] \in Process /\ procPc[MainOf[arg[s]]] # "unborn"
    BY <2>1, Zenon DEF ProcInv, ProcTypes, Births, Spawning
  <2> QED
    BY <2>2, ProcFacts, Zenon
<1> QED
  BY <1>1, <1>2, <1>3, <1>4, <1>5, Zenon DEF Births

\* An exit: the first one ends the process, any other only the thread.
LEMMA ExitKeeps ==
    ASSUME ProcInv, NEW t \in ProcThread, NEW c \in Codes, EnterExit(t, c),
           procPc[t] \in {"user", "exit"}, procPc[t] = "exit" => c = "zero",
           UNCHANGED <<born, handed, procKilled, exitCode, members, threads, exitWaiters, arg,
                       todo, got>>
    PROVE  ProcInv'
<1>0. /\ procPc \in [ProcThread -> Pc] /\ procExited \in [Process -> BOOLEAN]
      /\ endCode \in [Process -> Codes] /\ arg \in [ProcThread -> Process \cup {NoProc}]
      /\ OwnerOf[t] \in Process
  BY ProcFacts, Zenon DEF ProcInv, ProcTypes
<1>1. CASE procExited[OwnerOf[t]]
  <2>1. procPc' = [procPc EXCEPT ![t] = "dead"] /\ UNCHANGED <<procExited, endCode>>
    BY <1>1, Zenon DEF EnterExit, Me, ProcGoto
  <2>2. procPc'[t] = "dead" /\ \A u \in ProcThread \ {t} : procPc'[u] = procPc[u]
    BY <1>0, <2>1
  <2>3. ProcTypes'
    <3>1. procPc' \in [ProcThread -> Pc]
      BY <1>0, <2>1 DEF Pc
    <3> QED
      BY <2>1, <3>1, Zenon DEF ProcInv, ProcTypes
  <2>4. WaitsOf(t)'
    BY <2>2, Zenon DEF WaitsOf, Asking
  <2>5. \A p \in Process : Alone(p)' => Alone(p)
    BY <1>0, <2>2, ProcFacts, Zenon DEF Alone
  <2>6. AnswersOf(t)'
    <3>1. AnswersOf(t)
      BY DEF ProcInv
    <3> QED
      BY <1>0, <2>1, <2>2, <2>5, <3>1, Zenon DEF AnswersOf, Spawning
  <2> QED
    <3>1. /\ procPc'[t] \in Ending <=> procPc[t] \in Ending
          /\ procPc[t] \notin {"unborn", "dead", "code"}
          /\ procPc'[t] \notin {"unborn", "list", "main", "code", "attach", "start"}
          /\ procPc[t] = "exit" => procPc'[t] = "dead"
      BY <2>2, Zenon DEF Ending
    <3>2. \A q \in Process : exitWaiters[q] \subseteq exitWaiters'[q]
      BY Zenon
    <3>3. \A u \in ProcThread \ {t} :
             /\ arg'[u] = arg[u] /\ todo'[u] = todo[u] /\ got'[u] = got[u]
             /\ procPc'[u] = procPc[u] \/ (procPc[u] = "blocked" /\ procPc'[u] = "wait")
      BY <2>2, Zenon
    <3> QED
      BY <2>1, <2>3, <2>4, <2>6, <3>1, <3>2, <3>3, QuietKeeps, Zenon
<1>2. CASE ~ procExited[OwnerOf[t]]
  <2> DEFINE p == OwnerOf[t]
  <2>1. /\ procPc' = [procPc EXCEPT ![t] = "code"]
        /\ procExited' = [procExited EXCEPT ![p] = TRUE]
        /\ endCode' = [endCode EXCEPT ![p] = c]
    BY <1>2, Zenon DEF EnterExit, Me, ProcGoto
  <2>2. procPc'[t] = "code" /\ \A u \in ProcThread \ {t} : procPc'[u] = procPc[u]
    BY <1>0, <2>1
  <2>3. procExited'[p] /\ \A q \in Process \ {p} : procExited'[q] = procExited[q]
    BY <1>0, <2>1, Zenon
  <2>4. endCode'[p] = c /\ \A q \in Process \ {p} : endCode'[q] = endCode[q]
    BY <1>0, <2>1
  <2>5. p \in Process /\ ~ procExited[p]
    BY <1>0, <1>2
  <2> HIDE DEF p
  <2>6. \A u \in ProcThread : /\ procPc'[u] = "unborn" <=> procPc[u] = "unborn"
                              /\ procPc'[u] \in Spawning \cup {"list"} => procPc'[u] = procPc[u]
                              /\ procPc[u] \in Ending => procPc'[u] \in Ending
    BY <2>2, Zenon DEF Ending, Spawning
  <2>7. ProcTypes'
    <3>1. /\ procPc' \in [ProcThread -> Pc] /\ procExited' \in [Process -> BOOLEAN]
          /\ endCode' \in [Process -> Codes]
      BY <1>0, <2>1, Zenon DEF Pc
    <3> QED
      BY <3>1, Zenon DEF ProcInv, ProcTypes
  <2>8. Births'
    BY <2>6, BirthsKept, Zenon
  <2>9. Listed'
    <3>1. \A q \in Process : threads[q] \subseteq ProcThread
      BY DEF ProcInv, ProcTypes
    <3> QED
      BY <2>6, <3>1, SMTT(30) DEF ProcInv, Listed
  <2>10. \A u \in ProcThread : OwnerOf[u] = p => procPc[u] \notin Ending
    BY <2>5, Zenon DEF ProcInv, Ends
  <2>11. Ends'
    <3>1. \A u, v \in ProcThread :
             procPc'[u] \in Ending /\ procPc'[v] \in Ending /\ OwnerOf[u] = OwnerOf[v] => u = v
      BY <2>2, <2>10 DEF ProcInv, Ends, p
    <3>2. \A u \in ProcThread : procPc'[u] \in Ending => procExited'[OwnerOf[u]]
      <4>1. \A u \in ProcThread : procPc[u] \in Ending => procExited[OwnerOf[u]]
        BY Zenon DEF ProcInv, Ends
      <4>2. \A q \in Process : procExited[q] => procExited'[q]
        BY <2>3, Zenon
      <4>3. procExited'[OwnerOf[t]]
        BY <2>3, Zenon DEF p
      <4> QED
        BY <2>2, <4>1, <4>2, <4>3, ProcFacts, Zenon
    <3>3. ASSUME NEW q \in Process
          PROVE  IF procExited'[q]
                 THEN exitCode[q] = endCode'[q] \/ \E u \in Of(q) : procPc'[u] = "code"
                 ELSE exitCode[q] = "zero" /\ endCode'[q] = "zero"
      <4>1. CASE q = p
        BY <2>2, <2>3, <4>1, ProcFacts, Zenon DEF p
      <4>2. CASE q # p
        <5>1. \A u \in Of(q) : procPc'[u] = procPc[u]
          BY <2>2, <4>2, ProcFacts DEF p
        <5>2. IF procExited[q]
              THEN exitCode[q] = endCode[q] \/ \E u \in Of(q) : procPc[u] = "code"
              ELSE exitCode[q] = "zero" /\ endCode[q] = "zero"
          BY Zenon DEF ProcInv, Ends
        <5>3. procExited'[q] = procExited[q] /\ endCode'[q] = endCode[q]
          BY <2>3, <2>4, <4>2
        <5> QED
          BY <5>1, <5>2, <5>3, Zenon
      <4> QED
        BY <4>1, <4>2, Zenon
    <3> QED
      BY <3>1, <3>2, <3>3, Zenon DEF Ends
  <2>12. \A q \in Process : Alone(q)' => Alone(q)
    BY <2>6, ProcFacts, Zenon DEF Alone
  <2>13. AloneEnds'
    <3> SUFFICES ASSUME NEW q \in Process, Alone(q)'
                 PROVE  /\ procExited'[q] => procPc'[MainOf[q]] \in Ending \cup {"dead"}
                        /\ q \in handed /\ MainOf[q] \notin threads[q] =>
                              /\ procPc'[MainOf[q]] \in Ending \cup {"exit", "dead"}
                              /\ exitCode[q] = "zero" /\ endCode'[q] = "zero"
      BY Zenon DEF AloneEnds
    <3>1. /\ procExited[q] => procPc[MainOf[q]] \in Ending \cup {"dead"}
          /\ q \in handed /\ MainOf[q] \notin threads[q] =>
                /\ procPc[MainOf[q]] \in Ending \cup {"exit", "dead"}
                /\ exitCode[q] = "zero" /\ endCode[q] = "zero"
      BY <2>12, Zenon DEF ProcInv, AloneEnds
    <3>2. CASE q = p
      <4>1. t = MainOf[q]
        BY <2>12, <3>2, ProcFacts, Zenon DEF Alone, p
      <4>2. procPc'[MainOf[q]] \in Ending
        BY <2>2, <4>1, Zenon DEF Ending
      <4>3. q \in handed /\ MainOf[q] \notin threads[q] => c = "zero"
        BY <3>1, <4>1, Zenon DEF Ending
      <4> QED
        BY <2>4, <3>1, <3>2, <4>2, <4>3, Zenon
    <3>3. CASE q # p
      <4>1. MainOf[q] # t /\ MainOf[q] \in ProcThread
        BY <3>3, ProcFacts, Zenon DEF p
      <4> QED
        BY <2>2, <2>3, <2>4, <3>1, <3>3, <4>1, Zenon
    <3> QED
      BY <3>2, <3>3, Zenon
  <2>14. ASSUME NEW u \in ProcThread
         PROVE  WaitsOf(u)' /\ AnswersOf(u)'
    <3>0. WaitsOf(u) /\ AnswersOf(u)
      BY Zenon DEF ProcInv
    <3>1. \A q \in Process : procExited[q] => procExited'[q] /\ endCode'[q] = endCode[q]
      BY <2>3, <2>4, <2>5, Zenon
    <3>2. CASE u = t
      <4>1. WaitsOf(u)'
        BY <2>2, <3>2, Zenon DEF WaitsOf, Asking
      <4>2. AnswersOf(u)'
        BY <1>0, <2>12, <3>0, <3>1, <3>2, Zenon DEF AnswersOf, Spawning
      <4> QED
        BY <4>1, <4>2
    <3>3. CASE u # t
      <4>1. ASSUME procPc[u] = "blocked"
            PROVE  /\ u \in exitWaiters[arg[u]]
                   /\ procExited'[arg[u]] => \E v \in Of(arg[u]) : procPc'[v] \in Ending
        <5>1. u \in exitWaiters[arg[u]] /\ arg[u] \in Process
          BY <3>0, <4>1, Zenon DEF WaitsOf, ProcInv, ProcTypes, Asking
        <5>2. CASE arg[u] = p
          <6>1. t \in Of(arg[u]) /\ procPc'[t] \in Ending
            BY <2>2, <5>2, ProcFacts, Zenon DEF Ending, p
          <6> QED
            BY <5>1, <6>1, Zenon
        <5>3. CASE arg[u] # p
          BY <2>3, <2>6, <3>0, <4>1, <5>1, <5>3, ProcFacts, Zenon DEF WaitsOf
        <5> QED
          BY <5>2, <5>3, Zenon
      <4> QED
        BY <2>2, <2>12, <3>1, <3>3, <4>1, StillHolds, Zenon
    <3> QED
      BY <3>2, <3>3, Zenon
  <2> QED
    BY <2>7, <2>8, <2>9, <2>11, <2>13, <2>14 DEF ProcInv
<1> QED
  BY <1>1, <1>2, Zenon

\* The store of the code, by the thread that ends the process.
LEMMA StoreKeeps ==
    ASSUME ProcInv, NEW t \in ProcThread, StoreCode(t)
    PROVE  ProcInv'
<1> DEFINE p == OwnerOf[t]
<1>0. /\ procPc \in [ProcThread -> Pc] /\ exitCode \in [Process -> Codes]
      /\ procKilled \in [Process -> BOOLEAN] /\ endCode \in [Process -> Codes]
      /\ arg \in [ProcThread -> Process \cup {NoProc}] /\ p \in Process
  BY ProcFacts, Zenon DEF ProcInv, ProcTypes
<1>1. /\ procPc[t] = "code" /\ procPc' = [procPc EXCEPT ![t] = "unpark"]
      /\ exitCode' = [exitCode EXCEPT ![p] = endCode[p]]
      /\ procKilled' = [procKilled EXCEPT ![p] = TRUE]
      /\ UNCHANGED <<born, handed, procExited, endCode, members, threads, exitWaiters, arg, todo, got>>
  BY Zenon DEF StoreCode, ProcGoto, Me, jobs
<1>2. /\ procPc'[t] = "unpark" /\ \A u \in ProcThread \ {t} : procPc'[u] = procPc[u]
      /\ exitCode'[p] = endCode[p] /\ \A q \in Process \ {p} : exitCode'[q] = exitCode[q]
  BY <1>0, <1>1
<1>3. ProcTypes'
  <2>1. /\ procPc' \in [ProcThread -> Pc] /\ exitCode' \in [Process -> Codes]
        /\ procKilled' \in [Process -> BOOLEAN]
    BY <1>0, <1>1 DEF Pc
  <2> QED
    BY <1>1, <2>1, Zenon DEF ProcInv, ProcTypes
<1>4. \A u \in ProcThread : /\ procPc'[u] = "unborn" <=> procPc[u] = "unborn"
                            /\ procPc'[u] \in Spawning \cup {"list"} => procPc'[u] = procPc[u]
                            /\ procPc[u] \in Ending <=> procPc'[u] \in Ending
  BY <1>1, <1>2, Zenon DEF Ending, Spawning
<1>5. Births'
  BY <1>1, <1>4, BirthsKept, Zenon
<1>6. Listed'
  <2>1. \A q \in Process : threads[q] \subseteq ProcThread
    BY DEF ProcInv, ProcTypes
  <2> QED
    BY <1>1, <1>4, <2>1 DEF ProcInv, Listed
<1>7. procExited[p]
  BY <1>1, Zenon DEF ProcInv, Ends, Ending
<1> HIDE DEF p
<1>8. Ends'
  <2>1. \A u, v \in ProcThread :
           procPc'[u] \in Ending /\ procPc'[v] \in Ending /\ OwnerOf[u] = OwnerOf[v] => u = v
    BY <1>4, Zenon DEF ProcInv, Ends
  <2>2. \A u \in ProcThread : procPc'[u] \in Ending => procExited'[OwnerOf[u]]
    BY <1>1, <1>4, Zenon DEF ProcInv, Ends
  <2>3. ASSUME NEW q \in Process
        PROVE  IF procExited[q]
               THEN exitCode'[q] = endCode[q] \/ \E u \in Of(q) : procPc'[u] = "code"
               ELSE exitCode'[q] = "zero" /\ endCode[q] = "zero"
    <3>1. CASE q = p
      BY <1>2, <1>7, <3>1, Zenon
    <3>2. CASE q # p
      <4>1. \A u \in Of(q) : procPc'[u] = procPc[u]
        BY <1>2, <3>2, ProcFacts DEF p
      <4> QED
        BY <1>2, <3>2, <4>1 DEF ProcInv, Ends
    <3> QED
      BY <3>1, <3>2, Zenon
  <2> QED
    BY <1>1, <2>1, <2>2, <2>3, Zenon DEF Ends
<1>9. \A q \in Process : Alone(q)' => Alone(q)
  BY <1>4, ProcFacts, Zenon DEF Alone
<1>10. AloneEnds'
  <2> SUFFICES ASSUME NEW q \in Process, Alone(q)'
               PROVE  /\ procExited[q] => procPc'[MainOf[q]] \in Ending \cup {"dead"}
                      /\ q \in handed /\ MainOf[q] \notin threads[q] =>
                            /\ procPc'[MainOf[q]] \in Ending \cup {"exit", "dead"}
                            /\ exitCode'[q] = "zero" /\ endCode[q] = "zero"
    BY <1>1, Zenon DEF AloneEnds
  <2>1. /\ procExited[q] => procPc[MainOf[q]] \in Ending \cup {"dead"}
        /\ q \in handed /\ MainOf[q] \notin threads[q] =>
              /\ procPc[MainOf[q]] \in Ending \cup {"exit", "dead"}
              /\ exitCode[q] = "zero" /\ endCode[q] = "zero"
    BY <1>9, Zenon DEF ProcInv, AloneEnds
  <2>2. MainOf[q] \in ProcThread
    BY ProcFacts, Zenon
  <2>3. procPc[MainOf[q]] \in {"exit", "dead"} => procPc'[MainOf[q]] = procPc[MainOf[q]]
    BY <1>1, <1>2, <2>2, Zenon
  <2>4. exitCode'[q] \in {exitCode[q], endCode[q]}
    BY <1>2
  <2> QED
    BY <1>4, <2>1, <2>2, <2>3, <2>4, Zenon
<1>11. ASSUME NEW u \in ProcThread
       PROVE  WaitsOf(u)' /\ AnswersOf(u)'
  <2>0. WaitsOf(u) /\ AnswersOf(u)
    BY DEF ProcInv
  <2>1. CASE u = t
    <3>1. WaitsOf(u)'
      BY <1>2, <2>1, Zenon DEF WaitsOf, Asking
    <3>2. AnswersOf(u)'
      BY <1>0, <1>1, <1>9, <2>0, <2>1, Zenon DEF AnswersOf, Spawning
    <3> QED
      BY <3>1, <3>2
  <2>2. CASE u # t
    <3>1. procPc[u] = "blocked" =>
             /\ u \in exitWaiters[arg[u]]
             /\ procExited[arg[u]] => \E v \in Of(arg[u]) : procPc'[v] \in Ending
      BY <1>4, <2>0, ProcFacts, Zenon DEF WaitsOf
    <3> QED
      BY <1>1, <1>2, <1>9, <2>2, <3>1, StillHolds, Zenon
  <2> QED
    BY <2>1, <2>2
<1> QED
  BY <1>3, <1>5, <1>6, <1>8, <1>10, <1>11 DEF ProcInv

\* The thread that ended the process wakes everyone registered on it, and dies.
LEMMA WakeKeeps ==
    ASSUME ProcInv, NEW t \in ProcThread, WakeWaiters(t)
    PROVE  ProcInv'
<1> DEFINE p == OwnerOf[t]
<1>0. /\ procPc \in [ProcThread -> Pc] /\ exitWaiters \in [Process -> SUBSET ProcThread]
      /\ arg \in [ProcThread -> Process \cup {NoProc}] /\ p \in Process /\ procPc[t] = "waiters"
  BY ProcFacts, Zenon DEF ProcInv, ProcTypes, WakeWaiters
<1>1. /\ procPc' = [Unparked(exitWaiters[p]) EXCEPT ![t] = "dead"]
      /\ exitWaiters' = [exitWaiters EXCEPT ![p] = {}]
      /\ UNCHANGED <<born, handed, procExited, procKilled, exitCode, endCode, members, threads,
                     arg, todo, got>>
  BY Zenon DEF WakeWaiters, Me, jobs, proc
<1>2. /\ procPc'[t] = "dead"
      /\ \A u \in ProcThread \ {t} : procPc'[u] =
            IF u \in exitWaiters[p] /\ procPc[u] = "blocked" THEN "wait" ELSE procPc[u]
  BY <1>0, <1>1, Zenon DEF Unparked
<1>3. exitWaiters'[p] = {} /\ \A q \in Process \ {p} : exitWaiters'[q] = exitWaiters[q]
  BY <1>0, <1>1, Zenon
<1>4. ProcTypes'
  <2>1. procPc' \in [ProcThread -> Pc] /\ exitWaiters' \in [Process -> SUBSET ProcThread]
    BY <1>0, <1>1, Zenon DEF Pc, Unparked
  <2> QED
    BY <1>1, <2>1, Zenon DEF ProcInv, ProcTypes
<1> HIDE DEF p
<1>5. \A u \in ProcThread : /\ procPc'[u] = "unborn" <=> procPc[u] = "unborn"
                            /\ procPc'[u] \in Spawning \cup {"list"} => procPc'[u] = procPc[u]
                            /\ procPc'[u] \in Ending => procPc[u] \in Ending
                            /\ procPc[u] = "code" => procPc'[u] = "code"
                            /\ procPc[u] \in {"exit", "dead"} => procPc'[u] = procPc[u]
                            /\ procPc[u] \in Ending => procPc'[u] \in Ending \cup {"dead"}
  BY <1>0, <1>2, Zenon DEF Ending, Spawning
<1>6. Births'
  BY <1>1, <1>5, BirthsKept, Zenon
<1>7. Listed'
  <2>1. \A q \in Process : threads[q] \subseteq ProcThread
    BY DEF ProcInv, ProcTypes
  <2> QED
    BY <1>1, <1>5, <2>1 DEF ProcInv, Listed
<1>8. Ends'
  <2>1. \A u, v \in ProcThread :
           procPc'[u] \in Ending /\ procPc'[v] \in Ending /\ OwnerOf[u] = OwnerOf[v] => u = v
    BY <1>5, Zenon DEF ProcInv, Ends
  <2>2. \A u \in ProcThread : procPc'[u] \in Ending => procExited'[OwnerOf[u]]
    BY <1>1, <1>5, Zenon DEF ProcInv, Ends
  <2>3. ASSUME NEW q \in Process
        PROVE  IF procExited[q]
               THEN exitCode[q] = endCode[q] \/ \E u \in Of(q) : procPc'[u] = "code"
               ELSE exitCode[q] = "zero" /\ endCode[q] = "zero"
    BY <1>5, ProcFacts, Zenon DEF ProcInv, Ends
  <2> QED
    BY <1>1, <2>1, <2>2, <2>3, Zenon DEF Ends
<1>9. \A q \in Process : Alone(q)' => Alone(q)
  BY <1>5, ProcFacts, Zenon DEF Alone
<1>10. AloneEnds'
  <2>1. \A q \in Process : MainOf[q] \in ProcThread
    BY ProcFacts, Zenon
  <2> QED
    BY <1>1, <1>5, <1>9, <2>1, Zenon DEF ProcInv, AloneEnds
<1>11. ASSUME NEW u \in ProcThread
       PROVE  WaitsOf(u)' /\ AnswersOf(u)'
  <2>0. WaitsOf(u) /\ AnswersOf(u)
    BY DEF ProcInv
  <2>1. CASE u = t
    <3>1. WaitsOf(u)'
      BY <1>2, <2>1, Zenon DEF WaitsOf, Asking
    <3>2. AnswersOf(u)'
      BY <1>0, <1>1, <1>9, <2>0, <2>1, Zenon DEF AnswersOf, Spawning
    <3> QED
      BY <3>1, <3>2
  <2>2. CASE u # t /\ procPc[u] = "blocked" /\ u \in exitWaiters[p]
    <3>1. procPc'[u] = "wait" /\ arg[u] \in handed /\ got[u] = "none"
      BY <1>2, <2>0, <2>2, Zenon DEF WaitsOf, Asking
    <3>2. WaitsOf(u)'
      BY <1>1, <3>1, Zenon DEF WaitsOf
    <3>3. AnswersOf(u)'
      BY <1>1, <3>1, Zenon DEF AnswersOf
    <3> QED
      BY <3>2, <3>3
  <2>3. CASE u # t /\ ~ (procPc[u] = "blocked" /\ u \in exitWaiters[p])
    <3>1. procPc'[u] = procPc[u]
      BY <1>2, <2>3
    <3>2. ASSUME procPc[u] = "blocked"
          PROVE  /\ u \in exitWaiters'[arg[u]]
                 /\ procExited[arg[u]] => \E v \in Of(arg[u]) : procPc'[v] \in Ending
      <4>1. u \in exitWaiters[arg[u]] /\ arg[u] \in Process
        BY <2>0, <3>2, Zenon DEF WaitsOf, ProcInv, ProcTypes, Asking
      <4>2. arg[u] # p
        BY <2>3, <3>2, <4>1, Zenon
      <4>3. \A v \in Of(arg[u]) : procPc[v] \in Ending => procPc'[v] \in Ending
        BY <1>2, <4>2, ProcFacts, SMTT(30) DEF p, Ending
      <4>4. u \in exitWaiters'[arg[u]]
        BY <1>3, <4>1, <4>2, Zenon
      <4>5. ASSUME procExited[arg[u]]
            PROVE  \E v \in Of(arg[u]) : procPc'[v] \in Ending
        <5>1. PICK v \in Of(arg[u]) : procPc[v] \in Ending
          BY <2>0, <3>2, <4>5, Zenon DEF WaitsOf
        <5> QED
          BY <4>3, <5>1, Zenon
      <4> QED
        BY <4>4, <4>5, Zenon
    <3> QED
      BY <1>1, <1>9, <3>1, <3>2, StillHolds, Zenon
  <2> QED
    BY <2>1, <2>2, <2>3, Zenon
<1> QED
  BY <1>4, <1>6, <1>7, <1>8, <1>10, <1>11 DEF ProcInv

\* A thread leaves the list.
LEMMA LeaveKeeps ==
    ASSUME ProcInv, NEW t \in ProcThread, ThreadExit(t)
    PROVE  ProcInv'
<1> DEFINE p == OwnerOf[t]
<1>0. /\ procPc \in [ProcThread -> Pc] /\ threads \in [Process -> SUBSET ProcThread]
      /\ arg \in [ProcThread -> Process \cup {NoProc}] /\ p \in Process /\ procPc[t] = "user"
      /\ handed \subseteq Process
  BY ProcFacts, Zenon DEF ProcInv, ProcTypes, ThreadExit, Calls
<1>1. PICK b \in {"exit", "dead"} : procPc' = [procPc EXCEPT ![t] = b]
  BY Zenon DEF ThreadExit, ProcGoto
<1>2. /\ threads' = [threads EXCEPT ![p] = threads[p] \ {t}]
      /\ UNCHANGED <<born, handed, procExited, procKilled, exitCode, endCode, members,
                     exitWaiters, arg, todo, got>>
  BY Zenon DEF ThreadExit, Me, jobs, proc
<1>3. /\ procPc'[t] = b /\ \A u \in ProcThread \ {t} : procPc'[u] = procPc[u]
      /\ \A q \in Process : threads'[q] \subseteq threads[q]
      /\ \A q \in Process \ {p} : threads'[q] = threads[q]
  BY <1>0, <1>1, <1>2, Zenon
<1>4. ProcTypes'
  <2>1. procPc' \in [ProcThread -> Pc] /\ threads' \in [Process -> SUBSET ProcThread]
    BY <1>0, <1>1, <1>2, Zenon DEF Pc
  <2> QED
    BY <1>2, <2>1, Zenon DEF ProcInv, ProcTypes
<1> HIDE DEF p
<1>5. \A u \in ProcThread : /\ procPc'[u] = "unborn" <=> procPc[u] = "unborn"
                            /\ procPc'[u] \in Spawning \cup {"list"} => procPc'[u] = procPc[u]
                            /\ procPc'[u] \in Ending <=> procPc[u] \in Ending
                            /\ procPc[u] = "code" <=> procPc'[u] = "code"
                            /\ procPc[u] \in {"exit", "dead"} => procPc'[u] = procPc[u]
  BY <1>0, <1>3, Zenon DEF Ending, Spawning
<1>6. Births'
  BY <1>2, <1>5, BirthsKept, Zenon
<1>7. Listed'
  <2>1. \A q \in Process : threads[q] \subseteq ProcThread
    BY DEF ProcInv, ProcTypes
  <2> QED
    BY <1>2, <1>3, <1>5, <2>1 DEF ProcInv, Listed
<1>8. Ends'
  BY <1>2, <1>5, ProcFacts, Zenon DEF ProcInv, Ends
<1>9. \A q \in Process : Alone(q)' => Alone(q)
  BY <1>5, ProcFacts, Zenon DEF Alone
<1>10. AloneEnds'
  <2> SUFFICES ASSUME NEW q \in Process, Alone(q)'
               PROVE  /\ procExited[q] => procPc'[MainOf[q]] \in Ending \cup {"dead"}
                      /\ q \in handed /\ MainOf[q] \notin threads'[q] =>
                            /\ procPc'[MainOf[q]] \in Ending \cup {"exit", "dead"}
                            /\ exitCode[q] = "zero" /\ endCode[q] = "zero"
    BY <1>2, Zenon DEF AloneEnds
  <2>1. /\ procExited[q] => procPc[MainOf[q]] \in Ending \cup {"dead"}
        /\ q \in handed /\ MainOf[q] \notin threads[q] =>
              /\ procPc[MainOf[q]] \in Ending \cup {"exit", "dead"}
              /\ exitCode[q] = "zero" /\ endCode[q] = "zero"
    BY <1>9, Zenon DEF ProcInv, AloneEnds
  <2>2. CASE q = p
    <3>1. t = MainOf[q]
      BY <1>0, <1>9, <2>2, ProcFacts, Zenon DEF Alone, p
    <3>2. ~ procExited[q]
      BY <1>0, <2>1, <3>1, Zenon DEF Ending
    <3>3. exitCode[q] = "zero" /\ endCode[q] = "zero"
      BY <3>2, Zenon DEF ProcInv, Ends
    <3> QED
      BY <1>3, <3>1, <3>2, <3>3, Zenon
  <2>3. CASE q # p
    <3>1. MainOf[q] # t /\ MainOf[q] \in ProcThread
      BY <2>3, ProcFacts, Zenon DEF p
    <3> QED
      BY <1>3, <2>1, <2>3, <3>1, Zenon
  <2> QED
    BY <2>2, <2>3, Zenon
<1>11. ASSUME NEW u \in ProcThread
       PROVE  WaitsOf(u)' /\ AnswersOf(u)'
  <2>0. WaitsOf(u) /\ AnswersOf(u)
    BY DEF ProcInv
  <2>1. CASE u = t
    <3>1. WaitsOf(u)'
      BY <1>3, <2>1, Zenon DEF WaitsOf, Asking
    <3>2. AnswersOf(u)'
      BY <1>0, <1>2, <1>9, <2>0, <2>1, Zenon DEF AnswersOf, Spawning
    <3> QED
      BY <3>1, <3>2
  <2>2. CASE u # t
    <3>1. procPc[u] = "blocked" =>
             /\ u \in exitWaiters[arg[u]]
             /\ procExited[arg[u]] => \E v \in Of(arg[u]) : procPc'[v] \in Ending
      BY <1>5, <2>0, ProcFacts, Zenon DEF WaitsOf
    <3>2. \A q \in handed : MainOf[q] \notin threads[q] => MainOf[q] \notin threads'[q]
      BY <1>0, <1>3, Zenon
    <3> QED
      BY <1>2, <1>3, <1>9, <2>2, <3>1, <3>2, StillHolds, Zenon
  <2> QED
    BY <2>1, <2>2
<1> QED
  BY <1>4, <1>6, <1>7, <1>8, <1>10, <1>11 DEF ProcInv

\* A step of a thread keeps the invariant.
LEMMA ProcStep ==
    ASSUME ProcInv, NEW t \in ProcThread, Kernel(t) \/ ProcCall(t)
    PROVE  ProcInv'
<1>1. CASE \/ ThreadCreate(t) \/ AttachChild(t) \/ WaitTop(t) \/ WaitCopy(t) \/ WaitResult(t)
           \/ JobKill(t) \/ WaitLocked(t) \/ ProcKillUnpark(t) \/ UnparkOthers(t)
           \/ \E p \in Process : JobAttach(t, p) \/ Wait(t, p) \/ ProcKillMember(t, p)
  BY <1>1, QuietSteps
<1>2. CASE StartThread(t)
  <2>1. PICK v \in Of(OwnerOf[t]) :
          /\ procPc[v] = "unborn" /\ procPc' = [procPc EXCEPT ![t] = "list", ![v] = "user"]
          /\ todo' = [todo EXCEPT ![t] = {v}]
    BY <1>2, Zenon DEF StartThread, Me
  <2>2. /\ procPc[t] = "create"
        /\ UNCHANGED <<born, handed, procExited, procKilled, exitCode, endCode, members, threads,
                       exitWaiters, arg, got>>
    BY <1>2, Zenon DEF StartThread, proc, jobs
  <2>3. v \in ProcThread /\ OwnerOf[v] = OwnerOf[t]
    BY DEF Of
  <2> QED
    BY <2>1, <2>2, <2>3, StartKeeps, Zenon
<1>3. CASE StartMain(t)
  <2>1. /\ procPc[t] = "start" /\ procPc' = [procPc EXCEPT ![t] = "main", ![MainOf[arg[t]]] = "user"]
        /\ UNCHANGED <<born, handed, procExited, procKilled, exitCode, endCode, members, threads,
                       exitWaiters, arg, got, todo>>
    BY <1>3, Zenon DEF StartMain, proc, jobs
  <2>2. arg[t] \in Process /\ MainOf[arg[t]] \in ProcThread /\ OwnerOf[MainOf[arg[t]]] = arg[t]
    BY <2>1, ProcFacts, Zenon DEF ProcInv, ProcTypes, Births, Spawning
  <2>3. procPc[MainOf[arg[t]]] = "unborn"
    BY <2>1, <2>2, Zenon DEF ProcInv, Births
  <2> QED
    BY <2>1, <2>2, <2>3, StartKeeps, Zenon
<1>4. CASE \E p \in Process : Spawn(t, p)
  BY <1>4, SpawnKeeps
<1>5. CASE ListThread(t) \/ ListMain(t)
  BY <1>5, ListKeeps
<1>6. CASE LastExits(t) \/ ProcessExit(t) \/ DieKilled(t)
  <2>1. PICK c \in Codes : /\ EnterExit(t, c) /\ procPc[t] \in {"user", "exit"}
                           /\ procPc[t] = "exit" => c = "zero"
    BY <1>6, Zenon DEF LastExits, ProcessExit, DieKilled, Calls, Codes
  <2>2. UNCHANGED <<born, handed, procKilled, exitCode, members, threads, exitWaiters, arg, todo, got>>
    BY <1>6, Zenon DEF LastExits, ProcessExit, DieKilled, jobs
  <2> QED
    BY <2>1, <2>2, ExitKeeps, Zenon
<1>7. CASE StoreCode(t)
  BY <1>7, StoreKeeps
<1>8. CASE WakeWaiters(t)
  BY <1>8, WakeKeeps
<1>9. CASE ThreadExit(t)
  BY <1>9, LeaveKeeps
<1> QED
  BY <1>1, <1>2, <1>3, <1>4, <1>5, <1>6, <1>7, <1>8, <1>9, Zenon DEF Kernel, ProcCall

\* The processes keep their invariant.
THEOREM ProcInvariant == ProcSpec => []ProcInv
<1>1. ProcInit => ProcInv
  <2> SUFFICES ASSUME ProcInit PROVE ProcInv
    OBVIOUS
  <2>1. \A u \in ProcThread : /\ procPc[u] = IF u = MainOf[Boot] THEN "user" ELSE "unborn"
                              /\ got[u] = "none" /\ arg[u] = NoProc
    BY DEF ProcInit
  <2>2. \A p \in Process : /\ procExited[p] = FALSE /\ exitCode[p] = "zero" /\ endCode[p] = "zero"
                           /\ threads[p] = IF p = Boot THEN {MainOf[p]} ELSE {}
    BY Zenon DEF ProcInit
  <2>3. Boot \in Process /\ MainOf[Boot] \in ProcThread /\ OwnerOf[MainOf[Boot]] = Boot
    BY ProcLifeAssumption
  <2>4. ProcTypes
    <3>1. /\ procPc \in [ProcThread -> Pc] /\ exitCode \in [Process -> Codes]
          /\ endCode \in [Process -> Codes] /\ got \in [ProcThread -> Codes \cup {"none"}]
      BY Zenon DEF ProcInit, Pc, Codes
    <3>2. /\ born \subseteq Process /\ handed \subseteq born /\ members \subseteq Process
          /\ threads \in [Process -> SUBSET ProcThread]
      BY <2>3, ProcLifeAssumption DEF ProcInit
    <3>3. /\ exitWaiters \in [Process -> SUBSET ProcThread]
          /\ arg \in [ProcThread -> Process \cup {NoProc}]
          /\ todo \in [ProcThread -> SUBSET (ProcThread \cup Process)]
      BY Zenon DEF ProcInit
    <3>4. procExited \in [Process -> BOOLEAN] /\ procKilled \in [Process -> BOOLEAN]
      BY Zenon DEF ProcInit
    <3> QED
      BY <3>1, <3>2, <3>3, <3>4, Zenon DEF ProcTypes
  <2>5. Births
    BY <2>1, <2>3, Zenon DEF Births, Spawning, ProcInit
  <2>6. Listed
    <3>1. \A p \in Process : \A u \in threads[p] : p = Boot /\ u = MainOf[Boot]
      BY <2>2, Zenon
    <3>2. \A t \in ProcThread : procPc[t] # "list"
      BY <2>1, Zenon
    <3> QED
      BY <2>1, <2>3, <3>1, <3>2, Zenon DEF Listed
  <2>7. Ends
    BY <2>1, <2>2, Zenon DEF Ends, Ending
  <2>8. AloneEnds
    BY <2>1, <2>2, Zenon DEF AloneEnds, ProcInit
  <2>9. \A u \in ProcThread : WaitsOf(u) /\ AnswersOf(u)
    BY <2>1, Zenon DEF WaitsOf, AnswersOf, Asking
  <2> QED
    BY <2>4, <2>5, <2>6, <2>7, <2>8, <2>9 DEF ProcInv
<1>2. ProcInv /\ [ProcNext]_procVars => ProcInv'
  <2> SUFFICES ASSUME ProcInv, [ProcNext]_procVars PROVE ProcInv'
    OBVIOUS
  <2>1. CASE ProcNext
    BY <2>1, ProcStep DEF ProcNext
  <2>2. CASE UNCHANGED procVars
    <3>1. /\ UNCHANGED <<born, handed, procExited, procKilled, exitCode, members, threads>>
          /\ UNCHANGED <<exitWaiters, procPc, arg, todo, endCode, got>>
      BY <2>2, Zenon DEF procVars
    <3>2. ProcTypes' /\ Births' /\ Listed'
      <4>1. ProcTypes'
        BY <3>1, Zenon DEF ProcInv, ProcTypes
      <4>2. Births' /\ Listed'
        BY <3>1, Zenon DEF ProcInv, Births, Listed
      <4> QED
        BY <4>1, <4>2
    <3>3. Ends' /\ AloneEnds'
      <4>1. Ends'
        BY <3>1, Zenon DEF ProcInv, Ends
      <4>2. \A p \in Process : Alone(p)' => Alone(p)
        BY <3>1, Zenon DEF Alone
      <4>3. AloneEnds'
        BY <3>1, <4>2, Zenon DEF ProcInv, AloneEnds
      <4> QED
        BY <4>1, <4>3
    <3>4. \A t \in ProcThread : WaitsOf(t)'
      BY <3>1, Zenon DEF ProcInv, WaitsOf
    <3>5. \A t \in ProcThread : AnswersOf(t)'
      BY <3>1, Zenon DEF ProcInv, AnswersOf, Alone
    <3> QED
      BY <3>2, <3>3, <3>4, <3>5 DEF ProcInv
  <2> QED
    BY <2>1, <2>2
<1> QED
  BY <1>1, <1>2, PTL DEF ProcSpec

\* exit_current and wait_process: for every number of processes and threads, a
\* process ends once, with one code, and that code is what a wait returns.
THEOREM ProcessEndsOnce == ProcSpec => []ProcessEnds
<1>1. ProcInv => ProcessEnds
  <2> SUFFICES ASSUME ProcInv PROVE ProcessEnds
    OBVIOUS
  <2>1. ASSUME NEW p \in Process
        PROVE  \A t, u \in {v \in Of(p) : procPc[v] \in {"code", "unpark", "waiters"}} : t = u
    BY ProcFacts DEF ProcInv, Ends, Ending
  <2>2. ExitOnce
    BY <2>1, Zenon DEF ProcInv, Ends, ExitOnce
  <2>3. WaitCode
    <3> SUFFICES ASSUME NEW t \in ProcThread, got[t] # "none", procPc[t] = "user", arg[t] # NoProc,
                        \A u \in Of(arg[t]) \ {MainOf[arg[t]]} : procPc[u] = "unborn"
                 PROVE  got[t] = endCode[arg[t]]
      BY Zenon DEF WaitCode
    <3>1. Alone(arg[t])
      BY Zenon DEF Alone
    <3> QED
      BY <3>1, Zenon DEF ProcInv, AnswersOf, Spawning
  <2> QED
    BY <2>2, <2>3 DEF ProcessEnds
<1> QED
  BY <1>1, ProcInvariant, PTL

\* No lost wake-up in wait_process: a blocked thread is registered, and if the
\* process has ended, the thread that will wake it is on its way.
THEOREM WaitersReleased == ProcSpec => []ProcWaitersServed
<1>1. ProcInv => ProcWaitersServed
  BY Zenon DEF ProcInv, WaitsOf, Ending, ProcWaitersServed
<1> QED
  BY <1>1, ProcInvariant, PTL
=============================================================================
