------------------------------- MODULE SvcMgr -------------------------------
(***************************************************************************)
(* The service manager: it starts the services of a declared table in the  *)
(* order of their dependencies, waits for a service to announce that it is *)
(* ready before it starts the ones that depend on it, hands the client one *)
(* channel per connection, and restarts the echo service when it crashes.  *)
(* The echo service and its client are modelled with it.                   *)
(***************************************************************************)
EXTENDS Integers, Sequences, FiniteSets, SequencesExt

CONSTANTS
    Tables,         \* the tables for which the order of start is checked
    Requests,       \* REQUESTS of the client
    MaxAttempts,    \* MAX_ATTEMPTS of the client
    CrashAfter,     \* ECHO_CRASH_AFTER
    MaxRestarts     \* MAX_RESTARTS

ASSUME SvcBounds == {Requests, MaxAttempts, CrashAfter, MaxRestarts} \subseteq Nat

VARIABLES
    table,          \* the declared table
    mgr,            \* the manager: pc, position, announced services, restarts, exit code
    echo,           \* the echo process: pc, connection served, requests answered
    client,         \* the client process: pc, answers, attempts, failures, exit code
    ctl,            \* manager and echo: ready announced, connections to serve, ends open
    cctl,           \* manager and client: connect pending, answer pending
    conns,          \* the connections: ends open, request and reply pending
    fault           \* a start failed or an announcement came too late

svcVars == <<table, mgr, echo, client, ctl, cctl, conns, fault>>

-----------------------------------------------------------------------------
(* nexo_svcdep::ordem.  A table is a sequence of names and dependencies.   *)

Names(specs) == {specs[i].nome : i \in DOMAIN specs}

Position(specs, n) == CHOOSE i \in DOMAIN specs :
    specs[i].nome = n /\ \A j \in 1..(i - 1) : specs[j].nome # n

\* One pass over the table: whoever has all its dependencies written is
\* written, those of the same pass included.
OnePass(specs, written) ==
    LET Free(acc, i) ==
            IF /\ i \notin ToSet(acc)
               /\ \A d \in specs[i].depende : Position(specs, d) \in ToSet(acc)
              THEN Append(acc, i) ELSE acc
    IN  FoldLeft(Free, written, [i \in DOMAIN specs |-> i])

\* The passes are repeated until one writes nothing: n passes suffice.
AllPasses(specs) ==
    LET Again(acc, i) == OnePass(specs, acc)
    IN  FoldLeft(Again, <<>>, [i \in DOMAIN specs |-> i])

Ordem(specs) ==
    IF Cardinality(Names(specs)) # Len(specs) THEN [ok |-> FALSE, why |-> "Duplicado"]
    ELSE IF \E i \in DOMAIN specs : ~ (specs[i].depende \subseteq Names(specs))
      THEN [ok |-> FALSE, why |-> "Desconhecida"]
    ELSE IF Len(AllPasses(specs)) < Len(specs) THEN [ok |-> FALSE, why |-> "Ciclo"]
    ELSE [ok |-> TRUE, saida |-> AllPasses(specs)]

\* SERVICOS
Servicos ==
    << [nome |-> "echo-client", depende |-> {"echo"}],
       [nome |-> "echo", depende |-> {}] >>

-----------------------------------------------------------------------------

NoConn == [svc |-> "none", cli |-> "none", req |-> FALSE, rep |-> FALSE]

SvcInit ==
    /\ table \in Tables \cup {Servicos}
    /\ mgr = [pc |-> "resolve", k |-> 1, ready |-> {}, restarts |-> 0, code |-> 0, conn |-> 0]
    /\ echo = [pc |-> "none", conn |-> 0, served |-> 0]
    /\ client = [pc |-> "none", ok |-> 0, attempts |-> 0, failures |-> 0, conn |-> 0, code |-> 0]
    /\ ctl = [ready |-> FALSE, serve |-> <<>>, mgrEnd |-> FALSE, echoEnd |-> FALSE]
    /\ cctl = [connect |-> FALSE, answer |-> 0, mgrEnd |-> FALSE, cliEnd |-> FALSE]
    /\ conns = [n \in 1..MaxAttempts |-> NoConn]
    /\ fault = FALSE

\* exit_current marks the process as exited, and closes its handles later.
EchoExited == echo.pc \in {"dying", "gone"}
EchoGone == echo.pc = "gone"

\* The manager exits: its ends close.
MgrExit(code) ==
    /\ mgr' = [mgr EXCEPT !.pc = "exit", !.code = code]
    /\ ctl' = [ctl EXCEPT !.mgrEnd = FALSE]
    /\ cctl' = [cctl EXCEPT !.mgrEnd = FALSE]

\* The table is validated before anything starts.
Resolve ==
    /\ mgr.pc = "resolve"
    /\ IF Ordem(table).ok /\ table = Servicos
         THEN mgr' = [mgr EXCEPT !.pc = "start"] /\ UNCHANGED <<ctl, cctl>>
         ELSE MgrExit(38)
    /\ UNCHANGED <<table, echo, client, conns, fault>>

NextService(k) == table[Ordem(table).saida[k]]

HasDependents(n) == \E i \in DOMAIN table : n \in table[i].depende

\* iniciar: a control channel is made and the process is spawned on it.
SpawnEcho ==
    /\ echo' = [pc |-> "init", conn |-> 0, served |-> 0]
    /\ ctl' = [ready |-> FALSE, serve |-> <<>>, mgrEnd |-> TRUE, echoEnd |-> TRUE]

SpawnClient ==
    /\ client' = [client EXCEPT !.pc = "connect"]
    /\ cctl' = [cctl EXCEPT !.mgrEnd = TRUE, !.cliEnd = TRUE]

\* The next service of the order: skipped when a dependency is not ready.
StartService ==
    /\ mgr.pc = "start" /\ mgr.k <= Len(table)
    /\ LET d == NextService(mgr.k)
           wait == HasDependents(d.nome)
       IN  IF ~ (d.depende \subseteq mgr.ready)
             THEN /\ mgr' = [mgr EXCEPT !.k = @ + 1]
                  /\ UNCHANGED <<echo, ctl, client, cctl>>
             ELSE /\ IF d.nome = "echo" THEN SpawnEcho /\ UNCHANGED <<client, cctl>>
                                        ELSE SpawnClient /\ UNCHANGED <<echo, ctl>>
                  /\ mgr' = IF wait THEN [mgr EXCEPT !.pc = "await"]
                            ELSE [mgr EXCEPT !.k = @ + 1, !.ready = @ \cup {d.nome}]
    /\ UNCHANGED <<table, conns, fault>>

\* process_spawn fails: the service is passed over.
ServiceFails ==
    /\ mgr.pc = "start" /\ mgr.k <= Len(table)
    /\ NextService(mgr.k).depende \subseteq mgr.ready
    /\ mgr' = [mgr EXCEPT !.k = @ + 1]
    /\ fault' = TRUE
    /\ UNCHANGED <<table, echo, client, ctl, cctl, conns>>

\* The announcement came, or it did not.
Awaited(ready) ==
    [mgr EXCEPT !.pc = "start", !.k = @ + 1,
                !.ready = IF ready THEN @ \cup {"echo"} ELSE @]

\* esperar_prontidao: the announcement, or the end of the service.
AwaitReady ==
    /\ mgr.pc \in {"await", "await again"}
    /\ ctl.ready \/ ~ ctl.echoEnd
    /\ IF mgr.pc = "await"
         THEN mgr' = Awaited(ctl.ready) /\ ctl' = [ctl EXCEPT !.ready = FALSE] /\ UNCHANGED cctl
         ELSE IF ctl.ready
                THEN mgr' = [mgr EXCEPT !.pc = "create"] /\ ctl' = [ctl EXCEPT !.ready = FALSE]
                     /\ UNCHANGED cctl
                ELSE MgrExit(49)
    /\ UNCHANGED <<table, echo, client, conns, fault>>

\* esperar_prontidao: the deadline passes first.
AwaitTimeout ==
    /\ mgr.pc \in {"await", "await again"}
    /\ IF mgr.pc = "await" THEN mgr' = Awaited(FALSE) /\ UNCHANGED <<ctl, cctl>> ELSE MgrExit(49)
    /\ fault' = TRUE
    /\ UNCHANGED <<table, echo, client, conns>>

\* Everything is started: without an echo service or a client the manager ends.
AllStarted ==
    /\ mgr.pc = "start" /\ mgr.k > Len(table)
    /\ IF echo.pc = "none" THEN MgrExit(40)
       ELSE IF client.pc = "none" THEN MgrExit(41)
       ELSE mgr' = [mgr EXCEPT !.pc = "recv"] /\ UNCHANGED <<ctl, cctl>>
    /\ UNCHANGED <<table, echo, client, conns, fault>>

-----------------------------------------------------------------------------
(* The manager's loop.                                                     *)

\* A connect request arrives, or the client has ended.
MgrRecv ==
    /\ mgr.pc = "recv"
    /\ \/ /\ cctl.connect
          /\ cctl' = [cctl EXCEPT !.connect = FALSE]
          /\ mgr' = [mgr EXCEPT !.pc = "check"]
       \/ /\ ~ cctl.connect /\ ~ cctl.cliEnd
          /\ mgr' = [mgr EXCEPT !.pc = "wait client"]
          /\ UNCHANGED cctl
    /\ UNCHANGED <<table, echo, client, ctl, conns, fault>>

\* process_info: has the service exited?
MgrCheck ==
    /\ mgr.pc = "check"
    /\ mgr' = [mgr EXCEPT !.pc = IF EchoExited THEN "reap" ELSE "create"]
    /\ UNCHANGED <<table, echo, client, ctl, cctl, conns, fault>>

\* Mutant: the limit counts the restart about to be made.
MgrReapEarly ==
    /\ mgr.pc = "reap" /\ EchoGone
    /\ IF mgr.restarts + 1 >= MaxRestarts
         THEN MgrExit(43) /\ UNCHANGED <<echo, fault>>
         ELSE \/ /\ mgr' = [mgr EXCEPT !.pc = "await again", !.restarts = @ + 1]
                 /\ SpawnEcho /\ UNCHANGED <<cctl, fault>>
              \/ MgrExit(44) /\ fault' = TRUE /\ UNCHANGED echo
    /\ UNCHANGED <<table, client, conns>>

\* process_wait, then a new instance unless the limit of restarts is reached.
MgrReap ==
    /\ mgr.pc = "reap" /\ EchoGone
    /\ IF mgr.restarts >= MaxRestarts
         THEN MgrExit(43) /\ UNCHANGED <<echo, fault>>
         ELSE \/ /\ mgr' = [mgr EXCEPT !.pc = "await again", !.restarts = @ + 1]
                 /\ SpawnEcho /\ UNCHANGED <<cctl, fault>>
              \/ MgrExit(44) /\ fault' = TRUE /\ UNCHANGED echo
    /\ UNCHANGED <<table, client, conns>>

\* A channel is made; one end goes to the service.  If the service has closed
\* its control meanwhile, the client is told to try again.
MgrServe ==
    /\ mgr.pc = "create"
    /\ LET n == client.attempts
       IN  IF ctl.echoEnd
             THEN /\ conns' = [conns EXCEPT ![n] = [NoConn EXCEPT !.svc = "queued", !.cli = "held"]]
                  /\ ctl' = [ctl EXCEPT !.serve = Append(@, n)]
                  /\ mgr' = [mgr EXCEPT !.pc = "reply", !.conn = n]
                  /\ UNCHANGED cctl
             ELSE /\ cctl' = [cctl EXCEPT !.answer = -1]
                  /\ mgr' = [mgr EXCEPT !.pc = "recv"]
                  /\ UNCHANGED <<conns, ctl>>
    /\ UNCHANGED <<table, echo, client, fault>>

\* The other end goes to the client.
MgrReply ==
    /\ mgr.pc = "reply"
    /\ IF cctl.cliEnd
         THEN /\ cctl' = [cctl EXCEPT !.answer = mgr.conn]
              /\ mgr' = [mgr EXCEPT !.pc = "recv"] /\ UNCHANGED ctl
         ELSE MgrExit(46)
    /\ UNCHANGED <<table, echo, client, conns, fault>>

\* Mutant: the control channel stays open while the manager waits.
WaitClientOpen ==
    /\ mgr.pc = "wait client" /\ client.pc = "gone"
    /\ mgr' = [mgr EXCEPT !.pc = "wait echo"]
    /\ UNCHANGED <<table, echo, client, ctl, cctl, conns, fault>>

\* process_wait on the client, then the service's control is closed.
WaitClient ==
    /\ mgr.pc = "wait client" /\ client.pc = "gone"
    /\ ctl' = [ctl EXCEPT !.mgrEnd = FALSE]
    /\ mgr' = [mgr EXCEPT !.pc = "wait echo"]
    /\ UNCHANGED <<table, echo, client, cctl, conns, fault>>

WaitEcho ==
    /\ mgr.pc = "wait echo" /\ EchoGone
    /\ MgrExit(IF client.code # 0 THEN 48 ELSE mgr.restarts)
    /\ UNCHANGED <<table, echo, client, conns, fault>>

-----------------------------------------------------------------------------
(* The echo service.                                                       *)

\* Initialisation, then the announcement (best effort).
Announce ==
    /\ echo.pc = "init"
    /\ echo' = [echo EXCEPT !.pc = "control"]
    /\ ctl' = [ctl EXCEPT !.ready = ctl.mgrEnd]
    /\ UNCHANGED <<table, mgr, client, cctl, conns, fault>>

\* A connection to serve, or the end of the manager's control.
EchoControl ==
    /\ echo.pc = "control"
    /\ \/ /\ ctl.serve # <<>>
          /\ echo' = [echo EXCEPT !.pc = "client", !.conn = Head(ctl.serve)]
          /\ conns' = [conns EXCEPT ![Head(ctl.serve)].svc = "held"]
          /\ ctl' = [ctl EXCEPT !.serve = Tail(@)]
       \/ /\ ctl.serve = <<>> /\ ~ ctl.mgrEnd
          /\ echo' = [echo EXCEPT !.pc = "dying"]
          /\ UNCHANGED <<conns, ctl>>
    /\ UNCHANGED <<table, mgr, client, cctl, fault>>

\* The client's request: the service crashes on the one after CrashAfter.  A
\* client that has closed its end is passed over.
EchoReceive ==
    /\ echo.pc = "client"
    /\ conns[echo.conn].req \/ conns[echo.conn].cli = "closed"
    /\ echo' = [echo EXCEPT !.pc = IF ~ conns[echo.conn].req THEN "close"
                                   ELSE IF echo.served >= CrashAfter THEN "dying" ELSE "reply"]
    /\ conns' = [conns EXCEPT ![echo.conn].req = FALSE]
    /\ UNCHANGED <<table, mgr, client, ctl, cctl, fault>>

EchoReply ==
    /\ echo.pc = "reply"
    /\ conns' = [conns EXCEPT ![echo.conn].rep = conns[echo.conn].cli = "held"]
    /\ echo' = [echo EXCEPT !.pc = "close", !.served = @ + 1]
    /\ UNCHANGED <<table, mgr, client, ctl, cctl, fault>>

EchoClose ==
    /\ echo.pc = "close"
    /\ conns' = [conns EXCEPT ![echo.conn].svc = "closed"]
    /\ echo' = [echo EXCEPT !.pc = "control"]
    /\ UNCHANGED <<table, mgr, client, ctl, cctl, fault>>

\* The kernel closes the handles of the dying process, and the connections
\* left in its control channel.
EchoHandles ==
    /\ echo.pc = "dying"
    /\ echo' = [echo EXCEPT !.pc = "gone"]
    /\ conns' = [n \in DOMAIN conns |->
                   IF conns[n].svc \in {"held", "queued"} THEN [conns[n] EXCEPT !.svc = "closed"]
                   ELSE conns[n]]
    /\ ctl' = [ctl EXCEPT !.echoEnd = FALSE, !.serve = <<>>]
    /\ UNCHANGED <<table, mgr, client, cctl, fault>>

-----------------------------------------------------------------------------
(* The client.                                                             *)

\* The loop's test, and the request for a connection.
Connect ==
    /\ client.pc = "connect"
    /\ IF client.ok < Requests /\ client.attempts < MaxAttempts
         THEN IF cctl.mgrEnd
                THEN /\ client' = [client EXCEPT !.pc = "answer", !.attempts = @ + 1]
                     /\ cctl' = [cctl EXCEPT !.connect = TRUE]
                ELSE client' = [client EXCEPT !.pc = "dying", !.code = 80] /\ UNCHANGED cctl
         ELSE /\ client' = [client EXCEPT !.pc = "dying",
                    !.code = IF client.ok = Requests /\ client.failures >= 1 THEN 0 ELSE 83]
              /\ UNCHANGED cctl
    /\ UNCHANGED <<table, mgr, echo, ctl, conns, fault>>

\* The manager's answer: a channel, "try again", or the manager has ended.
Connected ==
    /\ client.pc = "answer"
    /\ \/ /\ cctl.answer > 0
          /\ client' = [client EXCEPT !.pc = "send", !.conn = cctl.answer]
       \/ cctl.answer = -1 /\ client' = [client EXCEPT !.pc = "connect"]
       \/ /\ cctl.answer = 0 /\ ~ cctl.mgrEnd
          /\ client' = [client EXCEPT !.pc = "dying", !.code = 81]
    /\ cctl' = [cctl EXCEPT !.answer = 0]
    /\ UNCHANGED <<table, mgr, echo, ctl, conns, fault>>

\* The echo request: the send fails when the service's end is closed.
SendEcho ==
    /\ client.pc = "send"
    /\ IF conns[client.conn].svc = "closed"
         THEN /\ client' = [client EXCEPT !.pc = "connect", !.failures = @ + 1]
              /\ conns' = [conns EXCEPT ![client.conn].cli = "closed"]
         ELSE /\ client' = [client EXCEPT !.pc = "echo"]
              /\ conns' = [conns EXCEPT ![client.conn].req = TRUE]
    /\ UNCHANGED <<table, mgr, echo, ctl, cctl, fault>>

\* The reply, or the service has crashed; either way the connection is closed.
RecvEcho ==
    /\ client.pc = "echo"
    /\ LET c == conns[client.conn]
       IN  /\ c.rep \/ c.svc = "closed"
           /\ client' = [client EXCEPT !.pc = "connect",
                                       !.ok = IF c.rep THEN @ + 1 ELSE @,
                                       !.failures = IF c.rep THEN @ ELSE @ + 1]
    /\ conns' = [conns EXCEPT ![client.conn].cli = "closed", ![client.conn].rep = FALSE]
    /\ UNCHANGED <<table, mgr, echo, ctl, cctl, fault>>

\* The kernel closes the handles of the dying client.
ClientHandles ==
    /\ client.pc = "dying"
    /\ client' = [client EXCEPT !.pc = "gone"]
    /\ cctl' = [cctl EXCEPT !.cliEnd = FALSE]
    /\ UNCHANGED <<table, mgr, echo, ctl, conns, fault>>

-----------------------------------------------------------------------------

SvcEnded ==
    /\ mgr.pc = "exit"
    /\ echo.pc \in {"none", "gone"}
    /\ client.pc \in {"none", "gone"}

MgrStep ==
    \/ Resolve \/ StartService \/ AwaitReady \/ AllStarted \/ MgrRecv \/ MgrCheck \/ MgrReap
    \/ MgrServe \/ MgrReply \/ WaitClient \/ WaitEcho
EchoStep == Announce \/ EchoControl \/ EchoReceive \/ EchoReply \/ EchoClose \/ EchoHandles
ClientStep == Connect \/ Connected \/ SendEcho \/ RecvEcho \/ ClientHandles

SvcNext == MgrStep \/ ServiceFails \/ AwaitTimeout \/ EchoStep \/ ClientStep

SvcSpec == SvcInit /\ [][SvcNext]_svcVars

-----------------------------------------------------------------------------
(* Properties.                                                             *)

\* The order of start is right: a table is refused exactly when a name is
\* repeated, a dependency is unknown or there is a cycle; otherwise every
\* service comes once, after all it depends on (nexo_svcdep::ordem).
OrdemRight ==
    LET N == DOMAIN table
        Edge(i, j) == table[j].nome \in table[i].depende
        \* a set of services in which each depends on another of the set
        Cyclic == \E S \in (SUBSET N) \ {{}} : \A i \in S : \E j \in S : Edge(i, j)
        Bad == \/ \E i, j \in N : i # j /\ table[i].nome = table[j].nome
               \/ \E i \in N : \E d \in table[i].depende : \A j \in N : table[j].nome # d
               \/ Cyclic
        r == Ordem(table)
    IN  /\ r.ok <=> ~ Bad
        /\ r.ok => /\ \A i \in N : \E k \in DOMAIN r.saida : r.saida[k] = i
                   /\ \A k, l \in DOMAIN r.saida : k < l => ~ Edge(r.saida[k], r.saida[l])

\* Comment of ordem: the order is stable, "entre serviços igualmente prontos,
\* vence quem foi declarado antes".  Two services that depend on the same ones
\* become ready together.
OrderStable ==
    LET r == Ordem(table)
    IN  r.ok => \A k, l \in DOMAIN r.saida :
                  /\ k < l
                  /\ table[r.saida[k]].depende = table[r.saida[l]].depende
                  => r.saida[k] < r.saida[l]

\* A service is started only once those it depends on have announced that they
\* are ready (fail closed, esperar_prontidao).
StartsReady ==
    client.pc # "none" /\ mgr.restarts = 0 => echo.pc \notin {"none", "init"}

\* Unless a start fails or an announcement is late, the client gets every
\* answer in spite of the crashes, and the manager's exit code is the number of
\* restarts that takes (MAX_RESTARTS and MAX_ATTEMPTS are not reached).
ServedInSpite ==
    mgr.pc = "exit" /\ ~ fault /\ table = Servicos =>
        /\ client.ok = Requests /\ client.code = 0
        /\ mgr.code = mgr.restarts
        /\ mgr.restarts = (Requests - 1) \div CrashAfter

\* The order of start is right, it is followed, and what was started serves to
\* the end.
ServicesSound == OrdemRight /\ StartsReady /\ ServedInSpite

\* Whatever fails once the manager has begun, it, the service and the client
\* all end: nobody waits for somebody who waits for them.
AllEnd == (mgr.pc # "resolve") ~> SvcEnded

=============================================================================
