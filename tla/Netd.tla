------------------------------- MODULE Netd -------------------------------
(***************************************************************************)
(* The network service's sessions and sockets (services/netd): which       *)
(* session owns which UDP socket and TCP connection, through sessions that *)
(* open and end, connects and listens that block the whole service while   *)
(* they wait, connections the peer resets, and clients that go away while  *)
(* a request of theirs is being served.  The connections themselves are    *)
(* module Tcp's; here one is opening, open or closed.                      *)
(*                                                                         *)
(* Left out: the contents of datagrams and streams, the DNS cache, ARP,    *)
(* ping and the counters, and the firewall profile of a session, which     *)
(* only turns requests into error replies.                                 *)
(***************************************************************************)
EXTENDS Integers, FiniteSets

CONSTANTS
    NET_CLIENTS,  \* session slots (MAX_CLIENTS, 8 in the code)
    UDP_SOCKS,    \* UDP sockets (4 in the code)
    TCP_CONNS,    \* TCP connections (4 in the code)
    Ports         \* UDP ports clients ask for, besides the resolver's

ASSUME NetdBounds ==
    /\ NET_CLIENTS \in Nat \ {0}
    /\ UDP_SOCKS \in Nat
    /\ TCP_CONNS \in Nat

VARIABLES
    clients,   \* the session slots in use
    gone,      \* those whose client closed its end
    udp,       \* the UDP sockets
    tcp,       \* the TCP connections
    at,        \* the session the loop is at
    serving,   \* what the service is doing for that session
    running    \* the service has not exited

netdVars == <<clients, gone, udp, tcp, at, serving, running>>

Session == 0 .. NET_CLIENTS - 1
DNS_SLOT == NET_CLIENTS
DNS_PORT == "dns"
Socks == 1 .. UDP_SOCKS
Conns == 1 .. TCP_CONNS
NoSock == [used |-> FALSE, owner |-> 0, port |-> DNS_PORT]
NoTcp == [state |-> "none", owner |-> 0]
NetdIdle == [what |-> "idle", conn |-> 0]
FirstOf(S) == CHOOSE n \in S : \A m \in S : n <= m

NetdInit ==
    /\ clients = {0}
    /\ gone = {}
    /\ udp = [i \in Socks |-> NoSock]
    /\ tcp = [i \in Conns |-> NoTcp]
    /\ at = 0
    /\ serving = NetdIdle
    /\ running = TRUE

----------------------------------------------------------------------------

NetdReady == running /\ serving.what = "idle"

\* A message of session at is taken up.
NetdRequest(k) ==
    /\ NetdReady
    /\ at = k
    /\ k \in clients

Answering == [what |-> "reply", conn |-> 0]
\* The same after a wait, inside which the pump takes in frames.
Waiting == [what |-> "wait", conn |-> 0]

\* The socket of a port: the session's own, or a free one if nobody has the
\* port; otherwise an error, and nothing changes.
UdpBind(port, k) ==
    LET free == {i \in Socks : ~udp[i].used}
    IN  IF free = {} \/ \E i \in Socks : udp[i].used /\ udp[i].port = port
        THEN udp
        ELSE [udp EXCEPT ![FirstOf(free)] =
                 [used |-> TRUE, owner |-> k, port |-> port]]

\* udp_send, udp_recv and udp_avail all bind the port they name.
UdpRequest(k) ==
    /\ NetdRequest(k)
    /\ \E port \in Ports \cup {DNS_PORT} : udp' = UdpBind(port, k)
    /\ serving' = Answering
    /\ UNCHANGED <<clients, gone, tcp, at, running>>

\* The resolver binds a port for itself.
ResolveName(k) ==
    /\ NetdRequest(k)
    /\ udp' = UdpBind(DNS_PORT, DNS_SLOT)
    /\ serving' = Waiting
    /\ UNCHANGED <<clients, gone, tcp, at, running>>

\* tcp_connect and tcp_listen take the first place that is empty or whose
\* connection is closed, and the service then waits for the outcome.
TcpOpen(k) ==
    /\ NetdRequest(k)
    /\ LET free == {i \in Conns : tcp[i].state \in {"none", "closed"}}
           i == FirstOf(free)
       IN  /\ free # {}
           /\ tcp' = [tcp EXCEPT ![i] = [state |-> "opening", owner |-> k]]
           /\ serving' = [what |-> "opening", conn |-> i]
    /\ UNCHANGED <<clients, gone, udp, at, running>>

\* The wait ends: established, closed by the peer, or too long (10 s for
\* connect, 30 s for listen).
TcpOpened ==
    /\ running
    /\ serving.what = "opening"
    /\ tcp' \in
         IF tcp[serving.conn].state = "closed"
         THEN {[tcp EXCEPT ![serving.conn] = NoTcp]}
         ELSE {[tcp EXCEPT ![serving.conn].state = "open"],
               [tcp EXCEPT ![serving.conn] = NoTcp]}
    /\ serving' = Answering
    /\ UNCHANGED <<clients, gone, udp, at, running>>

\* The pump takes in frames at the top of the loop and inside every wait:
\* one may reset a connection, or a timer may give it up.
ConnReset(i) ==
    /\ running
    /\ at = 0 \/ serving.what \in {"opening", "wait"}
    /\ tcp[i].state \in {"opening", "open"}
    /\ tcp' = [tcp EXCEPT ![i].state = "closed"]
    /\ UNCHANGED <<clients, gone, udp, at, serving, running>>

TcpOwn(i, k) == tcp[i].state # "none" /\ tcp[i].owner = k

\* Only the owner closes a connection; its place is free afterwards.
TcpCloseReq(k) ==
    /\ NetdRequest(k)
    /\ \E i \in Conns : TcpOwn(i, k) /\ tcp' = [tcp EXCEPT ![i] = NoTcp]
    /\ serving' = Waiting
    /\ UNCHANGED <<clients, gone, udp, at, running>>

\* Requests that change nothing here, and error replies; tcp_send and ping wait.
OtherRequest(k) ==
    /\ NetdRequest(k)
    /\ serving' = Waiting
    /\ UNCHANGED <<clients, gone, udp, tcp, at, running>>

\* The answer goes out; a client that is no longer there ends the service.
Answer ==
    /\ running
    /\ serving.what \in {"reply", "wait"}
    /\ IF at \in gone
       THEN running' = FALSE /\ UNCHANGED <<at, serving>>
       ELSE /\ at' = (at + 1) % NET_CLIENTS
            /\ serving' = NetdIdle
            /\ UNCHANGED running
    /\ UNCHANGED <<clients, gone, udp, tcp>>

NothingFrom ==
    /\ NetdReady
    /\ at' = (at + 1) % NET_CLIENTS
    /\ UNCHANGED <<clients, gone, udp, tcp, serving, running>>

\* open: the answer to it is sent without looking at the outcome.
NetOpen(k) ==
    /\ NetdRequest(k)
    /\ Session \ clients # {}
    /\ clients' = clients \cup {FirstOf(Session \ clients)}
    /\ at' = (at + 1) % NET_CLIENTS
    /\ UNCHANGED <<gone, udp, tcp, serving, running>>

ClientGoes(k) ==
    /\ k \in clients
    /\ gone' = gone \cup {k}
    /\ UNCHANGED <<clients, udp, tcp, at, serving, running>>

\* (mutant) Only the UDP sockets are given back.
LibertaUdp(k) ==
    /\ udp' = [i \in Socks |-> IF udp[i].used /\ udp[i].owner = k
                               THEN NoSock ELSE udp[i]]
    /\ tcp' = tcp

LibertaSessao(k) ==
    /\ udp' = [i \in Socks |-> IF udp[i].used /\ udp[i].owner = k
                               THEN NoSock ELSE udp[i]]
    /\ tcp' = [i \in Conns |-> IF tcp[i].owner = k THEN NoTcp ELSE tcp[i]]

\* PeerClosed on the session at; the service exits when session 0 is the
\* last to leave.
SessionEnds(k) ==
    /\ NetdRequest(k)
    /\ k \in gone
    /\ LibertaSessao(k)
    /\ clients' = clients \ {k}
    /\ gone' = gone \ {k}
    /\ running' = ~(k = 0 /\ clients = {0})
    /\ at' = (at + 1) % NET_CLIENTS
    /\ UNCHANGED serving

NetdNext ==
    \/ \E k \in Session :
          \/ UdpRequest(k) \/ ResolveName(k) \/ TcpOpen(k) \/ TcpCloseReq(k)
          \/ OtherRequest(k) \/ NetOpen(k) \/ ClientGoes(k) \/ SessionEnds(k)
    \/ TcpOpened \/ Answer \/ NothingFrom
    \/ \E i \in Conns : ConnReset(i)

NetdSpec == NetdInit /\ [][NetdNext]_netdVars

----------------------------------------------------------------------------
(* Properties.                                                             *)

\* Every socket belongs to a session that is there (the resolver's to no
\* session) and no port has two sockets: what one session left behind is
\* never the next one's, whose slot number is the same.
SocketsOwned ==
    /\ \A i \in Socks : udp[i].used =>
          /\ udp[i].owner \in clients \cup {DNS_SLOT}
          /\ \A j \in Socks \ {i} : udp[j].used => udp[j].port # udp[i].port
    /\ \A i \in Conns : tcp[i].state # "none" => tcp[i].owner \in clients
    /\ serving.what = "opening" => tcp[serving.conn].owner = at

\* No client gets the resolver's port (netd/src/main.rs:32).
DnsReserved ==
    \A i \in Socks :
        (udp[i].used /\ udp[i].port = DNS_PORT) => udp[i].owner = DNS_SLOT

\* The service ends with its last client, not before: a session that ends
\* only gives back its own sockets (netd/src/main.rs:6).
ExitsLast == ~running => clients \subseteq gone /\ Cardinality(clients) <= 1

\* A reset is reported by the next operation on the connection (error 4):
\* a closed connection keeps its place until its owner has heard.
ResetReported ==
    [][\A i \in Conns : tcp[i].state = "closed" /\ tcp'[i] # tcp[i]
                           => tcp[i].owner = at]_netdVars
=============================================================================
