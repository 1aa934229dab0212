------------------------------- MODULE Tcp -------------------------------
(***************************************************************************)
(* The TCP state machine of libraries/net/src/tcp.rs, two sockets of it:   *)
(* "a" connects, "b" listens, and a network that loses, repeats and        *)
(* reorders segments lies between them.  The operators of the first part   *)
(* are the methods of TcpSocket: they take a socket and return the socket  *)
(* after the call and the segments to emit.  The actions are netd's use of *)
(* them (services/netd): frames coming in, the retransmission timer, and   *)
(* the tcp_send, tcp_recv and tcp_close requests of applications.          *)
(*                                                                         *)
(* Sequence numbers wrap at SeqSpace as the code's do at 2^32.  Every send *)
(* carries one byte, the n-th byte of a side being the number n.  Time is  *)
(* left out: a pending segment may be due at any poll.                     *)
(***************************************************************************)
EXTENDS Integers, Sequences, FiniteSets

CONSTANTS
    SeqSpace,     \* sequence numbers are modulo this (2^32 in the code)
    Iss,          \* initial sequence number of each side
    TX_SLOTS,     \* segments in flight (4 in the code)
    MAX_RETRIES,  \* resends of one segment (5 in the code)
    RX_CAP,       \* receive buffer, in segments (2.9 in the code)
    MaxSent,      \* bytes each side's application sends
    NetMax        \* segments in the network

Sides == {"a", "b"}

ASSUME TcpBounds ==
    /\ TX_SLOTS \in Nat \ {0}
    /\ MAX_RETRIES \in Nat
    /\ RX_CAP \in Nat \ {0}
    /\ MaxSent \in [Sides -> Nat]
    /\ NetMax \in Nat \ {0}
    /\ SeqSpace \in Nat
    /\ \A x \in Sides : 2 * (MaxSent[x] + 2) < SeqSpace
    /\ Iss \in [Sides -> 0 .. SeqSpace - 1]

VARIABLES
    sock,   \* the socket of each side; state "New" before netd made it and
            \* "None" once netd dropped it
    net,    \* the segments on their way
    sent,   \* bytes each application has sent
    got     \* bytes each application has received

tcpVars == <<sock, net, sent, got>>

----------------------------------------------------------------------------
(* TcpSocket.                                                              *)

Plus(n, k) == (n + k) % SeqSpace
Minus(n, m) == (n - m) % SeqSpace

PEND_FREE == [used |-> FALSE, seq |-> 0, data |-> <<>>, flags |-> {},
              retries |-> 0]

Pend(seq, data, flags) ==
    [used |-> TRUE, seq |-> seq, data |-> data, flags |-> flags,
     retries |-> 0]

AllFree == [i \in 1 .. TX_SLOTS |-> PEND_FREE]

Blank(state, iss) ==
    [state |-> state, reset |-> FALSE, peerClosed |-> FALSE,
     sndNxt |-> Plus(iss, 1), sndUna |-> iss, rcvNxt |-> 0,
     pend |-> AllFree, rx |-> <<>>, winLow |-> FALSE]

Seg(seq, ack, flags, data) ==
    [seq |-> seq, ack |-> ack, flags |-> flags, data |-> data]

AckSeg(s) == Seg(s.sndNxt, s.rcvNxt, {"ACK"}, <<>>)

RxWindow(s) == RX_CAP - Len(s.rx)
Inflight(s) == \E i \in 1 .. TX_SLOTS : s.pend[i].used
FreeSlots(s) == {i \in 1 .. TX_SLOTS : ~s.pend[i].used}
First(S) == CHOOSE i \in S : \A j \in S : i <= j

\* What a call returns: the socket after it and the segments to emit.
Result(s, out) == [s |-> s, out |-> out]

TcpConnect(iss) ==
    Result([Blank("SynSent", iss) EXCEPT !.pend[1] = Pend(iss, <<>>, {"SYN"})],
           {Seg(iss, 0, {"SYN"}, <<>>)})

OnSyn(s, seg) ==
    IF "SYN" \notin seg.flags \/ "ACK" \in seg.flags
    THEN Result(s, {})
    ELSE LET r == Plus(seg.seq, 1)
         IN  Result([s EXCEPT !.rcvNxt = r, !.state = "SynRcvd",
                        !.pend[1] = Pend(s.sndUna, <<>>, {"SYN", "ACK"})],
                    {Seg(s.sndUna, r, {"SYN", "ACK"}, <<>>)})

\* The sequence number after a pending segment; SYN and FIN count as one.
EndOf(p) ==
    Plus(p.seq, Len(p.data) + IF p.flags \cap {"SYN", "FIN"} # {} THEN 1 ELSE 0)

\* Cumulative acknowledgement: frees every segment it covers entirely; one
\* outside the window is ignored.
OnAck(s, seg) ==
    LET adv == Minus(seg.ack, s.sndUna)
    IN  IF "ACK" \notin seg.flags \/ adv > Minus(s.sndNxt, s.sndUna)
        THEN s
        ELSE [s EXCEPT
                !.pend = [i \in 1 .. TX_SLOTS |->
                    IF /\ s.pend[i].used
                       /\ Minus(EndOf(s.pend[i]), s.sndUna) <= adv
                    THEN PEND_FREE ELSE s.pend[i]],
                !.sndUna = seg.ack]

\* (mutant) Data the peer repeated are taken again.
TakesRepeated(s, seg) == seg.data # <<>> /\ Len(seg.data) <= RxWindow(s)

\* The payload is the next of the stream and fits as a whole.
Takes(s, seg) ==
    /\ seg.data # <<>>
    /\ seg.seq = s.rcvNxt
    /\ Len(seg.data) <= RxWindow(s)

TakeData(s, seg) ==
    LET rx == s.rx \o seg.data
    IN  [s EXCEPT !.rx = rx, !.rcvNxt = Plus(@, Len(seg.data)),
                  !.winLow = @ \/ RX_CAP - Len(rx) < 1]

OnSynRcvd(s, seg) ==
    IF "ACK" \notin seg.flags \/ seg.ack # s.sndNxt THEN Result(s, {})
    ELSE LET e == [s EXCEPT !.state = "Established"]
         IN  IF Takes(e, seg)
             THEN LET t == TakeData(e, seg) IN Result(t, {AckSeg(t)})
             ELSE Result(e, {})

OnSynSent(s, seg) ==
    IF {"SYN", "ACK"} \subseteq seg.flags /\ seg.ack = s.sndNxt
    THEN LET e == [s EXCEPT !.rcvNxt = Plus(seg.seq, 1),
                            !.state = "Established"]
         IN  Result(e, {AckSeg(e)})
    ELSE Result(s, {})

\* A FIN in order: the peer sends no more.
OnFin(s, seg) ==
    IF "FIN" \in seg.flags /\ Plus(seg.seq, Len(seg.data)) = s.rcvNxt
    THEN [s EXCEPT !.rcvNxt = Plus(@, 1), !.peerClosed = TRUE,
             !.state = IF @ = "Established" THEN "CloseWait" ELSE "Closed"]
    ELSE s

OnOpen(s, seg) ==
    IF seg.data # <<>> /\ seg.seq # s.rcvNxt
    THEN Result(s, {AckSeg(s)})
    ELSE LET t == IF Takes(s, seg) THEN TakeData(s, seg) ELSE s
             f == OnFin(t, seg)
             done == f.state = "FinWait1" /\ ~Inflight(f)
             e == IF done
                  THEN [f EXCEPT !.state =
                           IF f.peerClosed THEN "Closed" ELSE "FinWait2"]
                  ELSE f
         IN  Result(e, IF Takes(s, seg) \/ f # t THEN {AckSeg(e)} ELSE {})

OnSegment(s0, seg) ==
    IF "RST" \in seg.flags
    THEN Result([s0 EXCEPT !.state = "Closed", !.reset = TRUE,
                           !.pend = AllFree], {})
    ELSE LET s == OnAck(s0, seg)
         IN  CASE s.state = "SynRcvd" -> OnSynRcvd(s, seg)
               [] s.state = "SynSent" -> OnSynSent(s, seg)
               [] s.state \in {"Established", "FinWait1", "FinWait2"}
                    -> OnOpen(s, seg)
               [] s.state = "LastAck" ->
                    Result(IF Inflight(s) THEN s
                           ELSE [s EXCEPT !.state = "Closed"], {})
               [] OTHER -> Result(s, {})

SendByte(s, byte) ==
    Result([s EXCEPT !.pend[First(FreeSlots(s))] =
                         Pend(s.sndNxt, <<byte>>, {"ACK", "PSH"}),
                     !.sndNxt = Plus(@, 1)],
           {Seg(s.sndNxt, s.rcvNxt, {"ACK", "PSH"}, <<byte>>)})

CloseSock(s) ==
    Result([s EXCEPT !.pend[First(FreeSlots(s))] =
                         Pend(s.sndNxt, <<>>, {"FIN", "ACK"}),
                     !.sndNxt = Plus(@, 1),
                     !.state = IF @ = "Established" THEN "FinWait1"
                               ELSE "LastAck"],
           {Seg(s.sndNxt, s.rcvNxt, {"FIN", "ACK"}, <<>>)})

\* (mutant) The count of resends is not kept.
PollForever(s, due) ==
    LET i == CHOOSE k \in due : \A j \in due :
                 Minus(s.pend[k].seq, s.sndUna)
                     <= Minus(s.pend[j].seq, s.sndUna)
    IN  Result(s, {Seg(s.pend[i].seq, s.rcvNxt, s.pend[i].flags,
                       s.pend[i].data)})

\* The timer: of the segments due, the oldest goes out again; after
\* MAX_RETRIES the connection counts as reset.
Poll(s, due) ==
    LET i == CHOOSE k \in due : \A j \in due :
                 Minus(s.pend[k].seq, s.sndUna)
                     <= Minus(s.pend[j].seq, s.sndUna)
    IN  IF s.pend[i].retries >= MAX_RETRIES
        THEN Result([s EXCEPT !.state = "Closed", !.reset = TRUE,
                              !.pend = AllFree], {})
        ELSE Result([s EXCEPT !.pend[i].retries = @ + 1],
                    {Seg(s.pend[i].seq, s.rcvNxt, s.pend[i].flags,
                         s.pend[i].data)})

WindowUpdate(s) ==
    IF s.winLow /\ RxWindow(s) >= 1
    THEN LET u == [s EXCEPT !.winLow = FALSE] IN Result(u, {AckSeg(u)})
    ELSE Result(s, {})

----------------------------------------------------------------------------
(* netd and the network.                                                   *)

Peer(x) == IF x = "a" THEN "b" ELSE "a"

\* The segments of a call go to the network; what does not fit is lost.
Emit(n, x, out) ==
    LET segs == {[to |-> Peer(x), seg |-> g] : g \in out}
    IN  IF Cardinality(n \cup segs) <= NetMax THEN n \cup segs ELSE n

TcpInit ==
    /\ sock = [x \in Sides |->
                 Blank(IF x = "a" THEN "New" ELSE "Listen", Iss[x])]
    /\ net = {}
    /\ sent = [x \in Sides |-> 0]
    /\ got = [x \in Sides |-> 0]

Apply(x, r, n) ==
    /\ sock' = [sock EXCEPT ![x] = r.s]
    /\ net' = Emit(n, x, r.out)

\* The request that opens the connection from side a.
OpenConn ==
    /\ sock["a"].state = "New"
    /\ Apply("a", TcpConnect(Iss["a"]), net)
    /\ UNCHANGED <<sent, got>>

\* A frame arrives, and may arrive again.
Deliver(m) ==
    LET x == m.to
        r == CASE sock[x].state \in {"New", "None"} -> Result(sock[x], {})
               [] sock[x].state = "Listen" -> OnSyn(sock[x], m.seg)
               [] OTHER -> OnSegment(sock[x], m.seg)
    IN  /\ \E n \in {net, net \ {m}} : Apply(x, r, n)
        /\ UNCHANGED <<sent, got>>

Lose(m) ==
    /\ net' = net \ {m}
    /\ UNCHANGED <<sock, sent, got>>

TcpTimers(x) ==
    /\ sock[x].state \notin {"New", "Closed", "None"}
    /\ \E due \in (SUBSET {i \in 1 .. TX_SLOTS : sock[x].pend[i].used}) \ {{}} :
          Apply(x, Poll(sock[x], due), net)
    /\ UNCHANGED <<sent, got>>

TcpSend(x) ==
    /\ sock[x].state \in {"Established", "CloseWait"}
    /\ FreeSlots(sock[x]) # {}
    /\ sent[x] < MaxSent[x]
    /\ sent' = [sent EXCEPT ![x] = @ + 1]
    /\ Apply(x, SendByte(sock[x], sent[x] + 1), net)
    /\ UNCHANGED got

\* The application takes what there is and the window may open again.
TcpRecv(x) ==
    /\ sock[x].rx # <<>>
    /\ sock[x].state # "None"
    /\ got' = [got EXCEPT ![x] = @ + Len(sock[x].rx)]
    /\ Apply(x, WindowUpdate([sock[x] EXCEPT !.rx = <<>>]), net)
    /\ UNCHANGED sent

TcpClose(x) ==
    /\ sock[x].state \in {"Established", "CloseWait"}
    /\ FreeSlots(sock[x]) # {}
    /\ Apply(x, CloseSock(sock[x]), net)
    /\ UNCHANGED <<sent, got>>

\* netd forgets the socket: a connect, listen or close that took too long,
\* or the session that owned it ended.
Abandon(x) ==
    /\ sock[x].state \notin {"New", "None"}
    /\ sock' = [sock EXCEPT ![x] = Blank("None", 0)]
    /\ UNCHANGED <<net, sent, got>>

TcpNext ==
    \/ OpenConn
    \/ \E m \in net : Deliver(m) \/ Lose(m)
    \/ \E x \in Sides : TcpTimers(x) \/ TcpSend(x) \/ TcpRecv(x)
                        \/ TcpClose(x) \/ Abandon(x)

TcpSpec == TcpInit /\ [][TcpNext]_tcpVars

----------------------------------------------------------------------------
(* Properties.                                                             *)

Synchronised(x) ==
    sock[x].state \notin {"New", "Listen", "SynSent", "None"}

\* What an application has received and what waits for it is the peer's
\* stream from its start, each byte once and in order, whatever the network
\* does; and what a sender counts as acknowledged (and will not send again)
\* the peer has.
StreamIntact ==
    \A x \in Sides :
        /\ \A i \in 1 .. Len(sock[x].rx) : sock[x].rx[i] = got[x] + i
        /\ got[x] + Len(sock[x].rx) <= sent[Peer(x)]
        /\ (Synchronised(x) /\ sock[Peer(x)].state # "None")
              => Minus(sock[Peer(x)].sndUna, Iss[Peer(x)])
                   <= Minus(sock[x].rcvNxt, Iss[Peer(x)])

\* A segment does not stay in flight for ever: it is acknowledged, or the
\* connection ends.
FlightEnds ==
    \A x \in Sides :
        (Inflight(sock[x]) /\ sock[x].state \notin {"Closed", "None"})
            ~> (~Inflight(sock[x]) \/ sock[x].state \in {"Closed", "None"})

\* A connection that closed in good order (Closed, not reset) has delivered
\* all that was sent on it: FIN_WAIT_1 is left for CLOSED by the peer's FIN
\* together with the ACK of our own (docs/spec/tcp-states.md).
CloseDelivers ==
    \A x \in Sides :
        (sock[x].state = "Closed" /\ ~sock[x].reset
            /\ sock[Peer(x)].state \notin {"New", "Listen", "None"})
        => got[Peer(x)] + Len(sock[Peer(x)].rx) = sent[x]
=============================================================================
