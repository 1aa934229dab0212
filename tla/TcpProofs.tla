------------------------------ MODULE TcpProofs ------------------------------
(***************************************************************************)
(* The TCP state machine delivers the peer's stream (StreamIntact), for    *)
(* every size of the sequence space, every initial sequence number, number *)
(* of transmit slots, receive buffer and network.                          *)
(*                                                                         *)
(* Sequence numbers wrap, so the argument never compares two of them: it   *)
(* counts each one from the SYN of the stream it belongs to (Off), and the *)
(* bound of TcpBounds, that a stream is shorter than half the space, makes *)
(* these offsets ordinary numbers.  The inductive invariant TcpInv says    *)
(* what every segment carries, pending or in the network (Carries), that a *)
(* segment acknowledges no more than its sender has taken (Acks), where    *)
(* each side's send counters stand (SndOk) and what each side has taken    *)
(* (RcvOk).  The delicate part is a side that has not taken its peer's SYN *)
(* (Unopened): its rcv_nxt means nothing yet, so nothing it could have     *)
(* acknowledged may exist.                                                 *)
(***************************************************************************)
EXTENDS Tcp, WellFoundedInduction, TLAPS

(* The values the variables take.                                          *)
SeqNum == 0 .. SeqSpace - 1
Early == {"New", "Listen", "SynSent"}
Fins == {"FinWait1", "FinWait2", "LastAck", "Closed", "None"}
TcpStates == Early \cup Fins \cup {"SynRcvd", "Established", "CloseWait"}
TcpFlags == {{"SYN"}, {"SYN", "ACK"}, {"ACK"}, {"ACK", "PSH"}, {"FIN", "ACK"}}

Pending == [used : BOOLEAN, seq : SeqNum, data : Seq(Nat), flags : TcpFlags \cup {{}}, retries : Nat]
Socket == [state : TcpStates, reset : BOOLEAN, peerClosed : BOOLEAN,
           sndNxt : SeqNum, sndUna : SeqNum, rcvNxt : SeqNum,
           pend : [1 .. TX_SLOTS -> Pending], rx : Seq(Nat), winLow : BOOLEAN]
Segment == [seq : SeqNum, ack : SeqNum, flags : TcpFlags, data : Seq(Nat)]

\* A sequence number of the stream of side y, counted from its SYN.
Off(y, n) == Minus(n, Iss[y])

\* The types of the variables, and the bound on what applications send.
TcpTypes ==
    /\ sock \in [Sides -> Socket]
    /\ net \subseteq [to : Sides, seg : Segment]
    /\ sent \in [Sides -> Nat] /\ got \in [Sides -> Nat]
    /\ \A x \in Sides : sent[x] <= MaxSent[x]

\* What a segment p, pending or on its way, of side y carries.
Carries(y, p) ==
    /\ p.flags \in TcpFlags
    /\ "ACK" \in p.flags => sock[y].state \notin Early
    /\ "SYN" \in p.flags => Off(y, p.seq) = 0
    /\ "PSH" \notin p.flags => p.data = <<>>
    /\ "PSH" \in p.flags => \E n \in 1 .. sent[y] : p.data = <<n>> /\ Off(y, p.seq) = n
    /\ "FIN" \in p.flags => Off(y, p.seq) = sent[y] + 1 /\ sock[y].state \in Fins

\* What it acknowledges, the side it comes from has.
Acks(y, g) ==
    "ACK" \in g.flags /\ sock[y].state # "None" =>
        Off(Peer(y), g.ack) <= Off(Peer(y), sock[y].rcvNxt)

\* Side x's send counters: snd_nxt stands after its SYN, the bytes it sent
\* and its FIN if there is one, snd_una is not beyond it, and every pending
\* segment carries what it should.
SndOk(x) ==
    sock[x].state # "None" =>
        /\ Off(x, sock[x].sndNxt) \in {sent[x] + 1, sent[x] + 2}
        /\ sock[x].state \notin Fins => Off(x, sock[x].sndNxt) = sent[x] + 1
        /\ Off(x, sock[x].sndUna) <= Off(x, sock[x].sndNxt)
        /\ sock[x].state \in {"New", "Listen"} => Off(x, sock[x].sndUna) = 0 /\ sent[x] = 0
        /\ \A i \in 1 .. TX_SLOTS : sock[x].pend[i].used => Carries(x, sock[x].pend[i])

\* Side x has not taken its peer's SYN.
Unopened(x) ==
    /\ got[x] = 0 /\ sock[x].rx = <<>> /\ ~sock[x].peerClosed
    /\ sock[Peer(x)].state # "None" => Off(Peer(x), sock[Peer(x)].sndUna) = 0
    /\ \A m \in net : m.to = Peer(x) => "ACK" \notin m.seg.flags

\* It has, and expects what follows the bytes it took; what its peer counts
\* as acknowledged, it has.
Opened(x) ==
    /\ Off(Peer(x), sock[x].rcvNxt)
          = got[x] + Len(sock[x].rx) + (IF sock[x].peerClosed THEN 2 ELSE 1)
    /\ sock[Peer(x)].state # "None"
          => Off(Peer(x), sock[Peer(x)].sndUna) <= Off(Peer(x), sock[x].rcvNxt)

\* What side x has taken is its peer's stream from the start; once it took
\* the FIN it has taken all.
RcvOk(x) ==
    /\ \A i \in 1 .. Len(sock[x].rx) : sock[x].rx[i] = got[x] + i
    /\ got[x] + Len(sock[x].rx) <= sent[Peer(x)]
    /\ sock[x].peerClosed =>
          /\ sock[x].state \in {"CloseWait", "LastAck", "Closed"}
          /\ sock[Peer(x)].state \in Fins
          /\ got[x] + Len(sock[x].rx) = sent[Peer(x)]
    /\ sock[x].state \in Early => Unopened(x)
    /\ sock[x].state = "Closed" => Unopened(x) \/ Opened(x)
    /\ sock[x].state \notin Early \cup {"Closed", "None"} => Opened(x)

\* Every segment in the network is one its sender made.
NetOk == \A m \in net : Carries(Peer(m.to), m.seg) /\ Acks(Peer(m.to), m.seg)

\* The inductive invariant.
TcpInv == TcpTypes /\ NetOk /\ \A x \in Sides : SndOk(x) /\ RcvOk(x)

-----------------------------------------------------------------------------
(* Sequence numbers.                                                       *)

\* The assumptions on the constants, as the proofs use them.
LEMMA SpaceIs == /\ SeqSpace \in Nat /\ SeqSpace > 4 /\ TX_SLOTS \in Nat \ {0}
                 /\ RX_CAP \in Nat \ {0}
                 /\ \A x \in Sides : MaxSent[x] \in Nat /\ Iss[x] \in SeqNum
                                     /\ MaxSent[x] + 2 < SeqSpace
<1>1. "a" \in Sides
  BY DEF Sides
<1> QED
  BY <1>1, TcpBounds DEF SeqNum

\* The remainder, where the operand is off by at most one sequence space.
LEMMA ModIs ==
    ASSUME NEW n \in Int, 0 - SeqSpace <= n, n < 2 * SeqSpace
    PROVE  n % SeqSpace = IF n < 0 THEN n + SeqSpace
                          ELSE IF n < SeqSpace THEN n ELSE n - SeqSpace
<1> DEFINE q == n \div SeqSpace
           r == n % SeqSpace
<1>1. SeqSpace \in Nat /\ SeqSpace > 0
  BY SpaceIs
<1>2. q \in Int /\ r \in 0 .. SeqSpace - 1 /\ n = SeqSpace * q + r
  BY <1>1
<1> HIDE DEF q, r
<1>3. q \in {-1, 0, 1}
  <2>1. q < 2
    BY <1>1, <1>2
  <2>2. q > -2
    BY <1>1, <1>2
  <2> QED
    BY <1>2, <2>1, <2>2
<1>4. r = IF n < 0 THEN n + SeqSpace ELSE IF n < SeqSpace THEN n ELSE n - SeqSpace
  <2>1. CASE q = -1
    BY <1>1, <1>2, <2>1
  <2>2. CASE q = 0
    BY <1>1, <1>2, <2>2
  <2>3. CASE q = 1
    BY <1>1, <1>2, <2>3
  <2> QED
    BY <1>3, <2>1, <2>2, <2>3
<1> QED
  BY <1>4 DEF r

\* The offset of a sequence number, without the remainder.
LEMMA OffIs ==
    ASSUME NEW y \in Sides, NEW n \in SeqNum
    PROVE  /\ Off(y, n) \in SeqNum
           /\ Off(y, n) = IF n < Iss[y] THEN n - Iss[y] + SeqSpace ELSE n - Iss[y]
<1>1. SeqSpace \in Nat /\ Iss[y] \in SeqNum
  BY SpaceIs
<1>2. n - Iss[y] \in Int /\ 0 - SeqSpace <= n - Iss[y] /\ n - Iss[y] < 2 * SeqSpace
  BY <1>1 DEF SeqNum
<1>3. (n - Iss[y]) % SeqSpace = IF n - Iss[y] < 0 THEN n - Iss[y] + SeqSpace
                                ELSE IF n - Iss[y] < SeqSpace THEN n - Iss[y]
                                ELSE n - Iss[y] - SeqSpace
  BY <1>2, ModIs
<1> QED
  BY <1>1, <1>3 DEF Off, Minus, SeqNum

\* Two sequence numbers with one offset are the same.
LEMMA OffSame ==
    ASSUME NEW y \in Sides, NEW n \in SeqNum, NEW m \in SeqNum, Off(y, n) = Off(y, m)
    PROVE  n = m
<1>1. SeqSpace \in Nat /\ Iss[y] \in SeqNum
  BY SpaceIs
<1> QED
  BY <1>1, OffIs DEF SeqNum

\* The SYN is at offset 0.
LEMMA OffIss == \A y \in Sides : Off(y, Iss[y]) = 0
BY SpaceIs, OffIs DEF SeqNum

\* wrapping_add moves the offset by as much while the stream fits.
LEMMA OffPlus ==
    ASSUME NEW y \in Sides, NEW n \in SeqNum, NEW k \in Nat, Off(y, n) + k < SeqSpace
    PROVE  Plus(n, k) \in SeqNum /\ Off(y, Plus(n, k)) = Off(y, n) + k
<1>1. SeqSpace \in Nat /\ Iss[y] \in SeqNum
  BY SpaceIs
<1>2. /\ Off(y, n) \in SeqNum
      /\ Off(y, n) = IF n < Iss[y] THEN n - Iss[y] + SeqSpace ELSE n - Iss[y]
  BY OffIs
<1>3. n + k \in Int /\ 0 - SeqSpace <= n + k /\ n + k < 2 * SeqSpace
  BY <1>1, <1>2 DEF SeqNum
<1> DEFINE j == n + k
<1> HIDE DEF j
<1>7. j % SeqSpace = IF j < 0 THEN j + SeqSpace
                     ELSE IF j < SeqSpace THEN j ELSE j - SeqSpace
  <2>1. j \in Int /\ 0 - SeqSpace <= j /\ j < 2 * SeqSpace
    BY <1>3 DEF j
  <2> QED
    BY <2>1, ModIs
<1>8. j = n + k /\ Plus(n, k) = j % SeqSpace
  BY Zenon DEF Plus, j
<1>4. Plus(n, k) = IF j < 0 THEN j + SeqSpace
                   ELSE IF j < SeqSpace THEN j ELSE j - SeqSpace
  BY <1>7, <1>8, Zenon
<1>5. Plus(n, k) \in SeqNum
  BY <1>1, <1>3, <1>4, <1>8 DEF SeqNum
<1>9. PICK p \in SeqNum : p = Plus(n, k)
  BY <1>5
<1>6. Off(y, p) = IF p < Iss[y] THEN p - Iss[y] + SeqSpace ELSE p - Iss[y]
  BY OffIs
<1>10. Off(y, p) = Off(y, n) + k
  BY <1>1, <1>2, <1>4, <1>6, <1>8, <1>9 DEF SeqNum
<1> QED
  BY <1>9, <1>10

\* wrapping_add stays in the sequence space.
LEMMA PlusType == \A n \in SeqNum, k \in Nat : Plus(n, k) \in SeqNum
BY SpaceIs DEF SeqNum, Plus

\* wrapping_sub of two sequence numbers, in offsets.
LEMMA MinusOff ==
    ASSUME NEW y \in Sides, NEW n \in SeqNum, NEW m \in SeqNum
    PROVE  Minus(n, m) = IF Off(y, m) <= Off(y, n) THEN Off(y, n) - Off(y, m)
                         ELSE Off(y, n) - Off(y, m) + SeqSpace
<1>1. SeqSpace \in Nat /\ Iss[y] \in SeqNum
  BY SpaceIs
<1>2. /\ Off(y, n) \in SeqNum
      /\ Off(y, n) = IF n < Iss[y] THEN n - Iss[y] + SeqSpace ELSE n - Iss[y]
  BY OffIs
<1>3. /\ Off(y, m) \in SeqNum
      /\ Off(y, m) = IF m < Iss[y] THEN m - Iss[y] + SeqSpace ELSE m - Iss[y]
  BY OffIs
<1>4. n - m \in Int /\ 0 - SeqSpace <= n - m /\ n - m < 2 * SeqSpace
  BY <1>1 DEF SeqNum
<1>5. Minus(n, m) = IF n - m < 0 THEN n - m + SeqSpace
                    ELSE IF n - m < SeqSpace THEN n - m ELSE n - m - SeqSpace
  BY <1>4, ModIs DEF Minus
<1> QED
  BY <1>1, <1>2, <1>3, <1>5 DEF SeqNum

\* The two sides are each other's peer.
LEMMA Peers == /\ "a" \in Sides /\ "b" \in Sides
               /\ \A x \in Sides : Peer(x) \in Sides /\ Peer(Peer(x)) = x /\ Peer(x) # x
                                   /\ \A y \in Sides : y = x \/ y = Peer(x)
BY DEF Peer, Sides

-----------------------------------------------------------------------------
(* A step of one side.                                                     *)

\* What a step of side x that leaves it with socket s must keep for its peer.
Steps(x, s) ==
    /\ sock[x].state \notin Early => s.state \notin Early
    /\ sock[x].state \in Fins => s.state \in Fins
    /\ sock[x].state = "None" => s.state = "None"
    /\ s.state # "None" /\ sock[x].state \notin Early =>
          Off(Peer(x), sock[x].rcvNxt) <= Off(Peer(x), s.rcvNxt)
    /\ s.state # "None" /\ sock[Peer(x)].state # "None" =>
          /\ Unopened(Peer(x)) => Off(x, s.sndUna) = 0
          /\ Opened(Peer(x)) => Off(x, s.sndUna) <= Off(x, sock[Peer(x)].rcvNxt)

\* And what it sends and counts.
Sends(x, out) ==
    /\ net' \subseteq net \cup {[to |-> Peer(x), seg |-> g] : g \in out}
    /\ sent' \in [Sides -> Nat] /\ got' \in [Sides -> Nat]
    /\ \A y \in Sides : sent'[y] <= MaxSent[y]
    /\ sent'[Peer(x)] = sent[Peer(x)] /\ got'[Peer(x)] = got[Peer(x)]
    /\ sent[x] <= sent'[x]
    /\ sent'[x] # sent[x] => sock[x].state \notin Fins

\* A call in which the application sends nothing.
LEMMA QuietSends ==
    ASSUME TcpTypes, NEW x \in Sides, NEW out,
           net' \subseteq net \cup {[to |-> Peer(x), seg |-> g] : g \in out},
           UNCHANGED <<sent, got>>
    PROVE  Sends(x, out)
<1>1. sent' = sent /\ got' = got /\ sent[x] \in Nat
  BY DEF TcpTypes
<1> QED
  BY <1>1 DEF Sends, TcpTypes

\* A call that leaves the counters of the socket alone.
LEMMA SameSteps ==
    ASSUME TcpInv, NEW x \in Sides, NEW c, c = sock[x], NEW s,
           s.sndUna = c.sndUna, s.rcvNxt = c.rcvNxt,
           s.state = c.state \/ (s.state = "Closed" /\ c.state # "None")
    PROVE  Steps(x, s)
<1>1. Peer(x) \in Sides /\ Peer(Peer(x)) = x /\ c.rcvNxt \in SeqNum
  BY Peers DEF TcpInv, TcpTypes, Socket
<1>2. Off(Peer(x), c.rcvNxt) <= Off(Peer(x), s.rcvNxt)
  BY <1>1, OffIs, SpaceIs DEF SeqNum
<1>3. (Unopened(Peer(x)) /\ c.state # "None" => Off(x, s.sndUna) = 0)
      /\ (Opened(Peer(x)) /\ c.state # "None" => Off(x, s.sndUna) <= Off(x, sock[Peer(x)].rcvNxt))
  BY <1>1 DEF Unopened, Opened
<1>4. /\ c.state \notin Early => s.state \notin Early
      /\ c.state \in Fins => s.state \in Fins
      /\ c.state = "None" => s.state = "None"
      /\ s.state # "None" => c.state # "None"
  BY DEF Early, Fins
<1> QED
  BY <1>2, <1>3, <1>4, Zenon DEF Steps

\* What a segment carries stays true whatever its sender does next.
LEMMA CarriesKept ==
    ASSUME TcpTypes, NEW x \in Sides, NEW s, NEW out, sock'[x] = s, Steps(x, s),
           Sends(x, out), NEW p, Carries(x, p)
    PROVE  Carries(x, p)'
<1>1. sent[x] \in Nat /\ sent'[x] \in Nat
  BY DEF TcpTypes, Sends
<1> QED
  BY <1>1 DEF Carries, Steps, Sends

\* A step of one side keeps the invariant when its own socket and the
\* segments it emits are right: what the invariant says of the peer and of
\* the segments in the network follows.
LEMMA SideStep ==
    ASSUME TcpInv, NEW x \in Sides, NEW s \in Socket, NEW out \in SUBSET Segment,
           sock' = [sock EXCEPT ![x] = s], Steps(x, s), Sends(x, out),
           SndOk(x)', RcvOk(x)',
           \A g \in out : Carries(x, g)' /\ Acks(x, g)'
    PROVE  TcpInv'
<1> DEFINE P == Peer(x)
<1>1. P \in Sides /\ Peer(P) = x /\ P # x /\ \A y \in Sides : y = x \/ y = P
  BY Peers
<1> HIDE DEF P
<1>2. TcpTypes /\ NetOk /\ SndOk(P) /\ RcvOk(P)
  BY <1>1 DEF TcpInv
<1>3. sock'[x] = s /\ sock'[P] = sock[P] /\ sent'[P] = sent[P] /\ got'[P] = got[P]
  BY <1>1, <1>2 DEF TcpTypes, Sends, P
<1>4. TcpTypes'
  <2>1. \A g \in out : [to |-> P, seg |-> g] \in [to : Sides, seg : Segment]
    BY <1>1
  <2>2. net' \subseteq [to : Sides, seg : Segment]
    BY <1>2, <2>1 DEF Sends, TcpTypes, P
  <2>3. sock' \in [Sides -> Socket]
    BY <1>2 DEF TcpTypes
  <2> QED
    BY <2>2, <2>3 DEF Sends, TcpTypes
<1>5. ASSUME NEW p, Carries(P, p) PROVE Carries(P, p)'
  BY <1>3, <1>5 DEF Carries
<1>6. ASSUME NEW p, Carries(x, p) PROVE Carries(x, p)'
  BY <1>2, <1>3, <1>6, CarriesKept
<1>7. SndOk(P)'
  BY <1>2, <1>3, <1>5 DEF SndOk
<1>8. RcvOk(P)'
  <2>1. Unopened(P) /\ sock[P].state # "None" => Unopened(P)'
    <3> SUFFICES ASSUME Unopened(P), sock[P].state # "None" PROVE Unopened(P)'
      OBVIOUS
    <3>1. s.state # "None" => Off(x, s.sndUna) = 0
      BY DEF Steps, P
    <3>2. ASSUME NEW n \in net', n.to = x PROVE "ACK" \notin n.seg.flags
      <4>1. n \in net
        BY <1>1, <3>2 DEF Sends, P
      <4> QED
        BY <1>1, <3>2, <4>1 DEF Unopened
    <3> QED
      BY <1>1, <1>3, <3>1, <3>2 DEF Unopened, Off
  <2>2. Opened(P) /\ sock[P].state # "None" => Opened(P)'
    BY <1>1, <1>3 DEF Opened, Steps, Off, P
  <2>3. sent[x] \in Nat /\ sent'[x] \in Nat /\ sent[x] <= sent'[x] /\ got[P] \in Nat
        /\ Len(sock[P].rx) \in Nat
    BY <1>1, <1>2 DEF TcpTypes, Sends, Socket
  <2>4. sock[P].peerClosed => sent'[x] = sent[x] /\ s.state \in Fins
    BY <1>1, <1>2 DEF RcvOk, Steps, Sends
  <2>5. got[P] + Len(sock[P].rx) <= sent'[x]
    BY <1>1, <1>2, <2>3 DEF RcvOk
  <2> QED
    BY <1>1, <1>2, <1>3, <2>1, <2>2, <2>4, <2>5 DEF RcvOk, Early
<1>9. NetOk'
  <2> SUFFICES ASSUME NEW n \in net' PROVE Carries(Peer(n.to), n.seg)' /\ Acks(Peer(n.to), n.seg)'
    BY DEF NetOk
  <2>1. CASE n \in net /\ n.to = x
    <3>1. Carries(P, n.seg) /\ Acks(P, n.seg)
      BY <1>2, <2>1 DEF NetOk, P
    <3>2. Acks(P, n.seg)'
      BY <1>3, <3>1 DEF Acks
    <3> QED
      BY <1>5, <2>1, <3>1, <3>2 DEF P
  <2>2. CASE n \in net /\ n.to = P
    <3>1. Carries(x, n.seg) /\ Acks(x, n.seg)
      BY <1>1, <1>2, <2>2 DEF NetOk
    <3>2. Acks(x, n.seg)'
      <4> SUFFICES ASSUME "ACK" \in n.seg.flags, s.state # "None"
                   PROVE  Off(P, n.seg.ack) <= Off(P, s.rcvNxt)
        BY <1>3 DEF Acks, P, Off
      <4>1. sock[x].state \notin Early /\ sock[x].state # "None"
        BY <3>1 DEF Carries, Steps
      <4>2. /\ Off(P, n.seg.ack) <= Off(P, sock[x].rcvNxt)
            /\ Off(P, sock[x].rcvNxt) <= Off(P, s.rcvNxt)
        BY <3>1, <4>1 DEF Acks, Steps, P
      <4>3. n.seg.ack \in SeqNum /\ sock[x].rcvNxt \in SeqNum /\ s.rcvNxt \in SeqNum
        BY <1>2, <2>2 DEF TcpTypes, Segment, Socket
      <4>4. /\ Off(P, n.seg.ack) \in Int /\ Off(P, sock[x].rcvNxt) \in Int
            /\ Off(P, s.rcvNxt) \in Int
        BY <1>1, <4>3, OffIs, SpaceIs DEF SeqNum
      <4> QED
        BY <4>2, <4>4
    <3> QED
      BY <1>1, <1>6, <2>2, <3>1, <3>2
  <2>3. CASE \E g \in out : n = [to |-> P, seg |-> g]
    BY <1>1, <2>3
  <2>4. n \in net => n.to \in Sides
    BY <1>2 DEF TcpTypes
  <2> QED
    BY <1>1, <2>1, <2>2, <2>3, <2>4 DEF Sends, P
<1> QED
  BY <1>1, <1>4, <1>7, <1>8, <1>9 DEF TcpInv

-----------------------------------------------------------------------------
(* A segment arrives.                                                      *)

\* The socket once OnAck took the acknowledgement of a segment.
Acked(x, s) ==
    /\ s \in Socket
    /\ s.state = sock[x].state /\ s.peerClosed = sock[x].peerClosed
    /\ s.sndNxt = sock[x].sndNxt /\ s.rcvNxt = sock[x].rcvNxt /\ s.rx = sock[x].rx
    /\ \A i \in 1 .. TX_SLOTS : s.pend[i] = sock[x].pend[i] \/ s.pend[i] = PEND_FREE
    /\ Off(x, s.sndUna) <= Off(x, s.sndNxt)
    /\ sock[Peer(x)].state # "None" =>
          /\ Unopened(Peer(x)) => Off(x, s.sndUna) = 0
          /\ Opened(Peer(x)) => Off(x, s.sndUna) <= Off(x, sock[Peer(x)].rcvNxt)

\* A free slot of the transmit queue.
LEMMA FreeIs == PEND_FREE \in Pending /\ PEND_FREE.used = FALSE
BY SpaceIs DEF PEND_FREE, Pending, SeqNum

\* on_ack: an acknowledgement that is taken leaves snd_una where the peer
\* has confirmed, and one that is out of the window changes nothing.
LEMMA AckTaken ==
    ASSUME TcpInv, NEW m \in net,
           sock[m.to].state \notin {"New", "Listen", "None"}
    PROVE  Acked(m.to, OnAck(sock[m.to], m.seg))
<1> DEFINE x == m.to
           g == m.seg
           P == Peer(x)
           c == sock[x]
           s == OnAck(c, g)
<1>1. x \in Sides /\ g \in Segment /\ c \in Socket /\ P \in Sides /\ Peer(P) = x
  BY Peers DEF TcpInv, TcpTypes
<1>2. SndOk(x) /\ Carries(P, g) /\ Acks(P, g)
  BY <1>1 DEF TcpInv, NetOk
<1>3. g.ack \in SeqNum /\ c.sndNxt \in SeqNum /\ c.sndUna \in SeqNum
  BY <1>1 DEF Segment, Socket
<1>4. /\ Off(x, g.ack) \in SeqNum /\ Off(x, c.sndNxt) \in SeqNum
      /\ Off(x, c.sndUna) \in SeqNum
  BY <1>1, <1>3, OffIs
<1>5. Off(x, c.sndUna) <= Off(x, c.sndNxt)
  BY <1>2 DEF SndOk
<1>6. sock[P].state # "None" =>
          /\ Unopened(P) => Off(x, c.sndUna) = 0
          /\ Opened(P) => Off(x, c.sndUna) <= Off(x, sock[P].rcvNxt)
  BY <1>1 DEF Unopened, Opened
<1>7. CASE s = c
  BY <1>1, <1>5, <1>6, <1>7 DEF Acked
<1>8. CASE s # c
  <2> DEFINE adv == Minus(g.ack, c.sndUna)
             pend == [i \in 1 .. TX_SLOTS |->
                        IF c.pend[i].used /\ Minus(EndOf(c.pend[i]), c.sndUna) <= adv
                        THEN PEND_FREE ELSE c.pend[i]]
  <2>1. /\ "ACK" \in g.flags /\ ~ (adv > Minus(c.sndNxt, c.sndUna))
        /\ s = [c EXCEPT !.pend = pend, !.sndUna = g.ack]
    BY <1>8 DEF OnAck
  <2>2. pend \in [1 .. TX_SLOTS -> Pending]
        /\ \A i \in 1 .. TX_SLOTS : pend[i] = c.pend[i] \/ pend[i] = PEND_FREE
    BY <1>1, FreeIs, Zenon DEF Socket
  <2> HIDE DEF pend
  <2>3. Off(x, g.ack) <= Off(x, c.sndNxt)
    <3>1. adv = IF Off(x, c.sndUna) <= Off(x, g.ack) THEN Off(x, g.ack) - Off(x, c.sndUna)
                ELSE Off(x, g.ack) - Off(x, c.sndUna) + SeqSpace
      BY <1>1, <1>3, MinusOff
    <3>2. Minus(c.sndNxt, c.sndUna) = Off(x, c.sndNxt) - Off(x, c.sndUna)
      BY <1>1, <1>3, <1>5, MinusOff
    <3> HIDE DEF adv
    <3> QED
      BY <1>4, <1>5, <2>1, <3>1, <3>2, SpaceIs DEF SeqNum
  <2>4. s \in Socket /\ s.state = c.state /\ s.peerClosed = c.peerClosed
        /\ s.sndNxt = c.sndNxt /\ s.rcvNxt = c.rcvNxt /\ s.rx = c.rx
        /\ s.pend = pend /\ s.sndUna = g.ack
    <3> HIDE DEF s, c, g
    <3> QED
      BY <1>1, <1>3, <2>1, <2>2, Zenon DEF Socket
  <2>5. ~ Unopened(P)
    BY <1>1, <2>1 DEF Unopened
  <2>6. sock[P].state # "None" => Off(x, g.ack) <= Off(x, sock[P].rcvNxt)
    BY <1>1, <1>2, <2>1 DEF Acks
  <2> HIDE DEF s
  <2>7. Acked(x, s)
    BY <1>1, <2>2, <2>3, <2>4, <2>5, <2>6 DEF Acked
  <2> QED
    BY <2>7 DEF s
<1> QED
  BY <1>7, <1>8

\* The plain acknowledgement of an open socket says what the socket has.
LEMMA AckSegOk ==
    ASSUME NEW x \in Sides, NEW e \in Socket, sock'[x] = e, e.state \notin Early
    PROVE  AckSeg(e) \in Segment /\ Carries(x, AckSeg(e))' /\ Acks(x, AckSeg(e))'
<1>1. AckSeg(e) \in Segment
  BY DEF AckSeg, Seg, Segment, Socket, TcpFlags
<1>2. Carries(x, AckSeg(e))'
  BY DEF Carries, AckSeg, Seg, TcpFlags
<1>3. Acks(x, AckSeg(e))'
  <2>1. Off(Peer(x), e.rcvNxt) \in Int
    BY Peers, OffIs, SpaceIs DEF Socket, SeqNum
  <2> QED
    BY <2>1 DEF Acks, AckSeg, Seg, Off
<1> QED
  BY <1>1, <1>2, <1>3

\* A socket e that differs from the acknowledged one in what it received.
Received(x, s, e) ==
    /\ Acked(x, s) /\ e \in Socket
    /\ e.sndNxt = s.sndNxt /\ e.sndUna = s.sndUna /\ e.pend = s.pend
    /\ e.state \notin {"New", "Listen", "None"}
    /\ s.state \notin Early => e.state \notin Early
    /\ s.state \in Fins => e.state \in Fins
    /\ s.state \notin Early => Off(Peer(x), s.rcvNxt) <= Off(Peer(x), e.rcvNxt)

\* A segment taken by an open socket keeps the invariant if what the socket
\* has taken is right afterwards.
LEMMA ReceiveStep ==
    ASSUME TcpInv, NEW x \in Sides, sock[x].state \notin {"New", "Listen", "None"},
           NEW s, NEW e, Received(x, s, e),
           NEW out, out = {} \/ (out = {AckSeg(e)} /\ e.state \notin Early),
           sock' = [sock EXCEPT ![x] = e],
           net' \subseteq net \cup {[to |-> Peer(x), seg |-> g] : g \in out},
           UNCHANGED <<sent, got>>, RcvOk(x)'
    PROVE  TcpInv'
<1>1. TcpTypes /\ SndOk(x) /\ e \in Socket /\ Acked(x, s)
  BY DEF TcpInv, Received
<1>2. sock'[x] = e
  BY <1>1 DEF TcpTypes
<1>3. Steps(x, e)
  BY <1>1 DEF Steps, Received, Acked
<1>4. Sends(x, out)
  BY <1>1, QuietSends, Zenon
<1>5. SndOk(x)'
  <2>1. ASSUME NEW p, Carries(x, p) PROVE Carries(x, p)'
    BY <1>1, <1>2, <2>1 DEF Carries, Received, Acked
  <2>2. ASSUME NEW i \in 1 .. TX_SLOTS, e.pend[i].used PROVE Carries(x, e.pend[i])'
    <3>1. e.pend[i] = sock[x].pend[i]
      BY <1>1, <2>2, FreeIs DEF Received, Acked
    <3>2. Carries(x, sock[x].pend[i])
      BY <1>1, <2>2, <3>1 DEF SndOk
    <3>3. PICK p : p = e.pend[i]
      OBVIOUS
    <3>4. Carries(x, p)'
      BY <2>1, <3>1, <3>2, <3>3
    <3> QED
      BY <3>3, <3>4
  <2>3. /\ Off(x, e.sndNxt) \in {sent[x] + 1, sent[x] + 2}
        /\ e.state \notin Fins => Off(x, e.sndNxt) = sent[x] + 1
        /\ Off(x, e.sndUna) <= Off(x, e.sndNxt)
    BY <1>1 DEF SndOk, Received, Acked
  <2> QED
    BY <1>2, <2>2, <2>3 DEF SndOk, Off, Received
<1>6. out \in SUBSET Segment /\ \A g \in out : Carries(x, g)' /\ Acks(x, g)'
  BY <1>1, <1>2, AckSegOk
<1> QED
  BY <1>1, <1>3, <1>4, <1>5, <1>6, SideStep, Zenon

\* What side x may find in a segment that arrives while it is open.
LEMMA SegmentOf ==
    ASSUME TcpInv, NEW m \in net
    PROVE  LET x == m.to
               P == Peer(x)
           IN  /\ m \in [to : Sides, seg : Segment] /\ "RST" \notin m.seg.flags
               /\ "SYN" \in m.seg.flags => Off(P, m.seg.seq) = 0
               /\ "FIN" \in m.seg.flags =>
                     /\ m.seg.data = <<>> /\ Off(P, m.seg.seq) = sent[P] + 1
                     /\ sock[P].state \in Fins
               /\ m.seg.data # <<>> =>
                     /\ "FIN" \notin m.seg.flags
                     /\ \E n \in 1 .. sent[P] : m.seg.data = <<n>> /\ Off(P, m.seg.seq) = n
<1>1. m \in [to : Sides, seg : Segment] /\ Carries(Peer(m.to), m.seg)
  BY DEF TcpInv, TcpTypes, NetOk
<1>2. m.seg.flags \in TcpFlags
  BY <1>1 DEF Segment
<1> QED
  BY <1>1, <1>2 DEF Carries, TcpFlags

\* The receive buffer when it is empty.
LEMMA EmptyIs == <<>> \in Seq(Nat) /\ Len(<<>>) = 0
  OBVIOUS

\* One byte appended to the receive buffer.
LEMMA Snoc ==
    ASSUME NEW q \in Seq(Nat), NEW n \in Nat, NEW d, d = <<n>>
    PROVE  /\ Len(q \o d) = Len(q) + 1
           /\ \A i \in 1 .. Len(q) : (q \o d)[i] = q[i]
           /\ (q \o d)[Len(q) + 1] = n
<1>1. Len(q \o <<n>>) = Len(q) + 1
  OBVIOUS
<1>2. (q \o <<n>>)[Len(q) + 1] = n
  OBVIOUS
<1>3. \A i \in 1 .. Len(q) : (q \o <<n>>)[i] = q[i]
  OBVIOUS
<1> QED
  BY <1>1, <1>2, <1>3, Zenon

\* Data in order: the stream grows by its next byte.
LEMMA DataTaken ==
    ASSUME TcpInv, NEW m \in net, NEW s, Acked(m.to, s), Opened(m.to),
           s.state \in {"SynRcvd", "Established", "FinWait1", "FinWait2"},
           Takes(s, m.seg)
    PROVE  LET x == m.to
               P == Peer(x)
               t == TakeData(s, m.seg)
           IN  /\ t \in Socket /\ t.state = s.state /\ ~ t.peerClosed
               /\ t.sndNxt = s.sndNxt /\ t.sndUna = s.sndUna /\ t.pend = s.pend
               /\ \A i \in 1 .. Len(t.rx) : t.rx[i] = got[x] + i
               /\ got[x] + Len(t.rx) <= sent[P]
               /\ Off(P, t.rcvNxt) = got[x] + Len(t.rx) + 1
               /\ Off(P, t.rcvNxt) = Off(P, s.rcvNxt) + 1
<1> DEFINE x == m.to
           g == m.seg
           P == Peer(x)
           t == TakeData(s, g)
<1>1. x \in Sides /\ P \in Sides /\ g \in Segment /\ sock[x] \in Socket /\ s \in Socket
      /\ got[x] \in Nat /\ sent[P] \in Nat /\ sent[P] <= MaxSent[P] /\ RcvOk(x)
  BY Peers DEF TcpInv, TcpTypes, Acked
<1>2. PICK n \in 1 .. sent[P] : g.data = <<n>> /\ Off(P, g.seq) = n
  BY SegmentOf DEF Takes
<1>3. g.seq = s.rcvNxt /\ s.rx = sock[x].rx /\ s.rcvNxt = sock[x].rcvNxt
      /\ s.peerClosed = sock[x].peerClosed /\ s.state = sock[x].state
  BY DEF Takes, Acked
<1>4. ~ sock[x].peerClosed
  BY <1>1, <1>3 DEF RcvOk
<1>5. n = got[x] + Len(s.rx) + 1 /\ s.rcvNxt \in SeqNum /\ Off(P, s.rcvNxt) = n
  BY <1>1, <1>2, <1>3, <1>4 DEF Opened, Socket
<1>6. n + 1 < SeqSpace
  BY <1>1, SpaceIs
<1>7. Plus(s.rcvNxt, 1) \in SeqNum /\ Off(P, Plus(s.rcvNxt, 1)) = n + 1
  BY <1>1, <1>5, <1>6, OffPlus
<1>8. Len(g.data) = 1 /\ g.data \in Seq(Nat) /\ g.data[1] = n
  BY <1>1, <1>2 DEF Segment
<1>9. /\ t \in Socket /\ t.state = s.state /\ t.peerClosed = s.peerClosed
      /\ t.sndNxt = s.sndNxt /\ t.sndUna = s.sndUna /\ t.pend = s.pend
      /\ t.rx = s.rx \o g.data /\ t.rcvNxt = Plus(s.rcvNxt, 1)
  <2> HIDE DEF g
  <2>1. s.rx \o g.data \in Seq(Nat)
    BY <1>1, <1>8 DEF Socket
  <2>2. (s.winLow \/ RX_CAP - Len(s.rx \o g.data) < 1) \in BOOLEAN
    OBVIOUS
  <2> QED
    BY <1>1, <1>7, <1>8, <2>1, <2>2, Zenon DEF Socket, TakeData
<1>10. s.rx \in Seq(Nat) /\ Len(t.rx) = Len(s.rx) + 1
       /\ (\A i \in 1 .. Len(s.rx) : t.rx[i] = s.rx[i]) /\ t.rx[Len(s.rx) + 1] = n
  <2>1. s.rx \in Seq(Nat)
    BY <1>1 DEF Socket
  <2> HIDE DEF g, t
  <2>2. /\ Len(s.rx \o g.data) = Len(s.rx) + 1
        /\ \A i \in 1 .. Len(s.rx) : (s.rx \o g.data)[i] = s.rx[i]
        /\ (s.rx \o g.data)[Len(s.rx) + 1] = n
    <3>1. n \in Nat /\ g.data = <<n>>
      BY <1>1, <1>2
    <3> QED
      BY <2>1, <3>1, Snoc, Zenon
  <2> QED
    BY <1>9, <2>1, <2>2, Zenon
<1>11. \A i \in 1 .. Len(s.rx) : s.rx[i] = got[x] + i
  BY <1>1, <1>3 DEF RcvOk
<1> HIDE DEF t
<1>12. \A i \in 1 .. Len(t.rx) : t.rx[i] = got[x] + i
  <2> SUFFICES ASSUME NEW i \in 1 .. Len(t.rx) PROVE t.rx[i] = got[x] + i
    OBVIOUS
  <2>1. Len(s.rx) \in Nat
    BY <1>10
  <2>2. CASE i \in 1 .. Len(s.rx)
    BY <1>10, <1>11, <2>2
  <2>3. CASE i = Len(s.rx) + 1
    BY <1>1, <1>5, <1>10, <2>1, <2>3
  <2> QED
    BY <1>10, <2>1, <2>2, <2>3
<1>13. got[x] + Len(t.rx) <= sent[P] /\ Off(P, t.rcvNxt) = got[x] + Len(t.rx) + 1
       /\ Off(P, t.rcvNxt) = Off(P, s.rcvNxt) + 1
  BY <1>1, <1>5, <1>7, <1>9, <1>10
<1> QED
  BY <1>3, <1>4, <1>9, <1>12, <1>13, Zenon DEF t

\* A FIN in order: the peer sent no more than was received.
LEMMA FinTaken ==
    ASSUME TcpInv, NEW m \in net, NEW s, Acked(m.to, s), Opened(m.to),
           s.state \in {"Established", "FinWait1", "FinWait2"},
           "FIN" \in m.seg.flags, Plus(m.seg.seq, Len(m.seg.data)) = s.rcvNxt
    PROVE  LET x == m.to
               P == Peer(x)
               f == OnFin(s, m.seg)
           IN  /\ f \in Socket /\ f.state \in {"CloseWait", "Closed"} /\ f.peerClosed
               /\ f.state = "CloseWait" => s.state = "Established"
               /\ f.sndNxt = s.sndNxt /\ f.sndUna = s.sndUna /\ f.pend = s.pend
               /\ f.rx = s.rx /\ sock[P].state \in Fins
               /\ got[x] + Len(f.rx) = sent[P]
               /\ Off(P, f.rcvNxt) = got[x] + Len(f.rx) + 2
               /\ Off(P, f.rcvNxt) = Off(P, s.rcvNxt) + 1
<1> DEFINE x == m.to
           g == m.seg
           P == Peer(x)
           f == OnFin(s, g)
<1>1. x \in Sides /\ P \in Sides /\ g \in Segment /\ sock[x] \in Socket /\ s \in Socket
      /\ got[x] \in Nat /\ sent[P] \in Nat /\ sent[P] <= MaxSent[P] /\ RcvOk(x)
  BY Peers DEF TcpInv, TcpTypes, Acked
<1>2. g.data = <<>> /\ Off(P, g.seq) = sent[P] + 1 /\ sock[P].state \in Fins
  BY SegmentOf
<1>3. s.rx = sock[x].rx /\ s.rcvNxt = sock[x].rcvNxt
      /\ s.peerClosed = sock[x].peerClosed /\ s.state = sock[x].state
  BY DEF Acked
<1>4. ~ sock[x].peerClosed /\ Len(s.rx) \in Nat
  BY <1>1, <1>3 DEF RcvOk, Socket
<1>5. sent[P] + 2 < SeqSpace /\ g.seq \in SeqNum /\ s.rcvNxt \in SeqNum
  BY <1>1, SpaceIs DEF Segment, Socket
<1>6. Off(P, s.rcvNxt) = sent[P] + 1
  <2>1. Len(g.data) = 0
    BY <1>2
  <2>2. PICK k \in Nat : k = 0
    OBVIOUS
  <2>3. Off(P, Plus(g.seq, k)) = Off(P, g.seq) + k
    <3>1. Off(P, g.seq) + k < SeqSpace
      BY <1>1, <1>2, <1>5, <2>2, SpaceIs
    <3> QED
      BY <1>1, <1>5, <2>2, <3>1, OffPlus, Zenon
  <2> QED
    BY <1>1, <1>2, <2>1, <2>2, <2>3
<1>7. got[x] + Len(s.rx) = sent[P]
  <2>1. Off(P, sock[x].rcvNxt) = got[x] + Len(sock[x].rx) + 1
    BY <1>4 DEF Opened
  <2> QED
    BY <1>1, <1>3, <1>4, <1>6, <2>1
<1>8. Plus(s.rcvNxt, 1) \in SeqNum /\ Off(P, Plus(s.rcvNxt, 1)) = sent[P] + 2
  BY <1>1, <1>5, <1>6, OffPlus
<1>9. /\ f \in Socket /\ f.rx = s.rx /\ f.rcvNxt = Plus(s.rcvNxt, 1) /\ f.peerClosed = TRUE
      /\ f.sndNxt = s.sndNxt /\ f.sndUna = s.sndUna /\ f.pend = s.pend
      /\ f.state = IF s.state = "Established" THEN "CloseWait" ELSE "Closed"
  <2>1. f = [s EXCEPT !.rcvNxt = Plus(s.rcvNxt, 1), !.peerClosed = TRUE,
                      !.state = IF s.state = "Established" THEN "CloseWait" ELSE "Closed"]
    BY DEF OnFin
  <2> HIDE DEF f, g
  <2> QED
    BY <1>1, <1>8, <2>1, Zenon DEF Socket, TcpStates, Fins
<1> HIDE DEF f
<1>10. got[x] + Len(f.rx) = sent[P] /\ Off(P, f.rcvNxt) = got[x] + Len(f.rx) + 2
       /\ Off(P, f.rcvNxt) = Off(P, s.rcvNxt) + 1
  BY <1>1, <1>4, <1>6, <1>7, <1>8, <1>9
<1> QED
  BY <1>2, <1>9, <1>10 DEF f

\* A socket that took nothing of the segment but its acknowledgement: its
\* state may have moved on.
LEMMA NothingTaken ==
    ASSUME TcpInv, NEW x \in Sides, sock[x].state \notin {"New", "Listen", "None"},
           NEW s, Acked(x, s), NEW e, NEW q \in TcpStates, e = [s EXCEPT !.state = q],
           \/ q = s.state
           \/ s.state = "SynRcvd" /\ q = "Established"
           \/ s.state = "FinWait1" /\ q = "FinWait2"
           \/ s.state = "LastAck" /\ q = "Closed",
           sock' = [sock EXCEPT ![x] = e], UNCHANGED <<sent, got>>,
           net' \subseteq net \/ s.state \notin {"SynSent", "Closed"}
    PROVE  Received(x, s, e) /\ RcvOk(x)'
<1> DEFINE P == Peer(x)
<1>1. P \in Sides /\ P # x /\ s \in Socket /\ RcvOk(x) /\ sock[x] \in Socket /\ TcpTypes
  BY Peers DEF TcpInv, TcpTypes, Acked
<1>2. s.state = sock[x].state /\ s.rx = sock[x].rx /\ s.rcvNxt = sock[x].rcvNxt
      /\ s.peerClosed = sock[x].peerClosed
  BY DEF Acked
<1>3. /\ e \in Socket /\ e.state = q /\ e.sndNxt = s.sndNxt /\ e.sndUna = s.sndUna
      /\ e.pend = s.pend /\ e.rx = s.rx /\ e.rcvNxt = s.rcvNxt /\ e.peerClosed = s.peerClosed
  BY <1>1 DEF Socket
<1>4. Off(P, s.rcvNxt) <= Off(P, e.rcvNxt)
  BY <1>1, <1>3, OffIs, SpaceIs DEF Socket, SeqNum
<1>5. Received(x, s, e)
  BY <1>2, <1>3, <1>4 DEF Received, Early, Fins
<1>6. RcvOk(x)'
  <2>1. sock'[x] = e /\ sock'[P] = sock[P] /\ sent' = sent /\ got' = got
    BY <1>1 DEF TcpTypes
  <2>2. Opened(x) => Opened(x)'
    BY <1>2, <1>3, <2>1, Zenon DEF Opened, Off, P
  <2>3. Unopened(x) /\ net' \subseteq net => Unopened(x)'
    BY <1>2, <1>3, <2>1, Zenon DEF Unopened, Off, P
  <2>4. sock[x].peerClosed => q \in {"CloseWait", "LastAck", "Closed"}
    BY <1>1, <1>2 DEF RcvOk
  <2> QED
    BY <1>1, <1>2, <1>3, <2>1, <2>2, <2>3, <2>4 DEF RcvOk, Early, P
<1> QED
  BY <1>5, <1>6

\* The network gains no segment but the ones emitted.
LEMMA EmitIs ==
    ASSUME NEW n, NEW x, NEW out
    PROVE  Emit(n, x, out) \subseteq n \cup {[to |-> Peer(x), seg |-> g] : g \in out}
BY DEF Emit

\* Side x, open, takes a segment.
LEMMA OpenTakes ==
    ASSUME TcpInv, NEW m \in net, NEW s, Acked(m.to, s),
           s.state \in {"Established", "FinWait1", "FinWait2"},
           NEW n \in SUBSET net, Apply(m.to, OnOpen(s, m.seg), n), UNCHANGED <<sent, got>>
    PROVE  TcpInv'
<1> DEFINE x == m.to
           g == m.seg
           P == Peer(x)
           r == OnOpen(s, g)
<1>1. x \in Sides /\ P \in Sides /\ P # x /\ s \in Socket /\ TcpTypes /\ RcvOk(x)
  BY Peers, SegmentOf DEF TcpInv, Acked
<1>2. s.state = sock[x].state
  BY DEF Acked
<1>3. Opened(x) /\ sock[x].state \notin {"New", "Listen", "None"}
  BY <1>1, <1>2 DEF RcvOk, Early
<1>4. sock' = [sock EXCEPT ![x] = r.s]
      /\ net' \subseteq net \cup {[to |-> P, seg |-> h] : h \in r.out}
  BY EmitIs DEF Apply
<1>5. CASE g.data # <<>> /\ g.seq # s.rcvNxt
  <2>1. r.s = s /\ r.out = {AckSeg(s)}
    BY <1>5 DEF OnOpen, Result
  <2>2. s = [s EXCEPT !.state = s.state] /\ s.state \in TcpStates
    BY <1>1 DEF Socket
  <2>3. Received(x, s, s) /\ RcvOk(x)'
    BY <1>1, <1>3, <1>4, <2>1, <2>2, NothingTaken, Zenon
  <2> QED
    BY <1>1, <1>3, <1>4, <2>1, <2>3, ReceiveStep, Zenon DEF Early
<1>6. CASE ~ (g.data # <<>> /\ g.seq # s.rcvNxt)
  <2> DEFINE t == IF Takes(s, g) THEN TakeData(s, g) ELSE s
             f == OnFin(t, g)
             e == IF f.state = "FinWait1" /\ ~Inflight(f)
                  THEN [f EXCEPT !.state = IF f.peerClosed THEN "Closed" ELSE "FinWait2"]
                  ELSE f
  <2>1. r.s = e /\ (r.out = {} \/ r.out = {AckSeg(e)})
    BY <1>6 DEF OnOpen, Result
  <2> HIDE DEF r
  <2>2. CASE Takes(s, g)
    <3>1. t = TakeData(s, g) /\ "FIN" \notin g.flags
      BY <2>2, SegmentOf DEF Takes
    <3>2. f = t
      BY <3>1 DEF OnFin
    <3>3. /\ t \in Socket /\ t.state = s.state /\ ~ t.peerClosed
          /\ t.sndNxt = s.sndNxt /\ t.sndUna = s.sndUna /\ t.pend = s.pend
          /\ \A i \in 1 .. Len(t.rx) : t.rx[i] = got[x] + i
          /\ got[x] + Len(t.rx) <= sent[P]
          /\ Off(P, t.rcvNxt) = got[x] + Len(t.rx) + 1
          /\ Off(P, t.rcvNxt) = Off(P, s.rcvNxt) + 1
      BY <1>3, <2>2, <3>1, DataTaken
    <3> HIDE DEF t, f
    <3>4. /\ e \in Socket /\ e.state \in {"Established", "FinWait1", "FinWait2"}
          /\ s.state # "Established" => e.state # "Established"
          /\ e.sndNxt = s.sndNxt /\ e.sndUna = s.sndUna /\ e.pend = s.pend
          /\ e.rx = t.rx /\ e.rcvNxt = t.rcvNxt /\ ~ e.peerClosed
      BY <3>2, <3>3 DEF Socket, TcpStates, Fins
    <3> HIDE DEF e
    <3>5. s.rcvNxt \in SeqNum /\ Off(P, s.rcvNxt) \in Int
      BY <1>1, OffIs, SpaceIs DEF Socket, SeqNum
    <3>6. Received(x, s, e)
      BY <1>2, <3>3, <3>4, <3>5 DEF Received, Early, Fins
    <3>7. sock'[x] = e /\ sock'[P] = sock[P] /\ sent' = sent /\ got' = got
      BY <1>1, <1>4, <2>1 DEF TcpTypes
    <3>8. Opened(x)'
      <4>1. sock[P].state # "None" => Off(P, sock[P].sndUna) <= Off(P, s.rcvNxt)
        BY <1>3 DEF Opened, Acked
      <4>2. Off(P, sock[P].sndUna) \in Int
        <5>1. sock[P].sndUna \in SeqNum
          BY <1>1 DEF TcpTypes, Socket
        <5>2. Off(P, sock[P].sndUna) \in SeqNum
          BY <1>1, <5>1, OffIs
        <5> QED
          BY <5>2, SpaceIs DEF SeqNum
      <4>3. sock[P].state # "None" => Off(P, sock[P].sndUna) <= Off(P, e.rcvNxt)
        BY <3>3, <3>4, <3>5, <4>1, <4>2
      <4> QED
        BY <3>3, <3>4, <3>7, <4>3 DEF Opened, Off, P
    <3>9. RcvOk(x)'
      BY <3>3, <3>4, <3>7, <3>8 DEF RcvOk, P, Early
    <3> QED
      BY <1>1, <1>3, <1>4, <2>1, <3>4, <3>6, <3>9, ReceiveStep, Zenon DEF Early
  <2>3. CASE ~ Takes(s, g) /\ "FIN" \in g.flags /\ Plus(g.seq, Len(g.data)) = s.rcvNxt
    <3>1. t = s /\ f = OnFin(s, g)
      BY <2>3
    <3> HIDE DEF t, f
    <3>3. /\ f \in Socket /\ f.state \in {"CloseWait", "Closed"} /\ f.peerClosed
          /\ f.state = "CloseWait" => s.state = "Established"
          /\ f.sndNxt = s.sndNxt /\ f.sndUna = s.sndUna /\ f.pend = s.pend
          /\ f.rx = s.rx /\ sock[P].state \in Fins
          /\ got[x] + Len(f.rx) = sent[P]
          /\ Off(P, f.rcvNxt) = got[x] + Len(f.rx) + 2
          /\ Off(P, f.rcvNxt) = Off(P, s.rcvNxt) + 1
      BY <1>3, <2>3, <3>1, FinTaken
    <3>4. e = f
      <4>1. f.state # "FinWait1"
        BY <3>3, Zenon
      <4> QED
        BY <4>1, Zenon
    <3> HIDE DEF e
    <3>5. s.rcvNxt \in SeqNum /\ Off(P, s.rcvNxt) \in Int
      BY <1>1, OffIs, SpaceIs DEF Socket, SeqNum
    <3>6. Received(x, s, f)
      BY <1>2, <3>3, <3>5 DEF Received, Early, Fins
    <3>7. sock'[x] = f /\ sock'[P] = sock[P] /\ sent' = sent /\ got' = got
      <4>1. sock'[x] = e /\ sock'[P] = sock[P] /\ sent' = sent /\ got' = got
        BY <1>1, <1>4, <2>1 DEF TcpTypes
      <4> QED
        BY <3>4, <4>1, Zenon
    <3>8. Opened(x)'
      <4>1. sock[P].state # "None" => Off(P, sock[P].sndUna) <= Off(P, s.rcvNxt)
        BY <1>3 DEF Opened, Acked
      <4>2. Off(P, sock[P].sndUna) \in Int
        <5>1. sock[P].sndUna \in SeqNum
          BY <1>1 DEF TcpTypes, Socket
        <5>2. Off(P, sock[P].sndUna) \in SeqNum
          BY <1>1, <5>1, OffIs
        <5> QED
          BY <5>2, SpaceIs DEF SeqNum
      <4>3. sock[P].state # "None" => Off(P, sock[P].sndUna) <= Off(P, f.rcvNxt)
        BY <3>3, <3>5, <4>1, <4>2
      <4> QED
        BY <3>3, <3>7, <4>3 DEF Opened, Off, P
    <3>9. RcvOk(x)'
      <4>1. s.rx = sock[x].rx
        BY DEF Acked
      <4>2. got[x] + Len(f.rx) <= sent[P]
        BY <1>1, <3>3 DEF TcpTypes
      <4> QED
        BY <1>1, <3>3, <3>7, <3>8, <4>1, <4>2 DEF RcvOk, P, Early
    <3> QED
      BY <1>1, <1>3, <1>4, <2>1, <3>3, <3>4, <3>6, <3>9, ReceiveStep, ZenonT(30) DEF Early
  <2>4. CASE ~ Takes(s, g) /\ ~ ("FIN" \in g.flags /\ Plus(g.seq, Len(g.data)) = s.rcvNxt)
    <3>1. f = s
      BY <2>4 DEF OnFin
    <3>2. s = [s EXCEPT !.state = s.state] /\ s.state \in TcpStates
          /\ (s.state = "FinWait1" => ~ s.peerClosed)
      BY <1>1, <1>2 DEF Socket, RcvOk, Acked
    <3>3. e = s \/ (e = [s EXCEPT !.state = "FinWait2"] /\ s.state = "FinWait1")
      BY <3>1, <3>2
    <3>4. Received(x, s, e) /\ RcvOk(x)'
      <4> HIDE DEF e
      <4>1. CASE e = s
        BY <1>1, <1>3, <1>4, <2>1, <3>2, <4>1, NothingTaken, Zenon
      <4>2. CASE e = [s EXCEPT !.state = "FinWait2"] /\ s.state = "FinWait1"
        BY <1>1, <1>3, <1>4, <2>1, <4>2, NothingTaken, Zenon DEF TcpStates, Fins
      <4> QED
        BY <3>3, <4>1, <4>2
    <3> HIDE DEF e
    <3>5. e.state \notin Early
      BY <3>4 DEF Received, Early
    <3> QED
      BY <1>1, <1>3, <1>4, <2>1, <3>4, <3>5, ReceiveStep, Zenon
  <2> QED
    BY <2>2, <2>3, <2>4
<1> QED
  BY <1>5, <1>6

\* Side x, half open, takes a segment.
LEMMA SynRcvdTakes ==
    ASSUME TcpInv, NEW m \in net, NEW s, Acked(m.to, s), s.state = "SynRcvd",
           NEW n \in SUBSET net, Apply(m.to, OnSynRcvd(s, m.seg), n), UNCHANGED <<sent, got>>
    PROVE  TcpInv'
<1> DEFINE x == m.to
           g == m.seg
           P == Peer(x)
           r == OnSynRcvd(s, g)
           e == [s EXCEPT !.state = "Established"]
           t == TakeData(e, g)
<1>1. x \in Sides /\ P \in Sides /\ P # x /\ s \in Socket /\ TcpTypes /\ RcvOk(x)
  BY Peers, SegmentOf DEF TcpInv, Acked
<1>2. s.state = sock[x].state
  BY DEF Acked
<1>3. Opened(x) /\ sock[x].state \notin {"New", "Listen", "None"}
  BY <1>1, <1>2 DEF RcvOk, Early
<1>4. sock' = [sock EXCEPT ![x] = r.s]
      /\ net' \subseteq net \cup {[to |-> P, seg |-> h] : h \in r.out}
  BY EmitIs DEF Apply
<1>5. \/ r.s = s /\ r.out = {}
      \/ r.s = e /\ r.out = {}
      \/ r.s = t /\ r.out = {AckSeg(t)} /\ Takes(e, g)
  BY DEF OnSynRcvd, Result
<1> HIDE DEF r
<1>6. CASE r.s = s /\ r.out = {}
  <2>1. s = [s EXCEPT !.state = s.state] /\ s.state \in TcpStates
    BY <1>1 DEF Socket
  <2>2. Received(x, s, s) /\ RcvOk(x)'
    BY <1>1, <1>3, <1>4, <1>6, <2>1, NothingTaken, Zenon
  <2> QED
    BY <1>1, <1>3, <1>4, <1>6, <2>2, ReceiveStep, Zenon
<1>7. CASE r.s = e /\ r.out = {}
  <2>1. "Established" \in TcpStates
    BY DEF TcpStates
  <2>2. Received(x, s, e) /\ RcvOk(x)'
    BY <1>1, <1>3, <1>4, <1>7, <2>1, NothingTaken, Zenon
  <2> QED
    BY <1>1, <1>3, <1>4, <1>7, <2>2, ReceiveStep, Zenon
<1>8. CASE r.s = t /\ r.out = {AckSeg(t)} /\ Takes(e, g)
  <2>1. Takes(s, g)
    <3>1. e.rx = s.rx /\ e.rcvNxt = s.rcvNxt
      BY <1>1 DEF Socket
    <3> QED
      BY <1>8, <3>1 DEF Takes, RxWindow
  <2> DEFINE d == TakeData(s, g)
  <2>2. /\ d \in Socket /\ d.state = s.state /\ ~ d.peerClosed
        /\ d.sndNxt = s.sndNxt /\ d.sndUna = s.sndUna /\ d.pend = s.pend
        /\ \A i \in 1 .. Len(d.rx) : d.rx[i] = got[x] + i
        /\ got[x] + Len(d.rx) <= sent[P]
        /\ Off(P, d.rcvNxt) = got[x] + Len(d.rx) + 1
        /\ Off(P, d.rcvNxt) = Off(P, s.rcvNxt) + 1
    BY <1>3, <2>1, DataTaken
  <2>3. t = [d EXCEPT !.state = "Established"]
    BY <1>1, Zenon DEF TakeData, Socket
  <2> HIDE DEF t, d
  <2>4. /\ t \in Socket /\ t.state = "Established" /\ ~ t.peerClosed
        /\ t.sndNxt = s.sndNxt /\ t.sndUna = s.sndUna /\ t.pend = s.pend
        /\ t.rx = d.rx /\ t.rcvNxt = d.rcvNxt
    BY <2>2, <2>3 DEF Socket, TcpStates
  <2>5. s.rcvNxt \in SeqNum /\ Off(P, s.rcvNxt) \in Int
    BY <1>1, OffIs, SpaceIs DEF Socket, SeqNum
  <2>6. Received(x, s, t)
    BY <1>2, <2>2, <2>4, <2>5 DEF Received, Early, Fins
  <2>7. sock'[x] = t /\ sock'[P] = sock[P] /\ sent' = sent /\ got' = got
    BY <1>1, <1>4, <1>8 DEF TcpTypes
  <2>8. Opened(x)'
    <3>1. sock[P].state # "None" => Off(P, sock[P].sndUna) <= Off(P, s.rcvNxt)
      BY <1>3 DEF Opened, Acked
    <3>2. Off(P, sock[P].sndUna) \in Int
      <4>1. sock[P].sndUna \in SeqNum
        BY <1>1 DEF TcpTypes, Socket
      <4>2. Off(P, sock[P].sndUna) \in SeqNum
        BY <1>1, <4>1, OffIs
      <4> QED
        BY <4>2, SpaceIs DEF SeqNum
    <3>3. sock[P].state # "None" => Off(P, sock[P].sndUna) <= Off(P, t.rcvNxt)
      BY <2>2, <2>4, <2>5, <3>1, <3>2
    <3> QED
      BY <2>2, <2>4, <2>7, <3>3 DEF Opened, Off, P
  <2>9. RcvOk(x)'
    BY <2>2, <2>4, <2>7, <2>8 DEF RcvOk, P, Early
  <2> QED
    BY <1>1, <1>3, <1>4, <1>8, <2>4, <2>6, <2>9, ReceiveStep, Zenon DEF Early
<1> QED
  BY <1>5, <1>6, <1>7, <1>8

\* The side that connects takes the answer to its SYN.
LEMMA SynSentTakes ==
    ASSUME TcpInv, NEW m \in net, NEW s, Acked(m.to, s), s.state = "SynSent",
           NEW n \in SUBSET net, Apply(m.to, OnSynSent(s, m.seg), n), UNCHANGED <<sent, got>>
    PROVE  TcpInv'
<1> DEFINE x == m.to
           g == m.seg
           P == Peer(x)
           r == OnSynSent(s, g)
           e == [s EXCEPT !.rcvNxt = Plus(g.seq, 1), !.state = "Established"]
<1>1. x \in Sides /\ P \in Sides /\ P # x /\ s \in Socket /\ TcpTypes /\ RcvOk(x)
      /\ g \in Segment
  BY Peers, SegmentOf DEF TcpInv, Acked
<1>2. s.state = sock[x].state /\ s.rx = sock[x].rx /\ s.peerClosed = sock[x].peerClosed
  BY DEF Acked
<1>3. Unopened(x) /\ sock[x].state \notin {"New", "Listen", "None"}
  BY <1>1, <1>2 DEF RcvOk, Early
<1>4. sock' = [sock EXCEPT ![x] = r.s]
      /\ net' \subseteq net \cup {[to |-> P, seg |-> h] : h \in r.out}
  BY EmitIs DEF Apply
<1>5. \/ r.s = s /\ r.out = {}
      \/ r.s = e /\ r.out = {AckSeg(e)} /\ {"SYN", "ACK"} \subseteq g.flags
  BY DEF OnSynSent, Result
<1> HIDE DEF r
<1>6. CASE r.s = s /\ r.out = {}
  <2>1. s = [s EXCEPT !.state = s.state] /\ s.state \in TcpStates
    BY <1>1 DEF Socket
  <2>2. net' \subseteq net
    BY <1>4, <1>6
  <2>3. Received(x, s, s) /\ RcvOk(x)'
    BY <1>1, <1>3, <1>4, <1>6, <2>1, <2>2, NothingTaken, Zenon
  <2> QED
    BY <1>1, <1>3, <1>4, <1>6, <2>3, ReceiveStep, Zenon
<1>7. CASE r.s = e /\ r.out = {AckSeg(e)} /\ {"SYN", "ACK"} \subseteq g.flags
  <2>1. Plus(g.seq, 1) \in SeqNum /\ Off(P, Plus(g.seq, 1)) = 1
    <3>1. Off(P, g.seq) = 0 /\ g.seq \in SeqNum
      BY <1>1, <1>7, SegmentOf DEF Segment
    <3>2. Off(P, g.seq) + 1 < SeqSpace
      BY <3>1, SpaceIs
    <3>3. Plus(g.seq, 1) \in SeqNum /\ Off(P, Plus(g.seq, 1)) = Off(P, g.seq) + 1
      BY <1>1, <3>1, <3>2, OffPlus
    <3> QED
      BY <3>1, <3>3
  <2>2. /\ e \in Socket /\ e.state = "Established" /\ e.peerClosed = s.peerClosed
        /\ e.sndNxt = s.sndNxt /\ e.sndUna = s.sndUna /\ e.pend = s.pend
        /\ e.rx = s.rx /\ e.rcvNxt = Plus(g.seq, 1)
    <3> HIDE DEF g
    <3> QED
      BY <1>1, <2>1, Zenon DEF Socket, TcpStates
  <2> HIDE DEF e
  <2>3. Received(x, s, e)
    BY <1>2, <2>2 DEF Received, Early, Fins
  <2>4. sock'[x] = e /\ sock'[P] = sock[P] /\ sent' = sent /\ got' = got
    BY <1>1, <1>4, <1>7 DEF TcpTypes
  <2>5. got[x] = 0 /\ e.rx = <<>> /\ ~ e.peerClosed
        /\ (sock[P].state # "None" => Off(P, sock[P].sndUna) = 0)
    BY <1>2, <1>3, <2>2 DEF Unopened
  <2>6. Len(e.rx) = 0
    BY <2>5
  <2>7. Opened(x)'
    <3>1. Off(P, e.rcvNxt) = got[x] + Len(e.rx) + 1
      BY <2>1, <2>2, <2>5, <2>6
    <3>2. sock[P].state # "None" => Off(P, sock[P].sndUna) <= Off(P, e.rcvNxt)
      BY <2>1, <2>2, <2>5
    <3> QED
      BY <2>4, <2>5, <3>1, <3>2 DEF Opened, Off, P
  <2>8. RcvOk(x)'
    <3>1. sent[P] \in Nat
      BY <1>1 DEF TcpTypes
    <3> QED
      BY <2>2, <2>4, <2>5, <2>6, <2>7, <3>1 DEF RcvOk, P, Early
  <2> QED
    BY <1>1, <1>3, <1>4, <1>7, <2>2, <2>3, <2>8, ReceiveStep, Zenon DEF Early
<1> QED
  BY <1>5, <1>6, <1>7

-----------------------------------------------------------------------------
(* A side sends.                                                           *)

\* A set of natural numbers that is not empty has a least element.
LEMMA FirstIs ==
    ASSUME NEW S \in SUBSET Nat, S # {}
    PROVE  \E m \in S : \A x \in S : m <= x
<1>1. PICK m \in S : \A x \in S : ~(<<x, m>> \in OpToRel(<, Nat))
  BY WFMin, NatLessThanWellFounded, Zenon
<1>2. \A x \in S : ~(x < m)
  BY <1>1, Zenon DEF OpToRel
<1> QED
  BY <1>2

\* A step that puts segment g into slot i and onto the network.
Transmitted(x, s, i, g) ==
    /\ s \in Socket /\ i \in 1 .. TX_SLOTS /\ g \in Segment
    /\ \A j \in 1 .. TX_SLOTS : j # i /\ s.pend[j].used => s.pend[j] = sock[x].pend[j]
    /\ s.pend[i].seq = g.seq /\ s.pend[i].flags = g.flags /\ s.pend[i].data = g.data
    /\ Steps(x, s) /\ Sends(x, {g}) /\ Carries(x, g)' /\ Acks(x, g)'
    /\ sock[x].state # "None"
    /\ s.state \in {"New", "Listen"} => Off(x, s.sndUna) = 0 /\ sent'[x] = 0
    /\ Off(x, s.sndNxt) \in {sent'[x] + 1, sent'[x] + 2}
    /\ s.state \notin Fins => Off(x, s.sndNxt) = sent'[x] + 1
    /\ Off(x, s.sndUna) <= Off(x, s.sndNxt) /\ RcvOk(x)'

\* A segment sent and kept in the transmit queue keeps the invariant.
LEMMA SendStep ==
    ASSUME TcpInv, NEW x \in Sides, NEW s, NEW i, NEW g, sock' = [sock EXCEPT ![x] = s],
           Transmitted(x, s, i, g)
    PROVE  TcpInv'
<1> USE DEF Transmitted
<1>1. TcpTypes /\ SndOk(x) /\ sock'[x] = s
  BY DEF TcpInv, TcpTypes
<1>2. ASSUME NEW j \in 1 .. TX_SLOTS, s.pend[j].used PROVE Carries(x, s.pend[j])'
  <2>1. CASE j = i
    BY <2>1 DEF Carries
  <2>2. CASE j # i
    <3>1. Carries(x, s.pend[j])
      BY <1>1, <1>2, <2>2 DEF SndOk
    <3> QED
      BY <1>1, <3>1, CarriesKept
  <2> QED
    BY <2>1, <2>2
<1>3. SndOk(x)'
  BY <1>1, <1>2 DEF SndOk, Off
<1>4. PICK out : out = {g}
  OBVIOUS
<1>5. s \in Socket /\ out \in SUBSET Segment /\ Steps(x, s) /\ Sends(x, out) /\ RcvOk(x)'
      /\ \A h \in out : Carries(x, h)' /\ Acks(x, h)'
  BY <1>4
<1> QED
  BY <1>3, <1>5, SideStep, Zenon

\* What was received stays while the socket moves on.
LEMMA ReceivedKept ==
    ASSUME TcpInv, NEW x \in Sides, NEW s, sock' = [sock EXCEPT ![x] = s],
           s.rx = sock[x].rx, s.rcvNxt = sock[x].rcvNxt, s.peerClosed = sock[x].peerClosed,
           got'[x] = got[x], sent'[Peer(x)] = sent[Peer(x)],
           sock[x].state # "None", s.state # "None",
           \/ sock[x].state \notin Early \cup {"Closed"}
           \/ \A m \in net' : m.to = Peer(x) => (m \in net \/ "ACK" \notin m.seg.flags),
           \/ sock[x].state = s.state
           \/ s.state = "Closed"
           \/ sock[x].state = "Established" /\ s.state = "FinWait1"
           \/ sock[x].state = "CloseWait" /\ s.state = "LastAck"
    PROVE  RcvOk(x)'
<1> DEFINE P == Peer(x)
<1>1. P \in Sides /\ P # x /\ RcvOk(x) /\ TcpTypes
  BY Peers DEF TcpInv
<1>2. sock'[x] = s /\ sock'[P] = sock[P]
  BY <1>1 DEF TcpTypes
<1>3. Opened(x) => Opened(x)'
  BY <1>2 DEF Opened, Off, P
<1>4. Unopened(x) /\ (\A m \in net' : m.to = P => m \in net \/ "ACK" \notin m.seg.flags)
         => Unopened(x)'
  BY <1>2 DEF Unopened, Off, P
<1>5. s.peerClosed => s.state \in {"CloseWait", "LastAck", "Closed"}
  BY <1>1 DEF RcvOk
<1>6. /\ s.state \in Early => Unopened(x)'
      /\ s.state = "Closed" => Unopened(x)' \/ Opened(x)'
      /\ s.state \notin Early \cup {"Closed", "None"} => Opened(x)'
  <2>1. CASE sock[x].state \notin Early \cup {"Closed"}
    BY <1>1, <1>3, <2>1 DEF RcvOk, Early
  <2>2. CASE sock[x].state \in Early \cup {"Closed"}
    BY <1>1, <1>3, <1>4, <2>2 DEF RcvOk, Early, P
  <2> QED
    BY <2>1, <2>2
<1> QED
  BY <1>1, <1>2, <1>5, <1>6 DEF RcvOk, P

\* The slot a send takes is one of the transmit queue.
LEMMA FirstFree ==
    ASSUME NEW s, FreeSlots(s) # {}
    PROVE  First(FreeSlots(s)) \in 1 .. TX_SLOTS
<1>1. FreeSlots(s) \subseteq Nat
  BY SpaceIs DEF FreeSlots
<1>2. \E m \in FreeSlots(s) : \A x \in FreeSlots(s) : m <= x
  BY <1>1, FirstIs
<1>3. First(FreeSlots(s)) \in FreeSlots(s)
  BY <1>2, Zenon DEF First
<1> QED
  BY <1>3 DEF FreeSlots

\* The fields of a pending segment.
LEMMA PendIs ==
    ASSUME NEW seq \in SeqNum, NEW data \in Seq(Nat), NEW flags \in TcpFlags, NEW p,
           p = Pend(seq, data, flags)
    PROVE  p \in Pending /\ p.seq = seq /\ p.data = data /\ p.flags = flags
BY DEF Pend, Pending

\* A byte or a FIN goes out.
LEMMA Transmits ==
    ASSUME TcpInv, NEW x \in Sides, NEW c, c = sock[x], NEW i \in 1 .. TX_SLOTS,
           NEW b, b = sent[x] + 1, NEW data, NEW flags, NEW q, NEW p, NEW s, NEW g,
           p = Pend(c.sndNxt, data, flags),
           s = [c EXCEPT !.pend[i] = p, !.sndNxt = Plus(@, 1), !.state = q],
           g = Seg(c.sndNxt, c.rcvNxt, flags, data),
           c.state \in {"Established", "CloseWait"},
           sock' = [sock EXCEPT ![x] = s],
           net' \subseteq net \cup {[to |-> Peer(x), seg |-> h] : h \in {g}},
           got' = got,
           \/ /\ data = <<b>> /\ flags = {"ACK", "PSH"} /\ q = c.state
              /\ sent[x] < MaxSent[x] /\ sent' = [sent EXCEPT ![x] = b]
           \/ /\ data = <<>> /\ flags = {"FIN", "ACK"} /\ sent' = sent
              /\ q = IF c.state = "Established" THEN "FinWait1" ELSE "LastAck"
    PROVE  TcpInv'
<1> DEFINE P == Peer(x)
<1>1. P \in Sides /\ P # x /\ Peer(P) = x /\ c \in Socket /\ SndOk(x) /\ RcvOk(x) /\ TcpTypes
      /\ sent[x] \in Nat /\ got[x] \in Nat
  BY Peers DEF TcpInv, TcpTypes
<1> HIDE DEF P
<1>2. c.sndNxt \in SeqNum /\ c.rcvNxt \in SeqNum /\ c.sndUna \in SeqNum
  BY <1>1 DEF Socket
<1>3. /\ Off(x, c.sndNxt) = b /\ Off(x, c.sndUna) <= b /\ Off(x, c.sndUna) \in Int
      /\ Off(P, c.rcvNxt) \in Int
  <2>1. Off(x, c.sndNxt) = b /\ Off(x, c.sndUna) <= b
    BY <1>1 DEF SndOk, Fins
  <2>2. Off(x, c.sndUna) \in SeqNum /\ Off(P, c.rcvNxt) \in SeqNum
    BY <1>1, <1>2, OffIs
  <2> QED
    BY <2>1, <2>2, SpaceIs DEF SeqNum
<1>4. Plus(c.sndNxt, 1) \in SeqNum /\ Off(x, Plus(c.sndNxt, 1)) = b + 1
  <2>1. sent[x] + 2 < SeqSpace /\ b + 1 < SeqSpace
    BY <1>1, SpaceIs DEF TcpTypes
  <2> QED
    BY <1>2, <1>3, <2>1, OffPlus
<1>5. data \in Seq(Nat) /\ flags \in TcpFlags /\ q \in TcpStates
  <2>1. <<b>> \in Seq(Nat) /\ <<>> \in Seq(Nat)
    BY <1>1
  <2>2. c.state \in TcpStates /\ "FinWait1" \in TcpStates /\ "LastAck" \in TcpStates
    BY <1>1 DEF Socket, TcpStates, Fins
  <2>3. {"ACK", "PSH"} \in TcpFlags /\ {"FIN", "ACK"} \in TcpFlags
    BY DEF TcpFlags
  <2> QED
    BY <2>1, <2>2, <2>3, Zenon
<1>6. p \in Pending /\ p.seq = c.sndNxt /\ p.data = data /\ p.flags = flags
  BY <1>2, <1>5, PendIs
<1>7. g \in Segment /\ g.seq = c.sndNxt /\ g.ack = c.rcvNxt /\ g.data = data
      /\ g.flags = flags
  BY <1>2, <1>5 DEF Seg, Segment
<1>8. /\ s \in Socket /\ s.state = q /\ s.sndNxt = Plus(c.sndNxt, 1)
      /\ s.sndUna = c.sndUna /\ s.rcvNxt = c.rcvNxt /\ s.rx = c.rx
      /\ s.peerClosed = c.peerClosed /\ s.pend = [c.pend EXCEPT ![i] = p]
  BY <1>1, <1>4, <1>5, <1>6, ZenonT(30) DEF Socket
<1>9. s.pend[i] = p /\ \A j \in 1 .. TX_SLOTS : j # i => s.pend[j] = c.pend[j]
  BY <1>1, <1>8, Zenon DEF Socket
<1>10. sock'[x] = s /\ sock'[P] = sock[P] /\ sent'[P] = sent[P]
       /\ sent' \in [Sides -> Nat] /\ sent'[x] \in {sent[x], b}
       /\ (sent'[x] = b \/ (sent'[x] = sent[x] /\ s.state \in Fins))
       /\ \A y \in Sides : sent'[y] <= MaxSent[y]
  <2>1. sock'[x] = s /\ sock'[P] = sock[P]
    BY <1>1 DEF TcpTypes
  <2>2. CASE sent' = sent
    BY <1>1, <1>8, <2>1, <2>2 DEF TcpTypes, Fins
  <2>3. CASE sent' = [sent EXCEPT ![x] = b] /\ sent[x] < MaxSent[x]
    <3>1. b \in Nat /\ b <= MaxSent[x]
      BY <1>1, <2>3, SpaceIs
    <3> QED
      BY <1>1, <2>1, <2>3, <3>1 DEF TcpTypes
  <2> QED
    BY <2>2, <2>3
<1>11. Steps(x, s)
  BY <1>1, <1>3, <1>8 DEF Steps, Unopened, Opened, P, Early, Fins
<1>12. Sends(x, {g})
  BY <1>1, <1>10 DEF Sends, TcpTypes, Fins, P
<1>13. Carries(x, g)'
  <2>1. s.state \notin Early
    BY <1>8 DEF Early
  <2>2. CASE data = <<b>> /\ flags = {"ACK", "PSH"} /\ sent' = [sent EXCEPT ![x] = b]
    <3>1. b \in 1 .. sent'[x]
      BY <1>1, <2>2 DEF TcpTypes
    <3> QED
      BY <1>3, <1>5, <1>7, <1>10, <2>1, <2>2, <3>1 DEF Carries, Off
  <2>3. CASE data = <<>> /\ flags = {"FIN", "ACK"} /\ sent' = sent
    <3>1. s.state \in Fins
      BY <1>8, <2>3 DEF Fins
    <3> QED
      BY <1>3, <1>5, <1>7, <1>10, <2>1, <2>3, <3>1, Zenon DEF Carries, Off
  <2> QED
    BY <2>2, <2>3
<1>14. Acks(x, g)'
  BY <1>3, <1>7, <1>8, <1>10 DEF Acks, Off, P
<1>15. RcvOk(x)'
  <2>1. sock[x].state # "None" /\ s.state # "None" /\ sock[x].state \notin Early \cup {"Closed"}
    BY <1>8 DEF Early
  <2>2. \/ sock[x].state = s.state
        \/ sock[x].state = "Established" /\ s.state = "FinWait1"
        \/ sock[x].state = "CloseWait" /\ s.state = "LastAck"
    <3>1. q = c.state \/ (c.state = "Established" /\ q = "FinWait1")
          \/ (c.state = "CloseWait" /\ q = "LastAck")
      <4>1. CASE c.state = "Established"
        BY <4>1, Zenon
      <4>2. CASE c.state = "CloseWait"
        BY <4>2, Zenon
      <4> QED
        BY <4>1, <4>2, Zenon
    <3>2. s.state = q /\ sock[x].state = c.state
      BY <1>8, Zenon
    <3> QED
      BY <3>1, <3>2, Zenon
  <2> QED
    BY <1>8, <1>10, <2>1, <2>2, ReceivedKept, ZenonT(30) DEF P
<1>16. /\ Off(x, s.sndNxt) \in {sent'[x] + 1, sent'[x] + 2}
       /\ s.state \notin Fins => Off(x, s.sndNxt) = sent'[x] + 1
       /\ Off(x, s.sndUna) <= Off(x, s.sndNxt)
  BY <1>1, <1>3, <1>4, <1>8, <1>10
<1>17. sock[x].state # "None" /\ s.state \notin {"New", "Listen"}
  BY <1>8
<1>18. s.pend[i].seq = g.seq /\ s.pend[i].flags = g.flags /\ s.pend[i].data = g.data
       /\ \A j \in 1 .. TX_SLOTS : j # i => s.pend[j] = sock[x].pend[j]
  BY <1>6, <1>7, <1>9
<1>19. s \in Socket /\ g \in Segment
  BY <1>7, <1>8
<1>20. Transmitted(x, s, i, g)
  BY <1>11, <1>12, <1>13, <1>14, <1>15, <1>16, <1>17, <1>18, <1>19, Zenon DEF Transmitted
<1> QED
  BY <1>20, SendStep, Zenon

\* tcp_send keeps the invariant.
LEMMA SendKeeps ==
    ASSUME TcpInv, NEW x \in Sides, TcpSend(x)
    PROVE  TcpInv'
<1>1. PICK c : c = sock[x]
  OBVIOUS
<1>2. PICK i : i = First(FreeSlots(c))
  OBVIOUS
<1>3. PICK b : b = sent[x] + 1
  OBVIOUS
<1>4. PICK p : p = Pend(c.sndNxt, <<b>>, {"ACK", "PSH"})
  OBVIOUS
<1>5. PICK s : s = [c EXCEPT !.pend[i] = p, !.sndNxt = Plus(@, 1)]
  OBVIOUS
<1>6. PICK g : g = Seg(c.sndNxt, c.rcvNxt, {"ACK", "PSH"}, <<b>>)
  OBVIOUS
<1>7. c \in Socket /\ i \in 1 .. TX_SLOTS
  BY <1>1, <1>2, FirstFree DEF TcpInv, TcpTypes, TcpSend
<1>8. s = [c EXCEPT !.pend[i] = p, !.sndNxt = Plus(@, 1), !.state = c.state]
  BY <1>5, <1>7, Zenon DEF Socket
<1>9. Apply(x, Result(s, {g}), net)
  BY <1>1, <1>2, <1>3, <1>4, <1>5, <1>6, Zenon DEF TcpSend, SendByte
<1>10. sock' = [sock EXCEPT ![x] = s] /\ net' = Emit(net, x, {g})
  BY <1>9 DEF Apply, Result
<1>11. net' \subseteq net \cup {[to |-> Peer(x), seg |-> h] : h \in {g}}
  BY <1>10, EmitIs
<1>12. c.state \in {"Established", "CloseWait"} /\ got' = got
       /\ sent[x] < MaxSent[x] /\ sent' = [sent EXCEPT ![x] = b]
  BY <1>1, <1>3 DEF TcpSend
<1> QED
  BY <1>1, <1>3, <1>4, <1>6, <1>7, <1>8, <1>10, <1>11, <1>12, Transmits, Zenon

\* tcp_close keeps the invariant.
LEMMA CloseKeeps ==
    ASSUME TcpInv, NEW x \in Sides, TcpClose(x)
    PROVE  TcpInv'
<1>1. PICK c : c = sock[x]
  OBVIOUS
<1>2. PICK i : i = First(FreeSlots(c))
  OBVIOUS
<1>3. PICK b : b = sent[x] + 1
  OBVIOUS
<1>4. PICK p : p = Pend(c.sndNxt, <<>>, {"FIN", "ACK"})
  OBVIOUS
<1>13. PICK q : q = IF c.state = "Established" THEN "FinWait1" ELSE "LastAck"
  OBVIOUS
<1>5. PICK s : s = [c EXCEPT !.pend[i] = p, !.sndNxt = Plus(@, 1), !.state = q]
  OBVIOUS
<1>6. PICK g : g = Seg(c.sndNxt, c.rcvNxt, {"FIN", "ACK"}, <<>>)
  OBVIOUS
<1>7. i \in 1 .. TX_SLOTS
  BY <1>1, <1>2, FirstFree DEF TcpClose
<1>9. Apply(x, Result(s, {g}), net)
  BY <1>1, <1>2, <1>4, <1>5, <1>6, <1>13, Zenon DEF TcpClose, CloseSock
<1>10. sock' = [sock EXCEPT ![x] = s] /\ net' = Emit(net, x, {g})
  BY <1>9 DEF Apply, Result
<1>11. net' \subseteq net \cup {[to |-> Peer(x), seg |-> h] : h \in {g}}
  BY <1>10, EmitIs
<1>12. c.state \in {"Established", "CloseWait"} /\ got' = got /\ sent' = sent
  BY <1>1 DEF TcpClose
<1> QED
  BY <1>1, <1>3, <1>4, <1>5, <1>6, <1>7, <1>10, <1>11, <1>12, <1>13, Transmits, Zenon

-----------------------------------------------------------------------------
(* The other steps.                                                        *)

\* Losing segments keeps the invariant.
LEMMA IdleStep ==
    ASSUME TcpInv, UNCHANGED <<sock, sent, got>>, net' \subseteq net
    PROVE  TcpInv'
<1>1. \A x \in Sides : Unopened(x) => Unopened(x)'
  BY DEF Unopened, Off
<1>2. \A x \in Sides : (Opened(x) => Opened(x)') /\ (SndOk(x) => SndOk(x)')
  <2>1. \A x \in Sides : Opened(x) => Opened(x)'
    BY Zenon DEF Opened, Off
  <2>2. \A x \in Sides : SndOk(x) => SndOk(x)'
    <3>1. ASSUME NEW x \in Sides, NEW p, Carries(x, p) PROVE Carries(x, p)'
      BY <3>1 DEF Carries, Off
    <3>2. ASSUME NEW x \in Sides, SndOk(x), NEW i \in 1 .. TX_SLOTS, sock'[x].pend[i].used,
                 sock[x].state # "None"
          PROVE  Carries(x, sock[x].pend[i])'
      <4>1. Carries(x, sock[x].pend[i])
        BY <3>2 DEF SndOk
      <4> QED
        BY <3>1, <4>1
    <3> QED
      BY <3>2, Zenon DEF SndOk, Off
  <2> QED
    BY <2>1, <2>2, Zenon
<1>3. \A x \in Sides : RcvOk(x) => RcvOk(x)'
  BY <1>1, <1>2, Zenon DEF RcvOk
<1>4. NetOk'
  BY DEF TcpInv, NetOk, Carries, Acks, Off
<1>5. TcpTypes'
  BY DEF TcpInv, TcpTypes
<1> QED
  BY <1>2, <1>3, <1>4, <1>5 DEF TcpInv

\* The fields of a new socket.
LEMMA BlankIs ==
    ASSUME NEW state \in TcpStates, NEW n \in SeqNum
    PROVE  LET s == Blank(state, n)
           IN  /\ s \in Socket /\ s.state = state /\ s.sndNxt = Plus(n, 1) /\ s.sndUna = n
               /\ s.rx = <<>> /\ s.peerClosed = FALSE /\ s.pend = AllFree
<1>1. Plus(n, 1) \in SeqNum /\ 0 \in SeqNum /\ <<>> \in Seq(Nat)
  BY PlusType, SpaceIs DEF SeqNum
<1>2. AllFree \in [1 .. TX_SLOTS -> Pending]
  BY FreeIs DEF AllFree
<1> QED
  BY <1>1, <1>2, Zenon DEF Blank, Socket

\* Forgetting a socket keeps the invariant.
LEMMA AbandonKeeps ==
    ASSUME TcpInv, NEW x \in Sides, Abandon(x)
    PROVE  TcpInv'
<1>1. PICK s : s = Blank("None", 0)
  OBVIOUS
<1>2. s \in Socket /\ s.state = "None" /\ s.rx = <<>> /\ s.peerClosed = FALSE
  <2>1. "None" \in TcpStates /\ 0 \in SeqNum
    BY SpaceIs DEF TcpStates, Fins, SeqNum
  <2> QED
    BY <1>1, <2>1, BlankIs, Zenon
<1>3. sock' = [sock EXCEPT ![x] = s] /\ UNCHANGED <<net, sent, got>>
  BY <1>1 DEF Abandon
<1>4. TcpTypes /\ sock'[x] = s /\ RcvOk(x) /\ Peer(x) \in Sides /\ sock[x] \in Socket
  BY <1>3, Peers DEF TcpInv, TcpTypes
<1>5. Steps(x, s)
  BY <1>2 DEF Steps, Early, Fins
<1>9. PICK out : out = {}
  BY Zenon
<1>6. Sends(x, out) /\ out \in SUBSET Segment
  <2>1. net' \subseteq net \cup {[to |-> Peer(x), seg |-> g] : g \in out}
    BY <1>3, Zenon
  <2>2. out \in SUBSET Segment
    BY <1>9, Zenon
  <2> QED
    BY <1>3, <1>4, <2>1, <2>2, QuietSends, Zenon
<1>10. \A g \in out : Carries(x, g)' /\ Acks(x, g)'
  BY <1>9
<1>7. SndOk(x)'
  BY <1>2, <1>4 DEF SndOk
<1>8. RcvOk(x)'
  <2>1. got[x] <= sent[Peer(x)] /\ Len(<<>>) = 0 /\ got[x] \in Nat
    <3>1. got[x] \in Nat /\ sent[Peer(x)] \in Nat /\ Len(sock[x].rx) \in Nat
          /\ got[x] + Len(sock[x].rx) <= sent[Peer(x)]
      BY <1>4 DEF RcvOk, TcpTypes, Socket
    <3> QED
      BY <3>1
  <2> QED
    BY <1>2, <1>3, <1>4, <2>1 DEF RcvOk, Early
<1> QED
  BY <1>2, <1>3, <1>5, <1>6, <1>7, <1>8, <1>10, SideStep, Zenon

\* The retransmission timer.
LEMMA OldestDue ==
    ASSUME NEW x \in Sides, NEW c \in Socket, NEW due \in SUBSET (1 .. TX_SLOTS), due # {}
    PROVE  \E k \in due : \A j \in due :
               Minus(c.pend[k].seq, c.sndUna) <= Minus(c.pend[j].seq, c.sndUna)
<1> DEFINE D(k) == Minus(c.pend[k].seq, c.sndUna)
           S == {D(k) : k \in due}
<1>1. ASSUME NEW k \in due PROVE D(k) \in Nat
  <2>1. c.pend[k] \in Pending /\ c.sndUna \in SeqNum
    BY Zenon DEF Socket
  <2>2. c.pend[k].seq \in Int /\ c.sndUna \in Int /\ SeqSpace \in Nat /\ SeqSpace > 0
    BY <2>1, SpaceIs DEF Pending, SeqNum
  <2>3. PICK d : d = c.pend[k].seq - c.sndUna
    OBVIOUS
  <2>4. d \in Int /\ d % SeqSpace \in Nat
    BY <2>2, <2>3
  <2> QED
    BY <2>3, <2>4, Zenon DEF Minus
<1> HIDE DEF D
<1>2. S \in SUBSET Nat /\ S # {}
  BY <1>1, Zenon
<1>3. PICK m \in S : \A y \in S : m <= y
  BY <1>2, FirstIs, Zenon
<1>4. \E k \in due : \A j \in due : D(k) <= D(j)
  BY <1>3
<1> QED
  BY <1>4 DEF D

\* The retransmission timer keeps the invariant.
LEMMA TimersKeep ==
    ASSUME TcpInv, NEW x \in Sides, TcpTimers(x)
    PROVE  TcpInv'
<1>1. PICK due \in (SUBSET {i \in 1 .. TX_SLOTS : sock[x].pend[i].used}) \ {{}} :
          Apply(x, Poll(sock[x], due), net)
  BY DEF TcpTimers
<1>2. PICK c : c = sock[x]
  OBVIOUS
<1>3. PICK i : i = CHOOSE k \in due : \A j \in due :
                       Minus(c.pend[k].seq, c.sndUna) <= Minus(c.pend[j].seq, c.sndUna)
  OBVIOUS
<1>4. /\ TcpTypes /\ c \in Socket /\ SndOk(x) /\ RcvOk(x) /\ c.state \notin {"New", "Closed", "None"}
      /\ UNCHANGED <<sent, got>> /\ Peer(x) \in Sides /\ Peer(x) # x /\ Peer(Peer(x)) = x
  BY <1>2, Peers DEF TcpInv, TcpTypes, TcpTimers
<1>5. due \in SUBSET (1 .. TX_SLOTS) /\ due # {} /\ \A k \in due : c.pend[k].used
  BY <1>1, <1>2
<1>6. i \in due
  BY <1>3, <1>4, <1>5, OldestDue, Zenon
<1>7. PICK p : p = c.pend[i]
  OBVIOUS
<1>8. p \in Pending /\ p.used /\ Carries(x, p) /\ p.flags \in TcpFlags
  <2>1. p \in Pending /\ p.used
    BY <1>4, <1>5, <1>6, <1>7, Zenon DEF Socket
  <2>2. Carries(x, p)
    BY <1>2, <1>4, <1>5, <1>6, <1>7 DEF SndOk
  <2> QED
    BY <2>1, <2>2 DEF Carries
<1>9. c.sndNxt \in SeqNum /\ c.rcvNxt \in SeqNum /\ c.sndUna \in SeqNum
      /\ Off(Peer(x), c.rcvNxt) \in Int
  <2>1. c.sndNxt \in SeqNum /\ c.rcvNxt \in SeqNum /\ c.sndUna \in SeqNum
    BY <1>4 DEF Socket
  <2>2. Off(Peer(x), c.rcvNxt) \in SeqNum
    BY <1>4, <2>1, OffIs
  <2> QED
    BY <2>1, <2>2, SpaceIs DEF SeqNum
<1>10. CASE p.retries >= MAX_RETRIES
  <2>1. PICK s : s = [c EXCEPT !.state = "Closed", !.reset = TRUE, !.pend = AllFree]
    OBVIOUS
  <2>2. PICK out : out = {}
    BY Zenon
  <2>3. Apply(x, Result(s, out), net)
    BY <1>1, <1>2, <1>3, <1>7, <1>10, <2>1, <2>2, Zenon DEF Poll
  <2>4. sock' = [sock EXCEPT ![x] = s] /\ net' = Emit(net, x, out)
    BY <2>3, Zenon DEF Apply, Result
  <2>5. net' \subseteq net
    BY <2>2, <2>4, EmitIs
  <2>6. AllFree \in [1 .. TX_SLOTS -> Pending] /\ \A j \in 1 .. TX_SLOTS : AllFree[j].used = FALSE
    BY FreeIs DEF AllFree
  <2>7. /\ s \in Socket /\ s.state = "Closed" /\ s.pend = AllFree /\ s.sndNxt = c.sndNxt
        /\ s.sndUna = c.sndUna /\ s.rcvNxt = c.rcvNxt /\ s.rx = c.rx
        /\ s.peerClosed = c.peerClosed
    BY <1>4, <2>1, <2>6, Zenon DEF Socket, TcpStates, Fins
  <2>8. sock'[x] = s
    BY <1>4, <2>4 DEF TcpTypes
  <2>9. Steps(x, s)
    BY <1>2, <1>4, <2>7, SameSteps, Zenon
  <2>10. Sends(x, out) /\ out \in SUBSET Segment
    <3>1. net' \subseteq net \cup {[to |-> Peer(x), seg |-> g] : g \in out}
      BY <2>5, Zenon
    <3>2. out \in SUBSET Segment
      BY <2>2, Zenon
    <3> QED
      BY <1>4, <3>1, <3>2, QuietSends, Zenon
  <2>11. SndOk(x)'
    BY <1>2, <1>4, <2>6, <2>7, <2>8, Zenon DEF SndOk, Off, Fins
  <2>12. RcvOk(x)'
    BY <1>2, <1>4, <2>4, <2>5, <2>7, ReceivedKept, Zenon
  <2>13. \A g \in out : Carries(x, g)' /\ Acks(x, g)'
    BY <2>2
  <2> QED
    BY <2>4, <2>7, <2>9, <2>10, <2>11, <2>12, <2>13, SideStep, Zenon
<1>11. CASE ~ (p.retries >= MAX_RETRIES)
  <2>1. PICK s : s = [c EXCEPT !.pend[i].retries = @ + 1]
    BY Zenon
  <2>2. PICK g : g = Seg(p.seq, c.rcvNxt, p.flags, p.data)
    OBVIOUS
  <2>3. Apply(x, Result(s, {g}), net)
    BY <1>1, <1>2, <1>3, <1>7, <1>11, <2>1, <2>2, Zenon DEF Poll
  <2>4. sock' = [sock EXCEPT ![x] = s] /\ net' = Emit(net, x, {g})
    BY <2>3 DEF Apply, Result
  <2>5. net' \subseteq net \cup {[to |-> Peer(x), seg |-> h] : h \in {g}}
    BY <2>4, EmitIs
  <2>6. PICK r : r = [p EXCEPT !.retries = @ + 1]
    BY Zenon
  <2>7. r \in Pending /\ r.seq = p.seq /\ r.flags = p.flags /\ r.data = p.data
    BY <1>8, <2>6 DEF Pending
  <2>8. s = [c EXCEPT !.pend = [c.pend EXCEPT ![i] = r]]
    BY <1>7, <2>1, <2>6
  <2>9. /\ s \in Socket /\ s.state = c.state /\ s.sndNxt = c.sndNxt
        /\ s.sndUna = c.sndUna /\ s.rcvNxt = c.rcvNxt /\ s.rx = c.rx
        /\ s.peerClosed = c.peerClosed /\ s.pend = [c.pend EXCEPT ![i] = r]
    BY <1>4, <2>7, <2>8, Zenon DEF Socket
  <2>10. s.pend[i] = r /\ \A j \in 1 .. TX_SLOTS : j # i => s.pend[j] = c.pend[j]
    BY <1>4, <1>5, <1>6, <2>9, Zenon DEF Socket
  <2>11. sock'[x] = s
    BY <1>4, <2>4 DEF TcpTypes
  <2>12. g \in Segment /\ g.seq = p.seq /\ g.ack = c.rcvNxt /\ g.flags = p.flags /\ g.data = p.data
    BY <1>8, <1>9, <2>2, Zenon DEF Seg, Segment, Pending
  <2>13. Steps(x, s)
    BY <1>2, <2>9, SameSteps, Zenon
  <2>14. Sends(x, {g})
    BY <1>4, <2>5, QuietSends, Zenon
  <2>15. Carries(x, g)'
    <3>1. Carries(x, p)'
      BY <1>4, <1>8, <2>11, <2>13, <2>14, CarriesKept
    <3> QED
      BY <2>12, <3>1, Zenon DEF Carries
  <2>16. Acks(x, g)'
    BY <1>9, <2>9, <2>11, <2>12 DEF Acks, Off
  <2>17. RcvOk(x)'
    <3>1. \/ sock[x].state \notin Early \cup {"Closed"}
          \/ \A m \in net' : m.to = Peer(x) => (m \in net \/ "ACK" \notin m.seg.flags)
      <4>1. c.state \in Early => "ACK" \notin g.flags
        BY <1>2, <1>8, <2>12 DEF Carries
      <4>2. \A m \in net' : m \in net \/ m.seg = g
        BY <2>5
      <4> QED
        BY <1>2, <1>4, <4>1, <4>2
    <3> QED
      BY <1>2, <1>4, <2>4, <2>9, <3>1, ReceivedKept, Zenon
  <2>18. /\ Off(x, s.sndNxt) \in {sent'[x] + 1, sent'[x] + 2}
         /\ s.state \notin Fins => Off(x, s.sndNxt) = sent'[x] + 1
         /\ Off(x, s.sndUna) <= Off(x, s.sndNxt)
         /\ s.state \in {"New", "Listen"} => Off(x, s.sndUna) = 0 /\ sent'[x] = 0
    BY <1>2, <1>4, <2>9 DEF SndOk
  <2>19. Transmitted(x, s, i, g)
    BY <1>2, <1>4, <1>5, <1>6, <2>7, <2>9, <2>10, <2>12, <2>13, <2>14, <2>15, <2>16, <2>17,
       <2>18, Zenon DEF Transmitted
  <2> QED
    BY <2>4, <2>19, SendStep, Zenon
<1> QED
  BY <1>10, <1>11

\* tcp_recv, with the window update it may send, keeps the invariant.
LEMMA RecvKeeps ==
    ASSUME TcpInv, NEW x \in Sides, TcpRecv(x)
    PROVE  TcpInv'
<1>1. PICK c : c = sock[x]
  OBVIOUS
<1>2. PICK P : P = Peer(x)
  OBVIOUS
<1>3. /\ TcpTypes /\ c \in Socket /\ SndOk(x) /\ RcvOk(x) /\ c.rx # <<>> /\ c.state # "None"
      /\ got' = [got EXCEPT ![x] = @ + Len(c.rx)] /\ sent' = sent
      /\ P \in Sides /\ P # x /\ Peer(P) = x
  BY <1>1, <1>2, Peers DEF TcpInv, TcpTypes, TcpRecv
<1>4. PICK u : u = [c EXCEPT !.rx = <<>>]
  BY Zenon
<1>5. PICK s : s = IF u.winLow /\ RxWindow(u) >= 1 THEN [u EXCEPT !.winLow = FALSE] ELSE u
  BY Zenon
<1>6. PICK out : out = IF u.winLow /\ RxWindow(u) >= 1 THEN {AckSeg(s)} ELSE {}
  BY Zenon
<1>7. Apply(x, WindowUpdate(u), net)
  BY <1>1, <1>4, Zenon DEF TcpRecv
<1>8. WindowUpdate(u).s = s /\ WindowUpdate(u).out = out
  BY <1>5, <1>6, Zenon DEF WindowUpdate, Result
<1>9. sock' = [sock EXCEPT ![x] = s] /\ net' \subseteq net \cup {[to |-> P, seg |-> h] : h \in out}
  <2>1. sock' = [sock EXCEPT ![x] = s] /\ net' = Emit(net, x, out)
    BY <1>7, <1>8, Zenon DEF Apply
  <2>2. Emit(net, x, out) \subseteq net \cup {[to |-> P, seg |-> h] : h \in out}
    BY <1>2, EmitIs
  <2> QED
    BY <2>1, <2>2, Zenon
<1>10. /\ u \in Socket /\ u.state = c.state /\ u.sndNxt = c.sndNxt /\ u.sndUna = c.sndUna
       /\ u.rcvNxt = c.rcvNxt /\ u.rx = <<>> /\ u.peerClosed = c.peerClosed /\ u.pend = c.pend
  <2>1. <<>> \in Seq(Nat)
    BY EmptyIs, Zenon
  <2>2. c \in Socket
    BY <1>3, Zenon
  <2> QED
    BY <1>4, <2>1, <2>2, Zenon DEF Socket
<1>11. /\ s \in Socket /\ s.state = c.state /\ s.sndNxt = c.sndNxt /\ s.sndUna = c.sndUna
       /\ s.rcvNxt = c.rcvNxt /\ s.rx = <<>> /\ s.peerClosed = c.peerClosed /\ s.pend = c.pend
  BY <1>5, <1>10, Zenon DEF Socket
<1>12. c.state \notin Early /\ Opened(x)
  BY <1>1, <1>3 DEF RcvOk, Unopened
<1>13. sock'[x] = s /\ sock'[P] = sock[P] /\ got'[x] = got[x] + Len(c.rx) /\ got'[P] = got[P]
       /\ got' \in [Sides -> Nat] /\ got[x] \in Nat /\ Len(c.rx) \in Nat
  <2>1. got \in [Sides -> Nat] /\ sock \in [Sides -> Socket] /\ got[x] \in Nat
    BY <1>3 DEF TcpTypes
  <2>2. Len(c.rx) \in Nat
    <3>1. c.rx \in Seq(Nat)
      BY <1>3 DEF Socket
    <3> QED
      BY <3>1
  <2>3. sock'[x] = s /\ sock'[P] = sock[P]
    BY <1>3, <1>9, <2>1
  <2>4. got'[x] = got[x] + Len(c.rx) /\ got'[P] = got[P] /\ got' \in [Sides -> Nat]
    BY <1>1, <1>3, <2>1, <2>2
  <2> QED
    BY <2>1, <2>2, <2>3, <2>4
<1>14. Off(P, c.rcvNxt) \in Int
  <2>1. c.rcvNxt \in SeqNum
    BY <1>3 DEF Socket
  <2>2. Off(P, c.rcvNxt) \in SeqNum
    BY <1>3, <2>1, OffIs
  <2> QED
    BY <2>2, SpaceIs DEF SeqNum
<1>15. Steps(x, s)
  BY <1>1, <1>11, SameSteps, Zenon
<1>16. Sends(x, out)
  <2>1. sent \in [Sides -> Nat]
    BY <1>3, Zenon DEF TcpTypes
  <2>2. sent[x] <= sent[x]
    BY <2>1
  <2> QED
    BY <1>2, <1>3, <1>9, <1>13, <2>1, <2>2, Zenon DEF Sends, TcpTypes
<1>17. SndOk(x)'
  <2>1. ASSUME NEW i \in 1 .. TX_SLOTS, s.pend[i].used PROVE Carries(x, s.pend[i])'
    <3>1. Carries(x, s.pend[i])
      BY <1>1, <1>3, <1>11, <2>1, Zenon DEF SndOk
    <3> QED
      BY <1>3, <1>13, <1>15, <1>16, <3>1, CarriesKept, Zenon
  <2> QED
    BY <1>1, <1>3, <1>11, <1>13, <2>1, Zenon DEF SndOk, Off
<1>18. RcvOk(x)'
  <2>1. Len(s.rx) = 0 /\ got'[x] + Len(s.rx) = got[x] + Len(c.rx)
    <3>1. Len(s.rx) = 0
      BY <1>11, EmptyIs, Zenon
    <3>2. got[x] + Len(c.rx) + 0 = got[x] + Len(c.rx)
      BY <1>13
    <3> QED
      BY <1>13, <3>1, <3>2, Zenon
  <2>2. Opened(x)'
    <3>1. Off(P, s.rcvNxt) = got'[x] + Len(s.rx) + (IF s.peerClosed THEN 2 ELSE 1)
      <4>1. Off(P, c.rcvNxt) = got[x] + Len(c.rx) + (IF c.peerClosed THEN 2 ELSE 1)
        BY <1>1, <1>2, <1>12, Zenon DEF Opened
      <4> QED
        BY <1>11, <2>1, <4>1, Zenon
    <3>2. sock[P].state # "None" => Off(P, sock[P].sndUna) <= Off(P, s.rcvNxt)
      BY <1>1, <1>2, <1>11, <1>12 DEF Opened
    <3> QED
      BY <1>2, <1>13, <3>1, <3>2 DEF Opened, Off
  <2>3. \A i \in 1 .. Len(s.rx) : s.rx[i] = got'[x] + i
    BY <2>1
  <2>4. got'[x] + Len(s.rx) <= sent[P]
    BY <1>1, <1>2, <1>3, <2>1, Zenon DEF RcvOk
  <2>5. s.peerClosed => /\ s.state \in {"CloseWait", "LastAck", "Closed"} /\ sock[P].state \in Fins
                        /\ got'[x] + Len(s.rx) = sent[P]
    BY <1>1, <1>2, <1>3, <1>11, <2>1 DEF RcvOk
  <2> QED
    BY <1>2, <1>3, <1>11, <1>12, <1>13, <2>2, <2>3, <2>4, <2>5, Zenon DEF RcvOk
<1>19. out \in SUBSET Segment /\ \A h \in out : Carries(x, h)' /\ Acks(x, h)'
  BY <1>6, <1>11, <1>12, <1>13, AckSegOk
<1> QED
  BY <1>9, <1>11, <1>15, <1>16, <1>17, <1>18, <1>19, SideStep, Zenon

\* The SYN of the side that connects.
LEMMA OpenKeeps ==
    ASSUME TcpInv, OpenConn
    PROVE  TcpInv'
<1>1. PICK x \in Sides : x = "a"
  BY Peers
<1>2. PICK n : n = Iss[x]
  OBVIOUS
<1>3. PICK p : p = Pend(n, <<>>, {"SYN"})
  OBVIOUS
<1>4. PICK u : u = Blank("SynSent", n)
  OBVIOUS
<1>5. PICK s : s = [u EXCEPT !.pend[1] = p]
  BY Zenon
<1>6. PICK g : g = Seg(n, 0, {"SYN"}, <<>>)
  OBVIOUS
<1>7. Apply(x, Result(s, {g}), net)
  BY <1>1, <1>2, <1>3, <1>4, <1>5, <1>6, Zenon DEF OpenConn, TcpConnect
<1>8. sock' = [sock EXCEPT ![x] = s] /\ net' = Emit(net, x, {g})
  BY <1>7 DEF Apply, Result
<1>9. net' \subseteq net \cup {[to |-> Peer(x), seg |-> h] : h \in {g}}
  BY <1>8, EmitIs
<1>10. /\ TcpTypes /\ sock[x].state = "New" /\ UNCHANGED <<sent, got>> /\ sent[x] = 0
       /\ Unopened(x) /\ RcvOk(x) /\ Peer(x) \in Sides /\ Peer(x) # x /\ Peer(Peer(x)) = x
  BY <1>1, Peers DEF TcpInv, OpenConn, SndOk, RcvOk, Early
<1>11. n \in SeqNum /\ 0 \in SeqNum /\ 1 \in 1 .. TX_SLOTS /\ <<>> \in Seq(Nat) /\ {"SYN"} \in TcpFlags
  BY <1>2, SpaceIs DEF SeqNum, TcpFlags
<1>12. p \in Pending /\ p.seq = n /\ p.data = <<>> /\ p.flags = {"SYN"}
  <2>1. PICK data : data = <<>>
    OBVIOUS
  <2>2. PICK flags : flags = {"SYN"}
    BY Zenon
  <2>3. data \in Seq(Nat) /\ flags \in TcpFlags /\ p = Pend(n, data, flags)
    BY <1>3, <1>11, <2>1, <2>2
  <2>4. p \in Pending /\ p.seq = n /\ p.data = data /\ p.flags = flags
    BY <1>11, <2>3, PendIs
  <2> QED
    BY <2>1, <2>2, <2>4
<1>13. g \in Segment /\ g.seq = n /\ g.data = <<>> /\ g.flags = {"SYN"}
  BY <1>6, <1>11 DEF Seg, Segment
<1>14. /\ u \in Socket /\ u.state = "SynSent" /\ u.sndNxt = Plus(n, 1) /\ u.sndUna = n
       /\ u.rx = <<>> /\ u.peerClosed = FALSE /\ u.pend = AllFree
  <2>1. "SynSent" \in TcpStates
    BY DEF TcpStates, Early
  <2> QED
    BY <1>4, <1>11, <2>1, BlankIs, Zenon
<1>15. /\ s \in Socket /\ s.state = "SynSent" /\ s.sndNxt = Plus(n, 1) /\ s.sndUna = n
       /\ s.rx = <<>> /\ s.peerClosed = FALSE /\ s.pend = [AllFree EXCEPT ![1] = p]
  BY <1>5, <1>11, <1>12, <1>14, Zenon DEF Socket
<1>16. s.pend[1] = p /\ \A j \in 1 .. TX_SLOTS : j # 1 => s.pend[j].used = FALSE
  BY <1>11, <1>15, FreeIs DEF AllFree
<1>17. sock'[x] = s /\ sock'[Peer(x)] = sock[Peer(x)]
  BY <1>8, <1>10 DEF TcpTypes
<1>18. Off(x, n) = 0 /\ Off(x, Plus(n, 1)) = 1
  <2>1. Off(x, n) = 0
    BY <1>2, OffIss
  <2>2. Off(x, n) + 1 < SeqSpace
    BY <2>1, SpaceIs
  <2> QED
    BY <1>11, <2>1, <2>2, OffPlus
<1>19. Steps(x, s)
  <2>1. sock[Peer(x)].rcvNxt \in SeqNum
    BY <1>10 DEF TcpTypes, Socket
  <2>2. Off(x, sock[Peer(x)].rcvNxt) \in SeqNum
    BY <2>1, OffIs
  <2>3. 0 <= Off(x, sock[Peer(x)].rcvNxt)
    BY <2>2, SpaceIs DEF SeqNum
  <2> QED
    BY <1>10, <1>15, <1>18, <2>3 DEF Steps, Early, Fins
<1>20. Sends(x, {g})
  BY <1>9, <1>10, QuietSends, Zenon
<1>21. Carries(x, g)' /\ Acks(x, g)'
  BY <1>11, <1>13, <1>18 DEF Carries, Acks, Off
<1>22. RcvOk(x)'
  <2>1. Unopened(x)'
    BY <1>9, <1>10, <1>13, <1>15, <1>17 DEF Unopened, Off
  <2>2. Len(s.rx) = 0 /\ got[x] = 0 /\ sent[Peer(x)] \in Nat
    BY <1>10, <1>15, Zenon DEF Unopened, TcpTypes
  <2>3. (\A i \in 1 .. Len(s.rx) : s.rx[i] = got[x] + i) /\ got[x] + Len(s.rx) <= sent[Peer(x)]
    BY <2>2
  <2>4. s.state \in Early /\ s.state # "Closed"
    BY <1>15 DEF Early
  <2> QED
    BY <1>10, <1>15, <1>17, <2>1, <2>3, <2>4, Zenon DEF RcvOk
<1>23. /\ Off(x, s.sndNxt) = sent'[x] + 1
       /\ Off(x, s.sndUna) <= Off(x, s.sndNxt)
  BY <1>10, <1>15, <1>18
<1>24. Transmitted(x, s, 1, g)
  BY <1>10, <1>11, <1>12, <1>13, <1>15, <1>16, <1>19, <1>20, <1>21, <1>22, <1>23, Zenon
     DEF Transmitted
<1> QED
  BY <1>8, <1>24, SendStep, Zenon

\* The SYN reaches the side that listens.
LEMMA ListenTakes ==
    ASSUME TcpInv, NEW m \in net, sock[m.to].state = "Listen",
           NEW n \in SUBSET net, Apply(m.to, OnSyn(sock[m.to], m.seg), n),
           UNCHANGED <<sent, got>>
    PROVE  TcpInv'
<1>1. PICK x \in Sides : x = m.to
  BY SegmentOf
<1>2. PICK c : c = sock[x]
  OBVIOUS
<1>3. CASE "SYN" \notin m.seg.flags \/ "ACK" \in m.seg.flags
  <2>1. sock' = [sock EXCEPT ![x] = sock[x]] /\ net' \subseteq n
    <3>1. OnSyn(sock[x], m.seg) = Result(sock[x], {})
      BY <1>1, <1>3, Zenon DEF OnSyn
    <3>2. Apply(x, Result(sock[x], {}), n)
      BY <1>1, <3>1, Zenon
    <3>3. PICK out : out = {}
      BY Zenon
    <3>4. sock' = [sock EXCEPT ![x] = sock[x]] /\ net' = Emit(n, x, out)
      BY <3>2, <3>3, Zenon DEF Apply, Result
    <3>5. net' \subseteq n \cup {[to |-> Peer(x), seg |-> g] : g \in out}
      BY <3>4, EmitIs
    <3> QED
      BY <3>3, <3>4, <3>5
  <2>2. sock' = sock
    BY <2>1 DEF TcpInv, TcpTypes
  <2> QED
    BY <2>1, <2>2, IdleStep
<1>4. CASE ~ ("SYN" \notin m.seg.flags \/ "ACK" \in m.seg.flags)
  <2>1. PICK r : r = Plus(m.seg.seq, 1)
    OBVIOUS
  <2>2. PICK p : p = Pend(c.sndUna, <<>>, {"SYN", "ACK"})
    OBVIOUS
  <2>3. PICK s : s = [c EXCEPT !.rcvNxt = r, !.state = "SynRcvd", !.pend[1] = p]
    OBVIOUS
  <2>4. PICK g : g = Seg(c.sndUna, r, {"SYN", "ACK"}, <<>>)
    OBVIOUS
  <2>5. Apply(x, Result(s, {g}), n)
    BY <1>1, <1>2, <1>4, <2>1, <2>2, <2>3, <2>4, Zenon DEF OnSyn
  <2>6. sock' = [sock EXCEPT ![x] = s] /\ net' = Emit(n, x, {g})
    BY <2>5, Zenon DEF Apply, Result
  <2>7. net' \subseteq net \cup {[to |-> Peer(x), seg |-> h] : h \in {g}}
    BY <2>6, EmitIs
  <2>8. /\ TcpTypes /\ c \in Socket /\ c.state = "Listen" /\ sent[x] = 0 /\ SndOk(x)
        /\ Unopened(x) /\ RcvOk(x) /\ Peer(x) \in Sides /\ Peer(x) # x /\ Peer(Peer(x)) = x
        /\ Off(x, c.sndUna) = 0 /\ Off(x, c.sndNxt) = 1
    <3>1. TcpTypes /\ c \in Socket /\ c.state = "Listen" /\ SndOk(x) /\ RcvOk(x)
      BY <1>1, <1>2 DEF TcpInv, TcpTypes
    <3>2. sent[x] = 0 /\ Off(x, c.sndUna) = 0 /\ Off(x, c.sndNxt) = 1
      BY <1>2, <3>1 DEF SndOk, Fins
    <3>3. Unopened(x)
      BY <1>2, <3>1, Zenon DEF RcvOk, Early
    <3>4. Peer(x) \in Sides /\ Peer(x) # x /\ Peer(Peer(x)) = x
      BY Peers
    <3> QED
      BY <3>1, <3>2, <3>3, <3>4, Zenon
  <2>9. r \in SeqNum /\ Off(Peer(x), r) = 1
    <3>1. m.seg.seq \in SeqNum /\ Off(Peer(x), m.seg.seq) = 0
      BY <1>1, <1>4, SegmentOf DEF Segment
    <3>2. Off(Peer(x), m.seg.seq) + 1 < SeqSpace
      BY <3>1, SpaceIs
    <3>3. PICK q : q = m.seg.seq
      OBVIOUS
    <3>4. Plus(q, 1) \in SeqNum /\ Off(Peer(x), Plus(q, 1)) = Off(Peer(x), q) + 1
      BY <2>8, <3>1, <3>2, <3>3, OffPlus, Zenon
    <3> QED
      BY <2>1, <3>1, <3>3, <3>4
  <2>10. c.sndUna \in SeqNum /\ 1 \in 1 .. TX_SLOTS /\ <<>> \in Seq(Nat) /\ {"SYN", "ACK"} \in TcpFlags
         /\ "SynRcvd" \in TcpStates
    <3>1. c.sndUna \in SeqNum
      BY <2>8, Zenon DEF Socket
    <3>2. 1 \in 1 .. TX_SLOTS /\ <<>> \in Seq(Nat)
      BY SpaceIs
    <3> QED
      BY <3>1, <3>2, Zenon DEF TcpFlags, TcpStates
  <2>11. p \in Pending /\ p.seq = c.sndUna /\ p.data = <<>> /\ p.flags = {"SYN", "ACK"}
    <3>1. PICK seq : seq = c.sndUna
      OBVIOUS
    <3>2. PICK data : data = <<>>
      OBVIOUS
    <3>3. PICK flags : flags = {"SYN", "ACK"}
      BY Zenon
    <3>4. seq \in SeqNum /\ data \in Seq(Nat) /\ flags \in TcpFlags /\ p = Pend(seq, data, flags)
      BY <2>2, <2>10, <3>1, <3>2, <3>3
    <3>5. p \in Pending /\ p.seq = seq /\ p.data = data /\ p.flags = flags
      BY <3>4, PendIs
    <3> QED
      BY <3>1, <3>2, <3>3, <3>5
  <2>12. g \in Segment /\ g.seq = c.sndUna /\ g.ack = r /\ g.data = <<>> /\ g.flags = {"SYN", "ACK"}
    BY <2>4, <2>9, <2>10 DEF Seg, Segment
  <2>13. /\ s \in Socket /\ s.state = "SynRcvd" /\ s.sndNxt = c.sndNxt /\ s.sndUna = c.sndUna
         /\ s.rcvNxt = r /\ s.rx = c.rx /\ s.peerClosed = c.peerClosed
         /\ s.pend = [c.pend EXCEPT ![1] = p]
    <3>1. c \in Socket
      BY <2>8
    <3> QED
      BY <2>3, <2>9, <2>10, <2>11, <3>1, Zenon DEF Socket
  <2>14. s.pend[1] = p /\ \A j \in 1 .. TX_SLOTS : j # 1 => s.pend[j] = c.pend[j]
    BY <2>8, <2>10, <2>13, Zenon DEF Socket
  <2>15. sock'[x] = s /\ sock'[Peer(x)] = sock[Peer(x)]
    BY <2>6, <2>8, Zenon DEF TcpTypes
  <2>16. Steps(x, s)
    BY <1>2, <2>8, <2>13, Zenon DEF Steps, Unopened, Opened, Early, Fins
  <2>17. Sends(x, {g})
    BY <2>7, <2>8, QuietSends, Zenon
  <2>18. Carries(x, g)' /\ Acks(x, g)'
    <3>1. Off(Peer(x), r) <= Off(Peer(x), r)
      BY <2>9
    <3>2. Off(x, g.seq) = 0 /\ sock'[x].state \notin Early
      BY <2>8, <2>12, <2>13, <2>15, Zenon DEF Early
    <3>3. Carries(x, g)'
      BY <2>10, <2>12, <3>2, Zenon DEF Carries, Off
    <3>4. Acks(x, g)'
      BY <2>12, <2>13, <2>15, <3>1, <3>2, Zenon DEF Acks, Off
    <3> QED
      BY <3>3, <3>4, Zenon
  <2>19. RcvOk(x)'
    <3>1. got[x] = 0 /\ c.rx = <<>> /\ ~ c.peerClosed
          /\ (sock[Peer(x)].state # "None" => Off(Peer(x), sock[Peer(x)].sndUna) = 0)
      BY <1>2, <2>8, Zenon DEF Unopened
    <3>2. Len(c.rx) = 0
      BY <3>1, EmptyIs, Zenon
    <3>3. Off(Peer(x), s.rcvNxt) = got[x] + Len(s.rx) + 1
      BY <2>9, <2>13, <3>1, <3>2
    <3>4. sock[Peer(x)].state # "None" => Off(Peer(x), sock[Peer(x)].sndUna) <= Off(Peer(x), s.rcvNxt)
      BY <2>9, <2>13, <3>1
    <3>5. Opened(x)'
      BY <2>13, <2>15, <3>1, <3>3, <3>4, Zenon DEF Opened, Off
    <3>6. sent[Peer(x)] \in Nat
      BY <2>8 DEF TcpTypes
    <3> QED
      <4>1. \A i \in 1 .. Len(s.rx) : s.rx[i] = got[x] + i
        BY <2>13, <3>2
      <4>2. got[x] + Len(s.rx) <= sent[Peer(x)]
        BY <2>13, <3>1, <3>2, <3>6
      <4>3. s.state \notin Early /\ ~ s.peerClosed
        BY <2>13, <3>1, Zenon DEF Early
      <4> QED
        BY <2>8, <2>13, <2>15, <3>1, <3>5, <4>1, <4>2, <4>3, Zenon DEF RcvOk, Early
  <2>20. /\ Off(x, s.sndNxt) = sent'[x] + 1
         /\ Off(x, s.sndUna) <= Off(x, s.sndNxt)
    BY <2>8, <2>13
  <2>21. Transmitted(x, s, 1, g)
    BY <1>2, <2>8, <2>10, <2>11, <2>12, <2>13, <2>14, <2>16, <2>17, <2>18, <2>19, <2>20, Zenon
       DEF Transmitted
  <2> QED
    BY <2>6, <2>21, SendStep, Zenon
<1> QED
  BY <1>3, <1>4

\* A frame that arrives keeps the invariant, in every state of the socket.
LEMMA DeliverKeeps ==
    ASSUME TcpInv, NEW m \in net, Deliver(m)
    PROVE  TcpInv'
<1>1. PICK x \in Sides : x = m.to
  BY SegmentOf
<1>2. UNCHANGED <<sent, got>> /\ TcpTypes /\ sock[x] \in Socket /\ "RST" \notin m.seg.flags
  BY <1>1, SegmentOf DEF Deliver, TcpInv, TcpTypes
<1>3. CASE sock[x].state \in {"New", "None"}
  <2>1. PICK n \in {net, net \ {m}} : Apply(x, Result(sock[x], {}), n)
    BY <1>1, <1>3 DEF Deliver
  <2>2. sock' = [sock EXCEPT ![x] = sock[x]] /\ net' \subseteq net
    BY <2>1, EmitIs DEF Apply, Result
  <2>3. sock' = sock
    BY <1>2, <2>2 DEF TcpTypes
  <2> QED
    BY <1>2, <2>2, <2>3, IdleStep
<1>4. CASE sock[x].state = "Listen"
  <2>1. PICK n \in {net, net \ {m}} : Apply(x, OnSyn(sock[x], m.seg), n)
    BY <1>1, <1>4 DEF Deliver
  <2>2. n \in SUBSET net
    BY <2>1
  <2> QED
    BY <1>1, <1>2, <1>4, <2>1, <2>2, ListenTakes, Zenon
<1>5. CASE sock[x].state \notin {"New", "None", "Listen"}
  <2>1. PICK n \in {net, net \ {m}} : Apply(x, OnSegment(sock[x], m.seg), n)
    BY <1>1, <1>5 DEF Deliver
  <2>2. n \in SUBSET net
    BY <2>1
  <2>3. PICK s : s = OnAck(sock[x], m.seg)
    OBVIOUS
  <2>4. Acked(x, s)
    BY <1>1, <1>5, <2>3, AckTaken
  <2>5. s.state = sock[x].state /\ s \in Socket
    BY <2>4 DEF Acked
  <2>6. CASE s.state = "SynRcvd"
    <3>1. Apply(x, OnSynRcvd(s, m.seg), n)
      BY <1>2, <2>1, <2>3, <2>6 DEF OnSegment
    <3> QED
      BY <1>1, <1>2, <2>2, <2>4, <2>6, <3>1, SynRcvdTakes
  <2>7. CASE s.state = "SynSent"
    <3>1. Apply(x, OnSynSent(s, m.seg), n)
      BY <1>2, <2>1, <2>3, <2>7 DEF OnSegment
    <3> QED
      BY <1>1, <1>2, <2>2, <2>4, <2>7, <3>1, SynSentTakes
  <2>8. CASE s.state \in {"Established", "FinWait1", "FinWait2"}
    <3>1. Apply(x, OnOpen(s, m.seg), n)
      BY <1>2, <2>1, <2>3, <2>8 DEF OnSegment
    <3> QED
      BY <1>1, <1>2, <2>2, <2>4, <2>8, <3>1, OpenTakes
  <2>9. CASE s.state \notin {"SynRcvd", "SynSent", "Established", "FinWait1", "FinWait2"}
    <3>1. PICK e : e = IF s.state = "LastAck" /\ ~ Inflight(s)
                       THEN [s EXCEPT !.state = "Closed"] ELSE s
      BY Zenon
    <3>2. PICK out : out = {}
      BY Zenon
    <3>3. Apply(x, Result(e, out), n)
      BY <1>2, <2>1, <2>3, <2>9, <3>1, <3>2 DEF OnSegment
    <3>4. sock' = [sock EXCEPT ![x] = e] /\ net' = Emit(n, x, out)
      BY <3>3 DEF Apply, Result
    <3>5. net' \subseteq net \cup {[to |-> Peer(x), seg |-> h] : h \in out} /\ net' \subseteq net
      BY <2>2, <3>2, <3>4, EmitIs
    <3>6. \E q \in TcpStates : /\ e = [s EXCEPT !.state = q]
                               /\ q = s.state \/ (s.state = "LastAck" /\ q = "Closed")
      <4>1. s = [s EXCEPT !.state = s.state] /\ s.state \in TcpStates /\ "Closed" \in TcpStates
        BY <2>5 DEF Socket, TcpStates, Fins
      <4> QED
        BY <3>1, <4>1, Zenon
    <3>7. Received(x, s, e) /\ RcvOk(x)'
      BY <1>2, <1>5, <2>4, <3>4, <3>5, <3>6, NothingTaken, Zenon
    <3> QED
      BY <1>2, <1>5, <3>2, <3>4, <3>5, <3>7, ReceiveStep, Zenon
  <2> QED
    BY <2>6, <2>7, <2>8, <2>9
<1> QED
  BY <1>3, <1>4, <1>5

\* The invariant holds before the connection is opened.
LEMMA TcpInitOk == TcpInit => TcpInv
<1> SUFFICES ASSUME TcpInit PROVE TcpInv
  OBVIOUS
<1>1. /\ net = {} /\ sent = [x \in Sides |-> 0] /\ got = [x \in Sides |-> 0]
  BY DEF TcpInit
<1>2. ASSUME NEW x \in Sides
      PROVE  /\ sock[x] \in Socket /\ sock[x].state \in {"New", "Listen"}
             /\ sock[x].sndUna = Iss[x] /\ sock[x].sndNxt = Plus(Iss[x], 1)
             /\ sock[x].rx = <<>> /\ ~ sock[x].peerClosed
             /\ \A i \in 1 .. TX_SLOTS : ~ sock[x].pend[i].used
  <2>1. PICK st \in {"New", "Listen"} : sock[x] = Blank(st, Iss[x])
    BY DEF TcpInit
  <2>2. PICK n : n = Iss[x]
    OBVIOUS
  <2>3. st \in TcpStates /\ n \in SeqNum
    BY <2>2, SpaceIs DEF TcpStates, Early
  <2>4. /\ sock[x] \in Socket /\ sock[x].state = st /\ sock[x].sndNxt = Plus(n, 1)
        /\ sock[x].sndUna = n /\ sock[x].rx = <<>> /\ sock[x].peerClosed = FALSE
        /\ sock[x].pend = AllFree
    <3>1. PICK u : u = Blank(st, n)
      OBVIOUS
    <3>2. /\ u \in Socket /\ u.state = st /\ u.sndNxt = Plus(n, 1) /\ u.sndUna = n
          /\ u.rx = <<>> /\ u.peerClosed = FALSE /\ u.pend = AllFree
      BY <2>3, <3>1, BlankIs, Zenon
    <3> QED
      BY <2>1, <2>2, <3>1, <3>2
  <2>5. \A i \in 1 .. TX_SLOTS : ~ AllFree[i].used
    BY DEF AllFree, PEND_FREE
  <2> QED
    BY <2>2, <2>4, <2>5
<1>3. ASSUME NEW x \in Sides
      PROVE  Off(x, sock[x].sndUna) = 0 /\ Off(x, sock[x].sndNxt) = 1
  <2>1. PICK n : n = Iss[x]
    OBVIOUS
  <2>2. n \in SeqNum /\ Off(x, n) = 0 /\ 0 + 1 < SeqSpace
    BY <2>1, OffIss, SpaceIs
  <2>3. Off(x, Plus(n, 1)) = 1
    BY <2>2, OffPlus
  <2> QED
    BY <1>2, <2>1, <2>2, <2>3
<1>4. TcpTypes
  BY <1>1, <1>2, SpaceIs DEF TcpTypes, TcpInit
<1>5. ASSUME NEW x \in Sides PROVE SndOk(x)
  BY <1>1, <1>2, <1>3 DEF SndOk, Early, Fins
<1>6. ASSUME NEW x \in Sides PROVE RcvOk(x)
  <2>1. Peer(x) \in Sides
    BY Peers
  <2>2. Unopened(x)
    BY <1>1, <1>2, <1>3, <2>1 DEF Unopened
  <2>3. Len(sock[x].rx) = 0
    BY <1>2
  <2> QED
    BY <1>1, <1>2, <2>1, <2>2, <2>3 DEF RcvOk, Early
<1> QED
  BY <1>1, <1>4, <1>5, <1>6 DEF TcpInv, NetOk

\* Every step keeps the invariant.
LEMMA TcpStep == TcpInv /\ [TcpNext]_tcpVars => TcpInv'
<1> SUFFICES ASSUME TcpInv, [TcpNext]_tcpVars PROVE TcpInv'
  OBVIOUS
<1>1. CASE OpenConn
  BY <1>1, OpenKeeps
<1>2. ASSUME NEW m \in net, Deliver(m) PROVE TcpInv'
  BY <1>2, DeliverKeeps
<1>3. ASSUME NEW m \in net, Lose(m) PROVE TcpInv'
  BY <1>3, IdleStep DEF Lose
<1> QED
  BY <1>1, <1>2, <1>3, TimersKeep, SendKeeps, RecvKeeps, CloseKeeps, AbandonKeeps, IdleStep
     DEF TcpNext, tcpVars

\* The invariant implies StreamIntact.
LEMMA TcpInvOk == TcpInv => StreamIntact
<1> SUFFICES ASSUME TcpInv PROVE StreamIntact
  OBVIOUS
<1>1. ASSUME NEW x \in Sides, Synchronised(x), sock[Peer(x)].state # "None"
      PROVE  Minus(sock[Peer(x)].sndUna, Iss[Peer(x)]) <= Minus(sock[x].rcvNxt, Iss[Peer(x)])
  <2>1. Peer(x) \in Sides /\ sock[x].rcvNxt \in SeqNum
    BY Peers DEF TcpInv, TcpTypes, Socket
  <2>2. Off(Peer(x), sock[x].rcvNxt) \in Nat
    BY <2>1, OffIs, SpaceIs DEF SeqNum
  <2>3. Unopened(x) \/ Opened(x)
    BY <1>1 DEF TcpInv, RcvOk, Synchronised, Early
  <2>4. Off(Peer(x), sock[Peer(x)].sndUna) <= Off(Peer(x), sock[x].rcvNxt)
    BY <1>1, <2>2, <2>3 DEF Unopened, Opened
  <2> QED
    BY <2>4 DEF Off
<1> QED
  BY <1>1, Zenon DEF StreamIntact, TcpInv, RcvOk

\* Through any loss, repetition and reordering of segments, what each
\* application receives is its peer's stream, each byte once and in order,
\* and what a side counts as acknowledged (TcpSocket::on_ack) its peer has
\* taken: nothing is dropped from the transmit queue too early.
THEOREM StreamIsIntact == TcpSpec => []StreamIntact
BY TcpInitOk, TcpStep, TcpInvOk, PTL DEF TcpSpec
==============================================================================
