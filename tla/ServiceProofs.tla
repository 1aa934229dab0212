--------------------------- MODULE ServiceProofs ---------------------------
(***************************************************************************)
(* The compositor, the network service and the virtual file system, for    *)
(* any number of slots, sessions, contexts, sockets, files, pixels and     *)
(* frames: what a session leaves reaches no other, a reader accepts no     *)
(* torn frame, and a request is passed over a bounded number of times.     *)
(***************************************************************************)
EXTENDS Wm, Netd, FrameSwap, Vfs, WellFoundedInduction, TLAPS

-----------------------------------------------------------------------------
(* Bounded sets of integers have a least and a greatest element.           *)

LEMMA LeastIs ==
    ASSUME NEW S \in SUBSET Int, S # {}, NEW n \in Int, \A x \in S : n <= x
    PROVE  Least(S) \in S /\ \A x \in S : Least(S) <= x
<1> DEFINE T == {x - n : x \in S}
<1>1. T \subseteq Nat /\ T # {}
  <2>1. \A x \in S : x - n \in Nat
    OBVIOUS
  <2>2. PICK x \in S : TRUE
    BY Zenon
  <2>3. x - n \in T
    OBVIOUS
  <2> QED
    BY <2>1, <2>3
<1>2. PICK m \in T : \A x \in T : ~(<<x, m>> \in OpToRel(<, Nat))
  BY <1>1, WFMin, NatLessThanWellFounded, Zenon
<1>3. \A x \in T : ~(x < m)
  BY <1>1, <1>2, Zenon DEF OpToRel
<1>4. \E y \in S : \A x \in S : y <= x
  <2>1. PICK y \in S : m = y - n
    OBVIOUS
  <2>2. \A x \in S : ~(x - n < y - n)
    BY <1>3, <2>1, Zenon
  <2> QED
    BY <2>2
<1> QED
  BY <1>4, Zenon DEF Least

LEMMA GreatestIs ==
    ASSUME NEW S \in SUBSET Int, S # {}, NEW n \in Int, \A x \in S : x <= n
    PROVE  Greatest(S) \in S /\ \A x \in S : x <= Greatest(S)
<1> DEFINE T == {n - x : x \in S}
<1>1. T \subseteq Nat /\ T # {}
  <2>1. \A x \in S : n - x \in Nat
    OBVIOUS
  <2>2. PICK x \in S : TRUE
    BY Zenon
  <2>3. n - x \in T
    OBVIOUS
  <2> QED
    BY <2>1, <2>3
<1>2. PICK m \in T : \A x \in T : ~(<<x, m>> \in OpToRel(<, Nat))
  BY <1>1, WFMin, NatLessThanWellFounded, Zenon
<1>3. \A x \in T : ~(x < m)
  BY <1>1, <1>2, Zenon DEF OpToRel
<1>4. \E y \in S : \A x \in S : x <= y
  <2>1. PICK y \in S : m = n - y
    OBVIOUS
  <2>2. \A x \in S : ~(n - x < n - y)
    BY <1>3, <2>1, Zenon
  <2> QED
    BY <2>2
<1> QED
  BY <1>4, ZenonT(30) DEF Greatest

-----------------------------------------------------------------------------
(* Windows.                                                                *)

WmSession == 0 .. MAX_CLIENTS - 1

WmTypes ==
    /\ surf \in [Slots -> [used : BOOLEAN, owner : WmSession, z : ZRange, context : Contexts]]
    /\ sessions \subseteq WmSession
    /\ activeCtx \in Contexts
    /\ DOMAIN pending = Contexts

WmInv == WmTypes /\ WindowsSound

\* The two ends of the pile are within the range of z.
LEMMA PileBounds ==
    ASSUME WmTypes
    PROVE  AboveAll \in ZRange /\ BelowAll \in ZRange
<1> DEFINE Z == {surf[i].z : i \in Live}
<1>1. Z \subseteq ZRange /\ ZRange \subseteq Int /\ ZMax \in Nat
  BY WmBounds DEF WmTypes, Live, ZRange
<1>2. (Live = {}) <=> (Z = {})
  BY Zenon
<1>3. Z # {} => Greatest(Z) \in ZRange /\ Least(Z) \in ZRange
  <2>1. \A x \in Z : -ZMax - 1 <= x /\ x <= ZMax
    BY <1>1 DEF ZRange
  <2> HIDE DEF Z
  <2> QED
    BY <1>1, <2>1, GreatestIs, LeastIs, -ZMax - 1 \in Int, ZMax \in Int, ZenonT(30)
<1> QED
  BY <1>1, <1>2, <1>3 DEF AboveAll, BelowAll, ZRange

\* The requests that leave the sessions and the notices alone.
LEMMA PileKeeps ==
    ASSUME WmInv, UNCHANGED <<sessions, activeCtx, banner, pending>>,
           NEW i \in Slots, NEW z \in ZRange, NEW c \in Contexts, NEW k \in sessions,
           \/ surf' = surf
           \/ surf' = [surf EXCEPT ![i] = EMPTY]
           \/ surf' = [surf EXCEPT ![i].z = z]
           \/ surf' = [surf EXCEPT ![i].context = c]
           \/ surf' = [surf EXCEPT ![i] = [used |-> TRUE, owner |-> k, z |-> z, context |-> 0]]
    PROVE  WmInv'
<1>1. 0 \in WmSession /\ 0 \in ZRange /\ 0 \in Contexts
  BY WmBounds DEF WmSession, ZRange, Contexts
<1>2. k \in WmSession
  BY DEF WmInv, WmTypes
<1> DEFINE Surface == [used : BOOLEAN, owner : WmSession, z : ZRange, context : Contexts]
<1>3. ASSUME NEW s \in Surface,
             s.used => s.owner = k \/ (surf[i].used /\ s.owner = surf[i].owner),
             surf' = [surf EXCEPT ![i] = s]
      PROVE  /\ surf' \in [Slots -> Surface]
             /\ \A j \in Slots : surf'[j].used =>
                   surf'[j].owner = k \/ (surf[j].used /\ surf'[j].owner = surf[j].owner)
  BY <1>3 DEF WmInv, WmTypes
<1>4. /\ surf' \in [Slots -> Surface]
      /\ \A j \in Slots : surf'[j].used =>
            surf'[j].owner = k \/ (surf[j].used /\ surf'[j].owner = surf[j].owner)
  <2>1. surf \in [Slots -> Surface] /\ surf[i] \in Surface
    BY DEF WmInv, WmTypes
  <2>2. CASE surf' = surf
    BY <2>1, <2>2
  <2>3. CASE surf' = [surf EXCEPT ![i] = EMPTY]
    BY <1>1, <1>3, <2>3, Zenon DEF EMPTY
  <2>4. CASE surf' = [surf EXCEPT ![i].z = z]
    <3>1. [surf[i] EXCEPT !.z = z] \in Surface
      BY <2>1
    <3>2. /\ [surf[i] EXCEPT !.z = z].used = surf[i].used
          /\ [surf[i] EXCEPT !.z = z].owner = surf[i].owner
      BY <2>1
    <3>3. surf' = [surf EXCEPT ![i] = [surf[i] EXCEPT !.z = z]]
      BY <2>4
    <3> HIDE DEF Surface
    <3> QED
      BY <1>3, <3>1, <3>2, <3>3, Zenon
  <2>5. CASE surf' = [surf EXCEPT ![i].context = c]
    <3>1. [surf[i] EXCEPT !.context = c] \in Surface
      BY <2>1
    <3>2. /\ [surf[i] EXCEPT !.context = c].used = surf[i].used
          /\ [surf[i] EXCEPT !.context = c].owner = surf[i].owner
      BY <2>1
    <3>3. surf' = [surf EXCEPT ![i] = [surf[i] EXCEPT !.context = c]]
      BY <2>5
    <3> HIDE DEF Surface
    <3> QED
      BY <1>3, <3>1, <3>2, <3>3, Zenon
  <2>6. CASE surf' = [surf EXCEPT ![i] = [used |-> TRUE, owner |-> k, z |-> z, context |-> 0]]
    <3> DEFINE s == [used |-> TRUE, owner |-> k, z |-> z, context |-> 0]
    <3>1. s \in Surface /\ s.owner = k
      BY <1>1, <1>2
    <3>2. surf' = [surf EXCEPT ![i] = s]
      BY <2>6
    <3> HIDE DEF s, Surface
    <3> QED
      BY <1>3, <3>1, <3>2, ZenonT(30)
  <2> QED
    BY <2>2, <2>3, <2>4, <2>5, <2>6
<1>7. WmTypes'
  BY <1>4 DEF WmInv, WmTypes
<1>5. SurfacesOwned'
  BY <1>4 DEF WmInv, WindowsSound, SurfacesOwned, Live
<1>6. NoticePlaced'
  BY DEF WmInv, WindowsSound, NoticePlaced
<1> QED
  BY <1>5, <1>6, <1>7 DEF WmInv, WindowsSound

\* Showing a context puts the notices where they belong.
LEMMA SettleKeeps ==
    ASSUME WmTypes, NoticePlaced, NEW c \in Contexts, Settle(c), activeCtx' = c
    PROVE  NoticePlaced' /\ DOMAIN pending' = Contexts
<1>1. CASE banner # NoNotice /\ banner.ctx # c
  <2> DEFINE back == [pending EXCEPT ![banner.ctx] = banner]
  <2>1. banner' = back[c] /\ pending' = [back EXCEPT ![c] = NoNotice]
    BY <1>1 DEF Settle
  <2>2. back[c] = pending[c] /\ DOMAIN back = Contexts
    BY <1>1 DEF NoticePlaced, WmTypes
  <2> QED
    BY <1>1, <2>1, <2>2 DEF NoticePlaced, WmTypes
<1>2. CASE banner # NoNotice /\ banner.ctx = c
  BY <1>2 DEF Settle, NoticePlaced, WmTypes
<1>3. CASE banner = NoNotice
  <2>1. banner' = pending[c] /\ pending' = [pending EXCEPT ![c] = NoNotice]
    BY <1>3 DEF Settle
  <2> QED
    BY <2>1 DEF NoticePlaced, WmTypes
<1> QED
  BY <1>1, <1>2, <1>3

\* A request of a session keeps WmInv.
LEMMA RequestKeeps ==
    ASSUME WmInv, NEW k \in WmSession, WmRequest(k)
    PROVE  WmInv'
<1>1. k \in sessions
  BY Zenon DEF WmRequest, CreateSurface, Destroy, ReallocFails, RaiseLower, SetContext, Grab, Ungrab,
     Notify, DismissNotification, NotificationsClear, SetDnd, SwitchContext, Activate, Open,
     Disconnect, Turn
<1>2. PICK i0 \in Slots, z0 \in ZRange, c0 \in Contexts : TRUE
  BY WmBounds DEF Slots, ZRange, Contexts
<1>3. AboveAll \in ZRange /\ BelowAll \in ZRange
  BY PileBounds DEF WmInv
<1>4. CASE Grab(k) \/ Ungrab(k) \/ SetDnd(k)
  BY <1>1, <1>2, <1>4, PileKeeps DEF Grab, Ungrab, SetDnd
<1>5. CASE Destroy(k) \/ ReallocFails(k)
  BY <1>1, <1>2, <1>5, PileKeeps DEF Destroy, ReallocFails
<1>6. CASE RaiseLower(k)
  BY <1>1, <1>2, <1>3, <1>6, PileKeeps, Zenon DEF RaiseLower
<1>7. CASE SetContext(k)
  BY <1>1, <1>2, <1>7, PileKeeps, Zenon DEF SetContext
<1>8. CASE CreateSurface(k)
  <2>1. Least(Slots \ Live) \in Slots
    <3>1. Slots \ Live \in SUBSET Int /\ \A x \in Slots \ Live : 0 <= x
      BY DEF Slots
    <3> QED
      BY <1>8, <3>1, LeastIs DEF CreateSurface
  <2> QED
    BY <1>1, <1>2, <1>8, <2>1, PileKeeps, Zenon DEF CreateSurface
<1>9. ASSUME UNCHANGED <<surf, sessions, activeCtx>>, NoticePlaced', DOMAIN pending' = Contexts
      PROVE  WmInv'
  BY <1>9 DEF WmInv, WmTypes, WindowsSound, SurfacesOwned, Live
<1>10. CASE Notify(k)
  <2>1. PICK c, n : /\ n.ctx = c
                    /\ \/ UNCHANGED <<banner, pending>>
                       \/ c = activeCtx /\ banner' = n /\ UNCHANGED pending
                       \/ c # activeCtx /\ pending' = [pending EXCEPT ![c] = n] /\ UNCHANGED banner
    BY <1>10, Zenon DEF Notify
  <2>2. NoticePlaced' /\ DOMAIN pending' = Contexts
    BY <1>10, <2>1, Zenon DEF Notify, WmInv, WmTypes, WindowsSound, NoticePlaced
  <2> QED
    BY <1>9, <1>10, <2>2, Zenon DEF Notify
<1>11. CASE DismissNotification(k) \/ NotificationsClear(k)
  <2>1. NoticePlaced' /\ DOMAIN pending' = Contexts
    BY <1>11 DEF DismissNotification, NotificationsClear, WmInv, WmTypes, WindowsSound, NoticePlaced
  <2> QED
    BY <1>9, <1>11, <2>1 DEF DismissNotification, NotificationsClear
<1>12. ASSUME NEW c \in Contexts, activeCtx' = c, Settle(c), UNCHANGED sessions, NEW i \in Slots,
              surf' = surf \/ surf' = [surf EXCEPT ![i].z = AboveAll]
       PROVE  WmInv'
  <2>1. NoticePlaced' /\ DOMAIN pending' = Contexts
    BY <1>12, SettleKeeps DEF WmInv, WindowsSound
  <2>2. /\ surf' \in [Slots -> [used : BOOLEAN, owner : WmSession, z : ZRange, context : Contexts]]
        /\ \A j \in Slots : surf'[j].used = surf[j].used /\ surf'[j].owner = surf[j].owner
    BY <1>3, <1>12 DEF WmInv, WmTypes
  <2>3. WmTypes'
    BY <1>12, <2>1, <2>2 DEF WmInv, WmTypes
  <2>4. SurfacesOwned'
    BY <1>12, <2>2 DEF WmInv, WindowsSound, SurfacesOwned, Live
  <2> QED
    BY <2>1, <2>3, <2>4 DEF WmInv, WindowsSound
<1>13. CASE SwitchContext(k)
  BY <1>2, <1>12, <1>13 DEF SwitchContext
<1>14. CASE Activate(k)
  <2>1. PICK i \in Live : /\ activeCtx' = surf[i].context
                          /\ Settle(surf[i].context)
                          /\ BringUp(i)
    BY <1>14 DEF Activate
  <2>2. i \in Slots /\ surf[i].context \in Contexts
    BY DEF Live, WmInv, WmTypes
  <2> QED
    BY <1>12, <1>14, <2>1, <2>2, Zenon DEF Activate, BringUp
<1>15. CASE Open(k)
  <2>1. Least(WmSession \ sessions) \in WmSession
    <3>1. WmSession \ sessions \in SUBSET Int /\ \A x \in WmSession \ sessions : 0 <= x
      BY DEF WmSession
    <3>2. WmSession \ sessions # {}
      BY <1>15 DEF Open, WmSession
    <3> QED
      BY <3>1, <3>2, LeastIs
  <2>2. sessions' \subseteq WmSession /\ sessions \subseteq sessions'
    BY <1>15, <2>1, Zenon DEF Open, WmInv, WmTypes, WmSession
  <2> QED
    BY <1>15, <2>2, Zenon DEF Open, WmInv, WmTypes, WindowsSound, SurfacesOwned, NoticePlaced, Live
<1>16. CASE Disconnect(k)
  <2>1. /\ surf' = [i \in Slots |-> IF Mine(k, i) THEN EMPTY ELSE surf[i]]
        /\ sessions' = sessions \ {k} /\ UNCHANGED <<activeCtx, banner, pending>>
    BY <1>16 DEF Disconnect, FreeSessionSurfaces
  <2>2. 0 \in WmSession /\ 0 \in ZRange /\ 0 \in Contexts
    BY WmBounds DEF WmSession, ZRange, Contexts
  <2>3. WmTypes'
    BY <2>1, <2>2 DEF WmInv, WmTypes, EMPTY
  <2>4. \A i \in Slots : surf'[i].used => surf[i].used /\ surf[i].owner # k /\ surf'[i] = surf[i]
    BY <2>1 DEF EMPTY, Mine, Live
  <2>5. SurfacesOwned'
    BY <2>1, <2>4 DEF WmInv, WindowsSound, SurfacesOwned, Live
  <2>6. NoticePlaced'
    BY <2>1 DEF WmInv, WindowsSound, NoticePlaced
  <2> QED
    BY <2>3, <2>5, <2>6 DEF WmInv, WindowsSound
<1> QED
  BY <1>4, <1>5, <1>6, <1>7, <1>8, <1>10, <1>11, <1>13, <1>14, <1>15, <1>16 DEF WmRequest

\* A session's end gives back its surfaces and showing a context moves notices
\* with it, whatever the number of slots, sessions and contexts: WindowsSound.
THEOREM WindowsAreSound == WmSpec => []WindowsSound
<1>1. WmInit => WmInv
  <2>1. 0 \in WmSession /\ 0 \in ZRange /\ 0 \in Contexts
    BY WmBounds DEF WmSession, ZRange, Contexts
  <2> QED
    BY <2>1 DEF WmInit, WmInv, WmTypes, WindowsSound, SurfacesOwned, NoticePlaced, Live, EMPTY
<1>2. ASSUME WmInv, [WmNext]_wmVars
      PROVE  WmInv'
  <2>1. CASE UNCHANGED wmVars
    BY <1>2, <2>1, Zenon
       DEF wmVars, WmInv, WmTypes, WindowsSound, SurfacesOwned, NoticePlaced, Live
  <2>2. ASSUME NEW k \in 0 .. MAX_CLIENTS - 1, WmRequest(k)
        PROVE  WmInv'
    BY <1>2, <2>2, RequestKeeps DEF WmSession
  <2>3. CASE Pass \/ NextPass
    BY <1>2, <2>3
       DEF Pass, NextPass, WmInv, WmTypes, WindowsSound, SurfacesOwned, NoticePlaced, Live
  <2>4. ASSUME UNCHANGED <<sessions, activeCtx, pending>>, banner' \in {banner, NoNotice},
               surf' = surf \/ \E i : surf' = [surf EXCEPT ![i].z = AboveAll]
        PROVE  WmInv'
    <3>1. AboveAll \in ZRange
      BY <1>2, PileBounds DEF WmInv
    <3>2. /\ surf' \in [Slots -> [used : BOOLEAN, owner : WmSession, z : ZRange, context : Contexts]]
          /\ \A j \in Slots : surf'[j].used = surf[j].used /\ surf'[j].owner = surf[j].owner
      BY <1>2, <2>4, <3>1 DEF WmInv, WmTypes
    <3>3. WmTypes'
      BY <1>2, <2>4, <3>2 DEF WmInv, WmTypes
    <3>4. SurfacesOwned'
      BY <1>2, <2>4, <3>2 DEF WmInv, WindowsSound, SurfacesOwned, Live
    <3>5. NoticePlaced'
      BY <1>2, <2>4 DEF WmInv, WindowsSound, NoticePlaced
    <3> QED
      BY <3>3, <3>4, <3>5 DEF WmInv, WindowsSound
  <2>5. CASE ClickBanner \/ Click \/ MetaTab
    BY <2>4, <2>5 DEF ClickBanner, Click, MetaTab, BringUp
  <2> QED
    BY <1>2, <2>1, <2>2, <2>3, <2>5 DEF WmNext
<1>3. WmInv => WindowsSound
  BY DEF WmInv
<1> QED
  BY <1>1, <1>2, <1>3, PTL DEF WmSpec

-----------------------------------------------------------------------------
(* Sessions and sockets.                                                   *)

NetdTypes ==
    /\ clients \subseteq Session
    /\ at \in Session
    /\ udp \in [Socks -> [used : BOOLEAN, owner : Session \cup {DNS_SLOT},
                          port : Ports \cup {DNS_PORT}]]
    /\ tcp \in [Conns -> [state : {"none", "opening", "open", "closed"}, owner : Session]]
    /\ serving \in [what : {"idle", "opening", "reply", "wait"}, conn : Conns \cup {0}]

\* While the service waits for a connection, its place is taken and the session
\* is there.
NetdInv ==
    /\ NetdTypes
    /\ SocketsOwned
    /\ serving.what # "idle" => at \in clients
    /\ serving.what = "opening" => serving.conn \in Conns /\ tcp[serving.conn].state # "none"

\* The loop stays among the session slots.
LEMMA LoopStays ==
    ASSUME NEW n \in Session
    PROVE  (n + 1) % NET_CLIENTS \in Session
<1>1. n + 1 \in Nat /\ NET_CLIENTS \in Nat \ {0}
  BY NetdBounds DEF Session
<1> QED
  BY <1>1 DEF Session

\* The first place of a set of slots is one of them.
LEMMA FirstOfIs ==
    ASSUME NEW S \in SUBSET Nat, S # {}
    PROVE  FirstOf(S) \in S
<1>1. S \in SUBSET Int /\ 0 \in Int /\ \A x \in S : 0 <= x
  OBVIOUS
<1>2. \E y \in S : \A x \in S : y <= x
  BY <1>1, LeastIs, Zenon
<1> QED
  BY <1>2, Zenon DEF FirstOf

\* Binding a port gives it one owner.
LEMMA BindKeeps ==
    ASSUME NetdTypes, SocketsOwned, NEW k \in clients \cup {DNS_SLOT},
           NEW port \in Ports \cup {DNS_PORT}, udp' = UdpBind(port, k),
           UNCHANGED <<clients, tcp>>
    PROVE  /\ udp' \in [Socks -> [used : BOOLEAN, owner : Session \cup {DNS_SLOT},
                                  port : Ports \cup {DNS_PORT}]]
           /\ \A i \in Socks : udp'[i].used =>
                 /\ udp'[i].owner \in clients \cup {DNS_SLOT}
                 /\ \A j \in Socks \ {i} : udp'[j].used => udp'[j].port # udp'[i].port
<1> DEFINE free == {i \in Socks : ~udp[i].used}
<1>1. CASE udp' = udp
  BY <1>1 DEF NetdTypes, SocketsOwned
<1>2. CASE /\ free # {} /\ \A i \in Socks : udp[i].used => udp[i].port # port
           /\ udp' = [udp EXCEPT ![FirstOf(free)] = [used |-> TRUE, owner |-> k, port |-> port]]
  <2>1. PICK f \in Socks : f = FirstOf(free)
    <3>1. free \in SUBSET Nat
      BY DEF Socks
    <3> QED
      BY <1>2, <3>1, FirstOfIs, Zenon
  <2>2. k \in Session \cup {DNS_SLOT}
    BY DEF NetdTypes
  <2>3. udp' = [udp EXCEPT ![f] = [used |-> TRUE, owner |-> k, port |-> port]]
    BY <1>2, <2>1
  <2>4. udp' \in [Socks -> [used : BOOLEAN, owner : Session \cup {DNS_SLOT},
                            port : Ports \cup {DNS_PORT}]]
    BY <2>2, <2>3 DEF NetdTypes
  <2>5. /\ udp'[f].owner = k /\ udp'[f].port = port
        /\ \A i \in Socks \ {f} : udp'[i] = udp[i]
    BY <2>3 DEF NetdTypes
  <2> QED
    BY <1>2, <2>4, <2>5 DEF SocketsOwned
<1> QED
  BY <1>1, <1>2, Zenon DEF UdpBind

\* A request of a session keeps NetdInv.
LEMMA NetRequestKeeps ==
    ASSUME NetdInv, NEW k \in Session,
           \/ UdpRequest(k) \/ ResolveName(k) \/ TcpOpen(k) \/ TcpCloseReq(k)
           \/ OtherRequest(k) \/ NetOpen(k) \/ ClientGoes(k) \/ SessionEnds(k)
    PROVE  NetdInv'
<1> USE DEF NetdInv
<1>0. 0 \in Session
  BY NetdBounds DEF Session
<1>1. CASE UdpRequest(k) \/ ResolveName(k)
  <2>1. PICK q \in clients \cup {DNS_SLOT}, port \in Ports \cup {DNS_PORT} : udp' = UdpBind(port, q)
    BY <1>1, Zenon DEF UdpRequest, ResolveName, NetdRequest
  <2>2. /\ UNCHANGED <<clients, tcp, at>> /\ at \in clients
        /\ serving' \in {Answering, Waiting}
    BY <1>1, Zenon DEF UdpRequest, ResolveName, NetdRequest
  <2>3. /\ udp' \in [Socks -> [used : BOOLEAN, owner : Session \cup {DNS_SLOT},
                               port : Ports \cup {DNS_PORT}]]
        /\ \A i \in Socks : udp'[i].used =>
              /\ udp'[i].owner \in clients \cup {DNS_SLOT}
              /\ \A j \in Socks \ {i} : udp'[j].used => udp'[j].port # udp'[i].port
    BY <2>1, <2>2, BindKeeps, Zenon
  <2>4. serving'.what \notin {"idle", "opening"}
        /\ serving' \in [what : {"idle", "opening", "reply", "wait"}, conn : Conns \cup {0}]
    BY <2>2 DEF Answering, Waiting
  <2>5. NetdTypes'
    BY <2>2, <2>3, <2>4, Zenon DEF NetdTypes
  <2>6. SocketsOwned'
    BY <2>2, <2>3, <2>4, Zenon DEF SocketsOwned
  <2> QED
    BY <2>2, <2>4, <2>5, <2>6, Zenon
<1>2. CASE TcpOpen(k)
  <2> DEFINE free == {i \in Conns : tcp[i].state \in {"none", "closed"}}
  <2>1. PICK f \in Conns : f = FirstOf(free)
    <3>1. free \in SUBSET Nat /\ free # {}
      BY <1>2 DEF Conns, TcpOpen
    <3> QED
      BY <3>1, FirstOfIs, Zenon
  <2>2. /\ tcp' = [tcp EXCEPT ![f] = [state |-> "opening", owner |-> k]]
        /\ serving' = [what |-> "opening", conn |-> f]
        /\ UNCHANGED <<clients, udp, at>> /\ at = k /\ k \in clients
    BY <1>2, <2>1, Zenon DEF TcpOpen, NetdRequest
  <2>3. NetdTypes'
    BY <2>2, Zenon DEF NetdTypes
  <2>4. /\ tcp'[f].owner = k /\ tcp'[f].state = "opening"
        /\ \A i \in Conns \ {f} : tcp'[i] = tcp[i]
    BY <2>2, Zenon DEF NetdTypes
  <2>5. SocketsOwned'
    BY <2>2, <2>4 DEF SocketsOwned
  <2> QED
    BY <2>2, <2>3, <2>4, <2>5, Zenon
<1>3. CASE TcpCloseReq(k)
  <2>1. PICK i \in Conns : tcp' = [tcp EXCEPT ![i] = NoTcp]
    BY <1>3, Zenon DEF TcpCloseReq
  <2>2. UNCHANGED <<clients, udp, at>> /\ at \in clients /\ serving' = Waiting
    BY <1>3, Zenon DEF TcpCloseReq, NetdRequest
  <2>3. NetdTypes'
    BY <1>0, <2>1, <2>2, Zenon DEF NetdTypes, NoTcp, Waiting
  <2>4. tcp'[i].state = "none" /\ \A j \in Conns \ {i} : tcp'[j] = tcp[j]
    BY <2>1, Zenon DEF NetdTypes, NoTcp
  <2>5. SocketsOwned'
    BY <2>2, <2>4, Zenon DEF SocketsOwned, Waiting
  <2> QED
    BY <2>2, <2>3, <2>5, Zenon DEF Waiting
<1>4. CASE OtherRequest(k) \/ ClientGoes(k)
  BY <1>4 DEF OtherRequest, ClientGoes, NetdRequest, Waiting, NetdTypes, SocketsOwned
<1>5. CASE NetOpen(k)
  <2>1. FirstOf(Session \ clients) \in Session
    <3>1. Session \ clients # {}
      BY <1>5, Zenon DEF NetOpen
    <3>2. Session \ clients \in SUBSET Nat
      BY DEF Session
    <3> QED
      BY <3>1, <3>2, FirstOfIs, Zenon
  <2>2. /\ clients' \subseteq Session /\ clients \subseteq clients'
        /\ at' \in Session /\ serving.what = "idle" /\ UNCHANGED <<udp, tcp, serving>>
    BY <1>5, <2>1, LoopStays, Zenon DEF NetOpen, NetdRequest, NetdReady, NetdTypes
  <2> QED
    BY <2>2, Zenon DEF NetdTypes, SocketsOwned
<1>6. CASE SessionEnds(k)
  <2>1. /\ LibertaSessao(k) /\ clients' = clients \ {k}
        /\ at' \in Session /\ serving.what = "idle" /\ UNCHANGED serving
    BY <1>6, LoopStays, Zenon DEF SessionEnds, NetdRequest, NetdReady, NetdTypes
  <2>2. NetdTypes'
    BY <1>0, <2>1, Zenon DEF LibertaSessao, NetdTypes, NoTcp, NoSock
  <2>3. k # DNS_SLOT
    BY NetdBounds DEF Session, DNS_SLOT
  <2>4. /\ \A i \in Socks : udp'[i].used => udp'[i] = udp[i] /\ udp[i].owner # k
        /\ \A i \in Conns : tcp'[i].state # "none" => tcp'[i] = tcp[i] /\ tcp[i].owner # k
    BY <2>1, Zenon DEF LibertaSessao, NetdTypes, NoTcp, NoSock
  <2>5. SocketsOwned'
    BY <2>1, <2>3, <2>4, SMTT(30) DEF SocketsOwned
  <2> QED
    BY <2>1, <2>2, <2>5, Zenon
<1> QED
  BY <1>1, <1>2, <1>3, <1>4, <1>5, <1>6, Zenon

\* Every socket belongs to a session that is there, whatever the number of
\* sessions, sockets and connections: what one session leaves is never the next
\* one's, whose slot number is the same (LibertaSessao).
THEOREM SocketsAreOwned == NetdSpec => []SocketsOwned
<1>1. NetdInit => NetdInv
  BY NetdBounds
     DEF NetdInit, NetdInv, NetdTypes, SocketsOwned, NoSock, NoTcp, NetdIdle, Session
<1>2. NetdInv /\ [NetdNext]_netdVars => NetdInv'
  <2> SUFFICES ASSUME NetdInv, [NetdNext]_netdVars PROVE NetdInv'
    OBVIOUS
  <2> USE DEF NetdInv
  <2>1. CASE UNCHANGED netdVars
    BY <2>1, Zenon DEF netdVars, NetdTypes, SocketsOwned
  <2>2. CASE TcpOpened
    <3>1. PICK c \in Conns : c = serving.conn /\ serving.what = "opening" /\ tcp[c].state # "none"
      BY <2>2 DEF TcpOpened
    <3>2. /\ UNCHANGED <<clients, udp, at>> /\ serving' = Answering /\ at \in clients
          /\ tcp' = [tcp EXCEPT ![c] = NoTcp] \/ tcp' = [tcp EXCEPT ![c].state = "open"]
      BY <2>2, <3>1 DEF TcpOpened
    <3>3. 0 \in Session
      BY NetdBounds DEF Session
    <3>4. NetdTypes'
      BY <3>2, <3>3 DEF NetdTypes, NoTcp, Answering
    <3>5. /\ tcp'[c].state # "none" => tcp'[c].owner = tcp[c].owner
          /\ \A j \in Conns \ {c} : tcp'[j] = tcp[j]
      BY <3>2 DEF NetdTypes, NoTcp
    <3>6. SocketsOwned'
      BY <3>1, <3>2, <3>5 DEF SocketsOwned, Answering
    <3> QED
      BY <3>2, <3>4, <3>6 DEF Answering
  <2>3. CASE Answer \/ NothingFrom
    BY <2>3, LoopStays DEF Answer, NothingFrom, NetdReady, NetdIdle, NetdTypes, SocketsOwned
  <2>4. ASSUME NEW i \in Conns, ConnReset(i)
        PROVE  NetdInv'
    <3>1. /\ tcp' = [tcp EXCEPT ![i].state = "closed"] /\ tcp[i].state # "none"
          /\ UNCHANGED <<clients, udp, at, serving>>
      BY <2>4 DEF ConnReset
    <3>2. NetdTypes'
      BY <3>1 DEF NetdTypes
    <3>3. /\ tcp'[i].owner = tcp[i].owner /\ tcp'[i].state = "closed"
          /\ \A j \in Conns \ {i} : tcp'[j] = tcp[j]
      BY <3>1 DEF NetdTypes
    <3> QED
      BY <3>1, <3>2, <3>3 DEF SocketsOwned
  <2> QED
    BY <2>1, <2>2, <2>3, <2>4, NetRequestKeeps, Zenon DEF NetdNext
<1>3. NetdInv => SocketsOwned
  BY DEF NetdInv
<1> QED
  BY <1>1, <1>2, <1>3, PTL DEF NetdSpec

-----------------------------------------------------------------------------
(* Frames.                                                                 *)

FrmTypes ==
    /\ frmSeq \in Nat /\ front \in {0, 1}
    /\ frames \in [{0, 1} -> [Pixels -> Nat]]
    /\ comp \in [pc : {"idle", "paint", "swap", "publish"}, frame : 0 .. MaxFrames,
                 left : SUBSET Pixels, shown : Nat]
    /\ rd \in [pc : {"idle", "retry", "front", "pixels", "done"}, s : Nat,
               front : {0, 1}, got : [Pixels -> Nat], left : SUBSET Pixels, since : Nat]

\* The number counts the swaps; the front is the frame shown last, the back the
\* one in progress.
CompInv ==
    /\ comp.frame = IF comp.pc = "idle" THEN comp.shown ELSE comp.shown + 1
    /\ frmSeq = IF comp.pc \in {"swap", "publish"} THEN 2 * comp.shown + 1
                                                    ELSE 2 * comp.shown
    /\ comp.pc # "publish" => \A p \in Pixels : frames[front][p] = comp.shown
    /\ comp.pc = "publish" => \A p \in Pixels : frames[front][p] = comp.frame
    /\ comp.pc = "paint" => \A p \in Pixels \ comp.left : frames[1 - front][p] = comp.frame
    /\ comp.pc = "swap" => \A p \in Pixels : frames[1 - front][p] = comp.frame

\* While the number is the one the reader took, no swap has begun and what it
\* has is of the front.
ReadInv ==
    /\ rd.since <= comp.shown
    /\ rd.pc \in {"front", "pixels"} =>
          /\ rd.s <= frmSeq
          /\ rd.s = frmSeq => comp.pc \in {"idle", "paint"}
    /\ rd.pc = "pixels" /\ rd.s = frmSeq =>
          /\ rd.front = front
          /\ \A p \in Pixels \ rd.left : rd.got[p] = comp.shown
    /\ rd.pc = "done" => \E f \in Nat : f >= rd.since /\ \A p \in Pixels : rd.got[p] = f

FrmInv == FrmTypes /\ CompInv /\ ReadInv

\* The number does not come round in the frames of an instance.
LEMMA SeqStep ==
    ASSUME NEW n \in Nat, n <= 2 * MaxFrames
    PROVE  n % SeqWidth = n
<1>1. SeqWidth \in Nat /\ n < SeqWidth
  BY FrmBounds
<1> QED
  BY <1>1

\* The compositor's first and last number are odd and even.
LEMMA SeqParity ==
    ASSUME NEW n \in Nat
    PROVE  (2 * n + 1) % 2 = 1
OBVIOUS

\* FrmInv holds at the start.
LEMMA FrmStarts == FrmInit => FrmInv
BY FrmBounds DEF FrmInit, FrmInv, FrmTypes, CompInv, ReadInv

\* A step of recompose keeps FrmInv.
LEMMA CompKeeps ==
    ASSUME FrmInv, CompStep
    PROVE  FrmInv'
<1> USE FrmBounds DEF FrmInv
<1>1. CASE Compose
  <2>1. FrmTypes'
    <3>1. comp.frame \in 0 .. MaxFrames /\ comp.frame < MaxFrames
      BY <1>1 DEF Compose, FrmTypes
    <3>2. comp.frame + 1 \in 0 .. MaxFrames
      BY <3>1
    <3> QED
      BY <1>1, <3>2, Zenon DEF Compose, FrmTypes
  <2>2. CompInv'
    BY <1>1 DEF Compose, FrmTypes, CompInv
  <2>3. ReadInv'
    BY <1>1 DEF Compose, FrmTypes, ReadInv
  <2> QED
    BY <2>1, <2>2, <2>3
<1>2. ASSUME NEW p \in Pixels, Paint(p)
      PROVE  FrmInv'
  <2>1. FrmTypes'
    BY <1>2 DEF Paint, FrmTypes
  <2>2. /\ frames'[front] = frames[front]
        /\ frames'[1 - front] = [frames[1 - front] EXCEPT ![p] = comp.frame]
        /\ 1 - front \in {0, 1}
    BY <1>2 DEF Paint, FrmTypes
  <2>3. CompInv'
    BY <1>2, <2>2 DEF Paint, FrmTypes, CompInv
  <2>4. ReadInv'
    BY <1>2, <2>2 DEF Paint, FrmTypes, ReadInv
  <2> QED
    BY <2>1, <2>3, <2>4
<1>3. CASE SeqOdd
  <2>1. frmSeq' = frmSeq + 1 /\ frmSeq = 2 * comp.shown
    BY <1>3, SeqStep, frmSeq + 1 \in Nat, frmSeq + 1 <= 2 * MaxFrames DEF SeqOdd, FrmTypes, CompInv
  <2> QED
    BY <1>3, <2>1 DEF SeqOdd, FrmTypes, CompInv, ReadInv
<1>4. CASE Swap
  BY <1>4 DEF Swap, FrmTypes, CompInv, ReadInv
<1>5. CASE SeqEven
  <2>1. frmSeq' = frmSeq + 1 /\ frmSeq = 2 * comp.shown + 1
    BY <1>5, SeqStep, frmSeq + 1 \in Nat, frmSeq + 1 <= 2 * MaxFrames DEF SeqEven, FrmTypes, CompInv
  <2>2. FrmTypes'
    <3>1. comp.frame \in Nat /\ frmSeq' \in Nat
      BY <2>1 DEF FrmTypes
    <3> QED
      BY <1>5, <3>1, Zenon DEF SeqEven, FrmTypes
  <2>3. CompInv'
    BY <1>5, <2>1 DEF SeqEven, FrmTypes, CompInv
  <2>4. ReadInv'
    BY <1>5, <2>1 DEF SeqEven, FrmTypes, CompInv, ReadInv
  <2> QED
    BY <2>2, <2>3, <2>4
<1> QED
  BY <1>1, <1>2, <1>3, <1>4, <1>5 DEF CompStep

\* A step of the reader keeps FrmInv.
LEMMA ReadKeeps ==
    ASSUME FrmInv, ReadStep \/ ReadAgain
    PROVE  FrmInv'
<1> USE DEF FrmInv
<1>1. CASE ReadSeq
  <2>1. frmSeq % 2 # 1 => comp.pc \in {"idle", "paint"}
    BY SeqParity DEF FrmTypes, CompInv
  <2>2. FrmTypes'
    BY <1>1, Zenon DEF ReadSeq, FrmTypes
  <2>3. CompInv'
    BY <1>1 DEF ReadSeq, CompInv
  <2>4. ReadInv'
    BY <1>1, <2>1 DEF ReadSeq, FrmTypes, ReadInv
  <2> QED
    BY <2>2, <2>3, <2>4
<1>2. CASE ReadFront
  BY <1>2, Zenon DEF ReadFront, FrmTypes, CompInv, ReadInv
<1>3. ASSUME NEW p \in Pixels, ReadPixel(p)
      PROVE  FrmInv'
  BY <1>3, ZenonT(30) DEF ReadPixel, FrmTypes, CompInv, ReadInv
<1>4. CASE Recheck
  BY <1>4 DEF Recheck, FrmTypes, CompInv, ReadInv
<1>5. CASE ReadAgain
  BY <1>5 DEF ReadAgain, FrmTypes, CompInv, ReadInv
<1> QED
  BY <1>1, <1>2, <1>3, <1>4, <1>5 DEF ReadStep

\* "nunca observa um frame rasgado" (libraries/wm/src/lib.rs:203), whatever the
\* number of pixels: what a reader of the composed output accepts is one whole
\* frame, not older than the one published when it began.
THEOREM FrameUntorn == FrmSpec => []NoTornFrame
<1>1. FrmInv /\ [FrmNext]_frmVars => FrmInv'
  <2> SUFFICES ASSUME FrmInv, [FrmNext]_frmVars PROVE FrmInv'
    OBVIOUS
  <2>1. CASE UNCHANGED frmVars
    BY <2>1, Zenon DEF frmVars, FrmInv, FrmTypes, CompInv, ReadInv
  <2> QED
    BY <2>1, CompKeeps, ReadKeeps DEF FrmNext
<1>2. FrmInv => NoTornFrame
  BY Zenon DEF FrmInv, FrmTypes, ReadInv, NoTornFrame
<1> QED
  BY FrmStarts, <1>1, <1>2, PTL DEF FrmSpec

-----------------------------------------------------------------------------
(* The virtual file system.                                                *)

RamSlot == 1 .. RAM_FILES
BootSlot == 1 .. BOOT_PATHS

RamFile == [used : BOOLEAN, name : TmpNames \cup {NoName}, size : Nat, own : SUBSET Nat,
            gap : BOOLEAN]

\* A name stands for one file, and what a file holds was written to it.
FileSound(f) == f.used /\ ~ f.gap => 0 .. f.size - 1 \subseteq f.own

RamSound ==
    /\ ram \in [RamSlot -> RamFile]
    /\ \A i, j \in RamSlot : ram[i].used /\ ram[j].used /\ ram[i].name = ram[j].name => i = j
    /\ \A i \in RamSlot : FileSound(ram[i])

BootSound ==
    /\ DOMAIN boot = BootSlot
    /\ \A h \in handed : h[2] \in BootSlot /\ (h[1] # ROOT => boot[h[2]] = h[1])

\* The times a waiting request was passed over and the sessions the scan comes
\* to before it are together fewer than the sessions.
SessSound ==
    /\ DOMAIN sess = VfsSession
    /\ ends \in [VfsSession -> [waits : BOOLEAN, closed : BOOLEAN]]
    /\ scan \in VfsSession
    /\ passed \in [VfsSession -> Nat]
    /\ ~ widened
    /\ \A k \in VfsSession : sess[k] = {} => ~ ends[k].waits
    /\ \A k \in VfsSession :
          IF ends[k].waits THEN passed[k] + ScanOrder(k) < VFS_CLIENTS ELSE passed[k] = 0

VfsInv == RamSound /\ BootSound /\ SessSound

\* A set of numbers has a least one.
LEMMA FirstIs ==
    ASSUME NEW S \in SUBSET Nat, S # {}
    PROVE  \E m \in S : \A x \in S : m <= x
<1>1. PICK m \in S : \A x \in S : ~(<<x, m>> \in OpToRel(<, Nat))
  BY WFMin, NatLessThanWellFounded, Zenon
<1>2. \A x \in S : ~(x < m)
  BY <1>1, Zenon DEF OpToRel
<1> QED
  BY <1>2

\* The first of the slots in a set is one of them.
LEMMA LowestIs ==
    ASSUME NEW S \in SUBSET Nat, S # {}
    PROVE  LowestOf(S) \in S
<1>1. \E m \in S : \A x \in S : m <= x
  BY FirstIs
<1> QED
  BY <1>1, Zenon DEF LowestOf

\* One file is replaced.
LEMMA RamPut ==
    ASSUME RamSound, NEW i \in RamSlot, NEW f \in RamFile, FileSound(f),
           f.used => \A j \in RamSlot \ {i} : ram[j].used => ram[j].name # f.name,
           ram' = [ram EXCEPT ![i] = f]
    PROVE  RamSound'
<1>1. /\ ram' \in [RamSlot -> RamFile] /\ ram'[i] = f
      /\ \A j \in RamSlot \ {i} : ram'[j] = ram[j]
  BY Zenon DEF RamSound
<1>2. \A j \in RamSlot : FileSound(ram'[j])
  BY <1>1 DEF RamSound
<1>3. \A j, l \in RamSlot : ram'[j].used /\ ram'[l].used /\ ram'[j].name = ram'[l].name => j = l
  BY <1>1, Zenon DEF RamSound
<1> QED
  BY <1>1, <1>2, <1>3, Zenon DEF RamSound

\* A file under a name that is looked up.
LEMMA RamFound ==
    ASSUME RamSound, NEW x, ram_find(x) # {}
    PROVE  /\ LowestOf(ram_find(x)) \in RamSlot
           /\ ram[LowestOf(ram_find(x))].used /\ ram[LowestOf(ram_find(x))].name = x
<1>1. ram_find(x) \in SUBSET Nat
  BY DEF ram_find
<1>2. LowestOf(ram_find(x)) \in ram_find(x)
  BY <1>1, LowestIs
<1> QED
  BY <1>2, Zenon DEF ram_find, RamSlot

\* The operations on /tmp.
LEMMA TmpKeeps ==
    ASSUME RamSound, NEW m, TmpRequest(m)
    PROVE  RamSound'
<1> USE VfsShape
<1>1. CASE UNCHANGED ram
  BY <1>1, Zenon DEF RamSound
<1>2. ASSUME NEW x \in TmpNames, ram' = create_tmp(x), ram' # ram
      PROVE  RamSound'
  <2> DEFINE free == {i \in 1 .. RAM_FILES : ~ ram[i].used}
             f == [used |-> TRUE, name |-> x, size |-> 0, own |-> {}, gap |-> FALSE]
  <2>1. ram_find(x) = {} /\ free # {} /\ ram' = Created(LowestOf(free), x)
    BY <1>2, Zenon DEF create_tmp
  <2>2. LowestOf(free) \in RamSlot
    <3>1. free \in SUBSET Nat
      OBVIOUS
    <3>2. LowestOf(free) \in free
      BY <2>1, <3>1, LowestIs, Zenon
    <3> QED
      BY <3>2 DEF RamSlot
  <2>3. ram' = [ram EXCEPT ![LowestOf(free)] = f]
    BY <2>1, Zenon DEF Created
  <2>4. f \in RamFile /\ FileSound(f)
    BY DEF RamFile, FileSound
  <2>5. \A j \in RamSlot : ram[j].used => ram[j].name # f.name
    BY <2>1, Zenon DEF ram_find, RamSlot
  <2> HIDE DEF f, free
  <2> QED
    BY <2>2, <2>3, <2>4, <2>5, RamPut, Zenon
<1>3. ASSUME NEW x \in TmpNames, ram' = unlink_tmp(x), ram' # ram
      PROVE  RamSound'
  <2> DEFINE i == LowestOf(ram_find(x))
             f == [used |-> FALSE, name |-> ram[i].name, size |-> ram[i].size, own |-> {},
                   gap |-> FALSE]
  <2>1. i \in RamSlot /\ ram' = [ram EXCEPT ![i] = f]
    BY <1>3, RamFound, Zenon DEF unlink_tmp
  <2> HIDE DEF i
  <2>2. ram[i] \in RamFile
    BY <2>1 DEF RamSound
  <2>3. f \in RamFile /\ FileSound(f) /\ ~ f.used
    BY <2>2, Zenon DEF RamFile, FileSound
  <2> HIDE DEF f
  <2> QED
    BY <2>1, <2>3, RamPut, Zenon
<1>4. ASSUME NEW x \in TmpNames, NEW y \in TmpNames, ram' = rename_tmp(x, y), ram' # ram
      PROVE  RamSound'
  <2> DEFINE i == LowestOf(ram_find(x))
             f == [used |-> ram[i].used, name |-> y, size |-> ram[i].size, own |-> ram[i].own,
                   gap |-> ram[i].gap]
  <2>1. /\ i \in RamSlot /\ ram_find(y) = {} /\ ram' = [ram EXCEPT ![i].name = y]
    BY <1>4, RamFound DEF rename_tmp
  <2> HIDE DEF i
  <2>2. ram[i] \in RamFile
    BY <2>1 DEF RamSound
  <2>3. [ram[i] EXCEPT !.name = y] = f
    BY <2>2 DEF RamFile
  <2>4. ram' = [ram EXCEPT ![i] = f]
    BY <2>1, <2>3, Zenon
  <2>5. f \in RamFile /\ f.name = y
    BY <2>2, Zenon DEF RamFile
  <2>6. FileSound(f)
    <3>1. FileSound(ram[i])
      BY <2>1 DEF RamSound
    <3> QED
      BY <3>1, Zenon DEF FileSound
  <2>7. \A j \in RamSlot : ram[j].used => ram[j].name # y
    BY <2>1 DEF ram_find, RamSlot
  <2> HIDE DEF f
  <2> QED
    BY <2>1, <2>4, <2>5, <2>6, <2>7, RamPut, Zenon
<1>5. ASSUME NEW i \in RamSlot, NEW off \in 0 .. RAM_MAX, ram' = write_tmp(i, off), ram' # ram
      PROVE  RamSound'
  <2> DEFINE size == IF ram[i].size < off + 1 THEN off + 1 ELSE ram[i].size
             f == [used |-> TRUE, name |-> ram[i].name, size |-> size,
                   own |-> ram[i].own \cup {off}, gap |-> ram[i].gap \/ off > ram[i].size]
  <2>1. ram[i].used /\ ram' = [ram EXCEPT ![i] = f]
    BY <1>5, Zenon DEF write_tmp
  <2>2. ram[i] \in RamFile
    BY Zenon DEF RamSound
  <2>5. f \in RamFile /\ f.name = ram[i].name
    BY <2>2 DEF RamFile
  <2>6. FileSound(f)
    <3>1. ASSUME ~ ram[i].gap, off <= ram[i].size, NEW u \in 0 .. size - 1
          PROVE  u \in ram[i].own \cup {off}
      <4>1. 0 .. ram[i].size - 1 \subseteq ram[i].own
        BY <2>1, <3>1, Zenon DEF RamSound, FileSound
      <4> QED
        BY <2>2, <3>1, <4>1 DEF RamFile
    <3>2. f.size = size /\ f.own = ram[i].own \cup {off}
      BY Zenon
    <3>3. f.gap = (ram[i].gap \/ off > ram[i].size)
      BY Zenon
    <3>4. ram[i].size \in Nat
      BY <2>2, Zenon DEF RamFile
    <3>5. ~ f.gap => ~ ram[i].gap /\ ~ (off > ram[i].size)
      BY <3>3, Zenon
    <3>6. ~ (off > ram[i].size) => off <= ram[i].size
      BY <3>4
    <3> HIDE DEF f, size
    <3> QED
      BY <3>1, <3>2, <3>5, <3>6, Zenon DEF FileSound
  <2>7. \A j \in RamSlot \ {i} : ram[j].used => ram[j].name # ram[i].name
    BY <2>1, Zenon DEF RamSound
  <2> HIDE DEF f
  <2> QED
    BY <2>1, <2>5, <2>6, <2>7, RamPut, Zenon
<1>6. ASSUME NEW i \in RamSlot, NEW n \in 0 .. RAM_MAX, ram' = truncate_tmp(i, n), ram' # ram
      PROVE  RamSound'
  <2> DEFINE f == [used |-> ram[i].used, name |-> ram[i].name, size |-> n, own |-> ram[i].own,
                   gap |-> ram[i].gap]
  <2>1. ram[i].used /\ n < ram[i].size /\ ram' = [ram EXCEPT ![i].size = n]
    BY <1>6 DEF truncate_tmp
  <2>2. ram[i] \in RamFile
    BY DEF RamSound
  <2>3. [ram[i] EXCEPT !.size = n] = f
    BY <2>2 DEF RamFile
  <2>4. ram' = [ram EXCEPT ![i] = f]
    BY <2>1, <2>3, Zenon
  <2>5. f \in RamFile /\ f.name = ram[i].name
    BY <2>2 DEF RamFile
  <2>6. FileSound(f)
    <3>1. FileSound(ram[i]) /\ ram[i].size \in Nat
      BY <2>2, Zenon DEF RamSound, RamFile
    <3> QED
      BY <2>1, <3>1 DEF FileSound
  <2>7. \A j \in RamSlot \ {i} : ram[j].used => ram[j].name # ram[i].name
    BY <2>1 DEF RamSound
  <2> HIDE DEF f
  <2> QED
    BY <2>4, <2>5, <2>6, <2>7, RamPut, Zenon
<1> QED
  BY <1>1, <1>2, <1>3, <1>4, <1>5, <1>6, Zenon DEF TmpRequest, RamSlot

\* The table of paths of /boot.
LEMMA StatKeeps ==
    ASSUME BootSound, NEW m, NEW p \in BootNames, StatBoot(m, p)
    PROVE  BootSound'
<1> DEFINE same == {i \in 1 .. BOOT_PATHS : boot[i] = p}
           free == {i \in 1 .. BOOT_PATHS : boot[i] = ROOT}
<1>1. same \in SUBSET Nat /\ free \in SUBSET Nat
  BY VfsShape
<1>2. /\ boot_remember(p) # 0 /\ boot' = [boot EXCEPT ![boot_remember(p)] = p]
      /\ handed' = handed \cup {<<p, boot_remember(p)>>}
  BY DEF StatBoot
<1>3. boot_remember(p) \in same \cup free
  BY <1>1, <1>2, LowestIs, Zenon DEF boot_remember
<1>4. PICK i \in BootSlot : i = boot_remember(p) /\ boot[i] \in {p, ROOT}
  BY <1>3 DEF BootSlot
<1>5. /\ DOMAIN boot' = BootSlot /\ boot'[i] = p /\ \A j \in BootSlot \ {i} : boot'[j] = boot[j]
  BY <1>2, <1>4 DEF BootSound
<1>6. ASSUME NEW h \in handed'
      PROVE  h[2] \in BootSlot /\ (h[1] # ROOT => boot'[h[2]] = h[1])
  <2>1. CASE h = <<p, i>>
    BY <1>5, <2>1, Zenon
  <2>2. CASE h \in handed
    BY <1>4, <1>5, <2>2, Zenon DEF BootSound
  <2> QED
    BY <1>2, <1>4, <2>1, <2>2, Zenon
<1> QED
  BY <1>5, <1>6, Zenon DEF BootSound

\* The scan comes to the sessions in the order of their numbers, beginning
\* after the last one.
LEMMA ScanFacts ==
    ASSUME NEW s \in VfsSession, NEW k \in VfsSession
    PROVE  (k - s - 1) % VFS_CLIENTS = IF k > s THEN k - s - 1 ELSE k - s - 1 + VFS_CLIENTS
<1>1. VFS_CLIENTS \in Nat \ {0} /\ s \in 0 .. VFS_CLIENTS - 1 /\ k \in 0 .. VFS_CLIENTS - 1
  BY VfsShape DEF VfsSession
<1>2. ASSUME NEW n \in Nat \ {0}, NEW x \in 0 .. n - 1 PROVE x % n = x
  BY <1>2
<1>3. ASSUME NEW n \in Nat \ {0}, NEW x \in 0 .. n - 1 PROVE (x - n) % n = x
  BY <1>3
<1>4. CASE k > s
  BY <1>1, <1>2, <1>4
<1>5. CASE k <= s
  <2>1. k - s - 1 + VFS_CLIENTS \in 0 .. VFS_CLIENTS - 1
    BY <1>1, <1>5
  <2>2. ((k - s - 1 + VFS_CLIENTS) - VFS_CLIENTS) % VFS_CLIENTS = k - s - 1 + VFS_CLIENTS
    BY <1>1, <1>3, <2>1, Zenon
  <2> QED
    BY <1>1, <1>5, <2>2
<1> QED
  BY <1>1, <1>4, <1>5

\* Sends, closes and the collection of closed sessions.
LEMMA IdleKeeps ==
    ASSUME SessSound, Collect \/ \E k \in VfsSession : VfsSend(k) \/ VfsClose(k)
    PROVE  SessSound'
<1>0. UNCHANGED <<scan, passed, widened>> /\ \A k : ScanOrder(k)' = ScanOrder(k)
  BY DEF Collect, VfsSend, VfsClose, ScanOrder
<1>1. \A k \in VfsSession : ScanOrder(k) \in Nat /\ ScanOrder(k) < VFS_CLIENTS
  BY ScanFacts, VfsShape DEF SessSound, VfsSession, ScanOrder
<1>2. CASE Collect
  <2> DEFINE ks == Dead(VFS_CLIENTS)
  <2>1. /\ sess' = [k \in VfsSession |-> IF k \in ks THEN {} ELSE sess[k]]
        /\ ends' = [k \in VfsSession |-> IF k \in ks THEN Gone ELSE ends[k]]
        /\ \A k \in ks : ~ ends[k].waits
    BY <1>2, Zenon DEF Collect, Freed, Dead
  <2> HIDE DEF ks
  <2>2. /\ ends' \in [VfsSession -> [waits : BOOLEAN, closed : BOOLEAN]]
        /\ \A k \in VfsSession : ends'[k].waits <=> ends[k].waits
    BY <2>1, Zenon DEF SessSound, Gone
  <2>3. DOMAIN sess' = VfsSession /\ \A k \in VfsSession : sess'[k] = {} => ~ ends'[k].waits
    BY <2>1, <2>2, Zenon DEF SessSound
  <2> QED
    BY <1>0, <2>2, <2>3, Zenon DEF SessSound
<1>3. ASSUME NEW k \in VfsSession, VfsSend(k) PROVE SessSound'
  <2>1. /\ UNCHANGED sess /\ sess[k] # {} /\ passed[k] = 0
        /\ ends' = [ends EXCEPT ![k].waits = TRUE]
    BY <1>3 DEF VfsSend, SessSound
  <2>2. /\ ends' \in [VfsSession -> [waits : BOOLEAN, closed : BOOLEAN]] /\ ends'[k].waits
        /\ \A j \in VfsSession \ {k} : ends'[j] = ends[j]
    BY <2>1, Zenon DEF SessSound
  <2>3. ASSUME NEW j \in VfsSession
        PROVE  /\ sess[j] = {} => ~ ends'[j].waits
               /\ IF ends'[j].waits THEN passed[j] + ScanOrder(j) < VFS_CLIENTS ELSE passed[j] = 0
    BY <1>1, <2>1, <2>2 DEF SessSound
  <2> QED
    BY <1>0, <2>1, <2>2, <2>3 DEF SessSound
<1>4. ASSUME NEW k \in VfsSession, VfsClose(k) PROVE SessSound'
  <2>1. UNCHANGED sess /\ ends' = [ends EXCEPT ![k].closed = TRUE]
    BY <1>4 DEF VfsClose
  <2>2. /\ ends' \in [VfsSession -> [waits : BOOLEAN, closed : BOOLEAN]]
        /\ ends'[k].waits = ends[k].waits
        /\ \A j \in VfsSession \ {k} : ends'[j] = ends[j]
    BY <2>1, Zenon DEF SessSound
  <2>3. \A j \in VfsSession : ends'[j].waits = ends[j].waits
    BY <2>2, Zenon
  <2>4. ASSUME NEW j \in VfsSession
        PROVE  /\ sess[j] = {} => ~ ends'[j].waits
               /\ IF ends'[j].waits THEN passed[j] + ScanOrder(j) < VFS_CLIENTS ELSE passed[j] = 0
    BY <2>3, Zenon DEF SessSound
  <2> QED
    BY <1>0, <2>1, <2>2, <2>4 DEF SessSound
<1> QED
  BY <1>2, <1>3, <1>4

\* A request is served: the scan goes on from there.
LEMMA ServeKeeps ==
    ASSUME SessSound, NEW k \in VfsSession, VfsServe(k)
    PROVE  SessSound'
<1> DEFINE dead == Dead(ScanOrder(k))
<1>1. /\ ends[k].waits /\ \A j \in VfsSession : ends[j].waits => ScanOrder(k) <= ScanOrder(j)
      /\ scan' = k
      /\ passed' = [j \in VfsSession |-> IF j = k THEN 0
                                         ELSE IF ends[j].waits THEN passed[j] + 1 ELSE passed[j]]
  BY DEF VfsServe, Found
<1>2. \A j \in dead : j \in VfsSession /\ ~ ends[j].waits /\ j # k
  BY <1>1, Zenon DEF Dead
<1>3. ends' = [j \in VfsSession |-> IF j \in dead THEN Gone
                                    ELSE IF j = k THEN [ends[k] EXCEPT !.waits = FALSE] ELSE ends[j]]
  BY DEF VfsServe, OpenSession
<1>4. /\ ends' \in [VfsSession -> [waits : BOOLEAN, closed : BOOLEAN]]
      /\ \A j \in VfsSession : ends'[j].waits <=> ends[j].waits /\ j # k
  BY <1>2, <1>3, ZenonT(30) DEF SessSound, Gone
<1>5. /\ DOMAIN sess' = VfsSession
      /\ \A j \in VfsSession : sess'[j] = {} => sess[j] = {} \/ j \in dead
  <2>1. CASE sess' = [j \in VfsSession |-> IF j \in dead THEN {} ELSE sess[j]]
    BY <2>1, Zenon
  <2>2. ASSUME NEW asked \in SUBSET ALL, OpenSession(k, dead, asked)
        PROVE  /\ DOMAIN sess' = VfsSession
               /\ \A j \in VfsSession : sess'[j] = {} => sess[j] = {} \/ j \in dead
    BY <2>2, Zenon DEF OpenSession
  <2> QED
    BY <2>1, <2>2 DEF VfsServe
<1>6. ~ widened'
  <2>1. \A asked, m : Narrowed(asked, m) \subseteq m
    BY DEF Narrowed
  <2>2. CASE UNCHANGED widened
    BY <2>2, Zenon DEF SessSound
  <2>3. ASSUME NEW asked \in SUBSET ALL, OpenSession(k, dead, asked)
        PROVE  ~ widened'
    BY <2>1, <2>3, Zenon DEF OpenSession, SessSound
  <2> QED
    BY <2>2, <2>3 DEF VfsServe
<1>7. ASSUME NEW j \in VfsSession
      PROVE  IF ends'[j].waits THEN passed'[j] + ScanOrder(j)' < VFS_CLIENTS ELSE passed'[j] = 0
  <2>1. CASE j = k
    BY <1>1, <1>4, <2>1, Zenon
  <2>2. CASE j # k /\ ~ ends[j].waits
    BY <1>1, <1>4, <2>2, Zenon DEF SessSound
  <2>3. CASE j # k /\ ends[j].waits
    <3>1. /\ ScanOrder(j)' = IF j > k THEN j - k - 1 ELSE j - k - 1 + VFS_CLIENTS
          /\ ScanOrder(j) = IF j > scan THEN j - scan - 1 ELSE j - scan - 1 + VFS_CLIENTS
          /\ ScanOrder(k) = IF k > scan THEN k - scan - 1 ELSE k - scan - 1 + VFS_CLIENTS
      BY <1>1, ScanFacts, Zenon DEF ScanOrder, SessSound
    <3>2. ScanOrder(k) <= ScanOrder(j) /\ passed[j] + ScanOrder(j) < VFS_CLIENTS /\ passed[j] \in Nat
      BY <1>1, <2>3, Zenon DEF SessSound
    <3>3. passed'[j] = passed[j] + 1 /\ ends'[j].waits
      BY <1>1, <1>4, <2>3, Zenon
    <3>4. VFS_CLIENTS \in Nat /\ {j, k, scan} \subseteq 0 .. VFS_CLIENTS - 1
      BY VfsShape, Zenon DEF SessSound, VfsSession
    <3>5. ScanOrder(j)' + 1 <= ScanOrder(j)
      BY <2>3, <3>1, <3>2, <3>4
    <3>6. ScanOrder(j) \in Int /\ ScanOrder(j)' \in Int
      BY <3>1, <3>4
    <3> QED
      BY <3>2, <3>3, <3>4, <3>5, <3>6
  <2> QED
    BY <2>1, <2>2, <2>3, Zenon
<1>8. passed' \in [VfsSession -> Nat]
  BY <1>1 DEF SessSound
<1>9. \A j \in VfsSession : sess'[j] = {} => ~ ends'[j].waits
  BY <1>2, <1>4, <1>5, Zenon DEF SessSound
<1> QED
  BY <1>1, <1>4, <1>5, <1>6, <1>7, <1>8, <1>9, Zenon DEF SessSound

\* The service keeps its invariant.
THEOREM VfsInvariant == VfsSpec => []VfsInv
<1>1. VfsInit => VfsInv
  <2> SUFFICES ASSUME VfsInit PROVE VfsInv
    OBVIOUS
  <2>1. NoFile \in RamFile /\ ~ NoFile.used /\ FileSound(NoFile)
    BY Zenon DEF NoFile, RamFile, FileSound
  <2>2. RamSound
    BY <2>1, Zenon DEF VfsInit, RamSound, RamSlot
  <2>3. BootSound
    BY Zenon DEF VfsInit, BootSound, BootSlot
  <2>4. SessSound
    BY VfsShape DEF VfsInit, SessSound, Gone, VfsSession
  <2> QED
    BY <2>2, <2>3, <2>4 DEF VfsInv
<1>2. VfsInv /\ [VfsNext]_vfsVars => VfsInv'
  <2> SUFFICES ASSUME VfsInv, [VfsNext]_vfsVars PROVE VfsInv'
    OBVIOUS
  <2>0. RamSound /\ BootSound /\ SessSound
    BY DEF VfsInv
  <2>1. CASE UNCHANGED vfsVars
    <3>1. UNCHANGED <<sess, ends, scan, ram, boot, handed, widened, passed>>
      BY <2>1, Zenon DEF vfsVars
    <3>2. RamSound' /\ BootSound'
      BY <2>0, <3>1, Zenon DEF RamSound, BootSound
    <3>3. SessSound'
      BY <2>0, <3>1, Zenon DEF SessSound, ScanOrder
    <3> QED
      BY <3>2, <3>3 DEF VfsInv
  <2>2. CASE Collect \/ \E k \in VfsSession : VfsSend(k) \/ VfsClose(k)
    <3>1. UNCHANGED <<ram, boot, handed>>
      BY <2>2 DEF Collect, VfsSend, VfsClose
    <3>2. RamSound' /\ BootSound'
      BY <2>0, <3>1, Zenon DEF RamSound, BootSound
    <3> QED
      BY <2>0, <2>2, <3>2, IdleKeeps DEF VfsInv
  <2>3. ASSUME NEW k \in VfsSession, VfsServe(k)
        PROVE  VfsInv'
    <3>1. CASE UNCHANGED <<ram, boot, handed>>
      <4>1. RamSound' /\ BootSound'
        BY <2>0, <3>1, Zenon DEF RamSound, BootSound
      <4> QED
        BY <2>0, <2>3, <4>1, ServeKeeps DEF VfsInv
    <3>2. CASE TmpRequest(sess[k])
      <4>1. RamSound'
        BY <2>0, <3>2, TmpKeeps
      <4>2. BootSound'
        BY <2>0, <3>2, Zenon DEF TmpRequest, BootSound
      <4> QED
        BY <2>0, <2>3, <4>1, <4>2, ServeKeeps DEF VfsInv
    <3>3. ASSUME NEW p \in BootNames, StatBoot(sess[k], p)
          PROVE  VfsInv'
      <4>1. RamSound'
        BY <2>0, <3>3, Zenon DEF StatBoot, RamSound
      <4>2. BootSound'
        BY <2>0, <3>3, StatKeeps
      <4> QED
        BY <2>0, <2>3, <4>1, <4>2, ServeKeeps DEF VfsInv
    <3> QED
      BY <2>3, <3>1, <3>2, <3>3 DEF VfsServe, OpenSession, ReadRequest
  <2> QED
    BY <2>1, <2>2, <2>3, Zenon DEF VfsNext
<1> QED
  BY <1>1, <1>2, PTL DEF VfsSpec

\* open, the scan, /tmp and boot_remember: for any number of sessions, files and
\* paths, no session gains a mount, no request is passed over by a session
\* twice, a name of /tmp is one file that holds what was written to it, and an
\* inode number stays with its path.
THEOREM VfsIsSound == VfsSpec => []VfsSound
<1>1. VfsInv => VfsSound
  <2> SUFFICES ASSUME VfsInv PROVE VfsSound
    OBVIOUS
  <2>1. RamSound /\ BootSound /\ SessSound
    BY DEF VfsInv
  <2>2. ASSUME NEW k \in VfsSession PROVE passed[k] < VFS_CLIENTS
    <3>1. ScanOrder(k) \in Nat
      BY <2>1, ScanFacts, VfsShape, SMTT(30) DEF SessSound, VfsSession, ScanOrder
    <3> QED
      BY <2>1, <3>1, VfsShape DEF SessSound
  <2>3. \A x \in TmpNames : \A i, j \in ram_find(x) : i = j
    BY <2>1 DEF RamSound, ram_find, RamSlot
  <2>4. \A i \in 1 .. RAM_FILES :
           ram[i].used /\ ~ram[i].gap => 0 .. ram[i].size - 1 \subseteq ram[i].own
    BY <2>1, Zenon DEF RamSound, FileSound, RamSlot
  <2>5. ~ widened /\ \A h \in handed : h[1] # ROOT => boot[h[2]] = h[1]
    BY <2>1, Zenon DEF SessSound, BootSound
  <2> QED
    BY <2>2, <2>3, <2>4, <2>5, Zenon DEF VfsSound
<1> QED
  BY <1>1, VfsInvariant, PTL
=============================================================================
