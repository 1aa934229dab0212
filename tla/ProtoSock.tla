----------------------------- MODULE ProtoSock -----------------------------
(***************************************************************************)
(* nexo.sock, the protocol between netd and the applications that use the  *)
(* network. A message is its method id, the number of handles it carries   *)
(* and its fields.                                                         *)
(***************************************************************************)
EXTENDS Proto

-----------------------------------------------------------------------------
(* nexo.sock, version 1.2.                                                 *)

\* nexo.sock.info
SockInfoRequest == Request(1, 0, <<>>)
SockInfoResponse == Response(1, 0, <<Bytes(4), Bytes(4), Bytes(4), Bytes(4),
        Bytes(6)>>)
SockInfo == Method(1, SockInfoRequest, SockInfoResponse)

\* nexo.sock.resolve
SockResolveRequest == Request(2, 0, <<Bytes(253)>>)
SockResolveResponse == Response(2, 0, <<Bytes(4), U(1)>>)
SockResolve == Method(2, SockResolveRequest, SockResolveResponse)

\* nexo.sock.udp_send
SockUdpSendRequest == Request(3, 0, <<Bytes(4), U(2), U(2), Bytes(1400)>>)
SockUdpSendResponse == Response(3, 0, <<>>)
SockUdpSend == Method(3, SockUdpSendRequest, SockUdpSendResponse)

\* nexo.sock.udp_recv
SockUdpRecvRequest == Request(4, 0, <<U(2)>>)
SockUdpRecvResponse == Response(4, 0, <<Bytes(4), U(2), Bytes(1400)>>)
SockUdpRecv == Method(4, SockUdpRecvRequest, SockUdpRecvResponse)

\* nexo.sock.tcp_connect
SockTcpConnectRequest == Request(5, 0, <<Bytes(4), U(2)>>)
SockTcpConnectResponse == Response(5, 0, <<U(4)>>)
SockTcpConnect == Method(5, SockTcpConnectRequest, SockTcpConnectResponse)

\* nexo.sock.tcp_send
SockTcpSendRequest == Request(6, 0, <<U(4), Bytes(1400)>>)
SockTcpSendResponse == Response(6, 0, <<U(4)>>)
SockTcpSend == Method(6, SockTcpSendRequest, SockTcpSendResponse)

\* nexo.sock.tcp_recv
SockTcpRecvRequest == Request(7, 0, <<U(4)>>)
SockTcpRecvResponse == Response(7, 0, <<Bytes(1400), U(1)>>)
SockTcpRecv == Method(7, SockTcpRecvRequest, SockTcpRecvResponse)

\* nexo.sock.tcp_listen
SockTcpListenRequest == Request(9, 0, <<U(2)>>)
SockTcpListenResponse == Response(9, 0, <<U(4), Bytes(4), U(2)>>)
SockTcpListen == Method(9, SockTcpListenRequest, SockTcpListenResponse)

\* nexo.sock.udp_avail
SockUdpAvailRequest == Request(12, 0, <<U(2)>>)
SockUdpAvailResponse == Response(12, 0, <<U(4)>>)
SockUdpAvail == Method(12, SockUdpAvailRequest, SockUdpAvailResponse)

\* nexo.sock.tcp_avail
SockTcpAvailRequest == Request(10, 0, <<U(4)>>)
SockTcpAvailResponse == Response(10, 0, <<U(4), U(1)>>)
SockTcpAvail == Method(10, SockTcpAvailRequest, SockTcpAvailResponse)

\* nexo.sock.tcp_close
SockTcpCloseRequest == Request(8, 0, <<U(4)>>)
SockTcpCloseResponse == Response(8, 0, <<>>)
SockTcpClose == Method(8, SockTcpCloseRequest, SockTcpCloseResponse)

\* nexo.sock.open
SockOpenRequest == Request(11, 1, <<U(1), U(1), Bytes(4), U(1), U(2), U(2),
        U(1)>>)
SockOpenResponse == Response(11, 0, <<>>)
SockOpen == Method(11, SockOpenRequest, SockOpenResponse)

\* nexo.sock.ping
SockPingRequest == Request(13, 0, <<Bytes(4), U(2), U(4)>>)
SockPingResponse == Response(13, 0, <<U(4), U(1)>>)
SockPing == Method(13, SockPingRequest, SockPingResponse)

\* nexo.sock.stats
SockStatsRequest == Request(14, 0, <<>>)
SockStatsResponse == Response(14, 0, <<U(4), U(4), U(4), U(4), U(4), U(4), U(4),
        U(4)>>)
SockStats == Method(14, SockStatsRequest, SockStatsResponse)

\* decode_request of nexo.sock: the methods it knows.
SockProtocol ==
    Protocol(<<24616, 4357>>, 1, 2, <<SockInfo, SockResolve, SockUdpSend,
        SockUdpRecv, SockTcpConnect, SockTcpSend, SockTcpRecv, SockTcpListen,
        SockUdpAvail, SockTcpAvail, SockTcpClose, SockOpen, SockPing,
        SockStats>>, <<>>)

=============================================================================
