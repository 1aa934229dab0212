------------------------------ MODULE ProtoIo ------------------------------
(***************************************************************************)
(* The protocols of the drivers and of the service manager: nexo.block,    *)
(* nexo.net, nexo.input, nexo.console, nexo.rng, nexo.svc and nexo.esp. A  *)
(* message is its method id, the number of handles it carries and its      *)
(* fields.                                                                 *)
(***************************************************************************)
EXTENDS Proto

-----------------------------------------------------------------------------
(* nexo.block, version 1.0.                                                *)

\* nexo.block.read
BlockReadRequest == Request(1, 0, <<U(8), U(4)>>)
BlockReadResponse == Response(1, 0, <<Bytes(3584)>>)
BlockRead == Method(1, BlockReadRequest, BlockReadResponse)

\* nexo.block.write
BlockWriteRequest == Request(2, 0, <<U(8), U(4), Bytes(3584)>>)
BlockWriteResponse == Response(2, 0, <<>>)
BlockWrite == Method(2, BlockWriteRequest, BlockWriteResponse)

\* nexo.block.capacity
BlockCapacityRequest == Request(3, 0, <<>>)
BlockCapacityResponse == Response(3, 0, <<U(8)>>)
BlockCapacity == Method(3, BlockCapacityRequest, BlockCapacityResponse)

\* nexo.block.identity
BlockIdentityRequest == Request(4, 0, <<>>)
BlockIdentityResponse == Response(4, 0, <<U(1), Bytes(20)>>)
BlockIdentity == Method(4, BlockIdentityRequest, BlockIdentityResponse)

\* decode_request of nexo.block: the methods it knows.
BlockProtocol ==
    Protocol(<<55946, 44626>>, 1, 0, <<BlockRead, BlockWrite, BlockCapacity,
        BlockIdentity>>, <<>>)

-----------------------------------------------------------------------------
(* nexo.net, version 1.1.                                                  *)

\* nexo.net.mac
NetMacRequest == Request(1, 0, <<>>)
NetMacResponse == Response(1, 0, <<Bytes(6)>>)
NetMac == Method(1, NetMacRequest, NetMacResponse)

\* nexo.net.send
NetSendRequest == Request(2, 0, <<Bytes(1514)>>)
NetSendResponse == Response(2, 0, <<>>)
NetSend == Method(2, NetSendRequest, NetSendResponse)

\* nexo.net.recv
NetRecvRequest == Request(3, 0, <<>>)
NetRecvResponse == Response(3, 0, <<Bytes(1514)>>)
NetRecv == Method(3, NetRecvRequest, NetRecvResponse)

\* nexo.net.subscribe
NetSubscribeRequest == Request(4, 0, <<>>)
NetSubscribeResponse == Response(4, 0, <<>>)
NetSubscribe == Method(4, NetSubscribeRequest, NetSubscribeResponse)

\* nexo.net.frame, an event
NetFrameEvent == Event(5, 0, <<Bytes(1514)>>)

\* decode_request of nexo.net: the methods it knows.
NetProtocol ==
    Protocol(<<19469, 14376>>, 1, 1, <<NetMac, NetSend, NetRecv, NetSubscribe>>,
        <<NetFrameEvent>>)

-----------------------------------------------------------------------------
(* nexo.input, version 1.2.                                                *)

\* nexo.input.poll
InputPollRequest == Request(1, 0, <<>>)
InputPollResponse == Response(1, 0, <<Bytes(3500)>>)
InputPoll == Method(1, InputPollRequest, InputPollResponse)

\* nexo.input.subscribe
InputSubscribeRequest == Request(2, 1, <<U(4), U(4)>>)
InputSubscribeResponse == Response(2, 0, <<>>)
InputSubscribe == Method(2, InputSubscribeRequest, InputSubscribeResponse)

\* decode_request of nexo.input: the methods it knows.
InputProtocol ==
    Protocol(<<16844, 53387>>, 1, 2, <<InputPoll, InputSubscribe>>, <<>>)

-----------------------------------------------------------------------------
(* nexo.console, version 1.0.                                              *)

\* nexo.console.read
ConsoleReadRequest == Request(1, 0, <<>>)
ConsoleReadResponse == Response(1, 0, <<Bytes(3500)>>)
ConsoleRead == Method(1, ConsoleReadRequest, ConsoleReadResponse)

\* nexo.console.write
ConsoleWriteRequest == Request(2, 0, <<Bytes(3500)>>)
ConsoleWriteResponse == Response(2, 0, <<U(4)>>)
ConsoleWrite == Method(2, ConsoleWriteRequest, ConsoleWriteResponse)

\* decode_request of nexo.console: the methods it knows.
ConsoleProtocol ==
    Protocol(<<29091, 38906>>, 1, 0, <<ConsoleRead, ConsoleWrite>>, <<>>)

-----------------------------------------------------------------------------
(* nexo.rng, version 1.0.                                                  *)

\* nexo.rng.fill
RngFillRequest == Request(1, 0, <<U(4)>>)
RngFillResponse == Response(1, 0, <<Bytes(1024)>>)
RngFill == Method(1, RngFillRequest, RngFillResponse)

\* decode_request of nexo.rng: the methods it knows.
RngProtocol ==
    Protocol(<<52494, 39554>>, 1, 0, <<RngFill>>, <<>>)

-----------------------------------------------------------------------------
(* nexo.svc, version 1.1.                                                  *)

\* nexo.svc.serve
SvcServeRequest == Request(1, 1, <<>>)
SvcServeResponse == Response(1, 0, <<>>)
SvcServe == Method(1, SvcServeRequest, SvcServeResponse)

\* nexo.svc.connect
SvcConnectRequest == Request(2, 0, <<>>)
SvcConnectResponse == Response(2, 1, <<>>)
SvcConnect == Method(2, SvcConnectRequest, SvcConnectResponse)

\* nexo.svc.echo
SvcEchoRequest == Request(3, 0, <<Bytes(64)>>)
SvcEchoResponse == Response(3, 0, <<Bytes(96)>>)
SvcEcho == Method(3, SvcEchoRequest, SvcEchoResponse)

\* nexo.svc.ready
SvcReadyRequest == Request(4, 0, <<>>)
SvcReadyResponse == Response(4, 0, <<>>)
SvcReady == Method(4, SvcReadyRequest, SvcReadyResponse)

\* decode_request of nexo.svc: the methods it knows.
SvcProtocol ==
    Protocol(<<21653, 21213>>, 1, 1, <<SvcServe, SvcConnect, SvcEcho, SvcReady>>,
        <<>>)

-----------------------------------------------------------------------------
(* nexo.esp, version 1.0.                                                  *)

\* nexo.esp.list
EspListRequest == Request(1, 0, <<Bytes(256)>>)
EspListResponse == Response(1, 0, <<U(4), Bytes(3900)>>)
EspList == Method(1, EspListRequest, EspListResponse)

\* nexo.esp.stat
EspStatRequest == Request(2, 0, <<Bytes(256)>>)
EspStatResponse == Response(2, 0, <<U(1), U(4)>>)
EspStat == Method(2, EspStatRequest, EspStatResponse)

\* nexo.esp.read
EspReadRequest == Request(3, 0, <<Bytes(256), U(8), U(4)>>)
EspReadResponse == Response(3, 0, <<Bytes(3500)>>)
EspRead == Method(3, EspReadRequest, EspReadResponse)

\* decode_request of nexo.esp: the methods it knows.
EspProtocol ==
    Protocol(<<40407, 32779>>, 1, 0, <<EspList, EspStat, EspRead>>, <<>>)

=============================================================================
