--------------------------------- MODULE Rpc ---------------------------------
(***************************************************************************)
(* Calls over a channel: a client sends a request, the service decodes it  *)
(* and answers with a response or an error, and the client takes the       *)
(* answer off the channel on which the service also pushes events.  The    *)
(* clients of the repository each have a loop of their own for this: the   *)
(* strict ones take the first message for the answer, the others pass over *)
(* the events they know.                                                   *)
(*                                                                         *)
(* One of the two ends may be built from a later minor version of the      *)
(* protocol, which appends a field to every message.                       *)
(***************************************************************************)
EXTENDS ProtoIo, ProtoFs, ProtoSock, ProtoWm, FiniteSets, FiniteSetsExt

CONSTANTS
    RpcClients,     \* the clients, names of Client
    RpcQueueMax,    \* CHANNEL_QUEUE_MAX, the messages a queue holds
    MaxCalls,       \* bound: calls of the client
    MaxEvents       \* bound: events pushed by the service

ASSUME RpcBounds == {RpcQueueMax, MaxCalls, MaxEvents} \subseteq Nat

VARIABLES
    session,    \* the client, and the end that is of a later minor version
    toService,  \* the queue towards the service
    toClient,   \* the queue towards the client
    cl,         \* the client's loop: pc, number of calls, method and answer taken
    pushed,     \* number of events pushed
    decoded     \* the last decoding: what was sent and what was read

rpcVars == <<session, toService, toClient, cl, pushed, decoded>>

-----------------------------------------------------------------------------
(* The clients: the protocol, the methods called, the bytes of the buffers *)
(* for the request and the answer and of the service's two buffers, the     *)
(* longest byte field the client asks for, the events the service may push *)
(* and those the loop passes over.                                         *)

Strict(p, calls, out, in, svcIn, svcOut, most) ==
    [proto |-> p, calls |-> calls, out |-> out, in |-> in, svcIn |-> svcIn,
     svcOut |-> svcOut, events |-> {}, skip |-> {}, most |-> most]

Loop(p, calls, out, in, svc, events, skip) ==
    [Strict(p, calls, out, in, svc, svc, 4096) EXCEPT !.events = events, !.skip = skip]

AllOf(p) == ToSet(p.methods)

\* nexo_net::Sockets::rpc
Sockets == Strict(SockProtocol, AllOf(SockProtocol), 4096, 4096, 4096, 4096, 4096)

\* The Fs::rpc of the applications, here the portal's.
PortalFs == Strict(FsProtocol, AllOf(FsProtocol), 4096, 4096, 4096, 4096, 4096)

\* The window manager's fs_rpc: preferences of at most 128 bytes.
PrefsFs == Strict(FsProtocol, {FsCreate, FsStat, FsTruncate, FsWrite, FsSync, FsRead},
                  4096, 512, 4096, 4096, 128)

\* ChanDisk of the fs service.
FsDisk == Strict(BlockProtocol, {BlockCapacity, BlockRead, BlockWrite}, 3648, 3648, 4096, 4096, 3584)

\* The shell's con_write and con_poll.
ShellConsole == Strict(ConsoleProtocol, AllOf(ConsoleProtocol), 4096, 4096, 4096, 4096, 2048)

\* The echo client, which talks to the service manager and to the echo service.
EchoClient == Strict(SvcProtocol, {SvcConnect, SvcEcho}, 256, 256, 256, 256, 4096)

\* The session's rpc to the input driver.
SessionInput == Strict(InputProtocol, {InputSubscribe}, 256, 256, 64, 4096, 4096)

\* vfs's rpc to the file systems it mounts, here espfs.
VfsEsp == Strict(EspProtocol, AllOf(EspProtocol), 4096, 4096, 4096, 4096, 4096)

\* The test program's calls to the entropy driver.
RngTests == Strict(RngProtocol, AllOf(RngProtocol), 4096, 4096, 64, 4096, 4096)

\* netd's net_rpc
NetRpc == Loop(NetProtocol, AllOf(NetProtocol), 4096, 4096, 4096, {NetFrameEvent}, {NetFrameEvent})

\* greeter::rpc
Greeter ==
    Loop(WmProtocol, {WmCreateSurface, WmCommit, WmDestroy, WmGrab, WmUngrab, WmPrefs,
                      WmPrefsLoad, WmPrefsSave, WmSetIdioma},
         128, 256, 512, {WmPointerEvent, WmKeyEvent}, {WmPointerEvent, WmKeyEvent})

\* shellui::rpc; the shell is the window manager's first session.
Shellui ==
    Loop(WmProtocol, {WmCommit, WmDestroy, WmNotificationInfo, WmOpen, WmOutput, WmActivate,
                      WmSurfaceInfo},
         128, 256, 512, {WmPointerEvent, WmKeyEvent, WmShellEvent},
         {WmPointerEvent, WmKeyEvent, WmShellEvent})

\* The loop of shellui that waits for the surface of its panel.
ShelluiPanel ==
    Loop(WmProtocol, {WmCreateSurface},
         128, 256, 512, {WmPointerEvent, WmKeyEvent, WmShellEvent}, {WmPointerEvent, WmKeyEvent})

\* The terminal's commit_and_sync.
TermCommit ==
    Loop(WmProtocol, {WmCommit}, 128, 384, 512,
         {WmPointerEvent, WmKeyEvent}, {WmPointerEvent, WmKeyEvent})

\* The launcher's loop for the session of an application it starts.
LancOpen ==
    Loop(WmProtocol, {WmOpen}, 256, 384, 512,
         {WmPointerEvent, WmKeyEvent}, {WmPointerEvent, WmKeyEvent})

\* The test program's calls to the window manager.
WmTests == Strict(WmProtocol, AllOf(WmProtocol), 384, 384, 512, 512, 4096)

Client(c) ==
    CASE c = "sockets" -> Sockets [] c = "portal fs" -> PortalFs [] c = "prefs fs" -> PrefsFs
      [] c = "fs disk" -> FsDisk [] c = "console" -> ShellConsole [] c = "echo" -> EchoClient
      [] c = "input" -> SessionInput [] c = "esp" -> VfsEsp [] c = "net" -> NetRpc
      [] c = "greeter" -> Greeter [] c = "shellui" -> Shellui [] c = "panel" -> ShelluiPanel
      [] c = "term" -> TermCommit [] c = "lanc" -> LancOpen [] c = "wm tests" -> WmTests
      [] c = "rng" -> RngTests

Cli == Client(session.client)

-----------------------------------------------------------------------------
(* The values a message is filled with: each field has a value of its own, *)
(* and the byte fields are empty or as long as they may be.                *)

FieldValue(f, tag, long) ==
    IF f.kind = "int" THEN tag
    ELSE IF ~ long \/ f.size = 0 THEN [len |-> 0, data |-> "none"]
    ELSE [len |-> Min({f.size, Cli.most}), data |-> tag]

Values(m, tag, long) ==
    [i \in 1..Len(m.fields) |-> FieldValue(m.fields[i], <<tag, i>>, long)]

\* A later minor version appends a field to what this one encodes.
Extended(w, side) ==
    IF session.newer # side \/ w.len = 0 THEN w
    ELSE [w EXCEPT !.len = @ + 4, !.minor = @ + 1, !.payload.len = @ + 4,
                   !.payload.cells = Append(@, Cell(4, "later field"))]

Nothing == [what |-> "nothing"]

RpcInit ==
    /\ session \in [client : RpcClients, newer : {"none", "client", "service"}]
    /\ toService = <<>> /\ toClient = <<>>
    /\ cl = [pc |-> "idle", calls |-> 0, method |-> Nothing, answer |-> Nothing]
    /\ pushed = 0
    /\ decoded = Nothing

\* What encode_error writes, as a message of one field.
ErrorMessage == Message(0, {"response", "error"}, 0, <<U(4)>>)

\* A message with the ghost of what it was made from.
Packet(wire, handles, call, m, vals) ==
    [wire |-> wire, handles |-> handles, call |-> call, msg |-> m, vals |-> vals]

\* The client sends the request of method m (unwrap_or(0): a request that does
\* not fit its buffer is sent as zero bytes).
Call(m, long) ==
    /\ cl.pc = "idle" /\ cl.calls < MaxCalls
    /\ Len(toService) < RpcQueueMax
    /\ LET vals == Values(m.request, cl.calls + 1, long)
           w == Extended(EncodeMsg(Cli.proto, m.request, vals, Cli.out), "client")
       IN  toService' = Append(toService,
                               Packet(w, m.request.handles, cl.calls + 1, m.request, vals))
    /\ cl' = [pc |-> "wait", calls |-> cl.calls + 1, method |-> m, answer |-> Nothing]
    /\ decoded' = Nothing
    /\ UNCHANGED <<session, toClient, pushed>>

\* The service's send: a full queue loses the message (let _ = channel_send).
Reply(packet) ==
    toClient' = IF Len(toClient) < RpcQueueMax THEN Append(toClient, packet) ELSE toClient

\* The service receives a request and answers it.  A request that cannot be
\* decoded is answered with error 1 of method 0; one that can is carried out
\* or refused.
Serve(refuse, long) ==
    /\ toService # <<>>
    /\ Head(toService).wire.len <= Cli.svcIn
    /\ LET q == Head(toService)
           r == DecodeRequestWithHandles(Cli.proto, q.wire, q.handles)
           m == CHOOSE x \in AllOf(Cli.proto) : x.request = r.msg
           vals == Values(m.response, q.call + 10, long)
       IN  /\ decoded' = [what |-> "request", packet |-> q, read |-> r]
           /\ IF r.err # "Ok" \/ refuse
                THEN LET id == IF r.err = "Ok" THEN r.msg.method ELSE 0
                     IN  Reply(Packet(EncodeError(Cli.proto, id, 1, Cli.svcOut), 0, q.call, ErrorMessage, <<1>>))
                ELSE Reply(Packet(Extended(EncodeMsg(Cli.proto, m.response, vals, Cli.svcOut), "service"),
                                  m.response.handles, q.call, m.response, vals))
    /\ toService' = Tail(toService)
    /\ UNCHANGED <<session, cl, pushed>>

\* The service pushes an event.
Push(e) ==
    /\ pushed < MaxEvents
    /\ Len(toClient) < RpcQueueMax
    /\ LET vals == Values(e, 20, TRUE)
       IN  toClient' = Append(toClient,
               Packet(Extended(EncodeMsg(Cli.proto, e, vals, Cli.svcOut), "service"), 0, 0, e, vals))
    /\ pushed' = pushed + 1
    /\ UNCHANGED <<session, toService, cl, decoded>>

\* Mutant: no event is passed over.
PassesNone(w) == FALSE

\* The message is an event that the client's loop passes over.
Passes(w) == \E e \in Cli.skip : DecodeEvent(Cli.proto, e, w).err = "Ok"

\* The waiting client receives a message: an event its loop passes over, or
\* what it takes for the answer.  A message longer than its buffer is lost.
Take ==
    /\ cl.pc = "wait" /\ toClient # <<>>
    /\ LET q == Head(toClient)
           r == DecodeResponse(Cli.proto, cl.method, q.wire)
       IN  IF q.wire.len <= Cli.in /\ Passes(q.wire)
             THEN UNCHANGED <<cl, decoded>>
             ELSE /\ cl' = [cl EXCEPT !.pc = "idle",
                                      !.answer = [what |-> "answer", call |-> q.call,
                                                  fits |-> q.wire.len <= Cli.in]]
                  /\ decoded' = [what |-> "answer", packet |-> q, read |-> r]
    /\ toClient' = Tail(toClient)
    /\ UNCHANGED <<session, toService, pushed>>

\* Between calls the client's main loop reads what the channel holds.
Drain ==
    /\ cl.pc = "idle" /\ toClient # <<>>
    /\ toClient' = Tail(toClient)
    /\ UNCHANGED <<session, toService, cl, pushed, decoded>>

RpcNext ==
    \/ \E m \in Cli.calls, long \in BOOLEAN : Call(m, long)
    \/ \E refuse, long \in BOOLEAN : Serve(refuse, long)
    \/ \E e \in Cli.events : Push(e)
    \/ Take
    \/ Drain

RpcSpec == RpcInit /\ [][RpcNext]_rpcVars

-----------------------------------------------------------------------------
(* Properties.                                                             *)

\* What a client takes for the answer of a call answers that call: never an
\* event pushed meanwhile, nor the answer of an earlier call (the rpc loops
\* of the clients).
AnswerIsOwn == cl.answer.what = "answer" => cl.answer.call = cl.calls

\* What one end encodes the other decodes: the same method, the same value in
\* every field, with either end of a later minor version, and a refusal as the
\* remote error of the method called (encode_msg, decode_request_with_handles,
\* decode_<method>_response).
RoundTrip ==
    decoded.what # "nothing" =>
        IF decoded.packet.msg = ErrorMessage
          THEN decoded.read = [err |-> "Remote", code |-> 1]
          ELSE decoded.packet.call # 0 =>
                 decoded.read = [err |-> "Ok", msg |-> decoded.packet.msg,
                                 vals |-> decoded.packet.vals]

\* No message is lost for being longer than the buffer it is received into: the
\* service's requests and the client's answers fit (sys_channel_recv discards a
\* message that does not, and the window manager exits on it).
NoneTooLong ==
    /\ \A i \in 1..Len(toService) : toService[i].wire.len \in HEADER_LEN..Cli.svcIn
    /\ cl.answer.what = "answer" => cl.answer.fits

\* A call gets through as it was written and its answer comes back: both fit,
\* both are read as written, and no other message is taken for the answer.
CallsRight == RoundTrip /\ NoneTooLong /\ AnswerIsOwn
=============================================================================
