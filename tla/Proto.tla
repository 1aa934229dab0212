-------------------------------- MODULE Proto --------------------------------
(***************************************************************************)
(* The typed messages of the NXIP protocols: the header, the encoding and  *)
(* decoding of a payload, and how requests, responses, events and errors   *)
(* are told apart.  The protocols themselves are tables built with the     *)
(* constructors of this module (ProtoIo, ProtoFs, ProtoSock and ProtoWm).  *)
(*                                                                         *)
(* A payload is the sequence of the cells written into it, a cell being a  *)
(* number of bytes and the value they hold.  A 32-bit protocol id is the   *)
(* pair of its halves, since TLC's integers are 32-bit and signed.         *)
(***************************************************************************)
EXTENDS Integers, Sequences, SequencesExt

HEADER_LEN == 24

\* The flags a header may carry; any other bit is unknown to a decoder.
KnownFlags == {"response", "error", "event"}

\* A field of a message: an integer of w bytes, or at most n bytes preceded by
\* their 32-bit length.  Handle fields travel in the message's handle vector
\* and occupy no byte of the payload.
U(w) == [kind |-> "int", size |-> w]
Bytes(n) == [kind |-> "bytes", size |-> n]

\* A message type: METHOD_ID, flags, HANDLE_COUNT and the fields in order.
Message(method, flags, handles, fields) ==
    [method |-> method, flags |-> flags, handles |-> handles, fields |-> fields]

Request(method, handles, fields) == Message(method, {}, handles, fields)
Response(method, handles, fields) == Message(method, {"response"}, handles, fields)
Event(method, handles, fields) == Message(method, {"event"}, handles, fields)

\* A method: the id its response decoder expects, its request and its response.
Method(id, request, response) ==
    [id |-> id, request |-> request, response |-> response]

\* A protocol: its id and version, the methods decode_request dispatches to,
\* and its events.
Protocol(id, major, minor, methods, events) ==
    [id |-> id, major |-> major, minor |-> minor, methods |-> methods, events |-> events]

-----------------------------------------------------------------------------
(* Payloads.                                                               *)

Cell(n, v) == [size |-> n, val |-> v]

Failure(acc, e) == [acc EXCEPT !.err = e]

\* Field f with value v is appended to the payload; room bytes are available.
EncodeField(acc, f, v, room) ==
    IF acc.err # "Ok" THEN acc
    ELSE IF f.kind = "int"
      THEN IF acc.len + f.size > room THEN Failure(acc, "Short")
           ELSE [acc EXCEPT !.len = @ + f.size, !.cells = Append(@, Cell(f.size, v))]
      ELSE IF v.len > f.size THEN Failure(acc, "TooBig")
           ELSE IF acc.len + 4 + v.len > room THEN Failure(acc, "Short")
           ELSE [acc EXCEPT !.len = @ + 4 + v.len,
                            !.cells = @ \o <<Cell(4, v.len)>>
                                        \o (IF v.len = 0 THEN <<>> ELSE <<Cell(v.len, v.data)>>)]

\* encode_payload
EncodePayload(fields, vals, room) ==
    LET Step(acc, i) == EncodeField(acc, fields[i], vals[i], room)
    IN  FoldLeft(Step, [err |-> "Ok", len |-> 0, cells |-> <<>>],
                 [i \in 1..Len(fields) |-> i])

\* What n bytes read at the front of the cells hold: the value written there,
\* or bytes of other fields when the boundaries do not match.
ReadCell(cells, n) ==
    IF cells # <<>> /\ Head(cells).size = n THEN Head(cells).val ELSE "other bytes"

\* The next field is read off the payload.
DecodeField(acc, f) ==
    IF acc.err # "Ok" THEN acc
    ELSE IF f.kind = "int"
      THEN IF acc.left < f.size THEN Failure(acc, "Short")
           ELSE [acc EXCEPT !.left = @ - f.size, !.cells = Tail(@),
                            !.vals = Append(@, ReadCell(acc.cells, f.size))]
      ELSE IF acc.left < 4 THEN Failure(acc, "Short")
           ELSE LET n == ReadCell(acc.cells, 4) IN
                IF n > f.size THEN Failure(acc, "TooBig")
                ELSE IF acc.left < 4 + n THEN Failure(acc, "Short")
                ELSE [acc EXCEPT
                        !.left = @ - 4 - n,
                        !.cells = SubSeq(@, IF n = 0 THEN 2 ELSE 3, Len(@)),
                        !.vals = Append(@, [len |-> n,
                                            data |-> IF n = 0 THEN "none"
                                                     ELSE ReadCell(Tail(acc.cells), n)])]

\* decode_payload: bytes after the last field are ignored.
DecodePayload(fields, payload) ==
    FoldLeft(DecodeField,
             [err |-> "Ok", left |-> payload.len, cells |-> payload.cells, vals |-> <<>>],
             fields)

-----------------------------------------------------------------------------
(* Whole messages.                                                         *)

\* Nothing was encoded: the callers send zero bytes (unwrap_or(0)).
NoBytes == [len |-> 0]

Wire(p, method, flags, payload) ==
    [len |-> HEADER_LEN + payload.len, magic |-> TRUE, id |-> p.id, major |-> p.major,
     minor |-> p.minor, method |-> method, flags |-> flags, payload |-> payload]

\* encode_msg into a buffer of room bytes.
EncodeMsg(p, m, vals, room) ==
    LET payload == EncodePayload(m.fields, vals, room - HEADER_LEN)
    IN  IF room < HEADER_LEN \/ payload.err # "Ok" THEN NoBytes
        ELSE Wire(p, m.method, m.flags, payload)

\* encode_error
EncodeError(p, method, code, room) ==
    IF room < HEADER_LEN + 4 THEN NoBytes
    ELSE Wire(p, method, {"response", "error"}, [err |-> "Ok", len |-> 4, cells |-> <<Cell(4, code)>>])

\* Header::decode
DecodeHeader(w) ==
    CASE w.len < HEADER_LEN -> "Short"
      [] w.len >= HEADER_LEN /\ ~ w.magic -> "Magic"
      [] w.len >= HEADER_LEN /\ w.magic /\ ~ (w.flags \subseteq KnownFlags) -> "Flags"
      [] w.len >= HEADER_LEN /\ w.magic /\ w.flags \subseteq KnownFlags ->
           IF w.len # HEADER_LEN + w.payload.len THEN "Length" ELSE "Ok"

Err(e) == [err |-> e]

\* The header is well formed and of this protocol and major version.
Accepted(p, w) ==
    IF DecodeHeader(w) # "Ok" THEN DecodeHeader(w)
    ELSE IF w.id # p.id THEN "Protocol"
    ELSE IF w.major # p.major THEN "Version"
    ELSE "Ok"

\* The fields of message m in w, or the error of its payload.
Fields(m, w) ==
    LET d == DecodePayload(m.fields, w.payload)
    IN  IF d.err = "Ok" THEN [err |-> "Ok", msg |-> m, vals |-> d.vals] ELSE Err(d.err)

\* decode_request
DecodeRequest(p, w) ==
    IF Accepted(p, w) # "Ok" THEN Err(Accepted(p, w))
    ELSE IF w.flags # {} THEN Err("Flags")
    ELSE LET known == SelectSeq(p.methods, LAMBDA m : m.request.method = w.method)
         IN  IF known = <<>> THEN Err("Method") ELSE Fields(known[1].request, w)

\* decode_request_with_handles: n handles came with the message.
DecodeRequestWithHandles(p, w, n) ==
    LET r == DecodeRequest(p, w)
    IN  IF r.err = "Ok" /\ r.msg.handles # n THEN Err("Length") ELSE r

\* decode_<method>_response
DecodeResponse(p, m, w) ==
    IF Accepted(p, w) # "Ok" THEN Err(Accepted(p, w))
    ELSE IF w.method # m.id THEN Err("Method")
    ELSE IF "error" \in w.flags THEN [err |-> "Remote", code |-> ReadCell(w.payload.cells, 4)]
    ELSE IF w.flags # {"response"} THEN Err("Flags")
    ELSE Fields(m.response, w)

\* decode_<name>_event
DecodeEvent(p, e, w) ==
    IF Accepted(p, w) # "Ok" THEN Err(Accepted(p, w))
    ELSE IF w.method # e.method THEN Err("Method")
    ELSE IF w.flags # {"event"} THEN Err("Flags")
    ELSE Fields(e, w)

=============================================================================
