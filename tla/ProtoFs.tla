------------------------------ MODULE ProtoFs ------------------------------
(***************************************************************************)
(* nexo.fs, the protocol between the file system services and their        *)
(* clients. A message is its method id, the number of handles it carries   *)
(* and its fields.                                                         *)
(***************************************************************************)
EXTENDS Proto

-----------------------------------------------------------------------------
(* nexo.fs, version 1.4.                                                   *)

\* nexo.fs.stat
FsStatRequest == Request(1, 0, <<Bytes(256)>>)
FsStatResponse == Response(1, 0, <<U(4), U(1), U(8)>>)
FsStat == Method(1, FsStatRequest, FsStatResponse)

\* nexo.fs.create
FsCreateRequest == Request(2, 0, <<Bytes(256)>>)
FsCreateResponse == Response(2, 0, <<U(4)>>)
FsCreate == Method(2, FsCreateRequest, FsCreateResponse)

\* nexo.fs.mkdir
FsMkdirRequest == Request(3, 0, <<Bytes(256)>>)
FsMkdirResponse == Response(3, 0, <<U(4)>>)
FsMkdir == Method(3, FsMkdirRequest, FsMkdirResponse)

\* nexo.fs.unlink
FsUnlinkRequest == Request(4, 0, <<Bytes(256)>>)
FsUnlinkResponse == Response(4, 0, <<>>)
FsUnlink == Method(4, FsUnlinkRequest, FsUnlinkResponse)

\* nexo.fs.read
FsReadRequest == Request(5, 0, <<U(4), U(8), U(4)>>)
FsReadResponse == Response(5, 0, <<Bytes(4000)>>)
FsRead == Method(5, FsReadRequest, FsReadResponse)

\* nexo.fs.write
FsWriteRequest == Request(6, 0, <<U(4), U(8), Bytes(3900)>>)
FsWriteResponse == Response(6, 0, <<U(4)>>)
FsWrite == Method(6, FsWriteRequest, FsWriteResponse)

\* nexo.fs.list
FsListRequest == Request(7, 0, <<Bytes(256)>>)
FsListResponse == Response(7, 0, <<U(4), Bytes(3900)>>)
FsList == Method(7, FsListRequest, FsListResponse)

\* nexo.fs.sync
FsSyncRequest == Request(8, 0, <<>>)
FsSyncResponse == Response(8, 0, <<>>)
FsSync == Method(8, FsSyncRequest, FsSyncResponse)

\* nexo.fs.info
FsInfoRequest == Request(9, 0, <<>>)
FsInfoResponse == Response(9, 0, <<U(8), U(8), U(8), U(8)>>)
FsInfo == Method(9, FsInfoRequest, FsInfoResponse)

\* nexo.fs.rename
FsRenameRequest == Request(11, 0, <<Bytes(256), Bytes(256)>>)
FsRenameResponse == Response(11, 0, <<>>)
FsRename == Method(11, FsRenameRequest, FsRenameResponse)

\* nexo.fs.truncate
FsTruncateRequest == Request(10, 0, <<U(4), U(8)>>)
FsTruncateResponse == Response(10, 0, <<>>)
FsTruncate == Method(10, FsTruncateRequest, FsTruncateResponse)

\* nexo.fs.map
FsMapRequest == Request(12, 0, <<U(4)>>)
FsMapResponse == Response(12, 1, <<U(8)>>)
FsMap == Method(12, FsMapRequest, FsMapResponse)

\* nexo.fs.check
FsCheckRequest == Request(13, 0, <<>>)
FsCheckResponse == Response(13, 0, <<U(4), U(4), U(4), U(4), U(4), U(4), U(4),
        U(4)>>)
FsCheck == Method(13, FsCheckRequest, FsCheckResponse)

\* nexo.fs.open
FsOpenRequest == Request(14, 1, <<U(8)>>)
FsOpenResponse == Response(14, 0, <<>>)
FsOpen == Method(14, FsOpenRequest, FsOpenResponse)

\* decode_request of nexo.fs: the methods it knows.
FsProtocol ==
    Protocol(<<11576, 18382>>, 1, 4, <<FsStat, FsCreate, FsMkdir, FsUnlink, FsRead,
        FsWrite, FsList, FsSync, FsInfo, FsRename, FsTruncate, FsMap, FsCheck,
        FsOpen>>, <<>>)

=============================================================================
