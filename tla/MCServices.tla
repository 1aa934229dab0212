----------------------------- MODULE MCServices -----------------------------
(* The services in user space side by side: calls over the typed           *)
(* protocols, the service manager, the compositor's windows, layout and    *)
(* frames, TCP, the network service, the disk drivers and the virtual file *)
(* system.  They share no state: `part` says which of them moves, the      *)
(* others stay as they began.                                              *)
EXTENDS Rpc, SvcMgr, Wm, Tcp, Netd, Screen, FrameSwap, Block, Vfs

CONSTANTS Parts, port1, port2

VARIABLE part

\* Three services; their dependencies are any of three names and one that no
\* service has, and the third may repeat the name of the first.
ThreeServices ==
    LET Deps == SUBSET {"a", "b", "c", "x"}
    IN  {<<[nome |-> "a", depende |-> d1], [nome |-> "b", depende |-> d2],
           [nome |-> n, depende |-> d3]>> :
             d1 \in Deps, d2 \in Deps, d3 \in Deps, n \in {"a", "c"}}

\* The sequence numbers of side a wrap early.
EarlyWrap == [x \in Sides |-> IF x = "a" THEN 14 ELSE 6]
TwoFromA == [x \in Sides |-> IF x = "a" THEN 2 ELSE 0]

OneSize == {<<1, 2>>}
PartlyOut == {<<1, -1>>}
FullAndHalf == {<<1, 1>>, <<1, 2>>}

allVars == <<rpcVars, svcVars, wmVars, tcpVars, netdVars, scrVars, frmVars, blkVars, vfsVars, part>>

Init ==
    /\ part \in Parts
    /\ SvcInit /\ (part # "svcmgr" => table = Servicos)
    /\ RpcInit /\ (part # "rpc" => session = [client |-> CHOOSE c \in RpcClients : TRUE, newer |-> "none"])
    /\ BlkInit /\ (part # "block" => disk = CHOOSE d \in Drivers : TRUE)
    /\ VfsInit /\ (part # "vfs" => sess[0] = CHOOSE m \in Mounts : TRUE)
    /\ WmInit /\ TcpInit /\ NetdInit /\ ScrInit /\ FrmInit

Next ==
    /\ UNCHANGED part
    /\ \/ /\ part = "rpc" /\ RpcNext
          /\ UNCHANGED <<svcVars, wmVars, tcpVars, netdVars, scrVars, frmVars,
                         blkVars, vfsVars>>
       \/ /\ part = "svcmgr" /\ SvcNext
          /\ UNCHANGED <<rpcVars, wmVars, tcpVars, netdVars, scrVars, frmVars,
                         blkVars, vfsVars>>
       \/ /\ part = "wm" /\ WmNext
          /\ UNCHANGED <<rpcVars, svcVars, tcpVars, netdVars, scrVars, frmVars,
                         blkVars, vfsVars>>
       \/ /\ part = "tcp" /\ TcpNext
          /\ UNCHANGED <<rpcVars, svcVars, wmVars, netdVars, scrVars, frmVars,
                         blkVars, vfsVars>>
       \/ /\ part = "netd" /\ NetdNext
          /\ UNCHANGED <<rpcVars, svcVars, wmVars, tcpVars, scrVars, frmVars,
                         blkVars, vfsVars>>
       \/ /\ part = "screen" /\ ScrNext
          /\ UNCHANGED <<rpcVars, svcVars, wmVars, tcpVars, netdVars, frmVars,
                         blkVars, vfsVars>>
       \/ /\ part = "frame" /\ FrmNext
          /\ UNCHANGED <<rpcVars, svcVars, wmVars, tcpVars, netdVars, scrVars,
                         blkVars, vfsVars>>
       \/ /\ part = "block" /\ BlkNext
          /\ UNCHANGED <<rpcVars, svcVars, wmVars, tcpVars, netdVars, scrVars,
                         frmVars, vfsVars>>
       \/ /\ part = "vfs" /\ VfsNext
          /\ UNCHANGED <<rpcVars, svcVars, wmVars, tcpVars, netdVars, scrVars,
                         frmVars, blkVars>>

Spec == Init /\ [][Next]_allVars
=============================================================================
