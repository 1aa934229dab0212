------------------------------- MODULE MCLive -------------------------------
(* What is owed in the end: by the timer of the boot CPU, the CPU quotas,  *)
(* the service manager, TCP and the disk drivers, side by side.            *)
(* They share no state: `part` says which of them moves, the others stay   *)
(* as they began.                                                          *)
EXTENDS BspTick, JobQuota, SvcMgr, Tcp, Block

CONSTANT Parts

VARIABLE part

\* The sequence numbers of side a wrap early; it sends one segment of data.
EarlyWrap == [x \in Sides |-> IF x = "a" THEN 14 ELSE 6]
OneFromA == [x \in Sides |-> IF x = "a" THEN 1 ELSE 0]

allVars == <<bspVars, quotaVars, svcVars, tcpVars, blkVars, part>>

Init ==
    /\ part \in Parts
    /\ BspInit /\ QuotaInit /\ SvcInit /\ TcpInit
    /\ BlkInit /\ (part # "block" => disk = CHOOSE d \in Drivers : TRUE)

Next ==
    /\ UNCHANGED part
    /\ \/ /\ part = "bsp" /\ BspNext
          /\ UNCHANGED <<quotaVars, svcVars, tcpVars, blkVars>>
       \/ /\ part = "quota" /\ QuotaNext
          /\ UNCHANGED <<bspVars, svcVars, tcpVars, blkVars>>
       \/ /\ part = "svcmgr" /\ SvcNext
          /\ UNCHANGED <<bspVars, quotaVars, tcpVars, blkVars>>
       \/ /\ part = "tcp" /\ TcpNext
          /\ UNCHANGED <<bspVars, quotaVars, svcVars, blkVars>>
       \/ /\ part = "block" /\ BlkNext
          /\ UNCHANGED <<bspVars, quotaVars, svcVars, tcpVars>>

\* Interrupts arrive and time passes; the caller of set_cpu_limit is not a
\* member of the throttled job, so it goes on.
KernelFair ==
    /\ WF_quotaVars(part = "quota" /\ QuotaKernel)
    /\ WF_quotaVars(part = "quota" /\ QuotaPass)
    /\ \A c \in Cpu : WF_quotaVars(part = "quota" /\ QuotaOnTick(c))

\* Every process runs again and again, a device completes the commands it
\* was given, and the clock of netd's timers goes on.  The network owes
\* nothing.
ServiceFair ==
    /\ WF_svcVars(part = "svcmgr" /\ MgrStep)
    /\ WF_svcVars(part = "svcmgr" /\ EchoStep)
    /\ WF_svcVars(part = "svcmgr" /\ ClientStep)
    /\ \A x \in Sides : WF_tcpVars(part = "tcp" /\ TcpTimers(x))
    /\ WF_blkVars(part = "block" /\ DriverStep)
    /\ WF_blkVars(part = "block" /\ DeviceStep)

\* A sleeper is served in time, and a job with a quota uses its budget and at
\* most two windows beyond it.
InTime == ServedInTime /\ LongRun

LiveSpec == Init /\ [][Next]_allVars /\ KernelFair /\ ServiceFair
=============================================================================
