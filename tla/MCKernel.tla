------------------------------ MODULE MCKernel ------------------------------
(* The timer of the boot CPU, the kernel timers, the CPU quotas, the frame *)
(* bitmap and the kernel heap side by side.  They share no state: `part`   *)
(* says which of them moves, the others stay as they began.                *)
EXTENDS BspTick, KTimer, JobQuota, FrameBitmap, KHeap, TLC

CONSTANT Parts

VARIABLE part

Sym == Permutations(Proc) \cup Permutations(Cpu)

allVars == <<bspVars, ktimerVars, quotaVars, frameVars, heapVars, part>>

Init ==
    /\ BspInit /\ KtimerInit /\ QuotaInit /\ FrameInit /\ HeapInit
    /\ part \in Parts
    /\ part # "bsp" => \A t \in BspThread : cpu[t] = "BSP"

Next ==
    /\ UNCHANGED part
    /\ \/ /\ part = "bsp" /\ BspNext
          /\ UNCHANGED <<ktimerVars, quotaVars, frameVars, heapVars>>
       \/ /\ part = "ktimer" /\ KtimerNext
          /\ UNCHANGED <<bspVars, quotaVars, frameVars, heapVars>>
       \/ /\ part = "quota" /\ QuotaNext
          /\ UNCHANGED <<bspVars, ktimerVars, frameVars, heapVars>>
       \/ /\ part = "frames" /\ FrameNext
          /\ UNCHANGED <<bspVars, ktimerVars, quotaVars, heapVars>>
       \/ /\ part = "heap" /\ HeapNext
          /\ UNCHANGED <<bspVars, ktimerVars, quotaVars, frameVars>>

\* The tick of the boot CPU is never lost and no kernel timer runs early; a
\* job with a quota is closed every window, and its throttle is at most a tick
\* late.
TimersSound == NeverDisarmed /\ Sorted /\ NeverEarly /\ Listed /\ LateOneTick

Spec == Init /\ [][Next]_allVars
=============================================================================
