------------------------------- MODULE MCIpc -------------------------------
(* Channels, processes, multiple waits, user interrupts and address spaces *)
(* side by side.  They share no state, so a run looks at one at a time:    *)
(* `part` says which of them moves, the others stay as they began.         *)
EXTENDS Channel, ProcLife, WaitAny, UserIrq, Spaces, TLC

CONSTANTS Parts, Ta, Tb, Tc, P, C, Pm, Pu, Pv, Ch, Ev, Fact, A, B, A1, B1,
          T1, T2, S1, S2

VARIABLE part

Three == {Ta, Tb, Tc}
Pair == {Ta, Tc}
ThreeSides == [t \in Three |-> IF t = Tc THEN 1 ELSE 0]
PairSides == [t \in Pair |-> IF t = Tc THEN 1 ELSE 0]

Few == {Pm, Pu, Pv}
FewOwner == [t \in Few |-> IF t = Pv THEN C ELSE P]
FewMain == (P :> Pm) @@ (C :> Pv)

ChannelFirst == {<<Ch, Ev>>}
EventFirst == {<<Ev, Ch>>, <<Fact, Ch>>}

Drivers == {A1, B1}
DriverOwner == (A1 :> A) @@ (B1 :> B)

\* The main thread of the second process looks at the table of processes.
SecondOnly == {<<2, 1>>}

\* What is alike within one part: the threads on side 0, the threads of the
\* multiple waits, the CPUs; and, besides, the frames of the PML4s.
Alike == (Ta :> Tb) @@ (Tb :> Ta) @@ (T1 :> T2) @@ (T2 :> T1) @@ (S1 :> S2) @@ (S2 :> S1)
Sym == {Alike} \cup Permutations(Roots)

allVars == <<channelVars, procVars, anyVars, irqVars, spVars, part>>

Init ==
    /\ ChannelInit /\ ProcInit /\ AnyInit /\ IrqInit /\ SpInit
    /\ part \in Parts

Next ==
    /\ UNCHANGED part
    /\ \/ part = "channel" /\ ChannelNext /\ UNCHANGED <<procVars, anyVars, irqVars, spVars>>
       \/ part = "proc" /\ ProcNext /\ UNCHANGED <<channelVars, anyVars, irqVars, spVars>>
       \/ part = "any" /\ AnyNext /\ UNCHANGED <<channelVars, procVars, irqVars, spVars>>
       \/ part = "irq" /\ IrqNext /\ UNCHANGED <<channelVars, procVars, anyVars, spVars>>
       \/ part = "spaces" /\ SpNext /\ UNCHANGED <<channelVars, procVars, anyVars, irqVars>>

Spec == Init /\ [][Next]_allVars

\* No wake-up is lost: whoever is blocked in channel_recv, process_wait, a
\* wait on an event or irq_wait is registered with something that has not
\* happened yet, or is about to be unparked.
NoLostWakeup == WaitersServed /\ ProcWaitersServed /\ BlockedServed /\ NoLostIrq

\* A thread inside a system call goes on (it may be preempted, but a ready
\* thread is scheduled again), sleeps end, time passes, a handler runs to its
\* end and what was taken to be woken is unparked; user code owes nothing.
FairSpec ==
    /\ Spec
    /\ WF_channelVars(part = "channel" /\ JobStep)
    /\ \A t \in ChThread : WF_channelVars(part = "channel" /\ ThreadStep(t))
    /\ \A t \in ProcThread : WF_procVars(part = "proc" /\ Kernel(t))
    /\ \A t \in AnyThread :
          /\ WF_anyVars(part = "any" /\ Inside(t) /\ Watch)
          /\ WF_anyVars(part = "any" /\ Tick(t) /\ Watch)
          /\ WF_anyVars(part = "any" /\ Expire(t) /\ Watch)
          /\ WF_anyVars(part = "any" /\ AnyUnpark(t) /\ Watch)
    /\ WF_irqVars(part = "irq" /\ Notify) /\ WF_irqVars(part = "irq" /\ IsrWakes)
    /\ \A w \in Vector : WF_irqVars(part = "irq" /\ FreeWakes(w))
    /\ \A t \in IrqThread :
          /\ WF_irqVars(part = "irq" /\ IrqWaitLocked(t))
          /\ WF_irqVars(part = "irq" /\ IrqUnpark(t))

\* A wait for the end of a process, for an interrupt or for one of several
\* objects ends once what it waits for has happened.
WaitsReleased == WaitReleased /\ WaitEnds /\ IrqReturns
=============================================================================
