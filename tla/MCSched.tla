------------------------------ MODULE MCSched ------------------------------
(* The scheduler for TLC: main and two more threads on one or two CPUs.    *)
EXTENDS Sched, TLC

CONSTANTS main, a, b

Three == {main, a, b}
SomeMasks == {{1}, {0, 1}}
Mask0 == {{0}}

Sym == Permutations({a, b})

\* The local timer of every CPU keeps firing, a switch in progress ends and
\* time passes.  The tick spins on SCHED, which is free again and again: SF.
FairSpec ==
    /\ SchedSpec
    /\ \A c \in CPU :
          /\ WF_schedVars(FinishSwitch(c))
          /\ SF_schedVars(\E over \in BOOLEAN : OnTick(c, TRUE, over))
    /\ \A t \in Thread : WF_schedVars(TimePasses(t))
=============================================================================
