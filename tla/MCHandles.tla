----------------------------- MODULE MCHandles -----------------------------
(* Two processes and a collector.  Joined: one channel joins the two, and  *)
(* a second one may be created and its ends sent over the first (or the    *)
(* first one's over it, which makes cycles).  AllAtP: one process has both *)
(* channels already.  The two ends of the second channel are alike, and when *)
(* joined so are the processes, each with its end of the first.            *)
EXTENDS Handles, TLC

CONSTANTS P1, P2, C1, C2, E1, F1, E2, F2

TwoProcs == {P1, P2}
TwoChans == {C1, C2}
FourEnds == {E1, F1, E2, F2}
FourChanOf == (E1 :> C1) @@ (F1 :> C1) @@ (E2 :> C2) @@ (F2 :> C2)
Joined == (P1 :> {E1}) @@ (P2 :> {F1})
AllAtP == (P1 :> FourEnds) @@ (P2 :> {})
JoinedOnly == {Joined}
AllAtPOnly == {AllAtP}
Swap == (P1 :> P2) @@ (P2 :> P1) @@ (E1 :> F1) @@ (F1 :> E1)
Sym == Permutations({E2, F2}) \cup {Swap}
=============================================================================
