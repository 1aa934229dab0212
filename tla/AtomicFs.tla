------------------------------ MODULE AtomicFs ------------------------------
(***************************************************************************)
(* What NexoFS promises its callers: a tree of files and directories, each *)
(* operation on which happens in one step, and which a power cut either    *)
(* leaves as it was or finds already changed (libraries/nexofs/src/lib.rs, *)
(* header).                                                                *)
(***************************************************************************)
EXTENDS Naturals, Sequences, TLC

CONSTANTS Paths,     \* the paths callers name: non-empty sequences of names
          Vals,      \* what a caller may write; 0 is what a hole reads as
          MaxUnits   \* the longest file

VARIABLE tree        \* path -> [kind, data]

Node(k, s) == [kind |-> k, data |-> s]

Parent(p) == SubSeq(p, 1, Len(p) - 1)

IsDir(p) == p = <<>> \/ (p \in DOMAIN tree /\ tree[p].kind = "dir")

IsFile(p) == p \in DOMAIN tree /\ tree[p].kind = "file"

Below(p, q) == Len(p) <= Len(q) /\ SubSeq(q, 1, Len(p)) = p

Init == tree = << >>

Create(p, k) ==
    /\ p \notin DOMAIN tree /\ IsDir(Parent(p))
    /\ tree' = (p :> Node(k, <<>>)) @@ tree

\* Bytes between the old end of the file and the written range read as zero.
Write(p, off, n, v) ==
    /\ IsFile(p)
    /\ LET old == tree[p].data
           top == IF off + n > Len(old) THEN off + n ELSE Len(old)
           At(u) == IF u \in off + 1 .. off + n THEN v
                    ELSE IF u <= Len(old) THEN old[u] ELSE 0
       IN tree' = [tree EXCEPT ![p].data = [u \in 1 .. top |-> At(u)]]

Truncate(p, n) ==
    /\ IsFile(p) /\ n < Len(tree[p].data)
    /\ tree' = [tree EXCEPT ![p].data = SubSeq(@, 1, n)]

Unlink(p) ==
    /\ p \in DOMAIN tree
    /\ \A q \in DOMAIN tree : Below(p, q) => q = p
    /\ tree' = [q \in DOMAIN tree \ {p} |-> tree[q]]

\* The whole subtree moves; a directory never moves into itself.
Rename(src, dst) ==
    /\ src \in DOMAIN tree /\ dst \notin DOMAIN tree
    /\ IsDir(Parent(dst)) /\ ~Below(src, dst)
    /\ LET moved == {q \in DOMAIN tree : Below(src, q)}
           Tail_(q) == SubSeq(q, Len(src) + 1, Len(q))
           From(q) == src \o SubSeq(q, Len(dst) + 1, Len(q))
       IN tree' = [q \in (DOMAIN tree \ moved) \cup {dst \o Tail_(r) : r \in moved} |->
                     IF q \in DOMAIN tree \ moved THEN tree[q] ELSE tree[From(q)]]

Next ==
    \/ \E p \in Paths, k \in {"file", "dir"} : Create(p, k)
    \/ \E p \in Paths, off, n \in 0 .. MaxUnits, v \in Vals :
          n > 0 /\ off + n <= MaxUnits /\ Write(p, off, n, v)
    \/ \E p \in Paths, n \in 0 .. MaxUnits : Truncate(p, n)
    \/ \E p \in Paths : Unlink(p)
    \/ \E p, q \in Paths : Rename(p, q)

Spec == Init /\ [][Next]_tree
=============================================================================
