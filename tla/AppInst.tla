------------------------------ MODULE AppInst ------------------------------
(* Transactional installation of packages (libraries/inst): the files of a *)
(* version go to a directory of their own, then the pointer `.cur` is      *)
(* written, then old versions are collected.  Every operation of the file  *)
(* system is a step; it is atomic (NexoFs shows that), but write_file is   *)
(* several: it creates or truncates, then writes piece by piece.  The      *)
(* power may fail, or an operation be refused, between any two.            *)
EXTENDS Integers, Sequences, Functions

CONSTANTS Packages,    \* packages of the one application that is installed
          PkgFiles,    \* the files of each package, in order
          Pieces,      \* writes it takes to fill a file of a package
          MaxVersion,  \* highest version number that is reached
          MaxCuts      \* power failures and refused operations

ASSUME InstShape ==
    /\ {Pieces, MaxVersion} \subseteq Nat \ {0} /\ MaxCuts \in Nat
    /\ \A p \in Packages : PkgFiles[p] \in Seq(STRING)

VARIABLES cur,         \* the pointer: NOFILE, EMPTY or a version
          ver,         \* the directory of each version: there, file
          revoked,     \* the list of revoked names
          inst,        \* what the installer is doing
          cuts,
          whole        \* history: nothing was cut short or refused

instVars == <<cur, ver, revoked, inst, cuts, whole>>

KEEP_VERSIONS == 2
NOFILE == -1
EMPTY == 0
Version == 1 .. MaxVersion
MANIFEST == "manifest.txt"
LIST == "files.txt"
Names == (UNION {Range(PkgFiles[p]) : p \in Packages}) \cup {MANIFEST, LIST}

\* Contents of a file: the first n pieces of what package pkg says.
Absent == [pkg |-> 0, n |-> NOFILE]
Opened == [pkg |-> 0, n |-> EMPTY]
PiecesOf(name) == IF name \in {MANIFEST, LIST} THEN 1 ELSE Pieces

\* todo: the files to write or, in gc, to unlink, or the list to store.
Idle == [at |-> "idle", pkg |-> 0, v |-> 0, todo |-> <<>>]

NoVersion == [there |-> FALSE, file |-> [x \in Names |-> Absent]]

InstInit ==
    /\ cur = NOFILE /\ ver = [v \in Version |-> NoVersion]
    /\ revoked = {} /\ inst = Idle /\ cuts = 0 /\ whole = TRUE

\* current_version: None unless the pointer reads as a version.
current_version == IF cur \in Version THEN cur ELSE 0

----------------------------------------------------------------------------
(* install. *)

\* The package was parsed and the list of revoked names asked before the
\* disk is touched.
Install(p) ==
    /\ inst.at = "idle" /\ "app" \notin revoked /\ current_version < MaxVersion
    /\ inst' = [at |-> "mkdir", pkg |-> p, v |-> current_version + 1,
                todo |-> <<MANIFEST>> \o PkgFiles[p] \o <<LIST>>]
    /\ UNCHANGED <<cur, ver, revoked, cuts, whole>>

mkdir ==
    /\ inst.at = "mkdir"
    /\ ver' = [ver EXCEPT ![inst.v].there = TRUE]
    /\ inst' = [inst EXCEPT !.at = "open"]
    /\ UNCHANGED <<cur, revoked, cuts, whole>>

\* write_file, first part: created or, if it is there, truncated.
OpenFile ==
    /\ inst.at = "open"
    /\ ver' = [ver EXCEPT ![inst.v].file[Head(inst.todo)] = Opened]
    /\ inst' = [inst EXCEPT !.at = "write"]
    /\ UNCHANGED <<cur, revoked, cuts, whole>>

\* Second part: one piece after the other.
WritePiece ==
    LET name == Head(inst.todo)  n == ver[inst.v].file[name].n + 1
    IN  /\ inst.at = "write"
        /\ ver' = [ver EXCEPT ![inst.v].file[name] = [pkg |-> inst.pkg, n |-> n]]
        /\ inst' = IF n < PiecesOf(name) THEN inst
                   ELSE [inst EXCEPT !.todo = Tail(@),
                                     !.at = IF Len(inst.todo) > 1 THEN "open" ELSE "point"]
        /\ UNCHANGED <<cur, revoked, cuts, whole>>

\* The commit is a write_file like the others.
OpenPointer ==
    /\ inst.at = "point"
    /\ cur' = EMPTY
    /\ inst' = [inst EXCEPT !.at = "commit"]
    /\ UNCHANGED <<ver, revoked, cuts, whole>>

Commit ==
    /\ inst.at = "commit"
    /\ cur' = inst.v
    /\ inst' = [inst EXCEPT !.at = "gc", !.pkg = 0, !.v = 1]
    /\ UNCHANGED <<ver, revoked, cuts, whole>>

----------------------------------------------------------------------------
(* gc, best effort. *)

\* What files.txt of version v names, then the two files of the installer.
Listed(v) == IF ver[v].file[LIST].n = 1 THEN PkgFiles[ver[v].file[LIST].pkg] ELSE <<>>

\* Mutant: the version before the current one goes too.
CollectableAll(v) == v < cur

Collectable(v) == v <= cur - KEEP_VERSIONS

gc ==
    /\ inst.at = "gc"
    /\ inst' = IF ~Collectable(inst.v) THEN Idle
               ELSE IF ver[inst.v].file[LIST] = Absent THEN [inst EXCEPT !.v = @ + 1]
               ELSE [inst EXCEPT !.at = "unlink", !.todo = Listed(inst.v) \o <<LIST, MANIFEST>>]
    /\ UNCHANGED <<cur, ver, revoked, cuts, whole>>

\* gc_version: one file after the other, then the directory if it is empty.
gc_version ==
    /\ inst.at = "unlink"
    /\ IF inst.todo # <<>>
       THEN /\ ver' = [ver EXCEPT ![inst.v].file[Head(inst.todo)] = Absent]
            /\ inst' = [inst EXCEPT !.todo = Tail(@)]
       ELSE /\ ver' = IF \A x \in Names : ver[inst.v].file[x] = Absent
                      THEN [ver EXCEPT ![inst.v].there = FALSE] ELSE ver
            /\ inst' = [inst EXCEPT !.at = "gc", !.v = @ + 1]
    /\ UNCHANGED <<cur, revoked, cuts, whole>>

\* An unlink that is refused is passed over.
UnlinkRefused ==
    /\ inst.at = "unlink" /\ inst.todo # <<>> /\ cuts < MaxCuts
    /\ inst' = [inst EXCEPT !.todo = Tail(@)]
    /\ cuts' = cuts + 1 /\ whole' = FALSE
    /\ UNCHANGED <<cur, ver, revoked>>

----------------------------------------------------------------------------
(* revoke: the list is read, then written with the name added. *)

Revoke(name) ==
    /\ inst.at = "idle" /\ name \notin revoked
    /\ inst' = [inst EXCEPT !.at = "revoke", !.todo = <<revoked \cup {name}>>]
    /\ revoked' = {}
    /\ UNCHANGED <<cur, ver, cuts, whole>>

WriteRevoked ==
    /\ inst.at = "revoke"
    /\ revoked' = Head(inst.todo) /\ inst' = Idle
    /\ UNCHANGED <<cur, ver, cuts, whole>>

----------------------------------------------------------------------------
\* The power fails, or an operation before the commit is refused.
CutShort ==
    /\ inst.at # "idle" /\ cuts < MaxCuts
    /\ inst' = Idle /\ cuts' = cuts + 1 /\ whole' = FALSE
    /\ UNCHANGED <<cur, ver, revoked>>

InstNext ==
    \/ \E p \in Packages : Install(p)
    \/ mkdir \/ OpenFile \/ WritePiece \/ OpenPointer \/ Commit \/ gc \/ gc_version
    \/ UnlinkRefused
    \/ \E n \in {"app", "other"} : Revoke(n)
    \/ WriteRevoked \/ CutShort

InstSpec == InstInit /\ [][InstNext]_instVars
----------------------------------------------------------------------------
(* Properties. *)

\* Version v is all of one package.
Complete(v) ==
    /\ ver[v].there
    /\ \E p \in Packages : \A x \in {MANIFEST, LIST} \cup Range(PkgFiles[p]) :
           ver[v].file[x] = [pkg |-> p, n |-> PiecesOf(x)]

\* "depois do commit, a versão nova está completa por construção": whatever
\* was cut, the version the pointer names and the one before it are complete,
\* collection included, and nothing else is left after an undisturbed one.
InstalledComplete ==
    cur \in Version =>
        /\ Complete(cur)
        /\ cur > 1 => Complete(cur - 1)
        /\ whole /\ inst.at = "idle" => {v \in Version : ver[v].there} \subseteq {cur, cur - 1}

\* "Um corte de energia antes do commit deixa a versão anterior intacta": an
\* application of which there is a second version stays installed.  Not so
\* when the cut falls between the truncation of the pointer and its write.
StaysInstalled ==
    inst.at = "idle" /\ (\E v \in Version \ {1} : ver[v].there) => cur \in Version
=============================================================================
