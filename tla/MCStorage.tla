----------------------------- MODULE MCStorage -----------------------------
(* What the system keeps on disks, side by side: NexoFs, the FAT volume of *)
(* the boot partition, the two system slots and the installer of packages. *)
(* `part` says which of them moves; the others stay as they began.         *)
EXTENDS NexoFs, Fat, BootSlots, AppInst

CONSTANTS Parts, a, b

VARIABLE part

MCPaths == {<<a>>, <<b>>, <<a, b>>}
MCFile == {<<a>>}

\* A package of two files and one of one.
TwoPackages == <<<<"x", "y">>, <<"x">>>>

Slot(p, t, s) == [priority |-> p, tries |-> t, successful |-> s]
Disk(s0, s1, i0, i1) ==
    [st |-> [slot |-> [i \in SLOT |-> IF i = 0 THEN s0 ELSE s1], last |-> 0],
     img |-> [i \in SLOT |-> IF i = 0 THEN i0 ELSE i1]]
Image(k, i) == [kernel |-> k, initrd |-> i]

\* The image of the build, one whose second slot is of another version, an
\* update to a version that does not come up, and the image of
\* tools/test-rollback.
SlotImages ==
    {Disk(Slot(2, 3, 1), Slot(1, 3, 1), Image(1, 1), Image(v, v)) : v \in {1, 2}}
    \cup {Disk(Slot(2, 3, 1), Slot(3, 3, 0), Image(1, 1), Image(2, 2)),
          Disk(Slot(3, 1, 0), Slot(2, 3, 1), Image(1, TORN), Image(1, 1))}

storageVars == <<fsVars, fatVars, slotVars, instVars, part>>

Init ==
    /\ part \in Parts
    /\ FsInit /\ FatInit /\ InstInit
    /\ SlotsInit /\ (part # "slots" => st = (CHOOSE d \in Images : TRUE).st /\ img = (CHOOSE d \in Images : TRUE).img)

Next ==
    /\ UNCHANGED part
    /\ \/ /\ part = "nexofs" /\ FsNext
          /\ UNCHANGED <<fatVars, slotVars, instVars>>
       \/ /\ part = "fat" /\ FatNext
          /\ UNCHANGED <<fsVars, slotVars, instVars>>
       \/ /\ part = "slots" /\ SlotsNext
          /\ UNCHANGED <<fsVars, fatVars, instVars>>
       \/ /\ part = "inst" /\ InstNext
          /\ UNCHANGED <<fsVars, fatVars, slotVars>>

Spec == Init /\ [][Next]_storageVars
=============================================================================
