----------------------------- MODULE BootSlots -----------------------------
(* The two system slots of the boot partition: the loader chooses one at   *)
(* every start (boot/loader, abi/boot), and upd confirms the slot that     *)
(* runs or copies it over the other one (services/upd).  The power fails   *)
(* between any two writes.  upd may run twice at once: devmgr starts one   *)
(* to confirm, whoever updates the system starts another.  The rewrite of  *)
(* one file is a single step here: Fat shows that it is.                   *)
EXTENDS Naturals

CONSTANTS Images,     \* what the build or a test writes on the disk: records st, img
          Good,       \* versions that come up when kernel and initrd are both of it
          MaxFaults   \* faults of the medium and lost writes of the loader

ASSUME SlotFaults == MaxFaults \in Nat

VARIABLES st,         \* slots.bin: slot, last (last_selected)
          img,        \* kernel.elf and initrd of each slot
          up,         \* what runs: OFF, a slot or RECOVERY
          upd,        \* the "aplica" in progress: at, st (as read), from
          confirmed,  \* history: the system that runs was confirmed
          boots,      \* history: starts of a slot since it became pending
          odd,        \* history: what happened that the scheme does not cover
          faults

slotVars == <<st, img, up, upd, confirmed, boots, odd, faults>>

SLOT == {0, 1}
TRIES_RESET == 3
\* A kernel file that is no ELF, and an initrd nothing can start from.
TORN == 0

\* What runs besides a slot.
OFF == 2
RECOVERY == 3

Blank == [slot |-> [i \in SLOT |-> [priority |-> 0, tries |-> 0, successful |-> 0]], last |-> 0]

Resting == [at |-> "rest", st |-> Blank, from |-> 0]

eligible(s, i) == s.slot[i].successful = 1 \/ s.slot[i].tries > 0

\* The eligible slot of the highest priority, A when they are equal; the set
\* is empty if there is none.
choose(s) ==
    {i \in SLOT :
        /\ eligible(s, i)
        /\ \A j \in SLOT \ {i} : eligible(s, j) =>
               \/ s.slot[i].priority > s.slot[j].priority
               \/ s.slot[i].priority = s.slot[j].priority /\ i < j}

Whole(i) == img[i].kernel = img[i].initrd /\ img[i].kernel # TORN

\* A slot from which the system gets as far as the health check.
Healthy(i) == Whole(i) /\ img[i].kernel \in Good

Runs == up = RECOVERY \/ (up \in SLOT /\ Healthy(up))

\* A slot that is not confirmed and has attempts left.
OnTrial(s, i) == s.slot[i].successful = 0 /\ s.slot[i].tries > 0

\* Disks as the build and the tests write them (versions are numbers): every
\* kernel is an ELF file, a slot that is confirmed comes up, the one to be
\* started is of one version unless its initrd is spoilt, and so is a slot on
\* trial, which has the higher priority and no more attempts than upd gives.
ASSUME SlotImagesWritten ==
    \A d \in Images :
        /\ d.st \in [slot : [SLOT -> [priority : Nat, tries : Nat, successful : {0, 1}]], last : SLOT]
        /\ d.img \in [SLOT -> [kernel : Nat \ {TORN}, initrd : Nat]]
        /\ \E i \in SLOT : /\ d.st.slot[i].successful = 1
                          /\ d.img[i].kernel = d.img[i].initrd /\ d.img[i].kernel \in Good
        /\ \A i \in SLOT : i \in choose(d.st) \/ OnTrial(d.st, i) =>
               d.img[i].kernel = d.img[i].initrd \/ d.img[i].initrd = TORN
        /\ \A i \in SLOT : OnTrial(d.st, i) =>
               /\ d.st.slot[i].priority > d.st.slot[1 - i].priority
               /\ d.st.slot[i].tries <= TRIES_RESET

SlotsInit ==
    /\ \E d \in Images : st = d.st /\ img = d.img
    /\ up = OFF /\ upd = Resting
    /\ confirmed = FALSE /\ odd = {} /\ faults = 0
    /\ boots = [i \in SLOT |-> 0]

----------------------------------------------------------------------------
(* The loader. *)

\* load_system goes through the chosen slot and the other one and takes the
\* first that is eligible and whose kernel is an ELF file.
Loadable(s) ==
    LET usable == {i \in SLOT : eligible(s, i) /\ img[i].kernel # TORN}
    IN  IF choose(s) \cap usable # {} THEN choose(s) ELSE usable

Counted(s, i) ==
    [s EXCEPT !.last = i,
              !.slot[i].tries = IF s.slot[i].successful = 0 THEN @ - 1 ELSE @]

\* The new state is written before the slot starts; when the write fails the
\* loader says so and goes on.
LoadSlot ==
    /\ up = OFF
    /\ \E i \in Loadable(st) :
          /\ up' = i
          /\ boots' = [boots EXCEPT ![i] = @ + 1 - st.slot[i].successful]
          /\ \/ st' = Counted(st, i) /\ UNCHANGED <<odd, faults>>
             \/ /\ faults < MaxFaults /\ faults' = faults + 1
                /\ odd' = odd \cup {"lost write"} /\ UNCHANGED st
    /\ confirmed' = FALSE
    /\ UNCHANGED <<img, upd>>

load_recovery ==
    /\ up = OFF /\ Loadable(st) = {}
    /\ up' = RECOVERY /\ confirmed' = FALSE
    /\ UNCHANGED <<st, img, upd, boots, odd, faults>>

----------------------------------------------------------------------------
(* upd.  last_selected stands for the slot that runs, whatever runs. *)

Confirmed(s) ==
    LET sel == s.last  other == 1 - s.last
    IN  [s EXCEPT !.slot = [i \in SLOT |->
            IF i = sel THEN [priority |-> 2, tries |-> TRIES_RESET, successful |-> 1]
            ELSE IF s.slot[other].successful = 1 THEN [s.slot[other] EXCEPT !.priority = 1]
            ELSE s.slot[other]]]

\* "confirma": from devmgr at every start, while another upd may be copying.
Confirm ==
    /\ Runs
    /\ st' = Confirmed(st) /\ confirmed' = TRUE
    /\ boots' = [boots EXCEPT ![st.last] = 0]
    /\ odd' = odd \cup (IF up = st.last THEN {} ELSE {"not the one that runs"})
    /\ UNCHANGED <<img, up, upd, faults>>

Pending(s, to) ==
    [s EXCEPT !.slot[to] = [priority |-> 3, tries |-> TRIES_RESET, successful |-> 0]]

\* "aplica" reads the state once, copies the two files of the slot that runs
\* and then writes the state it read, the other slot made pending.
ApplyUpdate ==
    /\ Runs /\ upd.at = "rest"
    /\ upd' = [at |-> "kernel", st |-> st, from |-> st.last]
    /\ odd' = odd \cup (IF confirmed THEN {} ELSE {"unconfirmed"})
    /\ UNCHANGED <<st, img, up, confirmed, boots, faults>>

CopyKernel ==
    /\ upd.at = "kernel"
    /\ img' = [img EXCEPT ![1 - upd.from].kernel = img[upd.from].kernel]
    /\ upd' = [upd EXCEPT !.at = "initrd"]
    /\ UNCHANGED <<st, up, confirmed, boots, odd, faults>>

CopyInitrd ==
    /\ upd.at = "initrd"
    /\ img' = [img EXCEPT ![1 - upd.from].initrd = img[upd.from].initrd]
    /\ upd' = [upd EXCEPT !.at = "mark"]
    /\ UNCHANGED <<st, up, confirmed, boots, odd, faults>>

\* Mutant: pending as soon as the copy of the kernel is done.
copy_slot_marked ==
    \/ /\ upd.at = "initrd" /\ st' = Pending(upd.st, 1 - upd.from)
       /\ upd' = [upd EXCEPT !.at = "last"] /\ UNCHANGED <<img, up, confirmed, boots, odd, faults>>
    \/ /\ upd.at = "last"
       /\ img' = [img EXCEPT ![1 - upd.from].initrd = img[upd.from].initrd]
       /\ upd' = Resting /\ UNCHANGED <<st, up, confirmed, boots, odd, faults>>
    \/ CopyKernel

copy_slot == CopyKernel \/ CopyInitrd

MarkPending ==
    /\ upd.at = "mark"
    /\ st' = Pending(upd.st, 1 - upd.from)
    /\ boots' = [boots EXCEPT ![1 - upd.from] = 0]
    /\ upd' = Resting
    /\ UNCHANGED <<img, up, confirmed, odd, faults>>

\* A read or a write of the disk failed: "erro copia", "erro escrita".
ApplyFails ==
    /\ upd.at # "rest"
    /\ upd' = Resting
    /\ UNCHANGED <<st, img, up, confirmed, boots, odd, faults>>

----------------------------------------------------------------------------
(* The surroundings. *)

\* The power fails, or the system hangs and is switched off.
SwitchOff ==
    /\ up # OFF
    /\ up' = OFF /\ upd' = Resting
    /\ UNCHANGED <<st, img, confirmed, boots, odd, faults>>

MediumFault ==
    /\ faults < MaxFaults
    /\ \E i \in SLOT : img' = [img EXCEPT ![i].kernel = TORN]
    /\ faults' = faults + 1 /\ odd' = odd \cup {"medium"}
    /\ UNCHANGED <<st, up, upd, confirmed, boots>>

SlotsNext ==
    \/ LoadSlot \/ load_recovery \/ Confirm \/ ApplyUpdate \/ copy_slot \/ MarkPending \/ ApplyFails
    \/ SwitchOff \/ MediumFault

SlotsSpec == SlotsInit /\ [][SlotsNext]_slotVars
----------------------------------------------------------------------------
(* Properties. *)

\* As long as upd confirms the slot that runs, before it copies it, and the
\* disk keeps what is written: a confirmed slot that comes up is always
\* there, what the loader would start next is kernel and initrd of one
\* version unless it was written so, a pending slot gets no more starts than
\* its attempts, and nobody ends up in the recovery system.
RollbackKept ==
    odd = {} =>
        /\ \E i \in SLOT : st.slot[i].successful = 1 /\ Healthy(i)
        /\ \A i \in choose(st) : Whole(i) \/ img[i].initrd = TORN
        /\ \A i \in SLOT : st.slot[i].successful = 0 => boots[i] <= TRIES_RESET
        /\ up # RECOVERY

\* "marca o slot arrancado (`last_selected`)": whoever is confirmed is who
\* runs.  Not so in the recovery system, nor after a lost write.
ConfirmsRunning == "not the one that runs" \notin odd

\* A slot that is marked as confirmed is of one version.  Not so after a cut
\* between the two files: the mark falls only at the end of the copy.
ConfirmedWhole == odd = {} => \A i \in SLOT : st.slot[i].successful = 1 => Whole(i)
=============================================================================
