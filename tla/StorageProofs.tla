--------------------------- MODULE StorageProofs ---------------------------
(***************************************************************************)
(* What survives a power failure, for every set of images, packages, files *)
(* and versions: the slots the system starts from and the versions of an   *)
(* application.                                                            *)
(***************************************************************************)
EXTENDS BootSlots, AppInst, TLAPS

-----------------------------------------------------------------------------
(* The slots of the system.                                                *)

SlotTypes ==
    /\ st \in [slot : [SLOT -> [priority : Nat, tries : Nat, successful : {0, 1}]], last : SLOT]
    /\ img \in [SLOT -> [kernel : Nat, initrd : Nat]]
    /\ up \in SLOT \cup {OFF, RECOVERY}
    /\ boots \in [SLOT -> Nat]
    /\ confirmed \in BOOLEAN
    /\ upd \in [at : {"rest", "kernel", "initrd", "mark"}, from : SLOT,
               st : [slot : [SLOT -> [priority : Nat, tries : Nat, successful : {0, 1}]], last : SLOT]]

\* The scheme, as long as nothing odd happened.  A trial in progress beside the
\* slot that runs is of that slot's own files, for upd copied them.
SlotScheme ==
    /\ \A i \in SLOT : img[i].kernel # TORN
    /\ \E i \in SLOT : st.slot[i].successful = 1 /\ Healthy(i)
    /\ \A i \in SLOT : i \in choose(st) \/ OnTrial(st, i) => Whole(i) \/ img[i].initrd = TORN
    /\ \A i \in SLOT : OnTrial(st, i) => st.slot[i].priority > st.slot[1 - i].priority
    /\ \A i \in SLOT : st.slot[i].successful = 0 => boots[i] + st.slot[i].tries <= TRIES_RESET
    /\ up # RECOVERY
    /\ up \in SLOT =>
          /\ st.last = up
          /\ OnTrial(st, 1 - up) => img[1 - up] = img[up] /\ st.slot[1 - up].priority = 3

\* The slot that runs, once confirmed, and the copy of it.
SlotConfirmed ==
    up \in SLOT /\ confirmed =>
        /\ st.slot[up] = [priority |-> 2, tries |-> TRIES_RESET, successful |-> 1]
        /\ st.slot[1 - up].successful = 1 => st.slot[1 - up].priority = 1
        /\ Healthy(up)

SlotCopy ==
    upd.at # "rest" =>
        /\ up \in SLOT /\ confirmed /\ upd.from = up /\ upd.st = st
        /\ upd.at \in {"initrd", "mark"} => img[1 - up].kernel = img[up].kernel
        /\ upd.at = "mark" => img[1 - up].initrd = img[up].initrd

SlotInv == SlotTypes /\ (odd = {} => SlotScheme /\ SlotConfirmed /\ SlotCopy)

\* There are two slots.
LEMMA TwoSlots ==
    \A i \in SLOT : /\ 1 - i \in SLOT /\ 1 - i # i /\ 1 - (1 - i) = i
                    /\ \A j \in SLOT : j # i => j = 1 - i
BY DEF SLOT

\* While some slot is eligible the loader has a choice.
LEMMA SomeChoice ==
    ASSUME SlotTypes, NEW i \in SLOT, eligible(st, i)
    PROVE  choose(st) # {}
<1>1. \A j \in SLOT : st.slot[j].priority \in Nat
  BY DEF SlotTypes
<1>2. ~ eligible(st, 1 - i) => i \in choose(st)
  BY TwoSlots DEF choose
<1>3. eligible(st, 1 - i) => i \in choose(st) \/ 1 - i \in choose(st)
  BY <1>1, TwoSlots DEF choose, SLOT
<1> QED
  BY <1>2, <1>3

\* The loader's start of a slot.
LEMMA LoadKeeps ==
    ASSUME SlotInv, LoadSlot
    PROVE  SlotInv'
<1>1. PICK i \in Loadable(st) :
        /\ up' = i /\ boots' = [boots EXCEPT ![i] = @ + 1 - st.slot[i].successful]
        /\ \/ st' = Counted(st, i) /\ UNCHANGED odd
           \/ odd' # {} /\ UNCHANGED st
        /\ confirmed' = FALSE /\ UNCHANGED <<img, upd>> /\ up = OFF
  BY Zenon DEF LoadSlot
<1>2. SlotTypes /\ i \in SLOT /\ eligible(st, i)
  BY DEF SlotInv, Loadable, choose
<1>3. /\ \A j \in SLOT : /\ st.slot[j].priority \in Nat /\ st.slot[j].tries \in Nat
                         /\ st.slot[j].successful \in {0, 1} /\ boots[j] \in Nat
      /\ st.slot[i].successful = 0 => st.slot[i].tries > 0
      /\ boots \in [SLOT -> Nat]
  BY <1>2 DEF SlotTypes, eligible
<1>4. st' = Counted(st, i) =>
        /\ st' \in [slot : [SLOT -> [priority : Nat, tries : Nat, successful : {0, 1}]], last : SLOT]
        /\ st'.last = i
        /\ \A j \in SLOT : /\ st'.slot[j].priority = st.slot[j].priority
                           /\ st'.slot[j].successful = st.slot[j].successful
                           /\ j # i \/ st.slot[j].successful = 1 => st'.slot[j].tries = st.slot[j].tries
        /\ st.slot[i].successful = 0 => st'.slot[i].tries = st.slot[i].tries - 1
  <2> DEFINE r == [st.slot[i] EXCEPT !.tries = IF st.slot[i].successful = 0 THEN @ - 1 ELSE @]
  <2>1. Counted(st, i) = [st EXCEPT !.last = i, !.slot = [st.slot EXCEPT ![i] = r]]
    BY <1>2 DEF Counted, SlotTypes
  <2>2. r \in [priority : Nat, tries : Nat, successful : {0, 1}]
    BY <1>2, <1>3 DEF SlotTypes
  <2>3. /\ r.priority = st.slot[i].priority /\ r.successful = st.slot[i].successful
        /\ r.tries = IF st.slot[i].successful = 0 THEN st.slot[i].tries - 1 ELSE st.slot[i].tries
    BY <1>2 DEF SlotTypes
  <2> DEFINE f == [st.slot EXCEPT ![i] = r]
  <2> HIDE DEF r
  <2>4. /\ f \in [SLOT -> [priority : Nat, tries : Nat, successful : {0, 1}]] /\ f[i] = r
        /\ \A j \in SLOT : j # i => f[j] = st.slot[j]
    BY <1>2, <2>2 DEF SlotTypes
  <2> HIDE DEF f
  <2>5. Counted(st, i) = [slot |-> f, last |-> i]
    BY <1>2, <2>1, Zenon DEF SlotTypes, f
  <2>6. SUFFICES ASSUME st' = [slot |-> f, last |-> i]
                 PROVE  /\ st' \in [slot : [SLOT -> [priority : Nat, tries : Nat, successful : {0, 1}]], last : SLOT]
                        /\ st'.last = i
                        /\ \A j \in SLOT :
                              /\ st'.slot[j].priority = st.slot[j].priority
                              /\ st'.slot[j].successful = st.slot[j].successful
                              /\ j # i \/ st.slot[j].successful = 1 => st'.slot[j].tries = st.slot[j].tries
                        /\ st.slot[i].successful = 0 => st'.slot[i].tries = st.slot[i].tries - 1
    BY <2>5
  <2>7. st'.slot = f /\ st'.last = i
    BY <2>6
  <2>8. st' \in [slot : [SLOT -> [priority : Nat, tries : Nat, successful : {0, 1}]], last : SLOT]
    BY <1>2, <2>4, <2>6
  <2> QED
    BY <1>2, <2>3, <2>4, <2>7, <2>8
<1>5. boots'[i] = boots[i] + 1 - st.slot[i].successful /\ boots' \in [SLOT -> Nat]
      /\ \A j \in SLOT \ {i} : boots'[j] = boots[j]
  BY <1>1, <1>2, <1>3
<1>6. SlotTypes'
  <2>1. st' \in [slot : [SLOT -> [priority : Nat, tries : Nat, successful : {0, 1}]], last : SLOT]
    BY <1>1, <1>2, <1>4 DEF SlotTypes
  <2> QED
    BY <1>1, <1>2, <1>5, <2>1, Zenon DEF SlotTypes
<1>7. ASSUME odd' = {}
      PROVE  SlotScheme' /\ SlotConfirmed' /\ SlotCopy'
  <2>1. odd = {} /\ st' = Counted(st, i)
    BY <1>1, <1>7
  <2>2. SlotScheme /\ SlotCopy
    BY <2>1 DEF SlotInv
  <2>3. i \in choose(st)
    <3>1. PICK j \in SLOT : st.slot[j].successful = 1
      BY <2>2 DEF SlotScheme
    <3>2. choose(st) # {}
      BY <1>2, <3>1, SomeChoice DEF eligible
    <3>3. choose(st) \subseteq {k \in SLOT : eligible(st, k) /\ img[k].kernel # TORN}
      BY <2>2 DEF SlotScheme, choose
    <3> QED
      BY <1>1, <3>2, <3>3 DEF Loadable
  <2>4. \A j \in SLOT : OnTrial(st, j)' => OnTrial(st, j)
    BY <1>3, <1>4, <2>1 DEF OnTrial
  <2>5. \A j \in SLOT : Whole(j)' = Whole(j) /\ Healthy(j)' = Healthy(j)
    BY <1>1 DEF Whole, Healthy
  <2>6. ~ OnTrial(st, 1 - i)
    <3>1. SUFFICES ASSUME OnTrial(st, 1 - i) PROVE FALSE
      OBVIOUS
    <3>2. eligible(st, 1 - i) /\ st.slot[1 - i].priority > st.slot[i].priority
      BY <1>2, <2>2, <3>1, TwoSlots DEF SlotScheme, OnTrial, eligible
    <3> QED
      BY <1>2, <1>3, <2>3, <3>2, TwoSlots DEF choose
  <2>7. ASSUME NEW j \in SLOT, j \in choose(st)'
        PROVE  Whole(j) \/ img[j].initrd = TORN
    <3>1. CASE st.slot[i].successful = 1
      <4>1. \A k \in SLOT : /\ st'.slot[k].priority = st.slot[k].priority
                            /\ eligible(st, k)' = eligible(st, k)
        BY <1>4, <2>1, <3>1 DEF eligible
      <4>2. j \in choose(st)
        BY <2>7, <4>1 DEF choose
      <4> QED
        BY <2>2, <4>2 DEF SlotScheme
    <3>2. CASE j = i
      BY <2>2, <2>3, <3>2 DEF SlotScheme
    <3>3. CASE j # i /\ st.slot[i].successful # 1
      <4>1. Healthy(j)
        BY <1>2, <2>2, <3>3, TwoSlots DEF SlotScheme
      <4> QED
        BY <4>1 DEF Healthy
    <3> QED
      BY <3>1, <3>2, <3>3
  <2>8. SlotScheme'
    <3>1. \A j \in SLOT : j \in choose(st)' \/ OnTrial(st, j)' => Whole(j)' \/ img'[j].initrd = TORN
      BY <1>1, <2>2, <2>4, <2>5, <2>7 DEF SlotScheme
    <3>2. \A j \in SLOT : OnTrial(st, j)' => st'.slot[j].priority > st'.slot[1 - j].priority
      BY <1>4, <2>1, <2>2, <2>4, TwoSlots DEF SlotScheme
    <3>3. \A j \in SLOT : st'.slot[j].successful = 0 => boots'[j] + st'.slot[j].tries <= TRIES_RESET
      <4> SUFFICES ASSUME NEW j \in SLOT, st'.slot[j].successful = 0
                   PROVE  boots'[j] + st'.slot[j].tries <= TRIES_RESET
        OBVIOUS
      <4>1. boots[j] + st.slot[j].tries <= TRIES_RESET /\ st.slot[j].successful = 0
        BY <1>4, <2>1, <2>2 DEF SlotScheme
      <4>2. CASE j = i
        BY <1>3, <1>4, <1>5, <2>1, <4>1, <4>2 DEF TRIES_RESET
      <4>3. CASE j # i
        BY <1>4, <1>5, <2>1, <4>1, <4>3
      <4> QED
        BY <4>2, <4>3
    <3>4. \E j \in SLOT : st'.slot[j].successful = 1 /\ Healthy(j)'
      BY <1>4, <2>1, <2>2, <2>5 DEF SlotScheme
    <3>5. \A j \in SLOT : img'[j].kernel # TORN
      BY <1>1, <2>2 DEF SlotScheme
    <3>6. up' # RECOVERY /\ st'.last = up' /\ ~ OnTrial(st, 1 - up)'
      BY <1>1, <1>2, <1>4, <2>1, <2>4, <2>6, TwoSlots DEF RECOVERY, SLOT
    <3> QED
      BY <3>1, <3>2, <3>3, <3>4, <3>5, <3>6 DEF SlotScheme
  <2>9. SlotConfirmed'
    BY <1>1 DEF SlotConfirmed
  <2>10. SlotCopy'
    BY <1>1, <2>2 DEF SlotCopy, OFF, SLOT
  <2> QED
    BY <2>8, <2>9, <2>10
<1> QED
  BY <1>6, <1>7 DEF SlotInv

\* upd confirms the slot that runs.
LEMMA ConfirmKeeps ==
    ASSUME SlotInv, Confirm
    PROVE  SlotInv'
<1> DEFINE f == Confirmed(st).slot
<1>0. PICK i \in SLOT : i = st.last
  BY DEF SlotInv, SlotTypes
<1>1. /\ Runs /\ confirmed' = TRUE /\ boots' = [boots EXCEPT ![i] = 0]
      /\ up # i => odd' # {}
      /\ odd' = {} => odd = {}
      /\ UNCHANGED <<img, up, upd>>
  BY <1>0, Zenon DEF Confirm
<1>2. SlotTypes /\ i \in SLOT
  BY DEF SlotInv
<1>3. /\ \A j \in SLOT : /\ st.slot[j].priority \in Nat /\ st.slot[j].tries \in Nat
                         /\ st.slot[j].successful \in {0, 1}
                         /\ st.slot[j] \in [priority : Nat, tries : Nat, successful : {0, 1}]
      /\ boots \in [SLOT -> Nat]
  BY <1>2 DEF SlotTypes
<1>4. st' = [slot |-> f, last |-> i] /\ f = [j \in SLOT |->
            IF j = i THEN [priority |-> 2, tries |-> TRIES_RESET, successful |-> 1]
            ELSE IF st.slot[1 - i].successful = 1 THEN [st.slot[1 - i] EXCEPT !.priority = 1]
            ELSE st.slot[1 - i]]
  BY <1>0, <1>2, Zenon DEF Confirm, Confirmed, SlotTypes
<1> HIDE DEF f
<1>5. /\ f[i] = [priority |-> 2, tries |-> TRIES_RESET, successful |-> 1]
      /\ f[1 - i] = IF st.slot[1 - i].successful = 1 THEN [st.slot[1 - i] EXCEPT !.priority = 1]
                    ELSE st.slot[1 - i]
  BY <1>2, <1>4, TwoSlots
<1>6. /\ f[1 - i].successful = st.slot[1 - i].successful /\ f[1 - i].tries = st.slot[1 - i].tries
      /\ f[1 - i].priority = IF st.slot[1 - i].successful = 1 THEN 1 ELSE st.slot[1 - i].priority
      /\ f[1 - i] \in [priority : Nat, tries : Nat, successful : {0, 1}]
  BY <1>2, <1>3, <1>5, TwoSlots
<1>7. f[i].successful = 1 /\ f[i].priority = 2
      /\ f[i] \in [priority : Nat, tries : Nat, successful : {0, 1}]
  BY <1>5 DEF TRIES_RESET
<1>8. f \in [SLOT -> [priority : Nat, tries : Nat, successful : {0, 1}]]
  <2>1. \A j \in SLOT : f[j] \in [priority : Nat, tries : Nat, successful : {0, 1}]
    BY <1>2, <1>6, <1>7, TwoSlots
  <2> QED
    BY <1>4, <2>1
<1>9. st'.slot = f /\ st'.last = i
  BY <1>4
<1>10. /\ boots' \in [SLOT -> Nat] /\ boots'[1 - i] = boots[1 - i]
  BY <1>1, <1>2, <1>3, TwoSlots
<1>11. SlotTypes'
  BY <1>1, <1>2, <1>4, <1>8, <1>10, Zenon DEF SlotTypes
<1>12. ASSUME odd' = {}
       PROVE  SlotScheme' /\ SlotConfirmed' /\ SlotCopy'
  <2>1. odd = {} /\ up = i
    BY <1>1, <1>12
  <2>2. SlotScheme /\ SlotConfirmed /\ SlotCopy
    BY <2>1 DEF SlotInv
  <2>3. Healthy(i) /\ \A j \in SLOT : Whole(j)' = Whole(j) /\ Healthy(j)' = Healthy(j)
    BY <1>1, <1>2, <2>1 DEF Runs, Whole, Healthy, RECOVERY, SLOT
  <2>4. ~ OnTrial(st, i)' /\ (OnTrial(st, 1 - i)' => OnTrial(st, 1 - i))
    BY <1>6, <1>7, <1>9 DEF OnTrial
  <2>5. OnTrial(st, 1 - i) => img[1 - i] = img[i] /\ st.slot[1 - i].priority = 3
    BY <1>2, <2>1, <2>2 DEF SlotScheme
  <2>6. Whole(i) /\ (OnTrial(st, 1 - i) => Whole(1 - i))
    BY <2>3, <2>5 DEF Healthy, Whole
  <2>7. 1 - i \in choose(st)' => OnTrial(st, 1 - i)
    <3>1. eligible(st, i)'
      BY <1>7, <1>9 DEF eligible
    <3>2. 1 - i \in choose(st)' => f[1 - i].priority >= 2 /\ eligible(st, 1 - i)'
      BY <1>2, <1>6, <1>7, <1>9, <3>1, TwoSlots DEF choose
    <3> QED
      BY <1>2, <1>3, <1>6, <1>9, <3>2, TwoSlots DEF eligible, OnTrial
  <2>8. SlotScheme'
    <3>1. \A j \in SLOT : j \in choose(st)' \/ OnTrial(st, j)' => Whole(j)' \/ img'[j].initrd = TORN
      BY <1>2, <2>3, <2>4, <2>6, <2>7, TwoSlots
    <3>2. \A j \in SLOT : OnTrial(st, j)' => st'.slot[j].priority > st'.slot[1 - j].priority
      <4>1. OnTrial(st, 1 - i) => st'.slot[1 - i].priority = 3
        BY <1>6, <1>9, <2>5 DEF OnTrial
      <4> QED
        BY <1>2, <1>7, <1>9, <2>4, <4>1, TwoSlots
    <3>3. \A j \in SLOT : st'.slot[j].successful = 0 => boots'[j] + st'.slot[j].tries <= TRIES_RESET
      <4>1. st'.slot[1 - i].successful = 0 => boots'[1 - i] + st'.slot[1 - i].tries <= TRIES_RESET
        BY <1>2, <1>6, <1>9, <1>10, <2>2, TwoSlots, Zenon DEF SlotScheme
      <4> QED
        BY <1>2, <1>7, <1>9, <4>1, TwoSlots
    <3>4. \E j \in SLOT : st'.slot[j].successful = 1 /\ Healthy(j)'
      BY <1>2, <1>7, <1>9, <2>3
    <3>5. \A j \in SLOT : img'[j].kernel # TORN
      BY <1>1, <2>2 DEF SlotScheme
    <3>6. up' # RECOVERY /\ st'.last = up'
      BY <1>1, <1>9, <2>1, <2>2 DEF SlotScheme
    <3>7. OnTrial(st, 1 - up)' => img'[1 - up'] = img'[up'] /\ st'.slot[1 - up'].priority = 3
      BY <1>1, <1>6, <1>9, <2>1, <2>4, <2>5 DEF OnTrial
    <3> QED
      BY <3>1, <3>2, <3>3, <3>4, <3>5, <3>6, <3>7 DEF SlotScheme
  <2>9. SlotConfirmed'
    BY <1>1, <1>2, <1>5, <1>6, <1>9, <2>1, <2>3 DEF SlotConfirmed
  <2>10. ASSUME upd.at # "rest" PROVE st' = st
    <3>1. confirmed /\ up \in SLOT
      BY <2>2, <2>10 DEF SlotCopy
    <3>2. /\ st.slot[i] = [priority |-> 2, tries |-> TRIES_RESET, successful |-> 1]
          /\ st.slot[1 - i].successful = 1 => st.slot[1 - i].priority = 1
      BY <2>1, <2>2, <3>1 DEF SlotConfirmed
    <3>3. f[1 - i] = st.slot[1 - i]
      BY <1>2, <1>3, <1>5, <3>2, TwoSlots
    <3>4. \A j \in SLOT : f[j] = st.slot[j]
      BY <1>2, <1>5, <3>2, <3>3, TwoSlots
    <3>5. f = st.slot
      BY <1>2, <1>8, <3>4 DEF SlotTypes
    <3> QED
      BY <1>0, <1>2, <1>4, <3>5 DEF SlotTypes
  <2>11. SlotCopy'
    BY <1>1, <2>2, <2>10 DEF SlotCopy
  <2> QED
    BY <2>8, <2>9, <2>11
<1> QED
  BY <1>11, <1>12 DEF SlotInv

\* The copy of the slot that runs over the other one, file by file.
LEMMA CopyKeeps ==
    ASSUME SlotInv, copy_slot
    PROVE  SlotInv'
<1>1. UNCHANGED <<st, up, confirmed, boots, odd>>
  BY DEF copy_slot, CopyKernel, CopyInitrd
<1>2. /\ SlotTypes /\ upd.from \in SLOT /\ 1 - upd.from \in SLOT /\ upd.at # "rest"
      /\ \A j \in SLOT : img[j] \in [kernel : Nat, initrd : Nat]
  BY TwoSlots DEF SlotInv, SlotTypes, copy_slot, CopyKernel, CopyInitrd
<1>3. PICK r \in [kernel : Nat, initrd : Nat], b \in {"initrd", "mark"} :
        /\ img' = [img EXCEPT ![1 - upd.from] = r] /\ upd' = [upd EXCEPT !.at = b]
        /\ b = "initrd" => r.kernel = img[upd.from].kernel /\ r.initrd = img[1 - upd.from].initrd
        /\ b = "mark" => /\ r.initrd = img[upd.from].initrd /\ r.kernel = img[1 - upd.from].kernel
                         /\ upd.at = "initrd"
  <2>1. CASE CopyKernel
    <3> DEFINE r == [img[1 - upd.from] EXCEPT !.kernel = img[upd.from].kernel]
    <3>1. /\ r \in [kernel : Nat, initrd : Nat] /\ r.kernel = img[upd.from].kernel
          /\ r.initrd = img[1 - upd.from].initrd
      BY <1>2
    <3>2. img' = [img EXCEPT ![1 - upd.from] = r] /\ upd' = [upd EXCEPT !.at = "initrd"]
      BY <2>1 DEF CopyKernel
    <3> QED
      BY <3>1, <3>2, Zenon
  <2>2. CASE CopyInitrd
    <3> DEFINE r == [img[1 - upd.from] EXCEPT !.initrd = img[upd.from].initrd]
    <3>1. /\ r \in [kernel : Nat, initrd : Nat] /\ r.initrd = img[upd.from].initrd
          /\ r.kernel = img[1 - upd.from].kernel
      BY <1>2
    <3>2. /\ img' = [img EXCEPT ![1 - upd.from] = r] /\ upd' = [upd EXCEPT !.at = "mark"]
          /\ upd.at = "initrd"
      BY <2>2 DEF CopyInitrd
    <3> QED
      BY <3>1, <3>2, Zenon
  <2> QED
    BY <2>1, <2>2 DEF copy_slot
<1>4. /\ upd'.at = b /\ upd'.from = upd.from /\ upd'.st = upd.st
      /\ img'[1 - upd.from] = r /\ img'[upd.from] = img[upd.from]
  BY <1>2, <1>3, TwoSlots DEF SlotTypes
<1>5. SlotTypes'
  <2>1. /\ img' \in [SLOT -> [kernel : Nat, initrd : Nat]]
        /\ upd' \in [at : {"rest", "kernel", "initrd", "mark"}, from : SLOT,
                     st : [slot : [SLOT -> [priority : Nat, tries : Nat, successful : {0, 1}]], last : SLOT]]
    BY <1>2, <1>3, Zenon DEF SlotTypes
  <2> QED
    BY <1>1, <1>2, <2>1 DEF SlotTypes
<1>6. ASSUME odd' = {}
      PROVE  SlotScheme' /\ SlotConfirmed' /\ SlotCopy'
  <2>1. SlotScheme /\ SlotConfirmed /\ SlotCopy
    BY <1>1, <1>6 DEF SlotInv
  <2>2. /\ up \in SLOT /\ confirmed /\ upd.from = up /\ upd.st = st
        /\ upd.at = "initrd" => img[1 - up].kernel = img[up].kernel
    BY <1>2, <2>1 DEF SlotCopy
  <2>3. /\ st.slot[up] = [priority |-> 2, tries |-> TRIES_RESET, successful |-> 1]
        /\ st.slot[1 - up].successful = 1 => st.slot[1 - up].priority = 1
        /\ Healthy(up)
    BY <2>1, <2>2 DEF SlotConfirmed
  <2>4. r.kernel = img[up].kernel /\ (b = "mark" => r.initrd = img[up].initrd)
    BY <1>3, <2>2
  <2>5. Healthy(up)' /\ Whole(up)' /\ img'[1 - up].kernel # TORN
    BY <1>1, <1>4, <2>2, <2>3, <2>4 DEF Healthy, Whole
  <2>6. OnTrial(st, 1 - up) => img'[1 - up] = img[up]
    <3>1. OnTrial(st, 1 - up) => img[1 - up] = img[up]
      BY <2>1, <2>2 DEF SlotScheme
    <3>2. OnTrial(st, 1 - up) => r.kernel = img[up].kernel /\ r.initrd = img[up].initrd
      BY <1>3, <2>2, <3>1
    <3>3. \A x, y \in [kernel : Nat, initrd : Nat] :
             x.kernel = y.kernel /\ x.initrd = y.initrd => x = y
      OBVIOUS
    <3> QED
      BY <1>2, <1>4, <2>2, <3>2, <3>3
  <2>7. 1 - up \in choose(st) => OnTrial(st, 1 - up)
    <3>1. eligible(st, up) /\ st.slot[up].priority = 2
      BY <2>3 DEF eligible
    <3>2. 1 - up \in choose(st) => st.slot[1 - up].priority >= 2 /\ eligible(st, 1 - up)
      BY <1>2, <2>2, <3>1, TwoSlots DEF choose, SlotTypes
    <3>3. st.slot[1 - up].successful \in {0, 1}
      BY <1>2, <2>2, TwoSlots DEF SlotTypes
    <3> QED
      BY <2>3, <3>2, <3>3 DEF eligible, OnTrial
  <2>8. OnTrial(st, 1 - up) => Whole(1 - up)'
    BY <1>1, <1>4, <2>2, <2>5, <2>6 DEF Whole
  <2>9. SlotScheme'
    <3>1. \A j \in SLOT : j \in choose(st)' \/ OnTrial(st, j)' => Whole(j)' \/ img'[j].initrd = TORN
      BY <1>1, <2>2, <2>5, <2>7, <2>8, TwoSlots
    <3>2. \A j \in SLOT : OnTrial(st, j)' => st'.slot[j].priority > st'.slot[1 - j].priority
      BY <1>1, <2>1 DEF SlotScheme
    <3>3. \A j \in SLOT : st'.slot[j].successful = 0 => boots'[j] + st'.slot[j].tries <= TRIES_RESET
      BY <1>1, <2>1 DEF SlotScheme
    <3>4. \E j \in SLOT : st'.slot[j].successful = 1 /\ Healthy(j)'
      BY <1>1, <2>2, <2>3, <2>5
    <3>5. \A j \in SLOT : img'[j].kernel # TORN
      BY <1>1, <2>2, <2>5, TwoSlots DEF Whole
    <3>6. up' # RECOVERY /\ st'.last = up'
      BY <1>1, <2>1, <2>2 DEF SlotScheme
    <3>7. OnTrial(st, 1 - up)' => img'[1 - up'] = img'[up'] /\ st'.slot[1 - up'].priority = 3
      BY <1>1, <1>4, <2>1, <2>2, <2>6, Zenon DEF SlotScheme
    <3> QED
      BY <3>1, <3>2, <3>3, <3>4, <3>5, <3>6, <3>7 DEF SlotScheme
  <2>10. SlotConfirmed'
    BY <1>1, <2>3, <2>5 DEF SlotConfirmed
  <2>11. SlotCopy'
    BY <1>1, <1>4, <2>2, <2>4 DEF SlotCopy
  <2> QED
    BY <2>9, <2>10, <2>11
<1> QED
  BY <1>5, <1>6 DEF SlotInv

\* The copy is complete: the other slot is on trial.
LEMMA MarkKeeps ==
    ASSUME SlotInv, MarkPending
    PROVE  SlotInv'
<1>1. /\ upd.at = "mark" /\ st' = Pending(upd.st, 1 - upd.from)
      /\ boots' = [boots EXCEPT ![1 - upd.from] = 0] /\ upd' = Resting
      /\ UNCHANGED <<img, up, confirmed, odd>>
  BY DEF MarkPending
<1>2. PICK i \in SLOT : i = upd.from
  BY DEF SlotInv, SlotTypes
<1>3. SlotTypes /\ 1 - i \in SLOT
  BY <1>2, TwoSlots DEF SlotInv
<1> DEFINE r == [priority |-> 3, tries |-> TRIES_RESET, successful |-> 0]
           f == [upd.st.slot EXCEPT ![1 - i] = r]
<1>4. /\ f \in [SLOT -> [priority : Nat, tries : Nat, successful : {0, 1}]] /\ f[1 - i] = r
      /\ f[i] = upd.st.slot[i]
  BY <1>2, <1>3, TwoSlots DEF SlotTypes, TRIES_RESET
<1>5. st' = [slot |-> f, last |-> upd.st.last] /\ upd.st.last \in SLOT
  BY <1>1, <1>2, <1>3, Zenon DEF Pending, SlotTypes
<1>6. r.priority = 3 /\ r.tries = TRIES_RESET /\ r.successful = 0
  OBVIOUS
<1> HIDE DEF r, f
<1>7. /\ st'.slot = f /\ st'.last = upd.st.last
      /\ st' \in [slot : [SLOT -> [priority : Nat, tries : Nat, successful : {0, 1}]], last : SLOT]
  BY <1>4, <1>5
<1>8. boots' \in [SLOT -> Nat] /\ boots'[1 - i] = 0 /\ boots'[i] = boots[i]
  BY <1>1, <1>2, <1>3, TwoSlots DEF SlotTypes
<1>9. SlotTypes'
  <2>1. Resting \in [at : {"rest", "kernel", "initrd", "mark"}, from : SLOT,
                     st : [slot : [SLOT -> [priority : Nat, tries : Nat, successful : {0, 1}]], last : SLOT]]
    BY DEF Resting, Blank, SLOT
  <2> QED
    BY <1>1, <1>3, <1>7, <1>8, <2>1 DEF SlotTypes
<1>10. ASSUME odd' = {}
       PROVE  SlotScheme' /\ SlotConfirmed' /\ SlotCopy'
  <2>1. SlotScheme /\ SlotConfirmed /\ SlotCopy
    BY <1>1, <1>10 DEF SlotInv
  <2>2. /\ up = i /\ confirmed /\ upd.st = st /\ st.last = i
        /\ img[1 - i].kernel = img[i].kernel /\ img[1 - i].initrd = img[i].initrd
    BY <1>1, <1>2, <2>1, Zenon DEF SlotCopy, SlotScheme
  <2>3. /\ st.slot[i] = [priority |-> 2, tries |-> TRIES_RESET, successful |-> 1] /\ Healthy(i)
    BY <2>1, <2>2 DEF SlotConfirmed
  <2>4. img[1 - i] = img[i]
    <3>1. \A x, y \in [kernel : Nat, initrd : Nat] :
             x.kernel = y.kernel /\ x.initrd = y.initrd => x = y
      OBVIOUS
    <3>2. img[1 - i] \in [kernel : Nat, initrd : Nat] /\ img[i] \in [kernel : Nat, initrd : Nat]
      BY <1>3 DEF SlotTypes
    <3> QED
      BY <2>2, <3>1, <3>2
  <2>5. /\ Whole(i)' /\ Whole(1 - i)' /\ Healthy(i)'
    BY <1>1, <2>3, <2>4 DEF Healthy, Whole
  <2>6. /\ st'.slot[i].priority = 2 /\ st'.slot[i].successful = 1
        /\ st'.slot[1 - i].priority = 3 /\ st'.slot[1 - i].successful = 0
        /\ st'.slot[1 - i].tries = TRIES_RESET
    BY <1>4, <1>6, <1>7, <2>2, <2>3
  <2>7. ~ OnTrial(st, i)'
    BY <2>6 DEF OnTrial
  <2>8. SlotScheme'
    <3>1. \A j \in SLOT : j \in choose(st)' \/ OnTrial(st, j)' => Whole(j)' \/ img'[j].initrd = TORN
      BY <2>5, TwoSlots
    <3>2. \A j \in SLOT : OnTrial(st, j)' => st'.slot[j].priority > st'.slot[1 - j].priority
      BY <2>6, <2>7, TwoSlots
    <3>3. \A j \in SLOT : st'.slot[j].successful = 0 => boots'[j] + st'.slot[j].tries <= TRIES_RESET
      BY <1>8, <2>6, TwoSlots DEF TRIES_RESET
    <3>4. \E j \in SLOT : st'.slot[j].successful = 1 /\ Healthy(j)'
      BY <2>5, <2>6
    <3>5. \A j \in SLOT : img'[j].kernel # TORN
      BY <1>1, <2>1 DEF SlotScheme
    <3>6. up' # RECOVERY /\ st'.last = up'
      BY <1>1, <1>7, <2>1, <2>2, Zenon DEF SlotScheme
    <3>7. img'[1 - up'] = img'[up'] /\ st'.slot[1 - up'].priority = 3
      BY <1>1, <2>2, <2>4, <2>6, Zenon
    <3> QED
      BY <3>1, <3>2, <3>3, <3>4, <3>5, <3>6, <3>7 DEF SlotScheme
  <2>9. SlotConfirmed'
    BY <1>1, <1>4, <1>7, <2>2, <2>3, <2>5, <2>6 DEF SlotConfirmed
  <2>10. SlotCopy'
    BY <1>1 DEF SlotCopy, Resting
  <2> QED
    BY <2>8, <2>9, <2>10
<1> QED
  BY <1>9, <1>10 DEF SlotInv

\* A step that leaves slots, files and attempts.
LEMMA SlotRest ==
    ASSUME SlotInv, UNCHANGED <<st, img, boots>>, odd' = {} => odd = {},
           \/ UNCHANGED <<up, confirmed, odd>> /\ upd' = Resting
           \/ up' = OFF /\ upd' = Resting /\ UNCHANGED confirmed
           \/ UNCHANGED <<up, upd, confirmed>>
    PROVE  SlotInv'
<1>1. Resting \in [at : {"rest", "kernel", "initrd", "mark"}, from : SLOT,
                   st : [slot : [SLOT -> [priority : Nat, tries : Nat, successful : {0, 1}]], last : SLOT]]
      /\ Resting.at = "rest" /\ OFF \notin SLOT /\ OFF # RECOVERY
  BY DEF Resting, Blank, SLOT, OFF, RECOVERY
<1>2. SlotTypes'
  BY <1>1 DEF SlotInv, SlotTypes
<1>3. ASSUME odd' = {}
      PROVE  SlotScheme' /\ SlotConfirmed' /\ SlotCopy'
  <2>1. SlotScheme /\ SlotConfirmed /\ SlotCopy
    BY <1>3 DEF SlotInv
  <2>2. up' \in {up, OFF}
    OBVIOUS
  <2>3. \A i \in SLOT : Whole(i)' = Whole(i) /\ Healthy(i)' = Healthy(i)
    BY DEF Whole, Healthy
  <2>4. choose(st)' = choose(st)
    BY DEF choose, eligible
  <2>5. SlotScheme'
    BY <1>1, <2>1, <2>2, <2>3, Zenon DEF SlotScheme, OnTrial, choose, eligible
  <2>6. SlotConfirmed'
    BY <1>1, <2>1, <2>2, <2>3, Zenon DEF SlotConfirmed
  <2>7. SlotCopy'
    BY <1>1, <2>1 DEF SlotCopy
  <2> QED
    BY <2>5, <2>6, <2>7
<1> QED
  BY <1>2, <1>3 DEF SlotInv

\* upd begins to copy the slot that runs.
LEMMA ApplyKeeps ==
    ASSUME SlotInv, ApplyUpdate
    PROVE  SlotInv'
<1>1. /\ Runs /\ upd' = [at |-> "kernel", st |-> st, from |-> st.last]
      /\ odd' = {} => odd = {} /\ confirmed
      /\ UNCHANGED <<st, img, up, confirmed, boots>>
  BY DEF ApplyUpdate
<1>2. SlotTypes'
  <2>1. upd' \in [at : {"rest", "kernel", "initrd", "mark"}, from : SLOT,
                  st : [slot : [SLOT -> [priority : Nat, tries : Nat, successful : {0, 1}]], last : SLOT]]
    BY <1>1 DEF SlotInv, SlotTypes
  <2> QED
    BY <1>1, <2>1, Zenon DEF SlotInv, SlotTypes
<1>3. ASSUME odd' = {}
      PROVE  SlotScheme' /\ SlotConfirmed' /\ SlotCopy'
  <2>1. SlotScheme /\ SlotConfirmed
    BY <1>1, <1>3 DEF SlotInv
  <2>2. up \in SLOT /\ st.last = up /\ confirmed
    BY <1>1, <1>3, <2>1, Zenon DEF Runs, SlotScheme
  <2>3. \A i \in SLOT : Whole(i)' = Whole(i) /\ Healthy(i)' = Healthy(i)
    BY <1>1 DEF Whole, Healthy
  <2>4. SlotScheme'
    BY <1>1, <2>1, <2>3, Zenon DEF SlotScheme, OnTrial, choose, eligible
  <2>5. SlotConfirmed'
    BY <1>1, <2>1, <2>3, Zenon DEF SlotConfirmed
  <2>6. SlotCopy'
    BY <1>1, <2>2 DEF SlotCopy
  <2> QED
    BY <2>4, <2>5, <2>6
<1> QED
  BY <1>2, <1>3 DEF SlotInv

\* The loader and upd keep the scheme.
THEOREM SlotInvariant == SlotsSpec => []SlotInv
<1>1. SlotsInit => SlotInv
  <2> SUFFICES ASSUME SlotsInit PROVE SlotInv
    OBVIOUS
  <2>1. PICK d \in Images : st = d.st /\ img = d.img
    BY DEF SlotsInit
  <2>2. /\ up = OFF /\ upd = Resting /\ confirmed = FALSE /\ boots = [i \in SLOT |-> 0]
        /\ OFF \notin SLOT /\ OFF # RECOVERY
    BY DEF SlotsInit, SLOT, OFF, RECOVERY
  <2>3. /\ st \in [slot : [SLOT -> [priority : Nat, tries : Nat, successful : {0, 1}]], last : SLOT]
        /\ img \in [SLOT -> [kernel : Nat \ {TORN}, initrd : Nat]]
    BY <2>1, SlotImagesWritten, Zenon
  <2>4. SlotTypes
    <3>1. Resting \in [at : {"rest", "kernel", "initrd", "mark"}, from : SLOT,
                       st : [slot : [SLOT -> [priority : Nat, tries : Nat, successful : {0, 1}]], last : SLOT]]
      BY DEF Resting, Blank, SLOT
    <3>2. img \in [SLOT -> [kernel : Nat, initrd : Nat]]
      BY <2>3
    <3> QED
      BY <2>2, <2>3, <3>1, <3>2, Zenon DEF SlotTypes
  <2>5. \A i \in SLOT : img[i].kernel # TORN
    BY <2>3
  <2>6. \E i \in SLOT : st.slot[i].successful = 1 /\ Healthy(i)
    BY <2>1, <2>5, SlotImagesWritten, Zenon DEF Healthy, Whole
  <2>7. \A i \in SLOT : i \in choose(st) \/ OnTrial(st, i) => Whole(i) \/ img[i].initrd = TORN
    BY <2>1, <2>5, SlotImagesWritten, Zenon DEF Whole
  <2>8. \A i \in SLOT : OnTrial(st, i) => /\ st.slot[i].priority > st.slot[1 - i].priority
                                          /\ st.slot[i].tries <= TRIES_RESET
    BY <2>1, SlotImagesWritten, Zenon
  <2>9. \A i \in SLOT : st.slot[i].successful = 0 => boots[i] + st.slot[i].tries <= TRIES_RESET
    <3> SUFFICES ASSUME NEW i \in SLOT, st.slot[i].successful = 0
                 PROVE  boots[i] + st.slot[i].tries <= TRIES_RESET
      OBVIOUS
    <3>1. boots[i] = 0 /\ st.slot[i].tries \in Nat
      BY <2>2, <2>3
    <3>2. st.slot[i].tries > 0 => st.slot[i].tries <= TRIES_RESET
      BY <2>8 DEF OnTrial
    <3> QED
      BY <3>1, <3>2 DEF TRIES_RESET
  <2>10. SlotScheme
    BY <2>2, <2>5, <2>6, <2>7, <2>8, <2>9, Zenon DEF SlotScheme
  <2>11. SlotConfirmed /\ SlotCopy
    BY <2>2, Zenon DEF SlotConfirmed, SlotCopy, Resting
  <2> QED
    BY <2>4, <2>10, <2>11 DEF SlotInv
<1>2. SlotInv /\ [SlotsNext]_slotVars => SlotInv'
  <2> SUFFICES ASSUME SlotInv, [SlotsNext]_slotVars PROVE SlotInv'
    OBVIOUS
  <2>1. CASE LoadSlot
    BY <2>1, LoadKeeps
  <2>2. CASE load_recovery
    <3>1. /\ up' = RECOVERY /\ confirmed' = FALSE /\ Loadable(st) = {}
          /\ UNCHANGED <<st, img, upd, boots, odd>>
      BY <2>2 DEF load_recovery
    <3>2. SlotTypes'
      BY <3>1, Zenon DEF SlotInv, SlotTypes
    <3>3. odd # {}
      <4> SUFFICES ASSUME odd = {} PROVE FALSE
        OBVIOUS
      <4>1. PICK i \in SLOT : st.slot[i].successful = 1 /\ img[i].kernel # TORN
        BY Zenon DEF SlotInv, SlotScheme
      <4>2. eligible(st, i)
        BY <4>1 DEF eligible
      <4>3. i \in {j \in SLOT : eligible(st, j) /\ img[j].kernel # TORN}
        BY <4>1, <4>2
      <4> QED
        BY <3>1, <4>3 DEF Loadable
    <3> QED
      BY <3>1, <3>2, <3>3 DEF SlotInv
  <2>3. CASE Confirm
    BY <2>3, ConfirmKeeps
  <2>4. CASE ApplyUpdate
    BY <2>4, ApplyKeeps
  <2>5. CASE copy_slot
    BY <2>5, CopyKeeps
  <2>6. CASE MarkPending
    BY <2>6, MarkKeeps
  <2>7. CASE ApplyFails
    BY <2>7, SlotRest DEF ApplyFails
  <2>8. CASE SwitchOff
    BY <2>8, SlotRest DEF SwitchOff
  <2>9. CASE MediumFault
    <3>1. PICK i \in SLOT : img' = [img EXCEPT ![i].kernel = TORN]
      BY <2>9, Zenon DEF MediumFault
    <3>2. odd' # {} /\ UNCHANGED <<st, up, upd, confirmed, boots>>
      BY <2>9 DEF MediumFault
    <3>3. img' \in [SLOT -> [kernel : Nat, initrd : Nat]]
      <4> DEFINE r == [img[i] EXCEPT !.kernel = TORN]
      <4>1. img' = [img EXCEPT ![i] = r]
        BY <3>1
      <4>2. r \in [kernel : Nat, initrd : Nat]
        BY DEF SlotInv, SlotTypes, TORN
      <4> QED
        BY <4>1, <4>2 DEF SlotInv, SlotTypes
    <3> QED
      BY <3>2, <3>3 DEF SlotInv, SlotTypes
  <2>10. CASE UNCHANGED slotVars
    <3>1. UNCHANGED <<st, img, boots>> /\ UNCHANGED <<up, upd, confirmed>> /\ odd' = odd
      BY <2>10 DEF slotVars
    <3> QED
      BY <3>1, SlotRest
  <2> QED
    BY <2>1, <2>2, <2>3, <2>4, <2>5, <2>6, <2>7, <2>8, <2>9, <2>10 DEF SlotsNext
<1> QED
  BY <1>1, <1>2, PTL DEF SlotsSpec

\* State::choose, load_system and upd: whatever the power does, and whatever
\* versions come up, a system that was confirmed can always be started again.
THEOREM RollbackIsKept == SlotsSpec => []RollbackKept
<1>1. SlotInv => RollbackKept
  <2> SUFFICES ASSUME SlotInv, odd = {} PROVE
                 /\ \E i \in SLOT : st.slot[i].successful = 1 /\ Healthy(i)
                 /\ \A i \in choose(st) : Whole(i) \/ img[i].initrd = TORN
                 /\ \A i \in SLOT : st.slot[i].successful = 0 => boots[i] <= TRIES_RESET
                 /\ up # RECOVERY
    BY Zenon DEF RollbackKept
  <2>1. SlotScheme /\ SlotTypes
    BY DEF SlotInv
  <2>2. \A i \in SLOT : st.slot[i].successful = 0 => boots[i] <= TRIES_RESET
    BY <2>1 DEF SlotScheme, SlotTypes, TRIES_RESET
  <2> QED
    BY <2>1, <2>2, Zenon DEF SlotScheme, choose
<1> QED
  BY <1>1, SlotInvariant, PTL

-----------------------------------------------------------------------------
(* The installer.                                                          *)

FileState == {Absent, Opened} \cup [pkg : Packages, n : Nat \ {0}]
Installing == {"mkdir", "open", "write", "point"}
NamesOf(p) == {MANIFEST, LIST} \cup Range(PkgFiles[p])
Written(v, p, x) == ver[v].file[x] = [pkg |-> p, n |-> PiecesOf(x)]

InstTypes ==
    /\ cur \in {NOFILE, EMPTY} \cup Version
    /\ ver \in [Version -> [there : BOOLEAN, file : [Names -> FileState]]]
    /\ whole \in BOOLEAN
    /\ inst = [at |-> inst.at, pkg |-> inst.pkg, v |-> inst.v, todo |-> inst.todo]
    /\ inst.at \in Installing \cup {"idle", "commit", "gc", "unlink", "revoke"}

\* The installer is writing the version after the current one: what is not
\* left to do is written.
InstWriting ==
    inst.at \in Installing =>
        /\ inst.pkg \in Packages /\ inst.v \in Version /\ inst.v = current_version + 1
        /\ inst.todo \in Seq(Names) /\ Range(inst.todo) \subseteq NamesOf(inst.pkg)
        /\ inst.at # "point" => inst.todo # <<>>
        /\ inst.at = "point" => inst.todo = <<>>
        /\ inst.at # "mkdir" => ver[inst.v].there
        /\ \A x \in NamesOf(inst.pkg) :
              x \in Range(inst.todo) \/ (inst.at # "mkdir" /\ Written(inst.v, inst.pkg, x))
        /\ inst.at = "write" => ver[inst.v].file[Head(inst.todo)].n \in 0 .. PiecesOf(Head(inst.todo)) - 1

\* It is about to commit it, or collects what is two versions back.
InstCommitting ==
    /\ inst.at = "commit" =>
          /\ inst.v \in Version /\ cur = EMPTY
          /\ Complete(inst.v) /\ (inst.v > 1 => Complete(inst.v - 1))
    /\ inst.at \in {"gc", "unlink"} => cur \in Version /\ inst.v \in Nat \ {0}
    /\ inst.at = "unlink" => inst.v <= cur - KEEP_VERSIONS /\ inst.todo \in Seq(Names)

InstCurrent == cur \in Version => Complete(cur) /\ (cur > 1 => Complete(cur - 1))

\* Version v holds the files of one package and no other.
Exact(v) ==
    \E p \in Packages : \A x \in Names :
        IF x \in NamesOf(p) THEN Written(v, p, x) ELSE ver[v].file[x] = Absent

\* What there is when nothing was cut short or refused: v is the version being
\* written or collected, if there is one.
Newest == IF inst.at \in Installing \cup {"commit"} THEN inst.v ELSE cur
Oldest == IF inst.at \in {"idle", "revoke"} \/ (inst.at = "gc" /\ inst.v > cur - KEEP_VERSIONS)
          THEN Newest - 1 ELSE Newest - 2

InstTidy ==
    /\ \A v \in Version : ~ ver[v].there => \A x \in Names : ver[v].file[x] = Absent
    /\ cur = EMPTY => inst.at = "commit"
    /\ \A v \in Version : ver[v].there =>
          /\ Oldest <= v /\ v <= Newest
          /\ Exact(v) \/ (v = inst.v /\ inst.at \in Installing \cup {"unlink"})
    /\ inst.at = "mkdir" => ~ ver[inst.v].there
    /\ inst.at \in Installing => \A x \in Names \ NamesOf(inst.pkg) : ver[inst.v].file[x] = Absent
    /\ inst.at = "unlink" => \A x \in Names : ver[inst.v].file[x] # Absent => x \in Range(inst.todo)

InstInv == InstTypes /\ InstWriting /\ InstCommitting /\ InstCurrent /\ (whole => InstTidy)

\* What a sequence holds.
LEMMA SeqHolds ==
    ASSUME NEW S
    PROVE  /\ \A s \in Seq(S) : s # <<>> =>
                 /\ Head(s) \in S /\ Tail(s) \in Seq(S) /\ Head(s) \in Range(s)
                 /\ Range(s) = {Head(s)} \cup Range(Tail(s))
                 /\ Len(s) > 1 <=> Tail(s) # <<>>
           /\ \A s, t \in Seq(S) : s \o t \in Seq(S) /\ Range(s \o t) = Range(s) \cup Range(t)
           /\ \A x \in S : <<x>> \in Seq(S) /\ Range(<<x>>) = {x}
           /\ \A x, y \in S : <<x, y>> \in Seq(S) /\ Range(<<x, y>>) = {x, y}
           /\ <<>> \in Seq(S) /\ Range(<<>>) = {}
<1>1. ASSUME NEW s \in Seq(S), s # <<>>
      PROVE  /\ Head(s) \in S /\ Tail(s) \in Seq(S) /\ Head(s) \in Range(s)
             /\ Range(s) = {Head(s)} \cup Range(Tail(s))
             /\ Len(s) > 1 <=> Tail(s) # <<>>
  <2>1. /\ Len(s) \in Nat /\ Len(s) > 0 /\ Head(s) = s[1] /\ Tail(s) \in Seq(S)
        /\ Len(Tail(s)) = Len(s) - 1 /\ \A i \in 1 .. Len(s) - 1 : Tail(s)[i] = s[i + 1]
    BY <1>1
  <2>2. DOMAIN s = 1 .. Len(s) /\ DOMAIN Tail(s) = 1 .. Len(s) - 1
    BY <2>1
  <2>3. Head(s) \in S /\ Head(s) \in Range(s)
    BY <2>1, <2>2 DEF Range
  <2>4. ASSUME NEW x \in Range(s) PROVE x \in {Head(s)} \cup Range(Tail(s))
    <3>1. PICK i \in 1 .. Len(s) : x = s[i]
      BY <2>2 DEF Range
    <3>2. CASE i = 1
      BY <2>1, <3>1, <3>2
    <3>3. CASE i # 1
      <4>1. i - 1 \in 1 .. Len(s) - 1 /\ Tail(s)[i - 1] = s[i]
        BY <2>1, <3>3
      <4> QED
        BY <2>2, <3>1, <4>1, Zenon DEF Range
    <3> QED
      BY <3>2, <3>3
  <2>5. Range(Tail(s)) \subseteq Range(s)
    <3> SUFFICES ASSUME NEW i \in 1 .. Len(s) - 1 PROVE Tail(s)[i] \in Range(s)
      BY <2>2 DEF Range
    <3>1. i + 1 \in 1 .. Len(s) /\ Tail(s)[i] = s[i + 1]
      BY <2>1
    <3> QED
      BY <2>2, <3>1 DEF Range
  <2>6. Len(s) > 1 <=> Tail(s) # <<>>
    <3>1. \A q \in Seq(S) : q = <<>> <=> Len(q) = 0
      OBVIOUS
    <3>2. Tail(s) = <<>> <=> Len(Tail(s)) = 0
      BY <2>1, <3>1, Zenon
    <3>3. \A m, n \in Nat : n = m - 1 => (n = 0 <=> ~ (m > 1))
      OBVIOUS
    <3>4. Len(Tail(s)) \in Nat
      BY <2>1
    <3>5. Len(Tail(s)) = 0 <=> ~ (Len(s) > 1)
      BY <2>1, <3>3, <3>4, Zenon
    <3> QED
      BY <3>2, <3>5, Zenon
  <2> QED
    BY <2>1, <2>3, <2>4, <2>5, <2>6
<1>2. ASSUME NEW s \in Seq(S), NEW t \in Seq(S)
      PROVE  s \o t \in Seq(S) /\ Range(s \o t) = Range(s) \cup Range(t)
  <2>1. /\ s \o t \in Seq(S) /\ Len(s) \in Nat /\ Len(t) \in Nat /\ Len(s \o t) = Len(s) + Len(t)
        /\ \A i \in 1 .. Len(s) : (s \o t)[i] = s[i]
        /\ \A i \in 1 .. Len(t) : (s \o t)[Len(s) + i] = t[i]
    OBVIOUS
  <2>2. /\ DOMAIN s = 1 .. Len(s) /\ DOMAIN t = 1 .. Len(t)
        /\ DOMAIN (s \o t) = 1 .. Len(s) + Len(t)
    BY <2>1
  <2>3. ASSUME NEW x \in Range(s \o t) PROVE x \in Range(s) \cup Range(t)
    <3>1. PICK i \in 1 .. Len(s) + Len(t) : x = (s \o t)[i]
      BY <2>2 DEF Range
    <3>2. CASE i <= Len(s)
      BY <2>1, <2>2, <3>1, <3>2 DEF Range
    <3>3. CASE i > Len(s)
      <4>1. i - Len(s) \in 1 .. Len(t) /\ i = Len(s) + (i - Len(s))
        BY <2>1, <3>3
      <4>2. x = t[i - Len(s)]
        BY <2>1, <3>1, <4>1
      <4> QED
        BY <2>2, <4>1, <4>2 DEF Range
    <3> QED
      BY <2>1, <3>2, <3>3
  <2>4. ASSUME NEW x \in Range(s) PROVE x \in Range(s \o t)
    <3>1. PICK i \in 1 .. Len(s) : x = s[i]
      BY <2>2 DEF Range
    <3>2. i \in 1 .. Len(s) + Len(t) /\ (s \o t)[i] = x
      BY <2>1, <3>1
    <3> QED
      BY <2>2, <3>2 DEF Range
  <2>5. ASSUME NEW x \in Range(t) PROVE x \in Range(s \o t)
    <3>1. PICK i \in 1 .. Len(t) : x = t[i]
      BY <2>2 DEF Range
    <3>2. Len(s) + i \in 1 .. Len(s) + Len(t) /\ (s \o t)[Len(s) + i] = x
      BY <2>1, <3>1
    <3> QED
      BY <2>2, <3>2 DEF Range
  <2> QED
    BY <2>1, <2>3, <2>4, <2>5, Zenon
<1>3. ASSUME NEW x \in S, NEW y \in S
      PROVE  /\ <<x>> \in Seq(S) /\ Range(<<x>>) = {x}
             /\ <<x, y>> \in Seq(S) /\ Range(<<x, y>>) = {x, y}
  BY DEF Range
<1>4. <<>> \in Seq(S) /\ Range(<<>>) = {}
  BY DEF Range
<1> QED
  BY <1>1, <1>2, <1>3, <1>4, Zenon

\* The names of a package, and the writes each takes.
LEMMA NamesFacts ==
    /\ \A p \in Packages : PkgFiles[p] \in Seq(Names) /\ NamesOf(p) \subseteq Names
    /\ MANIFEST \in Names /\ LIST \in Names /\ PiecesOf(LIST) = 1
    /\ \A x \in Names : PiecesOf(x) \in Nat \ {0}
    /\ \A p \in Packages : LIST \in NamesOf(p)
    /\ Version = 1 .. MaxVersion /\ MaxVersion \in Nat
<1>1. \A p \in Packages : Range(PkgFiles[p]) \subseteq Names
  BY DEF Names
<1>2. ASSUME NEW p \in Packages PROVE PkgFiles[p] \in Seq(Names)
  <2>1. PkgFiles[p] \in Seq(STRING)
    BY InstShape
  <2>2. \A i \in 1 .. Len(PkgFiles[p]) : PkgFiles[p][i] \in Names
    BY <1>1, <2>1 DEF Range
  <2> QED
    BY <2>1, <2>2
<1>3. MANIFEST \in Names /\ LIST \in Names
  BY DEF Names
<1>4. \A p \in Packages : NamesOf(p) \subseteq Names /\ LIST \in NamesOf(p)
  BY <1>1, <1>3 DEF NamesOf
<1>5. PiecesOf(LIST) = 1 /\ \A x \in Names : PiecesOf(x) \in Nat \ {0}
  BY InstShape DEF PiecesOf
<1> QED
  BY <1>2, <1>3, <1>4, <1>5, InstShape DEF Version

\* A step of the installer that changes one file, and what it leaves.
LEMMA FilePut ==
    ASSUME InstTypes, NEW v \in Version, NEW x \in Names, NEW c \in FileState,
           ver' = [ver EXCEPT ![v].file[x] = c]
    PROVE  /\ ver' \in [Version -> [there : BOOLEAN, file : [Names -> FileState]]]
           /\ ver'[v].there = ver[v].there /\ ver'[v].file[x] = c
           /\ \A y \in Names \ {x} : ver'[v].file[y] = ver[v].file[y]
           /\ \A u \in Version \ {v} : ver'[u] = ver[u]
<1> DEFINE f == [ver[v].file EXCEPT ![x] = c]
           r == [ver[v] EXCEPT !.file = f]
<1>1. ver[v] \in [there : BOOLEAN, file : [Names -> FileState]]
  BY DEF InstTypes
<1>2. f \in [Names -> FileState] /\ f[x] = c /\ \A y \in Names \ {x} : f[y] = ver[v].file[y]
  BY <1>1
<1>3. ver' = [ver EXCEPT ![v] = r]
  OBVIOUS
<1> HIDE DEF f
<1>4. r \in [there : BOOLEAN, file : [Names -> FileState]] /\ r.there = ver[v].there /\ r.file = f
  BY <1>1, <1>2
<1> HIDE DEF r
<1>5. /\ ver' \in [Version -> [there : BOOLEAN, file : [Names -> FileState]]] /\ ver'[v] = r
      /\ \A u \in Version \ {v} : ver'[u] = ver[u]
  BY <1>3, <1>4 DEF InstTypes
<1> QED
  BY <1>2, <1>4, <1>5

\* The same for a directory.
LEMMA DirPut ==
    ASSUME InstTypes, NEW v \in Version, NEW c \in BOOLEAN,
           ver' = [ver EXCEPT ![v].there = c]
    PROVE  /\ ver' \in [Version -> [there : BOOLEAN, file : [Names -> FileState]]]
           /\ ver'[v].there = c /\ ver'[v].file = ver[v].file
           /\ \A u \in Version \ {v} : ver'[u] = ver[u]
<1> DEFINE r == [ver[v] EXCEPT !.there = c]
<1>1. ver[v] \in [there : BOOLEAN, file : [Names -> FileState]]
  BY DEF InstTypes
<1>2. ver' = [ver EXCEPT ![v] = r]
  OBVIOUS
<1>3. r \in [there : BOOLEAN, file : [Names -> FileState]] /\ r.there = c /\ r.file = ver[v].file
  BY <1>1, Zenon
<1> HIDE DEF r
<1> QED
  BY <1>2, <1>3 DEF InstTypes

\* A version whose directory is as it was.
LEMMA SameVersion ==
    ASSUME NEW u, ver'[u] = ver[u]
    PROVE  /\ Complete(u)' = Complete(u) /\ Exact(u)' = Exact(u)
           /\ \A p, x : Written(u, p, x)' = Written(u, p, x)
BY Zenon DEF Complete, Exact, Written

\* A directory with the files of a package.
LEMMA AllWritten ==
    ASSUME NEW u, NEW p \in Packages, ver[u].there, \A x \in NamesOf(p) : Written(u, p, x)
    PROVE  Complete(u)
BY Zenon DEF Complete, Written, NamesOf

\* The pointer and what it names.
LEMMA PointerFacts ==
    ASSUME InstTypes
    PROVE  /\ NOFILE \notin Version /\ EMPTY \notin Version /\ cur \in Int
           /\ current_version \in 0 .. MaxVersion
           /\ cur \in Version => current_version = cur /\ cur \in 1 .. MaxVersion
           /\ cur \notin Version => current_version = 0
           /\ \A v \in Version : v \in Nat /\ v >= 1 /\ (v > 1 => v - 1 \in Version)
BY NamesFacts DEF InstTypes, current_version, NOFILE, EMPTY

\* An installation begins.
LEMMA InstallKeeps ==
    ASSUME InstInv, NEW p \in Packages, Install(p)
    PROVE  InstInv'
<1> DEFINE s == <<MANIFEST>> \o PkgFiles[p] \o <<LIST>>
<1>1. /\ inst.at = "idle" /\ current_version < MaxVersion
      /\ inst' = [at |-> "mkdir", pkg |-> p, v |-> current_version + 1, todo |-> s]
      /\ UNCHANGED <<cur, ver, whole>>
  BY Zenon DEF Install
<1>2. /\ s \in Seq(Names) /\ Range(s) = NamesOf(p)
  <2> DEFINE a == <<MANIFEST>>
             b == PkgFiles[p]
             c == <<LIST>>
  <2>1. /\ a \in Seq(Names) /\ b \in Seq(Names) /\ c \in Seq(Names)
        /\ Range(a) = {MANIFEST} /\ Range(c) = {LIST}
    BY NamesFacts, SeqHolds, Zenon
  <2>2. s = (a \o b) \o c /\ NamesOf(p) = {MANIFEST, LIST} \cup Range(b)
    BY DEF NamesOf
  <2>3. \A q, r \in Seq(Names) : q \o r \in Seq(Names) /\ Range(q \o r) = Range(q) \cup Range(r)
    BY SeqHolds, Zenon
  <2> HIDE DEF a, b, c, s
  <2>4. a \o b \in Seq(Names) /\ Range(a \o b) = Range(a) \cup Range(b)
    BY <2>1, <2>3, Zenon
  <2>5. s \in Seq(Names) /\ Range(s) = Range(a \o b) \cup Range(c)
    BY <2>1, <2>2, <2>3, <2>4, Zenon
  <2> QED
    BY <2>1, <2>2, <2>4, <2>5
<1>3. s # <<>>
  <2>1. MANIFEST \in Range(s)
    BY <1>2, Zenon DEF NamesOf
  <2> QED
    BY <2>1, SeqHolds
<1> HIDE DEF s
<1>4. /\ inst'.at = "mkdir" /\ inst'.pkg = p /\ inst'.v = current_version + 1 /\ inst'.todo = s
      /\ inst' = [at |-> inst'.at, pkg |-> inst'.pkg, v |-> inst'.v, todo |-> inst'.todo]
  BY <1>1
<1>5. InstTypes /\ InstTypes' /\ current_version' = current_version
  BY <1>1, <1>4 DEF InstInv, InstTypes, Installing, current_version
<1>6. inst'.v \in Version
  BY <1>1, <1>4, <1>5, PointerFacts, NamesFacts
<1>7. InstWriting'
  BY <1>2, <1>3, <1>4, <1>5, <1>6 DEF InstWriting, Installing
<1>8. InstCommitting'
  BY <1>4 DEF InstCommitting
<1>9. \A v : Complete(v)' = Complete(v) /\ Exact(v)' = Exact(v)
  BY <1>1, SameVersion
<1>10. InstCurrent'
  BY <1>1, <1>9 DEF InstInv, InstCurrent
<1>11. ASSUME whole' PROVE InstTidy'
  <2>1. InstTidy
    BY <1>1, <1>11 DEF InstInv
  <2>2. cur \in Version \/ cur = NOFILE
    BY <1>1, <1>5, <2>1 DEF InstTypes, InstTidy
  <2>3. ASSUME NEW v \in Version, ver[v].there
        PROVE  cur \in Version /\ cur - 1 <= v /\ v <= cur /\ Exact(v)
    <3>1. Oldest <= v /\ v <= Newest /\ Exact(v)
      BY <1>1, <2>1, <2>3 DEF InstTidy, Installing
    <3>2. Newest = cur /\ Oldest = cur - 1
      BY <1>1 DEF Newest, Oldest, Installing
    <3> QED
      BY <1>5, <2>2, <3>1, <3>2, PointerFacts DEF NOFILE
  <2>4. Newest' = current_version + 1 /\ Oldest' = current_version - 1
    <3>1. Newest' = inst'.v
      BY <1>4 DEF Newest, Installing
    <3>2. Oldest' = Newest' - 2
      BY <1>4 DEF Oldest
    <3> QED
      BY <1>4, <1>5, <3>1, <3>2, PointerFacts
  <2>5. \A v \in Version : ver[v].there => Oldest' <= v /\ v <= Newest' /\ Exact(v)'
    BY <1>5, <1>9, <2>3, <2>4, PointerFacts
  <2>6. ~ ver[inst'.v].there
    BY <1>4, <1>5, <1>6, <2>3, PointerFacts
  <2>7. \A v \in Version : ~ ver[v].there => \A x \in Names : ver[v].file[x] = Absent
    BY <2>1 DEF InstTidy
  <2>8. cur # EMPTY
    BY <1>5, <2>2, PointerFacts DEF NOFILE, EMPTY
  <2> QED
    BY <1>1, <1>4, <1>6, <2>5, <2>6, <2>7, <2>8 DEF InstTidy, Installing
<1> QED
  BY <1>5, <1>7, <1>8, <1>10, <1>11 DEF InstInv

\* The directory of the new version.
LEMMA MkdirKeeps ==
    ASSUME InstInv, mkdir
    PROVE  InstInv'
<1>1. /\ inst.at = "mkdir" /\ ver' = [ver EXCEPT ![inst.v].there = TRUE]
      /\ inst' = [inst EXCEPT !.at = "open"] /\ UNCHANGED <<cur, whole>>
  BY DEF mkdir
<1>2. InstTypes /\ inst.v \in Version /\ inst.v = current_version + 1
  BY <1>1 DEF InstInv, InstWriting, Installing
<1>3. /\ inst'.at = "open" /\ inst'.pkg = inst.pkg /\ inst'.v = inst.v /\ inst'.todo = inst.todo
      /\ inst' = [at |-> inst'.at, pkg |-> inst'.pkg, v |-> inst'.v, todo |-> inst'.todo]
  BY <1>1, <1>2 DEF InstTypes
<1>4. /\ ver' \in [Version -> [there : BOOLEAN, file : [Names -> FileState]]]
      /\ ver'[inst.v].there = TRUE /\ ver'[inst.v].file = ver[inst.v].file
      /\ \A u \in Version \ {inst.v} : ver'[u] = ver[u]
  BY <1>1, <1>2, DirPut, Zenon
<1>5. InstTypes' /\ current_version' = current_version
  BY <1>1, <1>2, <1>3, <1>4 DEF InstTypes, Installing, current_version
<1>6. InstWriting'
  BY <1>1, <1>2, <1>3, <1>4, <1>5 DEF InstInv, InstWriting, Installing
<1>7. InstCommitting'
  BY <1>3 DEF InstCommitting
<1>8. \A u \in Version \ {inst.v} : Complete(u)' = Complete(u) /\ Exact(u)' = Exact(u)
  BY <1>4, SameVersion, Zenon
<1>9. InstCurrent'
  BY <1>1, <1>2, <1>8, PointerFacts DEF InstInv, InstCurrent
<1>10. ASSUME whole' PROVE InstTidy'
  <2>1. InstTidy
    BY <1>1, <1>10 DEF InstInv
  <2>2. Newest' = Newest /\ Oldest' = Oldest /\ Newest = inst.v /\ Oldest = inst.v - 2
    BY <1>1, <1>3 DEF Newest, Oldest, Installing
  <2>3. \A v \in Version : ~ ver'[v].there => \A x \in Names : ver'[v].file[x] = Absent
    BY <1>4, <2>1 DEF InstTidy
  <2>4. cur # EMPTY
    BY <1>1, <2>1 DEF InstTidy
  <2>5. ASSUME NEW v \in Version, ver'[v].there
        PROVE  Oldest <= v /\ v <= Newest /\ (Exact(v)' \/ v = inst.v)
    <3>1. CASE v = inst.v
      BY <1>2, <2>2, <3>1, PointerFacts
    <3>2. CASE v # inst.v
      BY <1>4, <1>8, <2>1, <2>5, <3>2, Zenon DEF InstTidy
    <3> QED
      BY <3>1, <3>2
  <2>6. \A x \in Names \ NamesOf(inst.pkg) : ver'[inst.v].file[x] = Absent
    BY <1>1, <1>4, <2>1 DEF InstTidy, Installing
  <2> QED
    BY <1>1, <1>3, <2>2, <2>3, <2>4, <2>5, <2>6 DEF InstTidy, Installing
<1> QED
  BY <1>5, <1>6, <1>7, <1>9, <1>10 DEF InstInv

\* A file of the new version, opened or written.
LEMMA WriteKeeps ==
    ASSUME InstInv, OpenFile \/ WritePiece
    PROVE  InstInv'
<1> DEFINE h == Head(inst.todo)
<1>0. inst.at \in {"open", "write"}
  BY Zenon DEF OpenFile, WritePiece
<1>1. /\ InstTypes /\ inst.v \in Version /\ inst.v = current_version + 1 /\ inst.pkg \in Packages
      /\ inst.todo \in Seq(Names) /\ inst.todo # <<>> /\ Range(inst.todo) \subseteq NamesOf(inst.pkg)
      /\ ver[inst.v].there
      /\ \A x \in NamesOf(inst.pkg) : x \in Range(inst.todo) \/ Written(inst.v, inst.pkg, x)
      /\ inst.at = "write" => ver[inst.v].file[h].n \in 0 .. PiecesOf(h) - 1
  BY <1>0, Zenon DEF InstInv, InstWriting, Installing
<1>2. /\ h \in Names /\ h \in Range(inst.todo) /\ Tail(inst.todo) \in Seq(Names)
      /\ Range(inst.todo) = {h} \cup Range(Tail(inst.todo))
      /\ Len(inst.todo) > 1 <=> Tail(inst.todo) # <<>>
  BY <1>1, SeqHolds, Zenon
<1>3. PiecesOf(h) \in Nat \ {0}
  BY <1>2, NamesFacts, Zenon
<1> HIDE DEF h
<1>4. PICK c \in FileState, b \in {"open", "write", "point"}, s \in {inst.todo, Tail(inst.todo)} :
        /\ ver' = [ver EXCEPT ![inst.v].file[h] = c]
        /\ inst' = [at |-> b, pkg |-> inst.pkg, v |-> inst.v, todo |-> s]
        /\ b = "write" => s = inst.todo /\ c.n \in 0 .. PiecesOf(h) - 1
        /\ b # "write" => /\ s = Tail(inst.todo) /\ c = [pkg |-> inst.pkg, n |-> PiecesOf(h)]
                          /\ b = "open" <=> s # <<>>
  <2>0. inst = [at |-> inst.at, pkg |-> inst.pkg, v |-> inst.v, todo |-> inst.todo]
    BY <1>1 DEF InstTypes
  <2>1. CASE OpenFile
    <3>1. /\ ver' = [ver EXCEPT ![inst.v].file[h] = Opened] /\ inst' = [inst EXCEPT !.at = "write"]
      BY <2>1 DEF OpenFile, h
    <3>2. inst' = [at |-> "write", pkg |-> inst.pkg, v |-> inst.v, todo |-> inst.todo]
      BY <2>0, <3>1
    <3>3. Opened \in FileState /\ Opened.n \in 0 .. PiecesOf(h) - 1
      BY <1>3 DEF Opened, EMPTY, FileState
    <3> QED
      BY <3>1, <3>2, <3>3, Zenon
  <2>2. CASE WritePiece
    <3> DEFINE m == ver[inst.v].file[h].n + 1
               d == [pkg |-> inst.pkg, n |-> m]
    <3>1. /\ inst.at = "write" /\ ver' = [ver EXCEPT ![inst.v].file[h] = d]
          /\ inst' = IF m < PiecesOf(h) THEN inst
                     ELSE [inst EXCEPT !.todo = Tail(@),
                                       !.at = IF Len(inst.todo) > 1 THEN "open" ELSE "point"]
      BY <2>2, Zenon DEF WritePiece, h
    <3>2. m \in 1 .. PiecesOf(h)
      BY <1>1, <1>3, <3>1
    <3> HIDE DEF m
    <3>3. d \in FileState /\ d.n = m
      BY <1>1, <1>3, <3>2 DEF FileState
    <3>4. CASE m < PiecesOf(h)
      <4>1. inst' = [at |-> "write", pkg |-> inst.pkg, v |-> inst.v, todo |-> inst.todo]
        BY <2>0, <3>1, <3>4
      <4>2. d.n \in 0 .. PiecesOf(h) - 1
        BY <1>3, <3>2, <3>3, <3>4
      <4> HIDE DEF d
      <4> QED
        BY <3>1, <3>3, <4>1, <4>2, Zenon
    <3>5. CASE ~ (m < PiecesOf(h))
      <4>1. inst' = [at |-> IF Len(inst.todo) > 1 THEN "open" ELSE "point",
                     pkg |-> inst.pkg, v |-> inst.v, todo |-> Tail(inst.todo)]
        BY <2>0, <3>1, <3>5, Zenon
      <4>2. d = [pkg |-> inst.pkg, n |-> PiecesOf(h)]
        BY <1>3, <3>2, <3>5
      <4> HIDE DEF d
      <4> QED
        BY <1>2, <3>1, <3>3, <4>1, <4>2, Zenon
    <3> QED
      BY <3>4, <3>5, Zenon
  <2> QED
    BY <2>1, <2>2, Zenon
<1>5. /\ inst'.at = b /\ inst'.pkg = inst.pkg /\ inst'.v = inst.v /\ inst'.todo = s
      /\ inst' = [at |-> inst'.at, pkg |-> inst'.pkg, v |-> inst'.v, todo |-> inst'.todo]
      /\ UNCHANGED <<cur, whole>>
  BY <1>4, Zenon DEF OpenFile, WritePiece
<1>6. /\ ver' \in [Version -> [there : BOOLEAN, file : [Names -> FileState]]]
      /\ ver'[inst.v].there = ver[inst.v].there /\ ver'[inst.v].file[h] = c
      /\ \A y \in Names \ {h} : ver'[inst.v].file[y] = ver[inst.v].file[y]
      /\ \A u \in Version \ {inst.v} : ver'[u] = ver[u]
  BY <1>1, <1>2, <1>4, FilePut, Zenon
<1>7. InstTypes' /\ current_version' = current_version
  BY <1>1, <1>5, <1>6, Zenon DEF InstTypes, Installing, current_version
<1>8. InstWriting'
  <2>1. s \in Seq(Names) /\ Range(s) \subseteq NamesOf(inst.pkg)
    BY <1>1, <1>2, Zenon
  <2>2. (b # "point" => s # <<>>) /\ (b = "point" => s = <<>>)
    BY <1>1, <1>4
  <2>3. ASSUME NEW x \in NamesOf(inst.pkg)
        PROVE  x \in Range(s) \/ Written(inst.v, inst.pkg, x)'
    <3>0. x \in Names
      BY <1>1, NamesFacts, Zenon
    <3>1. CASE b = "write"
      <4>1. x # h => ver'[inst.v].file[x] = ver[inst.v].file[x]
        BY <1>6, <3>0, Zenon
      <4>2. x \in Range(inst.todo) \/ (x # h /\ Written(inst.v, inst.pkg, x))
        BY <1>1, <1>2, Zenon
      <4> QED
        BY <1>4, <1>5, <3>1, <4>1, <4>2 DEF Written
    <3>2. CASE b # "write" /\ x = h
      BY <1>4, <1>5, <1>6, <3>2 DEF Written
    <3>3. CASE b # "write" /\ x # h
      <4>1. x \in Range(s) \/ Written(inst.v, inst.pkg, x)
        BY <1>1, <1>2, <1>4, <3>3, Zenon
      <4> QED
        BY <1>5, <1>6, <3>0, <3>3, <4>1 DEF Written
    <3> QED
      BY <3>1, <3>2, <3>3
  <2>4. b = "write" => ver'[inst.v].file[Head(s)].n \in 0 .. PiecesOf(Head(s)) - 1
    BY <1>4, <1>6, Zenon DEF h
  <2> QED
    BY <1>1, <1>5, <1>6, <1>7, <2>1, <2>2, <2>3, <2>4, Zenon DEF InstWriting, Installing, Written
<1>9. InstCommitting'
  BY <1>5, Zenon DEF InstCommitting
<1>10. \A u \in Version \ {inst.v} : Complete(u)' = Complete(u) /\ Exact(u)' = Exact(u)
  BY <1>6, SameVersion, Zenon
<1>11. InstCurrent'
  BY <1>1, <1>5, <1>10, PointerFacts DEF InstInv, InstCurrent
<1>12. ASSUME whole' PROVE InstTidy'
  <2>1. InstTidy
    BY <1>5, <1>12 DEF InstInv
  <2>2. Newest' = Newest /\ Oldest' = Oldest
    BY <1>0, <1>5, Zenon DEF Newest, Oldest, Installing
  <2>3. \A v \in Version : ~ ver'[v].there => \A x \in Names : ver'[v].file[x] = Absent
    <3>1. \A v \in Version : ~ ver'[v].there => ver'[v] = ver[v]
      BY <1>1, <1>6, Zenon
    <3> QED
      BY <2>1, <3>1, Zenon DEF InstTidy
  <2>4. cur # EMPTY
    BY <1>0, <2>1, Zenon DEF InstTidy
  <2>5. ASSUME NEW v \in Version, ver'[v].there
        PROVE  Oldest <= v /\ v <= Newest /\ (Exact(v)' \/ v = inst.v)
    BY <1>1, <1>6, <1>10, <2>1, <2>5, Zenon DEF InstTidy
  <2>6. \A x \in Names \ NamesOf(inst.pkg) : ver'[inst.v].file[x] = Absent
    <3>1. \A x \in Names \ NamesOf(inst.pkg) : ver[inst.v].file[x] = Absent /\ x # h
      BY <1>0, <1>1, <1>2, <2>1, Zenon DEF InstTidy, Installing
    <3> QED
      BY <1>6, <3>1, Zenon
  <2> QED
    BY <1>5, <2>2, <2>3, <2>4, <2>5, <2>6, Zenon DEF InstTidy, Installing
<1> QED
  BY <1>7, <1>8, <1>9, <1>11, <1>12 DEF InstInv

\* The commit, in its two steps.
LEMMA CommitKeeps ==
    ASSUME InstInv, OpenPointer \/ Commit
    PROVE  InstInv'
<1>0. InstTypes
  BY DEF InstInv
<1>1. UNCHANGED <<ver, whole>> /\ \A v : Complete(v)' = Complete(v) /\ Exact(v)' = Exact(v)
  BY SameVersion DEF OpenPointer, Commit
<1>2. CASE OpenPointer
  <2>1. /\ inst.at = "point" /\ cur' = EMPTY
        /\ inst' = [at |-> "commit", pkg |-> inst.pkg, v |-> inst.v, todo |-> inst.todo]
    BY <1>0, <1>2 DEF OpenPointer, InstTypes
  <2>2. inst'.at = "commit" /\ inst'.v = inst.v
        /\ inst' = [at |-> inst'.at, pkg |-> inst'.pkg, v |-> inst'.v, todo |-> inst'.todo]
    BY <2>1
  <2>3. /\ inst.v \in Version /\ inst.v = current_version + 1 /\ inst.pkg \in Packages
        /\ ver[inst.v].there /\ inst.todo = <<>>
        /\ \A x \in NamesOf(inst.pkg) : x \in Range(inst.todo) \/ Written(inst.v, inst.pkg, x)
    BY <2>1, Zenon DEF InstInv, InstWriting, Installing
  <2>4. \A x \in NamesOf(inst.pkg) : Written(inst.v, inst.pkg, x)
    <3>1. Range(inst.todo) = {}
      BY <2>3, SeqHolds, Zenon
    <3> QED
      BY <2>3, <3>1, Zenon
  <2>5. Complete(inst.v)
    BY <2>3, <2>4, AllWritten, Zenon
  <2>6. inst.v > 1 => Complete(inst.v - 1)
    BY <1>0, <2>3, PointerFacts DEF InstInv, InstCurrent
  <2>7. InstTypes'
    BY <1>0, <1>1, <2>1, <2>2, Zenon DEF InstTypes
  <2>8. InstWriting' /\ InstCommitting'
    BY <1>1, <2>1, <2>2, <2>3, <2>5, <2>6, Zenon DEF InstWriting, InstCommitting, Installing
  <2>9. InstCurrent'
    BY <1>0, <2>1, PointerFacts, Zenon DEF InstCurrent
  <2>10. ASSUME whole' PROVE InstTidy'
    <3>1. InstTidy
      BY <1>1, <2>10 DEF InstInv
    <3>2. Newest' = Newest /\ Oldest' = Oldest
      BY <2>1, <2>2, Zenon DEF Newest, Oldest, Installing
    <3>3. Exact(inst.v)
      <4>1. \A x \in Names \ NamesOf(inst.pkg) : ver[inst.v].file[x] = Absent
        BY <2>1, <3>1, Zenon DEF InstTidy, Installing
      <4> QED
        BY <2>3, <2>4, <4>1, Zenon DEF Exact
    <3>4. \A v \in Version : ver[v].there => Oldest' <= v /\ v <= Newest' /\ Exact(v)'
      BY <1>1, <3>1, <3>2, <3>3, Zenon DEF InstTidy
    <3>5. \A v \in Version : ~ ver[v].there => \A x \in Names : ver[v].file[x] = Absent
      BY <3>1, Zenon DEF InstTidy
    <3> QED
      BY <1>1, <2>2, <3>4, <3>5, Zenon DEF InstTidy, Installing
  <2> QED
    BY <2>7, <2>8, <2>9, <2>10 DEF InstInv
<1>3. CASE Commit
  <2>1. /\ inst.at = "commit" /\ cur' = inst.v
        /\ inst' = [at |-> "gc", pkg |-> 0, v |-> 1, todo |-> inst.todo]
    BY <1>0, <1>3, Zenon DEF Commit, InstTypes
  <2>2. inst'.at = "gc" /\ inst'.v = 1
        /\ inst' = [at |-> inst'.at, pkg |-> inst'.pkg, v |-> inst'.v, todo |-> inst'.todo]
    BY <2>1
  <2>3. inst.v \in Version /\ Complete(inst.v) /\ (inst.v > 1 => Complete(inst.v - 1))
    BY <2>1, Zenon DEF InstInv, InstCommitting
  <2>4. InstTypes'
    BY <1>0, <1>1, <2>1, <2>2, <2>3, Zenon DEF InstTypes
  <2>5. InstWriting' /\ InstCommitting'
    BY <2>1, <2>2, <2>3, SMTT(30) DEF InstWriting, InstCommitting, Installing
  <2>6. InstCurrent'
    BY <1>1, <2>1, <2>3, Zenon DEF InstCurrent
  <2>7. ASSUME whole' PROVE InstTidy'
    <3>1. InstTidy
      BY <1>1, <2>7 DEF InstInv
    <3>2. Newest = inst.v /\ Oldest = inst.v - 2 /\ Newest' = inst.v
      BY <2>1, <2>2, Zenon DEF Newest, Oldest, Installing
    <3>3. Oldest' = IF 1 > inst.v - 2 THEN inst.v - 1 ELSE inst.v - 2
      BY <2>1, <2>2, <3>2, Zenon DEF Oldest, KEEP_VERSIONS
    <3>4. \A v \in Version : ver[v].there => Oldest <= v /\ v <= inst.v /\ Exact(v)
      BY <2>1, <3>1, <3>2, Zenon DEF InstTidy, Installing
    <3>5. \A v \in Version : ver[v].there => Oldest' <= v
      BY <1>0, <2>3, <3>2, <3>3, <3>4, PointerFacts
    <3>6. \A v \in Version : ~ ver[v].there => \A x \in Names : ver[v].file[x] = Absent
      BY <3>1 DEF InstTidy
    <3>7. cur' # EMPTY
      BY <1>0, <2>1, <2>3, PointerFacts, Zenon
    <3> QED
      BY <1>1, <2>2, <3>2, <3>4, <3>5, <3>6, <3>7, Zenon DEF InstTidy, Installing
  <2> QED
    BY <2>4, <2>5, <2>6, <2>7 DEF InstInv
<1> QED
  BY <1>2, <1>3

\* The collection goes to the next version.
LEMMA CollectKeeps ==
    ASSUME InstInv, gc
    PROVE  InstInv'
<1>0. InstTypes /\ inst.at = "gc" /\ cur \in Version /\ inst.v \in Nat \ {0}
  BY DEF InstInv, InstCommitting, gc
<1>1. UNCHANGED <<cur, ver, whole>> /\ \A v : Complete(v)' = Complete(v) /\ Exact(v)' = Exact(v)
  BY SameVersion DEF gc
<1>2. cur \in Nat /\ cur >= 1 /\ cur # EMPTY /\ (Collectable(inst.v) <=> inst.v <= cur - 2)
  BY <1>0, PointerFacts DEF Collectable, KEEP_VERSIONS
<1>3. Collectable(inst.v) => inst.v \in Version
  BY <1>0, <1>2, NamesFacts
<1>4. InstCurrent'
  BY <1>1 DEF InstInv, InstCurrent
<1>5. whole => /\ InstTidy /\ Newest = cur /\ Oldest = IF inst.v > cur - 2 THEN cur - 1 ELSE cur - 2
               /\ \A v \in Version : ver[v].there => Oldest <= v /\ v <= cur /\ Exact(v)
  BY <1>0, Zenon DEF InstInv, InstTidy, Newest, Oldest, Installing, KEEP_VERSIONS
<1>6. \A v \in Version : Exact(v) => /\ ver[v].file[LIST] # Absent
                                     /\ \A x \in Names : ver[v].file[x] # Absent =>
                                           x \in Range(Listed(v)) \cup {LIST, MANIFEST}
  <2> SUFFICES ASSUME NEW v \in Version, Exact(v)
               PROVE  /\ ver[v].file[LIST] # Absent
                      /\ \A x \in Names : ver[v].file[x] # Absent =>
                            x \in Range(Listed(v)) \cup {LIST, MANIFEST}
    OBVIOUS
  <2>1. PICK p \in Packages : \A x \in Names :
            IF x \in NamesOf(p) THEN Written(v, p, x) ELSE ver[v].file[x] = Absent
    BY DEF Exact
  <2>2. ver[v].file[LIST] = [pkg |-> p, n |-> 1]
    BY <2>1, NamesFacts, Zenon DEF Written
  <2>3. Listed(v) = PkgFiles[p] /\ ver[v].file[LIST] # Absent
    BY <2>2 DEF Listed, Absent, NOFILE
  <2> QED
    BY <2>1, <2>3, Zenon DEF NamesOf
<1>7. CASE ~ Collectable(inst.v)
  <2>1. inst' = Idle
    BY <1>7 DEF gc
  <2>2. /\ inst'.at = "idle"
        /\ inst' = [at |-> inst'.at, pkg |-> inst'.pkg, v |-> inst'.v, todo |-> inst'.todo]
    BY <2>1 DEF Idle
  <2>3. InstTypes' /\ InstWriting' /\ InstCommitting'
    BY <1>0, <1>1, <2>2, Zenon DEF InstTypes, InstWriting, InstCommitting, Installing
  <2>4. whole => Newest' = cur /\ Oldest' = cur - 1 /\ Oldest = cur - 1
    BY <1>0, <1>1, <1>2, <1>5, <1>7, <2>2 DEF Newest, Oldest, Installing
  <2>5. whole' => InstTidy'
    BY <1>1, <1>2, <1>5, <2>2, <2>4, Zenon DEF InstTidy, Installing
  <2> QED
    BY <1>4, <2>3, <2>5 DEF InstInv
<1>8. CASE Collectable(inst.v) /\ ver[inst.v].file[LIST] = Absent
  <2>1. inst' = [at |-> "gc", pkg |-> inst.pkg, v |-> inst.v + 1, todo |-> inst.todo]
    BY <1>0, <1>8 DEF gc, InstTypes
  <2>2. /\ inst'.at = "gc" /\ inst'.v = inst.v + 1
        /\ inst' = [at |-> inst'.at, pkg |-> inst'.pkg, v |-> inst'.v, todo |-> inst'.todo]
    BY <2>1, Zenon
  <2>3. InstTypes' /\ InstWriting' /\ InstCommitting'
    BY <1>0, <1>1, <2>2 DEF InstTypes, InstWriting, InstCommitting, Installing
  <2>4. ASSUME whole PROVE InstTidy'
    <3>1. ~ ver[inst.v].there /\ Oldest = cur - 2
      BY <1>0, <1>2, <1>3, <1>5, <1>6, <1>8, <2>4
    <3>2. Newest' = cur /\ Oldest' = IF inst.v + 1 > cur - 2 THEN cur - 1 ELSE cur - 2
      BY <1>1, <2>2, Zenon DEF Newest, Oldest, Installing, KEEP_VERSIONS
    <3>3. \A v \in Version : ver[v].there => Oldest' <= v
      BY <1>0, <1>2, <1>5, <1>8, <2>4, <3>1, <3>2, PointerFacts
    <3> QED
      BY <1>1, <1>2, <1>5, <2>2, <2>4, <3>2, <3>3, Zenon DEF InstTidy, Installing
  <2> QED
    BY <1>1, <1>4, <2>3, <2>4 DEF InstInv
<1>9. CASE Collectable(inst.v) /\ ver[inst.v].file[LIST] # Absent
  <2> DEFINE s == Listed(inst.v) \o <<LIST, MANIFEST>>
  <2>1. inst' = [at |-> "unlink", pkg |-> inst.pkg, v |-> inst.v, todo |-> s]
    BY <1>0, <1>9, Zenon DEF gc, InstTypes
  <2>2. /\ inst'.at = "unlink" /\ inst'.v = inst.v /\ inst'.todo = s
        /\ inst' = [at |-> inst'.at, pkg |-> inst'.pkg, v |-> inst'.v, todo |-> inst'.todo]
    BY <2>1, Zenon
  <2>3. s \in Seq(Names) /\ Range(s) = Range(Listed(inst.v)) \cup {LIST, MANIFEST}
    <3> DEFINE a == Listed(inst.v)
               b == <<LIST, MANIFEST>>
    <3>1. a \in Seq(Names)
      <4>1. CASE ver[inst.v].file[LIST].n = 1
        <5>1. ver[inst.v].file[LIST] \in FileState
          BY <1>0, <1>3, <1>9, NamesFacts DEF InstTypes
        <5>2. ver[inst.v].file[LIST].pkg \in Packages
          BY <4>1, <5>1 DEF FileState, Absent, Opened, NOFILE, EMPTY
        <5> QED
          BY <4>1, <5>2, NamesFacts, Zenon DEF Listed
      <4>2. CASE ver[inst.v].file[LIST].n # 1
        BY <4>2, SeqHolds, Zenon DEF Listed
      <4> QED
        BY <4>1, <4>2
    <3>2. b \in Seq(Names) /\ Range(b) = {LIST, MANIFEST}
      <4>1. \A x, y \in Names : <<x, y>> \in Seq(Names) /\ Range(<<x, y>>) = {x, y}
        BY SeqHolds, Zenon
      <4>2. LIST \in Names /\ MANIFEST \in Names
        BY NamesFacts
      <4> QED
        BY <4>1, <4>2, Zenon
    <3>3. \A q, r \in Seq(Names) : q \o r \in Seq(Names) /\ Range(q \o r) = Range(q) \cup Range(r)
      BY SeqHolds, Zenon
    <3>4. s = a \o b
      OBVIOUS
    <3> HIDE DEF a, b, s
    <3>5. s \in Seq(Names) /\ Range(s) = Range(a) \cup Range(b)
      BY <3>1, <3>2, <3>3, <3>4, Zenon
    <3> QED
      BY <3>2, <3>5 DEF a
  <2> HIDE DEF s
  <2>4. InstTypes' /\ InstWriting' /\ InstCommitting'
    <3>1. inst.v <= cur - KEEP_VERSIONS
      BY <1>9 DEF Collectable
    <3> QED
      BY <1>0, <1>1, <2>2, <2>3, <3>1, Zenon DEF InstTypes, InstWriting, InstCommitting, Installing
  <2>5. ASSUME whole PROVE InstTidy'
    <3>1. Exact(inst.v)
      BY <1>3, <1>5, <1>9, <2>5, NamesFacts, Zenon DEF InstTidy
    <3>2. Newest' = cur /\ Oldest' = cur - 2 /\ Oldest = cur - 2
      BY <1>0, <1>1, <1>2, <1>5, <1>9, <2>2, <2>5 DEF Newest, Oldest, Installing
    <3>3. \A x \in Names : ver[inst.v].file[x] # Absent => x \in Range(s)
      BY <1>3, <1>6, <1>9, <2>3, <3>1, Zenon
    <3> QED
      BY <1>1, <1>2, <1>5, <2>2, <2>5, <3>2, <3>3, Zenon DEF InstTidy, Installing
  <2> QED
    BY <1>1, <1>4, <2>4, <2>5 DEF InstInv
<1> QED
  BY <1>7, <1>8, <1>9

\* A version is taken apart.
LEMMA UnlinkKeeps ==
    ASSUME InstInv, gc_version
    PROVE  InstInv'
<1>0. /\ InstTypes /\ inst.at = "unlink" /\ cur \in Version /\ inst.v \in Nat \ {0}
      /\ inst.v <= cur - 2 /\ inst.todo \in Seq(Names) /\ UNCHANGED <<cur, whole>>
  BY DEF InstInv, InstCommitting, gc_version, KEEP_VERSIONS
<1>1. /\ cur \in Nat /\ inst.v \in Version /\ inst.v # cur /\ inst.v # cur - 1 /\ cur # EMPTY
      /\ cur > 1 => cur - 1 \in Version
  BY <1>0, PointerFacts, NamesFacts
<1>2. whole => /\ InstTidy /\ Newest = cur /\ Oldest = cur - 2
               /\ \A v \in Version \ {inst.v} : ver[v].there => cur - 2 <= v /\ v <= cur /\ Exact(v)
               /\ \A x \in Names : ver[inst.v].file[x] # Absent => x \in Range(inst.todo)
               /\ \A v \in Version : ~ ver[v].there => \A x \in Names : ver[v].file[x] = Absent
  BY <1>0, Zenon DEF InstInv, InstTidy, Newest, Oldest, Installing, KEEP_VERSIONS
<1>3. CASE inst.todo # <<>>
  <2> DEFINE h == Head(inst.todo)
  <2>1. /\ ver' = [ver EXCEPT ![inst.v].file[h] = Absent]
        /\ inst' = [at |-> "unlink", pkg |-> inst.pkg, v |-> inst.v, todo |-> Tail(inst.todo)]
    BY <1>0, <1>3 DEF gc_version, InstTypes
  <2>2. /\ h \in Names /\ Tail(inst.todo) \in Seq(Names)
        /\ Range(inst.todo) = {h} \cup Range(Tail(inst.todo))
    BY <1>0, <1>3, SeqHolds, Zenon
  <2> HIDE DEF h
  <2>3. /\ inst'.at = "unlink" /\ inst'.v = inst.v /\ inst'.todo = Tail(inst.todo)
        /\ inst' = [at |-> inst'.at, pkg |-> inst'.pkg, v |-> inst'.v, todo |-> inst'.todo]
    BY <2>1
  <2>4. /\ ver' \in [Version -> [there : BOOLEAN, file : [Names -> FileState]]]
        /\ ver'[inst.v].there = ver[inst.v].there /\ ver'[inst.v].file[h] = Absent
        /\ \A y \in Names \ {h} : ver'[inst.v].file[y] = ver[inst.v].file[y]
        /\ \A u \in Version \ {inst.v} : ver'[u] = ver[u]
    <3>1. Absent \in FileState
      BY DEF FileState
    <3> QED
      BY <1>0, <1>1, <2>1, <2>2, <3>1, FilePut, Zenon
  <2>5. \A u \in Version \ {inst.v} : Complete(u)' = Complete(u) /\ Exact(u)' = Exact(u)
    BY <2>4, SameVersion, Zenon
  <2>6. InstTypes' /\ InstWriting' /\ InstCommitting'
    BY <1>0, <2>2, <2>3, <2>4, Zenon DEF InstTypes, InstWriting, InstCommitting, Installing, KEEP_VERSIONS
  <2>7. InstCurrent'
    BY <1>0, <1>1, <2>5, Zenon DEF InstInv, InstCurrent
  <2>8. ASSUME whole PROVE InstTidy'
    <3>1. Newest' = cur /\ Oldest' = cur - 2
      BY <1>0, <2>3, Zenon DEF Newest, Oldest, Installing
    <3>2. ASSUME NEW v \in Version, ~ ver'[v].there, NEW x \in Names
          PROVE  ver'[v].file[x] = Absent
      <4>1. CASE v = inst.v
        BY <1>2, <2>4, <2>8, <3>2, <4>1, Zenon
      <4>2. CASE v # inst.v
        BY <1>2, <2>4, <2>8, <3>2, <4>2
      <4> QED
        BY <4>1, <4>2
    <3>3. \A v \in Version : ver'[v].there =>
             cur - 2 <= v /\ v <= cur /\ (Exact(v)' \/ v = inst.v)
      <4>1. ver[inst.v].there => cur - 2 <= inst.v /\ inst.v <= cur
        BY <1>1, <1>2, <2>8, Zenon DEF InstTidy
      <4> QED
        BY <1>1, <1>2, <2>4, <2>5, <2>8, <4>1, SMTT(30)
    <3>4. \A x \in Names : ver'[inst.v].file[x] # Absent => x \in Range(Tail(inst.todo))
      BY <1>2, <2>2, <2>4, <2>8, SMTT(30)
    <3> QED
      BY <1>0, <1>1, <2>3, <3>1, <3>2, <3>3, <3>4, Zenon DEF InstTidy, Installing
  <2> QED
    BY <1>0, <2>6, <2>7, <2>8 DEF InstInv
<1>4. CASE inst.todo = <<>>
  <2> DEFINE Empty == \A x \in Names : ver[inst.v].file[x] = Absent
  <2>1. /\ ver' = IF Empty THEN [ver EXCEPT ![inst.v].there = FALSE] ELSE ver
        /\ inst' = [at |-> "gc", pkg |-> inst.pkg, v |-> inst.v + 1, todo |-> inst.todo]
    BY <1>0, <1>4, Zenon DEF gc_version, InstTypes
  <2>2. /\ inst'.at = "gc" /\ inst'.v = inst.v + 1
        /\ inst' = [at |-> inst'.at, pkg |-> inst'.pkg, v |-> inst'.v, todo |-> inst'.todo]
    BY <2>1
  <2>3. /\ ver' \in [Version -> [there : BOOLEAN, file : [Names -> FileState]]]
        /\ \A u \in Version \ {inst.v} : ver'[u] = ver[u]
        /\ Empty => ~ ver'[inst.v].there /\ ver'[inst.v].file = ver[inst.v].file
    <3>1. CASE Empty
      <4>1. ver' = [ver EXCEPT ![inst.v].there = FALSE]
        BY <2>1, <3>1
      <4> QED
        BY <1>0, <1>1, <4>1, DirPut, Zenon
    <3>2. CASE ~ Empty
      BY <1>0, <2>1, <3>2 DEF InstTypes
    <3> QED
      BY <3>1, <3>2, Zenon
  <2>4. \A u \in Version \ {inst.v} : Complete(u)' = Complete(u) /\ Exact(u)' = Exact(u)
    BY <2>3, SameVersion, Zenon
  <2>5. InstTypes' /\ InstWriting' /\ InstCommitting'
    BY <1>0, <2>2, <2>3, SMTT(30) DEF InstTypes, InstWriting, InstCommitting, Installing
  <2>6. InstCurrent'
    BY <1>0, <1>1, <2>4 DEF InstInv, InstCurrent
  <2>7. ASSUME whole PROVE InstTidy'
    <3>1. Empty
      <4>1. Range(inst.todo) = {}
        BY <1>4, SeqHolds, Zenon
      <4> QED
        BY <1>2, <2>7, <4>1, Zenon
    <3>2. ~ ver'[inst.v].there /\ \A x \in Names : ver'[inst.v].file[x] = Absent
      BY <2>3, <3>1, Zenon
    <3>3. Newest' = cur /\ Oldest' = IF inst.v + 1 > cur - 2 THEN cur - 1 ELSE cur - 2
      BY <1>0, <2>2, Zenon DEF Newest, Oldest, Installing, KEEP_VERSIONS
    <3>4. \A v \in Version : ver'[v].there => cur - 2 <= v /\ v <= cur /\ Exact(v)' /\ v # inst.v
      BY <1>2, <2>3, <2>4, <2>7, <3>2, Zenon
    <3>5. \A v \in Version : ver'[v].there => Oldest' <= v
      BY <1>0, <1>1, <3>3, <3>4, PointerFacts
    <3>6. \A v \in Version : ~ ver'[v].there => \A x \in Names : ver'[v].file[x] = Absent
      BY <1>2, <2>3, <2>7, <3>2, Zenon
    <3> QED
      BY <1>0, <1>1, <2>2, <3>3, <3>4, <3>5, <3>6, Zenon DEF InstTidy, Installing
  <2> QED
    BY <1>0, <2>5, <2>6, <2>7 DEF InstInv
<1> QED
  BY <1>3, <1>4

\* The list of revoked names, a refused unlink and a cut.
LEMMA BesideKeeps ==
    ASSUME InstInv, UNCHANGED <<cur, ver>>,
           \/ UnlinkRefused \/ CutShort \/ WriteRevoked \/ \E n \in {"app", "other"} : Revoke(n)
    PROVE  InstInv'
<1>0. InstTypes /\ InstCurrent /\ InstCommitting
  BY DEF InstInv
<1>1. \A v : Complete(v)' = Complete(v) /\ Exact(v)' = Exact(v)
  BY SameVersion
<1>2. InstCurrent'
  BY <1>0, <1>1 DEF InstCurrent
<1>3. CASE UnlinkRefused
  <2>1. /\ inst.at = "unlink" /\ inst.todo # <<>> /\ whole' = FALSE
        /\ inst' = [at |-> "unlink", pkg |-> inst.pkg, v |-> inst.v, todo |-> Tail(inst.todo)]
    BY <1>0, <1>3, Zenon DEF UnlinkRefused, InstTypes
  <2>2. /\ inst'.at = "unlink" /\ inst'.v = inst.v /\ inst'.todo = Tail(inst.todo)
        /\ inst' = [at |-> inst'.at, pkg |-> inst'.pkg, v |-> inst'.v, todo |-> inst'.todo]
    BY <2>1, Zenon
  <2>3. Tail(inst.todo) \in Seq(Names)
    BY <1>0, <2>1, SeqHolds, Zenon DEF InstCommitting
  <2>4. InstTypes' /\ InstWriting' /\ InstCommitting'
    BY <1>0, <2>1, <2>2, <2>3, Zenon DEF InstTypes, InstWriting, InstCommitting, Installing
  <2> QED
    BY <1>2, <2>1, <2>4, Zenon DEF InstInv
<1>4. CASE CutShort
  <2>1. inst' = Idle /\ whole' = FALSE
    BY <1>4, Zenon DEF CutShort
  <2>2. /\ inst'.at = "idle"
        /\ inst' = [at |-> inst'.at, pkg |-> inst'.pkg, v |-> inst'.v, todo |-> inst'.todo]
    BY <2>1, Zenon DEF Idle
  <2>3. InstTypes' /\ InstWriting' /\ InstCommitting'
    BY <1>0, <2>1, <2>2, Zenon DEF InstTypes, InstWriting, InstCommitting, Installing
  <2> QED
    BY <1>2, <2>1, <2>3 DEF InstInv
<1>5. CASE WriteRevoked \/ \E n \in {"app", "other"} : Revoke(n)
  <2>1. inst.at \in {"idle", "revoke"} /\ inst'.at \in {"idle", "revoke"} /\ whole' = whole
        /\ inst' = [at |-> inst'.at, pkg |-> inst'.pkg, v |-> inst'.v, todo |-> inst'.todo]
    <3>1. CASE WriteRevoked
      BY <3>1, Zenon DEF WriteRevoked, Idle
    <3>2. CASE \E n \in {"app", "other"} : Revoke(n)
      <4>1. PICK s : inst' = [inst EXCEPT !.at = "revoke", !.todo = s]
        BY <3>2, Zenon DEF Revoke
      <4>2. inst' = [at |-> "revoke", pkg |-> inst.pkg, v |-> inst.v, todo |-> s]
        BY <1>0, <4>1, Zenon DEF InstTypes
      <4> QED
        BY <3>2, <4>2, Zenon DEF Revoke
    <3> QED
      BY <1>5, <3>1, <3>2, Zenon
  <2>2. InstTypes' /\ InstWriting' /\ InstCommitting'
    BY <1>0, <2>1, Zenon DEF InstTypes, InstWriting, InstCommitting, Installing
  <2>3. ASSUME whole PROVE InstTidy'
    <3>1. InstTidy
      BY <2>3 DEF InstInv
    <3>2. Newest' = Newest /\ Oldest' = Oldest
      BY <2>1, Zenon DEF Newest, Oldest, Installing
    <3>3. \A v \in Version : ver[v].there => Oldest <= v /\ v <= Newest /\ Exact(v)
      BY <2>1, <3>1, Zenon DEF InstTidy, Installing
    <3>4. cur # EMPTY /\ \A v \in Version : ~ ver[v].there => \A x \in Names : ver[v].file[x] = Absent
      BY <2>1, <3>1, Zenon DEF InstTidy
    <3> QED
      BY <1>1, <2>1, <3>2, <3>3, <3>4, Zenon DEF InstTidy, Installing
  <2> QED
    BY <1>2, <2>1, <2>2, <2>3, Zenon DEF InstInv
<1> QED
  BY <1>3, <1>4, <1>5

\* The installer keeps its invariant.
THEOREM InstInvariant == InstSpec => []InstInv
<1>1. InstInit => InstInv
  <2> SUFFICES ASSUME InstInit PROVE InstInv
    OBVIOUS
  <2>1. /\ cur = NOFILE /\ inst = Idle /\ whole = TRUE /\ inst.at = "idle"
        /\ inst = [at |-> inst.at, pkg |-> inst.pkg, v |-> inst.v, todo |-> inst.todo]
    BY DEF InstInit, Idle
  <2>2. NoVersion \in [there : BOOLEAN, file : [Names -> FileState]]
    <3>1. [x \in Names |-> Absent] \in [Names -> FileState]
      BY DEF FileState
    <3> QED
      BY <3>1 DEF NoVersion
  <2>3. ~ NoVersion.there /\ \A x \in Names : NoVersion.file[x] = Absent
    BY DEF NoVersion
  <2>4. /\ ver \in [Version -> [there : BOOLEAN, file : [Names -> FileState]]]
        /\ \A v \in Version : ver[v] = NoVersion
    BY <2>2 DEF InstInit
  <2>5. InstTypes
    BY <2>1, <2>4 DEF InstTypes
  <2>6. InstWriting /\ InstCommitting
    BY <2>1, Zenon DEF InstWriting, InstCommitting, Installing
  <2>7. InstCurrent /\ cur # EMPTY
    BY <2>1, <2>5, PointerFacts DEF InstCurrent, NOFILE, EMPTY
  <2>8. InstTidy
    BY <2>1, <2>3, <2>4, <2>7, Zenon DEF InstTidy, Installing
  <2> QED
    BY <2>5, <2>6, <2>7, <2>8 DEF InstInv
<1>2. InstInv /\ [InstNext]_instVars => InstInv'
  <2> SUFFICES ASSUME InstInv, [InstNext]_instVars PROVE InstInv'
    OBVIOUS
  <2>1. CASE \E p \in Packages : Install(p)
    BY <2>1, InstallKeeps
  <2>2. CASE mkdir
    BY <2>2, MkdirKeeps
  <2>3. CASE OpenFile \/ WritePiece
    BY <2>3, WriteKeeps
  <2>4. CASE OpenPointer \/ Commit
    BY <2>4, CommitKeeps
  <2>5. CASE gc
    BY <2>5, CollectKeeps
  <2>6. CASE gc_version
    BY <2>6, UnlinkKeeps
  <2>7. CASE \/ UnlinkRefused \/ CutShort \/ WriteRevoked
             \/ \E n \in {"app", "other"} : Revoke(n)
    <3>1. UNCHANGED <<cur, ver>>
      BY <2>7 DEF UnlinkRefused, CutShort, WriteRevoked, Revoke
    <3> QED
      BY <2>7, <3>1, BesideKeeps
  <2>8. CASE UNCHANGED instVars
    <3>1. UNCHANGED <<cur, ver, inst, whole>>
      BY <2>8 DEF instVars
    <3>2. InstTypes' /\ InstWriting'
      BY <3>1, Zenon DEF InstInv, InstTypes, InstWriting, Written, current_version
    <3>3. \A v : Complete(v)' = Complete(v) /\ Exact(v)' = Exact(v)
      BY <3>1, SameVersion
    <3>4. InstCommitting' /\ InstCurrent'
      BY <3>1, <3>3 DEF InstInv, InstCommitting, InstCurrent
    <3>5. whole' => InstTidy'
      BY <3>1, <3>3, Zenon DEF InstInv, InstTidy, Newest, Oldest
    <3> QED
      BY <3>2, <3>4, <3>5 DEF InstInv
  <2> QED
    BY <2>1, <2>2, <2>3, <2>4, <2>5, <2>6, <2>7, <2>8 DEF InstNext
<1> QED
  BY <1>1, <1>2, PTL DEF InstSpec

\* install and gc: for every set of packages and files, however often it is cut
\* short, the version the pointer names and the one before are complete, and
\* the undisturbed installer leaves no other.
THEOREM InstalledIsComplete == InstSpec => []InstalledComplete
<1>1. InstInv => InstalledComplete
  <2> SUFFICES ASSUME InstInv, cur \in Version
               PROVE  /\ Complete(cur) /\ (cur > 1 => Complete(cur - 1))
                      /\ whole /\ inst.at = "idle" =>
                            {v \in Version : ver[v].there} \subseteq {cur, cur - 1}
    BY DEF InstalledComplete
  <2>1. Complete(cur) /\ (cur > 1 => Complete(cur - 1)) /\ InstTypes
    BY DEF InstInv, InstCurrent
  <2>2. ASSUME whole, inst.at = "idle", NEW v \in Version, ver[v].there
        PROVE  v \in {cur, cur - 1}
    <3>1. Newest = cur /\ Oldest = cur - 1
      BY <2>2 DEF Newest, Oldest, Installing
    <3>2. cur - 1 <= v /\ v <= cur
      BY <2>2, <3>1 DEF InstInv, InstTidy
    <3> QED
      BY <2>1, <3>2, PointerFacts
  <2> QED
    BY <2>1, <2>2
<1> QED
  BY <1>1, InstInvariant, PTL
=============================================================================
