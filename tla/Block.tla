-------------------------------- MODULE Block --------------------------------
(***************************************************************************)
(* The disk drivers `blockdev` (VirtIO) and `nvmedev` (NVMe): a client     *)
(* pipelines requests on a channel, up to SLOTS of them are in flight at   *)
(* the device, the device finishes them in any order, and the replies      *)
(* leave in the order of arrival.  The rings are the ones of               *)
(* `SplitQueue` (two free-running indices) and of `QueuePair` (a head and  *)
(* a phase bit).  A request is its number; a page of DMA holds the number  *)
(* of the request it was filled for and the status byte of the device.     *)
(***************************************************************************)
EXTENDS Naturals, FiniteSets, Sequences, SequencesExt

CONSTANTS Drivers,      \* the drivers modelled: "virtio", "nvme"
          SLOTS,        \* requests in flight at the device
          QSize,        \* entries of a ring
          IdxMod,       \* the width of a ring index, 2^16 in the code
          MaxReqs,      \* bound: requests the client sends
          MaxAhead      \* requests the client sends before it reads replies

ASSUME BlockBounds ==
    /\ SLOTS \in Nat \ {0} /\ QSize >= SLOTS
    /\ IdxMod % (2 * QSize) = 0

VARIABLES disk,     \* which driver runs
          mail,     \* requests the driver has not received
          nsent,    \* requests sent so far
          hungUp,     \* the client closed its end
          drv,      \* the driver's loop
          sub,      \* submission ring (available ring, SQ)
          cmp,      \* completion ring (used ring, CQ)
          page,     \* the slots' DMA pages
          busy,     \* slots the device has fetched and not completed
          irq,      \* an interrupt the driver has not waited for
          did,      \* the outcome the device gave each request
          replies   \* replies, in the order the driver sent them

blkVars == <<disk, mail, nsent, hungUp, drv, sub, cmp, page, busy, irq, did, replies>>

Ids == 0 .. SLOTS - 1
Pos == 0 .. QSize - 1
NoStatus == "pending"                   \* 0xff, and `done` not set
Outcomes == {"ok", "error"}
\* An answer that needs no device: capacity, identity, a refused request.
READY == SLOTS

BlkInit ==
    /\ disk \in Drivers
    /\ mail = <<>> /\ nsent = 0 /\ hungUp = FALSE
    /\ drv = [pc |-> "reap", order |-> <<>>, free |-> Ids, closing |-> FALSE,
              worked |-> FALSE,
              done |-> [s \in Ids |-> NoStatus]]
    /\ sub = [ring |-> [i \in Pos |-> 0], idx |-> 0, fetched |-> 0]
    /\ cmp = [ring |-> [i \in Pos |-> [id |-> 0, st |-> NoStatus, phase |-> 0]],
              written |-> 0, idx |-> 0, phase |-> 1]
    /\ page = [s \in Ids |-> [n |-> 0, st |-> NoStatus]]
    /\ busy = {} /\ irq = FALSE
    /\ did = [n \in 1 .. MaxReqs |-> NoStatus]
    /\ replies = <<>>

\* ---------------------------------------------------------------- the client

Send(op) ==
    /\ ~hungUp /\ nsent < MaxReqs /\ nsent - Len(replies) < MaxAhead
    /\ nsent' = nsent + 1
    /\ mail' = Append(mail, [n |-> nsent + 1, op |-> op])
    /\ UNCHANGED <<disk, hungUp, drv, sub, cmp, page, busy, irq, did, replies>>

HangUp ==
    /\ ~hungUp /\ hungUp' = TRUE
    /\ UNCHANGED <<disk, mail, nsent, drv, sub, cmp, page, busy, irq, did, replies>>

\* ---------------------------------------------------------------- the device

\* The device takes the next entry the driver published.
Fetch ==
    /\ sub.fetched # sub.idx
    /\ sub' = [sub EXCEPT !.fetched = (@ + 1) % IdxMod]
    /\ busy' = busy \cup {sub.ring[sub.fetched % QSize]}
    /\ UNCHANGED <<disk, mail, nsent, hungUp, drv, cmp, page, irq, did, replies>>

\* It finishes any of those it took: the status byte, the ring entry (its
\* phase bit toggles on every lap), the interrupt.
Complete(s, st) ==
    /\ s \in busy /\ busy' = busy \ {s}
    /\ page' = [page EXCEPT ![s].st = st]
    /\ did' = [did EXCEPT ![page[s].n] = st]
    /\ cmp' = [cmp EXCEPT
                 !.ring[cmp.written % QSize] =
                     [id |-> s, st |-> st,
                      phase |-> 1 - ((cmp.written \div QSize) % 2)],
                 !.written = (@ + 1) % IdxMod]
    /\ irq' = TRUE
    /\ UNCHANGED <<disk, mail, nsent, hungUp, drv, sub, replies>>

\* ---------------------------------------------------------------- the driver

\* `worked` holds within one turn of nvmedev's loop.
Goto(pc) == [drv EXCEPT !.pc = pc, !.worked = FALSE]

\* `pop_used` compares the two used indices; `poll_completion` the phase bit
\* of the entry under the head.
Completed ==
    IF disk = "virtio" THEN cmp.idx # cmp.written
    ELSE cmp.ring[cmp.idx].phase = cmp.phase

\* The driver's index moves on: it wraps at 2^16, or at the end of the ring
\* with the expected phase inverted.
PassEntry(c) ==
    IF disk = "virtio" THEN [c EXCEPT !.idx = (@ + 1) % IdxMod]
    ELSE [c EXCEPT !.idx = (@ + 1) % QSize,
                   !.phase = IF (c.idx + 1) % QSize = 0 THEN 1 - @ ELSE @]

\* 1. Takes one completion and marks its slot done.
Reap ==
    /\ drv.pc = "reap" /\ Completed
    /\ LET e == cmp.ring[cmp.idx % QSize]
       IN  drv' = [drv EXCEPT !.done[e.id] = IF disk = "virtio" THEN "done" ELSE e.st,
                             !.worked = disk = "nvme"]
    /\ cmp' = PassEntry(cmp)
    /\ UNCHANGED <<disk, mail, nsent, hungUp, sub, page, busy, irq, did, replies>>

RipeAny(p) == p.slot = READY \/ \E s \in Ids : drv.done[s] # NoStatus

Ripe(p) == p.slot = READY \/ drv.done[p.slot] # NoStatus

\* What a reply carries: `blockdev` reads the status byte in the slot's page,
\* `nvmedev` keeps the one of the completion; the data are in the page.
ReplyTo(p) ==
    IF p.slot = READY THEN [n |-> p.n, st |-> "ready"]
    ELSE [n |-> page[p.slot].n,
          st |-> IF disk = "virtio" THEN page[p.slot].st ELSE drv.done[p.slot]]

\* 2. Nothing left to reap: sends the replies that are ripe, oldest first, up
\* to the first that is not, and frees their slots.
DeliverReplies ==
    /\ drv.pc = "reap" /\ ~Completed
    /\ LET n == SelectInSeq(drv.order, LAMBDA p : ~Ripe(p))
           k == IF n = 0 THEN Len(drv.order) ELSE n - 1
           ripe == SubSeq(drv.order, 1, k)
           freed == {p.slot : p \in ToSet(ripe)} \ {READY}
           left == SubSeq(drv.order, k + 1, Len(drv.order))
       IN  /\ drv' = [drv EXCEPT
                        !.order = left,
                        !.free = @ \cup freed,
                        !.worked = @ \/ (disk = "nvme" /\ k > 0),
                        !.done = [s \in Ids |-> IF s \in freed THEN NoStatus ELSE @[s]],
                        !.pc = IF drv.closing /\ left = <<>> THEN "exit" ELSE "receive"]
           /\ replies' = IF drv.closing \/ hungUp THEN replies
                         ELSE replies \o [i \in 1 .. k |-> ReplyTo(ripe[i])]
    /\ UNCHANGED <<disk, mail, nsent, hungUp, sub, cmp, page, busy, irq, did>>

\* `submit_slot` / `submit`: fills the page of the slot, publishes the entry.
Submit(s, n) ==
    /\ page' = [page EXCEPT ![s] = [n |-> n, st |-> NoStatus]]
    /\ sub' = [sub EXCEPT !.ring[sub.idx % QSize] = s, !.idx = (@ + 1) % IdxMod]

SlotFor == CHOOSE s \in drv.free : \A t \in drv.free : s <= t

\* 3. Handles one message, which joins the order of replies.
Accept(m) ==
    IF m.op = "io"
    THEN LET s == SlotFor
         IN  /\ Submit(s, m.n)
             /\ drv' = [Goto("reap") EXCEPT
                          !.order = Append(@, [n |-> m.n, slot |-> s]),
                          !.free = @ \ {s}]
    ELSE /\ drv' = [Goto("reap") EXCEPT
                      !.order = Append(@, [n |-> m.n, slot |-> READY])]
         /\ UNCHANGED <<page, sub>>

Room == Len(drv.order) < SLOTS

\* `nvmedev` receives only when it has room; `blockdev` receives always, and a
\* message it has no index for is not kept.
Receive ==
    /\ drv.pc = "receive" /\ mail # <<>>
    /\ disk = "nvme" => Room /\ ~drv.closing
    /\ mail' = Tail(mail)
    /\ IF Room THEN Accept(Head(mail))
       ELSE drv' = Goto("reap") /\ UNCHANGED <<page, sub>>
    /\ UNCHANGED <<disk, nsent, hungUp, cmp, busy, irq, did, replies>>

\* The channel is empty and closed: `blockdev` ends at once, `nvmedev` first
\* finishes what is in flight.
Closed ==
    /\ drv.pc = "receive" /\ mail = <<>> /\ hungUp
    /\ disk = "nvme" => Room /\ ~drv.closing
    /\ drv' = IF disk = "virtio" THEN Goto("exit")
              ELSE [Goto("reap") EXCEPT !.closing = TRUE]
    /\ UNCHANGED <<disk, mail, nsent, hungUp, sub, cmp, page, busy, irq, did, replies>>

IdleForget ==
    /\ drv.pc = "receive" /\ drv.order # <<>>
    /\ \/ mail = <<>> /\ ~hungUp
       \/ disk = "nvme" /\ (drv.closing \/ ~Room)
    /\ drv' = Goto("sleep") /\ irq' = FALSE
    /\ UNCHANGED <<disk, mail, nsent, hungUp, sub, cmp, page, busy, did, replies>>

\* Nothing to receive and requests in flight: the driver waits for an
\* interrupt newer than the last it waited for (`nvmedev` looks once more if
\* this turn found work).  With nothing in flight it blocks in `channel_recv`
\* instead.
Idle ==
    /\ drv.pc = "receive" /\ drv.order # <<>>
    /\ \/ mail = <<>> /\ ~hungUp
       \/ disk = "nvme" /\ (drv.closing \/ ~Room)
    /\ drv' = Goto(IF drv.worked THEN "reap" ELSE "sleep")
    /\ UNCHANGED <<disk, mail, nsent, hungUp, sub, cmp, page, busy, irq, did, replies>>

IrqWait ==
    /\ drv.pc = "sleep" /\ irq
    /\ irq' = FALSE /\ drv' = Goto("reap")
    /\ UNCHANGED <<disk, mail, nsent, hungUp, sub, cmp, page, busy, did, replies>>

DriverStep == Reap \/ DeliverReplies \/ Receive \/ Closed \/ Idle \/ IrqWait
DeviceStep == Fetch \/ \E s \in Ids, st \in Outcomes : Complete(s, st)

BlkNext ==
    \/ \E op \in {"io", "ready"} : Send(op)
    \/ HangUp
    \/ DriverStep
    \/ DeviceStep

BlkSpec == BlkInit /\ [][BlkNext]_blkVars /\ WF_blkVars(DriverStep) /\ WF_blkVars(DeviceStep)

\* ---------------------------------------------------------------- properties

\* The i-th reply is the one of the i-th request, with the outcome the device
\* gave that request ("as respostas saem na ordem de chegada dos pedidos",
\* services/blockdev/src/main.rs:10).
RepliesInOrder ==
    \A i \in DOMAIN replies :
        replies[i].n = i /\ (replies[i].st # "ready" => replies[i].st = did[i])

\* A page on loan to the device belongs to a request that waits for its reply,
\* and `nvmedev` ends only when no page is on loan: the kernel frees the pages
\* with the process.
PagesLent ==
    /\ drv.pc # "exit" =>
         \A s \in busy : \E p \in ToSet(drv.order) : p.slot = s /\ p.n = page[s].n
    /\ disk = "nvme" /\ drv.pc = "exit" => busy = {} /\ sub.fetched = sub.idx

\* Each request comes back once, in order, and its page with it, whatever the
\* order in which the device completes them and whenever the client leaves.
RequestsSound == RepliesInOrder /\ PagesLent

\* The client sends finitely many requests, and unless it hangs up there comes
\* a time when every one is answered ("Sem indice livre na fila
\* FIFO: processa sincronamente na proxima volta", blockdev main.rs:399).
RequestsAnswered == []<>(hungUp \/ Len(replies) = nsent)
==============================================================================
