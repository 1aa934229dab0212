------------------------------ MODULE FrameSwap ------------------------------
(***************************************************************************)
(* The composed output the compositor shares with readers: a header with a *)
(* sequence number and the index of the front buffer, and two buffers.     *)
(* `recompose` paints the back buffer pixel by pixel and publishes it by   *)
(* swapping the front under the sequence number; a reader reads the        *)
(* number, the front, its pixels, and the number again (wm_px).            *)
(***************************************************************************)
EXTENDS Naturals

CONSTANTS Pixels,      \* pixels of a frame a reader looks at
          SeqWidth,    \* the sequence number is a u32, narrowed
          MaxFrames    \* bound: frames composed

\* A read is over before the number comes round: 2^31 frames, in the code.
ASSUME FrmBounds == MaxFrames \in Nat /\ SeqWidth \in Nat /\ 2 * MaxFrames < SeqWidth

VARIABLES frmSeq, front, frames,   \* the shared object
          comp,              \* the compositor: the step of recompose, the frame
                             \* it paints, the pixels it has left
          rd                 \* the reader

frmVars == <<frmSeq, front, frames, comp, rd>>

FrmInit ==
    /\ frmSeq = 0 /\ front = 0
    /\ frames = [b \in {0, 1} |-> [p \in Pixels |-> 0]]
    /\ comp = [pc |-> "idle", frame |-> 0, left |-> {}, shown |-> 0]
    /\ rd = [pc |-> "idle", s |-> 0, front |-> 0, got |-> [p \in Pixels |-> 0],
             left |-> {}, since |-> 0]

\* ------------------------------------------------------------- recompose

Compose ==
    /\ comp.pc = "idle" /\ comp.frame < MaxFrames
    /\ comp' = [comp EXCEPT !.pc = "paint", !.frame = @ + 1, !.left = Pixels]
    /\ UNCHANGED <<frmSeq, front, frames, rd>>

\* The back buffer: the one that is not the published frame.
PaintFront(p) ==
    /\ comp.pc = "paint" /\ p \in comp.left
    /\ frames' = [frames EXCEPT ![front][p] = comp.frame]
    /\ comp' = [comp EXCEPT !.left = @ \ {p}]
    /\ UNCHANGED <<frmSeq, front, rd>>

Paint(p) ==
    /\ comp.pc = "paint" /\ p \in comp.left
    /\ frames' = [frames EXCEPT ![1 - front][p] = comp.frame]
    /\ comp' = [comp EXCEPT !.left = @ \ {p}]
    /\ UNCHANGED <<frmSeq, front, rd>>

\* The number odd, the front swapped, the number even.
SeqOdd ==
    /\ comp.pc = "paint" /\ comp.left = {}
    /\ frmSeq' = (frmSeq + 1) % SeqWidth
    /\ comp' = [comp EXCEPT !.pc = "swap"]
    /\ UNCHANGED <<front, frames, rd>>

Swap ==
    /\ comp.pc = "swap"
    /\ front' = 1 - front
    /\ comp' = [comp EXCEPT !.pc = "publish"]
    /\ UNCHANGED <<frmSeq, frames, rd>>

SeqEven ==
    /\ comp.pc = "publish"
    /\ frmSeq' = (frmSeq + 1) % SeqWidth
    /\ comp' = [comp EXCEPT !.pc = "idle", !.shown = comp.frame]
    /\ UNCHANGED <<front, frames, rd>>

\* ------------------------------------------------------------- the reader

\* `since` is history: the frame published when the read began.
ReadSeq ==
    /\ rd.pc \in {"idle", "retry"}
    /\ rd' = [rd EXCEPT !.pc = IF frmSeq % 2 = 1 THEN "retry" ELSE "front", !.s = frmSeq,
                        !.since = IF rd.pc = "idle" THEN comp.shown ELSE @]
    /\ UNCHANGED <<frmSeq, front, frames, comp>>

ReadFront ==
    /\ rd.pc = "front"
    /\ rd' = [rd EXCEPT !.pc = "pixels", !.front = front, !.left = Pixels]
    /\ UNCHANGED <<frmSeq, front, frames, comp>>

ReadPixel(p) ==
    /\ rd.pc = "pixels" /\ p \in rd.left
    /\ rd' = [rd EXCEPT !.got[p] = frames[rd.front][p], !.left = @ \ {p}]
    /\ UNCHANGED <<frmSeq, front, frames, comp>>

Recheck ==
    /\ rd.pc = "pixels" /\ rd.left = {}
    /\ rd' = [rd EXCEPT !.pc = IF frmSeq = rd.s THEN "done" ELSE "retry"]
    /\ UNCHANGED <<frmSeq, front, frames, comp>>

ReadAgain ==
    /\ rd.pc = "done"
    /\ rd' = [rd EXCEPT !.pc = "idle"]
    /\ UNCHANGED <<frmSeq, front, frames, comp>>

CompStep == Compose \/ SeqOdd \/ Swap \/ SeqEven \/ \E p \in Pixels : Paint(p)
ReadStep == ReadSeq \/ ReadFront \/ Recheck \/ \E p \in Pixels : ReadPixel(p)
FrmNext == CompStep \/ ReadStep \/ ReadAgain

FrmSpec == FrmInit /\ [][FrmNext]_frmVars

\* -------------------------------------------------------------- properties

\* "nunca observa um frame rasgado" (libraries/wm/src/lib.rs:203): the pixels
\* a reader accepts are of one frame, which was complete and is not older than
\* the one published when it began.
NoTornFrame ==
    rd.pc = "done" =>
        /\ \A p, q \in Pixels : rd.got[p] = rd.got[q]
        /\ \A p \in Pixels : rd.got[p] >= rd.since
==============================================================================
