------------------------------- MODULE Screen -------------------------------
(***************************************************************************)
(* Where the compositor's windows are and what is seen of them: the        *)
(* displayed rectangle and the buffer of every surface under create, move, *)
(* resize, maximize, restore, the tiling and the two scales                *)
(* (services/wm), the order of composition and the scaled sampling         *)
(* (libraries/wm), and the mapping of a click into a buffer.               *)
(*                                                                         *)
(* Ownership, focus and contexts are in Wm; here every surface is in the   *)
(* active context and its owner is the one who asks.  Colours, opacity,    *)
(* titles and the banner are left out.                                     *)
(***************************************************************************)
EXTENDS Integers, FiniteSets, Sequences, SequencesExt, FiniteSetsExt

CONSTANTS OUT_W, OUT_H,      \* the output, 64 by 48 in the code
          MAX_SURF,          \* surface slots
          NUM_DISPLAYS,
          Sizes, Places,     \* bounds: sizes and places clients ask for
          Ratios,            \* bounds: scales asked for, <<num, den>>
          Depths             \* bound: z values asked for

ASSUME ScreenBounds ==
    /\ OUT_W \in Nat \ {0} /\ OUT_H \in Nat \ {0}
    /\ \A r \in Ratios : r[1] > 0 /\ r[2] > 0

VARIABLES win,       \* the surface in each slot
          scale,     \* the global scale
          autoTile   \* continuous tiling

scrVars == <<win, scale, autoTile>>

Win == 0 .. MAX_SURF - 1
NoRect == [x |-> 0, y |-> 0, w |-> 0, h |-> 0]
Rectangle(x, y, w, h) == [x |-> x, y |-> y, w |-> w, h |-> h]
NoWindow == [used |-> FALSE, rect |-> NoRect, bw |-> 0, bh |-> 0, z |-> 0,
             display |-> 0, saved |-> NoRect]

ScrInit ==
    /\ win = [i \in Win |-> NoWindow]
    /\ scale = <<1, 1>>
    /\ autoTile = FALSE

Used(ws) == {i \in Win : ws[i].used}
Clamp(n, top) == IF n < 1 THEN 1 ELSE IF n > top THEN top ELSE n
Scaled(n, r) == (n * r[1]) \div r[2]

\* ------------------------------------------------------------------ layout

\* The grid's columns are the least whose square holds n windows; the windows
\* fill it in slot order.  Only the displayed rectangles change.
Retile(ws) ==
    LET n == Cardinality(Used(ws))
        cols == CHOOSE k \in 1 .. MAX_SURF :
                    k * k >= n /\ \A j \in 1 .. k - 1 : j * j < n
        rows == (n + cols - 1) \div cols
        cw == OUT_W \div cols
        ch == OUT_H \div rows
        K(i) == Cardinality({j \in Used(ws) : j < i})
    IN  IF n = 0 THEN ws
        ELSE [i \in Win |->
                IF ws[i].used
                THEN [ws[i] EXCEPT !.rect = Rectangle((K(i) % cols) * cw,
                                                 (K(i) \div cols) * ch, cw, ch)]
                ELSE ws[i]]

Arrange(ws) == IF autoTile THEN Retile(ws) ELSE ws

\* `create_surface`: the global scale sets the displayed size.
Create(size, place, z, d) ==
    /\ Used(win) # Win
    /\ LET i == Min(Win \ Used(win))
       IN  win' = Arrange([win EXCEPT ![i] =
               [NoWindow EXCEPT
                  !.used = TRUE, !.z = z, !.display = d,
                  !.bw = size[1], !.bh = size[2],
                  !.rect = Rectangle(place[1], place[2],
                                Clamp(Scaled(size[1], scale), OUT_W),
                                Clamp(Scaled(size[2], scale), OUT_H))]])
    /\ UNCHANGED <<scale, autoTile>>

DestroySurface(i) ==
    /\ win[i].used
    /\ win' = Arrange([win EXCEPT ![i] = NoWindow])
    /\ UNCHANGED <<scale, autoTile>>

Move(i, place) ==
    /\ win[i].used
    /\ win' = [win EXCEPT ![i].rect.x = place[1], ![i].rect.y = place[2]]
    /\ UNCHANGED <<scale, autoTile>>

\* `realloc_surface`: a new buffer, displayed unscaled.
Realloc(s, w, h) == [s EXCEPT !.rect.w = w, !.rect.h = h, !.bw = w, !.bh = h]

\* No memory for the new buffer: the surface goes.
OrGone(i, s) == win' \in {[win EXCEPT ![i] = s], [win EXCEPT ![i] = NoWindow]}

Resize(i, size) ==
    /\ win[i].used
    /\ OrGone(i, Realloc(win[i], size[1], size[2]))
    /\ UNCHANGED <<scale, autoTile>>

\* The rectangle is saved unless one is saved already.
Maximize(i) ==
    /\ win[i].used
    /\ LET s == [win[i] EXCEPT !.saved = IF @ = NoRect THEN win[i].rect ELSE @,
                               !.rect.x = 0, !.rect.y = 0]
       IN  OrGone(i, Realloc(s, OUT_W, OUT_H))
    /\ UNCHANGED <<scale, autoTile>>

Restore(i) ==
    /\ win[i].used /\ win[i].saved # NoRect
    /\ LET r == win[i].saved
           s == [win[i] EXCEPT !.saved = NoRect, !.rect.x = r.x, !.rect.y = r.y]
       IN  OrGone(i, Realloc(s, r.w, r.h))
    /\ UNCHANGED <<scale, autoTile>>

Tile ==
    /\ win' = Retile(win)
    /\ UNCHANGED <<scale, autoTile>>

SetAutoTile(on) ==
    /\ autoTile' = on
    /\ win' = IF on THEN Retile(win) ELSE win
    /\ UNCHANGED scale

\* Every window is displayed anew from its buffer.
SetGlobalScale(r) ==
    /\ r[1] <= 8 * r[2]
    /\ scale' = r
    /\ win' = [i \in Win |->
                 IF win[i].used
                 THEN [win[i] EXCEPT !.rect.w = Clamp(Scaled(win[i].bw, r), OUT_W),
                                     !.rect.h = Clamp(Scaled(win[i].bh, r), OUT_H)]
                 ELSE win[i]]
    /\ UNCHANGED autoTile

\* One window's scale is refused where it does not fit.
SetScale(i, r) ==
    /\ win[i].used
    /\ Scaled(win[i].bw, r) \in 1 .. OUT_W /\ Scaled(win[i].bh, r) \in 1 .. OUT_H
    /\ win' = [win EXCEPT ![i].rect.w = Scaled(win[i].bw, r),
                          ![i].rect.h = Scaled(win[i].bh, r)]
    /\ UNCHANGED <<scale, autoTile>>

\* Raise and a click: above every other, on top of the pile.
RaiseTop(i) ==
    /\ win[i].used
    /\ LET top == Max({win[j].z : j \in Used(win)})
       IN  top < Max(Depths) /\ win' = [win EXCEPT ![i].z = top + 1]
    /\ UNCHANGED <<scale, autoTile>>

ScrNext ==
    \/ \E size \in Sizes, place \in Places, z \in Depths, d \in 0 .. NUM_DISPLAYS - 1 :
           Create(size, place, z, d)
    \/ \E i \in Win :
        \/ DestroySurface(i) \/ Maximize(i) \/ Restore(i) \/ RaiseTop(i)
        \/ \E place \in Places : Move(i, place)
        \/ \E size \in Sizes : Resize(i, size)
        \/ \E r \in Ratios : SetScale(i, r)
    \/ Tile
    \/ \E on \in BOOLEAN : SetAutoTile(on)
    \/ \E r \in Ratios : SetGlobalScale(r)

ScrSpec == ScrInit /\ [][ScrNext]_scrVars

\* ------------------------------------------------- composition and clicks

Holds(r, px, py) ==
    px >= r.x /\ px < r.x + r.w /\ py >= r.y /\ py < r.y + r.h

\* One insertion of `composite`'s sort by z: position n sinks past the larger.
DrawnUnder(a, b) == a.z > b.z
Insert(order, i) ==
    LET above == {k \in DOMAIN order : \A m \in k .. Len(order) :
                                          DrawnUnder(win[order[m]], win[i])}
        place == IF above = {} THEN Len(order) + 1 ELSE Min(above)
    IN  InsertAt(order, place, i)

\* The windows of display d, in the order they are drawn.
DrawOrder(d) ==
    FoldLeft(Insert, <<>>, SetToSortSeq({i \in Used(win) : win[i].display = d},
                                        LAMBDA a, b : a < b))

\* The window left on top of a pixel: the last drawn there.
Drawn(d, px, py) ==
    LET on == SelectSeq(DrawOrder(d), LAMBDA i : Holds(win[i].rect, px, py))
    IN  IF on = <<>> THEN -1 ELSE Last(on)

\* The window a click reaches: `max_by_key` returns the last of the greatest.
HitFirst(px, py) ==
    LET under == {i \in Used(win) : Holds(win[i].rect, px, py)}
        tops == {i \in under : \A j \in under : win[j].z <= win[i].z}
    IN  IF tops = {} THEN -1 ELSE Min(tops)

Hit(px, py) ==
    LET under == {i \in Used(win) : Holds(win[i].rect, px, py)}
        tops == {i \in under : \A j \in under : win[j].z <= win[i].z}
    IN  IF tops = {} THEN -1 ELSE Max(tops)

\* `to_buf_coords`, one axis: truncating division.
ToBuf(p, org, buf, shown) == ((p - org) * buf) \div IF shown < 1 THEN 1 ELSE shown

\* `sample`, one axis: the two texels a displayed pixel mixes, in 8.8 fixed
\* point, the second held at the edge of the buffer.
Texels(c, buf, shown) ==
    IF buf = shown THEN {c}
    ELSE LET s == ((2 * c + 1) * buf * 128) \div shown - 128
             x0 == (IF s < 0 THEN 0 ELSE s) \div 256
         IN  {x0, Min({x0 + 1, buf - 1})}

\* -------------------------------------------------------------- properties

\* Whatever sequence of layout requests led here, every pixel of a window
\* reads texels inside its buffer and a click there reports one of the texels
\* shown, or the one next to it: to_buf_coords and sample agree (main.rs:205,
\* "sem esta conversão um clique sob escala caía na célula errada").
ClicksLand ==
    \A i \in Used(win) :
        LET s == win[i]
            Agree(org, shown, buf) ==
                /\ shown >= 1
                /\ \A p \in org .. org + shown - 1 :
                     /\ Texels(p - org, buf, shown) \subseteq 0 .. buf - 1
                     /\ ToBuf(p, org, buf, shown) \in 0 .. buf - 1
                     /\ \E t \in Texels(p - org, buf, shown) :
                           t - ToBuf(p, org, buf, shown) \in -1 .. 1
        IN  /\ Agree(s.rect.x, s.rect.w, s.bw)
            /\ Agree(s.rect.y, s.rect.h, s.bh)
            /\ s.rect.w <= OUT_W /\ s.rect.h <= OUT_H

\* With every window on display 0, the window a click reaches is the one seen
\* at that pixel, ties of z included: the composition and the hit test of the
\* input loop order windows alike.
ClickedIsSeen ==
    (\A i \in Used(win) : win[i].display = 0) =>
        \A i \in Used(win) :
            \A px \in win[i].rect.x .. win[i].rect.x + win[i].rect.w - 1,
               py \in win[i].rect.y .. win[i].rect.y + win[i].rect.h - 1 :
                Hit(px, py) = Drawn(0, px, py)

\* What the pointer touches is what the eye sees there.
PointerRight == ClicksLand /\ ClickedIsSeen

\* The pointer moves over display 0 ("Pointer" events are placed in its
\* output): a click never reaches a window that is shown on another display.
ClickStaysOnDisplay ==
    \A px \in 0 .. OUT_W - 1, py \in 0 .. OUT_H - 1 :
        Hit(px, py) # -1 => win[Hit(px, py)].display = 0

\* "guarda o retangulo anterior para o `restore`" (idl/wm.idl:134): maximize
\* saves the rectangle of a window that does not fill the output already.
MaximizeSaves ==
    [][\A i \in Win :
         Maximize(i) /\ win'[i].used /\ win[i].rect # Rectangle(0, 0, OUT_W, OUT_H)
           => win'[i].saved = win[i].rect]_scrVars
=============================================================================
