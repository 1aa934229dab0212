------------------------------- MODULE Wm -------------------------------
(***************************************************************************)
(* The compositor's window management (services/wm): the surface slots,    *)
(* the sessions, keyboard focus and capture, the contexts and the notices  *)
(* of the attention center.  One pass of the main loop gives every open    *)
(* session one request, in slot order, then reads one packet of input;     *)
(* focus and capture of surfaces that went away are dropped at the top of  *)
(* the next pass.  Requests come from programs the compositor knows        *)
(* nothing about: at its turn a session may send any of them, or none.     *)
(*                                                                         *)
(* Left out: where surfaces are and what they show (Screen and FrameSwap   *)
(* have that), the pointer's place (a click hits any set of visible        *)
(* surfaces), titles, preferences, the clipboard, drag and drop and the    *)
(* events sent to clients, none of which any guard here reads.             *)
(***************************************************************************)
EXTENDS Integers

CONSTANTS
    MAX_SURFACES,   \* surface slots (8 in the code)
    MAX_CLIENTS,    \* session slots (8 in the code)
    NUM_CONTEXTS,   \* contexts (4 in the code)
    ZMax            \* the largest z: i32::MAX, narrowed

ASSUME WmBounds ==
    /\ MAX_SURFACES \in Nat \ {0}
    /\ MAX_CLIENTS \in Nat \ {0}
    /\ NUM_CONTEXTS \in Nat \ {0}
    /\ ZMax \in Nat

VARIABLES
    surf,      \* the surface in each slot
    sessions,  \* the session slots in use; 0 is the shell's
    focused,   \* the slot that has the keyboard, or None
    grabbed,   \* the slot that captured the input, or None
    activeCtx, \* the context shown
    banner,    \* the notice shown, with its context and the slot it came from
    pending,   \* the notice each context waits to show
    dnd,       \* do not disturb
    turn       \* the session the pass is at; MAX_CLIENTS: the input

wmVars == <<surf, sessions, focused, grabbed, activeCtx, banner, pending,
            dnd, turn>>

Slots == 0 .. MAX_SURFACES - 1
Contexts == 0 .. NUM_CONTEXTS - 1
ZRange == -ZMax - 1 .. ZMax
None == -1
EMPTY == [used |-> FALSE, owner |-> 0, z |-> 0, context |-> 0]
NoNotice == [ctx |-> None, src |-> None]

WmInit ==
    /\ surf = [i \in Slots |-> EMPTY]
    /\ sessions = {0}
    /\ focused = None
    /\ grabbed = None
    /\ activeCtx = 0
    /\ banner = NoNotice
    /\ pending = [c \in Contexts |-> NoNotice]
    /\ dnd = FALSE
    /\ turn = 0

----------------------------------------------------------------------------
(* What handlers read.                                                     *)

Live == {i \in Slots : surf[i].used}
Shown(c) == {i \in Live : surf[i].context = c}
Mine(k, i) == i \in Live /\ surf[i].owner = k
Least(S) == CHOOSE n \in S : \A m \in S : n <= m
Greatest(S) == CHOOSE n \in S : \A m \in S : m <= n

\* max_by_key returns the last of the highest, min_by_key the first of the
\* lowest.
Topmost(S) ==
    Greatest({i \in S : \A j \in S : surf[j].z <= surf[i].z})
Bottommost(S) ==
    Least({i \in S : \A j \in S : surf[i].z <= surf[j].z})

\* One above the highest, one below the lowest, saturating like the i32.
AboveAll ==
    LET top == IF Live = {} THEN 0 ELSE Greatest({surf[i].z : i \in Live})
    IN  IF top = ZMax THEN ZMax ELSE top + 1
BelowAll ==
    LET bottom == IF Live = {} THEN 0 ELSE Least({surf[i].z : i \in Live})
    IN  IF bottom = -ZMax - 1 THEN bottom ELSE bottom - 1

\* Where a key goes: the capture comes before the focus.
KeyTarget == IF grabbed # None THEN grabbed ELSE focused

InputOwner(k) ==
    KeyTarget # None /\ Mine(k, KeyTarget)

\* The session k is served one request and the pass moves on.
Turn(k) ==
    /\ turn = k
    /\ k \in sessions
    /\ turn' = k + 1

\* Raise to the front and give the keyboard, as clicks and shortcuts do.
BringUp(i) ==
    /\ surf' = [surf EXCEPT ![i].z = AboveAll]
    /\ focused' = i

----------------------------------------------------------------------------
(* Requests on surfaces.                                                   *)

\* Nothing to receive (or no such session), or a request that fails or
\* only changes what this module leaves out.
Pass ==
    /\ sessions # {}
    /\ turn < MAX_CLIENTS
    /\ turn' = turn + 1
    /\ UNCHANGED <<surf, sessions, focused, grabbed, activeCtx, banner,
                   pending, dnd>>

\* Any slot that is free; a reference left to the slot's last surface is
\* not looked at here.
CreateSurface(k) ==
    /\ Turn(k)
    /\ Slots \ Live # {}
    /\ LET id == Least(Slots \ Live)
       IN  /\ \E z \in ZRange :
                 surf' = [surf EXCEPT ![id] =
                     [used |-> TRUE, owner |-> k, z |-> z, context |-> 0]]
           /\ focused' = IF focused = None THEN id ELSE focused
    /\ UNCHANGED <<sessions, grabbed, activeCtx, banner, pending, dnd>>

Destroy(k) ==
    /\ Turn(k)
    /\ \E i \in Slots : Mine(k, i) /\ surf' = [surf EXCEPT ![i] = EMPTY]
    /\ UNCHANGED <<sessions, focused, grabbed, activeCtx, banner, pending,
                   dnd>>

\* resize, maximize and restore free the buffer before they ask for the
\* new one: with no memory the surface is gone.
ReallocFails(k) == Destroy(k)

RaiseLower(k) ==
    /\ Turn(k)
    /\ \E i \in Slots :
          /\ Mine(k, i)
          /\ \E z \in {AboveAll, BelowAll} : surf' = [surf EXCEPT ![i].z = z]
    /\ UNCHANGED <<sessions, focused, grabbed, activeCtx, banner, pending,
                   dnd>>

SetContext(k) ==
    /\ Turn(k)
    /\ \E i \in Slots, c \in Contexts :
          Mine(k, i) /\ surf' = [surf EXCEPT ![i].context = c]
    /\ UNCHANGED <<sessions, focused, grabbed, activeCtx, banner, pending,
                   dnd>>

Grab(k) ==
    /\ Turn(k)
    /\ \E i \in Slots :
          /\ Mine(k, i)
          /\ grabbed \in {None, i}
          /\ grabbed' = i
    /\ UNCHANGED <<surf, sessions, focused, activeCtx, banner, pending, dnd>>

Ungrab(k) ==
    /\ Turn(k)
    /\ grabbed # None
    /\ Mine(k, grabbed)
    /\ grabbed' = None
    /\ UNCHANGED <<surf, sessions, focused, activeCtx, banner, pending, dnd>>

----------------------------------------------------------------------------
(* Notices and contexts.                                                   *)

\* Showing context c: a banner of another context goes back to wait for its
\* own, then a notice that waited for c comes up.
Settle(c) ==
    LET foreign == banner # NoNotice /\ banner.ctx # c
        back == IF foreign THEN [pending EXCEPT ![banner.ctx] = banner]
                ELSE pending
        shown == IF foreign THEN NoNotice ELSE banner
    IN  /\ banner' = IF shown = NoNotice THEN back[c] ELSE shown
        /\ pending' = IF shown = NoNotice
                      THEN [back EXCEPT ![c] = NoNotice] ELSE back

\* The notice belongs to the context of the session's topmost surface.
Notify(k) ==
    /\ Turn(k)
    /\ LET own == {i \in Live : surf[i].owner = k}
           src == IF own = {} THEN None ELSE Topmost(own)
           c == IF own = {} THEN activeCtx ELSE surf[src].context
           notice == [ctx |-> c, src |-> src]
       IN  IF dnd THEN UNCHANGED <<banner, pending>>
           ELSE IF c = activeCtx
                THEN banner' = notice /\ UNCHANGED pending
                ELSE /\ pending' = [pending EXCEPT ![c] = notice]
                     /\ UNCHANGED banner
    /\ UNCHANGED <<surf, sessions, focused, grabbed, activeCtx, dnd>>

DismissNotification(k) ==
    /\ Turn(k)
    /\ banner' = NoNotice
    /\ UNCHANGED <<surf, sessions, focused, grabbed, activeCtx, pending, dnd>>

NotificationsClear(k) ==
    /\ Turn(k)
    /\ k = 0
    /\ banner' = NoNotice
    /\ pending' = [c \in Contexts |-> NoNotice]
    /\ UNCHANGED <<surf, sessions, focused, grabbed, activeCtx, dnd>>

SetDnd(k) ==
    /\ Turn(k)
    /\ InputOwner(k)
    /\ dnd' \in BOOLEAN
    /\ UNCHANGED <<surf, sessions, focused, grabbed, activeCtx, banner,
                   pending>>

SwitchContext(k) ==
    /\ Turn(k)
    /\ \E c \in Contexts :
          /\ activeCtx' = c
          /\ Settle(c)
          /\ focused' = (IF Shown(c) = {} THEN None ELSE Topmost(Shown(c)))
    /\ UNCHANGED <<surf, sessions, grabbed, dnd>>

Activate(k) ==
    /\ Turn(k)
    /\ k = 0
    /\ \E i \in Live :
          /\ activeCtx' = surf[i].context
          /\ Settle(surf[i].context)
          /\ BringUp(i)
    /\ UNCHANGED <<sessions, grabbed, dnd>>

----------------------------------------------------------------------------
(* Sessions and input.                                                     *)

Open(k) ==
    /\ Turn(k)
    /\ (0 .. MAX_CLIENTS - 1) \ sessions # {}
    /\ sessions' = sessions \cup {Least((0 .. MAX_CLIENTS - 1) \ sessions)}
    /\ UNCHANGED <<surf, focused, grabbed, activeCtx, banner, pending, dnd>>

\* (mutant) The session's slot is given back, its surfaces are not.
FreeNone(k) == surf

FreeSessionSurfaces(k) ==
    [i \in Slots |-> IF Mine(k, i) THEN EMPTY ELSE surf[i]]

\* PeerClosed; when no session is left the compositor exits.
Disconnect(k) ==
    /\ Turn(k)
    /\ surf' = FreeSessionSurfaces(k)
    /\ sessions' = sessions \ {k}
    /\ UNCHANGED <<focused, grabbed, activeCtx, banner, pending, dnd>>

\* A press on the banner brings up the surface it came from, if that is
\* still there and in the context shown.
ClickBanner ==
    /\ turn = MAX_CLIENTS
    /\ sessions # {}
    /\ grabbed = None
    /\ banner # NoNotice
    /\ banner' = NoNotice
    /\ IF banner.src # None /\ banner.src \in Shown(activeCtx)
       THEN BringUp(banner.src)
       ELSE UNCHANGED <<surf, focused>>
    /\ UNCHANGED <<sessions, grabbed, activeCtx, pending, dnd, turn>>

\* A press elsewhere: the pointer is over some of the surfaces shown.
Click ==
    /\ turn = MAX_CLIENTS
    /\ sessions # {}
    /\ grabbed = None
    /\ \E S \in (SUBSET Shown(activeCtx)) \ {{}} : BringUp(Topmost(S))
    /\ UNCHANGED <<sessions, grabbed, activeCtx, banner, pending, dnd, turn>>

MetaTab ==
    /\ turn = MAX_CLIENTS
    /\ sessions # {}
    /\ Shown(activeCtx) # {}
    /\ BringUp(Bottommost(Shown(activeCtx)))
    /\ UNCHANGED <<sessions, grabbed, activeCtx, banner, pending, dnd, turn>>

\* The input packet is done; the next pass starts by dropping a focus and a
\* capture whose surface is gone.
NextPass ==
    /\ turn = MAX_CLIENTS
    /\ sessions # {}
    /\ turn' = 0
    /\ focused' = IF focused \in Live THEN focused ELSE None
    /\ grabbed' = IF grabbed \in Live THEN grabbed ELSE None
    /\ UNCHANGED <<surf, sessions, activeCtx, banner, pending, dnd>>

WmRequest(k) ==
    \/ CreateSurface(k) \/ Destroy(k) \/ ReallocFails(k) \/ RaiseLower(k)
    \/ SetContext(k) \/ Grab(k) \/ Ungrab(k)
    \/ Notify(k) \/ DismissNotification(k) \/ NotificationsClear(k)
    \/ SetDnd(k) \/ SwitchContext(k) \/ Activate(k)
    \/ Open(k) \/ Disconnect(k)

WmNext ==
    \/ \E k \in 0 .. MAX_CLIENTS - 1 : WmRequest(k)
    \/ Pass \/ ClickBanner \/ Click \/ MetaTab \/ NextPass

WmSpec == WmInit /\ [][WmNext]_wmVars

----------------------------------------------------------------------------
(* Properties.                                                             *)

\* A surface in use belongs to a session that is connected.  A session slot
\* is handed to the next program that opens one: were a surface of the last
\* one left, it would be the newcomer's to move, read and destroy (the mine
\* check compares slots).
SurfacesOwned ==
    \A i \in Live : surf[i].owner \in sessions

\* The banner on screen belongs to the context on screen ("um aviso não
\* vaza para o Contexto errado"), no notice waits for the context that is
\* shown (it "aparece ao trocar para ele"), and each waits for its own.
NoticePlaced ==
    /\ banner # NoNotice => banner.ctx = activeCtx
    /\ pending[activeCtx] = NoNotice
    /\ \A c \in Contexts : pending[c] # NoNotice => pending[c].ctx = c

\* What a session or a context leaves behind reaches no other: neither its
\* surfaces nor its notices (free_session_surfaces, SwitchContext, Activate).
WindowsSound == SurfacesOwned /\ NoticePlaced

\* Focus and capture end with the surface they were given to: they never
\* pass to a surface created later in its slot (wm/src/main.rs:437).
FocusEnds ==
    [][\A i \in Slots : ~surf[i].used /\ surf'[i].used
                           => i \notin {focused, grabbed}]_wmVars

\* Only windows of the active context receive input: without a capture, a
\* key goes to a window of the context shown.
ActiveOnly ==
    (grabbed = None /\ focused \in Live)
        => surf[focused].context = activeCtx
=============================================================================
