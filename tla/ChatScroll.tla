----------------------------- MODULE ChatScroll -----------------------------
(***************************************************************************)
(* The conversation's scroll position (useChatAutoScroll and its caller in *)
(* Workspace): it follows the newest message, lets go when the user moves  *)
(* up, returns on request, and remembers where each view was left.  The    *)
(* browser moves the position too: it clamps it when the content shrinks,  *)
(* carries out the user's motion after the handler of the input has run,   *)
(* and delivers the scroll event of every change later.                    *)
(***************************************************************************)
EXTENDS Naturals

CONSTANTS
    Views,          \* the conversation and the children's transcripts
    Clients,        \* heights the visible part can have
    MaxHeight,      \* bound: height of the content
    Edge,           \* LIVE_EDGE_PX
    Threshold,      \* the distance up to which the shortcut stays hidden
    NoPosition

ASSUME ScrollAssumption ==
    /\ Clients \subseteq Nat /\ MaxHeight \in Nat /\ NoPosition \notin Nat
    /\ Edge \in Nat /\ Threshold \in Nat /\ Edge <= Threshold

VARIABLES
    client, height, top,    \* clientHeight, scrollHeight, scrollTop
    mode,                   \* modeRef
    lastTop,                \* lastScrollTopRef
    shortcutHidden,         \* shortcutHiddenRef
    pointer,                \* pointerActiveRef
    frame,                  \* returnFrameRef: a frame of the return is due
    scrolled, observed,     \* a scroll event, a ResizeObserver call is due
    motion,                 \* the user's motion the browser is carrying out
    viewShown, positions,   \* previousViewKeyRef, scrollPositionsRef
    readerAway,             \* history: the user moved up, and nothing since
                            \* brought the live edge back
    covered                 \* history: the visible part shrank and no handler
                            \* of this module has run since

scrollVars == <<client, height, top, mode, lastTop, shortcutHidden, pointer, frame,
                scrolled, observed, motion, viewShown, positions, readerAway, covered>>

BottomOf(h, c) == IF h > c THEN h - c ELSE 0
bottom == BottomOf(height, client)
distanceFromBottom(t, h, c) == IF BottomOf(h, c) > t THEN BottomOf(h, c) - t ELSE 0
near(t, h, c) == distanceFromBottom(t, h, c) <= Threshold

ScrollInit ==
    /\ client \in Clients /\ height \in 0..MaxHeight
    /\ top = BottomOf(height, client) /\ lastTop = top
    /\ mode = "following" /\ shortcutHidden = TRUE /\ motion = "none"
    /\ pointer = FALSE /\ frame = FALSE /\ scrolled = FALSE /\ observed = FALSE
    /\ readerAway = FALSE /\ covered = FALSE
    /\ viewShown \in Views /\ positions = [v \in Views |-> NoPosition]

(* What the browser makes of a position: within the content, and a scroll  *)
(* event when it is a new one.                                             *)
ScrollsTo(t, h, c) ==
    /\ top' = IF t > BottomOf(h, c) THEN BottomOf(h, c) ELSE t
    /\ scrolled' = (scrolled \/ top' # top)
Stays == UNCHANGED <<top, scrolled>>

(* detach *)
Detaches ==
    /\ mode' = "detached" /\ frame' = FALSE /\ shortcutHidden' = near(top, height, client)

(* What follows newly rendered or newly measured content, whose height is  *)
(* h, in a visible part of height c.                                       *)
Tracks(h, c, following) ==
    IF following
    THEN /\ ScrollsTo(BottomOf(h, c), h, c) /\ lastTop' = top' /\ shortcutHidden' = TRUE
    ELSE /\ ScrollsTo(top, h, c)
         /\ shortcutHidden' = IF mode = "detached" THEN near(top', h, c) ELSE shortcutHidden
         /\ UNCHANGED lastTop

\* Mutant: every render brings the end into view.
followsAlways == TRUE
followsNow == mode = "following"

----------------------------------------------------------------------------
(* Content.  A token, a message or a card changes the height as part of a  *)
(* render, and the layout effect runs before the browser paints; an image  *)
(* or a font changes it without one.  The ResizeObserver reports both.     *)
Renders ==
    /\ \E h \in 0..MaxHeight :
          /\ height' = h /\ observed' = (observed \/ h # height)
          /\ Tracks(h, client, followsNow)
    /\ covered' = (covered /\ mode = "returning")
    /\ UNCHANGED <<client, mode, pointer, frame, motion, viewShown, positions,
                   readerAway>>

Grows ==
    /\ \E h \in 0..MaxHeight \ {height} : height' = h /\ ScrollsTo(top, h, client)
    /\ observed' = TRUE
    /\ UNCHANGED <<client, mode, lastTop, shortcutHidden, pointer, frame, motion, viewShown,
                   positions, readerAway, covered>>

\* Mutant: only renders are followed.
observedNever == FALSE
observedNow == mode = "following"

Observes ==
    /\ observed /\ observed' = FALSE
    /\ Tracks(height, client, observedNow)
    /\ covered' = (covered /\ mode = "returning")
    /\ UNCHANGED <<client, height, mode, pointer, frame, motion, viewShown, positions,
                   readerAway>>

(* The window is resized: the content is not, so nothing is observed.      *)
Resizes ==
    /\ \E c \in Clients \ {client} :
          client' = c /\ ScrollsTo(top, height, c) /\ covered' = TRUE
    /\ UNCHANGED <<height, mode, lastTop, shortcutHidden, pointer, frame, observed, motion,
                   viewShown, positions,
                   readerAway>>

----------------------------------------------------------------------------
(* The user.  A motion up by wheel, finger or key lets go of the end before*)
(* the browser moves anything; a motion down only ends a return.           *)
Up ==
    /\ motion = "none" /\ motion' = "up" /\ Detaches /\ readerAway' = TRUE
    /\ covered' = FALSE
    /\ UNCHANGED <<client, height, top, lastTop, pointer, scrolled, observed, viewShown,
                   positions>>

Down ==
    /\ motion = "none" /\ motion' = "down"
    /\ IF mode = "returning" THEN Detaches ELSE UNCHANGED <<mode, frame, shortcutHidden>>
    /\ covered' = (covered /\ mode # "returning")
    /\ UNCHANGED <<client, height, top, lastTop, pointer, scrolled, observed, viewShown,
                   positions, readerAway>>

(* The pointer goes down on the list or its scroll bar.                    *)
Grabs ==
    /\ motion = "none" /\ motion' = "drag" /\ pointer' = TRUE
    /\ IF mode = "returning" THEN Detaches ELSE UNCHANGED <<mode, frame, shortcutHidden>>
    /\ covered' = (covered /\ mode # "returning")
    /\ UNCHANGED <<client, height, top, lastTop, scrolled, observed, viewShown, positions,
                   readerAway>>

Scrolls ==
    /\ \E t \in 0..bottom :
          /\ \/ motion \in {"up", "drag"} /\ t < top
             \/ motion \in {"down", "drag"} /\ t > top
          /\ ScrollsTo(t, height, client)
    /\ UNCHANGED <<client, height, mode, lastTop, shortcutHidden, pointer, frame, observed, motion,
                   viewShown, positions, readerAway, covered>>

LetsGo ==
    /\ motion # "none" /\ motion' = "none" /\ pointer' = FALSE
    /\ UNCHANGED <<client, height, top, mode, lastTop, shortcutHidden, frame, scrolled, observed,
                   viewShown, positions, readerAway, covered>>

----------------------------------------------------------------------------
(* onScroll *)
movedUp == top < lastTop
atEdge == distanceFromBottom(top, height, client) <= Edge

dragged == movedUp /\ pointer

Corrects ==
    /\ top' = bottom /\ lastTop' = bottom /\ scrolled' = (top # bottom)
    /\ shortcutHidden' = TRUE

OnScroll ==
    /\ scrolled /\ covered' = (covered /\ mode = "returning")
    /\ \/ /\ mode = "returning" /\ lastTop' = top /\ scrolled' = FALSE
          /\ UNCHANGED <<top, mode, frame, shortcutHidden, readerAway>>
       \/ /\ mode # "returning" /\ dragged /\ Detaches
          /\ lastTop' = top /\ scrolled' = FALSE /\ readerAway' = TRUE
          /\ UNCHANGED top
       \/ /\ ~dragged /\ mode = "following" /\ (movedUp \/ ~atEdge) /\ Corrects
          /\ UNCHANGED <<mode, frame, readerAway>>
       \/ /\ ~dragged /\ atEdge /\ mode # "returning" /\ ~(mode = "following" /\ movedUp)
          /\ mode' = "following" /\ shortcutHidden' = TRUE /\ readerAway' = FALSE
          /\ lastTop' = top /\ scrolled' = FALSE
          /\ UNCHANGED <<top, frame>>
       \/ /\ ~dragged /\ ~atEdge /\ mode = "detached"
          /\ shortcutHidden' = near(top, height, client) /\ lastTop' = top /\ scrolled' = FALSE
          /\ UNCHANGED <<top, mode, frame, readerAway>>
    /\ UNCHANGED <<client, height, pointer, observed, motion, viewShown, positions>>

----------------------------------------------------------------------------
(* followLatest: a message was sent, or the end asked for when it is there.*)
FollowLatest ==
    /\ mode' = "following" /\ frame' = FALSE /\ shortcutHidden' = TRUE
    /\ ScrollsTo(bottom, height, client) /\ lastTop' = top'
    /\ readerAway' = FALSE /\ covered' = FALSE
    /\ UNCHANGED <<client, height, pointer, observed, motion, viewShown, positions>>

(* scrollToBottom: an animated return, or at once when the end is there.   *)
ScrollToBottom ==
    /\ top # bottom
    /\ mode' = "returning" /\ frame' = TRUE /\ shortcutHidden' = near(top, height, client)
    /\ readerAway' = FALSE
    /\ UNCHANGED <<client, height, top, lastTop, pointer, scrolled, observed, motion, viewShown,
                   positions, covered>>

(* One frame of the return: part of the way, to where the end is now.      *)
Step ==
    /\ frame /\ mode = "returning"
    /\ \E t \in 0..bottom :
          /\ t > top \/ t = bottom
          /\ ScrollsTo(t, height, client) /\ lastTop' = t
          /\ frame' = (t # bottom)
          /\ mode' = IF t = bottom THEN "following" ELSE mode
          /\ shortcutHidden' = (t = bottom \/ near(t, height, client))
          /\ covered' = (covered /\ t # bottom)
    /\ UNCHANGED <<client, height, pointer, observed, motion, viewShown, positions,
                   readerAway>>

(* Another view is selected (Workspace): its content is rendered, the hook's*)
(* own effect runs, and then the position is stored for the view left and  *)
(* the one of the new view restored.                                       *)
rendered(h) ==
    IF mode = "following" \/ top > BottomOf(h, client) THEN BottomOf(h, client) ELSE top

restorePosition(t, h) ==
    LET goal == IF t = NoPosition \/ t > BottomOf(h, client) THEN BottomOf(h, client) ELSE t
        edge == distanceFromBottom(goal, h, client) <= Edge
    IN  /\ ScrollsTo(goal, h, client) /\ lastTop' = goal /\ frame' = FALSE
        /\ mode' = IF edge THEN "following" ELSE "detached"
        /\ shortcutHidden' = (edge \/ near(goal, h, client))

Selects ==
    \E v \in Views \ {viewShown}, h \in 0..MaxHeight :
        /\ viewShown' = v /\ height' = h /\ observed' = (observed \/ h # height)
        /\ positions' = [positions EXCEPT ![viewShown] = rendered(h)]
        /\ restorePosition(positions[v], h)
        /\ readerAway' = FALSE /\ covered' = FALSE
        /\ UNCHANGED <<client, pointer, motion>>

ScrollNext ==
    \/ Renders \/ Grows \/ Observes \/ Resizes
    \/ Up \/ Down \/ Grabs \/ Scrolls \/ LetsGo
    \/ OnScroll \/ FollowLatest \/ ScrollToBottom \/ Step \/ Selects

ScrollSpec == ScrollInit /\ [][ScrollNext]_scrollVars

----------------------------------------------------------------------------
(* When the browser has delivered every scroll event and observation, the  *)
(* mode tells the truth: following is at the live edge with the shortcut   *)
(* hidden, letting go shows the shortcut exactly when the end is far, and  *)
(* returning has its next frame.  The exception is a visible part that     *)
(* shrank since: nothing here observes the container itself.               *)
ModeIsTrue ==
    ~scrolled /\ ~observed /\ ~covered =>
        /\ mode = "following" => atEdge /\ shortcutHidden
        /\ mode = "detached" => shortcutHidden = near(top, height, client)
        /\ mode = "returning" => frame

(* While the user reads further up, rendering, measuring, scroll events and*)
(* left-over frames never move the view: only the user's own motion does,  *)
(* or content that shrinks under it.  Reading ends when a scroll event     *)
(* finds the live edge, when the user asks for the end, sends a message or *)
(* selects another view.                                                   *)
ReaderStaysPut ==
    [][readerAway /\ readerAway' =>
           \/ Scrolls
           \/ top' = IF top > BottomOf(height', client') THEN BottomOf(height', client')
                     ELSE top]_scrollVars

(* What Workspace means by its stored positions: the view selected again is*)
(* where it was left.  TLC refutes it: the position is read after the new  *)
(* view's content has been rendered.                                       *)
PlaceIsKept == [][viewShown' # viewShown => positions'[viewShown] = top]_scrollVars

\* The view follows when it says so and never moves under a reader.
\* (useChatAutoScroll)
ScrollSound == []ModeIsTrue /\ ReaderStaysPut
============================================================================
