------------------------------ MODULE Gestures ------------------------------
(***************************************************************************)
(* The gestures of a terminal pane: the long press that selects text       *)
(* (terminalTouchSelect.ts) and the handle that resizes the file panel     *)
(* (useFilesResize.ts). Both begin and end with events of the browser, and *)
(* an end can be missing: a touch is cancelled, or the handle leaves the   *)
(* page while it is dragged.                                               *)
(***************************************************************************)
EXTENDS Client, Integers, FiniteSetsExt

CONSTANTS
    MaxFingers,
    Positions,          \* of the pointer, from the left
    FILES_DEFAULT_W, FILES_MIN_W, RESIZE_STEP,
    MaxFilesWidth       \* bounds the width a change starts from

ASSUME GesturesAssumption ==
    /\ MaxFingers \in Nat \ {0} /\ Positions \subseteq Int
    /\ {FILES_DEFAULT_W, FILES_MIN_W, RESIZE_STEP, MaxFilesWidth} \subseteq Nat
    /\ FILES_DEFAULT_W >= FILES_MIN_W
    /\ Null \notin [startX : Int, startWidth : Int]

VARIABLES
    fingers,       \* on the terminal
    pressTimer,    \* the timer of the long press runs
    selecting,
    mouseHeld,     \* xterm saw a mousedown and no mouseup yet
    touchLost,     \* ghost: a touchcancel took the end of a selection
    showFiles,
    filesWidth,
    storedWidth,   \* localStorage, one for all panes; the default when there is none
    otherStored,   \* ghost: another pane stored its width since this one did
    drag,          \* dragRef: [startX, startWidth], or Null; resizing
    pointer,       \* where the pointer is
    held,          \* the button is down on the handle
    handleLost     \* ghost: the handle left the page while it was dragged

touchVars == <<fingers, pressTimer, selecting, mouseHeld, touchLost>>
filesVars == <<showFiles, filesWidth, storedWidth, otherStored, drag, pointer, held, handleLost>>
gestureVars == <<fingers, pressTimer, selecting, mouseHeld, touchLost,
                 showFiles, filesWidth, storedWidth, otherStored, drag, pointer, held, handleLost>>

GesturesInit ==
    /\ fingers = 0 /\ pressTimer = FALSE /\ selecting = FALSE
    /\ mouseHeld = FALSE /\ touchLost = FALSE
    /\ showFiles = FALSE
    /\ filesWidth = FILES_DEFAULT_W /\ storedWidth = FILES_DEFAULT_W
    /\ otherStored = FALSE
    /\ drag = Null /\ pointer \in Positions /\ held = FALSE /\ handleLost = FALSE

-----------------------------------------------------------------------------
(* The long press *)

\* Only the first finger starts the timer.
onTouchStart ==
    /\ fingers < MaxFingers
    /\ fingers' = fingers + 1
    /\ pressTimer' = (pressTimer \/ fingers = 0)
    /\ UNCHANGED <<selecting, mouseHeld, touchLost>> /\ UNCHANGED filesVars

LongPress ==
    /\ pressTimer /\ pressTimer' = FALSE
    /\ selecting' = TRUE
    /\ mouseHeld' = TRUE
    /\ touchLost' = FALSE
    /\ UNCHANGED fingers /\ UNCHANGED filesVars

\* A move past MOVE_CANCEL_PX before the press was long enough is a scroll.
onTouchMove ==
    /\ fingers > 0 /\ ~selecting
    /\ pressTimer' = FALSE
    /\ UNCHANGED <<fingers, selecting, mouseHeld, touchLost>> /\ UNCHANGED filesVars

\* Variant: the timer goes on when a finger is lifted.
onTouchEndTimerRuns ==
    /\ fingers > 0 /\ fingers' = fingers - 1
    /\ selecting' = FALSE
    /\ mouseHeld' = (mouseHeld /\ ~selecting)
    /\ UNCHANGED <<pressTimer, touchLost>> /\ UNCHANGED filesVars

\* Any finger that is lifted ends the selection.
onTouchEnd ==
    /\ fingers > 0 /\ fingers' = fingers - 1
    /\ pressTimer' = FALSE
    /\ selecting' = FALSE
    /\ mouseHeld' = (mouseHeld /\ ~selecting)
    /\ UNCHANGED touchLost /\ UNCHANGED filesVars

\* The system takes the touches over; no mouseup is made up.
onTouchCancel ==
    /\ fingers > 0 /\ fingers' = 0
    /\ pressTimer' = FALSE
    /\ selecting' = FALSE
    /\ touchLost' = (touchLost \/ selecting)
    /\ UNCHANGED mouseHeld /\ UNCHANGED filesVars

\* registerTouchSelect's cleanup, and a new terminal under the fingers.
NewTerminal ==
    /\ pressTimer' = FALSE /\ selecting' = FALSE
    /\ mouseHeld' = FALSE /\ touchLost' = FALSE
    /\ fingers' = 0

TerminalReplaced == NewTerminal /\ UNCHANGED filesVars

-----------------------------------------------------------------------------
(* The file panel's width *)

clampFilesWidth(w) == Max({FILES_MIN_W, w})

\* The panel is anchored at the right: to the left it grows.
DraggedWidth(x) == clampFilesWidth(drag.startWidth + (drag.startX - x))

Stores(w) == storedWidth' = w /\ otherStored' = FALSE

\* A panel in another pane or another tab; this one does not hear of it.
OtherPanelStores ==
    /\ \E w \in FILES_MIN_W..MaxFilesWidth : storedWidth' = w
    /\ otherStored' = TRUE
    /\ UNCHANGED <<showFiles, filesWidth, drag, pointer, held, handleLost>>
    /\ UNCHANGED touchVars

\* storedFilesWidth, when the pane is mounted again.
PaneMounted ==
    /\ NewTerminal
    /\ showFiles' = FALSE
    /\ filesWidth' = clampFilesWidth(storedWidth)
    /\ drag' = Null /\ held' = FALSE /\ handleLost' = FALSE /\ otherStored' = FALSE
    /\ UNCHANGED <<storedWidth, pointer>>

TogglesFiles ==
    /\ showFiles' = ~showFiles
    /\ held' = FALSE
    /\ handleLost' = (handleLost \/ held)
    /\ UNCHANGED <<filesWidth, storedWidth, otherStored, drag, pointer>> /\ UNCHANGED touchVars

onResizePointerDown ==
    /\ showFiles /\ ~held /\ filesWidth <= MaxFilesWidth
    /\ held' = TRUE /\ handleLost' = FALSE
    /\ drag' = [startX |-> pointer, startWidth |-> filesWidth]
    /\ UNCHANGED <<showFiles, filesWidth, storedWidth, otherStored, pointer>>
    /\ UNCHANGED touchVars

\* Over the handle, held or not.
onResizePointerMove ==
    /\ showFiles
    /\ pointer' \in Positions \ {pointer}
    /\ filesWidth' = IF drag = Null THEN filesWidth ELSE DraggedWidth(pointer')
    /\ UNCHANGED <<showFiles, storedWidth, otherStored, drag, held, handleLost>>
    /\ UNCHANGED touchVars

\* Variant: the width of the last move is stored.
endResizeLagging(x) ==
    /\ drag # Null
    /\ drag' = Null
    /\ filesWidth' = DraggedWidth(x)
    /\ Stores(filesWidth)

endResize(x) ==
    /\ drag # Null
    /\ drag' = Null
    /\ filesWidth' = DraggedWidth(x)
    /\ Stores(DraggedWidth(x))

\* pointerup, or pointercancel, where the pointer is by then.
PointerReleased ==
    /\ showFiles
    /\ held' = FALSE
    /\ pointer' \in Positions
    /\ endResize(pointer')
    /\ handleLost' = FALSE
    /\ UNCHANGED showFiles /\ UNCHANGED touchVars

\* Home, or a double click
resetFilesWidth ==
    /\ showFiles
    /\ filesWidth' = FILES_DEFAULT_W /\ Stores(FILES_DEFAULT_W)
    /\ UNCHANGED <<showFiles, drag, pointer, held, handleLost>> /\ UNCHANGED touchVars

onResizeKeyDown ==
    /\ showFiles /\ filesWidth <= MaxFilesWidth
    /\ \E delta \in {RESIZE_STEP, -RESIZE_STEP} : filesWidth' = clampFilesWidth(filesWidth + delta)
    /\ Stores(filesWidth')
    /\ UNCHANGED <<showFiles, drag, pointer, held, handleLost>> /\ UNCHANGED touchVars

-----------------------------------------------------------------------------
GesturesNext ==
    \/ onTouchStart \/ LongPress \/ onTouchMove \/ onTouchEnd \/ onTouchCancel \/ TerminalReplaced
    \/ TogglesFiles \/ onResizePointerDown \/ onResizePointerMove \/ PointerReleased
    \/ resetFilesWidth \/ onResizeKeyDown \/ OtherPanelStores \/ PaneMounted

GesturesSpec == GesturesInit /\ [][GesturesNext]_gestureVars

-----------------------------------------------------------------------------
(* Properties *)

\* xterm's mouse button is down only while a selection is made, and a selection
\* is made, or about to be, only with a finger on the terminal, whatever other
\* fingers came and went. A touchcancel is the one event that leaves it down.
SelectionReleased ==
    /\ pressTimer \/ selecting => fingers > 0
    /\ mouseHeld => selecting \/ touchLost

\* Unless the panel is being dragged it has the width it stored for the next
\* visit, the position where the pointer was let go of and not that of its last
\* move, until another pane stores its own over it; and it follows the pointer
\* with the button up only when the panel was closed in mid-drag.
WidthKept ==
    /\ filesWidth >= FILES_MIN_W /\ storedWidth >= FILES_MIN_W
    /\ drag = Null /\ ~otherStored => filesWidth = storedWidth
    /\ drag # Null => held \/ handleLost
=============================================================================
