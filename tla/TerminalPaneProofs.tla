------------------------- MODULE TerminalPaneProofs -------------------------
(***************************************************************************)
(* One terminal pane: its gestures, for any number of fingers, any pointer *)
(* positions and any limits of the panel's width; its size and the text    *)
(* typed into it, for any widths, fonts and texts; the output on its way   *)
(* to it, for any bytes in reads of any size.                              *)
(***************************************************************************)
EXTENDS Gestures, TerminalView, Bridge, SequenceTheorems, TLAPS

-----------------------------------------------------------------------------
(* The long press *)

TouchType ==
    /\ fingers \in Nat
    /\ pressTimer \in BOOLEAN /\ selecting \in BOOLEAN
    /\ mouseHeld \in BOOLEAN /\ touchLost \in BOOLEAN

TouchInv == TouchType /\ SelectionReleased

\* Every touch event and the timer keep SelectionReleased.
LEMMA TouchStep == TouchInv /\ [GesturesNext]_gestureVars => TouchInv'
  <1> SUFFICES ASSUME TouchInv, [GesturesNext]_gestureVars PROVE TouchInv'
    OBVIOUS
  <1> USE DEF TouchInv, TouchType, SelectionReleased
  <1>1. CASE onTouchStart
    BY <1>1 DEF onTouchStart
  <1>2. CASE LongPress
    BY <1>2 DEF LongPress
  <1>3. CASE onTouchMove
    BY <1>3 DEF onTouchMove
  <1>4. CASE onTouchEnd
    <2>1. fingers' \in Nat
      BY <1>4 DEF onTouchEnd
    <2>2. /\ pressTimer' = FALSE /\ selecting' = FALSE /\ touchLost' = touchLost
          /\ mouseHeld' = (mouseHeld /\ ~selecting)
      BY <1>4 DEF onTouchEnd
    <2> QED
      BY <2>1, <2>2, Zenon
  <1>5. CASE onTouchCancel
    BY <1>5 DEF onTouchCancel
  <1>6. CASE TerminalReplaced \/ PaneMounted
    <2>1. NewTerminal
      BY <1>6 DEF TerminalReplaced, PaneMounted
    <2> QED
      BY <2>1 DEF NewTerminal
  <1>7. CASE UNCHANGED touchVars
    BY <1>7 DEF touchVars
  <1>8. CASE UNCHANGED gestureVars
    BY <1>8 DEF gestureVars
  <1>9. CASE \/ TogglesFiles \/ onResizePointerDown \/ onResizePointerMove \/ PointerReleased
             \/ resetFilesWidth \/ onResizeKeyDown \/ OtherPanelStores
    BY <1>7, <1>9 DEF TogglesFiles, onResizePointerDown, onResizePointerMove, PointerReleased,
                      resetFilesWidth, onResizeKeyDown, OtherPanelStores
  <1> QED
    BY <1>1, <1>2, <1>3, <1>4, <1>5, <1>6, <1>8, <1>9 DEF GesturesNext

\* xterm's mouse button is down only during a selection, with a finger on the
\* terminal, save after a touchcancel (terminalTouchSelect.ts).
THEOREM SelectionIsReleased == GesturesSpec => []SelectionReleased
  <1>1. GesturesInit => TouchInv
    <2> SUFFICES ASSUME GesturesInit PROVE TouchInv
      OBVIOUS
    <2>1. fingers \in Nat
      BY DEF GesturesInit
    <2> QED
      BY <2>1, Zenon DEF GesturesInit, TouchInv, TouchType, SelectionReleased
  <1>2. TouchInv => SelectionReleased
    BY DEF TouchInv
  <1> QED
    BY <1>1, <1>2, TouchStep, PTL DEF GesturesSpec

-----------------------------------------------------------------------------
(* The file panel's width *)

DragType == [startX : Int, startWidth : Int]

WidthType ==
    /\ filesWidth \in Int /\ storedWidth \in Int /\ pointer \in Int
    /\ held \in BOOLEAN /\ handleLost \in BOOLEAN /\ otherStored \in BOOLEAN
    /\ drag = Null \/ drag \in DragType

WidthInv == WidthType /\ WidthKept

\* clampFilesWidth returns a width of at least the minimum.
LEMMA ClampedWidth ==
  ASSUME NEW w \in Int
  PROVE  clampFilesWidth(w) \in Int /\ clampFilesWidth(w) >= FILES_MIN_W
  <1>1. FILES_MIN_W \in Int
    BY GesturesAssumption
  <1>2. \E x \in {FILES_MIN_W, w} : \A y \in {FILES_MIN_W, w} : x >= y
    <2>1. CASE FILES_MIN_W >= w
      BY <1>1, <2>1
    <2>2. CASE w >= FILES_MIN_W
      BY <1>1, <2>2
    <2> QED
      BY <1>1, <2>1, <2>2
  <1> QED
    BY <1>1, <1>2 DEF clampFilesWidth, Max

\* The width of a drag is an allowed one, wherever the pointer is.
LEMMA DraggedWidthType ==
  ASSUME drag \in DragType, NEW x \in Int
  PROVE  DraggedWidth(x) \in Int /\ DraggedWidth(x) >= FILES_MIN_W
  <1>1. drag.startWidth + (drag.startX - x) \in Int
    BY DEF DragType
  <1> QED
    BY <1>1, ClampedWidth DEF DraggedWidth

\* Every event of the handle keeps WidthKept.
LEMMA WidthStep == WidthInv /\ [GesturesNext]_gestureVars => WidthInv'
  <1> SUFFICES ASSUME WidthInv, [GesturesNext]_gestureVars PROVE WidthInv'
    OBVIOUS
  <1> USE DEF WidthInv, WidthType, WidthKept
  <1>0. /\ FILES_DEFAULT_W \in Int /\ FILES_MIN_W \in Int /\ RESIZE_STEP \in Int
        /\ FILES_DEFAULT_W >= FILES_MIN_W /\ Positions \subseteq Int /\ MaxFilesWidth \in Int
    BY GesturesAssumption
  <1>1. CASE TogglesFiles
    BY <1>1 DEF TogglesFiles
  <1>2. CASE onResizePointerDown
    <2>1. drag' \in DragType /\ drag' # Null
      BY <1>2, GesturesAssumption DEF onResizePointerDown, DragType
    <2> QED
      BY <1>2, <2>1 DEF onResizePointerDown
  <1>3. CASE onResizePointerMove
    <2>1. pointer' \in Int
      BY <1>0, <1>3 DEF onResizePointerMove
    <2>2. CASE drag = Null
      BY <1>3, <2>1, <2>2 DEF onResizePointerMove
    <2>3. CASE drag # Null
      <3>1. DraggedWidth(pointer') \in Int /\ DraggedWidth(pointer') >= FILES_MIN_W
        BY <2>1, <2>3, DraggedWidthType
      <3> QED
        BY <1>3, <2>1, <2>3, <3>1 DEF onResizePointerMove
    <2> QED
      BY <2>2, <2>3
  <1>4. CASE PointerReleased
    <2>1. pointer' \in Int /\ drag \in DragType
      BY <1>0, <1>4 DEF PointerReleased, endResize
    <2>2. DraggedWidth(pointer') \in Int /\ DraggedWidth(pointer') >= FILES_MIN_W
      BY <2>1, DraggedWidthType
    <2> QED
      BY <1>4, <2>1, <2>2 DEF PointerReleased, endResize, Stores
  <1>5. CASE resetFilesWidth
    BY <1>0, <1>5 DEF resetFilesWidth, Stores
  <1>6. CASE onResizeKeyDown
    <2>1. PICK delta \in {RESIZE_STEP, -RESIZE_STEP} : filesWidth' = clampFilesWidth(filesWidth + delta)
      BY <1>6 DEF onResizeKeyDown
    <2>2. filesWidth + delta \in Int
      BY <1>0
    <2>3. filesWidth' \in Int /\ filesWidth' >= FILES_MIN_W
      BY <2>1, <2>2, ClampedWidth
    <2> QED
      BY <1>6, <2>3 DEF onResizeKeyDown, Stores
  <1>7. CASE UNCHANGED filesVars
    BY <1>7 DEF filesVars
  <1>8. CASE UNCHANGED gestureVars
    BY <1>8 DEF gestureVars
  <1>9. CASE \/ onTouchStart \/ LongPress \/ onTouchMove \/ onTouchEnd \/ onTouchCancel
             \/ TerminalReplaced
    BY <1>7, <1>9 DEF onTouchStart, LongPress, onTouchMove, onTouchEnd, onTouchCancel,
                      TerminalReplaced
  <1>10. CASE OtherPanelStores
    BY <1>0, <1>10 DEF OtherPanelStores
  <1>11. CASE PaneMounted
    <2>1. filesWidth' = storedWidth
      BY <1>0, <1>11 DEF PaneMounted, clampFilesWidth, Max
    <2> QED
      BY <1>11, <2>1 DEF PaneMounted
  <1> QED
    BY <1>1, <1>2, <1>3, <1>4, <1>5, <1>6, <1>8, <1>9, <1>10, <1>11 DEF GesturesNext

\* Unless it is being dragged the panel has the width it stored, until another
\* pane stores its own over it, never less than the minimum; and it is dragged
\* with the button up only after it was closed in mid-drag. For any widths that
\* the other panes store at any time (useFilesResize.ts).
THEOREM WidthIsKept == GesturesSpec => []WidthKept
  <1>1. GesturesInit => WidthInv
    <2> SUFFICES ASSUME GesturesInit PROVE WidthInv
      OBVIOUS
    <2>1. /\ FILES_DEFAULT_W \in Int /\ FILES_DEFAULT_W >= FILES_MIN_W
          /\ Positions \subseteq Int
      BY GesturesAssumption
    <2> QED
      BY <2>1, Zenon DEF GesturesInit, WidthInv, WidthType, WidthKept
  <1>2. WidthInv => WidthKept
    BY DEF WidthInv
  <1> QED
    BY <1>1, <1>2, WidthStep, PTL DEF GesturesSpec

-----------------------------------------------------------------------------
(* The terminal's size *)

Messages == [type : {"resize"}, cols : Nat] \cup [type : {"input"}, data : Seq(Nat)]

\* The size the PTY will have once it has read what was sent.
WillBe(c) ==
    \/ /\ pty = c
       /\ \A k \in 1..Len(wire) : wire[k].type # "resize"
    \/ \E k \in 1..Len(wire) :
          /\ wire[k].type = "resize" /\ wire[k].cols = c
          /\ \A l \in (k + 1)..Len(wire) : wire[l].type # "resize"

\* Unless the browser still has to report a width or a fit was put off for a
\* composition, the fit is done and the PTY has been told.
SizeInv ==
    /\ width \in Widths /\ fontSize \in FontSizes
    /\ wire \in Seq(Messages) /\ draft \in Seq(Nat) /\ typed \in Nat
    /\ ime \in BOOLEAN /\ composing = ime /\ pendingFit \in BOOLEAN
    /\ pendingFit => composing
    /\ observed = width /\ ~pendingFit => cols = Fit(width, fontSize)
    /\ link = "open" /\ observed = width /\ ~pendingFit => WillBe(Fit(width, fontSize))

\* fitFullWidth gives a number of columns.
LEMMA FitType ==
  ASSUME NEW w \in Nat, NEW f \in Nat \ {0}
  PROVE  Fit(w, f) \in Nat
  <1>1. w \div f \in Nat
    OBVIOUS
  <1>2. \E x \in {MIN_COLS, w \div f} : \A y \in {MIN_COLS, w \div f} : x >= y
    <2>1. CASE MIN_COLS >= w \div f
      BY <1>1, <2>1 DEF MIN_COLS
    <2>2. CASE w \div f >= MIN_COLS
      BY <1>1, <2>2 DEF MIN_COLS
    <2> QED
      BY <1>1, <2>1, <2>2 DEF MIN_COLS
  <1> QED
    BY <1>1, <1>2 DEF Fit, Max, MIN_COLS

\* A resize sent last is what the PTY will be.
LEMMA ResizeSent ==
  ASSUME wire \in Seq(Messages), NEW c \in Nat, wire' = Append(wire, Resize(c))
  PROVE  wire' \in Seq(Messages) /\ WillBe(c)'
  <1>1. Resize(c) \in Messages
    BY DEF Resize, Messages
  <1>2. wire' \in Seq(Messages) /\ Len(wire') = Len(wire) + 1 /\ wire'[Len(wire) + 1] = Resize(c)
    BY <1>1
  <1> QED
    BY <1>2 DEF WillBe, Resize

\* An input does not change the size the PTY will have.
LEMMA InputSent ==
  ASSUME wire \in Seq(Messages), NEW t \in Seq(Nat), NEW c, WillBe(c),
         wire' = Append(wire, Input(t)), pty' = pty
  PROVE  WillBe(c)'
  <1>1. /\ Len(wire') = Len(wire) + 1 /\ wire'[Len(wire) + 1].type = "input"
        /\ \A k \in 1..Len(wire) : wire'[k] = wire[k]
        /\ Len(wire) \in Nat
    BY DEF Input
  <1>2. CASE pty = c /\ \A k \in 1..Len(wire) : wire[k].type # "resize"
    BY <1>1, <1>2 DEF WillBe
  <1>3. ASSUME NEW k \in 1..Len(wire), wire[k].type = "resize", wire[k].cols = c,
               \A l \in (k + 1)..Len(wire) : wire[l].type # "resize"
        PROVE  WillBe(c)'
    <2>1. \A l \in (k + 1)..Len(wire') : wire'[l].type # "resize"
      BY <1>1, <1>3
    <2>2. k \in 1..Len(wire') /\ wire'[k] = wire[k]
      BY <1>1
    <2> QED
      BY <1>3, <2>1, <2>2 DEF WillBe
  <1> QED
    BY <1>2, <1>3 DEF WillBe

\* Nor does reading what was sent.
LEMMA ResizeRead ==
  ASSUME wire \in Seq(Messages), NEW c, WillBe(c), PtyReads
  PROVE  WillBe(c)'
  <1>1. /\ wire # <<>> /\ Len(wire') = Len(wire) - 1 /\ Len(wire) \in Nat \ {0}
        /\ \A k \in 1..(Len(wire) - 1) : wire'[k] = wire[k + 1]
    BY HeadTailProperties DEF PtyReads
  <1>2. CASE \E k \in 2..Len(wire) : /\ wire[k].type = "resize" /\ wire[k].cols = c
                                    /\ \A l \in (k + 1)..Len(wire) : wire[l].type # "resize"
    <2>1. PICK k \in 2..Len(wire) : /\ wire[k].type = "resize" /\ wire[k].cols = c
                                    /\ \A l \in (k + 1)..Len(wire) : wire[l].type # "resize"
      BY <1>2
    <2>2. /\ k - 1 \in 1..Len(wire') /\ wire'[k - 1] = wire[k]
          /\ \A l \in k..Len(wire') : wire'[l].type # "resize"
      BY <1>1, <2>1
    <2> QED
      BY <2>1, <2>2 DEF WillBe
  <1>3. CASE \A k \in 2..Len(wire) : wire[k].type # "resize"
    <2>1. \A k \in 1..Len(wire') : wire'[k].type # "resize"
      BY <1>1, <1>3
    <2>2. pty' = c
      BY <1>1, <1>3 DEF PtyReads, WillBe
    <2> QED
      BY <2>1, <2>2 DEF WillBe
  <1> QED
    BY <1>1, <1>2, <1>3 DEF WillBe

\* doFit leaves the terminal fitted and the PTY told, or a fit put off.
LEMMA DoFitKeeps ==
  ASSUME SizeInv, doFit, width' \in Widths, fontSize' \in FontSizes, link' = link \/ link' = "open",
         UNCHANGED <<ime, composing, draft, typed>>
  PROVE  SizeInv'
  <1> USE DEF SizeInv
  <1>1. PICK c \in Nat : c = Fit(width', fontSize')
    BY FitType, TerminalViewAssumption
  <1>2. CASE composing
    BY <1>2 DEF doFit
  <1>3. CASE ~composing
    <2>1. /\ cols' = c /\ pendingFit' = pendingFit /\ ~pendingFit'
          /\ wire' = IF link' = "open" THEN Append(wire, Resize(c)) ELSE wire
      BY <1>1, <1>3 DEF doFit, FitAndSend
    <2>2. link' = "open" => wire' \in Seq(Messages) /\ WillBe(c)'
      BY <2>1, ResizeSent
    <2>3. wire' \in Seq(Messages)
      BY <2>1, <2>2
    <2>4. link' = "open" => WillBe(Fit(width, fontSize))'
      BY <1>1, <2>2 DEF WillBe
    <2> QED
      BY <1>1, <2>1, <2>3, <2>4
  <1> QED
    BY <1>2, <1>3

\* The end of a composition makes up for the fit that was put off.
LEMMA SettleKeeps ==
  ASSUME SizeInv, settleComposition, ime' = FALSE,
         UNCHANGED <<width, observed, fontSize, link, pty, draft, typed>>
  PROVE  SizeInv'
  <1> USE DEF SizeInv
  <1> DEFINE F == Fit(width, fontSize)
  <1>1. F \in Nat /\ F' = F
    BY FitType, TerminalViewAssumption
  <1>2. CASE pendingFit
    <2>1. /\ cols' = F /\ pendingFit' = FALSE /\ composing' = FALSE
          /\ wire' = IF link = "open" THEN Append(wire, Resize(F)) ELSE wire
      BY <1>2 DEF settleComposition, FitAndSend
    <2>2. link = "open" => wire' \in Seq(Messages) /\ WillBe(F)'
      BY <1>1, <2>1, ResizeSent
    <2>3. wire' \in Seq(Messages)
      BY <2>1, <2>2
    <2> QED
      BY <1>1, <2>1, <2>2, <2>3
  <1>3. CASE ~pendingFit
    <2>1. UNCHANGED <<pendingFit, cols, wire>> /\ composing' = FALSE
      BY <1>3 DEF settleComposition
    <2>2. WillBe(F) => WillBe(F)'
      BY <1>1, <2>1 DEF WillBe
    <2> QED
      BY <1>1, <1>3, <2>1, <2>2
  <1> QED
    BY <1>2, <1>3

\* Sending the text of the box leaves the sizes alone.
LEMMA FlushKeeps ==
  ASSUME SizeInv, flush \/ UNCHANGED <<draft, wire>>, UNCHANGED viewVars, typed' = typed
  PROVE  SizeInv'
  <1> USE DEF SizeInv, viewVars
  <1>1. CASE wire' = wire /\ draft' \in Seq(Nat)
    BY <1>1 DEF WillBe
  <1>2. CASE wire' = Append(wire, Input(draft)) /\ draft' \in Seq(Nat)
    <2>1. Input(draft) \in Messages
      BY DEF Input, Messages
    <2>2. wire' \in Seq(Messages)
      BY <1>2, <2>1
    <2>3. \A c : WillBe(c) => WillBe(c)'
      BY <1>2, InputSent
    <2> QED
      BY <1>2, <2>2, <2>3
  <1>3. flush => draft' \in Seq(Nat) /\ (wire' = wire \/ wire' = Append(wire, Input(draft)))
    BY DEF flush, Sent
  <1> QED
    BY <1>1, <1>2, <1>3

\* Every event of the pane keeps SizeInv.
LEMMA SizeStep == SizeInv /\ [TerminalNext]_terminalVars => SizeInv'
  <1> SUFFICES ASSUME SizeInv, [TerminalNext]_terminalVars PROVE SizeInv'
    OBVIOUS
  <1>1. CASE PaneResized
    BY <1>1, TerminalViewAssumption DEF PaneResized, SizeInv, inputVars
  <1>2. CASE ResizeObserved
    BY <1>2, DoFitKeeps DEF ResizeObserved, inputVars, SizeInv
  <1>3. CASE FontChanged
    BY <1>3, DoFitKeeps DEF FontChanged, inputVars, SizeInv
  <1>4. CASE onCompositionStart
    BY <1>4 DEF onCompositionStart, SizeInv, inputVars, WillBe
  <1>5. CASE CompositionEnds
    BY <1>5, SettleKeeps DEF CompositionEnds, inputVars
  <1>6. CASE FocusLostComposing
    BY <1>6, SettleKeeps DEF FocusLostComposing, onBlur, inputVars, SizeInv
  <1>7. CASE Opens
    BY <1>7, DoFitKeeps DEF Opens, inputVars, SizeInv
  <1>8. CASE Closes
    BY <1>8 DEF Closes, Left, SizeInv
  <1>9. CASE PtyReads
    <2>1. wire' \in Seq(Messages)
      BY <1>9, HeadTailProperties DEF PtyReads, SizeInv
    <2>2. \A c : WillBe(c) => WillBe(c)'
      BY <1>9, ResizeRead DEF SizeInv
    <2> QED
      BY <1>9, <2>1, <2>2 DEF PtyReads, SizeInv
  <1>10. CASE Remounted
    <2>1. /\ wire' \in Seq(Messages) /\ draft' \in Seq(Nat)
          /\ ime' = FALSE /\ composing' = FALSE /\ pendingFit' = FALSE /\ link' # "open"
          /\ cols' = Fit(width, fontSize) /\ UNCHANGED <<width, fontSize, typed>>
      BY <1>10 DEF Remounted, Left
    <2> QED
      BY <2>1 DEF SizeInv
  <1>11. CASE Types
    <2>1. draft' \in Seq(Nat) /\ typed' \in Nat
      BY <1>11 DEF Types, SizeInv
    <2> QED
      BY <1>11, <2>1 DEF Types, SizeInv, viewVars, WillBe
  <1>12. CASE SendsText
    BY <1>12, FlushKeeps DEF SendsText
  <1>13. CASE FocusMoves
    BY <1>13, FlushKeeps DEF FocusMoves
  <1>14. ASSUME NEW c \in DOMAIN past, PastReads(c) \/ PastLost(c) PROVE SizeInv'
    <2>1. UNCHANGED <<wire, draft, typed>> /\ UNCHANGED viewVars
      BY <1>14 DEF PastReads, PastLost
    <2> QED
      BY <2>1 DEF viewVars, SizeInv, WillBe
  <1>15. CASE UNCHANGED terminalVars
    BY <1>15 DEF terminalVars, SizeInv, WillBe
  <1> QED
    BY <1>1, <1>2, <1>3, <1>4, <1>5, <1>6, <1>7, <1>8, <1>9, <1>10, <1>11, <1>12, <1>13, <1>14,
       <1>15
       DEF TerminalNext

\* With nothing under way the PTY has the size that fits the pane and the
\* font: no fit is forgotten over a composition, a closed connection or a new
\* attach (doFit, settleComposition, onOpen).
THEOREM PtyFitsPane == TerminalSpec => []PtyFits
  <1>1. TerminalInit => SizeInv
    <2> SUFFICES ASSUME TerminalInit PROVE SizeInv
      OBVIOUS
    <2>1. wire \in Seq(Messages) /\ draft \in Seq(Nat) /\ typed \in Nat /\ link # "open"
      BY DEF TerminalInit
    <2> QED
      BY <2>1, Zenon DEF TerminalInit, SizeInv
  <1>2. SizeInv => PtyFits
    <2> SUFFICES ASSUME SizeInv, link = "open", wire = <<>>, ~ime, observed = width
                 PROVE  cols = Fit(width, fontSize) /\ pty = cols
      BY DEF PtyFits
    <2>1. ~pendingFit
      BY DEF SizeInv
    <2>2. cols = Fit(width, fontSize) /\ WillBe(Fit(width, fontSize))
      BY <2>1 DEF SizeInv
    <2> QED
      BY <2>2 DEF WillBe
  <1> QED
    BY <1>1, <1>2, SizeStep, PTL DEF TerminalSpec

-----------------------------------------------------------------------------
(* The text box of phones *)

UpTo(s, n) == \A i \in 1..Len(s) : s[i] <= n
Elems(s) == {s[i] : i \in 1..Len(s)}

\* A connection delivered the texts r and has the messages q on their way: in
\* the order they were typed, and all of them, in no order.
Ordered(r, q) ==
    /\ Increasing(r)
    /\ \A k \in 1..Len(q) : Increasing(TextOf(q[k])) /\ Precedes(r, TextOf(q[k]))
    /\ \A k, l \in 1..Len(q) : k < l => Precedes(TextOf(q[k]), TextOf(q[l]))
Carried(r, q) == Elems(r) \cup UNION {Elems(TextOf(q[k])) : k \in 1..Len(q)}

\* The messages on their way over the c-th connection, and its texts.
Under(c) == IF c = Len(received) THEN wire ELSE past[c]
Over(c) == Carried(received[c], Under(c))

InputType ==
    /\ received \in Seq(Seq(Nat)) /\ past \in Seq(Seq(Messages)) /\ wire \in Seq(Messages)
    /\ Len(received) = Len(past) + 1
    /\ draft \in Seq(Nat) /\ typed \in Nat

\* Each connection carries its texts in order, those of one before those of the
\* next, and the box holds later ones; none is later than the last one typed.
InputInv ==
    /\ InputType
    /\ Increasing(draft) /\ UpTo(draft, typed)
    /\ \A c \in 1..Len(received) : Ordered(received[c], Under(c))
    /\ \A c \in 1..Len(received) : \A x \in Over(c) : x <= typed /\ \A y \in Elems(draft) : x < y
    /\ \A c, d \in 1..Len(received) : c < d => \A x \in Over(c), y \in Over(d) : x < y

\* The text of a message is a sequence of texts.
LEMMA TextType ==
  ASSUME NEW m \in Messages
  PROVE  TextOf(m) \in Seq(Nat) /\ m.type \in {"resize", "input"}
  BY DEF TextOf, Messages

\* What a connection carries are numbers of texts.
LEMMA CarriedType ==
  ASSUME NEW r \in Seq(Nat), NEW q \in Seq(Messages)
  PROVE  Carried(r, q) \subseteq Nat
  <1>1. \A k \in 1..Len(q) : TextOf(q[k]) \in Seq(Nat)
    BY TextType
  <1>2. \A s \in Seq(Nat) : Elems(s) \subseteq Nat
    BY DEF Elems
  <1> QED
    BY <1>1, <1>2 DEF Carried

\* With nothing on its way a connection carries what it delivered.
LEMMA NothingUnderWay ==
  ASSUME NEW r \in Seq(Nat), NEW q \in Seq(Messages), Ordered(r, q)
  PROVE  Ordered(r, <<>>) /\ Carried(r, <<>>) \subseteq Carried(r, q)
  BY DEF Ordered, Carried

\* A message with later texts may follow the others.
LEMMA MessageSent ==
  ASSUME NEW r \in Seq(Nat), NEW q \in Seq(Messages), NEW m \in Messages, Ordered(r, q),
         Increasing(TextOf(m)), \A x \in Carried(r, q), y \in Elems(TextOf(m)) : x < y
  PROVE  /\ Append(q, m) \in Seq(Messages)
         /\ Ordered(r, Append(q, m))
         /\ Carried(r, Append(q, m)) \subseteq Carried(r, q) \cup Elems(TextOf(m))
  <1> DEFINE p == Append(q, m)
  <1>1. /\ p \in Seq(Messages) /\ Len(q) \in Nat /\ Len(p) = Len(q) + 1
        /\ p[Len(q) + 1] = m /\ \A k \in 1..Len(q) : p[k] = q[k]
    OBVIOUS
  <1> HIDE DEF p
  <1>2. \A k \in 1..Len(p) : \/ k \in 1..Len(q) /\ p[k] = q[k]
                             \/ k = Len(p) /\ p[k] = m
    BY <1>1
  <1>3. Precedes(r, TextOf(m)) /\ \A k \in 1..Len(q) : Precedes(TextOf(q[k]), TextOf(m))
    <2>1. /\ Elems(r) \subseteq Carried(r, q)
          /\ \A k \in 1..Len(q) : Elems(TextOf(q[k])) \subseteq Carried(r, q)
      BY DEF Carried
    <2>2. \A u, v : (\A x \in Elems(u), y \in Elems(v) : x < y) => Precedes(u, v)
      BY DEF Elems, Precedes
    <2> QED
      BY <2>1, <2>2
  <1>4. ASSUME NEW k \in 1..Len(p), NEW l \in 1..Len(p), k < l
        PROVE  Precedes(TextOf(p[k]), TextOf(p[l]))
    <2>1. k \in 1..Len(q) /\ p[k] = q[k]
      BY <1>1, <1>4
    <2> QED
      BY <1>2, <1>3, <1>4, <2>1 DEF Ordered
  <1>5. Ordered(r, p)
    BY <1>2, <1>3, <1>4 DEF Ordered
  <1>6. Carried(r, p) \subseteq Carried(r, q) \cup Elems(TextOf(m))
    BY <1>2 DEF Carried
  <1> QED
    BY <1>1, <1>5, <1>6 DEF p

\* A message that is read is delivered after the others.
LEMMA MessageRead ==
  ASSUME NEW r \in Seq(Nat), NEW q \in Seq(Messages), q # <<>>, Ordered(r, q)
  PROVE  /\ r \o TextOf(Head(q)) \in Seq(Nat) /\ Tail(q) \in Seq(Messages)
         /\ Ordered(r \o TextOf(Head(q)), Tail(q))
         /\ Carried(r \o TextOf(Head(q)), Tail(q)) \subseteq Carried(r, q)
  <1> DEFINE t == TextOf(Head(q))
             s == r \o t
             p == Tail(q)
  <1>1. /\ Len(q) \in Nat \ {0} /\ Head(q) = q[1] /\ q[1] \in Messages
        /\ p \in Seq(Messages) /\ Len(p) = Len(q) - 1
        /\ \A k \in 1..(Len(q) - 1) : p[k] = q[k + 1]
    BY HeadTailProperties
  <1>2. t \in Seq(Nat)
    BY <1>1, TextType
  <1>3. Increasing(r) /\ Increasing(t) /\ Precedes(r, t)
    BY <1>1 DEF Ordered
  <1>4. ASSUME NEW k \in 2..Len(q) PROVE Precedes(t, TextOf(q[k])) /\ Precedes(r, TextOf(q[k]))
    <2>1. 1 \in 1..Len(q) /\ k \in 1..Len(q) /\ 1 < k
      BY <1>1
    <2> QED
      BY <1>1, <2>1 DEF Ordered
  <1>5. t = TextOf(q[1]) /\ 1 \in 1..Len(q)
    BY <1>1
  <1> HIDE DEF t, p
  <1>6. /\ s \in Seq(Nat) /\ Len(s) = Len(r) + Len(t) /\ Len(r) \in Nat /\ Len(t) \in Nat
        /\ \A i \in 1..Len(r) : s[i] = r[i]
        /\ \A i \in (Len(r) + 1)..Len(s) : s[i] = t[i - Len(r)]
    BY <1>2, ConcatProperties
  <1> HIDE DEF s
  <1>7. ASSUME NEW i \in 1..Len(s), i > Len(r)
        PROVE  i - Len(r) \in 1..Len(t) /\ s[i] = t[i - Len(r)]
    <2>1. i \in (Len(r) + 1)..Len(s)
      BY <1>6, <1>7
    <2> QED
      BY <1>6, <2>1
  <1>8. Increasing(s)
    <2> SUFFICES ASSUME NEW i \in 1..Len(s), NEW j \in 1..Len(s), i < j PROVE s[i] < s[j]
      BY DEF Increasing
    <2>1. CASE j <= Len(r)
      <3>1. i \in 1..Len(r) /\ j \in 1..Len(r)
        BY <1>6, <2>1
      <3> QED
        BY <1>3, <1>6, <3>1 DEF Increasing
    <2>2. CASE i <= Len(r) /\ j > Len(r)
      <3>1. i \in 1..Len(r)
        BY <1>6, <2>2
      <3> QED
        BY <1>3, <1>6, <1>7, <2>2, <3>1 DEF Precedes
    <2>3. CASE i > Len(r)
      <3>1. j > Len(r) /\ i - Len(r) < j - Len(r)
        BY <1>6, <2>3
      <3> QED
        BY <1>3, <1>7, <2>3, <3>1 DEF Increasing
    <2> QED
      BY <1>6, <2>1, <2>2, <2>3
  <1>9. ASSUME NEW i \in 1..Len(s)
        PROVE  (\E j \in 1..Len(r) : s[i] = r[j]) \/ (\E j \in 1..Len(t) : s[i] = t[j])
    <2>1. CASE i <= Len(r)
      BY <1>6, <2>1
    <2>2. CASE i > Len(r)
      BY <1>7, <2>2
    <2> QED
      BY <1>6, <2>1, <2>2
  <1>10. \A k \in 1..Len(p) : k + 1 \in 2..Len(q) /\ k + 1 \in 1..Len(q) /\ p[k] = q[k + 1]
    BY <1>1
  <1>11. ASSUME NEW k \in 1..Len(p)
         PROVE  Increasing(TextOf(p[k])) /\ Precedes(s, TextOf(p[k]))
    <2>1. Increasing(TextOf(p[k]))
      BY <1>10 DEF Ordered
    <2>2. Precedes(t, TextOf(p[k])) /\ Precedes(r, TextOf(p[k]))
      BY <1>4, <1>10
    <2> QED
      BY <1>9, <2>1, <2>2 DEF Precedes
  <1>12. ASSUME NEW k \in 1..Len(p), NEW l \in 1..Len(p), k < l
         PROVE  Precedes(TextOf(p[k]), TextOf(p[l]))
    <2>1. k + 1 < l + 1
      BY <1>12
    <2> QED
      BY <1>10, <2>1 DEF Ordered
  <1>13. Ordered(s, p)
    BY <1>8, <1>11, <1>12 DEF Ordered
  <1>14. Carried(s, p) \subseteq Carried(r, q)
    <2>1. Elems(s) \subseteq Elems(r) \cup Elems(t)
      BY <1>9 DEF Elems
    <2> QED
      BY <1>5, <1>10, <2>1 DEF Carried
  <1> QED
    BY <1>1, <1>6, <1>13, <1>14 DEF s, p, t

\* A step that brings no connection a text it did not carry keeps InputInv.
LEMMA NoNewText ==
  ASSUME InputInv, InputType', Len(received') = Len(received), typed' = typed,
         draft' = draft \/ draft' = <<>>,
         \A c \in 1..Len(received) : /\ Ordered(received[c], Under(c))'
                                     /\ Over(c)' \subseteq Over(c)
  PROVE  InputInv'
  <1>1. Increasing(draft') /\ UpTo(draft', typed') /\ Elems(draft') \subseteq Elems(draft)
    BY DEF InputInv, Increasing, UpTo, Elems
  <1> QED
    BY <1>1 DEF InputInv

\* The last connection may take the text of the box, or a resize.
LEMMA BoxSent ==
  ASSUME InputInv, NEW m \in Messages, wire' = Append(wire, m), UNCHANGED <<past, received, typed>>,
         \/ m.type = "resize" /\ draft' = draft
         \/ m = Input(draft) /\ draft' = <<>>
  PROVE  InputInv'
  <1>0. PICK n : n = Len(received)
    OBVIOUS
  <1>1. /\ received \in Seq(Seq(Nat)) /\ wire \in Seq(Messages) /\ n \in Nat \ {0}
        /\ draft \in Seq(Nat) /\ past \in Seq(Seq(Messages)) /\ n = Len(past) + 1 /\ typed \in Nat
    BY <1>0 DEF InputInv, InputType
  <1>2. /\ received[n] \in Seq(Nat) /\ Under(n) = wire
        /\ Ordered(received[n], wire) /\ Over(n) = Carried(received[n], wire)
    <2>1. n \in 1..Len(received) /\ Under(n) = wire
      BY <1>0, <1>1 DEF Under
    <2>2. received[n] \in Seq(Nat)
      BY <1>1, <2>1
    <2> QED
      BY <2>1, <2>2 DEF InputInv, Over
  <1>3. \/ TextOf(m) = <<>> /\ draft' = draft
        \/ TextOf(m) = draft /\ draft' = <<>>
    BY DEF TextOf, Input
  <1>4. Increasing(TextOf(m)) /\ Elems(TextOf(m)) \subseteq Elems(draft)
    BY <1>3 DEF InputInv, Increasing, Elems
  <1>5. \A x \in Carried(received[n], wire), y \in Elems(TextOf(m)) : x < y
    <2>1. n \in 1..Len(received)
      BY <1>0, <1>1
    <2>2. \A x \in Over(n), y \in Elems(draft) : x < y
      BY <2>1 DEF InputInv
    <2> QED
      BY <1>2, <1>4, <2>2
  <1>6. /\ wire' \in Seq(Messages) /\ Ordered(received[n], wire')
        /\ Carried(received[n], wire') \subseteq Over(n) \cup Elems(TextOf(m))
    BY <1>1, <1>2, <1>4, <1>5, MessageSent
  <1>7. InputType'
    <2>1. <<>> \in Seq(Nat)
      OBVIOUS
    <2>2. draft' \in Seq(Nat)
      BY <1>1, <1>3, <2>1
    <2> QED
      BY <1>0, <1>1, <1>6, <2>2 DEF InputType
  <1>8. /\ Under(n)' = wire' /\ Over(n)' = Carried(received[n], wire')
        /\ \A c \in 1..n : c # n => Under(c)' = Under(c) /\ Over(c)' = Over(c)
    BY <1>0 DEF Under, Over
  <1>9. \A c \in 1..n : Ordered(received[c], Under(c))'
    BY <1>0, <1>6, <1>8 DEF InputInv
  <1>10. /\ Increasing(draft') /\ UpTo(draft', typed)
         /\ Elems(draft') \subseteq Elems(draft) /\ (Elems(draft') = {} \/ Elems(TextOf(m)) = {})
    BY <1>3 DEF InputInv, Increasing, UpTo, Elems
  <1>11. Elems(TextOf(m)) \subseteq Elems(draft) /\ \A y \in Elems(draft) : y <= typed
    BY <1>4 DEF InputInv, UpTo, Elems
  <1>12. \A c \in 1..n : \A x \in Over(c)' : x <= typed /\ \A y \in Elems(draft') : x < y
    BY <1>0, <1>6, <1>8, <1>10, <1>11 DEF InputInv
  <1>13. ASSUME NEW c \in 1..n, NEW d \in 1..n, c < d, NEW x \in Over(c)', NEW y \in Over(d)'
         PROVE  x < y
    <2>1. c # n /\ x \in Over(c)
      BY <1>1, <1>8, <1>13
    <2>2. CASE y \in Over(d)
      BY <1>0, <1>13, <2>1, <2>2 DEF InputInv
    <2>3. CASE y \notin Over(d)
      BY <1>0, <1>6, <1>8, <1>11, <1>13, <2>1, <2>3 DEF InputInv
    <2> QED
      BY <2>2, <2>3
  <1> QED
    BY <1>0, <1>7, <1>9, <1>10, <1>12, <1>13 DEF InputInv

\* The box is emptied when it is sent, and when the connection is down.
LEMMA FlushOnce ==
  ASSUME InputInv, flush \/ UNCHANGED <<draft, wire>>, UNCHANGED <<past, received, typed>>
  PROVE  InputInv'
  <1>1. InputType /\ <<>> \in Seq(Nat)
    BY DEF InputInv
  <1>2. CASE wire' = wire /\ (draft' = draft \/ draft' = <<>>)
    <2>1. InputType'
      BY <1>1, <1>2 DEF InputType
    <2>2. \A c : Under(c)' = Under(c) /\ Over(c)' = Over(c)
      BY <1>2 DEF Under, Over
    <2> QED
      BY <1>2, <2>1, <2>2, NoNewText DEF InputInv
  <1>3. CASE wire' = Append(wire, Input(draft)) /\ draft' = <<>>
    <2>1. Input(draft) \in Messages
      BY <1>1 DEF InputType, Input, Messages
    <2> QED
      BY <1>3, <2>1, BoxSent
  <1> QED
    BY <1>2, <1>3 DEF flush, Sent

\* A resize may join the messages.
LEMMA ResizeOnce ==
  ASSUME InputInv, UNCHANGED <<past, received, draft, typed>>,
         wire' = wire \/ \E c \in Nat : wire' = Append(wire, Resize(c))
  PROVE  InputInv'
  <1>1. CASE wire' = wire
    BY <1>1, FlushOnce
  <1>2. ASSUME NEW c \in Nat, wire' = Append(wire, Resize(c)) PROVE InputInv'
    <2>1. Resize(c) \in Messages /\ Resize(c).type = "resize"
      BY DEF Resize, Messages
    <2> QED
      BY <1>2, <2>1, BoxSent
  <1> QED
    BY <1>1, <1>2

\* The session gets the next message of one connection, any of them.
LEMMA ReadOnce ==
  ASSUME InputInv, NEW c \in 1..Len(received), Under(c) # <<>>, UNCHANGED <<draft, typed>>,
         Receives(c, Head(Under(c))),
         \/ c = Len(received) /\ wire' = Tail(wire) /\ past' = past
         \/ c < Len(received) /\ past' = [past EXCEPT ![c] = Tail(@)] /\ wire' = wire
  PROVE  InputInv'
  <1> DEFINE s == received[c] \o TextOf(Head(Under(c)))
  <1>1. /\ received \in Seq(Seq(Nat)) /\ past \in Seq(Seq(Messages)) /\ wire \in Seq(Messages)
        /\ Len(received) = Len(past) + 1 /\ Len(past) \in Nat
        /\ draft \in Seq(Nat) /\ typed \in Nat /\ Ordered(received[c], Under(c))
    BY DEF InputInv, InputType
  <1>2. received[c] \in Seq(Nat) /\ Under(c) \in Seq(Messages)
    BY <1>1 DEF Under
  <1>3. /\ s \in Seq(Nat) /\ Tail(Under(c)) \in Seq(Messages) /\ Ordered(s, Tail(Under(c)))
        /\ Carried(s, Tail(Under(c))) \subseteq Over(c)
    BY <1>1, <1>2, MessageRead DEF Over
  <1>4. received' = [received EXCEPT ![c] = s]
    BY DEF Receives
  <1> HIDE DEF s
  <1>5. /\ received' \in Seq(Seq(Nat)) /\ Len(received') = Len(received) /\ received'[c] = s
        /\ \A d \in 1..Len(received) : d # c => received'[d] = received[d]
    BY <1>1, <1>3, <1>4
  <1>6. /\ past' \in Seq(Seq(Messages)) /\ Len(past') = Len(past) /\ wire' \in Seq(Messages)
        /\ Under(c)' = Tail(Under(c))
        /\ \A d \in 1..Len(received) : d # c => Under(d)' = Under(d)
    <2>1. CASE c = Len(received) /\ wire' = Tail(wire) /\ past' = past
      BY <1>1, <1>3, <1>5, <2>1 DEF Under
    <2>2. CASE c < Len(received) /\ past' = [past EXCEPT ![c] = Tail(@)] /\ wire' = wire
      <3>1. c \in 1..Len(past) /\ Tail(past[c]) \in Seq(Messages) /\ Under(c) = past[c]
        BY <1>1, <1>3, <2>2 DEF Under
      <3> QED
        BY <1>1, <1>5, <2>2, <3>1 DEF Under
    <2> QED
      BY <2>1, <2>2
  <1>7. InputType'
    BY <1>1, <1>5, <1>6 DEF InputType
  <1>8. ASSUME NEW d \in 1..Len(received)
        PROVE  Ordered(received[d], Under(d))' /\ Over(d)' \subseteq Over(d)
    <2>1. CASE d = c
      BY <1>3, <1>5, <1>6, <2>1 DEF Over
    <2>2. CASE d # c
      BY <1>5, <1>6, <2>2 DEF Over, InputInv
    <2> QED
      BY <2>1, <2>2
  <1> QED
    BY <1>5, <1>7, <1>8, NoNewText

\* What an old connection had on its way may be lost.
LEMMA LostOnce ==
  ASSUME InputInv, NEW c \in 1..Len(past), PastLost(c)
  PROVE  InputInv'
  <1>1. /\ received \in Seq(Seq(Nat)) /\ past \in Seq(Seq(Messages)) /\ wire \in Seq(Messages)
        /\ Len(received) = Len(past) + 1 /\ Len(past) \in Nat
        /\ draft \in Seq(Nat) /\ typed \in Nat
    BY DEF InputInv, InputType
  <1>2. past' = [past EXCEPT ![c] = <<>>] /\ UNCHANGED <<wire, received, draft, typed>>
    BY DEF PastLost
  <1>3. /\ past' \in Seq(Seq(Messages)) /\ Len(past') = Len(past) /\ past'[c] = <<>>
        /\ \A d \in 1..Len(past) : d # c => past'[d] = past[d]
    BY <1>1, <1>2
  <1>4. InputType'
    BY <1>1, <1>2, <1>3 DEF InputType
  <1>5. ASSUME NEW d \in 1..Len(received)
        PROVE  Ordered(received[d], Under(d))' /\ Over(d)' \subseteq Over(d)
    <2>1. CASE d = c
      <3>1. /\ Under(d)' = <<>> /\ Under(d) \in Seq(Messages) /\ received[d] \in Seq(Nat)
            /\ Ordered(received[d], Under(d))
        BY <1>1, <1>2, <1>3, <2>1 DEF Under, InputInv
      <3> QED
        BY <1>2, <3>1, NothingUnderWay DEF Over
    <2>2. CASE d # c
      <3>1. Under(d)' = Under(d)
        BY <1>1, <1>2, <1>3, <2>2 DEF Under
      <3> QED
        BY <1>2, <3>1 DEF Over, InputInv
    <2> QED
      BY <2>1, <2>2
  <1> QED
    BY <1>2, <1>4, <1>5, NoNewText

\* The next connection starts with nothing.
LEMMA LeftOnce ==
  ASSUME InputInv, Left, typed' = typed, draft' = draft \/ draft' = <<>>
  PROVE  InputInv'
  <1>0. PICK n : n = Len(received)
    OBVIOUS
  <1>1. /\ received \in Seq(Seq(Nat)) /\ past \in Seq(Seq(Messages)) /\ wire \in Seq(Messages)
        /\ n = Len(past) + 1 /\ Len(past) \in Nat
        /\ draft \in Seq(Nat) /\ typed \in Nat
    BY <1>0 DEF InputInv, InputType
  <1>2. draft' \in Seq(Nat) /\ typed' \in Nat /\ wire' = <<>> /\ wire' \in Seq(Messages)
    <2>1. wire' = <<>>
      BY DEF Left
    <2>2. <<>> \in Seq(Nat) /\ <<>> \in Seq(Messages)
      OBVIOUS
    <2>3. draft' \in Seq(Nat)
      BY <1>1, <2>2
    <2> QED
      BY <1>1, <2>1, <2>2, <2>3
  <1>3. CASE UNCHANGED <<past, received>>
    <2>1. InputType'
      BY <1>0, <1>1, <1>2, <1>3 DEF InputType
    <2>2. ASSUME NEW c \in 1..n
          PROVE  Ordered(received[c], Under(c))' /\ Over(c)' \subseteq Over(c)
      <3>1. CASE c = n
        <4>1. /\ Under(c)' = <<>> /\ Under(c) \in Seq(Messages) /\ received[c] \in Seq(Nat)
              /\ Ordered(received[c], Under(c))
          <5>1. Under(c)' = <<>> /\ Under(c) = wire
            BY <1>0, <1>2, <1>3, <3>1 DEF Under
          <5>2. c \in 1..Len(received)
            BY <1>0
          <5>3. received[c] \in Seq(Nat)
            BY <1>1, <5>2
          <5> QED
            BY <1>1, <5>1, <5>2, <5>3 DEF InputInv
        <4> QED
          BY <1>3, <4>1, NothingUnderWay DEF Over
      <3>2. CASE c # n
        <4>1. Under(c)' = Under(c)
          BY <1>0, <1>3, <3>2 DEF Under
        <4> QED
          BY <1>0, <1>3, <4>1 DEF Over, InputInv
      <3> QED
        BY <3>1, <3>2
    <2> QED
      BY <1>0, <1>3, <2>1, <2>2, NoNewText
  <1>4. CASE past' = Append(past, wire) /\ received' = Append(received, <<>>)
    <2>1. /\ received' \in Seq(Seq(Nat)) /\ Len(received') = n + 1 /\ received'[n + 1] = <<>>
          /\ \A c \in 1..n : received'[c] = received[c]
      <3>1. PICK none : none = <<>>
        OBVIOUS
      <3>2. none \in Seq(Nat)
        BY <3>1
      <3>3. /\ Append(received, none) \in Seq(Seq(Nat))
            /\ Len(Append(received, none)) = Len(received) + 1
            /\ Append(received, none)[Len(received) + 1] = none
            /\ \A c \in 1..Len(received) : Append(received, none)[c] = received[c]
        BY <1>1, <3>2, AppendProperties
      <3> QED
        BY <1>0, <1>4, <3>1, <3>3
    <2>2. /\ past' \in Seq(Seq(Messages)) /\ Len(past') = n /\ past'[n] = wire
          /\ \A c \in 1..Len(past) : past'[c] = past[c]
      BY <1>0, <1>1, <1>4
    <2>3. InputType'
      BY <1>1, <1>2, <2>1, <2>2 DEF InputType
    <2>4. /\ Under(n + 1)' = <<>>
          /\ \A c \in 1..n : Under(c)' = Under(c)
      <3>1. Under(n + 1)' = <<>>
        BY <1>2, <2>1 DEF Under
      <3>2. ASSUME NEW c \in 1..n PROVE Under(c)' = Under(c)
        <4>1. c # n + 1 /\ Under(c)' = past'[c]
          BY <1>1, <2>1 DEF Under
        <4>2. c = n \/ c \in 1..Len(past)
          BY <1>1
        <4> QED
          BY <1>0, <1>1, <2>2, <4>1, <4>2 DEF Under
      <3> QED
        BY <3>1, <3>2
    <2>5. /\ Over(n + 1)' = {} /\ Ordered(received[n + 1], Under(n + 1))'
          /\ \A c \in 1..n : Over(c)' = Over(c)
      BY <2>1, <2>4 DEF Over, Carried, Elems, Ordered, Increasing
    <2>6. \A c \in 1..(n + 1) : c \in 1..n \/ c = n + 1
      BY <1>1
    <2>7. Increasing(draft') /\ UpTo(draft', typed') /\ Elems(draft') \subseteq Elems(draft)
      BY DEF InputInv, Increasing, UpTo, Elems
    <2>8. \A c \in 1..(n + 1) : Ordered(received[c], Under(c))'
      BY <1>0, <2>1, <2>4, <2>5, <2>6 DEF InputInv
    <2>9. \A c \in 1..(n + 1) : \A x \in Over(c)' : x <= typed' /\ \A y \in Elems(draft') : x < y
      BY <1>0, <2>5, <2>6, <2>7 DEF InputInv
    <2>10. \A c, d \in 1..(n + 1) : c < d => \A x \in Over(c)', y \in Over(d)' : x < y
      BY <1>0, <1>1, <2>5, <2>6 DEF InputInv
    <2> QED
      BY <2>1, <2>3, <2>7, <2>8, <2>9, <2>10 DEF InputInv
  <1> QED
    BY <1>3, <1>4 DEF Left

\* A text that is typed is later than all before it.
LEMMA TypeOnce ==
  ASSUME InputInv, Types
  PROVE  InputInv'
  <1>1. /\ received \in Seq(Seq(Nat)) /\ past \in Seq(Seq(Messages)) /\ wire \in Seq(Messages)
        /\ Len(received) = Len(past) + 1 /\ Len(past) \in Nat
        /\ draft \in Seq(Nat) /\ typed \in Nat
    BY DEF InputInv, InputType
  <1>2. /\ typed' = typed + 1 /\ typed' \in Nat /\ draft' = Append(draft, typed + 1)
        /\ UNCHANGED <<wire, past, received>>
    BY <1>1 DEF Types
  <1>3. /\ draft' \in Seq(Nat) /\ Len(draft) \in Nat /\ Len(draft') = Len(draft) + 1
        /\ \A i \in 1..Len(draft) : draft'[i] = draft[i]
        /\ draft'[Len(draft) + 1] = typed + 1
    BY <1>1, <1>2
  <1>4. \A i \in 1..Len(draft) : draft[i] \in Nat /\ draft[i] <= typed
    BY <1>1 DEF InputInv, UpTo
  <1>5. UpTo(draft', typed') /\ Increasing(draft')
    BY <1>1, <1>2, <1>3, <1>4 DEF UpTo, Increasing, InputInv
  <1>6. Elems(draft') \subseteq Elems(draft) \cup {typed + 1}
    BY <1>3 DEF Elems
  <1>7. \A c : Under(c)' = Under(c) /\ Over(c)' = Over(c)
    BY <1>2 DEF Under, Over
  <1>8. ASSUME NEW c \in 1..Len(received), NEW x \in Over(c)
        PROVE  x <= typed' /\ \A y \in Elems(draft') : x < y
    <2>1. received[c] \in Seq(Nat) /\ Under(c) \in Seq(Messages)
      BY <1>1 DEF Under
    <2>2. x \in Nat /\ x <= typed /\ \A y \in Elems(draft) : x < y
      BY <2>1, CarriedType DEF Over, InputInv
    <2> QED
      BY <1>1, <1>2, <1>6, <2>2
  <1>9. InputType'
    BY <1>1, <1>2, <1>3 DEF InputType
  <1> QED
    BY <1>2, <1>5, <1>7, <1>8, <1>9 DEF InputInv

\* Every event of the pane keeps InputInv.
LEMMA InputStep ==
  SizeInv /\ InputInv /\ [TerminalNext]_terminalVars => InputInv'
  <1> SUFFICES ASSUME SizeInv, InputInv, [TerminalNext]_terminalVars PROVE InputInv'
    OBVIOUS
  <1>1. width \in Widths /\ fontSize \in FontSizes /\ Fit(width, fontSize) \in Nat
    BY FitType, TerminalViewAssumption DEF SizeInv
  <1>2. CASE PaneResized \/ onCompositionStart
    BY <1>2, ResizeOnce DEF PaneResized, onCompositionStart, inputVars
  <1>3. CASE ResizeObserved \/ Opens
    BY <1>1, <1>3, ResizeOnce DEF ResizeObserved, Opens, doFit, FitAndSend, inputVars
  <1>4. CASE FontChanged
    <2>1. Fit(width, fontSize') \in Nat
      BY <1>1, <1>4, FitType, TerminalViewAssumption DEF FontChanged
    <2> QED
      BY <1>4, <2>1, ResizeOnce DEF FontChanged, doFit, FitAndSend, inputVars
  <1>5. CASE CompositionEnds \/ FocusLostComposing
    BY <1>1, <1>5, ResizeOnce
       DEF CompositionEnds, FocusLostComposing, onBlur, settleComposition, FitAndSend, inputVars
  <1>6. Len(received) = Len(past) + 1 /\ Len(past) \in Nat /\ DOMAIN past = 1..Len(past)
    BY DEF InputInv, InputType
  <1>7. CASE PtyReads
    <2> DEFINE n == Len(received)
    <2>1. n \in 1..Len(received) /\ Under(n) = wire
      BY <1>6 DEF Under
    <2> QED
      BY <1>7, <2>1, ReadOnce DEF PtyReads
  <1>8. ASSUME NEW c \in DOMAIN past, PastReads(c) PROVE InputInv'
    <2>1. c \in 1..Len(received) /\ c < Len(received) /\ Under(c) = past[c]
      BY <1>6 DEF Under
    <2> QED
      BY <1>8, <2>1, ReadOnce DEF PastReads
  <1>9. ASSUME NEW c \in DOMAIN past, PastLost(c) PROVE InputInv'
    BY <1>6, <1>9, LostOnce
  <1>10. CASE Closes \/ Remounted
    BY <1>10, LeftOnce DEF Closes, Remounted
  <1>11. CASE Types
    BY <1>11, TypeOnce
  <1>12. CASE SendsText \/ FocusMoves
    BY <1>12, FlushOnce DEF SendsText, FocusMoves
  <1>13. CASE UNCHANGED terminalVars
    BY <1>13, ResizeOnce DEF terminalVars
  <1> QED
    BY <1>2, <1>3, <1>4, <1>5, <1>7, <1>8, <1>9, <1>10, <1>11, <1>12, <1>13 DEF TerminalNext

\* Text typed on a phone reaches the session once or not at all: in the order
\* it was typed over one connection, and never again over a later one, for any
\* number of texts, of connections that were left and of messages they still
\* deliver or lose, in any order between them (MobileInputOverlay's flush).
THEOREM InputIsOnce == TerminalSpec => []InputOnce
  <1>1. TerminalInit => SizeInv /\ InputInv
    <2> SUFFICES ASSUME TerminalInit PROVE SizeInv /\ InputInv
      OBVIOUS
    <2>1. /\ wire = <<>> /\ past = <<>> /\ draft = <<>> /\ received = << <<>> >> /\ typed = 0
          /\ link # "open"
      BY DEF TerminalInit
    <2>2. wire \in Seq(Messages) /\ draft \in Seq(Nat) /\ typed \in Nat
      BY <2>1
    <2>3. SizeInv
      BY <2>1, <2>2, Zenon DEF TerminalInit, SizeInv
    <2>4. InputType /\ Len(received) = 1 /\ received[1] = <<>>
      BY <2>1 DEF InputType
    <2>5. Under(1) = <<>> /\ Over(1) = {} /\ Ordered(received[1], Under(1))
      BY <2>1, <2>4 DEF Under, Over, Carried, Elems, Ordered, Increasing
    <2>6. Increasing(draft) /\ UpTo(draft, typed) /\ \A c \in 1..Len(received) : c = 1
      BY <2>1, <2>4 DEF Increasing, UpTo
    <2>7. InputInv
      BY <2>4, <2>5, <2>6 DEF InputInv
    <2> QED
      BY <2>3, <2>7
  <1>2. InputInv => InputOnce
    <2> SUFFICES ASSUME InputInv PROVE InputOnce
      OBVIOUS
    <2>1. DOMAIN received = 1..Len(received)
      BY DEF InputInv, InputType
    <2>2. \A c \in 1..Len(received) : Increasing(received[c]) /\ Elems(received[c]) \subseteq Over(c)
      BY DEF InputInv, Ordered, Over, Carried
    <2>3. ASSUME NEW c \in 1..Len(received), NEW d \in 1..Len(received), c < d
          PROVE  Precedes(received[c], received[d])
      <3>1. \A x \in Elems(received[c]), y \in Elems(received[d]) : x < y
        BY <2>2, <2>3 DEF InputInv
      <3> QED
        BY <3>1 DEF Precedes, Elems
    <2> QED
      BY <2>1, <2>2, <2>3 DEF InputOnce
  <1> QED
    BY <1>1, <1>2, SizeStep, InputStep, PTL DEF TerminalSpec

-----------------------------------------------------------------------------
(* The output on its way to the socket *)

Byte == 0..Bad

\* The first c bytes.
LEMMA Prefix ==
  ASSUME NEW b \in Seq(Byte), NEW c \in 0..Len(b)
  PROVE  /\ SubSeq(b, 1, c) \in Seq(Byte) /\ Len(SubSeq(b, 1, c)) = c
         /\ \A i \in 1..c : SubSeq(b, 1, c)[i] = b[i]
  <1>1. Len(b) \in Nat /\ \A i \in 1..Len(b) : b[i] \in Byte
    OBVIOUS
  <1>2. \A i \in 1..c : b[i] \in Byte
    BY <1>1
  <1> QED
    BY <1>1, <1>2, SubSeqProperties

\* What follows the first c bytes.
LEMMA Rest ==
  ASSUME NEW b \in Seq(Byte), NEW c \in 0..Len(b)
  PROVE  /\ SubSeq(b, c + 1, Len(b)) \in Seq(Byte) /\ Len(SubSeq(b, c + 1, Len(b))) = Len(b) - c
         /\ \A i \in 1..(Len(b) - c) : SubSeq(b, c + 1, Len(b))[i] = b[c + i]
  <1>1. Len(b) \in Nat /\ \A i \in 1..Len(b) : b[i] \in Byte
    OBVIOUS
  <1>2. \A i \in (c + 1)..Len(b) : b[i] \in Byte
    BY <1>1
  <1>3. /\ SubSeq(b, c + 1, Len(b)) \in Seq(Byte)
        /\ Len(SubSeq(b, c + 1, Len(b))) = IF c + 1 <= Len(b) THEN Len(b) - (c + 1) + 1 ELSE 0
        /\ \A i \in 1..(Len(b) - (c + 1) + 1) : SubSeq(b, c + 1, Len(b))[i] = b[(c + 1) + i - 1]
    BY <1>1, <1>2, SubSeqProperties
  <1> QED
    BY <1>1, <1>3

\* Bytes sent one after the other may be grouped at will.
LEMMA Regroup ==
  \A a, b, c \in Seq(Byte) : (a \o b) \o c = a \o (b \o c)
  BY ConcatAssociative

\* What Valid says of one byte of a sequence of length n.
ByteOK(b, n, i) ==
    /\ b[i] \in 0..4
    /\ b[i] > 1 => i + b[i] - 1 <= n /\ \A k \in (i + 1)..(i + b[i] - 1) : b[k] = 0
    /\ b[i] = 0 => \E k \in 1..3 : i - k >= 1 /\ b[i - k] > k

\* The same, byte by byte.
LEMMA ValidBytes == \A b : Valid(b) <=> \A i \in 1..Len(b) : ByteOK(b, Len(b), i)
  BY DEF Valid, ByteOK

\* Characters one after the other are characters.
LEMMA ValidConcat ==
  ASSUME NEW a \in Seq(Byte), NEW b \in Seq(Byte), Valid(a), Valid(b)
  PROVE  Valid(a \o b)
  <1> DEFINE ab == a \o b
  <1>1. /\ ab \in Seq(Byte) /\ Len(ab) = Len(a) + Len(b) /\ Len(a) \in Nat /\ Len(b) \in Nat
        /\ \A i \in 1..(Len(a) + Len(b)) : ab[i] = IF i <= Len(a) THEN a[i] ELSE b[i - Len(a)]
    BY ConcatProperties
  <1> HIDE DEF ab
  <1> SUFFICES ASSUME NEW i \in 1..Len(ab) PROVE ByteOK(ab, Len(ab), i)
    BY ValidBytes DEF ab
  <1>2. CASE i <= Len(a)
    <2>1. i \in 1..Len(a) /\ ab[i] = a[i] /\ ByteOK(a, Len(a), i)
      BY <1>1, <1>2, ValidBytes
    <2>2. ab[i] > 1 => i + ab[i] - 1 <= Len(ab) /\ \A k \in (i + 1)..(i + ab[i] - 1) : ab[k] = 0
      BY <1>1, <2>1 DEF ByteOK
    <2>3. ASSUME ab[i] = 0
          PROVE  \E k \in 1..3 : i - k >= 1 /\ ab[i - k] > k
      <3>1. PICK k \in 1..3 : i - k >= 1 /\ a[i - k] > k
        BY <2>1, <2>3 DEF ByteOK
      <3>2. i - k \in 1..(Len(a) + Len(b)) /\ i - k <= Len(a)
        BY <1>1, <2>1, <3>1
      <3>3. ab[i - k] = a[i - k]
        BY <1>1, <3>2
      <3> QED
        BY <3>1, <3>3
    <2> QED
      BY <2>1, <2>2, <2>3 DEF ByteOK
  <1>3. CASE i > Len(a)
    <2>0. PICK j \in 1..Len(b) : j = i - Len(a)
      BY <1>1, <1>3
    <2>1. ab[i] = b[j] /\ ByteOK(b, Len(b), j)
      BY <1>1, <1>3, <2>0, ValidBytes
    <2>2. ASSUME ab[i] > 1
          PROVE  i + ab[i] - 1 <= Len(ab) /\ \A k \in (i + 1)..(i + ab[i] - 1) : ab[k] = 0
      <3>1. j + b[j] - 1 <= Len(b) /\ \A k \in (j + 1)..(j + b[j] - 1) : b[k] = 0
        BY <2>1, <2>2 DEF ByteOK
      <3>2. b[j] \in 0..4
        BY <2>1 DEF ByteOK
      <3>3. i + ab[i] - 1 <= Len(ab)
        BY <1>1, <2>0, <2>1, <3>1, <3>2
      <3>4. ASSUME NEW k \in (i + 1)..(i + ab[i] - 1)
            PROVE  ab[k] = 0
        <4>1. k \in 1..(Len(a) + Len(b)) /\ ~(k <= Len(a))
          BY <1>1, <1>3, <2>1, <3>2, <3>3
        <4>2. k - Len(a) \in (j + 1)..(j + b[j] - 1)
          BY <1>1, <2>0, <2>1, <3>2
        <4> QED
          BY <1>1, <3>1, <4>1, <4>2
      <3> QED
        BY <3>3, <3>4
    <2>3. ASSUME ab[i] = 0
          PROVE  \E k \in 1..3 : i - k >= 1 /\ ab[i - k] > k
      <3>1. PICK k \in 1..3 : j - k >= 1 /\ b[j - k] > k
        BY <2>1, <2>3 DEF ByteOK
      <3>2. i - k \in 1..(Len(a) + Len(b)) /\ ~(i - k <= Len(a)) /\ (i - k) - Len(a) = j - k
        BY <1>1, <2>0, <3>1
      <3>3. ab[i - k] = b[(i - k) - Len(a)]
        BY <1>1, <3>2
      <3>4. ab[i - k] > k /\ i - k >= 1
        BY <1>1, <3>1, <3>2, <3>3
      <3> QED
        BY <3>4
    <2> QED
      BY <2>1, <2>2, <2>3 DEF ByteOK
  <1> QED
    BY <1>1, <1>2, <1>3

\* Without the characters it begins with, valid output is still valid.
LEMMA ValidRest ==
  ASSUME NEW a \in Seq(Byte), NEW b \in Seq(Byte), Valid(a), Valid(a \o b)
  PROVE  Valid(b)
  <1> DEFINE ab == a \o b
  <1>1. /\ ab \in Seq(Byte) /\ Len(ab) = Len(a) + Len(b) /\ Len(a) \in Nat /\ Len(b) \in Nat
        /\ \A i \in 1..(Len(a) + Len(b)) : ab[i] = IF i <= Len(a) THEN a[i] ELSE b[i - Len(a)]
    BY ConcatProperties
  <1> HIDE DEF ab
  <1> SUFFICES ASSUME NEW j \in 1..Len(b) PROVE ByteOK(b, Len(b), j)
    BY ValidBytes
  <1>0. PICK i \in 1..Len(ab) : i = Len(a) + j
    BY <1>1
  <1>2. i > Len(a) /\ ab[i] = b[j] /\ ByteOK(ab, Len(ab), i)
    <2>1. Valid(ab)
      BY DEF ab
    <2>2. i - Len(a) = j /\ ~(i <= Len(a)) /\ i \in 1..(Len(a) + Len(b))
      BY <1>0, <1>1
    <2>3. ab[i] = b[i - Len(a)]
      BY <1>1, <2>2
    <2>4. ByteOK(ab, Len(ab), i)
      BY <2>1, ValidBytes
    <2> QED
      BY <2>2, <2>3, <2>4
  <1>3. ASSUME b[j] > 1
        PROVE  j + b[j] - 1 <= Len(b) /\ \A k \in (j + 1)..(j + b[j] - 1) : b[k] = 0
    <2>1. i + b[j] - 1 <= Len(ab) /\ \A k \in (i + 1)..(i + b[j] - 1) : ab[k] = 0
      BY <1>2, <1>3 DEF ByteOK
    <2>2. b[j] \in 0..4
      BY <1>2 DEF ByteOK
    <2>3. j + b[j] - 1 <= Len(b)
      BY <1>0, <1>1, <2>1, <2>2
    <2>4. ASSUME NEW k \in (j + 1)..(j + b[j] - 1)
          PROVE  b[k] = 0
      <3>1. Len(a) + k \in (i + 1)..(i + b[j] - 1)
        BY <1>0, <1>1, <2>2
      <3>2. /\ Len(a) + k \in 1..(Len(a) + Len(b)) /\ ~(Len(a) + k <= Len(a))
            /\ (Len(a) + k) - Len(a) = k
        BY <1>1, <2>2, <2>3
      <3>3. ab[Len(a) + k] = b[(Len(a) + k) - Len(a)]
        BY <1>1, <3>2
      <3> QED
        BY <2>1, <3>1, <3>2, <3>3
    <2> QED
      BY <2>3, <2>4
  <1>4. ASSUME b[j] = 0
        PROVE  \E k \in 1..3 : j - k >= 1 /\ b[j - k] > k
    <2>1. PICK k \in 1..3 : i - k >= 1 /\ ab[i - k] > k
      BY <1>2, <1>4 DEF ByteOK
    <2>2. CASE j - k >= 1
      <3>1. i - k \in 1..(Len(a) + Len(b)) /\ ~(i - k <= Len(a)) /\ (i - k) - Len(a) = j - k
        BY <1>0, <1>1, <2>1, <2>2
      <3>2. ab[i - k] = b[(i - k) - Len(a)]
        BY <1>1, <3>1
      <3> QED
        BY <2>1, <2>2, <3>1, <3>2
    <2>3. CASE j - k < 1
      <3>1. PICK m \in 1..Len(a) : m = i - k
        BY <1>0, <1>1, <2>1, <2>3
      <3>2. ab[m] = a[m] /\ ByteOK(a, Len(a), m)
        BY <1>1, <3>1, ValidBytes
      <3>3. a[m] > 1 /\ m + a[m] - 1 <= Len(a) /\ a[m] > k /\ a[m] \in 0..4
        BY <2>1, <3>1, <3>2 DEF ByteOK
      <3> QED
        BY <1>0, <1>1, <3>1, <3>3
    <2> QED
      BY <2>1, <2>2, <2>3
  <1> QED
    BY <1>2, <1>3, <1>4 DEF ByteOK

\* Valid output may be cut where a character begins.
LEMMA ValidCut ==
  ASSUME NEW b \in Seq(Byte), Valid(b), NEW c \in 0..Len(b), c = Len(b) \/ b[c + 1] # 0
  PROVE  Valid(SubSeq(b, 1, c))
  <1> DEFINE p == SubSeq(b, 1, c)
  <1>1. p \in Seq(Byte) /\ Len(p) = c /\ Len(b) \in Nat /\ \A i \in 1..c : p[i] = b[i]
    BY Prefix
  <1> HIDE DEF p
  <1> SUFFICES ASSUME NEW i \in 1..c PROVE ByteOK(p, c, i)
    BY <1>1, ValidBytes DEF p
  <1>2. i \in 1..Len(b) /\ p[i] = b[i] /\ ByteOK(b, Len(b), i)
    BY <1>1, ValidBytes
  <1>3. ASSUME b[i] > 1
        PROVE  i + b[i] - 1 <= c /\ \A k \in (i + 1)..(i + b[i] - 1) : p[k] = 0
    <2>1. /\ i + b[i] - 1 <= Len(b) /\ \A k \in (i + 1)..(i + b[i] - 1) : b[k] = 0
          /\ b[i] \in 0..4
      BY <1>2, <1>3 DEF ByteOK
    <2>2. i + b[i] - 1 <= c
      BY <1>1, <2>1
    <2> QED
      BY <1>1, <2>1, <2>2
  <1>4. ASSUME b[i] = 0
        PROVE  \E k \in 1..3 : i - k >= 1 /\ p[i - k] > k
    BY <1>1, <1>2, <1>4 DEF ByteOK
  <1> QED
    BY <1>2, <1>3, <1>4 DEF ByteOK

\* Where a character ends, valid output ends or another begins.
LEMMA CharacterEnds ==
  ASSUME NEW b \in Seq(Byte), Valid(b), NEW p \in 1..Len(b), b[p] # 0, p + b[p] <= Len(b)
  PROVE  b[p + b[p]] # 0
  <1>1. /\ Len(b) \in Nat /\ b[p] \in 1..4 /\ p + b[p] \in 1..Len(b)
        /\ \A k \in (p + 1)..(p + b[p] - 1) : b[k] = 0
    <2>1. ByteOK(b, Len(b), p)
      BY ValidBytes
    <2> QED
      BY <2>1 DEF ByteOK
  <1>2. PICK e \in 1..Len(b) : e = p + b[p]
    BY <1>1
  <1> SUFFICES ASSUME b[e] = 0 PROVE FALSE
    BY <1>2
  <1>3. PICK k \in 1..3 : e - k >= 1 /\ b[e - k] > k
    <2>1. ByteOK(b, Len(b), e)
      BY ValidBytes
    <2> QED
      BY <2>1 DEF ByteOK
  <1>4. PICK q \in 1..Len(b) : q = e - k
    BY <1>1, <1>3
  <1>5. /\ b[q] \in 0..4 /\ b[q] > k /\ \A x \in (q + 1)..(q + b[q] - 1) : b[x] = 0
    <2>1. ByteOK(b, Len(b), q)
      BY ValidBytes
    <2> QED
      BY <1>3, <1>4, <2>1 DEF ByteOK
  <1>6. CASE q < p
    <2>1. p \in (q + 1)..(q + b[q] - 1)
      BY <1>1, <1>2, <1>4, <1>5, <1>6
    <2> QED
      BY <1>5, <2>1
  <1>7. CASE q = p
    BY <1>1, <1>2, <1>4, <1>5, <1>7
  <1>8. CASE q > p
    <2>1. q \in (p + 1)..(p + b[p] - 1)
      BY <1>1, <1>2, <1>4, <1>8
    <2> QED
      BY <1>1, <1>5, <2>1
  <1> QED
    BY <1>6, <1>7, <1>8

\* Output up to any point within valid output is valid so far.
LEMMA ValidPrefix ==
  ASSUME NEW b \in Seq(Byte), Valid(b), NEW n \in 0..Len(b)
  PROVE  ValidSoFar(SubSeq(b, 1, n))
  <1> DEFINE a == SubSeq(b, 1, n)
  <1>1. a \in Seq(Byte) /\ Len(a) = n /\ Len(b) \in Nat /\ \A i \in 1..n : a[i] = b[i]
    BY Prefix
  <1>2. \A c \in 0..n : SubSeq(a, 1, c) = SubSeq(b, 1, c)
    <2> SUFFICES ASSUME NEW c \in 0..n PROVE SubSeq(a, 1, c) = SubSeq(b, 1, c)
      OBVIOUS
    <2>1. /\ SubSeq(a, 1, c) \in Seq(Byte) /\ Len(SubSeq(a, 1, c)) = c
          /\ \A i \in 1..c : SubSeq(a, 1, c)[i] = a[i]
      BY <1>1, Prefix
    <2>2. /\ SubSeq(b, 1, c) \in Seq(Byte) /\ Len(SubSeq(b, 1, c)) = c
          /\ \A i \in 1..c : SubSeq(b, 1, c)[i] = b[i]
      BY <1>1, Prefix
    <2>3. \A i \in 1..c : SubSeq(a, 1, c)[i] = SubSeq(b, 1, c)[i]
      BY <1>1, <2>1, <2>2
    <2> QED
      BY <2>1, <2>2, <2>3, SeqEqual
  <1> HIDE DEF a
  <1> SUFFICES ValidSoFar(a)
    BY DEF a
  <1>3. CASE n = 0
    <2>1. Valid(SubSeq(a, 1, 0))
      <3>1. Len(SubSeq(a, 1, 0)) = 0
        BY <1>1, Prefix
      <3> QED
        BY <3>1 DEF Valid
    <2> QED
      BY <1>1, <1>3, <2>1 DEF ValidSoFar
  <1>4. CASE n > 0
    <2>1. PICK p \in 1..n : b[p] \in 1..4 /\ b[p] > n - p
      <3>1. n \in 1..Len(b) /\ ByteOK(b, Len(b), n)
        BY <1>1, <1>4, ValidBytes
      <3>2. CASE b[n] # 0
        BY <1>1, <3>1, <3>2 DEF ByteOK
      <3>3. CASE b[n] = 0
        <4>1. PICK k \in 1..3 : n - k >= 1 /\ b[n - k] > k
          BY <3>1, <3>3 DEF ByteOK
        <4>2. PICK p \in 1..n : p = n - k
          BY <4>1
        <4>3. ByteOK(b, Len(b), p)
          BY <1>1, ValidBytes
        <4> QED
          BY <4>1, <4>2, <4>3 DEF ByteOK
      <3> QED
        BY <3>2, <3>3
    <2>2. \A k \in (p + 1)..(p + b[p] - 1) : b[k] = 0
      <3>1. ByteOK(b, Len(b), p)
        BY <1>1, ValidBytes
      <3> QED
        BY <2>1, <3>1 DEF ByteOK
    <2>3. CASE n = p + b[p] - 1
      <3>1. n = Len(b) \/ b[n + 1] # 0
        <4>1. p \in 1..Len(b) /\ b[p] # 0 /\ n + 1 = p + b[p]
          BY <1>1, <2>1, <2>3
        <4>2. p + b[p] <= Len(b) => b[p + b[p]] # 0
          BY <4>1, CharacterEnds
        <4> QED
          BY <1>1, <4>1, <4>2
      <3>2. Valid(SubSeq(b, 1, n))
        BY <3>1, ValidCut
      <3>3. n \in 0..n /\ SubSeq(a, 1, n) = SubSeq(b, 1, n)
        BY <1>2
      <3> QED
        BY <1>1, <3>2, <3>3 DEF ValidSoFar
    <2>4. CASE n < p + b[p] - 1
      <3>1. PICK c \in 0..n : c = p - 1
        BY <2>1
      <3>2. c + 1 = p /\ c \in 0..Len(b) /\ b[c + 1] # 0
        BY <1>1, <2>1, <3>1
      <3>3. Valid(SubSeq(a, 1, c))
        BY <1>2, <3>2, ValidCut
      <3>4. a[c + 1] > n - c /\ a[c + 1] < Bad
        BY <1>1, <2>1, <2>4, <3>1, <3>2 DEF Bad
      <3>5. \A k \in (c + 2)..n : a[k] = 0
        BY <1>1, <2>1, <2>2, <2>4, <3>1
      <3> QED
        BY <1>1, <3>3, <3>4, <3>5 DEF ValidSoFar
    <2> QED
      BY <2>1, <2>3, <2>4
  <1> QED
    BY <1>3, <1>4

\* b is valid up to its i-th byte, where a last, incomplete character begins.
OpenAt(b, i) ==
    /\ Valid(SubSeq(b, 1, i))
    /\ \/ i = Len(b)
       \/ b[i + 1] > Len(b) - i /\ b[i + 1] < Bad /\ \A k \in (i + 2)..Len(b) : b[k] = 0

\* A sequence is valid so far when it is open somewhere.
LEMMA SoFarOpen == \A b : ValidSoFar(b) <=> \E i \in 0..Len(b) : OpenAt(b, i)
  BY DEF ValidSoFar, OpenAt

\* What was valid so far was so all along.
LEMMA SoFarBefore ==
  ASSUME NEW a \in Seq(Byte), NEW b \in Seq(Byte), ValidSoFar(a \o b)
  PROVE  ValidSoFar(a)
  <1> DEFINE ab == a \o b
  <1>1. /\ ab \in Seq(Byte) /\ Len(ab) = Len(a) + Len(b) /\ Len(a) \in Nat /\ Len(b) \in Nat
        /\ \A i \in 1..(Len(a) + Len(b)) : ab[i] = IF i <= Len(a) THEN a[i] ELSE b[i - Len(a)]
    BY ConcatProperties
  <1>2. PICK i \in 0..Len(ab) : OpenAt(ab, i)
    BY SoFarOpen
  <1>3. \A c \in 0..Len(a) : SubSeq(ab, 1, c) = SubSeq(a, 1, c)
    <2> SUFFICES ASSUME NEW c \in 0..Len(a) PROVE SubSeq(ab, 1, c) = SubSeq(a, 1, c)
      OBVIOUS
    <2> HIDE DEF ab
    <2>0. c \in 0..Len(ab)
      BY <1>1
    <2>1. /\ SubSeq(a, 1, c) \in Seq(Byte) /\ Len(SubSeq(a, 1, c)) = c
          /\ \A k \in 1..c : SubSeq(a, 1, c)[k] = a[k]
      BY Prefix
    <2>2. /\ SubSeq(ab, 1, c) \in Seq(Byte) /\ Len(SubSeq(ab, 1, c)) = c
          /\ \A k \in 1..c : SubSeq(ab, 1, c)[k] = ab[k]
      BY <1>1, <2>0, Prefix
    <2>3. \A k \in 1..c : SubSeq(ab, 1, c)[k] = SubSeq(a, 1, c)[k]
      BY <1>1, <2>1, <2>2
    <2> QED
      BY <2>1, <2>2, <2>3, SeqEqual
  <1> HIDE DEF ab
  <1>4. CASE i <= Len(a)
    <2>1. i \in 0..Len(a) /\ Valid(SubSeq(a, 1, i))
      <3>1. i \in 0..Len(a)
        BY <1>1, <1>4
      <3>2. SubSeq(ab, 1, i) = SubSeq(a, 1, i)
        BY <1>3, <3>1
      <3> QED
        BY <1>2, <3>1, <3>2 DEF OpenAt
    <2>2. CASE i = Len(a)
      BY <2>1, <2>2 DEF ValidSoFar
    <2>3. CASE i < Len(a)
      <3>1. ab[i + 1] > Len(ab) - i /\ ab[i + 1] < Bad /\ \A k \in (i + 2)..Len(ab) : ab[k] = 0
        BY <1>1, <1>2, <2>3 DEF OpenAt
      <3>2. ab[i + 1] = a[i + 1] /\ ab[i + 1] \in Byte
        BY <1>1, <2>1, <2>3
      <3>3. a[i + 1] > Len(a) - i /\ a[i + 1] < Bad
        BY <1>1, <2>1, <3>1, <3>2 DEF Byte, Bad
      <3>4. \A k \in (i + 2)..Len(a) : a[k] = 0
        BY <1>1, <2>1, <3>1
      <3> QED
        BY <2>1, <3>3, <3>4 DEF ValidSoFar
    <2> QED
      BY <2>1, <2>2, <2>3
  <1>5. CASE i > Len(a)
    <2> DEFINE v == SubSeq(ab, 1, i)
    <2>1. v \in Seq(Byte) /\ Len(v) = i /\ Valid(v) /\ \A k \in 1..i : v[k] = ab[k]
      BY <1>1, <1>2, Prefix DEF OpenAt
    <2> HIDE DEF v
    <2>2. Len(a) \in 0..Len(v) /\ ValidSoFar(SubSeq(v, 1, Len(a)))
      BY <1>1, <1>5, <2>1, ValidPrefix
    <2>3. SubSeq(v, 1, Len(a)) = a
      <3>1. /\ SubSeq(v, 1, Len(a)) \in Seq(Byte) /\ Len(SubSeq(v, 1, Len(a))) = Len(a)
            /\ \A k \in 1..Len(a) : SubSeq(v, 1, Len(a))[k] = v[k]
        BY <2>1, <2>2, Prefix
      <3>2. \A k \in 1..Len(a) : SubSeq(v, 1, Len(a))[k] = a[k]
        BY <1>1, <1>5, <2>1, <3>1
      <3> QED
        BY <3>1, <3>2, SeqEqual
    <2> QED
      BY <2>2, <2>3
  <1> QED
    BY <1>1, <1>4, <1>5

\* Without the characters it begins with, output is still valid so far.
LEMMA SoFarRest ==
  ASSUME NEW a \in Seq(Byte), NEW b \in Seq(Byte), Valid(a), ValidSoFar(a \o b)
  PROVE  ValidSoFar(b)
  <1> DEFINE ab == a \o b
  <1>1. /\ ab \in Seq(Byte) /\ Len(ab) = Len(a) + Len(b) /\ Len(a) \in Nat /\ Len(b) \in Nat
        /\ \A i \in 1..(Len(a) + Len(b)) : ab[i] = IF i <= Len(a) THEN a[i] ELSE b[i - Len(a)]
    BY ConcatProperties
  <1>2. PICK i \in 0..Len(ab) : OpenAt(ab, i)
    BY SoFarOpen
  <1> HIDE DEF ab
  <1>3. CASE i < Len(a)
    <2>1. ab[i + 1] > Len(ab) - i /\ i + 1 \in 1..Len(a) /\ ab[i + 1] = a[i + 1]
      BY <1>1, <1>2, <1>3 DEF OpenAt
    <2>2. ByteOK(a, Len(a), i + 1)
      BY <2>1, ValidBytes
    <2>3. a[i + 1] \in 0..4 /\ (a[i + 1] > 1 => a[i + 1] <= Len(a) - i)
      BY <1>1, <2>1, <2>2 DEF ByteOK
    <2> QED
      BY <1>1, <1>3, <2>1, <2>3
  <1>4. CASE i >= Len(a)
    <2>1. PICK c \in 0..Len(b) : i = Len(a) + c
      BY <1>1, <1>4
    <2> DEFINE u == SubSeq(b, 1, c)
    <2>2. u \in Seq(Byte) /\ Len(u) = c /\ \A k \in 1..c : u[k] = b[k]
      BY Prefix
    <2>3. SubSeq(ab, 1, i) = a \o u
      <3> HIDE DEF u
      <3>1. /\ SubSeq(ab, 1, i) \in Seq(Byte) /\ Len(SubSeq(ab, 1, i)) = i
            /\ \A k \in 1..i : SubSeq(ab, 1, i)[k] = ab[k]
        BY <1>1, Prefix
      <3>2. /\ a \o u \in Seq(Byte) /\ Len(a \o u) = Len(a) + Len(u)
            /\ \A k \in 1..(Len(a) + Len(u)) :
                  (a \o u)[k] = IF k <= Len(a) THEN a[k] ELSE u[k - Len(a)]
        BY <2>2, ConcatProperties
      <3>3. ASSUME NEW k \in 1..i PROVE SubSeq(ab, 1, i)[k] = (a \o u)[k]
        <4>1. k \in 1..(Len(a) + Len(b)) /\ k \in 1..(Len(a) + Len(u))
          BY <1>1, <2>1, <2>2
        <4>2. CASE k <= Len(a)
          BY <1>1, <3>1, <3>2, <4>1, <4>2
        <4>3. CASE ~(k <= Len(a))
          <5>1. k - Len(a) \in 1..c
            BY <1>1, <2>1, <4>3
          <5> QED
            BY <1>1, <2>2, <3>1, <3>2, <4>1, <4>3, <5>1
        <4> QED
          BY <4>2, <4>3
      <3> QED
        BY <2>1, <2>2, <3>1, <3>2, <3>3, SeqEqual
    <2>4. Valid(u)
      <3> HIDE DEF u
      <3>1. Valid(a \o u)
        BY <1>2, <2>3 DEF OpenAt
      <3> QED
        BY <2>2, <3>1, ValidRest
    <2>5. CASE c = Len(b)
      BY <2>4, <2>5 DEF ValidSoFar
    <2>6. CASE c < Len(b)
      <3>1. ab[i + 1] > Len(ab) - i /\ ab[i + 1] < Bad /\ \A k \in (i + 2)..Len(ab) : ab[k] = 0
        BY <1>1, <1>2, <2>1, <2>6 DEF OpenAt
      <3>2. /\ i + 1 \in 1..(Len(a) + Len(b)) /\ ~(i + 1 <= Len(a)) /\ (i + 1) - Len(a) = c + 1
            /\ Len(ab) - i = Len(b) - c
        BY <1>1, <2>1, <2>6
      <3>3. ab[i + 1] = b[c + 1]
        BY <1>1, <3>2
      <3>4. ASSUME NEW k \in (c + 2)..Len(b) PROVE b[k] = 0
        <4>1. /\ Len(a) + k \in (i + 2)..Len(ab) /\ Len(a) + k \in 1..(Len(a) + Len(b))
              /\ ~(Len(a) + k <= Len(a)) /\ (Len(a) + k) - Len(a) = k
          BY <1>1, <2>1
        <4>2. ab[Len(a) + k] = b[(Len(a) + k) - Len(a)]
          BY <1>1, <4>1
        <4> QED
          BY <3>1, <4>1, <4>2
      <3>5. b[c + 1] > Len(b) - c /\ b[c + 1] < Bad
        BY <3>1, <3>2, <3>3
      <3> QED
        BY <2>4, <3>4, <3>5 DEF ValidSoFar
    <2> QED
      BY <2>1, <2>5, <2>6
  <1> QED
    BY <1>1, <1>3, <1>4

\* The candidates of validUTF8Prefix: prefixes that are valid and lack three
\* bytes at most.
Ends(b) == {i \in 0..Len(b) : i >= Len(b) - 3 /\ Valid(SubSeq(b, 1, i))}

\* validUTF8Prefix returns the longest of them, or 0.
LEMMA LongestPrefix ==
  ASSUME NEW b \in Seq(Byte)
  PROVE  /\ validUTF8Prefix(b) \in 0..Len(b)
         /\ Ends(b) = {} => validUTF8Prefix(b) = 0
         /\ Ends(b) # {} => /\ validUTF8Prefix(b) \in Ends(b)
                            /\ \A j \in Ends(b) : j <= validUTF8Prefix(b)
  <1>1. Len(b) \in Nat /\ Ends(b) \subseteq 0..Len(b) /\ \A i \in Ends(b) : i >= Len(b) - 3
    BY DEF Ends
  <1>2. validUTF8Prefix(b) = IF Ends(b) = {} THEN 0
                             ELSE CHOOSE i \in Ends(b) : \A j \in Ends(b) : j <= i
    BY DEF validUTF8Prefix, Ends
  <1> DEFINE n == Len(b)
             E == Ends(b)
  <1> HIDE DEF E, n
  <1>3. E # {} => \E i \in E : \A j \in E : j <= i
    <2>1. n \in Nat /\ E \subseteq 0..n /\ \A i \in E : i >= n - 3
      BY <1>1 DEF n, E
    <2>2. CASE n \in E
      BY <2>1, <2>2
    <2>3. CASE n \notin E /\ n - 1 \in E
      BY <2>1, <2>3
    <2>4. CASE n \notin E /\ n - 1 \notin E /\ n - 2 \in E
      BY <2>1, <2>4
    <2>5. CASE n \notin E /\ n - 1 \notin E /\ n - 2 \notin E
      <3>1. \A i \in E : i = n - 3
        BY <2>1, <2>5
      <3> QED
        BY <2>1, <3>1
    <2> QED
      BY <2>2, <2>3, <2>4, <2>5
  <1>4. E # {} => validUTF8Prefix(b) \in E /\ \A j \in E : j <= validUTF8Prefix(b)
    BY <1>2, <1>3 DEF E
  <1> QED
    BY <1>1, <1>2, <1>4 DEF E

\* Of output that is valid so far, the pipe keeps the last character back if
\* it is incomplete, and nothing else.
LEMMA PrefixOfSoFar ==
  ASSUME NEW b \in Seq(Byte), ValidSoFar(b)
  PROVE  OpenAt(b, validUTF8Prefix(b))
  <1>1. PICK i \in 0..Len(b) : OpenAt(b, i)
    BY SoFarOpen
  <1>2. Len(b) \in Nat /\ \A k \in 1..Len(b) : b[k] \in Byte
    OBVIOUS
  <1>3. CASE i = Len(b)
    <2>1. i \in Ends(b)
      BY <1>1, <1>2, <1>3 DEF Ends, OpenAt
    <2>2. validUTF8Prefix(b) = i
      BY <1>2, <1>3, <2>1, LongestPrefix
    <2> QED
      BY <1>1, <2>2
  <1>4. CASE i # Len(b)
    <2>1. /\ i + 1 \in 1..Len(b) /\ b[i + 1] \in Byte
          /\ b[i + 1] > Len(b) - i /\ b[i + 1] < Bad
      BY <1>1, <1>2, <1>4 DEF OpenAt
    <2>2. i \in Ends(b)
      BY <1>1, <1>2, <2>1 DEF Ends, OpenAt, Byte, Bad
    <2>3. PICK v \in Ends(b) : v = validUTF8Prefix(b) /\ i <= v
      BY <2>2, LongestPrefix
    <2>4. CASE v = i
      BY <1>1, <2>3, <2>4
    <2>5. CASE v > i
      <3>1. v \in 0..Len(b) /\ Valid(SubSeq(b, 1, v))
        BY <2>3 DEF Ends
      <3>2. /\ SubSeq(b, 1, v) \in Seq(Byte) /\ Len(SubSeq(b, 1, v)) = v /\ i + 1 \in 1..v
            /\ SubSeq(b, 1, v)[i + 1] = b[i + 1]
        BY <1>2, <2>5, <3>1, Prefix
      <3>3. ByteOK(SubSeq(b, 1, v), v, i + 1)
        BY <3>1, <3>2, ValidBytes
      <3>4. b[i + 1] > 1 => (i + 1) + b[i + 1] - 1 <= v
        BY <3>2, <3>3 DEF ByteOK
      <3> QED
        BY <1>2, <2>1, <3>1, <3>4 DEF Byte, Bad
    <2> QED
      BY <1>2, <2>3, <2>4, <2>5 DEF Ends
  <1> QED
    BY <1>3, <1>4

-----------------------------------------------------------------------------
\* The inductive invariant: OutputFaithful says what the buffer holds.
BridgeInv ==
    /\ piping \in BOOLEAN
    /\ pending \in Seq(Byte) /\ written \in Seq(Byte) /\ printed \in Seq(Byte)
    /\ OutputFaithful

\* What is at hand after a read is a sequence of bytes that fits the buffer.
LEMMA KeptType ==
  ASSUME NEW b \in Seq(Byte)
  PROVE  Kept(b) \in Seq(Byte) /\ Len(Kept(b)) <= 2 * ptyReadSize
  <1>1. Len(b) \in Nat /\ 2 * ptyReadSize \in Nat /\ 2 * ptyReadSize >= 6
    BY BridgeAssumption
  <1>2. CASE Len(b) > 2 * ptyReadSize
    <2>1. PICK c \in 0..Len(b) : c = Len(b) - 3
      <3>1. Len(b) - 3 \in 0..Len(b)
        BY <1>1, <1>2
      <3> QED
        BY <3>1
    <2>2. Kept(b) = SubSeq(b, c + 1, Len(b))
      BY <1>1, <1>2, <2>1 DEF Kept
    <2> QED
      BY <1>1, <2>1, <2>2, Rest
  <1>3. CASE ~(Len(b) > 2 * ptyReadSize)
    BY <1>1, <1>3 DEF Kept
  <1> QED
    BY <1>2, <1>3

\* A read keeps OutputFaithful, whatever it brings.
LEMMA ReadKeeps ==
  ASSUME BridgeInv, NEW n \in 1..ptyReadSize, NEW chunk \in [1..n -> Bytes], PipeReads(chunk)
  PROVE  BridgeInv'
  <1> USE DEF BridgeInv
  <1>0. ptyReadSize \in Nat /\ ptyReadSize >= 3
    BY BridgeAssumption
  <1>1. chunk \in Seq(Byte) /\ Len(chunk) = n
    <2>1. Bytes \subseteq Byte
      BY BridgeAssumption DEF Byte
    <2>2. chunk \in [1..n -> Byte] /\ n \in Nat
      BY <1>0, <2>1
    <2> QED
      BY <2>2
  <1> DEFINE new == pending \o chunk
             all == Kept(new)
             valid == validUTF8Prefix(all)
  <1>2. new \in Seq(Byte) /\ Len(new) = Len(pending) + n /\ Len(pending) \in Nat
    BY <1>1, ConcatProperties
  <1>3. all \in Seq(Byte) /\ Len(all) \in Nat /\ Len(all) <= 2 * ptyReadSize
    <2> HIDE DEF new
    <2>1. all \in Seq(Byte) /\ Len(all) <= 2 * ptyReadSize
      BY <1>2, KeptType
    <2> QED
      BY <2>1
  <1> HIDE DEF new, all
  <1>4. valid \in 0..Len(all)
    BY <1>3, LongestPrefix
  <1>5. /\ piping /\ piping' \in BOOLEAN /\ printed' = printed \o chunk
        /\ \/ /\ written' = written \o SubSeq(all, 1, valid)
              /\ pending' = SubSeq(all, valid + 1, Len(all))
           \/ /\ pending' = all /\ piping' = FALSE /\ written' = written
    BY DEF PipeReads, new, all
  <1>6. printed' \in Seq(Byte)
    BY <1>1, <1>5
  <1>7. /\ SubSeq(all, 1, valid) \in Seq(Byte) /\ SubSeq(all, valid + 1, Len(all)) \in Seq(Byte)
        /\ Len(SubSeq(all, valid + 1, Len(all))) = Len(all) - valid
        /\ \A i \in 1..(Len(all) - valid) : SubSeq(all, valid + 1, Len(all))[i] = all[valid + i]
    BY <1>3, <1>4, Prefix, Rest
  <1>8. Valid(SubSeq(all, 1, valid))
    <2>1. CASE Ends(all) = {}
      <3>1. Len(SubSeq(all, 1, 0)) = 0
        BY <1>3, Prefix
      <3>2. valid = 0
        BY <1>3, <2>1, LongestPrefix
      <3> QED
        BY <3>1, <3>2 DEF Valid
    <2>2. CASE Ends(all) # {}
      BY <1>3, <2>2, LongestPrefix DEF Ends
    <2> QED
      BY <2>1, <2>2
  <1> HIDE DEF valid
  <1>9. written' \in Seq(Byte) /\ pending' \in Seq(Byte) /\ Len(pending') <= 2 * ptyReadSize
    <2>1. CASE /\ written' = written \o SubSeq(all, 1, valid)
               /\ pending' = SubSeq(all, valid + 1, Len(all))
      <3>1. written' \in Seq(Byte)
        BY <1>7, <2>1
      <3>2. Len(pending') <= Len(all) /\ 2 * ptyReadSize \in Nat
        BY <1>0, <1>3, <1>4, <1>7, <2>1
      <3>3. Len(pending') <= 2 * ptyReadSize /\ pending' \in Seq(Byte)
        BY <1>3, <1>7, <2>1, <3>2
      <3> QED
        BY <3>1, <3>3
    <2>2. CASE pending' = all /\ written' = written
      BY <1>3, <2>2
    <2> QED
      BY <1>5, <2>1, <2>2
  <1>10. Valid(written')
    BY <1>5, <1>7, <1>8, ValidConcat DEF OutputFaithful
  <1>11. ASSUME piping', ValidSoFar(printed')
         PROVE  /\ printed' = written' \o pending'
                /\ pending' # <<>> => pending'[1] > Len(pending')
    <2>1. written' = written \o SubSeq(all, 1, valid) /\ pending' = SubSeq(all, valid + 1, Len(all))
      BY <1>5, <1>11
    <2>2. ValidSoFar(printed)
      BY <1>1, <1>5, <1>11, SoFarBefore
    <2>3. printed = written \o pending /\ (pending # <<>> => pending[1] > Len(pending))
      BY <1>5, <2>2 DEF OutputFaithful
    <2>4. Len(pending) <= 3
      <3>1. ValidSoFar(pending)
        BY <2>2, <2>3, SoFarRest DEF OutputFaithful
      <3>2. PICK i \in 0..Len(pending) : OpenAt(pending, i)
        BY <3>1, SoFarOpen
      <3>3. CASE Len(pending) = 0
        BY <3>3
      <3>4. CASE Len(pending) > 0
        <4>1. pending[1] \in Byte /\ pending[1] > Len(pending)
          BY <1>2, <2>3, <3>4
        <4>2. pending[1] # Bad
          <5>1. CASE i = 0
            <6>1. i # Len(pending) /\ i + 1 = 1
              BY <1>2, <3>4, <5>1
            <6>2. pending[1] < Bad
              BY <3>2, <6>1 DEF OpenAt
            <6> QED
              BY <6>2 DEF Bad
          <5>2. CASE i > 0
            <6>1. /\ Valid(SubSeq(pending, 1, i)) /\ Len(SubSeq(pending, 1, i)) = i
                  /\ SubSeq(pending, 1, i)[1] = pending[1] /\ 1 \in 1..i
              BY <1>2, <3>2, <5>2, Prefix DEF OpenAt
            <6>2. SubSeq(pending, 1, i)[1] \in 0..4
              BY <6>1 DEF Valid
            <6> QED
              BY <6>1, <6>2 DEF Bad
          <5> QED
            BY <5>1, <5>2
        <4> QED
          BY <1>2, <4>1, <4>2 DEF Byte, Bad
      <3> QED
        BY <1>2, <3>3, <3>4
    <2>5. all = new
      BY <1>0, <1>2, <2>4 DEF all, Kept
    <2>6. printed' = written \o all
      <3>1. printed' = (written \o pending) \o chunk
        BY <1>5, <2>3
      <3>2. (written \o pending) \o chunk = written \o (pending \o chunk)
        BY <1>1, ConcatAssociative
      <3> QED
        BY <2>5, <3>1, <3>2 DEF new
    <2>7. ValidSoFar(all)
      BY <1>3, <1>11, <2>6, SoFarRest DEF OutputFaithful
    <2>8. OpenAt(all, valid)
      BY <1>3, <2>7, PrefixOfSoFar DEF valid
    <2>9. all = SubSeq(all, 1, valid) \o SubSeq(all, valid + 1, Len(all))
      <3>1. SubSeq(all, 1, valid) \o SubSeq(all, valid + 1, Len(all)) = SubSeq(all, 1, Len(all))
        <4>1. /\ 1 \in 1..(Len(all) + 1) /\ valid \in (1 - 1)..Len(all)
              /\ Len(all) \in valid..Len(all)
          BY <1>3, <1>4
        <4> QED
          BY <1>3, <4>1, ConcatAdjacentSubSeq
      <3> QED
        BY <1>3, <3>1, SubSeqFull
    <2>10. printed' = written' \o pending'
      <3>1. (written \o SubSeq(all, 1, valid)) \o SubSeq(all, valid + 1, Len(all))
              = written \o (SubSeq(all, 1, valid) \o SubSeq(all, valid + 1, Len(all)))
        BY <1>7, Regroup
      <3> QED
        BY <2>1, <2>6, <2>9, <3>1
    <2>11. ASSUME pending' # <<>> PROVE pending'[1] > Len(pending')
      <3>1. Len(pending') = Len(all) - valid /\ Len(pending') \in Nat /\ Len(pending') > 0
        <4>1. Len(pending') = Len(all) - valid
          BY <1>7, <2>1
        <4>2. Len(pending') \in Nat /\ Len(pending') # 0
          BY <1>9, <2>11, EmptySeq
        <4> QED
          BY <4>1, <4>2
      <3>2. pending'[1] = all[valid + 1]
        BY <1>3, <1>4, <1>7, <2>1, <3>1
      <3> QED
        BY <1>3, <1>4, <2>8, <3>1, <3>2 DEF OpenAt
    <2> QED
      BY <2>10, <2>11
  <1>12. OutputFaithful'
    BY <1>9, <1>10, <1>11 DEF OutputFaithful
  <1> QED
    BY <1>5, <1>6, <1>9, <1>12

\* The pipe sends whole characters only, and of output that is valid UTF-8 it
\* loses, doubles and delays nothing but a character not yet complete, for
\* reads of any size from three bytes on (pipePTYToSocket, validUTF8Prefix).
THEOREM OutputIsFaithful == BridgeSpec => []OutputFaithful
  <1>1. BridgeInit => BridgeInv
    <2> SUFFICES ASSUME BridgeInit PROVE BridgeInv
      OBVIOUS
    <2>1. pending = <<>> /\ written = <<>> /\ printed = <<>> /\ piping \in BOOLEAN
      BY Zenon DEF BridgeInit
    <2>2. printed = written \o pending
      BY <2>1
    <2>3. Valid(written) /\ Len(pending) = 0 /\ pending \in Seq(Byte)
      BY <2>1 DEF Valid
    <2>4. OutputFaithful
      BY <2>1, <2>2, <2>3, BridgeAssumption DEF OutputFaithful
    <2> QED
      BY <2>1, <2>3, <2>4 DEF BridgeInv
  <1>2. BridgeInv /\ [BridgeNext]_bridgeVars => BridgeInv'
    <2> SUFFICES ASSUME BridgeInv, [BridgeNext]_bridgeVars PROVE BridgeInv'
      OBVIOUS
    <2>1. CASE PipeReadFails
      BY <2>1 DEF PipeReadFails, BridgeInv, OutputFaithful
    <2>2. CASE UNCHANGED bridgeVars
      BY <2>2 DEF bridgeVars, BridgeInv, OutputFaithful
    <2> QED
      BY <2>1, <2>2, ReadKeeps DEF BridgeNext
  <1>3. BridgeInv => OutputFaithful
    BY DEF BridgeInv
  <1> QED
    BY <1>1, <1>2, <1>3, PTL DEF BridgeSpec
=============================================================================
