---------------------------- MODULE TerminalView ----------------------------
(***************************************************************************)
(* One pane's terminal: the useTerminal hook between the pane's size, the  *)
(* font, the input method (IME) and the connection, and the text box that  *)
(* phones type into (MobileInputOverlay). The connection is Connection's,  *)
(* seen through onOpen, onClose and send; sizes are columns only. A        *)
(* connection that is left still delivers what it had taken, to a PTY of   *)
(* its own on the same session, or loses it.                               *)
(*                                                                         *)
(* Fits are put off while a word is composed. The browser may drop the     *)
(* compositionend when the text area loses focus: then only blur comes.    *)
(***************************************************************************)
EXTENDS Client, Integers, Sequences, FiniteSetsExt

CONSTANTS
    Widths,        \* widths of the pane
    FontSizes,     \* cell widths
    DefaultCols,   \* columns of a PTY that was just attached
    MaxEvents,     \* resizes, font changes, compositions, losses and remounts
    MaxTyped       \* texts typed into the box

ASSUME TerminalViewAssumption ==
    /\ Widths \subseteq Nat /\ Null \notin Widths /\ FontSizes \subseteq Nat \ {0}
    /\ DefaultCols \in Nat /\ MaxEvents \in Nat /\ MaxTyped \in Nat

VARIABLES
    width,        \* the container's width
    observed,     \* what the ResizeObserver last reported, Null before it did
    fontSize,
    cols,         \* xterm's size
    ime,          \* the browser is composing in xterm's text area
    composing,    \* composingRef
    pendingFit,   \* pendingFitRef
    link,         \* status: connecting, open, reconnecting or closed
    wire,         \* messages on their way to the server
    past,         \* those of each connection before this one, oldest first
    pty,          \* the size of the PTY that is attached
    paneFocused,
    draft,        \* the text box: the numbers of the texts typed
    typed,
    received,     \* the texts that reached the session over each connection
    events

terminalVars == <<width, observed, fontSize, cols, ime, composing, pendingFit, link, wire, past,
                  pty, paneFocused, draft, typed, received, events>>
viewVars == <<width, observed, fontSize, cols, ime, composing, pendingFit, link, pty>>
inputVars == <<past, paneFocused, draft, typed, received>>

MIN_COLS == 2

Resize(c) == [type |-> "resize", cols |-> c]
Input(text) == [type |-> "input", data |-> text]

\* fitFullWidth
Fit(w, f) == Max({MIN_COLS, w \div f})

\* The setup effect, up to the connection and the observer.
TerminalInit ==
    /\ width \in Widths /\ observed = Null
    /\ fontSize \in FontSizes
    /\ cols = Fit(width, fontSize)
    /\ ime = FALSE /\ composing = FALSE /\ pendingFit = FALSE
    /\ link = "connecting" /\ wire = <<>> /\ past = <<>> /\ pty = DefaultCols
    /\ paneFocused = TRUE /\ draft = <<>> /\ typed = 0 /\ received = << <<>> >>
    /\ events = 0

Event == events < MaxEvents /\ events' = events + 1

-----------------------------------------------------------------------------
(* Fitting *)

\* WsConn.send: a message is dropped unless the socket is open.
Sent(messages) == IF link = "open" THEN wire \o messages ELSE wire

\* fitFullWidth, then sendResize
FitAndSend ==
    /\ cols' = Fit(width', fontSize')
    /\ wire' = IF link' = "open" THEN Append(wire, Resize(Fit(width', fontSize'))) ELSE wire

doFit ==
    \/ composing /\ pendingFit' = TRUE /\ UNCHANGED <<cols, wire>>
    \/ ~composing /\ FitAndSend /\ UNCHANGED pendingFit

\* A split, a divider, the keyboard or the key panel changes the pane. The
\* observer reports once a frame; a pane does not change twice in one.
PaneResized ==
    /\ Event
    /\ observed \in {width, Null}
    /\ width' \in Widths \ {width}
    /\ UNCHANGED <<observed, fontSize, cols, ime, composing, pendingFit, link, wire, pty>>
    /\ UNCHANGED inputVars

ResizeObserved ==
    /\ observed # width
    /\ observed' = width
    /\ UNCHANGED <<width, fontSize, ime, composing, link, pty, events>> /\ UNCHANGED inputVars
    /\ doFit

FontChanged ==
    /\ Event
    /\ fontSize' \in FontSizes \ {fontSize}
    /\ UNCHANGED <<width, observed, ime, composing, link, pty>> /\ UNCHANGED inputVars
    /\ doFit

-----------------------------------------------------------------------------
(* Composition *)

onCompositionStart ==
    /\ Event
    /\ ~ime /\ ime' = TRUE
    /\ composing' = TRUE
    /\ UNCHANGED <<width, observed, fontSize, cols, pendingFit, link, wire, pty>>
    /\ UNCHANGED inputVars

\* Variant: the fit that was put off is forgotten.
settleCompositionForgets ==
    /\ composing' = FALSE
    /\ pendingFit' = FALSE
    /\ UNCHANGED <<cols, wire>>

settleComposition ==
    /\ composing' = FALSE
    /\ \/ pendingFit /\ pendingFit' = FALSE /\ FitAndSend
       \/ ~pendingFit /\ UNCHANGED <<pendingFit, cols, wire>>

CompositionEnds ==
    /\ ime /\ ime' = FALSE
    /\ UNCHANGED <<width, observed, fontSize, link, pty, events>> /\ UNCHANGED inputVars
    /\ settleComposition

\* Variant: only compositionend ends a composition.
onBlurIgnored == UNCHANGED <<composing, pendingFit, cols, wire>>

onBlur ==
    \/ composing /\ settleComposition
    \/ ~composing /\ UNCHANGED <<composing, pendingFit, cols, wire>>

\* The text area loses focus in mid-composition and compositionend is dropped.
FocusLostComposing ==
    /\ ime /\ ime' = FALSE
    /\ UNCHANGED <<width, observed, fontSize, link, pty, events>> /\ UNCHANGED inputVars
    /\ onBlur

-----------------------------------------------------------------------------
(* The connection *)

\* A new attach at the default size, then onOpen.
Opens ==
    /\ link \in {"connecting", "reconnecting"}
    /\ link' = "open"
    /\ pty' = DefaultCols
    /\ UNCHANGED <<width, observed, fontSize, ime, composing, events>> /\ UNCHANGED inputVars
    /\ doFit

\* The next connection starts with nothing sent or received; the messages of
\* this one are still on their way. One that carried no text is not counted.
Left ==
    /\ wire' = <<>>
    /\ IF received[Len(received)] # <<>> \/ \E k \in DOMAIN wire : wire[k].type = "input"
       THEN past' = Append(past, wire) /\ received' = Append(received, <<>>)
       ELSE UNCHANGED <<past, received>>

\* onClose, also of a socket that was closed here or given up.
Closes ==
    /\ Event
    /\ link \in {"connecting", "open"}
    /\ link' \in {"reconnecting", "closed"}
    /\ Left
    /\ UNCHANGED <<width, observed, fontSize, cols, ime, composing, pendingFit, pty, paneFocused,
                   draft, typed>>

TextOf(m) == IF m.type = "input" THEN m.data ELSE <<>>

\* The session gets the text of m over the c-th connection.
Receives(c, m) == received' = [received EXCEPT ![c] = @ \o TextOf(m)]

PtyReads ==
    /\ wire # <<>>
    /\ wire' = Tail(wire)
    /\ pty' = IF Head(wire).type = "resize" THEN Head(wire).cols ELSE pty
    /\ Receives(Len(received), Head(wire))
    /\ UNCHANGED <<width, observed, fontSize, cols, ime, composing, pendingFit, link, past,
                   paneFocused, draft, typed, events>>

\* A resize is for the PTY of its own connection.
PastReads(c) ==
    /\ past[c] # <<>>
    /\ past' = [past EXCEPT ![c] = Tail(@)]
    /\ Receives(c, Head(past[c]))
    /\ UNCHANGED <<wire, paneFocused, draft, typed, events>> /\ UNCHANGED viewVars

PastLost(c) ==
    /\ past[c] # <<>>
    /\ past' = [past EXCEPT ![c] = <<>>]
    /\ UNCHANGED <<wire, paneFocused, draft, typed, received, events>> /\ UNCHANGED viewVars

\* The cleanup, then the setup of another mount: the pane was split, moved or
\* given another session. The text box is a new one.
Remounted ==
    /\ Event
    /\ observed' = Null
    /\ cols' = Fit(width, fontSize)
    /\ ime' = FALSE /\ composing' = FALSE /\ pendingFit' = FALSE
    /\ link' = "connecting" /\ Left
    /\ draft' = <<>>
    /\ UNCHANGED <<width, fontSize, pty, paneFocused, typed>>

-----------------------------------------------------------------------------
(* The text box of phones *)

\* Variant: the box keeps what was sent.
flushKeeping == wire' = Sent(<<Input(draft)>>) /\ UNCHANGED draft

flush ==
    /\ wire' = IF draft = <<>> THEN wire ELSE Sent(<<Input(draft)>>)
    /\ draft' = <<>>

Types ==
    /\ typed < MaxTyped /\ paneFocused
    /\ typed' = typed + 1
    /\ draft' = Append(draft, typed + 1)
    /\ UNCHANGED <<wire, past, paneFocused, received, events>> /\ UNCHANGED viewVars

\* onSend without its carriage return
SendsText ==
    /\ paneFocused
    /\ flush
    /\ UNCHANGED <<past, paneFocused, typed, received, events>> /\ UNCHANGED viewVars

\* The effect of the overlay: text is not left behind in a pane out of focus.
FocusMoves ==
    /\ Event
    /\ paneFocused' = ~paneFocused
    /\ IF paneFocused THEN flush ELSE UNCHANGED <<draft, wire>>
    /\ UNCHANGED <<past, typed, received>> /\ UNCHANGED viewVars

-----------------------------------------------------------------------------
TerminalNext ==
    \/ PaneResized \/ ResizeObserved \/ FontChanged
    \/ onCompositionStart \/ CompositionEnds \/ FocusLostComposing
    \/ Opens \/ Closes \/ PtyReads \/ Remounted
    \/ \E c \in DOMAIN past : PastReads(c) \/ PastLost(c)
    \/ Types \/ SendsText \/ FocusMoves

\* The browser reports a resize, and what was sent is read.
TerminalFairness == WF_terminalVars(ResizeObserved) /\ WF_terminalVars(PtyReads)

TerminalSpec == TerminalInit /\ [][TerminalNext]_terminalVars /\ TerminalFairness

-----------------------------------------------------------------------------
(* Properties *)

\* With nothing under way, xterm and the PTY have the size that fits the pane
\* and the font, whatever was put off for a composition, dropped while the
\* connection was down, or reset by a new attach.
PtyFits ==
    link = "open" /\ wire = <<>> /\ ~ime /\ observed = width
        => cols = Fit(width, fontSize) /\ pty = cols

\* A dropped compositionend does not block fits for ever: once the connection
\* stays up and nothing is composed any more, the PTY gets the pane's size.
PtyFollows == <>[](link = "open" /\ ~ime) => <>[](pty = Fit(width, fontSize))

\* Two orders of texts.
Increasing(s) == \A i, j \in 1..Len(s) : i < j => s[i] < s[j]
Precedes(s, t) == \A i \in 1..Len(s), j \in 1..Len(t) : s[i] < t[j]

\* Text typed on a phone reaches the session once or not at all: over one
\* connection in the order it was typed, and never again over a later one,
\* whatever a connection that was left still delivers. Between connections
\* there is no order: an old one may deliver after the new (flush, send).
InputOnce ==
    /\ \A c \in DOMAIN received : Increasing(received[c])
    /\ \A c, d \in DOMAIN received : c < d => Precedes(received[c], received[d])
=============================================================================
