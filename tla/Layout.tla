------------------------------- MODULE Layout -------------------------------
(***************************************************************************)
(* The split view: useLayout.ts, the handlers of App, SplitView and        *)
(* SessionPicker that call it, over the pane tree; placed is               *)
(* placedSessionIds(root). LayoutSync has the layout that the server keeps *)
(* and how it reaches the page and comes from it.                          *)
(***************************************************************************)
EXTENDS PaneTree, LayoutSync

CONSTANT MaxId   \* pane ids given out; bounds splits, closes and reloads

VARIABLES
    focusedPaneId,
    nextId          \* the next id newPaneId returns: no id returns twice

layoutVars == <<syncVars, focusedPaneId, nextId>>

\* What an earlier visit may have left: nothing, a pane, or a blob that is
\* no tree.
EarlierBlobs ==
    LET pane == leaf(0, CHOOSE s \in Sessions : TRUE)
    IN  {Null, pane, splitNode(0, DEFAULT_RATIO, pane, Null)}

LayoutInit ==
    /\ root = leaf(1, Null)
    /\ stored \in EarlierBlobs
    /\ SyncInit
    /\ focusedPaneId = 1
    /\ nextId = 2

-----------------------------------------------------------------------------
(* Reload and restore *)

reloadWithIds(fresh) ==
    /\ Reloaded(leaf(fresh, Null))
    /\ focusedPaneId' = fresh
    /\ nextId' = fresh + 1

Reloads == nextId <= MaxId /\ reloadWithIds(nextId)

LayoutRestored ==
    LET parsed == parseLayout(restore.blob)
    IN  /\ Restored(parsed)
        /\ focusedPaneId' = IF parsed = Null THEN focusedPaneId ELSE firstLeafId(parsed)
        /\ UNCHANGED nextId

\* The steps that leave the panes as they are.
SyncsOnly ==
    /\ \/ Authenticated \/ LogsOut
       \/ ServerGetsLayout \/ RestoreFails \/ SaveFires
       \/ \E i \in 1..MaxPuts : PutArrives(i) \/ PutFails(i)
    /\ UNCHANGED <<focusedPaneId, nextId>>

-----------------------------------------------------------------------------
(* What the user and the answers to the user's requests do to the tree *)

LeafIds == {n.id : n \in Leaves(root)}

\* Does nothing for a pane that closed in the meantime.
assignSession(paneId, tmId) ==
    /\ paneId \in LeafIds
    /\ commit(setLeafSession(removeSession(root, tmId), paneId, tmId))
    /\ focusedPaneId' = paneId
    /\ UNCHANGED nextId

split(paneId) ==
    /\ nextId < MaxId
    /\ commit(splitLeaf(root, paneId, nextId, nextId + 1))
    /\ nextId' = nextId + 2
    /\ UNCHANGED focusedPaneId

closePane(paneId) ==
    \/ /\ root.id # paneId
       /\ commit(removeNode(root, paneId))
       /\ focusedPaneId' = IF findLeaf(root', focusedPaneId) THEN focusedPaneId
                           ELSE firstLeafId(root')
       /\ UNCHANGED nextId
    \/ /\ root.id = paneId
       /\ nextId <= MaxId
       /\ commit(leaf(nextId, Null))
       /\ focusedPaneId' = nextId
       /\ nextId' = nextId + 1

\* The divider is dragged, also past the edge of the view.
changeRatio(splitId, ratio) ==
    /\ commit(setRatio(root, splitId, ratio))
    /\ UNCHANGED <<focusedPaneId, nextId>>

unplaceSession(tmId) ==
    /\ commit(removeSession(root, tmId))
    /\ UNCHANGED <<focusedPaneId, nextId>>

focusPane(paneId) ==
    /\ focusedPaneId' = paneId
    /\ UNCHANGED <<syncVars, nextId>>

\* The sidebar's terminal is focused where it is, else put in the focused
\* pane.
selectTerminal(tmId) ==
    \/ \E n \in Leaves(root) : n.sessionId = tmId /\ focusPane(n.id)
    \/ tmId \notin placedSessionIds(root) /\ assignSession(focusedPaneId, tmId)

\* The picker of an empty pane offers only sessions that are in no pane.
pickSession(paneId, tmId) ==
    /\ tmId \notin placedSessionIds(root)
    /\ assignSession(paneId, tmId)

-----------------------------------------------------------------------------
Drags == {-2, 13}   \* tenths of the split

\* A terminal asked for one pane arrives in assignSession when it exists, so
\* that paneId there is any pane there ever was.
UserEdits ==
    \/ \E p \in 0..(nextId - 1), s \in Sessions : assignSession(p, s)
    \/ \E p \in LeafIds : \/ split(p) \/ closePane(p) \/ focusPane(p)
                          \/ \E s \in Sessions : pickSession(p, s)
    \/ \E n \in Splits(root), r \in Drags : changeRatio(n.id, r)
    \/ \E s \in Sessions : unplaceSession(s) \/ selectTerminal(s)

LayoutNext == Reloads \/ LayoutRestored \/ SyncsOnly \/ (authed /\ UserEdits)

LayoutSpec == LayoutInit /\ [][LayoutNext]_layoutVars

-----------------------------------------------------------------------------
(* Properties *)

PaneOf(id) == CHOOSE n \in Leaves(root) : n.id = id

\* The leaves of the tree as Panes sees them.
SplitPanes == INSTANCE Panes WITH
    at <- [id \in LeafIds |-> PaneOf(id).sessionId],
    focus <- focusedPaneId,
    used <- 0..(nextId - 1),
    PaneIds <- 0..(MaxId + 1)

\* useLayout keeps what Panes promises: a session is in one pane at most, the
\* focus is on a leaf, and no id is given twice, across reloads too. Short of a
\* reload or a restore, an edit of the tree (paneTree.ts) touches the panes it
\* is about and no other: a close removes one leaf and moves its sibling up
\* whole, an assign empties the pane the session came from. There always is a
\* tree, and parseLayout returns the very tree that was saved.
ImplementsPanes ==
    /\ SplitPanes!PanesSpec
    /\ [][authed' /\ UNCHANGED restore =>
             UNCHANGED SplitPanes!panesVars \/ SplitPanes!PanesEdited]_layoutVars
    /\ SyncSpec
    /\ [](parseLayout(root) = root)

\* "The tree is a single source of truth; the server blob is a mirror restored
\* on load": with every PUT delivered in order the two agree at rest.
Mirror == Settled /\ spoilt \subseteq {"late"} => parseLayout(stored) = root
=============================================================================
