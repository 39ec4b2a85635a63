------------------------------- MODULE Panes --------------------------------
(***************************************************************************)
(* What useLayout.ts promises of the split view, without the tree: a set   *)
(* of panes that is never empty, a session in at most one of them, and the *)
(* focus on a pane that is there. Layout implements it with a binary tree; *)
(* Workspaces uses it for the panes its handlers fill and empty.           *)
(*                                                                         *)
(* Pane ids are random, so that none is ever given out twice, not even     *)
(* after a reload; used holds the ones given out.                          *)
(***************************************************************************)
EXTENDS Client

CONSTANT PaneIds

ASSUME PanesAssumption == Null \notin Sessions

VARIABLES
    at,      \* the session of every pane there is, or Null
    focus,   \* focusedPaneId
    used

panesVars == <<at, focus, used>>

Content == Sessions \cup {Null}
Layouts == UNION {[P -> Content] : P \in (SUBSET used) \ {{}}}

\* A session lives in exactly one pane (useLayout.assignSession).
SessionInOnePane ==
    \A p, q \in DOMAIN at : at[p] = at[q] /\ at[p] # Null => p = q

\* The pane that is shown in single mode and that takes the next session
\* exists (useLayout.closePane and the restore effect move the focus).
FocusOnPane == focus \in DOMAIN at

PanesTypeOK == used \subseteq PaneIds /\ at \in Layouts

PanesInv == PanesTypeOK /\ SessionInOnePane /\ FocusOnPane

PanesInit ==
    /\ used \in SUBSET PaneIds
    /\ focus \in used
    /\ at = [p \in {focus} |-> Null]

-----------------------------------------------------------------------------
(* The panes after the operations of useLayout *)

\* removeSession, for all of S
Without(S) == [p \in DOMAIN at |-> IF at[p] \in S THEN Null ELSE at[p]]

Assigned(p, s) == [Without({s}) EXCEPT ![p] = s]

-----------------------------------------------------------------------------
(* Actions *)

\* Nothing happens when the pane closed while its terminal was created.
AssignSession(p, s) ==
    \/ /\ p \in DOMAIN at
       /\ at' = Assigned(p, s)
       /\ focus' = p
       /\ UNCHANGED used
    \/ /\ p \notin DOMAIN at
       /\ UNCHANGED panesVars

\* The divider may take an id as well.
SplitPane(p, new) ==
    /\ p \in DOMAIN at
    /\ new \in PaneIds \ used
    /\ at' = [q \in DOMAIN at \cup {new} |-> IF q = new THEN Null ELSE at[q]]
    /\ used \cup {new} \subseteq used' /\ used' \subseteq PaneIds
    /\ UNCHANGED focus

\* Variant: the focus is left on the pane that went.
CloseUnfocused(p) ==
    /\ p \in DOMAIN at /\ DOMAIN at # {p}
    /\ at' = [q \in DOMAIN at \ {p} |-> at[q]]
    /\ UNCHANGED <<focus, used>>

ClosePane(p) ==
    /\ p \in DOMAIN at /\ DOMAIN at # {p}
    /\ at' = [q \in DOMAIN at \ {p} |-> at[q]]
    /\ \/ focus # p /\ focus' = focus
       \/ focus = p /\ focus' \in DOMAIN at'
    /\ UNCHANGED used

\* The last pane is replaced by an empty one.
CloseLastPane(p, new) ==
    /\ DOMAIN at = {p}
    /\ new \in PaneIds \ used
    /\ at' = [q \in {new} |-> Null]
    /\ focus' = new
    /\ used' = used \cup {new}

UnplaceSessions(S) == at' = Without(S) /\ UNCHANGED <<focus, used>>

FocusPane(p) == p \in DOMAIN at /\ focus' = p /\ UNCHANGED <<at, used>>

\* A stored layout takes the place of the panes, or the page starts anew.
ReplacePanes ==
    /\ used' \in SUBSET PaneIds /\ used \subseteq used'
    /\ at' \in UNION {[P -> Content] : P \in (SUBSET used') \ {{}}}
    /\ SessionInOnePane'
    /\ focus' \in DOMAIN at'

\* What the user and the deletes do to the panes that are there.
PanesEdited ==
    \/ \E p \in DOMAIN at : \/ ClosePane(p) \/ FocusPane(p)
                            \/ \E new \in PaneIds : SplitPane(p, new) \/ CloseLastPane(p, new)
    \/ \E p \in used, s \in Sessions : AssignSession(p, s)
    \/ \E S \in SUBSET Sessions : UnplaceSessions(S)

PanesNext == PanesEdited \/ ReplacePanes

PanesSpec == PanesInit /\ [][PanesNext]_panesVars
=============================================================================
