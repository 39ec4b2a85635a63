----------------------------- MODULE Workspaces -----------------------------
(***************************************************************************)
(* The workspace list and the app shell: useWorkspaces.ts, the handlers of *)
(* App, SessionTree and ConfirmDialog, the login page, and the server they *)
(* talk to. A list is a function from workspaces to their name and their   *)
(* terminals, which are a function from terminals to names; the order of   *)
(* the two arrays is left out, and so is which entries are folded open.    *)
(*                                                                         *)
(* A handler captures the workspace it was called with, asks, and after    *)
(* the await applies the answer to whatever the list is by then. Requests  *)
(* overtake each other on the way there (sent is a set) and on the way     *)
(* back (any element of replied may be next).                              *)
(***************************************************************************)
EXTENDS Panes, Naturals, FiniteSets, Sequences, SequencesExt, Functions

CONSTANTS
    WsIds,     \* workspace ids the server can give out
    Names,
    FirstName, \* the name the server gives
    MaxCalls,  \* requests sent
    MaxOpen    \* requests without an answer

ASSUME WorkspacesAssumption ==
    /\ FirstName \in Names /\ Null \notin WsIds
    /\ WsIds # {} /\ Sessions # {} /\ PaneIds # {}

VARIABLES
    server,    \* the server's list
    list,      \* workspaces
    signedIn,  \* authed, with the login page's busy
    layoutAsked, \* the GET of the layout is under way and not cancelled
    asking,    \* the open confirm dialog: the delete it is about, or Null
    sent,      \* requests the server has not seen; equal ones count as one
    replied,   \* requests it has served, in the order it served them
    home,      \* the workspace of every terminal and workspace ever created
    calls,     \* requests sent so far
    blurred,   \* ghost: what an answer lost or out of order may have left wrong
    stale      \* ghost: sessions the layout brought back that were deleted by then

workspacesVars == <<at, focus, used, server, list, signedIn, layoutAsked, asking, sent, replied,
                    home, calls, blurred, stale>>

Open == Cardinality(sent) + Len(replied)

-----------------------------------------------------------------------------
(* Lists. The client maps over its entries: one that is gone stays gone.   *)

Empty == [x \in {} |-> Null]

OneTerminal(tm, name) == [x \in {tm} |-> name]

WithTerminal(L, ws, tm, name) ==
    [w \in DOMAIN L |->
        IF w = ws
        THEN [L[w] EXCEPT !.terminals = [x \in DOMAIN @ \cup {tm} |->
                                            IF x = tm THEN name ELSE @[x]]]
        ELSE L[w]]

WithoutTerminal(L, ws, tm) ==
    [w \in DOMAIN L |->
        IF w = ws THEN [L[w] EXCEPT !.terminals = Restrict(@, DOMAIN @ \ {tm})] ELSE L[w]]

WithName(L, ws, tm, name) ==
    [w \in DOMAIN L |->
        IF w # ws THEN L[w]
        ELSE [L[w] EXCEPT !.terminals = [x \in DOMAIN @ |-> IF x = tm THEN name ELSE @[x]]]]

WithWorkspace(L, ws, entry) ==
    [w \in DOMAIN L \cup {ws} |-> IF w = ws THEN entry ELSE L[w]]

HasTerminal(L, ws, tm) == ws \in DOMAIN L /\ tm \in DOMAIN L[ws].terminals
SessionsOf(L) == UNION {DOMAIN L[w].terminals : w \in DOMAIN L}
ListedSessions == SessionsOf(list)

-----------------------------------------------------------------------------
(* Login, load and logout *)

Call(op, ws, tm, name, pane, seen) ==
    [op |-> op, ws |-> ws, tm |-> tm, name |-> name, pane |-> pane, seen |-> seen, answer |-> Null]

\* fetch; the handler waits for the answer.
Send(call) ==
    /\ calls < MaxCalls /\ Open < MaxOpen
    /\ calls' = calls + 1
    /\ sent' = sent \cup {call}

load == Send(Call("load", Null, Null, Null, Null, Null))

\* The page opens with a workspace and its terminal on the server. checkAuth
\* has been asked.
WorkspacesInit ==
    LET ws == CHOOSE x \in WsIds : TRUE
        tm == CHOOSE x \in Sessions : TRUE
        pane == CHOOSE x \in PaneIds : TRUE
    IN  /\ server = [w \in {ws} |-> [name |-> FirstName, terminals |-> OneTerminal(tm, FirstName)]]
        /\ home = [x \in {ws, tm} |-> ws]
        /\ list = Empty
        /\ signedIn = "checking" /\ layoutAsked = FALSE
        /\ asking = Null
        /\ sent = {} /\ replied = <<>> /\ calls = 0
        /\ blurred = {"list"} /\ stale = {}
        /\ used = {pane} /\ focus = pane
        /\ at = [p \in {pane} |-> Null]

\* Both ways in, the list and the layout are asked for.
AuthChecked ==
    /\ signedIn = "checking"
    /\ \/ signedIn' = "in" /\ load /\ layoutAsked' = TRUE
       \/ signedIn' = "out" /\ UNCHANGED <<sent, calls, layoutAsked>>
    /\ UNCHANGED <<at, focus, used, server, list, asking, replied, home, blurred, stale>>

\* A second submit is refused while the first is under way.
submit ==
    /\ signedIn = "out"
    /\ signedIn' = "busy"
    /\ UNCHANGED <<at, focus, used, server, list, layoutAsked, asking, sent, replied, home, calls,
                   blurred, stale>>

LoginAnswered ==
    /\ signedIn = "busy"
    /\ \/ signedIn' = "in" /\ load /\ layoutAsked' = TRUE
       \/ signedIn' = "out" /\ UNCHANGED <<sent, calls, layoutAsked>>
    /\ UNCHANGED <<at, focus, used, server, list, asking, replied, home, blurred, stale>>

\* The list is emptied and the restore cancelled; the panes, the dialog and the
\* requests stay.
handleLogout ==
    /\ signedIn = "in"
    /\ signedIn' = "out"
    /\ layoutAsked' = FALSE
    /\ list' = Empty
    /\ blurred' = blurred \cup {"list"}
    /\ UNCHANGED <<at, focus, used, server, asking, sent, replied, home, calls, stale>>

\* The layout replaces the panes, whatever happened to them and to its sessions
\* since it was stored; without one, or with an error, they stay.
RestoreAnswered ==
    /\ layoutAsked
    /\ layoutAsked' = FALSE
    /\ \/ /\ ReplacePanes /\ used' = used \cup DOMAIN at'
          /\ \A p \in DOMAIN at' : at'[p] \in DOMAIN home \cup {Null}
          /\ stale' = {at'[p] : p \in DOMAIN at'} \ (SessionsOf(server) \cup {Null})
       \/ UNCHANGED <<at, focus, used, stale>>
    /\ UNCHANGED <<server, list, signedIn, asking, sent, replied, home, calls, blurred>>

-----------------------------------------------------------------------------
(* What the user asks for *)

Asks(call) ==
    /\ signedIn = "in"
    /\ Send(call)
    /\ UNCHANGED <<at, focus, used, server, list, signedIn, layoutAsked, asking, replied, home,
                   blurred, stale>>

\* A pane whose session is not in the list shows the picker.
ShowsPicker(p) == at[p] \notin ListedSessions

\* From the sidebar for the focused pane, from the picker for its own.
createTerminal(ws, pane) ==
    /\ ws \in DOMAIN list
    /\ pane \in DOMAIN at /\ (pane = focus \/ ShowsPicker(pane))
    /\ Asks(Call("createTerminal", ws, Null, FirstName, pane, Null))

createWorkspace == Asks(Call("createWorkspace", Null, Null, FirstName, Null, Null))

renameWorkspace(ws, name) ==
    /\ ws \in DOMAIN list /\ list[ws].name # name
    /\ Asks(Call("renameWorkspace", ws, Null, name, Null, list[ws]))

renameTerminal(ws, tm, name) ==
    /\ HasTerminal(list, ws, tm) /\ list[ws].terminals[tm] # name
    /\ Asks(Call("renameTerminal", ws, tm, name, Null, list[ws]))

\* A dialog that was open is answered with no.
confirm(call) ==
    /\ signedIn = "in"
    /\ asking' = call
    /\ UNCHANGED <<at, focus, used, server, list, signedIn, layoutAsked, sent, replied, home,
                   calls, blurred, stale>>

handleDeleteWorkspace(ws) ==
    ws \in DOMAIN list /\ confirm(Call("deleteWorkspace", ws, Null, Null, Null, list[ws]))
handleDeleteTerminal(ws, tm) ==
    HasTerminal(list, ws, tm) /\ confirm(Call("deleteTerminal", ws, tm, Null, Null, list[ws]))

\* The dialog outlives a logout.
settle(ok) ==
    /\ asking # Null
    /\ asking' = Null
    /\ IF ok THEN Send(asking) ELSE UNCHANGED <<sent, calls>>
    /\ UNCHANGED <<at, focus, used, server, list, signedIn, layoutAsked, replied, home, blurred,
                   stale>>

\* The split view (Layout has the rest of it), and a click in the sidebar.
UserMovesPanes ==
    /\ signedIn = "in"
    /\ \/ \E p \in DOMAIN at : ClosePane(p) \/ FocusPane(p)
       \/ \E p \in DOMAIN at, new \in PaneIds :
             /\ used' = used \cup {new}
             /\ SplitPane(p, new) \/ CloseLastPane(p, new)
       \/ \E tm \in ListedSessions :
             \/ \E p \in DOMAIN at : at[p] = tm /\ FocusPane(p)
             \/ (\A p \in DOMAIN at : at[p] # tm) /\ AssignSession(focus, tm)
    /\ UNCHANGED <<server, list, signedIn, layoutAsked, asking, sent, replied, home, calls,
                   blurred, stale>>

-----------------------------------------------------------------------------
(* The server *)

Replies(call, next, answer) ==
    /\ server' = next
    /\ sent' = sent \ {call}
    /\ replied' = Append(replied, [call EXCEPT !.answer = answer])
    /\ UNCHANGED <<at, focus, used, list, signedIn, layoutAsked, asking, calls, blurred, stale>>

\* An id is given out once.
Given(id, ws) == [x \in DOMAIN home \cup {id} |-> IF x = id THEN ws ELSE home[x]]

ServerCreatesTerminal(call) ==
    /\ call.op = "createTerminal" /\ call.ws \in DOMAIN server
    /\ \E tm \in Sessions \ DOMAIN home :
          /\ home' = Given(tm, call.ws)
          /\ Replies(call, WithTerminal(server, call.ws, tm, call.name), tm)

ServerCreatesWorkspace(call) ==
    /\ call.op = "createWorkspace"
    /\ \E ws \in WsIds \ DOMAIN home :
          /\ home' = Given(ws, ws)
          /\ Replies(call, WithWorkspace(server, ws, [name |-> call.name, terminals |-> Empty]), ws)

ServerDeletes(call) ==
    /\ \/ /\ call.op = "deleteWorkspace" /\ call.ws \in DOMAIN server
          /\ Replies(call, Restrict(server, DOMAIN server \ {call.ws}), Null)
       \/ /\ call.op = "deleteTerminal" /\ HasTerminal(server, call.ws, call.tm)
          /\ Replies(call, WithoutTerminal(server, call.ws, call.tm), Null)
    /\ UNCHANGED home

\* A renamed workspace comes back with its terminals.
ServerRenames(call) ==
    /\ \/ /\ call.op = "renameWorkspace" /\ call.ws \in DOMAIN server
          /\ LET next == [server EXCEPT ![call.ws].name = call.name]
             IN  Replies(call, next, next[call.ws])
       \/ /\ call.op = "renameTerminal" /\ HasTerminal(server, call.ws, call.tm)
          /\ Replies(call, WithName(server, call.ws, call.tm, call.name), Null)
    /\ UNCHANGED home

ServerLists(call) ==
    /\ call.op = "load"
    /\ Replies(call, server, server)
    /\ UNCHANGED home

ServerServes(call) ==
    \/ ServerCreatesTerminal(call) \/ ServerCreatesWorkspace(call)
    \/ ServerDeletes(call) \/ ServerRenames(call) \/ ServerLists(call)

\* Refused (unknown id, no session, a limit) or never delivered: a toast.
CallFails(call) ==
    /\ sent' = sent \ {call}
    /\ UNCHANGED <<at, focus, used, server, list, signedIn, layoutAsked, asking, replied, home,
                   calls, blurred, stale>>

-----------------------------------------------------------------------------
(* The handlers after their await *)

\* Variant: the workspace the handler was called with, renamed, replaces the
\* one in the list.
TerminalRenamedStale(L, call) ==
    IF call.ws \notin DOMAIN L THEN L
    ELSE [L EXCEPT ![call.ws].terminals = [call.seen.terminals EXCEPT ![call.tm] = call.name]]

TerminalRenamed(L, call) == WithName(L, call.ws, call.tm, call.name)

\* The list L after an answer.
Listed(L, call) ==
    CASE call.op = "load"            -> call.answer
      [] call.op = "createTerminal"  -> WithTerminal(L, call.ws, call.answer, call.name)
      [] call.op = "createWorkspace" -> WithWorkspace(L, call.answer,
                                            [name |-> call.name, terminals |-> Empty])
      [] call.op = "deleteWorkspace" -> Restrict(L, DOMAIN L \ {call.ws})
      [] call.op = "deleteTerminal"  -> WithoutTerminal(L, call.ws, call.tm)
      [] call.op = "renameWorkspace" -> IF call.ws \notin DOMAIN L THEN L
                                        ELSE [L EXCEPT ![call.ws] = call.answer]
      [] call.op = "renameTerminal"  -> TerminalRenamed(L, call)

\* Variant: a deleted terminal stays in its pane.
UnplacedNot(call) ==
    IF call.op = "deleteWorkspace" THEN DOMAIN call.seen.terminals ELSE {}

\* The sessions an answer takes out of their panes: of a workspace, the
\* terminals it had when its delete was asked for.
Unplaced(call) ==
    CASE call.op = "deleteWorkspace" -> DOMAIN call.seen.terminals
      [] call.op = "deleteTerminal"  -> {call.tm}
      [] OTHER                       -> {}

\* Answers whose order matters: a whole list or workspace, which holds what
\* the server had done by then, and two names for the same terminal.
Conflicts(a, b) ==
    \/ "load" \in {a.op, b.op}
    \/ /\ a.ws = b.ws
       /\ \/ "renameWorkspace" \in {a.op, b.op}
          \/ a.op = "renameTerminal" /\ b.op = "renameTerminal" /\ a.tm = b.tm

AnswerApplied(i) ==
    /\ i \in DOMAIN replied
    /\ LET call == replied[i]
       IN  /\ list' = Listed(list, call)
           /\ IF call.op = "createTerminal" THEN AssignSession(call.pane, call.answer)
              ELSE UnplaceSessions(Unplaced(call))
           /\ blurred' = CASE call.op = "load" /\ signedIn = "in" /\ Len(replied) = 1
                                 /\ call.answer = server -> blurred \ {"list"}
                           [] \E j \in 1..(i - 1) : Conflicts(replied[j], call) ->
                                  {"list", "panes"}
                           [] OTHER -> blurred
    /\ replied' = RemoveAt(replied, i)
    /\ UNCHANGED <<server, signedIn, layoutAsked, asking, sent, home, calls, stale>>

\* The connection broke after the server had done its part, or the wizard
\* was closed: the handler takes its error path.
AnswerLost(i) ==
    /\ i \in DOMAIN replied
    /\ replied' = RemoveAt(replied, i)
    /\ blurred' = IF replied[i].op = "load" THEN blurred ELSE {"list", "panes"}
    /\ UNCHANGED <<at, focus, used, server, list, signedIn, layoutAsked, asking, sent, home, calls,
                   stale>>

-----------------------------------------------------------------------------
WorkspacesNext ==
    \/ AuthChecked \/ submit \/ LoginAnswered \/ handleLogout \/ RestoreAnswered
    \/ createWorkspace
    \/ \E ws \in WsIds :
          \/ handleDeleteWorkspace(ws)
          \/ \E p \in PaneIds : createTerminal(ws, p)
          \/ \E name \in Names : renameWorkspace(ws, name)
          \/ \E tm \in Sessions :
                \/ handleDeleteTerminal(ws, tm)
                \/ \E name \in Names : renameTerminal(ws, tm, name)
    \/ \E ok \in BOOLEAN : settle(ok)
    \/ UserMovesPanes
    \/ \E call \in sent : ServerServes(call) \/ CallFails(call)
    \/ \E i \in 1..MaxOpen : AnswerApplied(i) \/ AnswerLost(i)

WorkspacesSpec == WorkspacesInit /\ [][WorkspacesNext]_workspacesVars

-----------------------------------------------------------------------------
(* Properties *)

AtRest == signedIn = "in" /\ sent = {} /\ replied = <<>>

\* Answers applied to a list that moved on since they were asked for leave the
\* list the server has, as long as none is lost and those that hold a whole
\* workspace come back in the server's order (the functional updates of
\* useWorkspaces).
ListTrue == AtRest /\ "list" \notin blurred => list = server

\* A pane never keeps a session that was deleted on its own, whatever was
\* created, moved, clicked or restored while the delete was under way; only a
\* workspace deleted with a terminal newer than the question leaves one behind,
\* and a stored layout that still had a session brings it back after its delete.
PanesTrue ==
    AtRest /\ "panes" \notin blurred => \A p \in DOMAIN at : at[p] # Null =>
                 \/ home[at[p]] \notin DOMAIN server
                 \/ at[p] \in DOMAIN server[home[at[p]]].terminals
                 \/ at[p] \in stale
=============================================================================
