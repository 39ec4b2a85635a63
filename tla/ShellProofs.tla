----------------------------- MODULE ShellProofs -----------------------------
(***************************************************************************)
(* The shell around the terminals: the promises of the split view, for any *)
(* panes and any sessions; the layout that the server keeps, for trees of  *)
(* any kind and any number of PUTs; the workspace list and the panes that  *)
(* show its terminals, for any workspaces, sessions and names and any      *)
(* number of requests.                                                     *)
(***************************************************************************)
EXTENDS Workspaces, LayoutSync, SequenceTheorems, TLAPS

-----------------------------------------------------------------------------
(* The split view *)

\* At the start there is one empty pane and it has the focus.
LEMMA PanesInitInv == PanesInit => PanesInv
  <1> SUFFICES ASSUME PanesInit PROVE PanesInv
    OBVIOUS
  <1>1. at \in [{focus} -> Content] /\ {focus} \in (SUBSET used) \ {{}}
    BY DEF PanesInit, Content
  <1>2. PanesTypeOK
    BY <1>1 DEF PanesInit, PanesTypeOK, Layouts
  <1> QED
    BY <1>1, <1>2 DEF PanesInit, PanesInv, SessionInOnePane, FocusOnPane

\* What the type invariant says of the panes as a function.
LEMMA PanesShape ==
  ASSUME PanesTypeOK
  PROVE  /\ DOMAIN at \subseteq used /\ DOMAIN at # {}
         /\ \A p \in DOMAIN at : at[p] \in Content
         /\ at = [p \in DOMAIN at |-> at[p]]
  BY DEF PanesTypeOK, Layouts

\* A function over some of the ids given out is a layout.
LEMMA PanesBuilt ==
  ASSUME NEW U, NEW P \in SUBSET U, P # {}, NEW f \in [P -> Content]
  PROVE  f \in UNION {[Q -> Content] : Q \in (SUBSET U) \ {{}}}
  OBVIOUS

\* Every operation of the split view keeps the promises.
LEMMA PanesStep == PanesInv /\ [PanesNext]_panesVars => PanesInv'
  <1> SUFFICES ASSUME PanesInv, [PanesNext]_panesVars PROVE PanesInv'
    OBVIOUS
  <1> USE DEF PanesInv
  <1>0. /\ DOMAIN at \subseteq used /\ DOMAIN at # {}
        /\ \A p \in DOMAIN at : at[p] \in Content
        /\ used \subseteq PaneIds
    BY PanesShape DEF PanesTypeOK
  <1>1. ASSUME NEW p \in DOMAIN at, ClosePane(p) PROVE PanesInv'
    <2>1. DOMAIN at' = DOMAIN at \ {p} /\ at' \in [DOMAIN at \ {p} -> Content]
      BY <1>0, <1>1 DEF ClosePane
    <2>2. PanesTypeOK'
      BY <1>0, <1>1, <2>1, PanesBuilt DEF ClosePane, PanesTypeOK, Layouts
    <2>3. SessionInOnePane'
      BY <1>1, <2>1 DEF ClosePane, SessionInOnePane
    <2>4. FocusOnPane'
      BY <1>1, <2>1 DEF ClosePane, FocusOnPane
    <2> QED
      BY <2>2, <2>3, <2>4
  <1>2. ASSUME NEW p \in DOMAIN at, FocusPane(p) PROVE PanesInv'
    BY <1>2 DEF FocusPane, PanesTypeOK, Layouts, SessionInOnePane, FocusOnPane
  <1>3. ASSUME NEW p \in DOMAIN at, NEW new \in PaneIds, SplitPane(p, new) PROVE PanesInv'
    <2>1. /\ DOMAIN at' = DOMAIN at \cup {new}
          /\ at' \in [DOMAIN at \cup {new} -> Content]
          /\ \A q \in DOMAIN at' : at'[q] = IF q = new THEN Null ELSE at[q]
      BY <1>0, <1>3 DEF SplitPane, Content
    <2>2. PanesTypeOK'
      <3>1. DOMAIN at \cup {new} \in SUBSET used' /\ DOMAIN at \cup {new} # {}
        BY <1>0, <1>3 DEF SplitPane
      <3>2. at' \in UNION {[Q -> Content] : Q \in (SUBSET used') \ {{}}}
        BY <2>1, <3>1, PanesBuilt
      <3> QED
        BY <1>0, <1>3, <3>2 DEF SplitPane, PanesTypeOK, Layouts
    <2>3. SessionInOnePane'
      BY <2>1 DEF SessionInOnePane
    <2>4. FocusOnPane'
      BY <1>3, <2>1 DEF SplitPane, FocusOnPane
    <2> QED
      BY <2>2, <2>3, <2>4
  <1>4. ASSUME NEW p \in DOMAIN at, NEW new \in PaneIds, CloseLastPane(p, new) PROVE PanesInv'
    <2>1. DOMAIN at' = {new} /\ at' \in [{new} -> Content]
      BY <1>4 DEF CloseLastPane, Content
    <2>2. PanesTypeOK'
      <3>1. at' \in UNION {[Q -> Content] : Q \in (SUBSET used') \ {{}}}
        BY <1>4, <2>1, PanesBuilt DEF CloseLastPane
      <3> QED
        BY <1>0, <1>4, <3>1 DEF CloseLastPane, PanesTypeOK, Layouts
    <2> QED
      BY <1>4, <2>1, <2>2 DEF CloseLastPane, SessionInOnePane, FocusOnPane
  <1>5. ASSUME NEW S \in SUBSET Sessions, UnplaceSessions(S) PROVE PanesInv'
    <2>1. /\ DOMAIN at' = DOMAIN at /\ at' \in [DOMAIN at -> Content]
          /\ \A q \in DOMAIN at : at'[q] = IF at[q] \in S THEN Null ELSE at[q]
      BY <1>0, <1>5 DEF UnplaceSessions, Without, Content
    <2>2. PanesTypeOK'
      BY <1>0, <1>5, <2>1, PanesBuilt DEF UnplaceSessions, PanesTypeOK, Layouts
    <2> QED
      BY <1>5, <2>1, <2>2 DEF UnplaceSessions, SessionInOnePane, FocusOnPane
  <1>6. ASSUME NEW p \in used, NEW s \in Sessions, AssignSession(p, s) PROVE PanesInv'
    <2>1. CASE p \notin DOMAIN at
      BY <1>6, <2>1 DEF AssignSession, panesVars, PanesTypeOK, Layouts, SessionInOnePane,
                        FocusOnPane
    <2>2. CASE p \in DOMAIN at
      <3>1. at' = Assigned(p, s) /\ focus' = p /\ used' = used
        BY <1>6, <2>2 DEF AssignSession
      <3>2. /\ DOMAIN at' = DOMAIN at /\ at' \in [DOMAIN at -> Content]
            /\ \A q \in DOMAIN at : at'[q] = IF q = p THEN s
                                             ELSE IF at[q] = s THEN Null ELSE at[q]
        BY <1>0, <2>2, <3>1 DEF Assigned, Without, Content
      <3>3. PanesTypeOK'
        BY <1>0, <3>1, <3>2, PanesBuilt DEF PanesTypeOK, Layouts
      <3>4. SessionInOnePane'
        BY <3>2 DEF SessionInOnePane
      <3> QED
        BY <2>2, <3>1, <3>2, <3>3, <3>4 DEF FocusOnPane
    <2> QED
      BY <2>1, <2>2
  <1>7. ASSUME ReplacePanes PROVE PanesInv'
    BY <1>7 DEF ReplacePanes, PanesTypeOK, Layouts, FocusOnPane
  <1>8. ASSUME UNCHANGED panesVars PROVE PanesInv'
    BY <1>8 DEF panesVars, PanesTypeOK, Layouts, SessionInOnePane, FocusOnPane
  <1> QED
    BY <1>1, <1>2, <1>3, <1>4, <1>5, <1>6, <1>7, <1>8 DEF PanesNext, PanesEdited

\* The three promises together: useLayout never leaves the view without a
\* pane, a session in two panes, or the focus on a pane that is gone.
THEOREM PanesSafe == PanesSpec => []PanesInv
  BY PanesInitInv, PanesStep, PTL DEF PanesSpec

\* A session lives in at most one pane, whatever late answers and restored
\* layouts do (assignSession unplaces it elsewhere first).
THEOREM OnePanePerSession == PanesSpec => []SessionInOnePane
  <1>1. PanesInv => SessionInOnePane
    BY DEF PanesInv
  <1> QED
    BY <1>1, PanesSafe, PTL

\* The focused pane exists (closePane and the restore effect move the focus).
THEOREM FocusIsOnAPane == PanesSpec => []FocusOnPane
  <1>1. PanesInv => FocusOnPane
    BY DEF PanesInv
  <1> QED
    BY <1>1, PanesSafe, PTL

-----------------------------------------------------------------------------
(* The layout that the server keeps *)

\* The newest tree on its way to the server, or the one that is there.
Newest ==
    IF saveTimer # Null THEN saveTimer
    ELSE IF puts # <<>> THEN puts[Len(puts)]
    ELSE stored

\* The inductive invariant: while nothing spoilt it, the tree that is shown is
\* the newest one under way.
SyncInv ==
    /\ root # Null
    /\ \E S : puts \in Seq(S)
    /\ spoilt = {} => Newest = root

\* What leaves a queue leaves the others in their order.
LEMMA Removed ==
  ASSUME NEW S, NEW q \in Seq(S), NEW i \in DOMAIN q
  PROVE  /\ RemoveAt(q, i) \in Seq(S) /\ Len(RemoveAt(q, i)) = Len(q) - 1
         /\ \A k \in 1..(Len(q) - 1) :
               RemoveAt(q, i)[k] = IF k < i THEN q[k] ELSE q[k + 1]
  <1>1. i \in 1..Len(q) /\ Len(q) \in Nat /\ \A k \in 1..Len(q) : q[k] \in S
    OBVIOUS
  <1> DEFINE front == SubSeq(q, 1, i - 1)
             back == SubSeq(q, i + 1, Len(q))
  <1>2. /\ front \in Seq(S) /\ Len(front) = i - 1
        /\ \A k \in 1..(i - 1) : front[k] = q[k]
    <2>1. \A k \in 1..(i - 1) : q[k] \in S
      BY <1>1
    <2>2. /\ front \in Seq(S)
          /\ Len(front) = IF 1 <= i - 1 THEN (i - 1) - 1 + 1 ELSE 0
          /\ \A k \in 1..((i - 1) - 1 + 1) : front[k] = q[1 + k - 1]
      BY <1>1, <2>1, SubSeqProperties
    <2> QED
      BY <1>1, <2>2
  <1>3. /\ back \in Seq(S) /\ Len(back) = Len(q) - i
        /\ \A k \in 1..(Len(q) - i) : back[k] = q[i + k]
    <2>1. \A k \in (i + 1)..Len(q) : q[k] \in S
      BY <1>1
    <2>2. /\ back \in Seq(S)
          /\ Len(back) = IF i + 1 <= Len(q) THEN Len(q) - (i + 1) + 1 ELSE 0
          /\ \A k \in 1..(Len(q) - (i + 1) + 1) : back[k] = q[(i + 1) + k - 1]
      BY <1>1, <2>1, SubSeqProperties
    <2> QED
      BY <1>1, <2>2
  <1> HIDE DEF front, back
  <1>4. /\ front \o back \in Seq(S) /\ Len(front \o back) = Len(front) + Len(back)
        /\ \A k \in 1..(Len(front) + Len(back)) :
              (front \o back)[k] = IF k <= Len(front) THEN front[k] ELSE back[k - Len(front)]
    BY <1>2, <1>3, ConcatProperties
  <1>5. RemoveAt(q, i) = front \o back
    BY DEF RemoveAt, front, back
  <1>6. ASSUME NEW k \in 1..(Len(q) - 1)
        PROVE  RemoveAt(q, i)[k] = IF k < i THEN q[k] ELSE q[k + 1]
    <2>1. k \in 1..(Len(front) + Len(back))
      BY <1>1, <1>2, <1>3
    <2>2. CASE k < i
      BY <1>1, <1>2, <1>4, <1>5, <2>1, <2>2
    <2>3. CASE ~(k < i)
      <3>1. k - (i - 1) \in 1..(Len(q) - i) /\ i + (k - (i - 1)) = k + 1
        BY <1>1, <2>3
      <3>2. RemoveAt(q, i)[k] = back[k - (i - 1)]
        BY <1>1, <1>2, <1>4, <1>5, <2>1, <2>3
      <3> QED
        BY <1>3, <2>3, <3>1, <3>2
    <2> QED
      BY <2>2, <2>3
  <1>7. Len(RemoveAt(q, i)) = Len(q) - 1
    BY <1>1, <1>2, <1>3, <1>4, <1>5
  <1> QED
    BY <1>4, <1>5, <1>6, <1>7

\* Every edit, save, PUT and restore keeps the newest tree the one shown.
LEMMA SyncStep == SyncInv /\ [SyncNext]_syncVars => SyncInv'
  <1> SUFFICES ASSUME SyncInv, [SyncNext]_syncVars PROVE SyncInv'
    OBVIOUS
  <1> USE DEF SyncInv, Newest
  <1>1. PICK S : puts \in Seq(S)
    OBVIOUS
  <1>2. CASE Authenticated \/ LogsOut \/ ServerGetsLayout \/ RestoreFails
    BY <1>2 DEF Authenticated, LogsOut, ServerGetsLayout, RestoreFails
  <1>3. CASE SaveFires
    <2>1. /\ saveTimer # Null /\ puts' = Append(puts, saveTimer) /\ saveTimer' = Null
          /\ UNCHANGED <<root, stored, spoilt>>
      BY <1>3 DEF SaveFires
    <2>2. puts \in Seq(S \cup {saveTimer})
      BY <1>1
    <2>3. /\ puts' \in Seq(S \cup {saveTimer}) /\ Len(puts') = Len(puts) + 1
          /\ puts'[Len(puts')] = saveTimer /\ puts' # <<>>
      BY <2>1, <2>2, AppendProperties
    <2> QED
      BY <2>1, <2>3
  <1>4. ASSUME NEW i \in 1..MaxPuts, PutArrives(i) \/ PutFails(i) PROVE SyncInv'
    <2>1. /\ i \in DOMAIN puts /\ puts' = RemoveAt(puts, i)
          /\ UNCHANGED <<root, saveTimer>>
          /\ spoilt' = {} => spoilt = {} /\ i = 1 /\ stored' = puts[1]
      BY <1>4 DEF PutArrives, PutFails
    <2>2. /\ puts' \in Seq(S) /\ Len(puts) \in Nat /\ Len(puts') = Len(puts) - 1
          /\ i \in 1..Len(puts)
          /\ \A k \in 1..(Len(puts) - 1) :
                puts'[k] = IF k < i THEN puts[k] ELSE puts[k + 1]
      BY <1>1, <2>1, Removed
    <2>3. CASE puts' = <<>>
      <3>1. Len(puts) = 1 /\ puts # <<>>
        BY <2>2, <2>3
      <3> QED
        BY <2>1, <2>2, <2>3, <3>1
    <2>4. CASE puts' # <<>>
      <3>1. Len(puts) > 1 /\ puts # <<>>
        <4>1. Len(puts') # 0
          BY <2>2, <2>4, EmptySeq
        <4> QED
          BY <2>2, <4>1
      <3>2. spoilt' = {} => puts'[Len(puts')] = puts[Len(puts)]
        BY <2>1, <2>2, <3>1
      <3> QED
        BY <2>1, <2>2, <2>4, <3>1, <3>2
    <2> QED
      BY <2>3, <2>4
  <1>5. CASE root' # Null /\ (commit(root') \/ Reloaded(root'))
    BY <1>5 DEF commit, Reloaded
  <1>6. CASE root' # Null /\ (Restored(root') \/ Restored(Null))
    BY <1>6 DEF Restored
  <1>7. CASE UNCHANGED syncVars
    BY <1>7 DEF syncVars
  <1> QED
    BY <1>2, <1>3, <1>4, <1>5, <1>6, <1>7 DEF SyncNext

\* Once the page is at rest after an edit, the server holds the tree that is
\* shown, for any edits, logins, reloads and PUTs in flight, unless a PUT was
\* lost, overtaken, or the restored layout came late (persist, commit).
THEOREM LayoutIsMirrored == SyncSpec => []MirrorUnlessRaced
  <1>1. SyncInit => SyncInv
    <2> SUFFICES ASSUME SyncInit PROVE SyncInv
      OBVIOUS
    <2>1. puts \in Seq({}) /\ root # Null /\ spoilt # {}
      BY DEF SyncInit
    <2> QED
      BY <2>1 DEF SyncInv
  <1>2. SyncInv => MirrorUnlessRaced
    BY DEF SyncInv, Newest, MirrorUnlessRaced, Settled
  <1> QED
    BY <1>1, <1>2, SyncStep, PTL DEF SyncSpec

-----------------------------------------------------------------------------
(* Lists and answers *)

\* The terminals of a workspace, a workspace, and a list of them.
Terminals == UNION {[T -> Names] : T \in SUBSET Sessions}
Entries == [name : Names, terminals : Terminals]
Lists == UNION {[W -> Entries] : W \in SUBSET WsIds}

\* The calls that change one terminal of a workspace, and those about one
\* workspace.
TerminalOps == {"createTerminal", "deleteTerminal", "renameTerminal"}
WorkspaceOps == TerminalOps \cup {"deleteWorkspace", "renameWorkspace"}
Ops == WorkspaceOps \cup {"load", "createWorkspace"}

\* What every request holds, and every answer.
Calls ==
    [op : Ops, ws : WsIds \cup {Null}, tm : Sessions \cup {Null}, name : Names \cup {Null},
     pane : PaneIds \cup {Null}, seen : Entries \cup {Null},
     answer : Lists \cup Entries \cup WsIds \cup Sessions \cup {Null}]

\* The fields that each kind of request fills in.
CallOK(c) ==
    /\ c \in Calls
    /\ c.op \in WorkspaceOps => c.ws \in WsIds
    /\ c.op \in {"deleteTerminal", "renameTerminal"} => c.tm \in Sessions
    /\ c.op \in {"createTerminal", "createWorkspace", "renameTerminal"} => c.name \in Names
    /\ c.op = "renameWorkspace" => c.name \in Names
    /\ c.op = "deleteWorkspace" => c.seen \in Entries

\* What the server answers to each kind.
AnswerOK(c) ==
    /\ CallOK(c)
    /\ c.op = "load" => c.answer \in Lists
    /\ c.op = "createTerminal" => c.answer \in Sessions
    /\ c.op = "createWorkspace" => c.answer \in WsIds
    /\ c.op = "renameWorkspace" => c.answer \in Entries

Answers == {c \in Calls : AnswerOK(c)}

\* What the types say of a workspace as a record and of a list as a function.
LEMMA EntryShape ==
  ASSUME NEW e \in Entries
  PROVE  /\ e.name \in Names /\ DOMAIN e.terminals \subseteq Sessions
         /\ e.terminals \in [DOMAIN e.terminals -> Names]
         /\ e = [name |-> e.name, terminals |-> e.terminals]
  BY DEF Entries, Terminals

\* A name and names for some sessions make a workspace.
LEMMA EntryBuilt ==
  ASSUME NEW n \in Names, NEW T \in SUBSET Sessions, NEW f \in [T -> Names]
  PROVE  [name |-> n, terminals |-> f] \in Entries
  BY DEF Entries, Terminals

\* A list holds a workspace for each of its ids.
LEMMA ListShape ==
  ASSUME NEW L \in Lists
  PROVE  DOMAIN L \subseteq WsIds /\ L \in [DOMAIN L -> Entries]
  BY DEF Lists

\* Workspaces for some ids make a list.
LEMMA ListBuilt ==
  ASSUME NEW W \in SUBSET WsIds, NEW f \in [W -> Entries]
  PROVE  f \in Lists
  BY DEF Lists

\* Workspaces and lists that agree everywhere are the same.
LEMMA SameEntry ==
  ASSUME NEW e \in Entries, NEW f \in Entries, e.name = f.name,
         DOMAIN e.terminals = DOMAIN f.terminals,
         \A x \in DOMAIN e.terminals : e.terminals[x] = f.terminals[x]
  PROVE  e = f
  <1>1. e.terminals = f.terminals
    BY EntryShape
  <1> QED
    BY <1>1, EntryShape

\* Lists that agree on every workspace are the same.
LEMMA SameList ==
  ASSUME NEW L \in Lists, NEW M \in Lists, DOMAIN L = DOMAIN M,
         \A w \in DOMAIN L : L[w] = M[w]
  PROVE  L = M
  BY ListShape

\* No workspaces make a list, and no terminals a workspace's.
LEMMA EmptyTyped == Empty \in Lists /\ DOMAIN Empty = {} /\ Empty \in [{} -> Names]
  BY DEF Empty, Lists

\* What an answer makes of the workspaces, of a workspace's terminals and of
\* the name of one of them.
WorkspacesAfter(W, c) ==
    CASE c.op = "createWorkspace" -> W \cup {c.answer}
      [] c.op = "deleteWorkspace" -> W \ {c.ws}
      [] OTHER -> W
TerminalsAfter(T, c) ==
    CASE c.op = "createTerminal" -> T \cup {c.answer}
      [] c.op = "deleteTerminal" -> T \ {c.tm}
      [] OTHER -> T
NameAfter(x, n, c) ==
    IF \/ c.op = "createTerminal" /\ x = c.answer
       \/ c.op = "renameTerminal" /\ x = c.tm
    THEN c.name ELSE n

\* The workspace an answer is about.
About(c) == IF c.op = "createWorkspace" THEN c.answer ELSE c.ws

\* An answer other than a whole list changes the workspace it is about.
LEMMA ListedAfter ==
  ASSUME NEW L \in Lists, NEW c, AnswerOK(c), c.op # "load"
  PROVE  /\ Listed(L, c) \in Lists
         /\ DOMAIN Listed(L, c) = WorkspacesAfter(DOMAIN L, c)
         /\ \A w \in DOMAIN L : w # About(c) => Listed(L, c)[w] = L[w]
         /\ c.op = "createWorkspace" =>
               Listed(L, c)[c.answer] = [name |-> c.name, terminals |-> Empty]
         /\ c.op = "renameWorkspace" /\ c.ws \in DOMAIN L => Listed(L, c)[c.ws] = c.answer
         /\ c.op \in TerminalOps /\ c.ws \in DOMAIN L =>
               LET e == Listed(L, c)[c.ws] IN
               /\ e.name = L[c.ws].name
               /\ DOMAIN e.terminals = TerminalsAfter(DOMAIN L[c.ws].terminals, c)
               /\ \A x \in DOMAIN e.terminals :
                     e.terminals[x] = NameAfter(x, L[c.ws].terminals[x], c)
  <1> DEFINE M == Listed(L, c)
  <1>1. DOMAIN L \subseteq WsIds /\ L \in [DOMAIN L -> Entries]
    BY ListShape
  <1>2. c.op \in Ops /\ (c.op \in WorkspaceOps => c.ws \in WsIds)
    BY DEF AnswerOK, CallOK, Calls
  <1>3. CASE c.op = "createWorkspace"
    <2>1. M = [w \in DOMAIN L \cup {c.answer} |->
                  IF w = c.answer THEN [name |-> c.name, terminals |-> Empty] ELSE L[w]]
      BY <1>3 DEF Listed, WithWorkspace
    <2>2. c.answer \in WsIds /\ c.name \in Names
      BY <1>3 DEF AnswerOK, CallOK, Calls
    <2>3. [name |-> c.name, terminals |-> Empty] \in Entries
      BY <2>2, EmptyTyped, EntryBuilt
    <2>4. M \in [DOMAIN L \cup {c.answer} -> Entries]
      BY <1>1, <2>1, <2>3
    <2>5. M \in Lists
      BY <1>1, <2>2, <2>4, ListBuilt
    <2> QED
      BY <1>3, <2>1, <2>4, <2>5 DEF WorkspacesAfter, About, TerminalOps
  <1>4. CASE c.op = "deleteWorkspace"
    <2>1. M = [w \in DOMAIN L \ {c.ws} |-> L[w]]
      BY <1>4 DEF Listed, Restrict
    <2>2. M \in [DOMAIN L \ {c.ws} -> Entries]
      BY <1>1, <2>1
    <2>3. M \in Lists
      BY <1>1, <2>2, ListBuilt
    <2> QED
      BY <1>4, <2>1, <2>2, <2>3 DEF WorkspacesAfter, About, TerminalOps
  <1>5. CASE c.op = "renameWorkspace"
    <2>1. M = IF c.ws \notin DOMAIN L THEN L ELSE [L EXCEPT ![c.ws] = c.answer]
      BY <1>5 DEF Listed
    <2>2. c.answer \in Entries
      BY <1>5 DEF AnswerOK
    <2>3. M \in [DOMAIN L -> Entries]
      BY <1>1, <2>1, <2>2
    <2>4. M \in Lists
      BY <1>1, <2>3, ListBuilt
    <2> QED
      BY <1>1, <1>5, <2>1, <2>3, <2>4 DEF WorkspacesAfter, About, TerminalOps
  <1>6. CASE c.op \in TerminalOps
    <2> DEFINE terminals(e) ==
                   [x \in TerminalsAfter(DOMAIN e.terminals, c) |-> NameAfter(x, e.terminals[x], c)]
    <2>1. M = [w \in DOMAIN L |->
                  IF w = c.ws THEN [name |-> L[w].name, terminals |-> terminals(L[w])] ELSE L[w]]
      <3>1. \A w \in DOMAIN L : L[w] = [name |-> L[w].name, terminals |-> L[w].terminals]
        BY <1>1, EntryShape
      <3>2. CASE c.op = "createTerminal"
        BY <3>1, <3>2 DEF Listed, WithTerminal, TerminalsAfter, NameAfter
      <3>3. CASE c.op = "deleteTerminal"
        BY <3>1, <3>3 DEF Listed, WithoutTerminal, Restrict, TerminalsAfter, NameAfter
      <3>4. CASE c.op = "renameTerminal"
        BY <3>1, <3>4 DEF Listed, TerminalRenamed, WithName, TerminalsAfter, NameAfter
      <3> QED
        BY <1>6, <3>2, <3>3, <3>4 DEF TerminalOps
    <2>2. ASSUME NEW w \in DOMAIN L
          PROVE  [name |-> L[w].name, terminals |-> terminals(L[w])] \in Entries
      <3>1. /\ L[w] \in Entries /\ L[w].name \in Names /\ DOMAIN L[w].terminals \subseteq Sessions
            /\ L[w].terminals \in [DOMAIN L[w].terminals -> Names]
        BY <1>1, EntryShape
      <3>2. /\ c.op = "createTerminal" => c.answer \in Sessions /\ c.name \in Names
            /\ c.op = "renameTerminal" => c.name \in Names
        BY DEF AnswerOK, CallOK, Calls
      <3>3. TerminalsAfter(DOMAIN L[w].terminals, c) \subseteq Sessions
        BY <3>1, <3>2 DEF TerminalsAfter
      <3>4. terminals(L[w]) \in [TerminalsAfter(DOMAIN L[w].terminals, c) -> Names]
        BY <3>1, <3>2 DEF TerminalsAfter, NameAfter
      <3> QED
        BY <3>1, <3>3, <3>4, EntryBuilt
    <2>3. M \in [DOMAIN L -> Entries]
      BY <1>1, <2>1, <2>2
    <2>4. M \in Lists
      BY <1>1, <2>3, ListBuilt
    <2>5. DOMAIN M = WorkspacesAfter(DOMAIN L, c) /\ About(c) = c.ws
      BY <1>6, <2>3 DEF WorkspacesAfter, About, TerminalOps
    <2> QED
      BY <1>6, <2>1, <2>4, <2>5 DEF TerminalOps
  <1> QED
    BY <1>2, <1>3, <1>4, <1>5, <1>6 DEF Ops, WorkspaceOps

\* The same, part by part.
LEMMA ListedTyped ==
  ASSUME NEW L \in Lists, NEW c, AnswerOK(c), c.op # "load"
  PROVE  Listed(L, c) \in Lists /\ DOMAIN Listed(L, c) = WorkspacesAfter(DOMAIN L, c)
  BY ListedAfter

\* An answer leaves the workspaces it is not about as they are.
LEMMA ListedElsewhere ==
  ASSUME NEW L \in Lists, NEW c, AnswerOK(c), c.op # "load", NEW w \in DOMAIN L, w # About(c)
  PROVE  Listed(L, c)[w] = L[w]
  BY ListedAfter

\* An answer about a terminal changes that terminal of its workspace alone.
LEMMA ListedInside ==
  ASSUME NEW L \in Lists, NEW c, AnswerOK(c), c.op \in TerminalOps,
         NEW w \in DOMAIN L, w = c.ws
  PROVE  /\ Listed(L, c)[w].name = L[w].name
         /\ DOMAIN Listed(L, c)[w].terminals = TerminalsAfter(DOMAIN L[w].terminals, c)
         /\ \A x \in DOMAIN Listed(L, c)[w].terminals :
               Listed(L, c)[w].terminals[x] = NameAfter(x, L[w].terminals[x], c)
  <1>1. c.op # "load"
    BY DEF TerminalOps
  <1> QED
    BY <1>1, ListedAfter

\* A renamed workspace is taken whole from the answer.
LEMMA ListedWhole ==
  ASSUME NEW L \in Lists, NEW c, AnswerOK(c), c.op = "renameWorkspace", c.ws \in DOMAIN L
  PROVE  Listed(L, c)[c.ws] = c.answer
  BY ListedAfter

\* What an answer makes of a workspace depends on that workspace only.
LEMMA ListedLocal ==
  ASSUME NEW L \in Lists, NEW M \in Lists, NEW c, AnswerOK(c), c.op # "load",
         NEW w \in DOMAIN Listed(L, c), w \in DOMAIN Listed(M, c),
         w \in DOMAIN L /\ w \in DOMAIN M => L[w] = M[w],
         w # About(c) => w \in DOMAIN L /\ w \in DOMAIN M
  PROVE  Listed(L, c)[w] = Listed(M, c)[w]
  <1>1. CASE w # About(c)
    BY <1>1, ListedAfter
  <1>2. CASE w = About(c) /\ c.op = "createWorkspace"
    BY <1>2, ListedAfter DEF About
  <1>3. CASE w = About(c) /\ c.op # "createWorkspace"
    <2>1. w = c.ws /\ w \in DOMAIN L /\ w \in DOMAIN M /\ L[w] = M[w] /\ c.op # "deleteWorkspace"
      BY <1>3, ListedAfter DEF About, WorkspacesAfter
    <2>2. CASE c.op = "renameWorkspace"
      BY <2>1, <2>2, ListedWhole
    <2>3. CASE c.op \in TerminalOps
      <3> DEFINE e == Listed(L, c)[w]
                 f == Listed(M, c)[w]
      <3>1. e \in Entries /\ f \in Entries
        BY ListedAfter, ListShape
      <3>2. /\ e.name = L[w].name /\ f.name = M[w].name
            /\ DOMAIN e.terminals = TerminalsAfter(DOMAIN L[w].terminals, c)
            /\ DOMAIN f.terminals = TerminalsAfter(DOMAIN M[w].terminals, c)
            /\ \A x \in DOMAIN e.terminals : e.terminals[x] = NameAfter(x, L[w].terminals[x], c)
            /\ \A x \in DOMAIN f.terminals : f.terminals[x] = NameAfter(x, M[w].terminals[x], c)
        BY <2>1, <2>3, ListedAfter
      <3> HIDE DEF e, f
      <3>3. e = f
        BY <2>1, <3>1, <3>2, SameEntry
      <3> QED
        BY <3>3 DEF e, f
    <2> QED
      BY <1>3, <2>1, <2>2, <2>3 DEF AnswerOK, CallOK, Calls, Ops, WorkspaceOps
  <1> QED
    BY <1>1, <1>2, <1>3

\* The id an answer brings, if the call made something.
Made(c) == IF c.op \in {"createTerminal", "createWorkspace"} THEN {c.answer} ELSE {}

\* Neither answer is about what the other made.
Apart(a, b) ==
    /\ \A x \in Made(a) : x # b.ws /\ x # b.tm /\ x \notin Made(b)
    /\ \A x \in Made(b) : x # a.ws /\ x # a.tm

\* Answers that are apart and do not conflict may be applied in any order.
LEMMA ListedCommutes ==
  ASSUME NEW L \in Lists, NEW a, NEW b, AnswerOK(a), AnswerOK(b), Apart(a, b), ~Conflicts(a, b)
  PROVE  Listed(Listed(L, a), b) = Listed(Listed(L, b), a)
  <1> DEFINE La == Listed(L, a)
             Lb == Listed(L, b)
             Lab == Listed(La, b)
             Lba == Listed(Lb, a)
  <1>1. /\ a.op # "load" /\ b.op # "load"
        /\ a.ws = b.ws => a.op # "renameWorkspace" /\ b.op # "renameWorkspace"
        /\ a.ws = b.ws /\ a.op = "renameTerminal" /\ b.op = "renameTerminal" => a.tm # b.tm
    BY DEF Conflicts
  <1>2. /\ a.op = "createTerminal" => a.answer # b.tm /\ a.answer # b.ws
        /\ b.op = "createTerminal" => b.answer # a.tm /\ b.answer # a.ws
        /\ a.op = "createTerminal" /\ b.op = "createTerminal" => a.answer # b.answer
        /\ a.op = "createWorkspace" => a.answer # About(b)
        /\ b.op = "createWorkspace" => b.answer # About(a)
        /\ a.op = "createWorkspace" => a.answer # b.ws
        /\ b.op = "createWorkspace" => b.answer # a.ws
    BY DEF Apart, Made, About
  <1>3. La \in Lists /\ Lb \in Lists
    BY <1>1, ListedAfter
  <1>4. Lab \in Lists /\ Lba \in Lists
    BY <1>1, <1>3, ListedAfter
  <1>5. /\ DOMAIN La = WorkspacesAfter(DOMAIN L, a) /\ DOMAIN Lab = WorkspacesAfter(DOMAIN La, b)
        /\ DOMAIN Lb = WorkspacesAfter(DOMAIN L, b) /\ DOMAIN Lba = WorkspacesAfter(DOMAIN Lb, a)
    BY <1>1, <1>3, ListedAfter
  <1>6. DOMAIN Lab = DOMAIN Lba
    BY <1>2, <1>5 DEF WorkspacesAfter
  <1>7. ASSUME NEW w \in DOMAIN Lab PROVE Lab[w] = Lba[w]
    <2>1. CASE w # About(b)
      <3>1. w \in DOMAIN La
        BY <1>5, <2>1 DEF WorkspacesAfter, About
      <3>2. Lab[w] = La[w]
        <4> HIDE DEF La
        <4> QED
          BY <1>1, <1>3, <2>1, <3>1, ListedElsewhere
      <3>3. w \in DOMAIN L => w \in DOMAIN Lb /\ Lb[w] = L[w]
        BY <1>1, <1>5, <2>1, ListedElsewhere DEF WorkspacesAfter, About
      <3>4. w # About(a) => w \in DOMAIN L
        BY <1>5, <3>1 DEF WorkspacesAfter, About
      <3>5. w \in DOMAIN Lba
        BY <1>6
      <3> HIDE DEF Lab
      <3>6. La[w] = Lba[w]
        <4>1. w \in DOMAIN L /\ w \in DOMAIN Lb => L[w] = Lb[w]
          BY <3>3
        <4>2. w # About(a) => w \in DOMAIN L /\ w \in DOMAIN Lb
          BY <3>3, <3>4
        <4> HIDE DEF Lb
        <4> QED
          BY <1>1, <1>3, <3>1, <3>5, <4>1, <4>2, ListedLocal
      <3> QED
        BY <3>2, <3>6
    <2>2. CASE w = About(b) /\ w # About(a)
      <3>1. w \in DOMAIN Lb
        BY <1>5, <1>6, <2>2 DEF WorkspacesAfter, About
      <3>2. Lba[w] = Lb[w]
        <4> HIDE DEF Lb
        <4> QED
          BY <1>1, <1>3, <2>2, <3>1, ListedElsewhere
      <3>3. w \in DOMAIN L => w \in DOMAIN La /\ La[w] = L[w]
        BY <1>1, <1>5, <2>2, ListedElsewhere DEF WorkspacesAfter, About
      <3>4. w # About(b) => w \in DOMAIN L /\ w \in DOMAIN La
        BY <2>2
      <3> HIDE DEF La, Lba
      <3>5. Lb[w] = Lab[w]
        <4>1. w \in DOMAIN L /\ w \in DOMAIN La => L[w] = La[w]
          BY <3>3
        <4> QED
          BY <1>1, <1>3, <3>1, <3>4, <4>1, ListedLocal
      <3> QED
        BY <3>2, <3>5
    <2>3. CASE w = About(b) /\ w = About(a)
      <3>1. /\ a.op \notin {"createWorkspace", "renameWorkspace", "load"}
            /\ b.op \notin {"createWorkspace", "renameWorkspace", "load"}
            /\ a.ws = w /\ b.ws = w
        BY <1>1, <1>2, <2>3 DEF About
      <3>2. a.op # "deleteWorkspace" /\ b.op # "deleteWorkspace"
        BY <1>5, <1>6, <3>1 DEF WorkspacesAfter
      <3>3. a.op \in TerminalOps /\ b.op \in TerminalOps
        BY <3>1, <3>2 DEF AnswerOK, CallOK, Calls, Ops, WorkspaceOps
      <3>4. w \in DOMAIN L /\ w \in DOMAIN La /\ w \in DOMAIN Lb /\ w \in DOMAIN Lba
        BY <1>5, <1>6, <3>3 DEF WorkspacesAfter, TerminalOps
      <3> DEFINE T == DOMAIN L[w].terminals
      <3>5. /\ La[w].name = L[w].name /\ DOMAIN La[w].terminals = TerminalsAfter(T, a)
            /\ \A x \in DOMAIN La[w].terminals :
                  La[w].terminals[x] = NameAfter(x, L[w].terminals[x], a)
        BY <1>1, <3>1, <3>3, <3>4, ListedInside
      <3>6. /\ Lb[w].name = L[w].name /\ DOMAIN Lb[w].terminals = TerminalsAfter(T, b)
            /\ \A x \in DOMAIN Lb[w].terminals :
                  Lb[w].terminals[x] = NameAfter(x, L[w].terminals[x], b)
        BY <1>1, <3>1, <3>3, <3>4, ListedInside
      <3> HIDE DEF La, Lb
      <3>7. /\ Lab[w].name = La[w].name
            /\ DOMAIN Lab[w].terminals = TerminalsAfter(DOMAIN La[w].terminals, b)
            /\ \A x \in DOMAIN Lab[w].terminals :
                  Lab[w].terminals[x] = NameAfter(x, La[w].terminals[x], b)
        BY <1>1, <1>3, <3>1, <3>3, <3>4, ListedInside
      <3>8. /\ Lba[w].name = Lb[w].name
            /\ DOMAIN Lba[w].terminals = TerminalsAfter(DOMAIN Lb[w].terminals, a)
            /\ \A x \in DOMAIN Lba[w].terminals :
                  Lba[w].terminals[x] = NameAfter(x, Lb[w].terminals[x], a)
        BY <1>1, <1>3, <3>1, <3>3, <3>4, ListedInside
      <3>9. Lab[w] \in Entries /\ Lba[w] \in Entries
        BY <1>4, <3>4, ListShape
      <3> HIDE DEF Lab, Lba, T
      <3>10. DOMAIN Lab[w].terminals = DOMAIN Lba[w].terminals
        BY <1>2, <3>3, <3>5, <3>6, <3>7, <3>8 DEF TerminalsAfter, TerminalOps
      <3>11. ASSUME NEW x \in DOMAIN Lab[w].terminals
             PROVE  Lab[w].terminals[x] = Lba[w].terminals[x]
        <4>1. /\ Lab[w].terminals[x] = NameAfter(x, La[w].terminals[x], b)
              /\ Lba[w].terminals[x] = NameAfter(x, Lb[w].terminals[x], a)
          BY <3>7, <3>8, <3>10
        <4>2. CASE x \in DOMAIN La[w].terminals /\ x \in DOMAIN Lb[w].terminals
          BY <1>1, <1>2, <3>1, <3>5, <3>6, <4>1, <4>2 DEF NameAfter
        <4>3. CASE x \notin DOMAIN La[w].terminals
          <5>1. b.op = "createTerminal" /\ x = b.answer
            BY <3>7, <4>3 DEF TerminalsAfter
          <5>2. x \in DOMAIN Lb[w].terminals
            BY <3>6, <5>1 DEF TerminalsAfter
          <5> QED
            BY <1>2, <3>6, <4>1, <5>1, <5>2 DEF NameAfter
        <4>4. CASE x \notin DOMAIN Lb[w].terminals
          <5>1. a.op = "createTerminal" /\ x = a.answer
            BY <3>8, <3>10, <4>4 DEF TerminalsAfter
          <5>2. x \in DOMAIN La[w].terminals
            BY <3>5, <5>1 DEF TerminalsAfter
          <5> QED
            BY <1>2, <3>5, <4>1, <5>1, <5>2 DEF NameAfter
        <4> QED
          BY <4>2, <4>3, <4>4
      <3> QED
        BY <3>5, <3>6, <3>7, <3>8, <3>9, <3>10, <3>11, SameEntry
    <2> QED
      BY <2>1, <2>2, <2>3
  <1> QED
    BY <1>4, <1>6, <1>7, SameList

-----------------------------------------------------------------------------
(* What is known of the state, and the steps in three kinds *)

\* x is a workspace or a terminal of the list.
Known(x, L) == x \in DOMAIN L \/ \E w \in DOMAIN L : x \in DOMAIN L[w].terminals

\* An answer that holds a whole list or workspace with x in it.
Shows(c, x) ==
    \/ c.op = "load" /\ Known(x, c.answer)
    \/ c.op = "renameWorkspace" /\ x \in DOMAIN c.answer.terminals

\* The types of the lists and of the requests.
ListsTypeOK ==
    /\ server \in Lists /\ list \in Lists
    /\ \A c \in sent : CallOK(c)
    /\ asking # Null => CallOK(asking)
    /\ replied \in Seq(Answers)
    /\ blurred \subseteq {"list", "panes"}

\* Every id in use was given out, and a terminal stays in its workspace.
AtHome(h, L) ==
    \A w \in DOMAIN L :
        w \in DOMAIN h /\ \A s \in DOMAIN L[w].terminals : s \in DOMAIN h /\ h[s] = w
CallAtHome(h, panes, c) ==
    /\ c.ws # Null => c.ws \in DOMAIN h
    /\ c.tm # Null => c.tm \in DOMAIN h /\ h[c.tm] = c.ws
    /\ c.op = "createTerminal" => c.pane \in panes
AnswerAtHome(h, panes, c) ==
    /\ CallAtHome(h, panes, c)
    /\ c.op = "load" => AtHome(h, c.answer)
    /\ c.op = "createTerminal" => c.answer \in DOMAIN h /\ h[c.answer] = c.ws
    /\ c.op = "createWorkspace" => c.answer \in DOMAIN h /\ h[c.answer] = c.answer
    /\ c.op = "renameWorkspace" =>
          \A s \in DOMAIN c.answer.terminals : s \in DOMAIN h /\ h[s] = c.ws

HomeInv ==
    /\ AtHome(home, server) /\ AtHome(home, list)
    /\ \A x \in DOMAIN home : home[x] \in DOMAIN home
    /\ \A c \in sent : CallAtHome(home, used, c)
    /\ asking # Null => CallAtHome(home, used, asking)
    /\ \A i \in 1..Len(replied) : AnswerAtHome(home, used, replied[i])
    /\ \A p \in DOMAIN at : at[p] # Null => at[p] \in DOMAIN home

\* A request whose ids come from the list.
FromList(c) ==
    /\ CallOK(c)
    /\ c.ws # Null => c.ws \in DOMAIN list
    /\ c.tm # Null => c.ws \in DOMAIN list /\ c.tm \in DOMAIN list[c.ws].terminals
    /\ c.op = "createTerminal" => c.pane \in used

\* The user asks, answers a dialog, moves panes or logs in and out, or the
\* stored layout comes.
ClientStep ==
    /\ UNCHANGED <<server, replied, home>>
    /\ \/ UNCHANGED <<list, blurred>>
       \/ list' = Empty /\ blurred' = blurred \cup {"list"}
    /\ \A c \in sent' : c \in sent \/ (asking # Null /\ c = asking) \/ FromList(c)
    /\ asking' # Null => asking' = asking \/ FromList(asking')
    /\ used \subseteq used'
    /\ \A p \in DOMAIN at' : \/ at'[p] = Null \/ at'[p] \in ListedSessions
                             \/ stale' = stale /\ \E q \in DOMAIN at : at'[p] = at[q]
                             \/ at'[p] \in DOMAIN home /\ at'[p] \in SessionsOf(server) \cup stale'
    /\ [PanesNext]_panesVars

\* The server serves a request and answers r.
ServerStep(r) ==
    /\ AnswerOK(r)
    /\ \E c \in sent : c.op = r.op /\ c.ws = r.ws /\ c.tm = r.tm /\ c.pane = r.pane
    /\ sent' \subseteq sent
    /\ replied' = Append(replied, r)
    /\ server' = Listed(server, r)
    /\ r.op \in WorkspaceOps => r.ws \in DOMAIN server
    /\ r.op = "load" => r.answer = server
    /\ r.op = "renameWorkspace" =>
          DOMAIN r.answer.terminals = DOMAIN server[r.ws].terminals
    /\ Made(r) = {} => home' = home
    /\ \A x \in Made(r) :
          /\ x \notin DOMAIN home /\ DOMAIN home' = DOMAIN home \cup {x}
          /\ \A y \in DOMAIN home : home'[y] = home[y]
          /\ home'[x] = IF r.op = "createTerminal" THEN r.ws ELSE x
    /\ UNCHANGED <<at, focus, used, list, asking, blurred, stale>>

\* Logins, logout and the requests of the user.
LEMMA AskingIsClientStep ==
  ASSUME ListsTypeOK, PanesInv,
         \/ AuthChecked \/ submit \/ LoginAnswered \/ handleLogout \/ createWorkspace
         \/ \E ws \in WsIds :
               \/ handleDeleteWorkspace(ws)
               \/ \E p \in PaneIds : createTerminal(ws, p)
               \/ \E name \in Names : renameWorkspace(ws, name)
               \/ \E tm \in Sessions :
                     \/ handleDeleteTerminal(ws, tm)
                     \/ \E name \in Names : renameTerminal(ws, tm, name)
         \/ \E ok \in BOOLEAN : settle(ok)
         \/ \E call \in sent : CallFails(call)
  PROVE  ClientStep
  <1> DEFINE Quiet == /\ UNCHANGED <<server, replied, home, at, focus, used, stale>>
                      /\ \/ UNCHANGED <<list, blurred>>
                         \/ list' = Empty /\ blurred' = blurred \cup {"list"}
  <1>1. ASSUME Quiet,
               \A c \in sent' : c \in sent \/ (asking # Null /\ c = asking) \/ FromList(c),
               asking' # Null => asking' = asking \/ FromList(asking')
        PROVE  ClientStep
    BY <1>1 DEF ClientStep, panesVars
  <1>2. DOMAIN at \subseteq used /\ DOMAIN list \subseteq WsIds
        /\ \A w \in DOMAIN list : list[w] \in Entries
    BY PanesShape, ListShape DEF PanesInv, ListsTypeOK
  <1>3. CASE submit \/ handleLogout \/ \E call \in sent : CallFails(call)
    BY <1>1, <1>3 DEF submit, handleLogout, CallFails
  <1>4. CASE AuthChecked \/ LoginAnswered
    <2> DEFINE c0 == Call("load", Null, Null, Null, Null, Null)
    <2>1. FromList(c0)
      <3>1. c0 \in Calls /\ c0.op = "load" /\ c0.ws = Null /\ c0.tm = Null
        BY DEF Call, Calls, Ops
      <3> QED
        BY <3>1 DEF FromList, CallOK, WorkspaceOps, TerminalOps
    <2>2. Quiet /\ asking' = asking /\ (sent' = sent \/ sent' = sent \cup {c0})
      BY <1>4 DEF AuthChecked, LoginAnswered, load, Send
    <2> QED
      BY <1>1, <2>1, <2>2
  <1>5. CASE createWorkspace
    <2> DEFINE c0 == Call("createWorkspace", Null, Null, FirstName, Null, Null)
    <2>1. FromList(c0)
      <3>1. c0 \in Calls /\ c0.op = "createWorkspace" /\ c0.ws = Null /\ c0.tm = Null
            /\ c0.name \in Names
        BY WorkspacesAssumption DEF Call, Calls, Ops
      <3> QED
        BY <3>1 DEF FromList, CallOK, WorkspaceOps, TerminalOps
    <2>2. Quiet /\ asking' = asking /\ sent' = sent \cup {c0}
      BY <1>5 DEF createWorkspace, Asks, Send
    <2> QED
      BY <1>1, <2>1, <2>2
  <1>6. ASSUME NEW ws \in WsIds, NEW p \in PaneIds, createTerminal(ws, p) PROVE ClientStep
    <2> DEFINE c0 == Call("createTerminal", ws, Null, FirstName, p, Null)
    <2>1. ws \in DOMAIN list /\ p \in used
      BY <1>2, <1>6 DEF createTerminal
    <2>2. FromList(c0)
      <3>1. c0 \in Calls /\ c0.op = "createTerminal" /\ c0.ws = ws /\ c0.tm = Null
            /\ c0.name \in Names /\ c0.pane = p
        BY WorkspacesAssumption DEF Call, Calls, Ops, WorkspaceOps, TerminalOps
      <3> QED
        BY <2>1, <3>1 DEF FromList, CallOK, WorkspaceOps, TerminalOps
    <2>3. Quiet /\ asking' = asking /\ sent' = sent \cup {c0}
      BY <1>6 DEF createTerminal, Asks, Send
    <2> QED
      BY <1>1, <2>2, <2>3
  <1>7. ASSUME NEW ws \in WsIds, NEW name \in Names, renameWorkspace(ws, name) PROVE ClientStep
    <2> DEFINE c0 == Call("renameWorkspace", ws, Null, name, Null, list[ws])
    <2>1. ws \in DOMAIN list /\ list[ws] \in Entries
      BY <1>2, <1>7 DEF renameWorkspace
    <2>2. FromList(c0)
      <3>1. c0 \in Calls /\ c0.op = "renameWorkspace" /\ c0.ws = ws /\ c0.tm = Null
            /\ c0.name \in Names
        BY <2>1 DEF Call, Calls, Ops, WorkspaceOps, TerminalOps
      <3> QED
        BY <2>1, <3>1 DEF FromList, CallOK, WorkspaceOps, TerminalOps
    <2>3. Quiet /\ asking' = asking /\ sent' = sent \cup {c0}
      BY <1>7 DEF renameWorkspace, Asks, Send
    <2> QED
      BY <1>1, <2>2, <2>3
  <1>8. ASSUME NEW ws \in WsIds, NEW tm \in Sessions, NEW name \in Names,
               renameTerminal(ws, tm, name)
        PROVE  ClientStep
    <2> DEFINE c0 == Call("renameTerminal", ws, tm, name, Null, list[ws])
    <2>1. ws \in DOMAIN list /\ list[ws] \in Entries /\ tm \in DOMAIN list[ws].terminals
      BY <1>2, <1>8 DEF renameTerminal, HasTerminal
    <2>2. FromList(c0)
      <3>1. c0 \in Calls /\ c0.op = "renameTerminal" /\ c0.ws = ws /\ c0.tm = tm
            /\ c0.name \in Names
        BY <2>1 DEF Call, Calls, Ops, WorkspaceOps, TerminalOps
      <3> QED
        BY <2>1, <3>1 DEF FromList, CallOK, WorkspaceOps, TerminalOps
    <2>3. Quiet /\ asking' = asking /\ sent' = sent \cup {c0}
      BY <1>8 DEF renameTerminal, Asks, Send
    <2> QED
      BY <1>1, <2>2, <2>3
  <1>9. ASSUME NEW ws \in WsIds, handleDeleteWorkspace(ws) PROVE ClientStep
    <2> DEFINE c0 == Call("deleteWorkspace", ws, Null, Null, Null, list[ws])
    <2>1. ws \in DOMAIN list /\ list[ws] \in Entries
      BY <1>2, <1>9 DEF handleDeleteWorkspace
    <2>2. FromList(c0)
      <3>1. c0 \in Calls /\ c0.op = "deleteWorkspace" /\ c0.ws = ws /\ c0.tm = Null
            /\ c0.seen = list[ws]
        BY <2>1 DEF Call, Calls, Ops, WorkspaceOps, TerminalOps
      <3> QED
        BY <2>1, <3>1 DEF FromList, CallOK, WorkspaceOps, TerminalOps
    <2>3. Quiet /\ asking' = c0 /\ sent' = sent
      BY <1>9 DEF handleDeleteWorkspace, confirm
    <2> QED
      BY <1>1, <2>2, <2>3
  <1>10. ASSUME NEW ws \in WsIds, NEW tm \in Sessions, handleDeleteTerminal(ws, tm)
         PROVE  ClientStep
    <2> DEFINE c0 == Call("deleteTerminal", ws, tm, Null, Null, list[ws])
    <2>1. ws \in DOMAIN list /\ list[ws] \in Entries /\ tm \in DOMAIN list[ws].terminals
      BY <1>2, <1>10 DEF handleDeleteTerminal, HasTerminal
    <2>2. FromList(c0)
      <3>1. c0 \in Calls /\ c0.op = "deleteTerminal" /\ c0.ws = ws /\ c0.tm = tm
        BY <2>1 DEF Call, Calls, Ops, WorkspaceOps, TerminalOps
      <3> QED
        BY <2>1, <3>1 DEF FromList, CallOK, WorkspaceOps, TerminalOps
    <2>3. Quiet /\ asking' = c0 /\ sent' = sent
      BY <1>10 DEF handleDeleteTerminal, confirm
    <2> QED
      BY <1>1, <2>2, <2>3
  <1>11. ASSUME NEW ok \in BOOLEAN, settle(ok) PROVE ClientStep
    <2>1. Quiet /\ asking' = Null /\ asking # Null
          /\ (sent' = sent \/ sent' = sent \cup {asking})
      BY <1>11 DEF settle, Send
    <2> QED
      BY <1>1, <2>1
  <1> QED
    BY <1>3, <1>4, <1>5, <1>6, <1>7, <1>8, <1>9, <1>10, <1>11

\* A click in the sidebar and the operations of the split view.
LEMMA MovingIsClientStep ==
  ASSUME ListsTypeOK, PanesInv, UserMovesPanes
  PROVE  ClientStep
  <1>1. UNCHANGED <<server, list, asking, sent, replied, home, blurred, stale>>
    BY DEF UserMovesPanes
  <1>2. DOMAIN at \subseteq used /\ focus \in DOMAIN at
    BY PanesShape DEF PanesInv, FocusOnPane
  <1>3. ListedSessions \subseteq Sessions
    BY ListShape, EntryShape DEF ListedSessions, SessionsOf, ListsTypeOK
  <1> DEFINE Good == /\ used \subseteq used'
                     /\ \A p \in DOMAIN at' : \/ at'[p] = Null \/ at'[p] \in ListedSessions
                                              \/ \E q \in DOMAIN at : at'[p] = at[q]
                     /\ PanesEdited
  <1>4. ASSUME NEW p \in DOMAIN at, ClosePane(p) \/ FocusPane(p) PROVE Good
    <2>1. PanesEdited
      BY <1>4 DEF PanesEdited
    <2>2. used' = used
      BY <1>4 DEF ClosePane, FocusPane
    <2>3. \A q \in DOMAIN at' : q \in DOMAIN at /\ at'[q] = at[q]
      BY <1>4 DEF ClosePane, FocusPane
    <2> QED
      BY <2>1, <2>2, <2>3
  <1>5. ASSUME NEW p \in DOMAIN at, NEW new \in PaneIds, used' = used \cup {new},
               SplitPane(p, new) \/ CloseLastPane(p, new)
        PROVE  Good
    <2>1. PanesEdited
      BY <1>5 DEF PanesEdited
    <2>2. \A q \in DOMAIN at' : at'[q] = Null \/ (q \in DOMAIN at /\ at'[q] = at[q])
      BY <1>5 DEF SplitPane, CloseLastPane
    <2> QED
      BY <1>5, <2>1, <2>2
  <1>6. ASSUME NEW tm \in ListedSessions, AssignSession(focus, tm) PROVE Good
    <2>1. PanesEdited
      BY <1>2, <1>3, <1>6 DEF PanesEdited
    <2>2. used' = used /\ at' = Assigned(focus, tm)
      BY <1>2, <1>6 DEF AssignSession
    <2>3. \A q \in DOMAIN at' : \/ at'[q] = Null \/ at'[q] = tm
                                \/ (q \in DOMAIN at /\ at'[q] = at[q])
      BY <2>2 DEF Assigned, Without
    <2> QED
      BY <1>6, <2>1, <2>2, <2>3
  <1>7. Good
    BY <1>4, <1>5, <1>6 DEF UserMovesPanes
  <1> QED
    BY <1>1, <1>7 DEF ClientStep, PanesNext

\* The stored layout takes the place of the panes.
LEMMA RestoringIsClientStep ==
  ASSUME RestoreAnswered
  PROVE  ClientStep
  <1>1. UNCHANGED <<server, list, asking, sent, replied, home, blurred>>
    BY DEF RestoreAnswered
  <1>2. CASE UNCHANGED <<at, focus, used, stale>>
    BY <1>1, <1>2 DEF ClientStep, panesVars
  <1>3. CASE /\ ReplacePanes /\ used' = used \cup DOMAIN at'
             /\ \A p \in DOMAIN at' : at'[p] \in DOMAIN home \cup {Null}
             /\ stale' = {at'[p] : p \in DOMAIN at'} \ (SessionsOf(server) \cup {Null})
    <2>1. ASSUME NEW p \in DOMAIN at', at'[p] # Null
          PROVE  at'[p] \in DOMAIN home /\ at'[p] \in SessionsOf(server) \cup stale'
      <3>1. at'[p] \in {at'[q] : q \in DOMAIN at'}
        OBVIOUS
      <3> QED
        BY <1>3, <2>1, <3>1, Zenon
    <2> QED
      BY <1>1, <1>3, <2>1 DEF ClientStep, PanesNext
  <1> QED
    BY <1>2, <1>3 DEF RestoreAnswered

\* A request with its answer is the request otherwise.
LEMMA AnswerFields ==
  ASSUME NEW c \in Calls, NEW a \in Lists \cup Entries \cup WsIds \cup Sessions \cup {Null}
  PROVE  LET r == [c EXCEPT !.answer = a]
         IN  /\ r \in Calls /\ r.answer = a
             /\ r.op = c.op /\ r.ws = c.ws /\ r.tm = c.tm /\ r.name = c.name /\ r.pane = c.pane
             /\ r.seen = c.seen
  BY DEF Calls

\* What the server does is what the client makes of the answer.
LEMMA ServingIsServerStep ==
  ASSUME ListsTypeOK, NEW call \in sent, ServerServes(call)
  PROVE  \E r : ServerStep(r)
  <1>1. CallOK(call) /\ call \in Calls /\ server \in Lists
    BY DEF ListsTypeOK, CallOK
  <1> DEFINE r(a) == [call EXCEPT !.answer = a]
  <1>2. DOMAIN server \subseteq WsIds /\ \A w \in DOMAIN server : server[w] \in Entries
    BY <1>1, ListShape
  <1>3. ASSUME NEW next, NEW a \in Lists \cup Entries \cup WsIds \cup Sessions \cup {Null},
               Replies(call, next, a)
        PROVE  /\ replied' = Append(replied, r(a)) /\ server' = next /\ sent' \subseteq sent
               /\ UNCHANGED <<at, focus, used, list, asking, blurred, stale>>
               /\ r(a) \in Calls /\ r(a).answer = a
               /\ r(a).op = call.op /\ r(a).ws = call.ws /\ r(a).tm = call.tm
               /\ r(a).name = call.name /\ r(a).pane = call.pane /\ r(a).seen = call.seen
    BY <1>1, <1>3, AnswerFields DEF Replies
  <1> HIDE DEF r
  <1>4. CASE ServerCreatesTerminal(call)
    <2>1. PICK tm \in Sessions \ DOMAIN home :
             /\ home' = Given(tm, call.ws)
             /\ Replies(call, WithTerminal(server, call.ws, tm, call.name), tm)
      BY <1>4 DEF ServerCreatesTerminal
    <2>2. call.op = "createTerminal" /\ call.ws \in DOMAIN server
      BY <1>4 DEF ServerCreatesTerminal
    <2>3. AnswerOK(r(tm)) /\ Made(r(tm)) = {tm}
      BY <1>1, <1>3, <2>1, <2>2 DEF AnswerOK, CallOK, Made
    <2>4. server' = Listed(server, r(tm))
      BY <1>3, <2>1, <2>2 DEF Listed
    <2>5. /\ DOMAIN home' = DOMAIN home \cup {tm} /\ home'[tm] = call.ws
          /\ \A y \in DOMAIN home : home'[y] = home[y]
      BY <2>1 DEF Given
    <2>6. ServerStep(r(tm))
      BY <1>3, <2>1, <2>2, <2>3, <2>4, <2>5 DEF ServerStep
    <2> QED
      BY <2>6
  <1>5. CASE ServerCreatesWorkspace(call)
    <2>1. PICK ws \in WsIds \ DOMAIN home :
             /\ home' = Given(ws, ws)
             /\ Replies(call, WithWorkspace(server, ws, [name |-> call.name, terminals |-> Empty]), ws)
      BY <1>5 DEF ServerCreatesWorkspace
    <2>2. call.op = "createWorkspace"
      BY <1>5 DEF ServerCreatesWorkspace
    <2>3. AnswerOK(r(ws)) /\ Made(r(ws)) = {ws}
      BY <1>1, <1>3, <2>1, <2>2 DEF AnswerOK, CallOK, Made
    <2>4. server' = Listed(server, r(ws))
      BY <1>3, <2>1, <2>2 DEF Listed
    <2>5. /\ DOMAIN home' = DOMAIN home \cup {ws} /\ home'[ws] = ws
          /\ \A y \in DOMAIN home : home'[y] = home[y]
      BY <2>1 DEF Given
    <2>6. ServerStep(r(ws))
      BY <1>3, <2>1, <2>2, <2>3, <2>4, <2>5 DEF ServerStep, WorkspaceOps, TerminalOps
    <2> QED
      BY <2>6
  <1>6. CASE call.op = "deleteWorkspace" /\ ServerDeletes(call)
    <2>1. /\ call.ws \in DOMAIN server /\ home' = home
          /\ Replies(call, Restrict(server, DOMAIN server \ {call.ws}), Null)
      BY <1>6 DEF ServerDeletes
    <2>2. AnswerOK(r(Null)) /\ Made(r(Null)) = {}
      BY <1>1, <1>3, <1>6, <2>1 DEF AnswerOK, CallOK, Made
    <2>3. server' = Listed(server, r(Null))
      BY <1>3, <1>6, <2>1 DEF Listed
    <2>4. ServerStep(r(Null))
      BY <1>3, <1>6, <2>1, <2>2, <2>3 DEF ServerStep
    <2> QED
      BY <2>4
  <1>7. CASE call.op = "deleteTerminal" /\ ServerDeletes(call)
    <2>1. /\ call.ws \in DOMAIN server /\ home' = home
          /\ Replies(call, WithoutTerminal(server, call.ws, call.tm), Null)
      BY <1>7 DEF ServerDeletes, HasTerminal
    <2>2. AnswerOK(r(Null)) /\ Made(r(Null)) = {}
      BY <1>1, <1>3, <1>7, <2>1 DEF AnswerOK, CallOK, Made
    <2>3. server' = Listed(server, r(Null))
      BY <1>3, <1>7, <2>1 DEF Listed
    <2>4. ServerStep(r(Null))
      BY <1>3, <1>7, <2>1, <2>2, <2>3 DEF ServerStep
    <2> QED
      BY <2>4
  <1>8. CASE call.op = "renameTerminal" /\ ServerRenames(call)
    <2>1. /\ call.ws \in DOMAIN server /\ home' = home
          /\ Replies(call, WithName(server, call.ws, call.tm, call.name), Null)
      BY <1>8 DEF ServerRenames, HasTerminal
    <2>2. AnswerOK(r(Null)) /\ Made(r(Null)) = {}
      BY <1>1, <1>3, <1>8, <2>1 DEF AnswerOK, CallOK, Made
    <2>3. server' = Listed(server, r(Null))
      BY <1>3, <1>8, <2>1 DEF Listed, TerminalRenamed
    <2>4. ServerStep(r(Null))
      BY <1>3, <1>8, <2>1, <2>2, <2>3 DEF ServerStep
    <2> QED
      BY <2>4
  <1>9. CASE call.op = "renameWorkspace" /\ ServerRenames(call)
    <2> DEFINE next == [server EXCEPT ![call.ws].name = call.name]
               e == next[call.ws]
    <2>1. call.ws \in DOMAIN server /\ home' = home /\ Replies(call, next, e)
      BY <1>9 DEF ServerRenames
    <2>2. /\ e = [name |-> call.name, terminals |-> server[call.ws].terminals]
          /\ next = [server EXCEPT ![call.ws] = e]
      <3>1. server[call.ws] = [name |-> server[call.ws].name, terminals |-> server[call.ws].terminals]
        BY <1>2, <2>1, EntryShape
      <3> QED
        BY <2>1, <3>1
    <2> HIDE DEF next, e
    <2>3. e \in Entries /\ e.terminals = server[call.ws].terminals
      <3>1. call.name \in Names
        BY <1>1, <1>9 DEF CallOK
      <3> QED
        BY <1>2, <2>1, <2>2, <3>1, EntryShape, EntryBuilt
    <2>4. AnswerOK(r(e)) /\ Made(r(e)) = {}
      BY <1>1, <1>3, <1>9, <2>1, <2>3 DEF AnswerOK, CallOK, Made
    <2>5. server' = Listed(server, r(e))
      BY <1>3, <1>9, <2>1, <2>2, <2>3 DEF Listed
    <2>6. ServerStep(r(e))
      BY <1>3, <1>9, <2>1, <2>3, <2>4, <2>5 DEF ServerStep
    <2> QED
      BY <2>6
  <1>10. CASE ServerLists(call)
    <2>1. call.op = "load" /\ home' = home /\ Replies(call, server, server)
      BY <1>10 DEF ServerLists
    <2>2. AnswerOK(r(server)) /\ Made(r(server)) = {}
      BY <1>1, <1>3, <2>1 DEF AnswerOK, CallOK, Made, WorkspaceOps, TerminalOps
    <2>3. server' = Listed(server, r(server))
      BY <1>1, <1>3, <2>1 DEF Listed
    <2>4. ServerStep(r(server))
      BY <1>1, <1>3, <2>1, <2>2, <2>3 DEF ServerStep, WorkspaceOps, TerminalOps
    <2> QED
      BY <2>4
  <1>11. ServerDeletes(call) => call.op \in {"deleteWorkspace", "deleteTerminal"}
    BY DEF ServerDeletes
  <1>12. ServerRenames(call) => call.op \in {"renameWorkspace", "renameTerminal"}
    BY DEF ServerRenames
  <1> QED
    BY <1>4, <1>5, <1>6, <1>7, <1>8, <1>9, <1>10, <1>11, <1>12 DEF ServerServes

-----------------------------------------------------------------------------
(* Types and homes *)

\* Where the workspaces and terminals after an answer come from.
LEMMA ListedMembers ==
  ASSUME NEW L \in Lists, NEW c, AnswerOK(c), c.op # "load", NEW w \in DOMAIN Listed(L, c)
  PROVE  /\ w \in DOMAIN L \/ (c.op = "createWorkspace" /\ w = c.answer)
         /\ \A s \in DOMAIN Listed(L, c)[w].terminals :
               \/ /\ w \in DOMAIN L /\ s \in DOMAIN L[w].terminals
                  /\ ~(c.op = "deleteTerminal" /\ w = c.ws /\ s = c.tm)
               \/ c.op = "createTerminal" /\ w = c.ws /\ s = c.answer
               \/ c.op = "renameWorkspace" /\ w = c.ws /\ s \in DOMAIN c.answer.terminals
  <1>1. w \in DOMAIN L \/ (c.op = "createWorkspace" /\ w = c.answer)
    BY ListedTyped DEF WorkspacesAfter
  <1>2. c.op \in Ops
    BY DEF AnswerOK, CallOK, Calls
  <1>3. CASE w # About(c)
    <2>1. w \in DOMAIN L /\ Listed(L, c)[w] = L[w]
      BY <1>1, <1>3, ListedElsewhere DEF About
    <2> QED
      BY <1>1, <1>3, <2>1 DEF About
  <1>4. CASE w = About(c) /\ c.op = "createWorkspace"
    <2>1. Listed(L, c)[w] = [name |-> c.name, terminals |-> Empty]
      BY <1>4, ListedAfter DEF About
    <2>2. DOMAIN Listed(L, c)[w].terminals = {}
      BY <2>1, EmptyTyped
    <2> QED
      BY <1>1, <2>2
  <1>5. CASE w = c.ws /\ c.op = "renameWorkspace"
    BY <1>1, <1>5, ListedWhole
  <1>6. CASE w = c.ws /\ c.op = "deleteWorkspace"
    <2>1. w \in WorkspacesAfter(DOMAIN L, c)
      BY ListedTyped
    <2> QED
      BY <1>6, <2>1 DEF WorkspacesAfter
  <1>7. CASE w = c.ws /\ c.op \in TerminalOps
    <2>1. w \in DOMAIN L
      BY <1>1, <1>7 DEF TerminalOps
    <2>2. DOMAIN Listed(L, c)[w].terminals = TerminalsAfter(DOMAIN L[w].terminals, c)
      BY <1>7, <2>1, ListedInside
    <2> QED
      BY <1>7, <2>1, <2>2 DEF TerminalsAfter
  <1> QED
    BY <1>2, <1>3, <1>4, <1>5, <1>6, <1>7 DEF Ops, WorkspaceOps, About

\* The list after an answer is a list, and knows what the list or the answer
\* knew.
LEMMA ListedTypedAll ==
  ASSUME NEW L \in Lists, NEW c, AnswerOK(c)
  PROVE  Listed(L, c) \in Lists
  <1>1. CASE c.op = "load"
    BY <1>1 DEF Listed, AnswerOK
  <1> QED
    BY <1>1, ListedTyped

\* An id that an answer brings into the list is one it made or one it shows.
LEMMA ListedKnown ==
  ASSUME NEW L \in Lists, NEW c, AnswerOK(c), NEW x, Known(x, Listed(L, c))
  PROVE  Known(x, L) \/ x \in Made(c) \/ Shows(c, x)
  <1>1. CASE c.op = "load"
    BY <1>1 DEF Listed, Shows
  <1>2. CASE c.op # "load"
    <2>1. CASE x \in DOMAIN Listed(L, c)
      BY <1>2, <2>1, ListedMembers DEF Known, Made
    <2>2. ASSUME NEW w \in DOMAIN Listed(L, c), x \in DOMAIN Listed(L, c)[w].terminals
          PROVE  Known(x, L) \/ x \in Made(c) \/ Shows(c, x)
      BY <1>2, <2>2, ListedMembers DEF Known, Made, Shows
    <2> QED
      BY <2>1, <2>2 DEF Known
  <1> QED
    BY <1>1, <1>2

\* What has a home keeps it.
LEMMA HomeGrows ==
  ASSUME NEW h, NEW g, DOMAIN h \subseteq DOMAIN g, \A x \in DOMAIN h : g[x] = h[x],
         NEW u, NEW v, u \subseteq v
  PROVE  /\ \A L : AtHome(h, L) => AtHome(g, L)
         /\ \A c : CallAtHome(h, u, c) => CallAtHome(g, v, c)
         /\ \A c : AnswerAtHome(h, u, c) => AnswerAtHome(g, v, c)
  <1>1. \A L : AtHome(h, L) => AtHome(g, L)
    BY DEF AtHome
  <1>2. \A c : CallAtHome(h, u, c) => CallAtHome(g, v, c)
    BY DEF CallAtHome
  <1>3. ASSUME NEW c, AnswerAtHome(h, u, c) PROVE AnswerAtHome(g, v, c)
    BY <1>1, <1>2, <1>3 DEF AnswerAtHome
  <1> QED
    BY <1>1, <1>2, <1>3

\* An answer keeps the terminals of the list in their workspaces.
LEMMA ListedAtHome ==
  ASSUME NEW L \in Lists, NEW c, AnswerOK(c), NEW h, NEW u, AtHome(h, L), AnswerAtHome(h, u, c)
  PROVE  AtHome(h, Listed(L, c))
  <1>1. CASE c.op = "load"
    BY <1>1 DEF Listed, AnswerAtHome
  <1>2. CASE c.op # "load"
    <2>1. ASSUME NEW w \in DOMAIN Listed(L, c)
          PROVE  w \in DOMAIN h
      BY <1>2, ListedMembers DEF AtHome, AnswerAtHome
    <2>2. ASSUME NEW w \in DOMAIN Listed(L, c), NEW s \in DOMAIN Listed(L, c)[w].terminals
          PROVE  s \in DOMAIN h /\ h[s] = w
      BY <1>2, ListedMembers DEF AtHome, AnswerAtHome
    <2> QED
      BY <2>1, <2>2 DEF AtHome
  <1> QED
    BY <1>1, <1>2

\* The answers that are left when the i-th was taken: the k-th was the
\* Before(k, i)-th.
Before(k, i) == IF k < i THEN k ELSE k + 1

\* An answer is taken out of the queue; the others keep their order.
LEMMA AnswerTaken ==
  ASSUME ListsTypeOK, NEW i \in DOMAIN replied, replied' = RemoveAt(replied, i)
  PROVE  /\ i \in 1..Len(replied) /\ Len(replied) \in Nat /\ Len(replied') = Len(replied) - 1
         /\ replied[i] \in Answers /\ replied' \in Seq(Answers)
         /\ \A k \in 1..Len(replied') :
               Before(k, i) \in 1..Len(replied) /\ replied'[k] = replied[Before(k, i)]
         /\ \A j \in 1..Len(replied) : j # i => \E k \in 1..Len(replied') : Before(k, i) = j
  <1>1. replied \in Seq(Answers)
    BY DEF ListsTypeOK
  <1>2. /\ replied' \in Seq(Answers) /\ Len(replied') = Len(replied) - 1
        /\ \A k \in 1..(Len(replied) - 1) :
              replied'[k] = IF k < i THEN replied[k] ELSE replied[k + 1]
    BY <1>1, Removed
  <1>3. i \in 1..Len(replied) /\ Len(replied) \in Nat /\ replied[i] \in Answers
    BY <1>1
  <1>4. ASSUME NEW k \in 1..Len(replied')
        PROVE  Before(k, i) \in 1..Len(replied) /\ replied'[k] = replied[Before(k, i)]
    BY <1>2, <1>3 DEF Before
  <1>5. ASSUME NEW j \in 1..Len(replied), j # i
        PROVE  \E k \in 1..Len(replied') : Before(k, i) = j
    <2>1. CASE j < i
      <3>1. j \in 1..Len(replied') /\ Before(j, i) = j
        BY <1>2, <1>3, <2>1 DEF Before
      <3> QED
        BY <3>1
    <2>2. CASE ~(j < i)
      <3>1. j - 1 \in 1..Len(replied') /\ Before(j - 1, i) = j
        BY <1>2, <1>3, <1>5, <2>2 DEF Before
      <3> QED
        BY <3>1
    <2> QED
      BY <2>1, <2>2
  <1> QED
    BY <1>2, <1>3, <1>4, <1>5

\* What an answer applied or lost does, but for the panes.
LEMMA AnswerStep ==
  ASSUME ListsTypeOK, NEW i, AnswerApplied(i) \/ AnswerLost(i)
  PROVE  /\ i \in DOMAIN replied /\ replied' = RemoveAt(replied, i)
         /\ UNCHANGED <<server, asking, sent, home, used, stale>>
         /\ \/ list' = Listed(list, replied[i])
            \/ list' = list /\ (blurred' = {"list", "panes"} \/ replied[i].op = "load")
         /\ blurred' \subseteq {"list", "panes"}
  BY DEF AnswerApplied, AnswerLost, ListsTypeOK, AssignSession, UnplaceSessions, panesVars

\* The steps of the panes are steps of Panes.
LEMMA AnswerMovesPanes ==
  ASSUME ListsTypeOK, HomeInv, NEW i, AnswerApplied(i) \/ AnswerLost(i)
  PROVE  [PanesEdited]_panesVars
  <1>1. CASE AnswerLost(i)
    BY <1>1 DEF AnswerLost, panesVars
  <1>2. CASE AnswerApplied(i)
    <2> DEFINE call == replied[i]
    <2>1. i \in 1..Len(replied) /\ call \in Answers
      BY <1>2 DEF AnswerApplied, ListsTypeOK
    <2>2. AnswerOK(call) /\ AnswerAtHome(home, used, call)
      BY <2>1 DEF Answers, HomeInv
    <2>3. CASE call.op = "createTerminal"
      <3>1. AssignSession(call.pane, call.answer)
        BY <1>2, <2>3 DEF AnswerApplied
      <3>2. call.pane \in used /\ call.answer \in Sessions
        BY <2>2, <2>3 DEF AnswerOK, AnswerAtHome, CallAtHome
      <3> QED
        BY <3>1, <3>2 DEF PanesEdited
    <2>4. CASE call.op # "createTerminal"
      <3>1. UnplaceSessions(Unplaced(call))
        BY <1>2, <2>4 DEF AnswerApplied
      <3>2. Unplaced(call) \subseteq Sessions
        BY <2>2, EntryShape DEF Unplaced, AnswerOK, CallOK
      <3> QED
        BY <3>1, <3>2 DEF PanesEdited
    <2> QED
      BY <2>3, <2>4
  <1> QED
    BY <1>1, <1>2

\* The three kinds of steps keep the types.
LEMMA TypeStep ==
  ASSUME ListsTypeOK,
         ClientStep \/ (\E r : ServerStep(r)) \/ (\E i : AnswerApplied(i) \/ AnswerLost(i))
  PROVE  ListsTypeOK'
  <1>1. CASE ClientStep
    <2>1. server' \in Lists /\ list' \in Lists /\ replied' \in Seq(Answers)
      BY <1>1, EmptyTyped DEF ClientStep, ListsTypeOK
    <2>2. /\ \A c \in sent' : CallOK(c)
          /\ asking' # Null => CallOK(asking')
          /\ blurred' \subseteq {"list", "panes"}
      BY <1>1 DEF ClientStep, ListsTypeOK, FromList
    <2> QED
      BY <2>1, <2>2 DEF ListsTypeOK
  <1>2. ASSUME NEW r, ServerStep(r) PROVE ListsTypeOK'
    <2>1. server' \in Lists /\ r \in Answers
      BY <1>2, ListedTypedAll DEF ServerStep, ListsTypeOK, Answers, AnswerOK, CallOK
    <2>2. replied' \in Seq(Answers)
      BY <1>2, <2>1 DEF ServerStep, ListsTypeOK
    <2> QED
      BY <1>2, <2>1, <2>2 DEF ServerStep, ListsTypeOK
  <1>3. ASSUME NEW i, AnswerApplied(i) \/ AnswerLost(i) PROVE ListsTypeOK'
    <2>1. /\ i \in DOMAIN replied /\ replied' = RemoveAt(replied, i)
          /\ UNCHANGED <<server, asking, sent>>
          /\ list' = Listed(list, replied[i]) \/ list' = list
          /\ blurred' \subseteq {"list", "panes"}
      BY <1>3, AnswerStep
    <2>2. replied[i] \in Answers /\ replied' \in Seq(Answers)
      BY <2>1, AnswerTaken
    <2>3. list' \in Lists
      BY <2>1, <2>2, ListedTypedAll DEF ListsTypeOK, Answers
    <2> QED
      BY <2>1, <2>2, <2>3 DEF ListsTypeOK
  <1> QED
    BY <1>1, <1>2, <1>3

\* What is in the panes after an answer was there or came with it.
LEMMA AnswerFillsPanes ==
  ASSUME NEW i, AnswerApplied(i) \/ AnswerLost(i), NEW p \in DOMAIN at', at'[p] # Null
  PROVE  \/ replied[i].op = "createTerminal" /\ at'[p] = replied[i].answer /\ AnswerApplied(i)
         \/ /\ p \in DOMAIN at /\ at'[p] = at[p]
            /\ AnswerApplied(i) /\ replied[i].op # "createTerminal" =>
                  at[p] \notin Unplaced(replied[i])
  <1>1. CASE AnswerLost(i) /\ ~AnswerApplied(i)
    BY <1>1 DEF AnswerLost
  <1>2. CASE AnswerApplied(i) /\ replied[i].op = "createTerminal"
    <2>1. AssignSession(replied[i].pane, replied[i].answer)
      BY <1>2 DEF AnswerApplied
    <2> QED
      BY <1>2, <2>1 DEF AssignSession, Assigned, Without, panesVars
  <1>3. CASE AnswerApplied(i) /\ replied[i].op # "createTerminal"
    <2>1. at' = Without(Unplaced(replied[i]))
      BY <1>3 DEF AnswerApplied, UnplaceSessions
    <2> QED
      BY <1>3, <2>1 DEF Without
  <1> QED
    BY <1>1, <1>2, <1>3

\* And every id keeps its home.
LEMMA HomeStep ==
  ASSUME ListsTypeOK, HomeInv,
         ClientStep \/ (\E r : ServerStep(r)) \/ (\E i : AnswerApplied(i) \/ AnswerLost(i))
  PROVE  HomeInv'
  <1>1. CASE ClientStep
    <2>1. /\ UNCHANGED <<server, replied, home>> /\ used \subseteq used'
          /\ \A L : AtHome(home, L) => AtHome(home', L)
          /\ \A c : CallAtHome(home, used, c) => CallAtHome(home', used', c)
          /\ \A c : AnswerAtHome(home, used, c) => AnswerAtHome(home', used', c)
      <3>1. home' = home /\ used \subseteq used' /\ UNCHANGED <<server, replied>>
        BY <1>1 DEF ClientStep
      <3>2. DOMAIN home \subseteq DOMAIN home' /\ \A x \in DOMAIN home : home'[x] = home[x]
        BY <3>1
      <3> QED
        BY <3>1, <3>2, HomeGrows
    <2>2. AtHome(home, list')
      <3>1. list' = list \/ list' = Empty
        BY <1>1 DEF ClientStep
      <3> QED
        BY <3>1, EmptyTyped DEF HomeInv, AtHome
    <2>3. ASSUME NEW c, FromList(c) PROVE CallAtHome(home, used, c)
      BY <2>3 DEF FromList, HomeInv, AtHome, CallAtHome
    <2>4. /\ \A c \in sent' : CallAtHome(home, used, c)
          /\ asking' # Null => CallAtHome(home, used, asking')
      BY <1>1, <2>3 DEF ClientStep, HomeInv
    <2>5. ASSUME NEW p \in DOMAIN at', at'[p] # Null PROVE at'[p] \in DOMAIN home
      <3>1. CASE at'[p] \in ListedSessions
        BY <3>1 DEF ListedSessions, SessionsOf, HomeInv, AtHome
      <3> QED
        BY <1>1, <2>5, <3>1 DEF ClientStep, HomeInv
    <2> QED
      BY <2>1, <2>2, <2>4, <2>5 DEF HomeInv
  <1>2. ASSUME NEW r, ServerStep(r) PROVE HomeInv'
    <2>1. /\ UNCHANGED <<at, used, list, asking>> /\ sent' \subseteq sent
          /\ replied' = Append(replied, r) /\ server' = Listed(server, r) /\ AnswerOK(r)
      BY <1>2 DEF ServerStep
    <2>2. /\ DOMAIN home \subseteq DOMAIN home' /\ \A x \in DOMAIN home : home'[x] = home[x]
          /\ \A x \in Made(r) : x \in DOMAIN home'
      BY <1>2 DEF ServerStep, Made
    <2>3. /\ \A L : AtHome(home, L) => AtHome(home', L)
          /\ \A c : CallAtHome(home, used, c) => CallAtHome(home', used, c)
          /\ \A c : AnswerAtHome(home, used, c) => AnswerAtHome(home', used, c)
      BY <2>2, HomeGrows
    <2>4. CallAtHome(home, used, r)
      <3>1. PICK c \in sent : c.op = r.op /\ c.ws = r.ws /\ c.tm = r.tm /\ c.pane = r.pane
        BY <1>2 DEF ServerStep
      <3>2. CallAtHome(home, used, c)
        BY DEF HomeInv
      <3> QED
        BY <3>1, <3>2 DEF CallAtHome
    <2>5. AnswerAtHome(home', used, r)
      <3>1. r.op = "load" => AtHome(home', r.answer)
        BY <1>2, <2>3 DEF ServerStep, HomeInv
      <3>2. r.op = "createTerminal" => r.answer \in DOMAIN home' /\ home'[r.answer] = r.ws
        BY <1>2 DEF ServerStep, Made
      <3>3. r.op = "createWorkspace" => r.answer \in DOMAIN home' /\ home'[r.answer] = r.answer
        BY <1>2 DEF ServerStep, Made
      <3>4. r.op = "renameWorkspace" =>
               \A s \in DOMAIN r.answer.terminals : s \in DOMAIN home' /\ home'[s] = r.ws
        <4>1. AtHome(home', server)
          BY <2>3 DEF HomeInv
        <4> QED
          BY <1>2, <4>1 DEF ServerStep, AtHome, WorkspaceOps
      <3> QED
        BY <2>3, <2>4, <3>1, <3>2, <3>3, <3>4 DEF AnswerAtHome
    <2>6. AtHome(home', server')
      <3>1. AtHome(home', server) /\ server \in Lists
        BY <2>3 DEF HomeInv, ListsTypeOK
      <3> QED
        BY <2>1, <2>5, <3>1, ListedAtHome
    <2>7. \A x \in DOMAIN home' : home'[x] \in DOMAIN home'
      <3>1. CASE Made(r) = {}
        BY <1>2, <3>1 DEF ServerStep, HomeInv
      <3>2. ASSUME NEW x \in Made(r) PROVE \A y \in DOMAIN home' : home'[y] \in DOMAIN home'
        <4>1. DOMAIN home' = DOMAIN home \cup {x}
          BY <1>2 DEF ServerStep
        <4>2. home'[x] \in DOMAIN home'
          <5>1. CASE r.op = "createTerminal"
            <6>1. r.ws \in WsIds /\ r.ws # Null
              BY <2>1, <5>1, WorkspacesAssumption DEF AnswerOK, CallOK, WorkspaceOps, TerminalOps
            <6> QED
              BY <1>2, <2>2, <2>4, <5>1, <6>1 DEF ServerStep, CallAtHome
          <5> QED
            BY <1>2, <4>1, <5>1 DEF ServerStep
        <4> QED
          BY <2>2, <4>1, <4>2 DEF HomeInv
      <3> QED
        BY <3>1, <3>2
    <2>8. ASSUME NEW i \in 1..Len(replied') PROVE AnswerAtHome(home', used, replied'[i])
      <3>1. replied \in Seq(Answers) /\ Len(replied) \in Nat
        BY DEF ListsTypeOK
      <3>2. CASE i = Len(replied) + 1
        BY <2>1, <2>5, <3>1, <3>2
      <3>3. CASE i # Len(replied) + 1
        <4>1. i \in 1..Len(replied) /\ replied'[i] = replied[i]
          BY <2>1, <3>1, <3>3
        <4> QED
          BY <2>3, <4>1 DEF HomeInv
      <3> QED
        BY <3>2, <3>3
    <2>9. /\ AtHome(home', list') /\ \A c \in sent' : CallAtHome(home', used', c)
          /\ asking' # Null => CallAtHome(home', used', asking')
          /\ \A p \in DOMAIN at' : at'[p] # Null => at'[p] \in DOMAIN home'
      BY <2>1, <2>2, <2>3 DEF HomeInv
    <2> QED
      BY <2>1, <2>6, <2>7, <2>8, <2>9 DEF HomeInv
  <1>3. ASSUME NEW i, AnswerApplied(i) \/ AnswerLost(i) PROVE HomeInv'
    <2>1. /\ i \in DOMAIN replied /\ replied' = RemoveAt(replied, i)
          /\ UNCHANGED <<server, asking, sent, home, used, stale>>
          /\ list' = Listed(list, replied[i]) \/ list' = list
      BY <1>3, AnswerStep
    <2>2. /\ i \in 1..Len(replied) /\ replied[i] \in Answers
          /\ \A k \in 1..Len(replied') :
                Before(k, i) \in 1..Len(replied) /\ replied'[k] = replied[Before(k, i)]
      BY <2>1, AnswerTaken
    <2>3. AnswerOK(replied[i]) /\ AnswerAtHome(home, used, replied[i])
      BY <2>2 DEF Answers, HomeInv
    <2>4. AtHome(home, list')
      BY <2>1, <2>3, ListedAtHome DEF HomeInv, ListsTypeOK
    <2>5. \A k \in 1..Len(replied') : AnswerAtHome(home, used, replied'[k])
      BY <2>2 DEF HomeInv
    <2>6. \A p \in DOMAIN at' : at'[p] # Null => at'[p] \in DOMAIN home
      BY <1>3, <2>3, AnswerFillsPanes DEF HomeInv, AnswerAtHome
    <2> QED
      BY <2>1, <2>4, <2>5, <2>6 DEF HomeInv
  <1> QED
    BY <1>1, <1>2, <1>3

-----------------------------------------------------------------------------
(* What the client does not know yet *)

\* The id that the i-th answer brings is nowhere else, but in whole lists and
\* workspaces the server sent later.
Unknown(x, i) ==
    /\ ~Known(x, list)
    /\ \A c \in sent : x # c.ws /\ x # c.tm
    /\ asking # Null => x # asking.ws /\ x # asking.tm
    /\ \A j \in 1..Len(replied) :
          j # i => x # replied[j].ws /\ x # replied[j].tm /\ x \notin Made(replied[j])
    /\ \A j \in 1..(i - 1) : ~Shows(replied[j], x)

\* Both ghosts at once: an answer was lost or overtaken.
Blurred == {"list", "panes"}

\* What an answer on its way has made is mentioned nowhere before it.
UnknownInv ==
    blurred # Blurred => \A i \in 1..Len(replied) : \A x \in Made(replied[i]) : Unknown(x, i)

\* An id is never Null, and it has a home.
LEMMA MadeId ==
  ASSUME NEW c, AnswerOK(c), NEW x \in Made(c)
  PROVE  /\ x # Null
         /\ \A h, u : AnswerAtHome(h, u, c) =>
               x \in DOMAIN h /\ h[x] = IF c.op = "createTerminal" THEN c.ws ELSE x
  BY WorkspacesAssumption, PanesAssumption DEF Made, AnswerOK, AnswerAtHome

\* The user cannot name what an answer on its way has made.
LEMMA UnknownClient ==
  ASSUME ListsTypeOK, UnknownInv, ClientStep
  PROVE  UnknownInv'
  <1>1. /\ UNCHANGED <<server, replied, home>>
        /\ \/ UNCHANGED <<list, blurred>>
           \/ list' = Empty /\ blurred' = blurred \cup {"list"}
        /\ \A c \in sent' : c \in sent \/ (asking # Null /\ c = asking) \/ FromList(c)
        /\ asking' # Null => asking' = asking \/ FromList(asking')
    BY DEF ClientStep
  <1> SUFFICES ASSUME blurred' # Blurred, NEW i \in 1..Len(replied'), NEW x \in Made(replied'[i])
               PROVE  Unknown(x, i)'
    BY DEF UnknownInv, Blurred
  <1>2. replied' = replied /\ Unknown(x, i) /\ x # Null
    <2>1. replied' = replied /\ blurred # Blurred
      BY <1>1 DEF Blurred, ListsTypeOK
    <2>2. AnswerOK(replied[i])
      BY <2>1 DEF ListsTypeOK, Answers
    <2> QED
      BY <2>1, <2>2, MadeId DEF UnknownInv
  <1>3. ASSUME NEW c, FromList(c) PROVE x # c.ws /\ x # c.tm
    BY <1>2, <1>3 DEF FromList, Unknown, Known
  <1>4. ~Known(x, list')
    BY <1>1, <1>2, EmptyTyped DEF Unknown, Known
  <1>5. \A c \in sent' : x # c.ws /\ x # c.tm
    BY <1>1, <1>2, <1>3 DEF Unknown
  <1>6. asking' # Null => x # asking'.ws /\ x # asking'.tm
    BY <1>1, <1>2, <1>3 DEF Unknown
  <1> QED
    BY <1>2, <1>4, <1>5, <1>6 DEF Unknown

\* The server makes ids that nothing mentions yet.
LEMMA UnknownServer ==
  ASSUME ListsTypeOK, HomeInv, UnknownInv, NEW r, ServerStep(r)
  PROVE  UnknownInv'
  <1>1. /\ UNCHANGED <<list, asking, blurred>> /\ sent' \subseteq sent /\ AnswerOK(r)
        /\ replied' = Append(replied, r)
        /\ \A x \in Made(r) : x \notin DOMAIN home
    BY DEF ServerStep
  <1>2. PICK c0 \in sent : c0.ws = r.ws /\ c0.tm = r.tm
    BY DEF ServerStep
  <1>3. replied \in Seq(Answers) /\ Len(replied) \in Nat
    BY DEF ListsTypeOK
  <1>4. /\ Len(replied') = Len(replied) + 1 /\ replied'[Len(replied) + 1] = r
        /\ \A j \in 1..Len(replied) : replied'[j] = replied[j]
    BY <1>1, <1>3
  <1>5. \A j \in 1..Len(replied) : AnswerOK(replied[j]) /\ AnswerAtHome(home, used, replied[j])
    BY <1>3 DEF Answers, HomeInv
  <1> SUFFICES ASSUME blurred # Blurred, NEW i \in 1..Len(replied'), NEW x \in Made(replied'[i])
               PROVE  Unknown(x, i)'
    BY <1>1 DEF UnknownInv, Blurred
  <1>6. CASE i \in 1..Len(replied)
    <2>1. replied'[i] = replied[i] /\ Unknown(x, i)
      BY <1>4, <1>6 DEF UnknownInv
    <2>2. x # r.ws /\ x # r.tm
      BY <1>2, <2>1 DEF Unknown
    <2>3. x \notin Made(r)
      BY <1>1, <1>5, <1>6, <2>1, MadeId
    <2>4. \A j \in 1..Len(replied') :
             j # i => x # replied'[j].ws /\ x # replied'[j].tm /\ x \notin Made(replied'[j])
      <3> SUFFICES ASSUME NEW j \in 1..Len(replied'), j # i
                   PROVE  x # replied'[j].ws /\ x # replied'[j].tm /\ x \notin Made(replied'[j])
        OBVIOUS
      <3>1. CASE j = Len(replied) + 1
        BY <1>4, <2>2, <2>3, <3>1
      <3>2. CASE j # Len(replied) + 1
        <4>1. j \in 1..Len(replied) /\ replied'[j] = replied[j]
          BY <1>3, <1>4, <3>2
        <4> QED
          BY <2>1, <4>1 DEF Unknown
      <3> QED
        BY <3>1, <3>2
    <2>5. \A j \in 1..(i - 1) : ~Shows(replied'[j], x)
      BY <1>3, <1>4, <1>6, <2>1 DEF Unknown
    <2> QED
      BY <1>1, <2>1, <2>4, <2>5 DEF Unknown
  <1>7. CASE i \notin 1..Len(replied)
    <2>1. i = Len(replied) + 1 /\ x \in Made(r)
      BY <1>3, <1>4, <1>7
    <2>2. x \notin DOMAIN home /\ x # Null
      BY <1>1, <2>1, MadeId
    <2>3. \A c : CallAtHome(home, used, c) => x # c.ws /\ x # c.tm
      BY <2>2 DEF CallAtHome
    <2>4. ~Known(x, list)
      BY <2>2 DEF HomeInv, AtHome, Known
    <2>5. ASSUME NEW j \in 1..Len(replied)
          PROVE  /\ x # replied[j].ws /\ x # replied[j].tm /\ x \notin Made(replied[j])
                 /\ ~Shows(replied[j], x)
      <3>1. AnswerOK(replied[j]) /\ AnswerAtHome(home, used, replied[j])
        BY <1>5
      <3>2. x \notin Made(replied[j])
        BY <2>2, <3>1, MadeId
      <3>3. ~Shows(replied[j], x)
        BY <2>2, <3>1 DEF Shows, Known, AnswerAtHome, AtHome
      <3> QED
        BY <2>3, <3>1, <3>2, <3>3 DEF AnswerAtHome
    <2>6. ASSUME NEW j \in 1..Len(replied'), j # i
          PROVE  /\ x # replied'[j].ws /\ x # replied'[j].tm /\ x \notin Made(replied'[j])
                 /\ ~Shows(replied'[j], x)
      <3>1. j \in 1..Len(replied) /\ replied'[j] = replied[j]
        BY <1>3, <1>4, <2>1, <2>6
      <3> QED
        BY <2>5, <3>1
    <2>7. \A j \in 1..(i - 1) : j \in 1..Len(replied') /\ j # i
      BY <1>3, <1>4, <2>1
    <2>8. /\ \A c \in sent' : x # c.ws /\ x # c.tm
          /\ asking' # Null => x # asking'.ws /\ x # asking'.tm
      BY <1>1, <2>3 DEF HomeInv
    <2> QED
      BY <1>1, <2>4, <2>6, <2>7, <2>8 DEF Unknown
  <1> QED
    BY <1>6, <1>7

\* An answer out of order never shows what an earlier one made: the whole lists
\* and workspaces that could do so conflict with it.
LEMMA UnknownAnswer ==
  ASSUME ListsTypeOK, HomeInv, UnknownInv, NEW i, AnswerApplied(i) \/ AnswerLost(i)
  PROVE  UnknownInv'
  <1>1. /\ i \in DOMAIN replied /\ replied' = RemoveAt(replied, i)
        /\ UNCHANGED <<asking, sent>>
    BY AnswerStep
  <1>2. /\ i \in 1..Len(replied) /\ Len(replied) \in Nat /\ Len(replied') = Len(replied) - 1
        /\ replied[i] \in Answers
        /\ \A k \in 1..Len(replied') :
              Before(k, i) \in 1..Len(replied) /\ replied'[k] = replied[Before(k, i)]
    BY <1>1, AnswerTaken
  <1> DEFINE call == replied[i]
  <1> SUFFICES ASSUME blurred' # Blurred, NEW k \in 1..Len(replied'), NEW x \in Made(replied'[k])
               PROVE  Unknown(x, k)'
    BY DEF UnknownInv, Blurred
  <1> DEFINE l == Before(k, i)
  <1>3. l \in 1..Len(replied) /\ l # i /\ replied'[k] = replied[l] /\ Len(replied) # 1
    BY <1>2 DEF Before
  <1>4. blurred' = blurred
    BY <1>3 DEF AnswerApplied, AnswerLost, Blurred
  <1>5. Unknown(x, l) /\ AnswerOK(call) /\ AnswerOK(replied[l])
    <2>1. replied \in Seq(Answers)
      BY DEF ListsTypeOK
    <2> QED
      BY <1>2, <1>3, <1>4, <2>1 DEF UnknownInv, Answers
  <1>6. ~Known(x, list')
    <2>1. CASE list' = list
      BY <1>5, <2>1 DEF Unknown
    <2>2. CASE list' = Listed(list, call) /\ AnswerApplied(i)
      <3>1. x \notin Made(call) /\ x # call.ws
        BY <1>2, <1>3, <1>5 DEF Unknown
      <3>2. ASSUME Shows(call, x) PROVE FALSE
        <4>1. ~(i \in 1..(l - 1))
          BY <1>5, <3>2 DEF Unknown
        <4>2. l \in 1..(i - 1)
          BY <1>2, <1>3, <4>1
        <4>3. ~Conflicts(replied[l], call)
          BY <1>3, <1>4, <2>2, <4>2 DEF AnswerApplied, Blurred
        <4>4. call.op = "renameWorkspace" /\ x \in DOMAIN call.answer.terminals
          BY <3>2, <4>3 DEF Conflicts, Shows
        <4>5. home[x] = call.ws
          BY <1>2, <4>4 DEF HomeInv, AnswerAtHome
        <4>6. home[x] = IF replied[l].op = "createTerminal" THEN replied[l].ws ELSE x
          BY <1>3, <1>5, MadeId DEF HomeInv
        <4> QED
          BY <3>1, <4>3, <4>4, <4>5, <4>6 DEF Conflicts
      <3> QED
        BY <1>5, <2>2, <3>1, <3>2, ListedKnown DEF Unknown, ListsTypeOK
    <2> QED
      BY <2>1, <2>2 DEF AnswerApplied, AnswerLost
  <1>7. ASSUME NEW j \in 1..Len(replied'), j # k
        PROVE  x # replied'[j].ws /\ x # replied'[j].tm /\ x \notin Made(replied'[j])
    <2>1. Before(j, i) \in 1..Len(replied) /\ Before(j, i) # l /\ replied'[j] = replied[Before(j, i)]
      BY <1>2, <1>7 DEF Before
    <2> QED
      BY <1>5, <2>1 DEF Unknown
  <1>8. ASSUME NEW j \in 1..(k - 1) PROVE ~Shows(replied'[j], x)
    <2>1. Before(j, i) \in 1..(l - 1) /\ replied'[j] = replied[Before(j, i)]
      <3>1. j \in 1..Len(replied') /\ Before(j, i) < l
        BY <1>2 DEF Before
      <3> QED
        BY <1>2, <1>3, <3>1
    <2> QED
      BY <1>5, <2>1 DEF Unknown
  <1> QED
    BY <1>1, <1>5, <1>6, <1>7, <1>8 DEF Unknown

-----------------------------------------------------------------------------
(* The list *)

\* The lists that lead from the client's to the server's: each answer, applied
\* to the one before, gives the next.
Chain(S, L, q, M) ==
    /\ S \in [1..(Len(q) + 1) -> Lists]
    /\ S[1] = L /\ S[Len(q) + 1] = M
    /\ \A k \in 1..Len(q) :
          /\ S[k + 1] = Listed(S[k], q[k])
          /\ q[k].op = "load" => S[k] = q[k].answer

\* The answers under way lead from the client's list to the server's.
ListInv == "list" \notin blurred => \E S : Chain(S, list, replied, server)

\* What the server does is one more link at the end of the chain.
LEMMA ChainServer ==
  ASSUME ListsTypeOK, ListsTypeOK', ListInv, NEW r, ServerStep(r)
  PROVE  ListInv'
  <1>1. /\ UNCHANGED <<list, blurred>> /\ AnswerOK(r) /\ replied' = Append(replied, r)
        /\ server' = Listed(server, r) /\ (r.op = "load" => r.answer = server)
    BY DEF ServerStep
  <1> SUFFICES ASSUME "list" \notin blurred PROVE \E S : Chain(S, list', replied', server')
    BY <1>1 DEF ListInv
  <1>2. PICK S : Chain(S, list, replied, server)
    BY DEF ListInv
  <1>3. replied \in Seq(Answers) /\ Len(replied) \in Nat /\ server' \in Lists
    BY DEF ListsTypeOK
  <1>4. /\ Len(replied') = Len(replied) + 1 /\ replied'[Len(replied) + 1] = r
        /\ \A k \in 1..Len(replied) : replied'[k] = replied[k]
    BY <1>1, <1>3
  <1> DEFINE n == Len(replied)
             T == [k \in 1..(n + 2) |-> IF k = n + 2 THEN server' ELSE S[k]]
  <1>5. T \in [1..(n + 2) -> Lists]
    BY <1>2, <1>3 DEF Chain
  <1>6. T[1] = list /\ T[n + 2] = server' /\ T[n + 1] = server
    BY <1>2, <1>3 DEF Chain
  <1>7. ASSUME NEW k \in 1..(n + 1)
        PROVE  /\ T[k + 1] = Listed(T[k], replied'[k])
               /\ replied'[k].op = "load" => T[k] = replied'[k].answer
    <2>1. CASE k = n + 1
      <3>1. k + 1 = n + 2 /\ replied'[k] = r
        BY <1>3, <1>4, <2>1
      <3> HIDE DEF T
      <3> QED
        BY <1>1, <1>6, <2>1, <3>1
    <2>2. CASE k # n + 1
      <3>1. k \in 1..n /\ T[k] = S[k] /\ T[k + 1] = S[k + 1] /\ replied'[k] = replied[k]
        BY <1>3, <1>4, <2>2
      <3> HIDE DEF T
      <3> QED
        BY <1>2, <3>1 DEF Chain
    <2> QED
      BY <2>1, <2>2
  <1> HIDE DEF T
  <1>8. Chain(T, list', replied', server')
    <2>1. Len(replied') + 1 = n + 2 /\ Len(replied') = n + 1
      BY <1>3, <1>4
    <2> QED
      BY <1>1, <1>5, <1>6, <1>7, <2>1 DEF Chain
  <1> QED
    BY <1>8

\* An answer applied in the middle of the chain takes every list before it one
\* step on, since it commutes with the answers it overtakes.
LEMMA ChainApplied ==
  ASSUME ListsTypeOK, UnknownInv, ListInv, NEW i, AnswerApplied(i)
  PROVE  ListInv'
  <1> DEFINE call == replied[i]
             n == Len(replied)
  <1>1. /\ i \in DOMAIN replied /\ replied' = RemoveAt(replied, i) /\ server' = server
        /\ list' = Listed(list, call)
    BY DEF AnswerApplied
  <1>2. /\ i \in 1..n /\ n \in Nat /\ Len(replied') = n - 1 /\ call \in Answers
        /\ \A k \in 1..Len(replied') :
              Before(k, i) \in 1..n /\ replied'[k] = replied[Before(k, i)]
    BY <1>1, AnswerTaken
  <1>3. \A k \in 1..n : AnswerOK(replied[k])
    BY DEF ListsTypeOK, Answers
  <1> SUFFICES ASSUME "list" \notin blurred' PROVE \E S : Chain(S, list', replied', server')
    BY DEF ListInv
  <1>4. CASE call.op = "load" /\ n = 1 /\ call.answer = server
    <2> DEFINE T == [k \in 1..1 |-> server]
    <2>1. list' = server' /\ server' \in Lists
      BY <1>1, <1>4 DEF Listed, ListsTypeOK
    <2>2. Len(replied') = 0
      BY <1>2, <1>4
    <2>3. Chain(T, list', replied', server')
      BY <1>1, <2>1, <2>2 DEF Chain
    <2> QED
      BY <2>3
  <1>5. CASE ~(call.op = "load" /\ n = 1 /\ call.answer = server)
    <2>1. "list" \notin blurred /\ \A j \in 1..(i - 1) : ~Conflicts(replied[j], call)
      BY <1>5 DEF AnswerApplied
    <2>2. PICK S : Chain(S, list, replied, server)
      BY <2>1 DEF ListInv
    <2>3. /\ S \in [1..(n + 1) -> Lists] /\ S[1] = list /\ S[n + 1] = server
          /\ \A k \in 1..n : /\ S[k + 1] = Listed(S[k], replied[k])
                             /\ replied[k].op = "load" => S[k] = replied[k].answer
      BY <2>2 DEF Chain
    <2>4. ASSUME NEW k \in 1..n, k < i
          PROVE  Listed(Listed(S[k], replied[k]), call) = Listed(Listed(S[k], call), replied[k])
      <3>1. Apart(replied[k], call)
        <4>1. blurred # Blurred
          BY <2>1 DEF Blurred
        <4>2. \A x \in Made(replied[k]) : Unknown(x, k)
          BY <4>1 DEF UnknownInv
        <4>3. \A x \in Made(call) : Unknown(x, i)
          BY <1>2, <4>1 DEF UnknownInv
        <4> QED
          BY <1>2, <2>4, <4>2, <4>3 DEF Apart, Unknown
      <3>2. ~Conflicts(replied[k], call) /\ S[k] \in Lists
        BY <1>2, <2>1, <2>3, <2>4
      <3> QED
        BY <1>2, <1>3, <3>1, <3>2, ListedCommutes
    <2> DEFINE T == [k \in 1..n |-> IF k <= i THEN Listed(S[k], call) ELSE S[k + 1]]
    <2>5. T \in [1..n -> Lists]
      <3>1. ASSUME NEW k \in 1..n PROVE Listed(S[k], call) \in Lists /\ S[k + 1] \in Lists
        <4>1. k \in 1..(n + 1) /\ k + 1 \in 1..(n + 1)
          BY <1>2
        <4>2. S[k] \in Lists /\ S[k + 1] \in Lists
          BY <2>3, <4>1
        <4>3. AnswerOK(call)
          BY <1>2, <1>3
        <4> QED
          BY <4>2, <4>3, ListedTypedAll
      <3> QED
        BY <3>1
    <2>6. T[1] = list' /\ T[n] = server'
      <3>1. 1 \in 1..n /\ n \in 1..n /\ 1 <= i
        BY <1>2
      <3>2. T[1] = Listed(S[1], call)
        BY <3>1
      <3>3. T[n] = S[n + 1]
        <4>1. CASE n <= i
          <5>1. n = i
            BY <1>2, <4>1
          <5> QED
            BY <2>3, <3>1, <4>1, <5>1
        <4>2. CASE ~(n <= i)
          BY <3>1, <4>2
        <4> QED
          BY <4>1, <4>2
      <3> QED
        BY <1>1, <2>3, <3>2, <3>3
    <2>7. ASSUME NEW k \in 1..(n - 1)
          PROVE  /\ T[k + 1] = Listed(T[k], replied'[k])
                 /\ replied'[k].op = "load" => T[k] = replied'[k].answer
      <3>1. k \in 1..n /\ k + 1 \in 1..n /\ k + 1 \in 1..(n + 1)
        BY <1>2
      <3>2. CASE k < i
        <4>1. /\ T[k] = Listed(S[k], call) /\ T[k + 1] = Listed(S[k + 1], call)
              /\ replied'[k] = replied[k]
          BY <1>2, <3>1, <3>2 DEF Before
        <4>2. replied[k].op # "load"
          BY <1>2, <2>1, <3>1, <3>2 DEF Conflicts
        <4> HIDE DEF T
        <4> QED
          BY <2>3, <2>4, <3>1, <3>2, <4>1, <4>2
      <3>3. CASE k = i
        <4>1. /\ T[k] = S[k + 1] /\ T[k + 1] = S[k + 2] /\ replied'[k] = replied[k + 1]
          BY <1>2, <2>3, <3>1, <3>3 DEF Before
        <4> HIDE DEF T
        <4> QED
          BY <2>3, <3>1, <4>1
      <3>4. CASE k > i
        <4>1. ~(k <= i) /\ ~(k + 1 <= i) /\ k \in 1..Len(replied') /\ ~(k < i) /\ (k + 1) + 1 = k + 2
          BY <1>2, <3>1, <3>4
        <4>2. T[k] = S[k + 1] /\ T[k + 1] = S[k + 2]
          BY <3>1, <4>1
        <4>3. replied'[k] = replied[k + 1]
          BY <1>2, <4>1 DEF Before
        <4> HIDE DEF T
        <4> QED
          BY <2>3, <3>1, <4>2, <4>3
      <3> QED
        BY <1>2, <3>2, <3>3, <3>4
    <2> HIDE DEF T
    <2>8. Chain(T, list', replied', server')
      <3>1. Len(replied') + 1 = n /\ Len(replied') = n - 1
        BY <1>2
      <3> QED
        BY <2>5, <2>6, <2>7, <3>1 DEF Chain
    <2> QED
      BY <2>8
  <1> QED
    BY <1>4, <1>5

\* Losing a whole list does no harm: it would have changed nothing.
LEMMA ChainLost ==
  ASSUME ListsTypeOK, ListInv, NEW i, AnswerLost(i)
  PROVE  ListInv'
  <1> DEFINE n == Len(replied)
  <1>1. i \in DOMAIN replied /\ replied' = RemoveAt(replied, i) /\ server' = server /\ list' = list
    BY DEF AnswerLost
  <1>2. /\ i \in 1..n /\ n \in Nat /\ Len(replied') = n - 1
        /\ \A k \in 1..Len(replied') :
              Before(k, i) \in 1..n /\ replied'[k] = replied[Before(k, i)]
    BY <1>1, AnswerTaken
  <1> SUFFICES ASSUME "list" \notin blurred' PROVE \E S : Chain(S, list', replied', server')
    BY DEF ListInv
  <1>3. replied[i].op = "load" /\ blurred' = blurred
    BY DEF AnswerLost
  <1>4. PICK S : Chain(S, list, replied, server)
    BY <1>3 DEF ListInv
  <1>5. /\ S \in [1..(n + 1) -> Lists] /\ S[1] = list /\ S[n + 1] = server
        /\ \A k \in 1..n : /\ S[k + 1] = Listed(S[k], replied[k])
                           /\ replied[k].op = "load" => S[k] = replied[k].answer
    BY <1>4 DEF Chain
  <1>6. S[i + 1] = S[i]
    BY <1>2, <1>3, <1>5 DEF Listed
  <1> DEFINE T == [k \in 1..n |-> IF k <= i THEN S[k] ELSE S[k + 1]]
  <1>7. T \in [1..n -> Lists]
    BY <1>2, <1>5
  <1>8. T[1] = list /\ T[n] = server
    <2>1. 1 \in 1..n /\ n \in 1..n /\ 1 <= i
      BY <1>2
    <2>2. T[n] = S[n + 1]
      <3>1. CASE n <= i
        <4>1. n = i
          BY <1>2, <3>1
        <4> QED
          BY <1>6, <2>1, <3>1, <4>1
      <3>2. CASE ~(n <= i)
        BY <2>1, <3>2
      <3> QED
        BY <3>1, <3>2
    <2> QED
      BY <1>5, <2>1, <2>2
  <1>9. ASSUME NEW k \in 1..(n - 1)
        PROVE  /\ T[k + 1] = Listed(T[k], replied'[k])
               /\ replied'[k].op = "load" => T[k] = replied'[k].answer
    <2>1. k \in 1..n /\ k + 1 \in 1..n
      BY <1>2
    <2>2. CASE k < i
      <3>1. T[k] = S[k] /\ T[k + 1] = S[k + 1] /\ replied'[k] = replied[k]
        BY <1>2, <2>1, <2>2 DEF Before
      <3> HIDE DEF T
      <3> QED
        BY <1>5, <2>1, <3>1
    <2>3. CASE ~(k < i)
      <3>1. T[k] = S[k + 1] /\ T[k + 1] = S[k + 2] /\ replied'[k] = replied[k + 1]
        BY <1>2, <1>6, <2>1, <2>3 DEF Before
      <3> HIDE DEF T
      <3> QED
        BY <1>5, <2>1, <3>1
    <2> QED
      BY <2>2, <2>3
  <1> HIDE DEF T
  <1>10. Chain(T, list', replied', server')
    <2>1. Len(replied') + 1 = n /\ Len(replied') = n - 1
      BY <1>2
    <2> QED
      BY <1>1, <1>7, <1>8, <1>9, <2>1 DEF Chain
  <1> QED
    BY <1>10

-----------------------------------------------------------------------------
(* The panes *)

\* A session whose workspace is gone or that the server has.
Alive(h, M, s) == h[s] \notin DOMAIN M \/ s \in DOMAIN M[h[s]].terminals

\* The answer to its delete is among those after the i-th.
DeletedAfter(q, s, i) ==
    \E j \in 1..Len(q) : j > i /\ q[j].op = "deleteTerminal" /\ q[j].tm = s

\* Alive, or the answer to its delete comes after the i-th.
Good(s, i) == Alive(home, server, s) \/ DeletedAfter(replied, s, i)

\* An answer that holds a whole list or workspace with the terminal s in it.
ShowsTerminal(c, s) ==
    \/ c.op = "load" /\ \E w \in DOMAIN c.answer : s \in DOMAIN c.answer[w].terminals
    \/ c.op = "renameWorkspace" /\ s \in DOMAIN c.answer.terminals

\* Every session in a pane, in the list or in an answer is alive, or the answer
\* that takes it out of all of them is still to come; a pane may also have one
\* that was gone when the layout brought it back.
PlacedInv ==
    "panes" \notin blurred =>
        /\ \A p \in DOMAIN at : at[p] # Null => Good(at[p], 0) \/ at[p] \in stale
        /\ \A w \in DOMAIN list : \A s \in DOMAIN list[w].terminals : Good(s, 0)
        /\ \A i \in 1..Len(replied) :
              /\ \A s : ShowsTerminal(replied[i], s) => Good(s, i)
              /\ replied[i].op = "createTerminal" => Alive(home, server, replied[i].answer)

\* The user places only sessions that are in the list or in a pane, and the
\* stored layout those that the server has or that are stale.
LEMMA PlacedClient ==
  ASSUME HomeInv, PlacedInv, ClientStep
  PROVE  PlacedInv'
  <1>1. /\ UNCHANGED <<server, replied, home>> /\ (list' = list \/ list' = Empty)
        /\ "panes" \notin blurred' => "panes" \notin blurred
        /\ \A p \in DOMAIN at' :
              \/ at'[p] = Null \/ at'[p] \in ListedSessions
              \/ stale' = stale /\ \E q \in DOMAIN at : at'[p] = at[q]
              \/ at'[p] \in DOMAIN home /\ at'[p] \in SessionsOf(server) \cup stale'
    BY DEF ClientStep
  <1>2. \A s, i : Good(s, i)' <=> Good(s, i)
    BY <1>1 DEF Good
  <1> SUFFICES ASSUME "panes" \notin blurred'
               PROVE  /\ \A p \in DOMAIN at' : at'[p] # Null => Good(at'[p], 0) \/ at'[p] \in stale'
                      /\ \A w \in DOMAIN list' : \A s \in DOMAIN list'[w].terminals : Good(s, 0)
    BY <1>1, <1>2 DEF PlacedInv, Good
  <1>3. \A s \in ListedSessions : Good(s, 0)
    BY <1>1 DEF ListedSessions, SessionsOf, PlacedInv
  <1>4. \A s \in SessionsOf(server) : Good(s, 0)
    BY DEF SessionsOf, HomeInv, AtHome, Good, Alive
  <1>5. \A p \in DOMAIN at' : at'[p] # Null => Good(at'[p], 0) \/ at'[p] \in stale'
    BY <1>1, <1>3, <1>4 DEF PlacedInv
  <1>6. \A w \in DOMAIN list' : \A s \in DOMAIN list'[w].terminals : Good(s, 0)
    BY <1>1, EmptyTyped DEF PlacedInv
  <1> QED
    BY <1>5, <1>6

\* An answer takes no terminal out of a workspace but the one it deletes.
LEMMA ListedKeeps ==
  ASSUME NEW L \in Lists, NEW c, AnswerOK(c), c.op # "load",
         NEW w \in DOMAIN L, w \in DOMAIN Listed(L, c), NEW s \in DOMAIN L[w].terminals,
         w \notin Made(c), ~(c.op = "deleteTerminal" /\ s = c.tm),
         c.op = "renameWorkspace" /\ c.ws = w => s \in DOMAIN c.answer.terminals
  PROVE  s \in DOMAIN Listed(L, c)[w].terminals
  <1>1. c.op \in Ops
    BY DEF AnswerOK, CallOK, Calls
  <1>2. CASE w # About(c)
    BY <1>2, ListedElsewhere
  <1>3. CASE w = c.ws /\ c.op = "renameWorkspace"
    BY <1>3, ListedWhole
  <1>4. CASE w = c.ws /\ c.op \in TerminalOps
    <2>1. DOMAIN Listed(L, c)[w].terminals = TerminalsAfter(DOMAIN L[w].terminals, c)
      BY <1>4, ListedInside
    <2> QED
      BY <2>1 DEF TerminalsAfter
  <1>5. CASE w = c.ws /\ c.op = "deleteWorkspace"
    <2>1. w \in WorkspacesAfter(DOMAIN L, c)
      BY ListedTyped
    <2> QED
      BY <1>5, <2>1 DEF WorkspacesAfter
  <1>6. CASE w = About(c) /\ c.op = "createWorkspace"
    BY <1>6 DEF About, Made
  <1> QED
    BY <1>1, <1>2, <1>3, <1>4, <1>5, <1>6 DEF Ops, WorkspaceOps, About

\* A session dies by its own delete only; the workspace it died with never
\* comes back.
LEMMA StaysAlive ==
  ASSUME ListsTypeOK, HomeInv, NEW r, ServerStep(r), NEW s \in DOMAIN home,
         Alive(home, server, s), ~(r.op = "deleteTerminal" /\ s = r.tm)
  PROVE  Alive(home', server', s)
  <1> DEFINE w == home[s]
  <1>1. /\ AnswerOK(r) /\ server \in Lists /\ server' = Listed(server, r)
        /\ r.op = "load" => r.answer = server
    BY DEF ServerStep, ListsTypeOK
  <1>2. home'[s] = w /\ w \in DOMAIN home /\ \A x \in Made(r) : x \notin DOMAIN home
    <2>1. CASE Made(r) = {}
      BY <2>1 DEF ServerStep, HomeInv
    <2>2. ASSUME NEW x \in Made(r) PROVE home'[s] = w /\ w \in DOMAIN home
      BY <2>2 DEF ServerStep, HomeInv
    <2> QED
      BY <2>1, <2>2 DEF ServerStep
  <1>3. CASE r.op = "load"
    BY <1>1, <1>2, <1>3 DEF Listed, Alive
  <1>4. CASE r.op # "load" /\ w \notin DOMAIN server
    <2>1. DOMAIN server' = WorkspacesAfter(DOMAIN server, r)
      BY <1>1, <1>4, ListedTyped
    <2>2. w \notin DOMAIN server'
      BY <1>2, <1>4, <2>1 DEF WorkspacesAfter, Made
    <2> QED
      BY <1>2, <2>2 DEF Alive
  <1>5. CASE r.op # "load" /\ w \in DOMAIN server /\ w \in DOMAIN server'
    <2>1. s \in DOMAIN server[w].terminals
      BY <1>5 DEF Alive
    <2>2. r.op = "renameWorkspace" /\ r.ws = w => s \in DOMAIN r.answer.terminals
      BY <2>1 DEF ServerStep
    <2>3. s \in DOMAIN server'[w].terminals
      BY <1>1, <1>2, <1>5, <2>1, <2>2, ListedKeeps
    <2> QED
      BY <1>2, <2>3 DEF Alive
  <1> QED
    BY <1>2, <1>3, <1>4, <1>5 DEF Alive

\* A session that the server deletes has its answer at the end of the queue.
LEMMA PlacedServer ==
  ASSUME ListsTypeOK, HomeInv, UnknownInv, PlacedInv, NEW r, ServerStep(r)
  PROVE  PlacedInv'
  <1>1. /\ UNCHANGED <<at, list, blurred, stale>> /\ AnswerOK(r) /\ replied' = Append(replied, r)
        /\ server' = Listed(server, r) /\ server \in Lists
    BY DEF ServerStep, ListsTypeOK
  <1>2. replied \in Seq(Answers) /\ Len(replied) \in Nat
    BY DEF ListsTypeOK
  <1>3. /\ Len(replied') = Len(replied) + 1 /\ replied'[Len(replied) + 1] = r
        /\ \A j \in 1..Len(replied) : replied'[j] = replied[j]
    BY <1>1, <1>2
  <1>4. \A j \in 1..Len(replied) : AnswerAtHome(home, used, replied[j]) /\ AnswerOK(replied[j])
    BY <1>2 DEF Answers, HomeInv
  <1>5. ASSUME NEW s \in DOMAIN home, NEW i \in 0..Len(replied), Good(s, i) PROVE Good(s, i)'
    <2>1. CASE DeletedAfter(replied, s, i)
      <3>1. DeletedAfter(replied', s, i)
        BY <1>2, <1>3, <2>1 DEF DeletedAfter
      <3> QED
        BY <3>1 DEF Good
    <2>2. CASE Alive(home, server, s) /\ r.op = "deleteTerminal" /\ s = r.tm
      <3>1. Len(replied) + 1 \in 1..Len(replied') /\ Len(replied) + 1 > i
        BY <1>2, <1>3
      <3>2. DeletedAfter(replied', s, i)
        BY <1>3, <2>2, <3>1 DEF DeletedAfter
      <3> QED
        BY <3>2 DEF Good
    <2>3. CASE Alive(home, server, s) /\ ~(r.op = "deleteTerminal" /\ s = r.tm)
      BY <2>3, StaysAlive DEF Good
    <2> QED
      BY <1>5, <2>1, <2>2, <2>3 DEF Good
  <1> SUFFICES ASSUME "panes" \notin blurred
               PROVE  /\ \A p \in DOMAIN at : at[p] # Null => Good(at[p], 0)' \/ at[p] \in stale
                      /\ \A w \in DOMAIN list : \A s \in DOMAIN list[w].terminals : Good(s, 0)'
                      /\ \A i \in 1..Len(replied') :
                            /\ \A s : ShowsTerminal(replied'[i], s) => Good(s, i)'
                            /\ replied'[i].op = "createTerminal" =>
                                  Alive(home', server', replied'[i].answer)
    BY <1>1 DEF PlacedInv, Good
  <1>6. \A p \in DOMAIN at : at[p] # Null => Good(at[p], 0)' \/ at[p] \in stale
    <2> SUFFICES ASSUME NEW p \in DOMAIN at, at[p] # Null, at[p] \notin stale
                 PROVE  Good(at[p], 0)'
      OBVIOUS
    <2>1. PICK s \in DOMAIN home : s = at[p]
      BY DEF HomeInv
    <2>2. 0 \in 0..Len(replied) /\ Good(s, 0) /\ at'[p] = s
      BY <1>1, <1>2, <2>1 DEF PlacedInv
    <2> QED
      BY <1>5, <2>1, <2>2
  <1>7. \A w \in DOMAIN list : \A s \in DOMAIN list[w].terminals : Good(s, 0)'
    <2>1. 0 \in 0..Len(replied)
      BY <1>2
    <2> QED
      BY <1>5, <2>1 DEF PlacedInv, HomeInv, AtHome
  <1>8. ASSUME NEW i \in 1..Len(replied), NEW s, ShowsTerminal(replied[i], s) PROVE Good(s, i)'
    <2>1. s \in DOMAIN home
      BY <1>4, <1>8 DEF ShowsTerminal, AnswerAtHome, AtHome
    <2>2. Good(s, i) /\ i \in 0..Len(replied)
      BY <1>2, <1>8 DEF PlacedInv
    <2> QED
      BY <1>5, <2>1, <2>2
  <1>9. ASSUME NEW i \in 1..Len(replied), replied[i].op = "createTerminal"
        PROVE  Alive(home', server', replied[i].answer)
    <2> DEFINE s == replied[i].answer
    <2>1. s \in Made(replied[i]) /\ s \in DOMAIN home /\ Alive(home, server, s)
      BY <1>4, <1>9 DEF Made, AnswerAtHome, PlacedInv
    <2>2. Unknown(s, i)
      <3>1. blurred # Blurred
        BY DEF Blurred
      <3> QED
        BY <2>1, <3>1 DEF UnknownInv
    <2>3. s # r.tm
      BY <2>2 DEF Unknown, ServerStep
    <2> QED
      BY <2>1, <2>3, StaysAlive
  <1>10. ASSUME NEW s, ShowsTerminal(r, s), NEW i PROVE Good(s, i)'
    <2>1. PICK w \in DOMAIN server : s \in DOMAIN server[w].terminals
      BY <1>10 DEF ShowsTerminal, ServerStep, WorkspaceOps
    <2>2. s \in DOMAIN home /\ home[s] = w
      BY <2>1 DEF HomeInv, AtHome
    <2>3. Alive(home, server, s) /\ r.op # "deleteTerminal"
      BY <1>10, <2>1, <2>2 DEF Alive, ShowsTerminal
    <2> QED
      BY <2>2, <2>3, StaysAlive DEF Good
  <1>11. ASSUME r.op = "createTerminal" PROVE Alive(home', server', r.answer)
    <2>1. r.ws \in DOMAIN server /\ home'[r.answer] = r.ws
      BY <1>11 DEF ServerStep, Made, WorkspaceOps, TerminalOps
    <2>2. DOMAIN server'[r.ws].terminals = TerminalsAfter(DOMAIN server[r.ws].terminals, r)
      BY <1>1, <1>11, <2>1, ListedInside DEF TerminalOps
    <2>3. r.answer \in DOMAIN server'[r.ws].terminals
      BY <1>11, <2>2 DEF TerminalsAfter
    <2> QED
      BY <2>1, <2>3 DEF Alive
  <1>12. ASSUME NEW i \in 1..Len(replied')
         PROVE  /\ \A s : ShowsTerminal(replied'[i], s) => Good(s, i)'
                /\ replied'[i].op = "createTerminal" => Alive(home', server', replied'[i].answer)
    <2>1. CASE i = Len(replied) + 1
      BY <1>3, <1>10, <1>11, <2>1
    <2>2. CASE i # Len(replied) + 1
      <3>1. i \in 1..Len(replied) /\ replied'[i] = replied[i]
        BY <1>2, <1>3, <2>2
      <3> QED
        BY <1>8, <1>9, <3>1
    <2> QED
      BY <2>1, <2>2
  <1> QED
    BY <1>6, <1>7, <1>12

\* Taking another answer leaves the answer to a delete where it was.
LEMMA DeletedStays ==
  ASSUME ListsTypeOK, NEW i \in DOMAIN replied, replied' = RemoveAt(replied, i), NEW s
  PROVE  /\ DeletedAfter(replied, s, i) => DeletedAfter(replied', s, 0)
         /\ ~(replied[i].op = "deleteTerminal" /\ replied[i].tm = s) =>
               /\ DeletedAfter(replied, s, 0) => DeletedAfter(replied', s, 0)
               /\ \A k \in 1..Len(replied') :
                     DeletedAfter(replied, s, Before(k, i)) => DeletedAfter(replied', s, k)
  <1>1. /\ i \in 1..Len(replied) /\ Len(replied) \in Nat /\ Len(replied') \in Nat
        /\ \A k \in 1..Len(replied') :
              Before(k, i) \in 1..Len(replied) /\ replied'[k] = replied[Before(k, i)]
        /\ \A j \in 1..Len(replied) : j # i => \E k \in 1..Len(replied') : Before(k, i) = j
    BY AnswerTaken
  <1>2. ASSUME NEW j \in 1..Len(replied), j # i, replied[j].op = "deleteTerminal",
               replied[j].tm = s
        PROVE  /\ DeletedAfter(replied', s, 0)
               /\ \A k \in 1..Len(replied') : j > Before(k, i) => DeletedAfter(replied', s, k)
    <2>1. PICK l \in 1..Len(replied') : Before(l, i) = j
      BY <1>1, <1>2
    <2>2. replied'[l].op = "deleteTerminal" /\ replied'[l].tm = s
      BY <1>1, <1>2, <2>1
    <2>3. ASSUME NEW k \in 1..Len(replied'), j > Before(k, i) PROVE l > k
      BY <1>1, <2>1, <2>3 DEF Before
    <2>4. l > 0
      BY <1>1
    <2> QED
      BY <2>2, <2>3, <2>4 DEF DeletedAfter
  <1>3. DeletedAfter(replied, s, i) => DeletedAfter(replied', s, 0)
    <2> SUFFICES ASSUME NEW j \in 1..Len(replied), j > i, replied[j].op = "deleteTerminal",
                        replied[j].tm = s
                 PROVE  DeletedAfter(replied', s, 0)
      BY DEF DeletedAfter
    <2>1. j # i
      BY <1>1
    <2> QED
      BY <1>2, <2>1
  <1>4. ASSUME ~(replied[i].op = "deleteTerminal" /\ replied[i].tm = s)
        PROVE  /\ DeletedAfter(replied, s, 0) => DeletedAfter(replied', s, 0)
               /\ \A k \in 1..Len(replied') :
                     DeletedAfter(replied, s, Before(k, i)) => DeletedAfter(replied', s, k)
    <2>1. ASSUME DeletedAfter(replied, s, 0) PROVE DeletedAfter(replied', s, 0)
      BY <1>2, <1>4, <2>1 DEF DeletedAfter
    <2>2. ASSUME NEW k \in 1..Len(replied'), DeletedAfter(replied, s, Before(k, i))
          PROVE  DeletedAfter(replied', s, k)
      BY <1>2, <1>4, <2>2 DEF DeletedAfter
    <2> QED
      BY <2>1, <2>2
  <1> QED
    BY <1>3, <1>4

\* The answer to a delete takes the session out of the list and of the panes,
\* and no answer that shows it may come after, short of a conflict.
LEMMA PlacedAnswer ==
  ASSUME ListsTypeOK, HomeInv, PlacedInv, NEW i, AnswerApplied(i) \/ AnswerLost(i)
  PROVE  PlacedInv'
  <1> DEFINE call == replied[i]
  <1>1. /\ i \in DOMAIN replied /\ replied' = RemoveAt(replied, i)
        /\ UNCHANGED <<server, home, stale>>
    BY AnswerStep
  <1>2. /\ i \in 1..Len(replied) /\ Len(replied) \in Nat /\ Len(replied') = Len(replied) - 1
        /\ call \in Answers
        /\ \A k \in 1..Len(replied') :
              Before(k, i) \in 1..Len(replied) /\ replied'[k] = replied[Before(k, i)]
    BY <1>1, AnswerTaken
  <1>3. AnswerOK(call) /\ AnswerAtHome(home, used, call) /\ list \in Lists
    BY <1>2 DEF Answers, HomeInv, ListsTypeOK
  <1> SUFFICES ASSUME "panes" \notin blurred'
               PROVE  /\ \A p \in DOMAIN at' : at'[p] # Null => Good(at[p], 0)' \/ at'[p] \in stale
                      /\ \A w \in DOMAIN list' : \A s \in DOMAIN list'[w].terminals : Good(s, 0)'
                      /\ \A k \in 1..Len(replied') :
                            /\ \A s : ShowsTerminal(replied'[k], s) => Good(s, k)'
                            /\ replied'[k].op = "createTerminal" =>
                                  Alive(home', server', replied'[k].answer)
    BY <1>1 DEF PlacedInv, Good
  <1>4. /\ "panes" \notin blurred
        /\ AnswerApplied(i) => \A j \in 1..(i - 1) : ~Conflicts(replied[j], call)
        /\ ~AnswerApplied(i) => call.op = "load" /\ list' = list
    <2>1. CASE AnswerApplied(i)
      <3>1. CASE Len(replied) = 1
        <4>1. i = 1
          BY <1>2, <3>1
        <4> QED
          BY <2>1, <4>1 DEF AnswerApplied
      <3>2. CASE Len(replied) # 1
        BY <2>1, <3>2 DEF AnswerApplied
      <3> QED
        BY <3>1, <3>2
    <2>2. CASE ~AnswerApplied(i)
      BY <2>2 DEF AnswerLost
    <2> QED
      BY <2>1, <2>2
  <1>5. \A s : Alive(home, server, s) => \A k : Good(s, k)'
    BY <1>1 DEF Good
  <1>6. /\ \A p \in DOMAIN at : at[p] # Null => Good(at[p], 0) \/ at[p] \in stale
        /\ \A w \in DOMAIN list : \A s \in DOMAIN list[w].terminals : Good(s, 0)
        /\ \A j \in 1..Len(replied) :
              /\ \A s : ShowsTerminal(replied[j], s) => Good(s, j)
              /\ replied[j].op = "createTerminal" => Alive(home, server, replied[j].answer)
    BY <1>4 DEF PlacedInv
  <1>7. ASSUME NEW s, Good(s, 0), ~(call.op = "deleteTerminal" /\ call.tm = s)
        PROVE  Good(s, 0)'
    BY <1>1, <1>5, <1>7, DeletedStays DEF Good
  <1>8. ASSUME NEW s, ShowsTerminal(call, s) PROVE Good(s, 0)'
    <2>1. Good(s, i)
      BY <1>2, <1>6, <1>8
    <2> QED
      BY <1>1, <1>5, <2>1, DeletedStays DEF Good
  <1>9. ASSUME NEW p \in DOMAIN at', at'[p] # Null, at'[p] \notin stale PROVE Good(at[p], 0)'
    <2>1. PICK s : s = at'[p]
      OBVIOUS
    <2>2. Good(s, 0)'
      <3>1. CASE call.op = "createTerminal" /\ s = call.answer /\ AnswerApplied(i)
        <4>1. Alive(home, server, s)
          BY <1>2, <1>6, <3>1
        <4> QED
          BY <1>5, <4>1
      <3>2. CASE /\ p \in DOMAIN at /\ s = at[p]
                 /\ AnswerApplied(i) /\ call.op # "createTerminal" => s \notin Unplaced(call)
        <4>1. Good(s, 0)
          BY <1>6, <1>9, <2>1, <3>2
        <4>2. ~(call.op = "deleteTerminal" /\ call.tm = s)
          BY <1>4, <3>2 DEF Unplaced
        <4> QED
          BY <1>7, <4>1, <4>2
      <3> QED
        BY <1>9, <2>1, <3>1, <3>2, AnswerFillsPanes
    <2> QED
      BY <2>1, <2>2
  <1>10. ASSUME NEW w \in DOMAIN list', NEW s \in DOMAIN list'[w].terminals PROVE Good(s, 0)'
    <2>1. CASE list' = list /\ call.op = "load"
      BY <1>6, <1>7, <2>1
    <2>2. CASE list' = Listed(list, call) /\ call.op = "load"
      <3>1. ShowsTerminal(call, s)
        BY <2>2 DEF Listed, ShowsTerminal
      <3> QED
        BY <1>8, <3>1
    <2>3. CASE list' = Listed(list, call) /\ call.op # "load"
      <3>1. CASE /\ w \in DOMAIN list /\ s \in DOMAIN list[w].terminals
                 /\ ~(call.op = "deleteTerminal" /\ w = call.ws /\ s = call.tm)
        <4>1. home[s] = w
          BY <3>1 DEF HomeInv, AtHome
        <4>2. call.op = "deleteTerminal" => call.tm # Null /\ home[call.tm] = call.ws
          BY <1>3, PanesAssumption DEF AnswerOK, CallOK, AnswerAtHome, CallAtHome
        <4>3. ~(call.op = "deleteTerminal" /\ call.tm = s)
          BY <3>1, <4>1, <4>2
        <4> QED
          BY <1>6, <1>7, <3>1, <4>3
      <3>2. CASE call.op = "createTerminal" /\ s = call.answer
        <4>1. Alive(home, server, s)
          BY <1>2, <1>6, <3>2
        <4> QED
          BY <1>5, <4>1
      <3>3. CASE call.op = "renameWorkspace" /\ s \in DOMAIN call.answer.terminals
        BY <1>8, <3>3 DEF ShowsTerminal
      <3> QED
        BY <1>3, <2>3, <3>1, <3>2, <3>3, ListedMembers
    <2> QED
      BY <1>4, <2>1, <2>2, <2>3 DEF AnswerApplied
  <1>11. ASSUME NEW k \in 1..Len(replied'), NEW s, ShowsTerminal(replied'[k], s)
         PROVE  Good(s, k)'
    <2> DEFINE l == Before(k, i)
    <2>1. l \in 1..Len(replied) /\ l # i /\ replied'[k] = replied[l]
      BY <1>2 DEF Before
    <2>2. Good(s, l)
      BY <1>6, <1>11, <2>1
    <2>3. CASE ~(call.op = "deleteTerminal" /\ call.tm = s)
      BY <1>1, <1>5, <2>2, <2>3, DeletedStays DEF Good
    <2>4. CASE call.op = "deleteTerminal" /\ call.tm = s /\ l < i
      <3>1. ~Conflicts(replied[l], call)
        BY <1>2, <1>4, <2>1, <2>4
      <3>2. replied[l].op = "renameWorkspace" /\ s \in DOMAIN replied[l].answer.terminals
        BY <1>11, <2>1, <3>1 DEF ShowsTerminal, Conflicts
      <3>3. home[s] = replied[l].ws
        BY <2>1, <3>2 DEF HomeInv, AnswerAtHome
      <3>4. home[s] = call.ws
        BY <1>3, <2>4, PanesAssumption DEF AnswerOK, CallOK, AnswerAtHome, CallAtHome
      <3> QED
        BY <3>1, <3>2, <3>3, <3>4 DEF Conflicts
    <2>5. CASE l > i
      <3>1. CASE Alive(home, server, s)
        BY <1>5, <3>1
      <3>2. ASSUME NEW j \in 1..Len(replied), j > l, replied[j].op = "deleteTerminal",
                   replied[j].tm = s
            PROVE  DeletedAfter(replied', s, k)
        <4>1. k >= i /\ l = k + 1 /\ j - 1 \in 1..Len(replied') /\ j - 1 > k
              /\ Before(j - 1, i) = j
          BY <1>2, <2>5, <3>2 DEF Before
        <4>2. replied'[j - 1] = replied[j]
          BY <1>2, <4>1
        <4> QED
          BY <3>2, <4>1, <4>2 DEF DeletedAfter
      <3> QED
        BY <2>2, <3>1, <3>2 DEF Good, DeletedAfter
    <2> QED
      BY <1>2, <2>1, <2>3, <2>4, <2>5
  <1>12. ASSUME NEW k \in 1..Len(replied'), replied'[k].op = "createTerminal"
         PROVE  Alive(home', server', replied'[k].answer)
    BY <1>1, <1>2, <1>6, <1>12
  <1> QED
    BY <1>9, <1>10, <1>11, <1>12

-----------------------------------------------------------------------------
(* The inductive invariant and what follows from it *)

\* The inductive invariant.
WorkspacesInv ==
    PanesInv /\ ListsTypeOK /\ HomeInv /\ UnknownInv /\ ListInv /\ PlacedInv

\* What the user does leaves the answers under way to lead to the same list.
LEMMA ChainClient ==
  ASSUME ListInv, ClientStep
  PROVE  ListInv'
  <1>1. /\ UNCHANGED <<server, replied>>
        /\ UNCHANGED <<list, blurred>> \/ "list" \in blurred'
    BY DEF ClientStep
  <1> QED
    BY <1>1 DEF ListInv

\* At the start there is a workspace with a terminal, and nothing is known of
\* them in the page.
LEMMA WorkspacesInitInv == WorkspacesInit => PanesInit /\ WorkspacesInv
  <1> SUFFICES ASSUME WorkspacesInit PROVE PanesInit /\ WorkspacesInv
    OBVIOUS
  <1> DEFINE ws == CHOOSE x \in WsIds : TRUE
             tm == CHOOSE x \in Sessions : TRUE
             pane == CHOOSE x \in PaneIds : TRUE
             entry == [name |-> FirstName, terminals |-> OneTerminal(tm, FirstName)]
  <1>1. ws \in WsIds /\ tm \in Sessions /\ pane \in PaneIds
    BY WorkspacesAssumption
  <1>2. /\ server = [w \in {ws} |-> entry] /\ home = [x \in {ws, tm} |-> ws]
        /\ list = Empty /\ asking = Null /\ sent = {} /\ replied = <<>> /\ blurred = {"list"}
        /\ used = {pane} /\ focus = pane /\ at = [p \in {pane} |-> Null]
    BY DEF WorkspacesInit
  <1> HIDE DEF ws, tm, pane
  <1>3. PanesInit
    BY <1>1, <1>2 DEF PanesInit
  <1>4. PanesInv
    BY <1>3, PanesInitInv
  <1>5. entry \in Entries
    BY <1>1, EntryBuilt, WorkspacesAssumption DEF OneTerminal
  <1>6. server \in Lists
    BY <1>1, <1>2, <1>5, ListBuilt
  <1>7. ListsTypeOK
    BY <1>2, <1>6, EmptyTyped DEF ListsTypeOK
  <1>8. Len(replied) = 0 /\ DOMAIN list = {} /\ \A p \in DOMAIN at : at[p] = Null
    BY <1>2, EmptyTyped
  <1>9. HomeInv
    <2>1. AtHome(home, server)
      BY <1>2 DEF AtHome, OneTerminal
    <2>2. AtHome(home, list)
      BY <1>8 DEF AtHome
    <2>3. \A x \in DOMAIN home : home[x] \in DOMAIN home
      BY <1>2
    <2> QED
      BY <1>2, <1>8, <2>1, <2>2, <2>3 DEF HomeInv
  <1>10. UnknownInv /\ ListInv /\ PlacedInv
    BY <1>2, <1>8 DEF UnknownInv, ListInv, PlacedInv
  <1> QED
    BY <1>3, <1>4, <1>7, <1>9, <1>10 DEF WorkspacesInv

\* Every step is one of the client, of the server or of an answer.
LEMMA StepKinds ==
  ASSUME WorkspacesInv, [WorkspacesNext]_workspacesVars
  PROVE  ClientStep \/ (\E r : ServerStep(r)) \/ (\E i : AnswerApplied(i) \/ AnswerLost(i))
  <1>1. ListsTypeOK /\ PanesInv
    BY DEF WorkspacesInv
  <1>2. CASE UNCHANGED workspacesVars
    BY <1>2 DEF workspacesVars, ClientStep, panesVars
  <1>3. ASSUME NEW call \in sent, ServerServes(call) PROVE \E r : ServerStep(r)
    BY <1>1, <1>3, ServingIsServerStep
  <1>4. CASE UserMovesPanes
    BY <1>1, <1>4, MovingIsClientStep
  <1> QED
    BY <1>1, <1>2, <1>3, <1>4, AskingIsClientStep, RestoringIsClientStep DEF WorkspacesNext

\* Every step keeps the invariant, and moves the panes as the split view does.
LEMMA WorkspacesStep ==
  WorkspacesInv /\ [WorkspacesNext]_workspacesVars
     => WorkspacesInv' /\ [PanesNext]_panesVars
  <1> SUFFICES ASSUME WorkspacesInv, [WorkspacesNext]_workspacesVars
               PROVE  WorkspacesInv' /\ [PanesNext]_panesVars
    OBVIOUS
  <1>1. /\ PanesInv /\ ListsTypeOK /\ HomeInv
        /\ UnknownInv /\ ListInv /\ PlacedInv
    BY DEF WorkspacesInv
  <1>2. ClientStep \/ (\E r : ServerStep(r)) \/ (\E i : AnswerApplied(i) \/ AnswerLost(i))
    BY StepKinds
  <1>3. ListsTypeOK'
    BY <1>1, <1>2, TypeStep
  <1>4. HomeInv'
    BY <1>1, <1>2, HomeStep
  <1>5. UnknownInv'
    BY <1>1, <1>2, UnknownClient, UnknownServer, UnknownAnswer
  <1>6. ListInv'
    BY <1>1, <1>2, <1>3, ChainClient, ChainServer, ChainApplied, ChainLost
  <1>7. PlacedInv'
    BY <1>1, <1>2, PlacedClient, PlacedServer, PlacedAnswer
  <1>8. [PanesNext]_panesVars
    <2>1. CASE ClientStep
      BY <2>1 DEF ClientStep
    <2>2. ASSUME NEW r, ServerStep(r) PROVE [PanesNext]_panesVars
      BY <2>2 DEF ServerStep, panesVars
    <2>3. ASSUME NEW i, AnswerApplied(i) \/ AnswerLost(i) PROVE [PanesNext]_panesVars
      BY <1>1, <2>3, AnswerMovesPanes DEF PanesNext
    <2> QED
      BY <1>2, <2>1, <2>2, <2>3
  <1>9. PanesInv'
    BY <1>1, <1>8, PanesStep
  <1> QED
    BY <1>3, <1>4, <1>5, <1>6, <1>7, <1>8, <1>9 DEF WorkspacesInv

\* Every state of the page satisfies the invariant.
LEMMA WorkspacesSafe == WorkspacesSpec => []WorkspacesInv
  BY WorkspacesInitInv, WorkspacesStep, PTL DEF WorkspacesSpec

\* The panes that the handlers of App fill and empty after their await keep
\* the promises of the split view: every step of the page is one of Panes or
\* leaves the panes alone.
THEOREM WorkspacesKeepPanes == WorkspacesSpec => PanesSpec
  BY WorkspacesInitInv, WorkspacesStep, PTL DEF WorkspacesSpec, PanesSpec

\* Once every answer is in, the list is the server's, for any number of
\* requests served and answered in any order, unless an answer was lost or
\* two that conflict came back swapped (the functional updates of
\* useWorkspaces).
THEOREM ListIsTrue == WorkspacesSpec => []ListTrue
  <1>1. WorkspacesInv => ListTrue
    <2> SUFFICES ASSUME WorkspacesInv, AtRest, "list" \notin blurred PROVE list = server
      BY DEF ListTrue
    <2>1. PICK S : Chain(S, list, replied, server)
      BY DEF WorkspacesInv, ListInv
    <2>2. Len(replied) = 0
      BY DEF AtRest
    <2> QED
      BY <2>1, <2>2 DEF Chain
  <1> QED
    BY <1>1, WorkspacesSafe, PTL

\* Once every answer is in, a session that a pane shows is on the server, its
\* whole workspace is gone, or it was gone already when the stored layout
\* brought it back (deleteTerminal takes it out of the panes even when it was
\* moved, shown again or restored in the meantime).
THEOREM PanesAreTrue == WorkspacesSpec => []PanesTrue
  <1>1. WorkspacesInv => PanesTrue
    <2> SUFFICES ASSUME WorkspacesInv, AtRest, "panes" \notin blurred,
                        NEW p \in DOMAIN at, at[p] # Null
                 PROVE  \/ home[at[p]] \notin DOMAIN server
                        \/ at[p] \in DOMAIN server[home[at[p]]].terminals
                        \/ at[p] \in stale
      BY DEF PanesTrue
    <2>1. Good(at[p], 0) \/ at[p] \in stale
      BY DEF WorkspacesInv, PlacedInv
    <2>2. Len(replied) = 0
      BY DEF AtRest
    <2> QED
      BY <2>1, <2>2 DEF Good, Alive, DeletedAfter
  <1> QED
    BY <1>1, WorkspacesSafe, PTL
==============================================================================
