------------------------ MODULE TerminalServiceProofs ------------------------
(***************************************************************************)
(* Proofs about TerminalService, for any number of handlers, workspaces,   *)
(* terminals, names and faults. The steps of Next fall into a few kinds -  *)
(* a handler moving on without touching the store, a mutator entering      *)
(* flushLocked, a flush ending, the loader, the process stopping - and one *)
(* lemma per kind shows that it keeps the inductive invariant Inv. The     *)
(* last two sections are about tmux: a session has one name whatever       *)
(* races, and sessions and records agree if one request runs at a time.    *)
(***************************************************************************)
EXTENDS TerminalService, TLAPS

USE NullAssumption

-----------------------------------------------------------------------------
(* Handlers that move on without touching the store *)

\* Handler r goes from its point to p with local variables j.
LocalStep(r, p, j) ==
    /\ phase = "up"
    /\ pc[r] # "flush"
    /\ pc' = [pc EXCEPT ![r] = p]
    /\ job' = [job EXCEPT ![r] = j]
    /\ tmux' \in [Names -> Terminals \cup {Null}]
    /\ budget' \in [FaultKinds -> Nat]
    /\ home' \in [Terminals -> Workspaces \cup {Null}]
    /\ \A t \in Terminals : home[t] # Null => home'[t] = home[t]
    /\ UNCHANGED <<phase, mem, mu, flush, disk, tmp, load, acked, dropped, drawn>>

\* p and j are what a handler may have, and j's id does not clash with the id
\* of a terminal that another handler is about to add.
LocalOK(r, p, j) ==
    /\ p \in Points \ {"flush"}
    /\ j \in Jobs
    /\ JobAt(p, j, home', drawn)
    /\ p \in Early => /\ j.id \notin IdsOf(mem) \cup acked.deleted
                      /\ disk # NoFile => j.id \notin IdsOf(disk)
                      /\ \A q \in Requests \ {r} : job[q].id # j.id
    /\ \A q \in Requests \ {r} : pc[q] \in Early => j.id # job[q].id

\* Knowledge about a handler survives the drawing of a new terminal id.
LEMMA JobAtStable ==
    ASSUME NEW p, NEW j, NEW d, NEW h, NEW g,
           \A t \in Terminals : h[t] # Null => g[t] = h[t],
           JobAt(p, j, h, d)
    PROVE  JobAt(p, j, g, d)
  BY DEF JobAt, Ids

\* The same for a state of the store.
LEMMA StateAtStable ==
    ASSUME NEW s \in States, NEW d, NEW h, NEW g,
           \A t \in Terminals : h[t] # Null => g[t] = h[t],
           StateAt(s, h, d)
    PROVE  StateAt(s, g, d)
  BY DEF StateAt, States, Records, Ids

\* A local step keeps the invariant when the handler's new variables are fine.
LEMMA LocalKeeps ==
    ASSUME Inv, NEW r \in Requests, NEW p, NEW j, LocalStep(r, p, j), LocalOK(r, p, j)
    PROVE  Inv'
<1> USE DEF LocalStep, LocalOK
<1>1. TypeOK'
  BY DEF Inv, TypeOK
<1>2. StateFileWhole'
  BY DEF Inv, StateFileWhole
<1>3. LockOK'
  BY DEF Inv, TypeOK, LockOK
<1>4. JobsOK'
  <2> SUFFICES ASSUME NEW q \in Requests
               PROVE  JobAt(pc'[q], job'[q], home', drawn')
    BY DEF JobsOK
  <2>1. CASE q = r
    BY <2>1 DEF Inv, TypeOK
  <2>2. CASE q # r
    <3>1. JobAt(pc[q], job[q], home, drawn)
      BY DEF Inv, JobsOK
    <3>2. JobAt(pc[q], job[q], home', drawn)
      BY <3>1, JobAtStable
    <3> QED
      BY <2>2, <3>2 DEF Inv, TypeOK
  <2> QED
    BY <2>1, <2>2
<1>5. StatesOK'
  <2>1. StateAt(mem, home', drawn)
    BY StateAtStable DEF Inv, TypeOK, StatesOK
  <2>2. ASSUME disk # NoFile PROVE StateAt(disk, home', drawn)
    BY <2>2, StateAtStable DEF Inv, TypeOK, StatesOK, StateFileWhole
  <2> QED
    BY <2>1, <2>2 DEF StatesOK
<1>6. FreshOK'
  BY DEF Inv, TypeOK, FreshOK
<1>7. SavedOK'
  BY DEF Inv, TypeOK, LockOK, SavedOK
<1>8. HistoryOK'
  BY DEF Inv, TypeOK, HistoryOK
<1>9. DeleteIsFinal' /\ CreateIsDurable'
  BY DEF Inv, DeleteIsFinal, CreateIsDurable
<1> QED
  BY <1>1, <1>2, <1>3, <1>4, <1>5, <1>6, <1>7, <1>8, <1>9 DEF Inv

\* What every local step leaves alone.
Shared == <<phase, mem, mu, flush, disk, tmp, load, acked, dropped, drawn, home>>

\* The values a step gives to tmux and to the fault counters.
SideOK == tmux' \in [Names -> Terminals \cup {Null}] /\ budget' \in [FaultKinds -> Nat]

\* A handler that answers its request keeps the invariant.
LEMMA RepliesKeep ==
    ASSUME Inv, NEW r \in Requests, phase = "up", pc[r] # "flush",
           Reply(r), SideOK, UNCHANGED Shared
    PROVE  Inv'
<1>1. LocalStep(r, "idle", NoJob)
  BY DEF LocalStep, Reply, Goto, SideOK, Shared, Inv, TypeOK
<1>2. NoJob \in Jobs /\ NoJob.id = Null /\ NoJob.op = "none"
  BY DEF NoJob, NewJob, Jobs, Operations
<1>3. JobAt("idle", NoJob, home', drawn)
  BY <1>2 DEF JobAt
<1>4. \A q \in Requests : pc[q] \in Early => job[q].id \in Terminals
  BY DEF Inv, JobsOK, JobAt, Early
<1>5. LocalOK(r, "idle", NoJob)
  BY <1>2, <1>3, <1>4 DEF LocalOK, Points, Early, Ids
<1> QED
  BY <1>1, <1>5, LocalKeeps

\* So does a handler that goes on to p with j, for the same terminal id.
LEMMA MovesKeep ==
    ASSUME Inv, NEW r \in Requests, NEW p \in Points \ {"flush"}, NEW j \in Jobs,
           phase = "up", pc[r] # "flush", p \in Early => pc[r] \in Early,
           pc' = [pc EXCEPT ![r] = p], job' = [job EXCEPT ![r] = j], j.id = job[r].id,
           JobAt(p, j, home, drawn), SideOK, UNCHANGED Shared
    PROVE  Inv'
<1>1. LocalStep(r, p, j)
  BY DEF LocalStep, SideOK, Shared, Inv, TypeOK
<1>2. LocalOK(r, p, j)
  BY DEF LocalOK, Inv, FreshOK, Shared
<1> QED
  BY <1>1, <1>2, LocalKeeps

\* Killing a session leaves a map from names to terminals.
LEMMA KilledType ==
    ASSUME TypeOK, NEW n PROVE Killed(n) \in [Names -> Terminals \cup {Null}]
  BY DEF TypeOK, Killed

\* A name that tmux finds is that of one living session, its own if it has one.
LEMMA FoundOne ==
    ASSUME TypeOK, NEW n \in Names, Has(n)
    PROVE  \E f \in Names : Found(n) = {f} /\ tmux[f] # Null /\ (Live(n) => f = n)
<1>1. Longer[n] \subseteq Names
  BY LongerAssumption
<1> QED
  BY <1>1 DEF Has, Found, Live

\* f is the session found for n, and renaming n to m moves it.
Moves(n, m, f) ==
    /\ Found(n) = {f} /\ tmux[f] # Null /\ (Live(n) => f = n)
    /\ \A k \in Names : Renamed(n, m)[k] =
          IF k = m THEN tmux[f] ELSE IF k = f THEN Null ELSE tmux[k]

\* Renaming moves the session found to the new name.
LEMMA RenamedMoves ==
    ASSUME TypeOK, NEW n \in Names, NEW m \in Names, Has(n)
    PROVE  /\ Renamed(n, m) \in [Names -> Terminals \cup {Null}]
           /\ \E f \in Names : Moves(n, m, f)
<1>1. PICK f \in Names : Found(n) = {f} /\ tmux[f] # Null /\ (Live(n) => f = n)
  BY FoundOne
<1>2. (CHOOSE g \in Names : g \in Found(n)) = f
  BY <1>1
<1>3. Renamed(n, m) = [k \in Names |-> IF k = m THEN tmux[f] ELSE IF k = f THEN Null ELSE tmux[k]]
  BY <1>1, <1>2 DEF Renamed
<1> QED
  BY <1>1, <1>3 DEF TypeOK, Moves

\* A fault leaves a budget.
LEMMA SpendType ==
    ASSUME TypeOK, NEW k \in FaultKinds, Spend(k) PROVE budget' \in [FaultKinds -> Nat]
  BY DEF TypeOK, Spend

\* Cancelling the context leaves well-typed local variables, all others as they were.
LEMMA CutType ==
    ASSUME NEW j \in Jobs, NEW p, NEW h, NEW d, JobAt(p, j, h, d), p # "idle"
    PROVE  /\ [j EXCEPT !.cut = TRUE] \in Jobs
           /\ [j EXCEPT !.cut = TRUE].id = j.id
           /\ JobAt(p, [j EXCEPT !.cut = TRUE], h, d)
<1> DEFINE i == [j EXCEPT !.cut = TRUE]
<1>1. /\ i \in Jobs
      /\ i.op = j.op /\ i.ws = j.ws /\ i.id = j.id /\ i.name = j.name /\ i.to = j.to
  BY DEF Jobs
<1>2. JobAt(p, i, h, d)
  <2> HIDE DEF i
  <2> QED
    BY <1>1 DEF JobAt
<1> QED
  BY <1>1, <1>2

\* handleCreateTerminal's probe of the requested name keeps the invariant.
LEMMA CheckNameKeeps == ASSUME Inv, NEW r \in Requests, CheckName(r) PROVE Inv'
<1> DEFINE j == [job[r] EXCEPT !.cut = TRUE]
<1>1. /\ TypeOK /\ phase = "up" /\ pc[r] = "has" /\ UNCHANGED <<Shared, tmux>>
      /\ JobAt(pc[r], job[r], home, drawn)
  BY DEF Inv, JobsOK, CheckName, At, Shared, history
<1>2. SideOK
  BY <1>1, SpendType DEF TypeOK, SideOK, CheckName, FaultKinds, Cancel
<1>3. JobAt("new", job[r], home, drawn) /\ job[r] \in Jobs
  BY <1>1 DEF JobAt, TypeOK
<1>4. "new" \in Points \ {"flush"} /\ pc[r] \in Early
  BY <1>1 DEF Points, Early
<1>5. CASE Reply(r)
  BY <1>1, <1>2, <1>5, RepliesKeep
<1>6. CASE Goto(r, "new") /\ UNCHANGED job
  <2>1. job' = [job EXCEPT ![r] = job[r]]
    BY <1>1, <1>6 DEF TypeOK
  <2> QED
    BY <1>1, <1>2, <1>3, <1>4, <1>6, <2>1, MovesKeep DEF Goto
<1>7. CASE Goto(r, "new") /\ job' = CutJob(r)
  <2>1. job' = [job EXCEPT ![r] = j]
    BY <1>1, <1>7 DEF CutJob, TypeOK
  <2>2. j \in Jobs /\ j.id = job[r].id /\ JobAt("new", j, home, drawn)
    BY <1>1, <1>3, CutType
  <2> QED
    BY <1>1, <1>2, <1>4, <1>7, <2>1, <2>2, MovesKeep DEF Goto
<1> QED
  BY <1>5, <1>6, <1>7 DEF CheckName

\* handleRenameTerminal's probe of the new name keeps it.
LEMMA CheckNewNameKeeps == ASSUME Inv, NEW r \in Requests, CheckNewName(r) PROVE Inv'
<1> DEFINE j == [job[r] EXCEPT !.cut = TRUE]
<1>1. /\ TypeOK /\ phase = "up" /\ pc[r] = "renHas" /\ UNCHANGED <<Shared, tmux>>
      /\ JobAt(pc[r], job[r], home, drawn)
  BY DEF Inv, JobsOK, CheckNewName, At, Shared, history
<1>2. SideOK
  BY <1>1, SpendType DEF TypeOK, SideOK, CheckNewName, FaultKinds, Cancel
<1>3. JobAt("ren", job[r], home, drawn) /\ job[r] \in Jobs
  BY <1>1 DEF JobAt, TypeOK
<1>4. "ren" \in Points \ {"flush"} /\ "ren" \notin Early
  BY <1>1 DEF Points, Early
<1>5. CASE Reply(r)
  BY <1>1, <1>2, <1>5, RepliesKeep
<1>6. CASE Goto(r, "ren") /\ UNCHANGED job
  <2>1. job' = [job EXCEPT ![r] = job[r]]
    BY <1>1, <1>6 DEF TypeOK
  <2> QED
    BY <1>1, <1>2, <1>3, <1>4, <1>6, <2>1, MovesKeep DEF Goto
<1>7. CASE Goto(r, "ren") /\ job' = CutJob(r)
  <2>1. job' = [job EXCEPT ![r] = j]
    BY <1>1, <1>7 DEF CutJob, TypeOK
  <2>2. j \in Jobs /\ j.id = job[r].id /\ JobAt("ren", j, home, drawn)
    BY <1>1, <1>3, CutType
  <2> QED
    BY <1>1, <1>2, <1>4, <1>7, <2>1, <2>2, MovesKeep DEF Goto
<1> QED
  BY <1>5, <1>6, <1>7 DEF CheckNewName

\* So does tmux.NewSession, whether it succeeds, fails or is cut short.
LEMMA NewSessionKeeps == ASSUME Inv, NEW r \in Requests, NewSession(r) PROVE Inv'
<1>1. /\ TypeOK /\ phase = "up" /\ pc[r] = "new" /\ UNCHANGED Shared
      /\ JobAt(pc[r], job[r], home, drawn)
  BY DEF Inv, JobsOK, NewSession, At, Shared, history
<1>2. SideOK
  <2>1. [tmux EXCEPT ![job[r].name] = job[r].id] \in [Names -> Terminals \cup {Null}]
    BY <1>1 DEF TypeOK, Jobs
  <2>2. budget' \in [FaultKinds -> Nat]
    BY <1>1, SpendType DEF TypeOK, NewSession, FaultKinds, Cancel
  <2> QED
    BY <1>1, <2>1, <2>2 DEF TypeOK, SideOK, NewSession
<1>3. CASE Reply(r)
  BY <1>1, <1>2, <1>3, RepliesKeep
<1>4. CASE Goto(r, "add") /\ UNCHANGED job
  <2>1. job' = [job EXCEPT ![r] = job[r]]
    BY <1>1, <1>4 DEF TypeOK
  <2>2. JobAt("add", job[r], home, drawn) /\ job[r] \in Jobs
    BY <1>1 DEF JobAt, TypeOK
  <2>3. "add" \in Points \ {"flush"} /\ pc[r] \in Early
    BY <1>1 DEF Points, Early
  <2> QED
    BY <1>1, <1>2, <1>4, <2>1, <2>2, <2>3, MovesKeep DEF Goto
<1> QED
  BY <1>3, <1>4 DEF NewSession

\* So does tmux.RenameSession.
LEMMA RenameSessionKeeps == ASSUME Inv, NEW r \in Requests, RenameSession(r) PROVE Inv'
<1>1. /\ TypeOK /\ phase = "up" /\ pc[r] = "ren" /\ UNCHANGED Shared
      /\ JobAt(pc[r], job[r], home, drawn)
  BY DEF Inv, JobsOK, RenameSession, At, Shared, history
<1>2. SideOK
  <2>1. job[r].name \in Names /\ job[r].to \in Names
    BY <1>1 DEF JobAt
  <2>2. CanRename(job[r].name, job[r].to)
           => Renamed(job[r].name, job[r].to) \in [Names -> Terminals \cup {Null}]
    BY <1>1, <2>1, RenamedMoves DEF CanRename
  <2>3. budget' \in [FaultKinds -> Nat]
    BY <1>1, SpendType DEF TypeOK, RenameSession, FaultKinds, Cancel
  <2> QED
    BY <1>1, <2>2, <2>3 DEF TypeOK, SideOK, RenameSession
<1>3. CASE Reply(r)
  BY <1>1, <1>2, <1>3, RepliesKeep
<1>4. CASE Goto(r, "renStore") /\ UNCHANGED job
  <2>1. job' = [job EXCEPT ![r] = job[r]]
    BY <1>1, <1>4 DEF TypeOK
  <2>2. JobAt("renStore", job[r], home, drawn) /\ job[r] \in Jobs
    BY <1>1 DEF JobAt, TypeOK
  <2>3. "renStore" \in Points \ {"flush"} /\ "renStore" \notin Early
    BY <1>1 DEF Points, Early
  <2> QED
    BY <1>1, <1>2, <1>4, <2>1, <2>2, <2>3, MovesKeep DEF Goto
<1> QED
  BY <1>3, <1>4 DEF RenameSession

\* So does the compensating kill after a failed AddTerminal.
LEMMA UndoSessionKeeps == ASSUME Inv, NEW r \in Requests, UndoSession(r) PROVE Inv'
<1>1. TypeOK /\ phase = "up" /\ pc[r] = "undo" /\ UNCHANGED Shared /\ Reply(r)
  BY DEF Inv, UndoSession, At, Shared, history
<1>2. SideOK
  BY <1>1, SpendType, KilledType DEF TypeOK, SideOK, UndoSession, FaultKinds, Cancel
<1> QED
  BY <1>1, <1>2, RepliesKeep

\* So does handleDeleteTerminal's kill.
LEMMA KillSessionKeeps == ASSUME Inv, NEW r \in Requests, KillSession(r) PROVE Inv'
<1>1. /\ TypeOK /\ phase = "up" /\ pc[r] = "kill" /\ UNCHANGED <<Shared, job>>
      /\ Goto(r, "remove") /\ JobAt(pc[r], job[r], home, drawn)
  BY DEF Inv, JobsOK, KillSession, At, Shared, history
<1>2. SideOK
  BY <1>1, SpendType, KilledType DEF TypeOK, SideOK, KillSession, FaultKinds, Cancel
<1>3. job' = [job EXCEPT ![r] = job[r]] /\ job[r] \in Jobs
  BY <1>1 DEF TypeOK
<1>4. JobAt("remove", job[r], home, drawn)
  BY <1>1 DEF JobAt, TypeOK
<1>5. "remove" \in Points \ {"flush"} /\ "remove" \notin Early
  BY DEF Points, Early
<1> QED
  BY <1>1, <1>2, <1>3, <1>4, <1>5, MovesKeep DEF Goto

\* So does DefaultTerminalName's copy of the names taken.
LEMMA CopyTakenKeeps == ASSUME Inv, NEW r \in Requests, CopyTaken(r) PROVE Inv'
<1> DEFINE j == [job[r] EXCEPT !.recs = mem.terms]
<1>1. /\ TypeOK /\ phase = "up" /\ pc[r] = "taken" /\ UNCHANGED Shared
      /\ Goto(r, "pick") /\ JobAt(pc[r], job[r], home, drawn)
  BY DEF Inv, JobsOK, CopyTaken, At, Shared, history
<1>2. SideOK
  BY <1>1 DEF TypeOK, SideOK, CopyTaken
<1>3. /\ job' = [job EXCEPT ![r] = j] /\ j \in Jobs
      /\ j.op = job[r].op /\ j.ws = job[r].ws /\ j.id = job[r].id
  BY <1>1 DEF TypeOK, CopyTaken, Jobs, States
<1>4. JobAt("pick", j, home, drawn)
  <2> HIDE DEF j
  <2> QED
    BY <1>1, <1>3 DEF JobAt
<1>5. "pick" \in Points \ {"flush"} /\ pc[r] \in Early
  BY <1>1 DEF Points, Early
<1> QED
  BY <1>1, <1>2, <1>3, <1>4, <1>5, MovesKeep DEF Goto

\* So does DefaultTerminalName's probing of the candidates.
LEMMA PickNameKeeps == ASSUME Inv, NEW r \in Requests, PickName(r) PROVE Inv'
<1> DEFINE Later(i) == [job[r] EXCEPT !.next = i + 1]
<1>1. /\ TypeOK /\ phase = "up" /\ pc[r] = "pick" /\ UNCHANGED <<Shared, tmux>>
      /\ JobAt(pc[r], job[r], home, drawn) /\ job[r] \in Jobs
  BY DEF Inv, JobsOK, PickName, At, Shared, history, TypeOK
<1>2. SideOK
  BY <1>1, SpendType DEF TypeOK, SideOK, PickName, FaultKinds, Cancel
<1>3. CASE Reply(r)
  BY <1>1, <1>2, <1>3, RepliesKeep
<1>4. ASSUME NEW j \in Jobs, j.name \in Names, j.op = job[r].op, j.ws = job[r].ws, j.id = job[r].id,
             job' = [job EXCEPT ![r] = j], Goto(r, "new")
      PROVE  Inv'
  <2>1. JobAt("new", j, home, drawn)
    BY <1>1, <1>4 DEF JobAt
  <2>2. "new" \in Points \ {"flush"} /\ pc[r] \in Early
    BY <1>1 DEF Points, Early
  <2> QED
    BY <1>1, <1>2, <1>4, <2>1, <2>2, MovesKeep DEF Goto
<1>5. ASSUME NEW i \in Nat, job' = [job EXCEPT ![r] = Later(i)], UNCHANGED pc
      PROVE  Inv'
  <2>1. /\ Later(i) \in Jobs /\ Later(i).op = job[r].op
        /\ Later(i).ws = job[r].ws /\ Later(i).id = job[r].id
    BY <1>1 DEF Jobs
  <2>2. JobAt("pick", Later(i), home, drawn)
    <3> HIDE DEF Later
    <3> QED
      BY <1>1, <2>1 DEF JobAt
  <2>3. "pick" \in Points \ {"flush"} /\ pc[r] \in Early /\ pc' = [pc EXCEPT ![r] = "pick"]
    BY <1>1, <1>5 DEF Points, Early, TypeOK
  <2> QED
    BY <1>1, <1>2, <1>5, <2>1, <2>2, <2>3, MovesKeep
<1>6. ASSUME NEW i \in job[r].next .. Len(DefaultNames) PROVE i \in Nat /\ DefaultNames[i] \in Names
  <2>1. job[r].next \in Nat /\ Len(DefaultNames) \in Nat
    BY <1>1, NameAssumption DEF Jobs
  <2>2. i \in Nat
    BY <2>1
  <2>3. i \in 1 .. Len(DefaultNames)
    BY <1>1, <2>1 DEF Jobs
  <2> QED
    BY <2>2, <2>3, NameAssumption
<1>7. CASE \E i \in job[r].next .. Len(DefaultNames) :
             /\ job' = [job EXCEPT ![r].next = i + 1]
             /\ UNCHANGED pc
  <2>1. PICK i \in job[r].next .. Len(DefaultNames) :
             job' = [job EXCEPT ![r].next = i + 1] /\ UNCHANGED pc
    BY <1>7
  <2>2. job' = [job EXCEPT ![r] = Later(i)]
    BY <1>1, <2>1 DEF TypeOK
  <2> QED
    BY <1>5, <1>6, <2>1, <2>2
<1>8. CASE \E i \in job[r].next .. Len(DefaultNames) :
             /\ \/ ~job[r].cut /\ job' = [job EXCEPT ![r].name = DefaultNames[i], ![r].recs = {}, ![r].cut = TRUE]
                \/ job' = [job EXCEPT ![r].name = DefaultNames[i], ![r].recs = {}]
             /\ Goto(r, "new")
  <2>1. PICK i \in job[r].next .. Len(DefaultNames) :
             /\ \/ job' = [job EXCEPT ![r].name = DefaultNames[i], ![r].recs = {}, ![r].cut = TRUE]
                \/ job' = [job EXCEPT ![r].name = DefaultNames[i], ![r].recs = {}]
             /\ Goto(r, "new")
    BY <1>8
  <2>2. CASE job' = [job EXCEPT ![r].name = DefaultNames[i], ![r].recs = {}, ![r].cut = TRUE]
    <3> DEFINE j == [job[r] EXCEPT !.name = DefaultNames[i], !.recs = {}, !.cut = TRUE]
    <3>1. job' = [job EXCEPT ![r] = j]
      BY <1>1, <2>2 DEF TypeOK, Jobs
    <3>2. /\ j \in Jobs /\ j.name \in Names /\ j.op = job[r].op
          /\ j.ws = job[r].ws /\ j.id = job[r].id
      BY <1>1, <1>6 DEF Jobs
    <3> HIDE DEF j
    <3> QED
      BY <1>4, <2>1, <3>1, <3>2
  <2>3. CASE job' = [job EXCEPT ![r].name = DefaultNames[i], ![r].recs = {}]
    <3> DEFINE j == [job[r] EXCEPT !.name = DefaultNames[i], !.recs = {}]
    <3>1. job' = [job EXCEPT ![r] = j]
      BY <1>1, <2>3 DEF TypeOK, Jobs
    <3>2. /\ j \in Jobs /\ j.name \in Names /\ j.op = job[r].op
          /\ j.ws = job[r].ws /\ j.id = job[r].id
      BY <1>1, <1>6 DEF Jobs
    <3> HIDE DEF j
    <3> QED
      BY <1>4, <2>1, <3>1, <3>2
  <2> QED
    BY <2>1, <2>2, <2>3
<1> QED
  BY <1>3, <1>7, <1>8 DEF PickName, Cancel

\* So does one turn of handleDeleteWorkspace's loop.
LEMMA KillAllKeeps == ASSUME Inv, NEW r \in Requests, KillAll(r) PROVE Inv'
<1> DEFINE Rest(s, c) == [job[r] EXCEPT !.recs = s, !.cut = c]
<1>1. /\ TypeOK /\ phase = "up" /\ pc[r] = "killAll" /\ UNCHANGED <<Shared, pc>>
      /\ JobAt(pc[r], job[r], home, drawn) /\ job[r] \in Jobs
  BY DEF Inv, JobsOK, KillAll, At, Shared, history, TypeOK
<1>2. SideOK
  BY <1>1, SpendType, KilledType DEF TypeOK, SideOK, KillAll, FaultKinds, Cancel
<1>3. \E s \in SUBSET Records, c \in BOOLEAN : job' = [job EXCEPT ![r] = Rest(s, c)]
  <2>1. PICK t \in job[r].recs :
           \/ ~job[r].cut /\ job' = [job EXCEPT ![r].recs = @ \ {t}]
           \/ job' = [job EXCEPT ![r].recs = {}, ![r].cut = TRUE]
    BY DEF KillAll
  <2>2. CASE ~job[r].cut /\ job' = [job EXCEPT ![r].recs = @ \ {t}]
    <3>1. job' = [job EXCEPT ![r] = Rest(job[r].recs \ {t}, FALSE)]
      BY <1>1, <2>2 DEF Jobs, TypeOK
    <3> QED
      BY <1>1, <3>1 DEF Jobs
  <2>3. CASE job' = [job EXCEPT ![r].recs = {}, ![r].cut = TRUE]
    <3>1. job' = [job EXCEPT ![r] = Rest({}, TRUE)]
      BY <1>1, <2>3 DEF Jobs, TypeOK
    <3> QED
      BY <3>1
  <2> QED
    BY <2>1, <2>2, <2>3
<1>4. PICK s \in SUBSET Records, c \in BOOLEAN : job' = [job EXCEPT ![r] = Rest(s, c)]
  BY <1>3
<1>5. /\ Rest(s, c) \in Jobs /\ Rest(s, c).op = job[r].op
      /\ Rest(s, c).ws = job[r].ws /\ Rest(s, c).id = job[r].id
  BY <1>1 DEF Jobs
<1>6. JobAt("killAll", Rest(s, c), home, drawn)
  <2> HIDE DEF Rest
  <2> QED
    BY <1>1, <1>5 DEF JobAt
<1>7. "killAll" \in Points \ {"flush"} /\ "killAll" \notin Early /\ pc' = [pc EXCEPT ![r] = "killAll"]
  BY <1>1 DEF Points, Early, TypeOK
<1> QED
  BY <1>1, <1>2, <1>4, <1>5, <1>6, <1>7, MovesKeep

-----------------------------------------------------------------------------
(* Requests that begin with a read of the store *)

\* A new handler's local variables are well typed, field by field.
LEMMA NewJobType ==
    ASSUME NEW op \in Operations, NEW w \in Workspaces \cup {Null}, NEW t \in Terminals \cup {Null},
           NEW n \in Names \cup {Null}, NEW m \in Names \cup {Null}, NEW rs \in SUBSET Records
    PROVE  LET j == NewJob(op, w, t, n, m, rs)
           IN  /\ j \in Jobs /\ j.op = op /\ j.ws = w /\ j.id = t /\ j.name = n /\ j.to = m
  BY DEF NewJob, Jobs

\* A request for something the store holds clashes with no new terminal id.
LEMMA StartsKeep ==
    ASSUME Inv, NEW r \in Requests, NEW p \in Points \ (Early \cup {"flush"}), NEW j \in Jobs,
           phase = "up", pc[r] = "idle",
           pc' = [pc EXCEPT ![r] = p], job' = [job EXCEPT ![r] = j],
           j.id = Null \/ j.id \in IdsOf(mem),
           JobAt(p, j, home, drawn), UNCHANGED <<Shared, tmux, budget>>
    PROVE  Inv'
<1>1. LocalStep(r, p, j)
  BY DEF LocalStep, Shared, Inv, TypeOK
<1>2. \A q \in Requests : pc[q] \in Early => job[q].id \in Terminals \ IdsOf(mem)
  BY DEF Inv, JobsOK, JobAt, FreshOK, Early
<1>3. LocalOK(r, p, j)
  BY <1>2 DEF LocalOK, Shared, Ids
<1> QED
  BY <1>1, <1>3, LocalKeeps

\* handleDeleteWorkspace's first read keeps the invariant.
LEMMA DeleteWorkspaceKeeps ==
    ASSUME Inv, NEW r \in Requests, NEW w \in Workspaces, DeleteWorkspace(r, w) PROVE Inv'
<1> DEFINE j == NewJob("deleteWs", w, Null, Null, Null, TermsOf(mem, w))
<1>0. TermsOf(mem, w) \in SUBSET Records
  BY DEF Inv, TypeOK, TermsOf, States
<1>1. j \in Jobs /\ j.op = "deleteWs" /\ j.ws = w /\ j.id = Null
  BY <1>0, NewJobType DEF Operations
<1>2. JobAt("killAll", j, home, drawn)
  <2> HIDE DEF j
  <2> QED
    BY <1>1 DEF JobAt, DeleteWorkspace, Inv, StatesOK, StateAt
<1>3. "killAll" \in Points \ (Early \cup {"flush"})
  BY DEF Points, Early
<1> QED
  BY <1>1, <1>2, <1>3, StartsKeep DEF DeleteWorkspace, At, Goto, Shared, history

\* handleDeleteTerminal's first read keeps it.
LEMMA DeleteTerminalKeeps ==
    ASSUME Inv, NEW r \in Requests, NEW t \in mem.terms, DeleteTerminal(r, t) PROVE Inv'
<1> DEFINE j == NewJob("delete", t.ws, t.id, t.name, Null, {})
<1>0. t.ws \in Workspaces /\ t.id \in Terminals /\ t.name \in Names
  BY DEF Inv, TypeOK, States, Records
<1>1. j \in Jobs /\ j.op = "delete" /\ j.ws = t.ws /\ j.id = t.id /\ j.name = t.name
  BY <1>0, NewJobType DEF Operations
<1>2. JobAt("kill", j, home, drawn)
  <2> HIDE DEF j
  <2> QED
    BY <1>0, <1>1 DEF JobAt, Inv, StatesOK, StateAt
<1>3. "kill" \in Points \ (Early \cup {"flush"}) /\ t.id \in IdsOf(mem)
  BY DEF Points, Early, IdsOf
<1> QED
  BY <1>1, <1>2, <1>3, StartsKeep DEF DeleteTerminal, At, Goto, Shared, history

\* handleRenameTerminal's first read keeps it.
LEMMA RenameTerminalKeeps ==
    ASSUME Inv, NEW r \in Requests, NEW t \in mem.terms, NEW n \in Names, RenameTerminal(r, t, n)
    PROVE  Inv'
<1> DEFINE j == NewJob("rename", t.ws, t.id, t.name, n, {})
<1>0. t.ws \in Workspaces /\ t.id \in Terminals /\ t.name \in Names
  BY DEF Inv, TypeOK, States, Records
<1>1. j \in Jobs /\ j.op = "rename" /\ j.ws = t.ws /\ j.id = t.id /\ j.name = t.name /\ j.to = n
  BY <1>0, NewJobType DEF Operations
<1>2. JobAt("renHas", j, home, drawn)
  <2> HIDE DEF j
  <2> QED
    BY <1>0, <1>1 DEF JobAt, Inv, StatesOK, StateAt
<1>3. "renHas" \in Points \ (Early \cup {"flush"}) /\ t.id \in IdsOf(mem)
  BY DEF Points, Early, IdsOf
<1> QED
  BY <1>1, <1>2, <1>3, StartsKeep DEF RenameTerminal, At, Goto, Shared, history

\* handleCreateTerminal's first read keeps it: the id drawn is new.
LEMMA CreateTerminalKeeps ==
    ASSUME Inv, NEW r \in Requests, NEW w \in Workspaces, NEW t \in Terminals,
           NEW n \in Names \cup {Null}, CreateTerminal(r, w, t, n)
    PROVE  Inv'
<1> DEFINE p == IF n = Null THEN "taken" ELSE "has"
           j == NewJob("create", w, t, n, Null, {})
<1>1. j \in Jobs /\ j.op = "create" /\ j.ws = w /\ j.id = t /\ j.name = n
  BY NewJobType DEF Operations
<1>2. /\ TypeOK /\ phase = "up" /\ pc[r] = "idle" /\ home[t] = Null
      /\ pc' = [pc EXCEPT ![r] = p] /\ job' = [job EXCEPT ![r] = j]
      /\ home' = [home EXCEPT ![t] = w]
      /\ UNCHANGED <<phase, mem, mu, flush, disk, tmp, tmux, load, acked, dropped, drawn, budget>>
  BY DEF Inv, CreateTerminal, At, Goto
<1> HIDE DEF j
<1>3. LocalStep(r, p, j)
  BY <1>2 DEF LocalStep, TypeOK
<1>4. JobAt(p, j, home', drawn)
  BY <1>1, <1>2 DEF JobAt, TypeOK
<1>5. /\ t \notin IdsOf(mem)
      /\ disk # NoFile => t \notin IdsOf(disk)
      /\ t \notin acked.deleted
  <2>1. \A s \in States : StateAt(s, home, drawn) => t \notin IdsOf(s)
    BY <1>2, IdAssumption DEF StateAt, IdsOf, States, Records, Ids
  <2>2. t \notin acked.deleted
    BY <1>2, IdAssumption DEF Inv, HistoryOK, TypeOK
  <2> QED
    BY <2>1, <2>2 DEF Inv, StatesOK, TypeOK, StateFileWhole
<1>6. \A q \in Requests : job[q].id # t
  <2> SUFFICES ASSUME NEW q \in Requests, job[q].id = t PROVE FALSE
    OBVIOUS
  <2>1. JobAt(pc[q], job[q], home, drawn) /\ job[q] \in Jobs
    BY DEF Inv, JobsOK, TypeOK
  <2> QED
    BY <1>2, <2>1 DEF JobAt, Ids
<1>7. p \in Points \ {"flush"}
  BY DEF Points
<1>8. LocalOK(r, p, j)
  BY <1>1, <1>4, <1>5, <1>6, <1>7 DEF LocalOK
<1> QED
  BY <1>3, <1>8, LocalKeeps

-----------------------------------------------------------------------------
(* Mutators of the store *)

\* Handler r takes the lock, makes the store s and enters flushLocked.
MutateStep(r, s, j) ==
    /\ phase = "up"
    /\ Mutate(r, s)
    /\ job' = [job EXCEPT ![r] = j]
    /\ dropped' \in SUBSET Ids
    /\ dropped \subseteq dropped'
    /\ drawn' \in SUBSET Workspaces
    /\ drawn \subseteq drawn'
    /\ UNCHANGED <<phase, disk, tmp, tmux, load, acked, home, budget>>

\* s holds nothing that was deleted and everything that must be kept, and does
\* not take the new id of another handler.
MutateOK(r, s, j) ==
    /\ s \in States /\ j \in Jobs
    /\ JobAt("flush", j, home, drawn')
    /\ StateAt(s, home, drawn')
    /\ SavedAt(j, s)
    /\ FreeOf(acked.deleted, s)
    /\ acked.created \ dropped' \subseteq IdsOf(s)
    /\ \A q \in Requests \ {r} : pc[q] \in Early => job[q].id \notin IdsOf(s) \cup {j.id}

\* A mutator keeps the invariant when the state it leaves passes MutateOK.
LEMMA MutateKeeps ==
    ASSUME Inv, NEW r \in Requests, NEW s, NEW j, MutateStep(r, s, j), MutateOK(r, s, j)
    PROVE  Inv'
<1> USE DEF MutateStep, MutateOK, Mutate, Goto, Unlocked
<1>1. TypeOK'
  BY DEF Inv, TypeOK, Points
<1>2. StateFileWhole'
  BY DEF Inv, StateFileWhole
<1>3. LockOK'
  BY DEF Inv, TypeOK, LockOK
<1>4. JobsOK'
  <2>1. \A q \in Requests \ {r} : JobAt(pc[q], job[q], home, drawn')
    BY DEF Inv, JobsOK, JobAt
  <2> QED
    BY <2>1 DEF Inv, TypeOK, JobsOK
<1>5. StatesOK'
  BY DEF Inv, StatesOK, StateAt
<1>6. FreshOK'
  BY DEF Inv, TypeOK, FreshOK, Early
<1>7. SavedOK'
  BY DEF Inv, TypeOK, SavedOK
<1>8. HistoryOK'
  BY DEF Inv, HistoryOK
<1>9. DeleteIsFinal'
  BY DEF Inv, DeleteIsFinal
<1>10. CreateIsDurable'
  BY DEF Inv, CreateIsDurable
<1> QED
  BY <1>1, <1>2, <1>3, <1>4, <1>5, <1>6, <1>7, <1>8, <1>9, <1>10 DEF Inv

\* The ids other handlers are about to add are terminals the store has not got.
LEMMA OthersFresh ==
    ASSUME Inv
    PROVE  \A q \in Requests : pc[q] \in Early =>
             /\ job[q].id \in Terminals /\ job[q].id \notin IdsOf(mem)
             /\ job[q].op = "create"
             /\ \A r \in Requests \ {q} : job[r].id # job[q].id
  BY DEF Inv, FreshOK, JobsOK, JobAt, Early

\* store.CreateWorkspace passes it.
LEMMA CreateWorkspaceKeeps ==
    ASSUME Inv, NEW r \in Requests, NEW w \in Workspaces, CreateWorkspace(r, w) PROVE Inv'
<1> DEFINE j == NewJob("createWs", w, Null, Null, Null, {})
           s == [mem EXCEPT !.wss = @ \cup {w}]
<1>1. j \in Jobs /\ j.op = "createWs" /\ j.ws = w /\ j.id = Null
  BY NewJobType DEF Operations
<1>2. TypeOK /\ w \notin drawn /\ drawn' = drawn \cup {w} /\ UNCHANGED dropped
  BY DEF Inv, CreateWorkspace
<1>3. s \in States /\ s.wss = mem.wss \cup {w} /\ s.terms = mem.terms
  BY <1>2 DEF TypeOK, States
<1>4. MutateStep(r, s, j)
  BY <1>2 DEF MutateStep, CreateWorkspace, At, TypeOK
<1> HIDE DEF j, s
<1>5. IdsOf(s) = IdsOf(mem) \cup {w}
  BY <1>3 DEF IdsOf
<1>6. JobAt("flush", j, home, drawn')
  BY <1>1, <1>2 DEF JobAt
<1>7. StateAt(s, home, drawn')
  BY <1>2, <1>3 DEF Inv, StatesOK, StateAt
<1>8. SavedAt(j, s)
  BY <1>1, <1>3 DEF SavedAt
<1>9. FreeOf(acked.deleted, s)
  <2>1. w \notin acked.deleted
    BY <1>2, IdAssumption DEF Inv, HistoryOK
  <2> QED
    BY <1>3, <1>5, <2>1 DEF Inv, DeleteIsFinal, FreeOf
<1>10. acked.created \ dropped' \subseteq IdsOf(s)
  BY <1>2, <1>4, <1>5 DEF Inv, CreateIsDurable, MutateStep
<1>11. \A q \in Requests \ {r} : pc[q] \in Early => job[q].id \notin IdsOf(s) \cup {j.id}
  BY <1>1, <1>5, OthersFresh, IdAssumption DEF Ids
<1> QED
  BY <1>1, <1>3, <1>4, <1>6, <1>7, <1>8, <1>9, <1>10, <1>11, MutateKeeps DEF MutateOK

\* SetLayout and RenameWorkspace pass it.
LEMMA EditKeeps ==
    ASSUME Inv, NEW r \in Requests, NEW b \in Blobs, Edit(r, b) PROVE Inv'
<1> DEFINE j == NewJob("edit", Null, Null, Null, Null, {})
           s == [mem EXCEPT !.blob = b]
<1>1. j \in Jobs /\ j.op = "edit" /\ j.id = Null
  BY NewJobType DEF Operations
<1>2. TypeOK /\ UNCHANGED <<dropped, drawn>>
  BY DEF Inv, Edit, history
<1>3. s \in States /\ s.wss = mem.wss /\ s.terms = mem.terms
  BY <1>2 DEF TypeOK, States
<1>4. MutateStep(r, s, j)
  BY <1>2 DEF MutateStep, Edit, At, TypeOK, history
<1> HIDE DEF j, s
<1>5. IdsOf(s) = IdsOf(mem)
  BY <1>3 DEF IdsOf
<1>6. JobAt("flush", j, home, drawn') /\ StateAt(s, home, drawn') /\ SavedAt(j, s)
  BY <1>1, <1>2, <1>3 DEF JobAt, SavedAt, Inv, StatesOK, StateAt
<1>7. FreeOf(acked.deleted, s)
  BY <1>3, <1>5 DEF Inv, DeleteIsFinal, FreeOf
<1>8. acked.created \ dropped' \subseteq IdsOf(s)
  BY <1>2, <1>4, <1>5 DEF Inv, CreateIsDurable, MutateStep
<1>9. \A q \in Requests \ {r} : pc[q] \in Early => job[q].id \notin IdsOf(s) \cup {j.id}
  BY <1>1, <1>5, OthersFresh DEF Ids
<1> QED
  BY <1>1, <1>3, <1>4, <1>6, <1>7, <1>8, <1>9, MutateKeeps DEF MutateOK

\* store.DeleteWorkspace passes it, with whatever the workspace holds by then.
LEMMA DropWorkspaceKeeps == ASSUME Inv, NEW r \in Requests, DropWorkspace(r) PROVE Inv'
<1> DEFINE j == job[r]
           w == job[r].ws
           s == [mem EXCEPT !.wss = @ \ {w}, !.terms = @ \ TermsOf(mem, w)]
<1>1. /\ TypeOK /\ phase = "up" /\ pc[r] = "killAll" /\ j \in Jobs
      /\ JobAt(pc[r], j, home, drawn) /\ j.op = "deleteWs" /\ w \in Workspaces /\ w \in drawn
      /\ UNCHANGED <<drawn, acked>> /\ j.id = Null
  BY DEF Inv, JobsOK, JobAt, DropWorkspace, At, TypeOK
<1>2. CASE w \notin mem.wss
  <2>1. SideOK /\ UNCHANGED Shared /\ Reply(r)
    BY <1>1, <1>2 DEF SideOK, Shared, DropWorkspace, TypeOK
  <2> QED
    BY <1>1, <2>1, RepliesKeep
<1>3. CASE w \in mem.wss
  <2>1. /\ Mutate(r, s) /\ dropped' = dropped \cup {w} \cup {t.id : t \in TermsOf(mem, w)}
        /\ UNCHANGED job
    BY <1>3 DEF DropWorkspace
  <2>2. /\ s \in States /\ s.wss = mem.wss \ {w}
        /\ s.terms = {t \in mem.terms : t.ws # w}
    BY <1>1 DEF TypeOK, States, TermsOf
  <2>3. MutateStep(r, s, j)
    <3>1. job' = [job EXCEPT ![r] = j]
      BY <1>1, <2>1 DEF TypeOK
    <3>2. dropped' \in SUBSET Ids /\ dropped \subseteq dropped'
      BY <1>1, <2>1 DEF TypeOK, TermsOf, States, Records, Ids
    <3> QED
      BY <1>1, <2>1, <3>1, <3>2 DEF MutateStep, DropWorkspace, TypeOK
  <2> HIDE DEF s
  <2>4. IdsOf(s) \subseteq IdsOf(mem) /\ w \notin IdsOf(s)
    BY <1>1, <2>2, IdAssumption DEF IdsOf, TypeOK, States, Records
  <2>5. JobAt("flush", j, home, drawn') /\ StateAt(s, home, drawn') /\ SavedAt(j, s)
    BY <1>1, <2>2, <2>4 DEF JobAt, SavedAt, Inv, StatesOK, StateAt
  <2>6. FreeOf(acked.deleted, s)
    BY <2>2, <2>4 DEF Inv, DeleteIsFinal, FreeOf
  <2>7. acked.created \ dropped' \subseteq IdsOf(s)
    <3>1. IdsOf(mem) \subseteq IdsOf(s) \cup dropped'
      BY <2>1, <2>2 DEF IdsOf, TermsOf
    <3> QED
      BY <1>1, <2>1, <3>1 DEF Inv, CreateIsDurable
  <2>8. \A q \in Requests \ {r} : pc[q] \in Early => job[q].id \notin IdsOf(s) \cup {j.id}
    BY <2>4, OthersFresh
  <2> QED
    BY <1>1, <2>2, <2>3, <2>5, <2>6, <2>7, <2>8, MutateKeeps DEF MutateOK
<1> QED
  BY <1>2, <1>3

\* store.AddTerminal passes it, because the id it adds is still new.
LEMMA AddTerminalKeeps == ASSUME Inv, NEW r \in Requests, AddTerminal(r) PROVE Inv'
<1> DEFINE j == job[r]
           rec == [ws |-> j.ws, id |-> j.id, name |-> j.name]
           s == [mem EXCEPT !.terms = @ \cup {rec}]
<1>1. /\ TypeOK /\ phase = "up" /\ pc[r] = "add" /\ j \in Jobs /\ UNCHANGED <<job, drawn, dropped, acked>>
      /\ JobAt(pc[r], j, home, drawn) /\ j.op = "create" /\ j.ws \in Workspaces
      /\ j.id \in Terminals /\ j.ws = home[j.id] /\ j.name \in Names
      /\ job' = [job EXCEPT ![r] = j]
  BY DEF Inv, JobsOK, JobAt, AddTerminal, At, TypeOK, history
<1>2. j.id \notin acked.deleted /\ \A t \in mem.terms : t.id # j.id
  BY <1>1 DEF Inv, FreshOK, Early, IdsOf
<1>3. CASE j.ws \notin mem.wss
  <2>1. SideOK /\ UNCHANGED Shared /\ Goto(r, "undo")
    BY <1>1, <1>3 DEF SideOK, Shared, AddTerminal, TypeOK, history
  <2>2. JobAt("undo", j, home, drawn)
    BY <1>1 DEF JobAt
  <2>3. "undo" \in Points \ {"flush"} /\ "undo" \notin Early
    BY DEF Points, Early
  <2> QED
    BY <1>1, <2>1, <2>2, <2>3, MovesKeep DEF Goto
<1>4. CASE j.ws \in mem.wss
  <2>1. /\ s \in States /\ s.wss = mem.wss /\ s.terms = mem.terms \cup {rec}
        /\ rec.ws = j.ws /\ rec.id = j.id
    BY <1>1 DEF TypeOK, States, Records
  <2>2. MutateStep(r, s, j)
    BY <1>1, <1>4 DEF MutateStep, AddTerminal, TypeOK, history
  <2> HIDE DEF s, rec
  <2>3. IdsOf(s) = IdsOf(mem) \cup {j.id}
    BY <2>1 DEF IdsOf
  <2>4. JobAt("flush", j, home, drawn')
    BY <1>1 DEF JobAt
  <2>5. StateAt(s, home, drawn') /\ SavedAt(j, s)
    BY <1>1, <1>2, <2>1, <2>3 DEF SavedAt, Inv, StatesOK, StateAt
  <2>6. FreeOf(acked.deleted, s)
    BY <1>2, <1>4, <2>1, <2>3 DEF Inv, DeleteIsFinal, FreeOf
  <2>7. acked.created \ dropped' \subseteq IdsOf(s)
    BY <1>1, <2>3 DEF Inv, CreateIsDurable
  <2>8. \A q \in Requests \ {r} : pc[q] \in Early => job[q].id \notin IdsOf(s) \cup {j.id}
    BY <2>3, OthersFresh
  <2> QED
    BY <1>1, <2>1, <2>2, <2>4, <2>5, <2>6, <2>7, <2>8, MutateKeeps DEF MutateOK
<1> QED
  BY <1>3, <1>4

\* store.RemoveTerminal passes it.
LEMMA RemoveTerminalKeeps == ASSUME Inv, NEW r \in Requests, RemoveTerminal(r) PROVE Inv'
<1> DEFINE j == job[r]
           mine == {t \in mem.terms : t.ws = j.ws /\ t.id = j.id}
           s == [mem EXCEPT !.terms = @ \ mine]
<1>1. /\ TypeOK /\ phase = "up" /\ pc[r] = "remove" /\ j \in Jobs /\ UNCHANGED <<drawn, acked>>
      /\ JobAt(pc[r], j, home, drawn) /\ j.op = "delete" /\ j.id \in Terminals /\ j.ws = home[j.id]
  BY DEF Inv, JobsOK, JobAt, RemoveTerminal, At, TypeOK
<1>2. CASE mine = {}
  <2>1. SideOK /\ UNCHANGED Shared /\ Reply(r)
    BY <1>1, <1>2 DEF SideOK, Shared, RemoveTerminal, TypeOK
  <2> QED
    BY <1>1, <2>1, RepliesKeep
<1>3. CASE mine # {}
  <2>1. Mutate(r, s) /\ dropped' = dropped \cup {j.id} /\ UNCHANGED job
    BY <1>3 DEF RemoveTerminal
  <2>2. s \in States /\ s.wss = mem.wss /\ s.terms = {t \in mem.terms : t.id # j.id}
    <3>1. mine = {t \in mem.terms : t.id = j.id}
      BY <1>1 DEF Inv, StatesOK, StateAt
    <3> QED
      BY <1>1, <3>1 DEF TypeOK, States
  <2>3. MutateStep(r, s, j)
    BY <1>1, <2>1 DEF MutateStep, RemoveTerminal, TypeOK, Ids
  <2> HIDE DEF s, mine
  <2>4. IdsOf(s) \subseteq IdsOf(mem) /\ j.id \notin IdsOf(s)
    BY <1>1, <2>2, IdAssumption DEF IdsOf, TypeOK, States
  <2>5. JobAt("flush", j, home, drawn')
    BY <1>1 DEF JobAt
  <2>6. StateAt(s, home, drawn') /\ SavedAt(j, s)
    BY <1>1, <2>2, <2>4 DEF SavedAt, Inv, StatesOK, StateAt
  <2>7. FreeOf(acked.deleted, s)
    BY <2>2, <2>4 DEF Inv, DeleteIsFinal, FreeOf
  <2>8. acked.created \ dropped' \subseteq IdsOf(s)
    <3>1. IdsOf(mem) \subseteq IdsOf(s) \cup dropped'
      BY <2>1, <2>2 DEF IdsOf
    <3> QED
      BY <1>1, <2>1, <3>1 DEF Inv, CreateIsDurable
  <2>9. \A q \in Requests \ {r} : pc[q] \in Early => job[q].id \notin IdsOf(s) \cup {j.id}
    BY <2>4, OthersFresh
  <2> QED
    BY <1>1, <2>2, <2>3, <2>5, <2>6, <2>7, <2>8, <2>9, MutateKeeps DEF MutateOK
<1> QED
  BY <1>2, <1>3

\* store.RenameTerminal passes it.
LEMMA RenameRecordKeeps == ASSUME Inv, NEW r \in Requests, RenameRecord(r) PROVE Inv'
<1> DEFINE j == job[r]
           mine == {t \in mem.terms : t.ws = j.ws /\ t.id = j.id}
           new == {[t EXCEPT !.name = j.to] : t \in mine}
           s == [mem EXCEPT !.terms = (@ \ mine) \cup new]
<1>1. /\ TypeOK /\ phase = "up" /\ pc[r] = "renStore" /\ j \in Jobs
      /\ UNCHANGED <<drawn, acked, dropped>>
      /\ JobAt(pc[r], j, home, drawn) /\ j.op = "rename" /\ j.to \in Names
  BY DEF Inv, JobsOK, JobAt, RenameRecord, At, TypeOK, history
<1>2. CASE mine = {}
  <2>1. SideOK /\ UNCHANGED Shared /\ Reply(r)
    BY <1>1, <1>2 DEF SideOK, Shared, RenameRecord, TypeOK, history
  <2> QED
    BY <1>1, <2>1, RepliesKeep
<1>3. CASE mine # {}
  <2>1. Mutate(r, s) /\ UNCHANGED job
    BY <1>3 DEF RenameRecord
  <2>2. \A t \in mine : LET u == [t EXCEPT !.name = j.to]
                       IN  u \in Records /\ u.id = t.id /\ u.ws = t.ws
    BY <1>1 DEF TypeOK, States, Records
  <2>3. s \in States /\ s.wss = mem.wss /\ s.terms = (mem.terms \ mine) \cup new
    <3>1. new \in SUBSET Records
      BY <2>2
    <3> QED
      BY <1>1, <3>1 DEF TypeOK, States
  <2>4. MutateStep(r, s, j)
    BY <1>1, <2>1 DEF MutateStep, RenameRecord, TypeOK, history
  <2>5. \A u \in s.terms : \E t \in mem.terms : t.id = u.id /\ t.ws = u.ws
    <3> SUFFICES ASSUME NEW u \in s.terms
                 PROVE  \E t \in mem.terms : t.id = u.id /\ t.ws = u.ws
      OBVIOUS
    <3>1. CASE u \in new
      BY <2>2, <3>1
    <3>2. CASE u \notin new
      BY <2>3, <3>2
    <3> QED
      BY <3>1, <3>2
  <2>6. \A t \in mem.terms : \E u \in s.terms : t.id = u.id
    <3> SUFFICES ASSUME NEW t \in mem.terms PROVE \E u \in s.terms : t.id = u.id
      OBVIOUS
    <3>1. CASE t \in mine
      <4>1. [t EXCEPT !.name = j.to] \in new
        BY <3>1
      <4> QED
        BY <2>2, <2>3, <3>1, <4>1
    <3>2. CASE t \notin mine
      BY <2>3, <3>2
    <3> QED
      BY <3>1, <3>2
  <2>7. \A t, u \in s.terms : t.id = u.id => t = u
    <3>1. \A t, u \in mem.terms : t.id = u.id => t = u
      BY DEF Inv, StatesOK, StateAt
    <3>2. \A t, u \in new : t = u
      BY <3>1
    <3>3. \A t \in new : \E v \in mine : t.id = v.id
      BY <2>2
    <3>4. mine \subseteq mem.terms
      OBVIOUS
    <3> HIDE DEF s, mine, new
    <3> QED
      BY <2>3, <3>1, <3>2, <3>3, <3>4
  <2> HIDE DEF s, mine, new
  <2>8. IdsOf(s) = IdsOf(mem)
    BY <2>3, <2>5, <2>6 DEF IdsOf
  <2>9. JobAt("flush", j, home, drawn')
    BY <1>1 DEF JobAt
  <2>10. StateAt(s, home, drawn') /\ SavedAt(j, s)
    BY <1>1, <2>3, <2>5, <2>7 DEF SavedAt, Inv, StatesOK, StateAt
  <2>11. FreeOf(acked.deleted, s)
    BY <2>3, <2>5, <2>8 DEF Inv, DeleteIsFinal, FreeOf
  <2>12. acked.created \ dropped' \subseteq IdsOf(s)
    BY <1>1, <2>8 DEF Inv, CreateIsDurable
  <2>13. \A q \in Requests \ {r} : pc[q] \in Early => job[q].id \notin IdsOf(s) \cup {j.id}
    BY <2>8, OthersFresh
  <2> QED
    BY <1>1, <2>3, <2>4, <2>9, <2>10, <2>11, <2>12, <2>13, MutateKeeps DEF MutateOK
<1> QED
  BY <1>2, <1>3

-----------------------------------------------------------------------------
(* flushLocked *)

\* flushLocked's os.WriteFile keeps the invariant.
LEMMA WriteTmpKeeps == ASSUME Inv, WriteTmp PROVE Inv'
<1> USE DEF WriteTmp, history
<1>1. TypeOK'
  BY DEF Inv, TypeOK
<1>2. LockOK' /\ StateFileWhole'
  BY DEF Inv, LockOK, StateFileWhole
<1>3. JobsOK' /\ StatesOK' /\ FreshOK' /\ SavedOK' /\ HistoryOK'
  BY DEF Inv, JobsOK, StatesOK, FreshOK, SavedOK, HistoryOK
<1>4. DeleteIsFinal' /\ CreateIsDurable'
  BY DEF Inv, DeleteIsFinal, CreateIsDurable
<1> QED
  BY <1>1, <1>2, <1>3, <1>4 DEF Inv

\* A flush ends: the file took what memory holds, or stayed as it was.
FlushEnds(ok) ==
    /\ flush # "none"
    /\ Unlock(ok)
    /\ disk' = IF ok THEN mem ELSE disk
    /\ tmp' \in States \cup {NoFile, Torn}
    /\ budget' \in [FaultKinds -> Nat]
    /\ UNCHANGED <<tmux, dropped, drawn, home>>

\* Whichever way it ends, the file holds what was acknowledged and nothing that
\* was deleted.
LEMMA FileKeeps ==
    ASSUME Inv, NEW ok \in BOOLEAN, FlushEnds(ok)
    PROVE  /\ disk' \in States \cup {NoFile} /\ disk' # Torn
           /\ disk' # NoFile => StateAt(disk', home, drawn) /\ FreeOf(acked.deleted, disk')
           /\ acked.created \ dropped # {} => disk' # NoFile
           /\ disk' # NoFile => acked.created \ dropped \subseteq IdsOf(disk')
           /\ \A q \in Requests : pc[q] \in Early /\ disk' # NoFile => job[q].id \notin IdsOf(disk')
<1>1. phase # "down"
  BY DEF Inv, LockOK, FlushEnds, TypeOK
<1>2. CASE ok
  BY <1>1, <1>2, FileAssumption
     DEF FlushEnds, Inv, TypeOK, StatesOK, DeleteIsFinal, CreateIsDurable, FreshOK
<1>3. CASE ~ok
  BY <1>3 DEF FlushEnds, Inv, TypeOK, StateFileWhole, StatesOK, DeleteIsFinal, CreateIsDurable, FreshOK
<1> QED
  BY <1>2, <1>3

\* pruneDead's flush.
LEMMA LoaderUnlocks ==
    ASSUME Inv, NEW ok \in BOOLEAN, FlushEnds(ok), mu = Loader PROVE Inv'
<1>1. /\ mu' = Null /\ flush' = "none" /\ load' = NoLoad
      /\ phase' \in {"down", "up"} /\ UNCHANGED <<pc, job, acked, tmux, dropped, drawn, home>>
      /\ mem' = mem \/ (mem' = EmptyState /\ phase' = "down")
  BY DEF FlushEnds, Unlock
<1>2. phase = "loading" /\ \A q \in Requests : pc[q] = "idle"
  BY DEF Inv, LockOK
<1>3. /\ EmptyState \in States /\ IdsOf(EmptyState) = {} /\ StateAt(EmptyState, home, drawn)
      /\ FreeOf(acked.deleted, EmptyState)
  BY DEF EmptyState, States, IdsOf, StateAt, FreeOf
<1>4. TypeOK'
  BY <1>1, <1>3, FileKeeps DEF Inv, TypeOK, FlushEnds, NoLoad, Loads
<1>5. LockOK' /\ StateFileWhole'
  BY <1>1, <1>2, FileKeeps DEF Inv, LockOK, StateFileWhole
<1>6. JobsOK' /\ SavedOK' /\ HistoryOK' /\ FreshOK'
  BY <1>1, <1>2 DEF Inv, JobsOK, SavedOK, HistoryOK, FreshOK, Early
<1>7. StatesOK'
  BY <1>1, <1>3, FileKeeps DEF Inv, StatesOK
<1>8. DeleteIsFinal'
  BY <1>1, <1>3, FileKeeps DEF Inv, DeleteIsFinal
<1>9. CreateIsDurable'
  BY <1>1, <1>2, <1>3, FileKeeps DEF Inv, CreateIsDurable
<1> QED
  BY <1>4, <1>5, <1>6, <1>7, <1>8, <1>9 DEF Inv

\* A handler's flush: when it succeeded, the change is acknowledged.
LEMMA HandlerUnlocks ==
    ASSUME Inv, NEW ok \in BOOLEAN, FlushEnds(ok), mu \in Requests PROVE Inv'
<1> DEFINE j == job[mu]
<1>0. mu # Loader
  OBVIOUS
<1>1. /\ mu' = Null /\ flush' = "none" /\ UNCHANGED <<phase, mem, load, tmux, dropped, drawn, home>>
      /\ \/ pc' = [pc EXCEPT ![mu] = "undo"] /\ UNCHANGED job /\ j.op = "create"
         \/ pc' = [pc EXCEPT ![mu] = "idle"] /\ job' = [job EXCEPT ![mu] = NoJob]
  BY <1>0 DEF FlushEnds, Unlock, Goto, Reply
<1>2. /\ phase = "up" /\ TypeOK /\ pc[mu] = "flush" /\ JobAt(pc[mu], j, home, drawn) /\ j \in Jobs
      /\ SavedAt(j, mem)
  BY DEF Inv, LockOK, JobsOK, SavedOK, TypeOK
<1>3. /\ acked' \in [created: SUBSET Ids, deleted: SUBSET Ids]
      /\ acked'.created \subseteq acked.created \cup IdsOf(mem)
      /\ ~ok => acked' = acked
      /\ \A i \in acked'.deleted \ acked.deleted :
            /\ ok /\ i \notin IdsOf(mem)
            /\ \/ j.op = "deleteWs" /\ i = j.ws
               \/ j.op = "delete" /\ i = j.id
  <2>1. CASE ~ok
    BY <1>0, <1>2, <2>1 DEF FlushEnds, Unlock, TypeOK
  <2>2. CASE ok
    <3>1. Acknowledge(mu)
      BY <1>0, <2>2 DEF FlushEnds, Unlock
    <3>2. CASE j.op = "createWs"
      BY <1>2, <2>2, <3>1, <3>2 DEF Acknowledge, TypeOK, JobAt, SavedAt, Ids, IdsOf
    <3>3. CASE j.op = "create"
      BY <1>2, <2>2, <3>1, <3>3 DEF Acknowledge, TypeOK, JobAt, SavedAt, Ids
    <3>4. CASE j.op = "deleteWs"
      BY <1>2, <2>2, <3>1, <3>4 DEF Acknowledge, TypeOK, JobAt, SavedAt, Ids
    <3>5. CASE j.op = "delete"
      BY <1>2, <2>2, <3>1, <3>5 DEF Acknowledge, TypeOK, JobAt, SavedAt, Ids
    <3>6. CASE j.op \notin {"createWs", "create", "deleteWs", "delete"}
      BY <1>2, <2>2, <3>1, <3>6 DEF Acknowledge, TypeOK
    <3> QED
      BY <3>2, <3>3, <3>4, <3>5, <3>6
  <2> QED
    BY <2>1, <2>2
<1>4. NoJob \in Jobs /\ NoJob.id = Null /\ NoJob.op = "none"
  BY DEF NoJob, NewJob, Jobs, Operations
<1>5. TypeOK'
  BY <1>1, <1>2, <1>3, <1>4, FileKeeps DEF TypeOK, FlushEnds, Points
<1>6. LockOK' /\ StateFileWhole'
  BY <1>1, <1>2, FileKeeps DEF Inv, LockOK, StateFileWhole, TypeOK
<1>7. JobsOK'
  <2>1. JobAt("idle", NoJob, home, drawn)
    BY <1>4 DEF JobAt
  <2>2. j.op = "create" => JobAt("undo", j, home, drawn)
    BY <1>2 DEF JobAt
  <2> QED
    BY <1>1, <1>2, <2>1, <2>2 DEF Inv, JobsOK, TypeOK
<1>8. StatesOK' /\ SavedOK'
  BY <1>1, FileKeeps DEF Inv, StatesOK, SavedOK
<1>9. HistoryOK'
  BY <1>1, <1>2, <1>3 DEF Inv, HistoryOK, JobAt, Ids
<1>10. DeleteIsFinal'
  <2>1. FreeOf(acked'.deleted, mem)
    BY <1>3 DEF Inv, DeleteIsFinal, FreeOf
  <2>2. CASE ok
    BY <1>1, <2>1, <2>2 DEF DeleteIsFinal, FlushEnds
  <2>3. CASE ~ok
    BY <1>1, <1>3, <2>1, <2>3, FileKeeps DEF DeleteIsFinal, FlushEnds
  <2> QED
    BY <2>2, <2>3
<1>11. CreateIsDurable'
  <2>1. acked'.created \ dropped \subseteq IdsOf(mem)
    BY <1>2, <1>3 DEF Inv, CreateIsDurable
  <2>2. CASE ok
    BY <1>1, <1>2, <2>1, <2>2, FileAssumption DEF CreateIsDurable, FlushEnds, TypeOK
  <2>3. CASE ~ok
    BY <1>1, <1>2, <1>3, <2>1, <2>3, FileKeeps DEF CreateIsDurable, FlushEnds
  <2> QED
    BY <2>2, <2>3
<1>12. FreshOK'
  <2> SUFFICES ASSUME NEW q \in Requests, pc'[q] \in Early
               PROVE  /\ job'[q].id \notin IdsOf(mem') \cup acked'.deleted
                      /\ disk' # NoFile => job'[q].id \notin IdsOf(disk')
                      /\ \A o \in Requests \ {q} : job'[o].id # job'[q].id
    BY DEF FreshOK
  <2>1. q # mu /\ pc[q] \in Early /\ job'[q] = job[q]
    BY <1>1, <1>2 DEF Early, TypeOK
  <2>2. /\ job[q].id \in Terminals /\ job[q].id \notin IdsOf(mem) \cup acked.deleted
        /\ \A o \in Requests \ {q} : job[o].id # job[q].id
    BY <2>1, OthersFresh DEF Inv, FreshOK
  <2>3. job[q].id \notin acked'.deleted
    BY <1>2, <1>3, <2>1, <2>2, IdAssumption DEF JobAt
  <2>4. \A o \in Requests \ {q} : job'[o].id # job[q].id
    BY <1>1, <1>2, <1>4, <2>2 DEF TypeOK, Ids
  <2> QED
    BY <1>1, <2>1, <2>2, <2>3, <2>4, FileKeeps
<1> QED
  BY <1>5, <1>6, <1>7, <1>8, <1>9, <1>10, <1>11, <1>12 DEF Inv

\* Every step of flushLocked, successful or not, keeps the invariant.
LEMMA FlushStepKeeps == ASSUME Inv, FlushStep PROVE Inv'
<1>1. CASE WriteTmp
  BY <1>1, WriteTmpKeeps
<1>2. mu # Null => mu = Loader \/ mu \in Requests
  BY DEF Inv, TypeOK
<1>3. ASSUME NEW ok \in BOOLEAN, FlushEnds(ok) PROVE Inv'
  BY <1>2, <1>3, LoaderUnlocks, HandlerUnlocks DEF FlushEnds, Inv, LockOK
<1>4. CASE WriteTmpFails
  <2>1. FlushEnds(FALSE)
    BY <1>4, SpendType DEF WriteTmpFails, FlushEnds, Inv, TypeOK, FaultKinds
  <2> QED
    BY <1>3, <2>1
<1>5. CASE Replace
  <2>1. FlushEnds(TRUE)
    BY <1>5 DEF Replace, FlushEnds, Inv, TypeOK, LockOK
  <2> QED
    BY <1>3, <2>1
<1>6. CASE ReplaceFails
  <2>1. FlushEnds(FALSE)
    BY <1>6, SpendType DEF ReplaceFails, FlushEnds, Inv, TypeOK, FaultKinds
  <2> QED
    BY <1>3, <2>1
<1> QED
  BY <1>1, <1>4, <1>5, <1>6 DEF FlushStep

-----------------------------------------------------------------------------
(* The life of the server process *)

\* Steps of the process and of tmux leave the handlers alone.
Handlers == <<mu, flush, disk, tmp, pc, job, acked, drawn, home>>

\* The local variables of pruneDead are well typed at its start.
LEMMA LoadType ==
    ASSUME NEW s \in SUBSET Records
    PROVE  /\ NoLoad \in Loads
           /\ \A l \in Loads : [l EXCEPT !.todo = s] \in Loads
           /\ [todo |-> s, changed |-> TRUE, sig |-> TRUE] \in Loads
           /\ [todo |-> s, changed |-> TRUE, sig |-> FALSE] \in Loads
  BY DEF NoLoad, Loads

\* store.Load keeps the invariant: memory becomes what the file holds.
LEMMA LoadKeeps == ASSUME Inv, Load PROVE Inv'
<1> DEFINE kept == acked.created \ dropped
<1>0. load' \in Loads
  <2>1. CASE disk = NoFile
    BY <2>1, LoadType DEF Load
  <2>2. CASE disk # NoFile
    <3>1. disk.terms \in SUBSET Records
      BY <2>2 DEF Inv, TypeOK, StateFileWhole, States
    <3> QED
      BY <2>2, <3>1, LoadType DEF Load
  <2> QED
    BY <2>1, <2>2
<1>1. /\ phase = "down" /\ phase' \in {"loading", "up"} /\ load' \in Loads
      /\ mem' = (IF disk = NoFile THEN EmptyState ELSE disk)
      /\ UNCHANGED <<Handlers, tmux, budget, dropped>>
  BY <1>0 DEF Load, Handlers, history
<1>2. \A q \in Requests : pc[q] = "idle"
  BY <1>1 DEF Inv, LockOK
<1>3. mu = Null /\ flush = "none"
  BY <1>1, <1>2 DEF Inv, LockOK, TypeOK
<1>4. /\ mem' \in States /\ StateAt(mem', home, drawn) /\ FreeOf(acked.deleted, mem')
      /\ kept \subseteq IdsOf(mem')
  BY <1>1 DEF EmptyState, States, StateAt, FreeOf, IdsOf, Inv, TypeOK, StatesOK,
              StateFileWhole, DeleteIsFinal, CreateIsDurable
<1>5. TypeOK'
  BY <1>1, <1>4 DEF Inv, TypeOK, Handlers
<1>6. LockOK' /\ StateFileWhole' /\ JobsOK' /\ HistoryOK'
  BY <1>1, <1>2, <1>3 DEF Inv, LockOK, StateFileWhole, JobsOK, HistoryOK, Handlers
<1>7. StatesOK' /\ DeleteIsFinal' /\ CreateIsDurable'
  BY <1>1, <1>4 DEF Inv, StatesOK, DeleteIsFinal, CreateIsDurable, Handlers
<1>8. FreshOK' /\ SavedOK'
  BY <1>1, <1>2, <1>3 DEF FreshOK, SavedOK, Early, Handlers
<1> QED
  BY <1>5, <1>6, <1>7, <1>8 DEF Inv

\* One turn of pruneDead keeps the invariant.
LEMMA ProbeTerminalKeeps == ASSUME Inv, NEW t \in load.todo, ProbeTerminal(t) PROVE Inv'
<1>1. /\ TypeOK /\ phase = "loading" /\ UNCHANGED <<Handlers, phase, tmux>>
      /\ t \in Records
      /\ Keep(t) \/ Prune(t, FALSE) \/ Prune(t, TRUE)
  BY DEF Inv, ProbeTerminal, Handlers, TypeOK, Loads
<1>2. /\ \A q \in Requests : pc[q] = "idle"
  BY <1>1 DEF Inv, LockOK
<1>3. budget' \in [FaultKinds -> Nat]
  BY <1>1, SpendType DEF ProbeTerminal, TypeOK, FaultKinds
<1>4. load' \in Loads
  <2>1. load \in Loads /\ load.todo \ {t} \in SUBSET Records
    BY <1>1 DEF TypeOK, Loads
  <2> QED
    BY <1>1, <2>1, LoadType DEF Keep, Prune
<1>5. /\ mem' \in States /\ mem'.wss = mem.wss /\ mem'.terms \subseteq mem.terms
      /\ dropped' \in SUBSET Ids /\ dropped \subseteq dropped'
      /\ IdsOf(mem) \subseteq IdsOf(mem') \cup dropped'
  BY <1>1 DEF TypeOK, States, Records, Keep, Prune, IdsOf, Ids
<1>6. IdsOf(mem') \subseteq IdsOf(mem)
  BY <1>5 DEF IdsOf
<1>7. mu = Null /\ flush = "none"
  BY <1>1, <1>2 DEF Inv, LockOK, TypeOK
<1>8. TypeOK'
  BY <1>1, <1>3, <1>4, <1>5 DEF TypeOK, Handlers
<1>9. LockOK' /\ StateFileWhole' /\ JobsOK' /\ HistoryOK'
  BY <1>1, <1>2, <1>7 DEF Inv, LockOK, StateFileWhole, JobsOK, HistoryOK, Handlers
<1>10. StatesOK' /\ DeleteIsFinal'
  BY <1>1, <1>5, <1>6 DEF Inv, StatesOK, StateAt, DeleteIsFinal, FreeOf, Handlers
<1>11. CreateIsDurable'
  BY <1>1, <1>5 DEF Inv, CreateIsDurable, Handlers
<1>12. FreshOK' /\ SavedOK'
  BY <1>1, <1>2, <1>7 DEF FreshOK, SavedOK, Early, Handlers
<1> QED
  BY <1>8, <1>9, <1>10, <1>11, <1>12 DEF Inv

\* The end of pruneDead keeps the invariant.
LEMMA LoadDoneKeeps == ASSUME Inv, LoadDone PROVE Inv'
<1>0. NoLoad \in Loads
  BY LoadType
<1>1. /\ TypeOK /\ phase = "loading" /\ phase' \in {"loading", "up"} /\ load' \in Loads
      /\ mu = Null /\ load.todo = {}
      /\ \/ mu' = Loader /\ flush' = "write" /\ UNCHANGED <<phase, load>>
         \/ UNCHANGED <<mu, flush>>
      /\ UNCHANGED <<mem, disk, tmp, tmux, pc, job, acked, dropped, drawn, home, budget>>
  BY <1>0 DEF Inv, LoadDone, Unlocked, TypeOK, history
<1>2. \A q \in Requests : pc[q] = "idle"
  BY <1>1 DEF Inv, LockOK
<1>3. TypeOK'
  BY <1>1 DEF TypeOK
<1>4. LockOK'
  BY <1>1, <1>2 DEF Inv, LockOK
<1>5. StateFileWhole' /\ JobsOK' /\ HistoryOK' /\ StatesOK' /\ FreshOK'
  BY <1>1 DEF Inv, StateFileWhole, JobsOK, HistoryOK, StatesOK, FreshOK
<1>6. SavedOK' /\ DeleteIsFinal' /\ CreateIsDurable'
  BY <1>1 DEF Inv, SavedOK, DeleteIsFinal, CreateIsDurable
<1> QED
  BY <1>3, <1>4, <1>5, <1>6 DEF Inv

\* The process stopping at any moment keeps it: only state.json survives.
LEMMA StopKeeps == ASSUME Inv, Stop PROVE Inv'
<1>1. /\ TypeOK /\ phase' = "down" /\ mem' = EmptyState /\ mu' = Null /\ flush' = "none"
      /\ pc' = [r \in Requests |-> "idle"] /\ job' = [r \in Requests |-> NoJob] /\ load' = NoLoad
      /\ UNCHANGED <<disk, tmux, acked, dropped, drawn, home>>
      /\ tmp' \in {tmp, Torn, mem} /\ Spend("crash")
  BY DEF Inv, Stop, history
<1>2. NoJob \in Jobs /\ NoJob.id = Null /\ NoJob.op = "none"
  BY DEF NoJob, NewJob, Jobs, Operations
<1>3. EmptyState \in States /\ IdsOf(EmptyState) = {} /\ EmptyState.terms = {} /\ EmptyState.wss = {}
  BY DEF EmptyState, States, IdsOf
<1>4. budget' \in [FaultKinds -> Nat]
  BY <1>1, SpendType DEF FaultKinds
<1>5. TypeOK'
  BY <1>1, <1>2, <1>3, <1>4 DEF TypeOK, Points, Loads, NoLoad
<1>6. LockOK' /\ StateFileWhole' /\ SavedOK' /\ HistoryOK'
  BY <1>1 DEF Inv, LockOK, StateFileWhole, SavedOK, HistoryOK
<1>7. JobsOK' /\ FreshOK'
  BY <1>1, <1>2 DEF JobsOK, JobAt, FreshOK, Early
<1>8. StatesOK' /\ DeleteIsFinal' /\ CreateIsDurable'
  BY <1>1, <1>3 DEF Inv, StatesOK, StateAt, DeleteIsFinal, FreeOf, CreateIsDurable
<1> QED
  BY <1>5, <1>6, <1>7, <1>8 DEF Inv

\* A session that dies keeps it.
LEMMA SessionExitKeeps == ASSUME Inv, NEW n \in Names, SessionExit(n) PROVE Inv'
<1>1. SideOK /\ UNCHANGED <<Shared, pc, job>>
  BY SpendType DEF Inv, TypeOK, SessionExit, SideOK, Shared, history, FaultKinds
<1>2. TypeOK'
  BY <1>1 DEF Inv, TypeOK, SideOK, Shared
<1>3. /\ LockOK' /\ StateFileWhole' /\ JobsOK' /\ HistoryOK' /\ StatesOK' /\ FreshOK' /\ SavedOK'
      /\ DeleteIsFinal' /\ CreateIsDurable'
  BY <1>1 DEF Inv, LockOK, StateFileWhole, JobsOK, HistoryOK, StatesOK, FreshOK, SavedOK,
              DeleteIsFinal, CreateIsDurable, Shared
<1> QED
  BY <1>2, <1>3 DEF Inv

-----------------------------------------------------------------------------
(* The theorems *)

\* The service starts, with no state file, in a state that satisfies Inv.
LEMMA InitInv == Init => Inv
<1> SUFFICES ASSUME Init PROVE Inv
  OBVIOUS
<1>1. NoJob \in Jobs /\ NoJob.id = Null /\ NoJob.op = "none"
  BY DEF NoJob, NewJob, Jobs, Operations
<1>2. EmptyState \in States /\ IdsOf(EmptyState) = {} /\ EmptyState.terms = {} /\ EmptyState.wss = {}
  BY DEF EmptyState, States, IdsOf
<1>3. TypeOK
  BY <1>1, <1>2, BudgetAssumption DEF Init, TypeOK, Points, Loads, NoLoad
<1>4. JobsOK /\ FreshOK
  BY <1>1 DEF Init, JobsOK, JobAt, FreshOK, Early
<1>5. LockOK /\ StateFileWhole /\ SavedOK /\ HistoryOK
  BY FileAssumption DEF Init, LockOK, StateFileWhole, SavedOK, HistoryOK
<1>6. StatesOK /\ DeleteIsFinal /\ CreateIsDurable
  BY <1>2 DEF Init, StatesOK, StateAt, DeleteIsFinal, FreeOf, CreateIsDurable
<1> QED
  BY <1>3, <1>4, <1>5, <1>6 DEF Inv

\* No step of a handler, of a flush, of the loader, of the process or of a user
\* breaks the inductive invariant.
LEMMA NextInv == Inv /\ [Next]_vars => Inv'
<1> SUFFICES ASSUME Inv, [Next]_vars PROVE Inv'
  OBVIOUS
<1>1. CASE UNCHANGED vars
  BY <1>1 DEF vars, Inv, TypeOK, LockOK, StateFileWhole, JobsOK, HistoryOK, StatesOK, FreshOK,
              SavedOK, DeleteIsFinal, CreateIsDurable
<1>2. ASSUME NEW r \in Requests, Start(r) PROVE Inv'
  BY <1>2, CreateWorkspaceKeeps, DeleteWorkspaceKeeps, EditKeeps, CreateTerminalKeeps,
     DeleteTerminalKeeps, RenameTerminalKeeps DEF Start, SetLayout, RenameWorkspace
<1>3. ASSUME NEW r \in Requests, LockStep(r) PROVE Inv'
  BY <1>3, DropWorkspaceKeeps, CopyTakenKeeps, AddTerminalKeeps, RemoveTerminalKeeps,
     RenameRecordKeeps DEF LockStep
<1>4. ASSUME NEW r \in Requests, TmuxStep(r) PROVE Inv'
  BY <1>4, KillAllKeeps, CheckNameKeeps, PickNameKeeps, NewSessionKeeps, UndoSessionKeeps,
     KillSessionKeeps, CheckNewNameKeeps, RenameSessionKeeps DEF TmuxStep
<1>5. CASE LoadStep
  BY <1>5, ProbeTerminalKeeps, LoadDoneKeeps DEF LoadStep
<1> QED
  BY <1>1, <1>2, <1>3, <1>4, <1>5, FlushStepKeeps, LoadKeeps, StopKeeps, SessionExitKeeps DEF Next

\* The inductive invariant holds in every reachable state, whatever the number
\* of handlers, ids, names and faults.
THEOREM ServiceInv == Spec => []Inv
<1> QED
  BY InitInv, NextInv, PTL DEF Spec

\* Every variable keeps its type.
THEOREM TypeCorrect == Spec => []TypeOK
<1>1. Inv => TypeOK
  BY DEF Inv
<1> QED
  BY <1>1, ServiceInv, PTL

\* state.json can always be parsed: flushLocked only ever renames a complete
\* temporary file over it, and a crash leaves no other file in its place.
THEOREM StateFileIsWhole == Spec => []StateFileWhole
<1>1. Inv => StateFileWhole
  BY DEF Inv
<1> QED
  BY <1>1, ServiceInv, PTL

\* A deletion answered with 204 is never undone, by no interleaving of
\* handlers, failed flushes, crashes and restarts.
THEOREM DeletesAreFinal == Spec => []DeleteIsFinal
<1>1. Inv => DeleteIsFinal
  BY DEF Inv
<1> QED
  BY <1>1, ServiceInv, PTL

\* A creation answered with 201 is in the file and comes back after a restart,
\* until a request or pruneDead takes it out.
THEOREM CreatesAreDurable == Spec => []CreateIsDurable
<1>1. Inv => CreateIsDurable
  BY DEF Inv
<1> QED
  BY <1>1, ServiceInv, PTL

-----------------------------------------------------------------------------
(* The store implements StateFile *)

\* What a step does to the variables StateFile speaks of.
LEMMA FileStep == Inv /\ Inv' /\ [Next]_vars => [File!Next]_(File!vars)
<1> SUFFICES ASSUME Inv, Inv', [Next]_vars PROVE [File!Next]_(File!vars)
  OBVIOUS
<1> DEFINE Same == UNCHANGED <<phase, mem, mu, disk>>
<1>1. CASE Same
  BY <1>1 DEF File!vars, locked, stored
<1>2. ASSUME NEW r \in Requests, NEW s, Mutate(r, s), phase = "up", UNCHANGED <<phase, disk>>
      PROVE  File!Change
  <2>1. mem' \in States
    BY DEF Inv, TypeOK
  <2> QED
    BY <1>2, <2>1 DEF Mutate, Unlocked, File!Change, locked, stored
<1>3. ASSUME NEW ok \in BOOLEAN, FlushEnds(ok) PROVE File!Release
  <2>1. mu # Null /\ phase # "down"
    BY <1>3 DEF FlushEnds, Inv, LockOK, TypeOK
  <2> QED
    BY <1>3, <2>1, FileAssumption DEF FlushEnds, Unlock, File!Release, locked, stored, Inv, TypeOK, LockOK
<1>4. ASSUME NEW r \in Requests, Start(r) PROVE [File!Next]_(File!vars)
  <2>1. CASE \E w \in Workspaces : CreateWorkspace(r, w)
    <3>1. PICK w \in Workspaces : CreateWorkspace(r, w)
      BY <2>1
    <3> QED
      BY <3>1, <1>2 DEF CreateWorkspace, At, File!Next
  <2>2. CASE \E b \in Blobs : Edit(r, b)
    <3>1. PICK b \in Blobs : Edit(r, b)
      BY <2>2
    <3> QED
      BY <3>1, <1>2 DEF Edit, At, File!Next
  <2>3. CASE Same
    BY <1>1, <2>3
  <2> QED
    BY <1>4, <2>1, <2>2, <2>3
       DEF Start, SetLayout, RenameWorkspace, DeleteWorkspace, CreateTerminal, DeleteTerminal, RenameTerminal
<1>5. ASSUME NEW r \in Requests, LockStep(r) PROVE [File!Next]_(File!vars)
  <2>1. phase = "up" /\ UNCHANGED <<phase, disk>>
    BY <1>5 DEF LockStep, DropWorkspace, CopyTaken, AddTerminal, RemoveTerminal, RenameRecord, At
  <2>2. Same \/ \E s : Mutate(r, s)
    <3>1. CASE DropWorkspace(r)
      BY <3>1 DEF DropWorkspace
    <3>2. CASE CopyTaken(r)
      BY <3>2 DEF CopyTaken
    <3>3. CASE AddTerminal(r)
      BY <3>3 DEF AddTerminal
    <3>4. CASE RemoveTerminal(r)
      BY <3>4 DEF RemoveTerminal
    <3>5. CASE RenameRecord(r)
      BY <3>5 DEF RenameRecord
    <3> QED
      BY <1>5, <3>1, <3>2, <3>3, <3>4, <3>5 DEF LockStep
  <2> QED
    BY <1>1, <1>2, <2>1, <2>2 DEF File!Next
<1>6. ASSUME NEW r \in Requests, TmuxStep(r) PROVE Same
  BY <1>6 DEF TmuxStep, KillAll, CheckName, PickName, NewSession, UndoSession, KillSession,
              CheckNewName, RenameSession
<1>7. CASE FlushStep
  <2>1. CASE WriteTmp
    BY <1>1, <2>1 DEF WriteTmp
  <2>2. CASE WriteTmpFails
    <3>1. FlushEnds(FALSE)
      BY <2>2, SpendType DEF WriteTmpFails, FlushEnds, Inv, TypeOK, FaultKinds
    <3> QED
      BY <1>3, <3>1 DEF File!Next
  <2>3. CASE Replace
    <3>1. FlushEnds(TRUE)
      BY <2>3 DEF Replace, FlushEnds, Inv, TypeOK, LockOK
    <3> QED
      BY <1>3, <3>1 DEF File!Next
  <2>4. CASE ReplaceFails
    <3>1. FlushEnds(FALSE)
      BY <2>4, SpendType DEF ReplaceFails, FlushEnds, Inv, TypeOK, FaultKinds
    <3> QED
      BY <1>3, <3>1 DEF File!Next
  <2> QED
    BY <1>7, <2>1, <2>2, <2>3, <2>4 DEF FlushStep
<1>8. CASE Load
  BY <1>8 DEF Load, File!Next, File!Begin, locked, stored
<1>9. ASSUME NEW t \in load.todo, ProbeTerminal(t) PROVE [File!Next]_(File!vars)
  <2>1. phase = "loading" /\ UNCHANGED <<phase, mu, disk>> /\ (Keep(t) \/ Prune(t, FALSE) \/ Prune(t, TRUE))
    BY <1>9 DEF ProbeTerminal
  <2>2. CASE Keep(t)
    BY <1>1, <2>1, <2>2 DEF Keep
  <2>3. CASE mem' = [mem EXCEPT !.terms = @ \ {t}]
    <3>1. mem' \in States /\ PrunedFrom(mem', mem)
      BY <2>3 DEF Inv, TypeOK, States, PrunedFrom
    <3>2. mu = Null
      BY <2>1, <1>9 DEF Inv, LockOK, TypeOK
    <3> QED
      BY <2>1, <3>1, <3>2 DEF File!Next, File!Shrink, locked, stored
  <2> QED
    BY <2>1, <2>2, <2>3 DEF Prune
<1>10. CASE LoadDone
  BY <1>10 DEF LoadDone, Unlocked, File!Next, File!LockLoaded, File!Serve, locked, stored
<1>11. CASE Stop
  BY <1>11 DEF Stop, File!Next, File!End, locked, stored
<1>12. ASSUME NEW n \in Names, SessionExit(n) PROVE Same
  BY <1>12 DEF SessionExit
<1>13. CASE UNCHANGED vars
  BY <1>1, <1>13 DEF vars
<1> QED
  BY <1>1, <1>4, <1>5, <1>6, <1>7, <1>8, <1>9, <1>10, <1>11, <1>12, <1>13 DEF Next, LoadStep

\* The temporary file, the rename and the lock together make state.json an
\* atomic variable: every step of the service is a step of StateFile or leaves
\* its variables alone.
THEOREM FileIsAtomic == Spec => AtomicFile
<1>1. Init => File!Init
  BY DEF Init, File!Init, locked, stored
<1> QED
  BY <1>1, ServiceInv, FileStep, PTL DEF Spec, AtomicFile, File!Spec

-----------------------------------------------------------------------------
(* One record and one session name per terminal, whatever races *)

\* Where handleCreateTerminal has drawn an id and not created its session.
NotYet == {"has", "taken", "pick", "new"}

\* Sessions are of terminals that were drawn, each under one name, and of none
\* that is still to get its session.
SessionInv ==
    /\ \A m, n \in Names : tmux[m] # Null /\ tmux[m] = tmux[n] => m = n
    /\ \A n \in Names : tmux[n] # Null => home[tmux[n]] # Null
    /\ \A r \in Requests : pc[r] \in NotYet => \A n \in Names : tmux[n] # job[r].id

\* A step that only ends sessions, and in which no handler comes to a point
\* before its session, keeps this.
LEMMA SessionsShrink ==
    ASSUME Inv, SessionInv, UNCHANGED home,
           \A n \in Names : tmux'[n] \in {tmux[n], Null},
           \A r \in Requests : pc'[r] \in NotYet => pc[r] \in NotYet /\ job'[r].id = job[r].id
    PROVE  SessionInv'
<1>1. \A r \in Requests : pc[r] \in NotYet => job[r].id # Null
  BY DEF Inv, JobsOK, JobAt, NotYet, Ids
<1> QED
  BY <1>1 DEF SessionInv

\* The start of a request: the id of a new terminal was not drawn before.
LEMMA StartSessions == ASSUME Inv, SessionInv, NEW r \in Requests, Start(r) PROVE SessionInv'
<1>1. UNCHANGED tmux
  BY DEF Start, CreateWorkspace, DeleteWorkspace, SetLayout, RenameWorkspace, Edit, CreateTerminal,
         DeleteTerminal, RenameTerminal
<1>2. ASSUME NEW w \in Workspaces, NEW t \in Terminals, NEW n, CreateTerminal(r, w, t, n)
      PROVE  SessionInv'
  <2> DEFINE j == NewJob("create", w, t, n, Null, {})
  <2>1. j.id = t
    BY DEF NewJob
  <2>2. /\ home[t] = Null /\ \A u \in Terminals : home[u] # Null => home'[u] = home[u]
        /\ job'[r].id = t /\ \A q \in Requests \ {r} : pc'[q] = pc[q] /\ job'[q] = job[q]
    BY <1>2, <2>1 DEF CreateTerminal, Goto, Inv, TypeOK
  <2>3. \A m \in Names : tmux[m] # t
    BY <2>2 DEF SessionInv, Ids
  <2>4. \A m \in Names : tmux[m] # Null => tmux[m] \in Terminals
    BY DEF Inv, TypeOK
  <2> QED
    BY <1>1, <2>2, <2>3, <2>4 DEF SessionInv
<1>3. ASSUME NEW p \in {"kill", "renHas", "killAll", "flush"}, Goto(r, p), UNCHANGED home,
             NEW j, job' = [job EXCEPT ![r] = j]
      PROVE  SessionInv'
  <2>1. \A q \in Requests : pc'[q] \in NotYet => pc[q] \in NotYet /\ job'[q].id = job[q].id
    BY <1>3 DEF Goto, Inv, TypeOK, NotYet
  <2> QED
    BY <1>1, <1>3, <2>1, SessionsShrink
<1> QED
  BY <1>2, <1>3 DEF Start, CreateWorkspace, DeleteWorkspace, SetLayout, RenameWorkspace, Edit,
                    DeleteTerminal, RenameTerminal, Mutate, history

\* The tmux commands of handlers.
LEMMA TmuxSessions == ASSUME Inv, SessionInv, NEW r \in Requests, TmuxStep(r) PROVE SessionInv'
<1> DEFINE j == job[r]
<1>1. TypeOK /\ j \in Jobs /\ JobAt(pc[r], j, home, drawn)
  BY DEF Inv, TypeOK, JobsOK
<1>2. UNCHANGED home
  BY DEF TmuxStep, KillAll, CheckName, PickName, NewSession, UndoSession, KillSession,
         CheckNewName, RenameSession, history
<1>3. \A n : \A m \in Names : Killed(n)[m] \in {tmux[m], Null}
  BY <1>1 DEF TypeOK, Killed
<1>4. ASSUME \A n \in Names : tmux'[n] \in {tmux[n], Null},
             NEW p, pc'[r] = p, p \in NotYet => pc[r] \in NotYet /\ job'[r].id = job[r].id,
             \A q \in Requests \ {r} : pc'[q] = pc[q] /\ job'[q] = job[q]
      PROVE  SessionInv'
  BY <1>2, <1>4, SessionsShrink
<1>5. CASE KillAll(r)
  <2>1. \A n \in Names : tmux'[n] \in {tmux[n], Null}
    BY <1>3, <1>5 DEF KillAll
  <2>2. pc' = pc /\ pc[r] = "killAll" /\ \A q \in Requests \ {r} : job'[q] = job[q]
    BY <1>1, <1>5 DEF KillAll, At, TypeOK
  <2> QED
    BY <1>4, <2>1, <2>2 DEF NotYet
<1>6. CASE CheckName(r) \/ PickName(r)
  <2>1. UNCHANGED tmux /\ pc[r] \in NotYet
    BY <1>6 DEF CheckName, PickName, At, NotYet
  <2>2. \A q \in Requests \ {r} : pc'[q] = pc[q] /\ job'[q] = job[q]
    BY <1>1, <1>6 DEF CheckName, PickName, Reply, Goto, CutJob, TypeOK
  <2>3. pc'[r] = "idle" \/ job'[r].id = job[r].id
    <3>1. CASE Reply(r)
      BY <1>1, <3>1 DEF Reply, Goto, TypeOK
    <3>2. CASE UNCHANGED job
      BY <3>2
    <3>3. CASE job' = CutJob(r)
      <4>1. job' = [job EXCEPT ![r] = [j EXCEPT !.cut = TRUE]]
        BY <1>1, <3>3 DEF CutJob, TypeOK
      <4> QED
        BY <1>1, <4>1 DEF TypeOK, Jobs
    <3>4. CASE \E i : job' = [job EXCEPT ![r].next = i + 1]
      <4>1. PICK i : job' = [job EXCEPT ![r] = [j EXCEPT !.next = i + 1]]
        BY <1>1, <3>4 DEF TypeOK
      <4> QED
        BY <1>1, <4>1 DEF TypeOK, Jobs
    <3>5. CASE \E n : job' = [job EXCEPT ![r].name = n, ![r].recs = {}]
      <4>1. PICK n : job' = [job EXCEPT ![r].name = n, ![r].recs = {}]
        BY <3>5
      <4>2. job' = [job EXCEPT ![r] = [j EXCEPT !.name = n, !.recs = {}]]
        BY <1>1, <4>1 DEF TypeOK
      <4> QED
        BY <1>1, <4>2 DEF TypeOK, Jobs
    <3>6. CASE \E n : job' = [job EXCEPT ![r].name = n, ![r].recs = {}, ![r].cut = TRUE]
      <4>1. PICK n : job' = [job EXCEPT ![r].name = n, ![r].recs = {}, ![r].cut = TRUE]
        BY <3>6
      <4>2. job' = [job EXCEPT ![r] = [j EXCEPT !.name = n, !.recs = {}, !.cut = TRUE]]
        BY <1>1, <4>1 DEF TypeOK
      <4> QED
        BY <1>1, <4>2 DEF TypeOK, Jobs
    <3>7. CASE CheckName(r)
      BY <3>1, <3>2, <3>3, <3>7 DEF CheckName
    <3>8. CASE PickName(r)
      BY <3>1, <3>4, <3>5, <3>6, <3>8 DEF PickName
    <3> QED
      BY <1>6, <3>7, <3>8
  <2> QED
    BY <1>4, <2>1, <2>2, <2>3 DEF NotYet
<1>7. CASE KillSession(r) \/ UndoSession(r) \/ CheckNewName(r)
  <2>1. \A n \in Names : tmux'[n] \in {tmux[n], Null}
    BY <1>3, <1>7 DEF KillSession, UndoSession, CheckNewName
  <2>2. /\ pc'[r] \in {"remove", "idle", "ren"}
        /\ \A q \in Requests \ {r} : pc'[q] = pc[q] /\ job'[q] = job[q]
    BY <1>1, <1>7 DEF KillSession, UndoSession, CheckNewName, Reply, Goto, CutJob, TypeOK
  <2> QED
    BY <1>4, <2>1, <2>2 DEF NotYet
<1>8. CASE NewSession(r)
  <2>1. /\ pc[r] = "new" /\ pc'[r] \in {"add", "idle"}
        /\ \A q \in Requests \ {r} : pc'[q] = pc[q] /\ job'[q] = job[q]
    BY <1>1, <1>8 DEF NewSession, At, Reply, Goto, TypeOK
  <2>2. CASE UNCHANGED tmux
    BY <1>4, <2>1, <2>2 DEF NotYet
  <2>3. CASE tmux' = [tmux EXCEPT ![j.name] = j.id]
    <3>1. j.name \in Names /\ j.id \in Terminals /\ home[j.id] # Null
      BY <1>1, <2>1 DEF JobAt, Ids
    <3>2. \A n \in Names : tmux'[n] = IF n = j.name THEN j.id ELSE tmux[n]
      BY <1>1, <2>3 DEF TypeOK
    <3>3. \A n \in Names : tmux[n] # j.id
      BY <2>1 DEF SessionInv, NotYet
    <3>4. \A q \in Requests \ {r} : pc[q] \in NotYet => job[q].id # j.id
      BY <2>1 DEF Inv, FreshOK, NotYet, Early
    <3>5. \A m, n \in Names : tmux'[m] # Null /\ tmux'[m] = tmux'[n] => m = n
      BY <3>2, <3>3 DEF SessionInv
    <3>6. \A n \in Names : tmux'[n] # Null => home'[tmux'[n]] # Null
      BY <1>2, <3>1, <3>2 DEF SessionInv
    <3>7. \A q \in Requests : pc'[q] \in NotYet => \A n \in Names : tmux'[n] # job'[q].id
      BY <2>1, <3>2, <3>4 DEF SessionInv, NotYet
    <3> QED
      BY <3>5, <3>6, <3>7 DEF SessionInv
  <2> QED
    BY <1>8, <2>2, <2>3 DEF NewSession
<1>9. CASE RenameSession(r)
  <2>1. /\ pc[r] = "ren" /\ pc'[r] \in {"renStore", "idle"}
        /\ \A q \in Requests \ {r} : pc'[q] = pc[q] /\ job'[q] = job[q]
    BY <1>1, <1>9 DEF RenameSession, At, Reply, Goto, TypeOK
  <2>2. CASE UNCHANGED tmux
    BY <1>4, <2>1, <2>2 DEF NotYet
  <2>3. CASE tmux' = Renamed(j.name, j.to) /\ CanRename(j.name, j.to)
    <3>1. j.name \in Names /\ j.to \in Names
      BY <1>1, <2>1 DEF JobAt
    <3>2. PICK f \in Names :
            /\ tmux[f] # Null /\ (tmux[j.to] # Null => f = j.to)
            /\ \A n \in Names : tmux'[n] = IF n = j.to THEN tmux[f]
                                            ELSE IF n = f THEN Null ELSE tmux[n]
      <4>1. PICK f \in Names : Moves(j.name, j.to, f)
        BY <1>1, <2>3, <3>1, RenamedMoves DEF CanRename
      <4>2. tmux[j.to] # Null => f = j.to
        BY <2>3, <4>1 DEF CanRename, Live, Moves
      <4> QED
        BY <2>3, <4>1, <4>2 DEF Moves
    <3>3. \A q \in Requests : pc[q] \in NotYet => job[q].id # Null
      BY DEF Inv, JobsOK, JobAt, NotYet, Ids
    <3>4. \A m, n \in Names : tmux'[m] # Null /\ tmux'[m] = tmux'[n] => m = n
      BY <3>1, <3>2 DEF SessionInv
    <3>5. \A n \in Names : tmux'[n] # Null => home'[tmux'[n]] # Null
      BY <1>2, <3>1, <3>2 DEF SessionInv
    <3>6. \A q \in Requests : pc'[q] \in NotYet => \A n \in Names : tmux'[n] # job'[q].id
      BY <2>1, <3>1, <3>2, <3>3 DEF SessionInv, NotYet
    <3> QED
      BY <3>4, <3>5, <3>6 DEF SessionInv
  <2> QED
    BY <1>9, <2>2, <2>3 DEF RenameSession
<1> QED
  BY <1>5, <1>6, <1>7, <1>8, <1>9 DEF TmuxStep

\* Store calls, flushes and the life of the process create no session.
LEMMA OtherSessions ==
    ASSUME Inv, SessionInv,
           \/ \E r \in Requests : LockStep(r)
           \/ FlushStep \/ Load \/ LoadStep \/ Stop
           \/ \E n \in Names : SessionExit(n)
    PROVE  SessionInv'
<1>1. TypeOK
  BY DEF Inv
<1>2. ASSUME NEW r \in Requests, LockStep(r) PROVE SessionInv'
  <2>1. UNCHANGED <<home, tmux>>
    BY <1>2 DEF LockStep, DropWorkspace, CopyTaken, AddTerminal, RemoveTerminal, RenameRecord, history
  <2>2. \A q \in Requests \ {r} : pc'[q] = pc[q] /\ job'[q] = job[q]
    BY <1>1, <1>2 DEF LockStep, DropWorkspace, CopyTaken, AddTerminal, RemoveTerminal, RenameRecord,
                      Mutate, Reply, Goto, TypeOK
  <2>3. CASE CopyTaken(r)
    <3>1. pc[r] = "taken" /\ job'[r].id = job[r].id
      BY <1>1, <2>3 DEF CopyTaken, At, TypeOK, Jobs
    <3> QED
      BY <2>1, <2>2, <3>1, SessionsShrink DEF NotYet
  <2>4. CASE ~CopyTaken(r)
    <3>1. pc'[r] \notin NotYet
      BY <1>1, <1>2, <2>4 DEF LockStep, DropWorkspace, AddTerminal, RemoveTerminal, RenameRecord,
                              Mutate, Reply, Goto, TypeOK, NotYet
    <3> QED
      BY <2>1, <2>2, <3>1, SessionsShrink
  <2> QED
    BY <2>3, <2>4
<1>3. CASE FlushStep
  <2>1. UNCHANGED <<home, tmux>>
    BY <1>3 DEF FlushStep, WriteTmp, WriteTmpFails, Replace, ReplaceFails, history
  <2>2. UNCHANGED <<pc, job>> \/ \E ok \in BOOLEAN : Unlock(ok)
    BY <1>3 DEF FlushStep, WriteTmp, WriteTmpFails, Replace, ReplaceFails
  <2>3. \A r \in Requests : pc'[r] \in NotYet => pc[r] \in NotYet /\ job'[r].id = job[r].id
    BY <1>1, <2>2 DEF Unlock, Reply, Goto, TypeOK, NotYet
  <2> QED
    BY <2>1, <2>3, SessionsShrink
<1>4. CASE Load \/ LoadStep
  BY <1>4, SessionsShrink DEF Load, LoadStep, ProbeTerminal, LoadDone, history
<1>5. CASE Stop
  BY <1>5, SessionsShrink DEF Stop, history, NotYet
<1>6. ASSUME NEW n \in Names, SessionExit(n) PROVE SessionInv'
  BY <1>1, <1>6, SessionsShrink DEF SessionExit, history, Killed, TypeOK
<1> QED
  BY <1>2, <1>3, <1>4, <1>5, <1>6

\* However requests race, fail and are cut short, a terminal has one record and
\* its session one name: what rename, delete and pruneDead do to the session of
\* a terminal leaves no second one behind.
THEOREM OneOfEachTerminal == Spec => []OneOfEach
<1>1. Init => SessionInv
  BY DEF Init, SessionInv, NotYet
<1>2. Inv /\ SessionInv /\ [Next]_vars => SessionInv'
  <2> SUFFICES ASSUME Inv, SessionInv, [Next]_vars PROVE SessionInv'
    OBVIOUS
  <2>1. CASE UNCHANGED vars
    BY <2>1 DEF vars, SessionInv
  <2> QED
    BY <2>1, StartSessions, TmuxSessions, OtherSessions DEF Next
<1>3. Inv /\ SessionInv => OneOfEach
  BY DEF Inv, StatesOK, StateAt, SessionInv, OneOfEach, Live
<1> QED
  BY <1>1, <1>2, <1>3, ServiceInv, PTL DEF Spec

-----------------------------------------------------------------------------
(* One request at a time: every session is named by a listed terminal *)

\* Every session in x has a name in X or that of a record of S.
Covered(x, S, X) == \A n \in Names : x[n] # Null => n \in X \/ \E t \in S : t.name = n

\* The record a handler works on.
RecordOf(j) == [ws |-> j.ws, id |-> j.id, name |-> j.name]

\* The name under which a handler at p has a session the store does not know.
Ahead(p, j) == CASE p \in {"add", "undo"} -> {j.name}
                 [] p = "renStore"        -> {j.to}
                 [] OTHER                 -> {}

\* What holds while a handler is at p with j, x being the sessions, s the store
\* and f the file: what it is about to take out of the store has no session.
ActiveAt(p, j, x, s, f) ==
    /\ Covered(x, s.terms, Ahead(p, j))
    /\ p # "flush" => Covered(x, f.terms, Ahead(p, j))
    /\ p \in {"kill", "remove", "renHas", "ren", "renStore"} => RecordOf(j) \in s.terms
    /\ p \in {"renHas", "ren", "renStore"} => j.name # j.to
    /\ p \in {"remove", "renStore"} => x[j.name] = Null
    /\ p = "killAll" => \A t \in TermsOf(s, j.ws) \ j.recs : x[t.name] = Null

\* At most one handler is busy.
OneBusy == \A q, r \in Requests : pc[q] # "idle" /\ pc[r] # "idle" => q = r

\* The inductive invariant of SequentialSpec, on top of Inv.
SeqInv ==
    /\ OneBusy
    /\ ~load.sig
    /\ \A r \in Requests : pc[r] # "idle" => ActiveAt(pc[r], job[r], tmux, mem, stored)
    /\ Quiet => Covered(tmux, stored.terms, {})
    /\ phase # "down" /\ Quiet => Covered(tmux, mem.terms, {})

\* The end of sessions keeps what is covered.
LEMMA CoveredShrinks ==
    ASSUME NEW x, NEW y, NEW S, NEW X, Covered(x, S, X), \A n \in Names : y[n] \in {x[n], Null}
    PROVE  Covered(y, S, X)
  BY DEF Covered

\* A killed name has no session, and no session is new.
LEMMA KilledGone ==
    ASSUME TypeOK, NEW n \in Names
    PROVE  Killed(n)[n] = Null /\ \A k \in Names : Killed(n)[k] \in {tmux[k], Null}
  BY DEF TypeOK, Killed, Found, Live

\* A fault shows in the budget.
LEMMA SpendShows ==
    ASSUME TypeOK, NEW k \in FaultKinds, Spend(k)
    PROVE  budget'[k] # budget[k]
<1>1. budget[k] \in Nat /\ budget'[k] = budget[k] - 1
  BY DEF TypeOK, Spend
<1> QED
  BY <1>1

\* So nothing but a shell's exit happens to a busy handler, and the other
\* handlers are idle.
LEMMA BusyIsSafe ==
    ASSUME Inv, SeqInv, Orderly, NEW r \in Requests, pc[r] # "idle"
    PROVE  /\ \A k \in {"crash", "flush", "cancel"} : ~Spend(k)
           /\ \A q \in Requests \ {r} : pc[q] = "idle"
           /\ ActiveAt(pc[r], job[r], tmux, mem, stored)
           /\ phase = "up"
  BY SpendShows DEF Inv, SeqInv, OneBusy, Orderly, Quiet, LockOK, TypeOK, FaultKinds

\* The facts of Inv that this rests on.
LEMMA SeqTypes ==
    ASSUME Inv
    PROVE  /\ mem.terms \in SUBSET Records /\ stored.terms \in SUBSET Records
           /\ \A t, u \in mem.terms : t.id = u.id => t = u
  BY DEF Inv, TypeOK, States, StatesOK, StateAt, stored, EmptyState, StateFileWhole

\* The only busy handler goes on to p with j.
LEMMA HandlerGoesOn ==
    ASSUME TypeOK, SeqInv, Orderly, NEW r \in Requests, \A q \in Requests \ {r} : pc[q] = "idle",
           NEW p, NEW j, p # "idle", UNCHANGED load,
           pc' = [pc EXCEPT ![r] = p], job' = [job EXCEPT ![r] = j],
           ActiveAt(p, j, tmux', mem', stored')
    PROVE  SeqInv'
<1>1. pc'[r] = p /\ job'[r] = j /\ \A q \in Requests \ {r} : pc'[q] = "idle"
  BY DEF TypeOK
<1>2. OneBusy'
  BY DEF OneBusy, Orderly
<1>3. ~Quiet'
  BY <1>1 DEF Quiet
<1>4. ~load'.sig
  BY DEF SeqInv
<1> QED
  BY <1>1, <1>2, <1>3, <1>4 DEF SeqInv

\* The only busy handler answers its request.
LEMMA HandlerReplies ==
    ASSUME TypeOK, SeqInv, Orderly, NEW r \in Requests, \A q \in Requests \ {r} : pc[q] = "idle",
           UNCHANGED load, Reply(r),
           Covered(tmux', mem'.terms, {}), Covered(tmux', stored'.terms, {})
    PROVE  SeqInv'
<1>1. \A q \in Requests : pc'[q] = "idle"
  BY DEF TypeOK, Reply, Goto
<1>2. ~load'.sig
  BY DEF SeqInv
<1> QED
  BY <1>1, <1>2 DEF SeqInv, OneBusy

\* A request that starts finds every handler idle.
LEMMA StartsQuiet ==
    ASSUME Inv, SeqInv, Orderly, NEW r \in Requests, pc[r] = "idle", phase = "up",
           NEW p, p # "idle", pc' = [pc EXCEPT ![r] = p]
    PROVE  /\ \A q \in Requests : pc[q] = "idle"
           /\ Covered(tmux, mem.terms, {}) /\ Covered(tmux, stored.terms, {})
<1>1. pc'[r] # "idle" /\ \A q \in Requests \ {r} : pc'[q] = pc[q]
  BY DEF Inv, TypeOK
<1>2. \A q \in Requests : pc[q] = "idle"
  BY <1>1 DEF Orderly
<1> QED
  BY <1>2 DEF SeqInv, Quiet

\* The start of a request leaves every session covered.
LEMMA StartCovers == ASSUME Inv, SeqInv, Orderly, NEW r \in Requests, Start(r) PROVE SeqInv'
<1>1. TypeOK
  BY DEF Inv
<1>2. ASSUME NEW p \in {"has", "taken", "kill", "renHas", "killAll", "flush"}, NEW j,
             phase = "up", pc[r] = "idle", UNCHANGED <<disk, tmux, load>>,
             pc' = [pc EXCEPT ![r] = p], job' = [job EXCEPT ![r] = j],
             mem'.terms = mem.terms,
             p \in {"kill", "renHas"} => RecordOf(j) \in mem.terms,
             p = "renHas" => j.name # j.to,
             p = "killAll" => j.recs = TermsOf(mem, j.ws)
      PROVE  SeqInv'
  <2>1. /\ \A q \in Requests : pc[q] = "idle"
        /\ Covered(tmux, mem.terms, {}) /\ Covered(tmux, stored.terms, {})
    BY <1>2, StartsQuiet
  <2>2. stored' = stored
    BY <1>2 DEF stored
  <2>3. p = "killAll" => TermsOf(mem', j.ws) \ j.recs = {}
    BY <1>2 DEF TermsOf
  <2>4. Ahead(p, j) = {}
    BY <1>2 DEF Ahead
  <2>5. ActiveAt(p, j, tmux', mem', stored')
    BY <1>2, <2>1, <2>2, <2>3, <2>4 DEF ActiveAt
  <2> QED
    BY <1>1, <1>2, <2>1, <2>5, HandlerGoesOn
<1>3. ASSUME NEW w \in Workspaces, CreateWorkspace(r, w) PROVE SeqInv'
  <2>1. mem'.terms = mem.terms
    BY <1>1, <1>3 DEF CreateWorkspace, Mutate, TypeOK, States
  <2> QED
    BY <1>2, <1>3, <2>1 DEF CreateWorkspace, Mutate, At, Goto
<1>4. ASSUME NEW b, Edit(r, b) PROVE SeqInv'
  <2>1. mem'.terms = mem.terms
    BY <1>1, <1>4 DEF Edit, Mutate, TypeOK, States
  <2> QED
    BY <1>2, <1>4, <2>1 DEF Edit, Mutate, At, Goto
<1>5. ASSUME NEW w \in Workspaces, DeleteWorkspace(r, w) PROVE SeqInv'
  <2> DEFINE j == NewJob("deleteWs", w, Null, Null, Null, TermsOf(mem, w))
  <2>1. j.recs = TermsOf(mem, j.ws)
    BY DEF NewJob
  <2> QED
    BY <1>2, <1>5, <2>1 DEF DeleteWorkspace, At, Goto
<1>6. ASSUME NEW w \in Workspaces, NEW t \in Terminals, NEW n, CreateTerminal(r, w, t, n)
      PROVE  SeqInv'
  BY <1>2, <1>6 DEF CreateTerminal, At, Goto
<1>7. ASSUME NEW t \in mem.terms, DeleteTerminal(r, t) PROVE SeqInv'
  <2> DEFINE j == NewJob("delete", t.ws, t.id, t.name, Null, {})
  <2>1. RecordOf(j) = t
    BY SeqTypes DEF NewJob, RecordOf, Records
  <2> QED
    BY <1>2, <1>7, <2>1 DEF DeleteTerminal, At, Goto
<1>8. ASSUME NEW t \in mem.terms, NEW n \in Names, RenameTerminal(r, t, n) PROVE SeqInv'
  <2> DEFINE j == NewJob("rename", t.ws, t.id, t.name, n, {})
  <2>1. RecordOf(j) = t /\ j.name = t.name /\ j.to = n
    BY SeqTypes DEF NewJob, RecordOf, Records
  <2> QED
    BY <1>2, <1>8, <2>1 DEF RenameTerminal, At, Goto
<1> QED
  BY <1>3, <1>4, <1>5, <1>6, <1>7, <1>8 DEF Start, SetLayout, RenameWorkspace

\* The tmux commands of handlers: no session is left behind but the one the
\* handler is about to enter into the store.
LEMMA TmuxCovers == ASSUME Inv, SeqInv, Orderly, NEW r \in Requests, TmuxStep(r) PROVE SeqInv'
<1> DEFINE j == job[r]
           p == pc[r]
<1>1. TypeOK /\ j \in Jobs /\ JobAt(p, j, home, drawn) /\ p # "idle"
  BY DEF Inv, TypeOK, JobsOK, TmuxStep, KillAll, CheckName, PickName, NewSession, UndoSession,
         KillSession, CheckNewName, RenameSession, At
<1>2. /\ UNCHANGED <<mem, disk, load>> /\ stored' = stored
      /\ ~Cancel(r)
      /\ \A q \in Requests \ {r} : pc[q] = "idle"
      /\ ActiveAt(p, j, tmux, mem, stored)
  BY <1>1, BusyIsSafe DEF TmuxStep, KillAll, CheckName, PickName, NewSession, UndoSession,
         KillSession, CheckNewName, RenameSession, stored, Cancel
<1>3. job' = [job EXCEPT ![r] = j] <=> UNCHANGED job
  BY <1>1 DEF TypeOK
<1> DEFINE Calm == {"has", "taken", "pick", "new", "renHas", "ren", "kill"}
<1>4. ASSUME p \in Calm, UNCHANGED tmux, Reply(r) PROVE SeqInv'
  <2>1. Ahead(p, j) = {} /\ p # "flush"
    BY <1>4 DEF Ahead
  <2>2. Covered(tmux, mem.terms, {}) /\ Covered(tmux, stored.terms, {})
    BY <1>2, <1>4, <2>1 DEF ActiveAt
  <2> QED
    BY <1>1, <1>2, <1>4, <2>2, HandlerReplies
<1>5. ASSUME NEW o \in {"pick", "new", "ren"}, NEW i, p \in Calm, UNCHANGED tmux,
             o = "ren" => p = "renHas" /\ i = j,
             pc' = [pc EXCEPT ![r] = o], job' = [job EXCEPT ![r] = i]
      PROVE  SeqInv'
  <2>1. Ahead(p, j) = {} /\ Ahead(o, i) = {} /\ p # "flush"
    BY <1>5 DEF Ahead
  <2>2. ActiveAt(o, i, tmux, mem, stored)
    BY <1>2, <1>5, <2>1 DEF ActiveAt
  <2> QED
    BY <1>1, <1>2, <1>5, <2>2, HandlerGoesOn
<1>6. CASE CheckName(r)
  <2>1. p = "has" /\ UNCHANGED tmux
    BY <1>6 DEF CheckName, At
  <2> QED
    BY <1>2, <1>3, <1>4, <1>5, <1>6, <2>1 DEF CheckName, Goto
<1>7. CASE CheckNewName(r)
  <2>1. p = "renHas" /\ UNCHANGED tmux
    BY <1>7 DEF CheckNewName, At
  <2> QED
    BY <1>2, <1>3, <1>4, <1>5, <1>7, <2>1 DEF CheckNewName, Goto
<1>8. CASE PickName(r)
  <2>1. p = "pick" /\ UNCHANGED tmux
    BY <1>8 DEF PickName, At
  <2>2. CASE \E i \in Nat : job' = [job EXCEPT ![r].next = i + 1] /\ UNCHANGED pc
    <3>1. PICK i \in Nat : job' = [job EXCEPT ![r].next = i + 1] /\ UNCHANGED pc
      BY <2>2
    <3> DEFINE k == [j EXCEPT !.next = i + 1]
    <3>2. job' = [job EXCEPT ![r] = k] /\ pc' = [pc EXCEPT ![r] = "pick"]
      BY <1>1, <2>1, <3>1 DEF TypeOK
    <3>3. p \in Calm /\ UNCHANGED tmux
      BY <2>1
    <3> HIDE DEF k, p, Calm
    <3> QED
      BY <1>5, <3>2, <3>3
  <2>3. CASE \E n : job' = [job EXCEPT ![r].name = n, ![r].recs = {}] /\ Goto(r, "new")
    <3>1. PICK n : job' = [job EXCEPT ![r].name = n, ![r].recs = {}] /\ Goto(r, "new")
      BY <2>3
    <3> DEFINE k == [j EXCEPT !.name = n, !.recs = {}]
    <3>2. job' = [job EXCEPT ![r] = k] /\ pc' = [pc EXCEPT ![r] = "new"]
      BY <1>1, <3>1 DEF TypeOK, Jobs, Goto
    <3>3. p \in Calm /\ UNCHANGED tmux
      BY <2>1
    <3> HIDE DEF k, p, Calm
    <3> QED
      BY <1>5, <3>2, <3>3
  <2>4. \A i \in j.next .. Len(DefaultNames) : i \in Nat
    BY <1>1, NameAssumption DEF Jobs
  <2> QED
    BY <1>2, <1>4, <1>8, <2>1, <2>2, <2>3, <2>4 DEF PickName
<1>9. CASE NewSession(r)
  <2>1. p = "new" /\ Ahead(p, j) = {}
    BY <1>9 DEF NewSession, At, Ahead
  <2>2. CASE UNCHANGED tmux /\ Reply(r)
    BY <1>4, <2>1, <2>2
  <2>3. CASE tmux' = [tmux EXCEPT ![j.name] = j.id] /\ Goto(r, "add") /\ UNCHANGED job
    <3>1. Covered(tmux, mem.terms, {}) /\ Covered(tmux, stored.terms, {}) /\ Ahead("add", j) = {j.name}
      BY <1>2, <2>1 DEF ActiveAt, Ahead
    <3>2. Covered(tmux', mem.terms, {j.name}) /\ Covered(tmux', stored.terms, {j.name})
      BY <1>1, <2>3, <3>1 DEF Covered, TypeOK
    <3>3. ActiveAt("add", j, tmux', mem, stored)
      BY <3>1, <3>2 DEF ActiveAt
    <3> QED
      BY <1>1, <1>2, <1>3, <2>3, <3>3, HandlerGoesOn DEF Goto
  <2> QED
    BY <1>2, <1>9, <2>2, <2>3 DEF NewSession
<1>10. CASE UndoSession(r)
  <2>1. p = "undo" /\ Ahead(p, j) = {j.name} /\ tmux' = Killed(j.name) /\ Reply(r) /\ j.name \in Names
    BY <1>1, <1>2, <1>10 DEF UndoSession, At, Ahead, JobAt
  <2>2. tmux'[j.name] = Null /\ \A k \in Names : tmux'[k] \in {tmux[k], Null}
    BY <1>1, <2>1, KilledGone
  <2>3. Covered(tmux, mem.terms, {j.name}) /\ Covered(tmux, stored.terms, {j.name})
    BY <1>2, <2>1 DEF ActiveAt
  <2>4. Covered(tmux', mem.terms, {}) /\ Covered(tmux', stored.terms, {})
    BY <2>2, <2>3 DEF Covered
  <2> QED
    BY <1>1, <1>2, <2>1, <2>4, HandlerReplies
<1>11. CASE KillSession(r)
  <2>1. /\ p = "kill" /\ Ahead(p, j) = {} /\ Ahead("remove", j) = {} /\ tmux' = Killed(j.name)
        /\ Goto(r, "remove") /\ UNCHANGED job /\ j.name \in Names
    BY <1>1, <1>2, <1>11 DEF KillSession, At, Ahead, JobAt
  <2>2. tmux'[j.name] = Null /\ \A k \in Names : tmux'[k] \in {tmux[k], Null}
    BY <1>1, <2>1, KilledGone
  <2>3. Covered(tmux', mem.terms, {}) /\ Covered(tmux', stored.terms, {})
    BY <1>2, <2>1, <2>2, CoveredShrinks DEF ActiveAt
  <2>4. ActiveAt("remove", j, tmux', mem, stored)
    BY <1>2, <2>1, <2>2, <2>3 DEF ActiveAt
  <2> QED
    BY <1>1, <1>2, <1>3, <2>1, <2>4, HandlerGoesOn DEF Goto
<1>12. CASE RenameSession(r)
  <2>1. p = "ren" /\ Ahead(p, j) = {}
    BY <1>12 DEF RenameSession, At, Ahead
  <2>2. CASE UNCHANGED tmux /\ Reply(r)
    BY <1>4, <2>1, <2>2
  <2>3. CASE /\ CanRename(j.name, j.to) /\ tmux' = Renamed(j.name, j.to)
             /\ Goto(r, "renStore") /\ UNCHANGED job
    <3>1. j.name \in Names /\ j.to \in Names /\ j.name # j.to
      BY <1>1, <1>2, <2>1 DEF JobAt, ActiveAt
    <3>2. PICK f \in Names : Moves(j.name, j.to, f)
      BY <1>1, <2>3, <3>1, RenamedMoves DEF CanRename
    <3>3. tmux'[j.name] = Null /\ \A k \in Names \ {j.to} : tmux'[k] \in {tmux[k], Null}
      BY <2>3, <3>1, <3>2 DEF Moves, Live
    <3>4. Covered(tmux, mem.terms, {}) /\ Covered(tmux, stored.terms, {}) /\ Ahead("renStore", j) = {j.to}
      BY <1>2, <2>1 DEF ActiveAt, Ahead
    <3>5. Covered(tmux', mem.terms, {j.to}) /\ Covered(tmux', stored.terms, {j.to})
      BY <3>3, <3>4 DEF Covered
    <3>6. ActiveAt("renStore", j, tmux', mem, stored)
      BY <1>2, <2>1, <3>1, <3>3, <3>4, <3>5 DEF ActiveAt
    <3> QED
      BY <1>1, <1>2, <1>3, <2>3, <3>6, HandlerGoesOn DEF Goto
  <2> QED
    BY <1>2, <1>12, <2>2, <2>3 DEF RenameSession
<1>13. CASE KillAll(r)
  <2>1. PICK t \in j.recs : tmux' = Killed(t.name) /\ job' = [job EXCEPT ![r].recs = @ \ {t}]
    BY <1>2, <1>13 DEF KillAll
  <2> DEFINE k == [j EXCEPT !.recs = @ \ {t}]
  <2>2. p = "killAll" /\ UNCHANGED pc /\ Ahead(p, j) = {} /\ Ahead(p, k) = {}
    BY <1>13 DEF KillAll, At, Ahead
  <2>3. /\ job' = [job EXCEPT ![r] = k] /\ pc' = [pc EXCEPT ![r] = "killAll"]
        /\ k.ws = j.ws /\ k.recs = j.recs \ {t} /\ t.name \in Names
    BY <1>1, <2>1, <2>2 DEF TypeOK, Jobs, Records
  <2> HIDE DEF k
  <2>4. tmux'[t.name] = Null /\ \A i \in Names : tmux'[i] \in {tmux[i], Null}
    BY <1>1, <2>1, <2>3, KilledGone
  <2>5. Covered(tmux', mem.terms, {}) /\ Covered(tmux', stored.terms, {})
    BY <1>2, <2>2, <2>4, CoveredShrinks DEF ActiveAt
  <2>6. \A u \in TermsOf(mem, k.ws) \ k.recs : u.name \in Names /\ tmux'[u.name] = Null
    BY <1>2, <2>2, <2>3, <2>4, SeqTypes DEF ActiveAt, TermsOf, Records
  <2>7. ActiveAt("killAll", k, tmux', mem, stored)
    BY <2>2, <2>5, <2>6 DEF ActiveAt
  <2> QED
    BY <1>1, <1>2, <2>3, <2>7, HandlerGoesOn
<1> QED
  BY <1>6, <1>7, <1>8, <1>9, <1>10, <1>11, <1>12, <1>13 DEF TmuxStep

\* The store calls of handlers: what leaves the store has no session.
LEMMA LockCovers == ASSUME Inv, SeqInv, Orderly, NEW r \in Requests, LockStep(r) PROVE SeqInv'
<1> DEFINE j == job[r]
           p == pc[r]
           mine == {t \in mem.terms : t.ws = j.ws /\ t.id = j.id}
<1>1. /\ TypeOK /\ j \in Jobs /\ JobAt(p, j, home, drawn) /\ p # "idle"
      /\ UNCHANGED <<disk, tmux, load>> /\ stored' = stored
  BY DEF Inv, TypeOK, JobsOK, LockStep, DropWorkspace, CopyTaken, AddTerminal, RemoveTerminal,
         RenameRecord, At, stored
<1>2. /\ \A q \in Requests \ {r} : pc[q] = "idle"
      /\ ActiveAt(p, j, tmux, mem, stored)
  BY <1>1, BusyIsSafe
<1>3. job' = [job EXCEPT ![r] = j] <=> UNCHANGED job
  BY <1>1 DEF TypeOK
<1>4. ASSUME NEW s, Mutate(r, s), UNCHANGED job, Covered(tmux, s.terms, {})
      PROVE  SeqInv'
  <2>1. Ahead("flush", j) = {}
    BY DEF Ahead
  <2>2. ActiveAt("flush", j, tmux', mem', stored')
    BY <1>1, <1>4, <2>1 DEF ActiveAt, Mutate
  <2> QED
    BY <1>1, <1>2, <1>3, <1>4, <2>2, HandlerGoesOn DEF Mutate, Goto
<1>5. ASSUME RecordOf(j) \in mem.terms PROVE mine = {RecordOf(j)} /\ RecordOf(j).name = j.name
  <2>1. RecordOf(j).ws = j.ws /\ RecordOf(j).id = j.id /\ RecordOf(j).name = j.name
    BY DEF RecordOf
  <2> QED
    BY <1>5, <2>1, SeqTypes
<1>6. CASE DropWorkspace(r)
  <2>1. /\ p = "killAll" /\ j.recs = {} /\ Covered(tmux, mem.terms, {}) /\ Covered(tmux, stored.terms, {})
        /\ \A t \in TermsOf(mem, j.ws) : tmux[t.name] = Null
    BY <1>2, <1>6 DEF DropWorkspace, At, ActiveAt, Ahead
  <2> DEFINE s == [mem EXCEPT !.wss = @ \ {j.ws}, !.terms = @ \ TermsOf(mem, j.ws)]
  <2>2. s.terms = mem.terms \ TermsOf(mem, j.ws)
    BY <1>1 DEF TypeOK, States
  <2>3. CASE Mutate(r, s) /\ UNCHANGED job
    <3> HIDE DEF s
    <3>1. Covered(tmux, s.terms, {})
      BY <2>1, <2>2 DEF Covered
    <3> QED
      BY <1>4, <2>3, <3>1
  <2>4. CASE Reply(r) /\ mem' = mem
    BY <1>1, <1>2, <2>1, <2>4, HandlerReplies
  <2> QED
    BY <1>6, <2>3, <2>4 DEF DropWorkspace
<1>7. CASE CopyTaken(r)
  <2> DEFINE k == [j EXCEPT !.recs = mem.terms]
  <2>1. p = "taken" /\ mem' = mem /\ Goto(r, "pick") /\ job' = [job EXCEPT ![r] = k]
    BY <1>1, <1>7 DEF CopyTaken, At, TypeOK
  <2> HIDE DEF k
  <2>2. ActiveAt("pick", k, tmux', mem', stored')
    BY <1>1, <1>2, <2>1 DEF ActiveAt, Ahead
  <2> QED
    BY <1>1, <1>2, <2>1, <2>2, HandlerGoesOn DEF Goto
<1>8. CASE AddTerminal(r)
  <2>1. p = "add" /\ Ahead(p, j) = {j.name} /\ Ahead("undo", j) = {j.name}
    BY <1>8 DEF AddTerminal, At, Ahead
  <2>2. Covered(tmux, mem.terms, {j.name}) /\ Covered(tmux, stored.terms, {j.name})
    BY <1>2, <2>1 DEF ActiveAt
  <2> DEFINE s == [mem EXCEPT !.terms = @ \cup {RecordOf(j)}]
  <2>3. s.terms = mem.terms \cup {RecordOf(j)} /\ RecordOf(j).name = j.name
    BY <1>1 DEF TypeOK, States, RecordOf
  <2>4. CASE Mutate(r, s) /\ UNCHANGED job
    <3> HIDE DEF s
    <3>1. Covered(tmux, s.terms, {})
      BY <2>2, <2>3 DEF Covered
    <3> QED
      BY <1>4, <2>4, <3>1
  <2>5. CASE Goto(r, "undo") /\ UNCHANGED <<mem, job>>
    <3>1. ActiveAt("undo", j, tmux', mem', stored')
      BY <1>1, <2>1, <2>2, <2>5 DEF ActiveAt
    <3> QED
      BY <1>1, <1>2, <1>3, <2>5, <3>1, HandlerGoesOn DEF Goto
  <2> QED
    BY <1>8, <2>4, <2>5 DEF AddTerminal, RecordOf
<1>9. CASE RemoveTerminal(r)
  <2>1. /\ p = "remove" /\ RecordOf(j) \in mem.terms /\ tmux[j.name] = Null
        /\ Covered(tmux, mem.terms, {})
    BY <1>2, <1>9 DEF RemoveTerminal, At, ActiveAt, Ahead
  <2> DEFINE s == [mem EXCEPT !.terms = @ \ mine]
  <2>2. s.terms = mem.terms \ {RecordOf(j)}
    BY <1>1, <1>5, <2>1 DEF TypeOK, States
  <2>3. Mutate(r, s) /\ UNCHANGED job
    BY <1>5, <1>9, <2>1 DEF RemoveTerminal
  <2> HIDE DEF s
  <2>4. Covered(tmux, s.terms, {})
    BY <1>5, <2>1, <2>2 DEF Covered
  <2> QED
    BY <1>4, <2>3, <2>4
<1>10. CASE RenameRecord(r)
  <2>1. /\ p = "renStore" /\ RecordOf(j) \in mem.terms /\ tmux[j.name] = Null
        /\ Covered(tmux, mem.terms, {j.to})
    BY <1>2, <1>10 DEF RenameRecord, At, ActiveAt, Ahead
  <2> DEFINE new == {[t EXCEPT !.name = j.to] : t \in mine}
             s == [mem EXCEPT !.terms = (@ \ mine) \cup new]
             u == [RecordOf(j) EXCEPT !.name = j.to]
  <2>2. u.name = j.to
    BY DEF RecordOf
  <2>3. new = {u}
    BY <1>5, <2>1
  <2>4. s.terms = (mem.terms \ {RecordOf(j)}) \cup {u}
    BY <1>1, <1>5, <2>1, <2>3 DEF TypeOK, States
  <2>5. Mutate(r, s) /\ UNCHANGED job
    BY <1>5, <1>10, <2>1 DEF RenameRecord
  <2> HIDE DEF s, u
  <2>6. Covered(tmux, s.terms, {})
    BY <1>5, <2>1, <2>2, <2>4 DEF Covered
  <2> QED
    BY <1>4, <2>5, <2>6
<1> QED
  BY <1>6, <1>7, <1>8, <1>9, <1>10 DEF LockStep

\* flushLocked: a handler's flush succeeds, because nothing fails while it is
\* busy, and the loader's changes no session whichever way it ends.
LEMMA FlushCovers == ASSUME Inv, SeqInv, Orderly, FlushStep PROVE SeqInv'
<1>1. TypeOK
  BY DEF Inv
<1>2. CASE WriteTmp
  BY <1>2 DEF WriteTmp, SeqInv, OneBusy, Quiet, stored
<1>3. ASSUME NEW ok \in BOOLEAN, FlushEnds(ok), ~ok => Spend("flush")
      PROVE  SeqInv'
  <2>1. mu = Loader \/ mu \in Requests
    BY <1>3 DEF FlushEnds, Inv, LockOK, TypeOK
  <2>2. CASE mu = Loader
    <3>1. phase = "loading" /\ \A q \in Requests : pc[q] = "idle"
      BY <2>2 DEF Inv, LockOK
    <3>2. Covered(tmux, mem.terms, {}) /\ Covered(tmux, stored.terms, {}) /\ ~load.sig
      BY <3>1 DEF SeqInv, Quiet
    <3>3. phase' = "up" /\ mem' = mem /\ UNCHANGED <<pc, tmux>> /\ disk' \in {mem, disk} /\ load' = NoLoad
      BY <1>3, <2>2, <3>2 DEF FlushEnds, Unlock
    <3>4. stored' \in {mem, stored} /\ ~load'.sig
      BY <1>1, <3>3, FileAssumption DEF stored, TypeOK, NoLoad
    <3> QED
      BY <3>1, <3>2, <3>3, <3>4 DEF SeqInv, OneBusy
  <2>3. CASE mu \in Requests
    <3>1. pc[mu] = "flush" /\ Ahead("flush", job[mu]) = {}
      BY <2>3 DEF Inv, LockOK, Ahead
    <3>2. /\ ~Spend("flush")
          /\ \A q \in Requests \ {mu} : pc[q] = "idle"
          /\ ActiveAt("flush", job[mu], tmux, mem, stored)
      BY <2>3, <3>1, BusyIsSafe
    <3>3. ok /\ Reply(mu) /\ UNCHANGED <<mem, tmux, load>> /\ disk' = mem
      BY <1>3, <2>3, <3>2, NullAssumption DEF FlushEnds, Unlock
    <3>4. Covered(tmux, mem.terms, {})
      BY <3>1, <3>2 DEF ActiveAt
    <3>5. stored' = mem
      BY <1>1, <3>3, FileAssumption DEF stored, TypeOK
    <3> QED
      BY <1>1, <2>3, <3>2, <3>3, <3>4, <3>5, HandlerReplies
  <2> QED
    BY <2>1, <2>2, <2>3
<1>4. CASE WriteTmpFails
  <2>1. FlushEnds(FALSE) /\ Spend("flush")
    BY <1>1, <1>4, SpendType DEF WriteTmpFails, FlushEnds, TypeOK, FaultKinds
  <2> QED
    BY <1>3, <2>1
<1>5. CASE Replace
  <2>1. FlushEnds(TRUE)
    BY <1>5 DEF Replace, FlushEnds, Inv, TypeOK, LockOK
  <2> QED
    BY <1>3, <2>1
<1>6. CASE ReplaceFails
  <2>1. FlushEnds(FALSE) /\ Spend("flush")
    BY <1>1, <1>6, SpendType DEF ReplaceFails, FlushEnds, TypeOK, FaultKinds
  <2> QED
    BY <1>3, <2>1
<1> QED
  BY <1>2, <1>4, <1>5, <1>6 DEF FlushStep

\* store.Load starts from a file that covers the sessions.
LEMMA LoadCovers == ASSUME Inv, SeqInv, Load PROVE SeqInv'
<1>1. /\ UNCHANGED <<pc, tmux, disk>> /\ stored' = stored /\ mem' = stored /\ ~load'.sig
      /\ \A q \in Requests : pc[q] = "idle"
  BY DEF Load, Inv, LockOK, stored, NoLoad
<1> QED
  BY <1>1 DEF SeqInv, OneBusy, Quiet

\* pruneDead takes out a record only when its name finds no session, its own
\* least of all.
LEMMA ProbeCovers == ASSUME Inv, SeqInv, Orderly, NEW t \in load.todo, ProbeTerminal(t) PROVE SeqInv'
<1>1. /\ UNCHANGED <<phase, pc, tmux, disk>> /\ stored' = stored
      /\ \A q \in Requests : pc[q] = "idle"
      /\ Covered(tmux, mem.terms, {}) /\ Covered(tmux, stored.terms, {}) /\ ~load.sig
  BY DEF ProbeTerminal, Inv, LockOK, stored, SeqInv, Quiet
<1>2. ~Spend("cancel")
  BY SpendShows DEF Inv, Orderly, FaultKinds
<1>3. CASE Keep(t)
  <2>1. mem' = mem /\ ~load'.sig
    BY <1>1, <1>3 DEF Keep, Inv, TypeOK, Loads
  <2> QED
    BY <1>1, <2>1 DEF SeqInv, OneBusy
<1>4. CASE ~Has(t.name) /\ Prune(t, FALSE)
  <2>1. mem'.terms = mem.terms \ {t} /\ ~load'.sig
    BY <1>4 DEF Prune, Inv, TypeOK, States
  <2>2. tmux[t.name] = Null
    BY <1>4 DEF Has, Found, Live
  <2>3. Covered(tmux, mem'.terms, {})
    BY <1>1, <2>1, <2>2 DEF Covered
  <2> QED
    BY <1>1, <2>1, <2>3 DEF SeqInv, OneBusy
<1> QED
  BY <1>1, <1>2, <1>3, <1>4 DEF ProbeTerminal

\* When pruneDead is through, memory still covers the sessions.
LEMMA LoadDoneCovers == ASSUME Inv, SeqInv, LoadDone PROVE SeqInv'
<1>1. /\ phase = "loading" /\ UNCHANGED <<mem, pc, tmux, disk>> /\ stored' = stored
      /\ \A q \in Requests : pc[q] = "idle"
      /\ load' \in {load, NoLoad}
  BY DEF LoadDone, Inv, LockOK, stored
<1> QED
  BY <1>1 DEF SeqInv, OneBusy, Quiet, NoLoad

\* The process stops between requests: the file covers the sessions.
LEMMA StopCovers == ASSUME Inv, SeqInv, Orderly, Stop PROVE SeqInv'
<1>1. /\ phase' = "down" /\ pc' = [r \in Requests |-> "idle"] /\ UNCHANGED <<tmux, disk>>
      /\ stored' = stored /\ load' = NoLoad
  BY DEF Stop, stored
<1>2. Quiet
  BY SpendShows DEF Inv, Orderly, Stop, FaultKinds
<1> QED
  BY <1>1, <1>2 DEF SeqInv, OneBusy, NoLoad

\* A shell exits, whatever else is under way.
LEMMA ExitCovers == ASSUME Inv, SeqInv, NEW n \in Names, SessionExit(n) PROVE SeqInv'
<1>1. /\ UNCHANGED <<phase, mem, pc, job, load, disk>> /\ stored' = stored
      /\ \A k \in Names : tmux'[k] \in {tmux[k], Null}
  BY DEF SessionExit, stored, Inv, TypeOK
<1>2. ASSUME NEW r \in Requests, pc[r] # "idle" PROVE ActiveAt(pc[r], job[r], tmux', mem, stored)
  <2>1. ActiveAt(pc[r], job[r], tmux, mem, stored)
    BY <1>2 DEF SeqInv
  <2>2. \A k \in Names : tmux[k] = Null => tmux'[k] = Null
    BY <1>1
  <2>3. /\ \A t \in TermsOf(mem, job[r].ws) : t.name \in Names
        /\ pc[r] \in {"remove", "renStore"} => job[r].name \in Names
    BY SeqTypes DEF Inv, JobsOK, JobAt, TermsOf, Records
  <2> QED
    BY <1>1, <2>1, <2>2, <2>3, CoveredShrinks DEF ActiveAt
<1>3. /\ Quiet => Covered(tmux', stored.terms, {})
      /\ phase # "down" /\ Quiet => Covered(tmux', mem.terms, {})
  BY <1>1, CoveredShrinks DEF SeqInv
<1> QED
  BY <1>1, <1>2, <1>3 DEF SeqInv, OneBusy, Quiet

\* The service starts with no session.
LEMMA InitCovers == Init => SeqInv
  BY DEF Init, SeqInv, OneBusy, Covered, NoLoad

\* No step of an orderly run leaves a session uncovered.
LEMMA NextCovers == Inv /\ SeqInv /\ [Next /\ Orderly]_vars => SeqInv'
<1> SUFFICES ASSUME Inv, SeqInv, [Next /\ Orderly]_vars PROVE SeqInv'
  OBVIOUS
<1>1. CASE UNCHANGED vars
  BY <1>1 DEF vars, SeqInv, OneBusy, Quiet, stored
<1>2. CASE LoadStep /\ Orderly
  BY <1>2, ProbeCovers, LoadDoneCovers DEF LoadStep
<1> QED
  BY <1>1, <1>2, StartCovers, LockCovers, TmuxCovers, FlushCovers, LoadCovers,
     StopCovers, ExitCovers DEF Next

\* The orphans that handleDeleteWorkspace and handleCreateTerminal can leave
\* behind need a second request, a cancelled one, a failed flush or a crash in
\* a handler. Without these no session is lost, whenever shells exit and
\* although tmux then takes the name of a dead terminal for another session:
\* what a delete kills or a rename moves is still what a record names.
THEOREM OrphansNeedARace == SequentialSpec => []NoOrphanSession
<1>1. [Next /\ Orderly]_vars => [Next]_vars
  OBVIOUS
<1>2. Inv /\ SeqInv => NoOrphanSession
  BY DEF SeqInv, Covered, NoOrphanSession, Live
<1> QED
  BY <1>1, <1>2, InitInv, NextInv, InitCovers, NextCovers, PTL DEF SequentialSpec
=============================================================================
