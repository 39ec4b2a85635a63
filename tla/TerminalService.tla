--------------------------- MODULE TerminalService ---------------------------
(***************************************************************************)
(* The core of the backend: the HTTP handlers of internal/api that create, *)
(* delete and rename workspaces and terminals, the mutex-guarded store of  *)
(* internal/store with its state.json, and the tmux server the sessions    *)
(* live in.                                                                *)
(*                                                                         *)
(* Every handler runs in its own goroutine and is split where another      *)
(* goroutine, the tmux server or a crash can come in between: at every     *)
(* store call (one critical section of Store.mu) and at every tmux         *)
(* command. A flush happens inside the critical section, in two steps      *)
(* (write the temporary file, rename it), because the process may stop     *)
(* between them.                                                           *)
(*                                                                         *)
(* A session is identified by the terminal it was created for: tmux[n]     *)
(* says whose shell answers to the name n, whatever state.json believes.   *)
(* Requests refused on their first read (400, 404, a rename to the same    *)
(* name) change nothing and are left out; reads (list, attach-cmd) too.    *)
(***************************************************************************)
EXTENDS Naturals, Sequences, FiniteSets

CONSTANTS
    Requests,      \* handler goroutines that may be active at the same time
    Workspaces,    \* the ids newID("ws-") may draw
    Terminals,     \* the ids newID("tm-") may draw
    Names,         \* sanitized tmux session names
    Longer,        \* for each name, the other names that start with it
    DefaultNames,  \* the candidates "<folder>-1", "<folder>-2", ... in order
    Blobs,         \* values of the layout blob and of the display names
    Budget,        \* how many faults of each kind a behaviour may contain
    Loader,        \* the goroutine that runs store.Load
    NoFile,        \* there is no such file
    Torn,          \* what os.WriteFile leaves when it is cut short
    Null           \* no id, no name, no blob, nobody

FaultKinds == {"crash", "flush", "cancel", "exit"}

Ids == Workspaces \cup Terminals

ASSUME NullAssumption ==
    /\ Null \notin Requests \cup Ids \cup Names \cup Blobs
    /\ Loader \notin Requests \cup {Null}
ASSUME IdAssumption == Workspaces \cap Terminals = {}
ASSUME NameAssumption == DefaultNames \in Seq(Names)
ASSUME LongerAssumption ==
    /\ Longer \in [Names -> SUBSET Names]
    /\ \A n \in Names : n \notin Longer[n]
ASSUME BudgetAssumption == Budget \in [FaultKinds -> Nat]

VARIABLES
    phase,    \* the server process: "down", "loading" (store.Load) or "up"
    mem,      \* Store.data
    mu,       \* who holds Store.mu for writing, or Null
    flush,    \* how far that holder is in flushLocked
    disk,     \* state.json
    tmp,      \* state.json.tmp
    tmux,     \* session name -> the terminal its session was created for
    pc,       \* where each handler is
    job,      \* the local variables of each handler
    load,     \* the local variables of pruneDead
    acked,    \* history: ids whose creation (201) or deletion (204) was answered
    dropped,  \* history: ids taken out of Store.data
    drawn,    \* history: the workspace ids drawn so far
    home,     \* history: the workspace each terminal id was drawn for
    budget    \* the faults that may still happen

history == <<acked, dropped, drawn, home>>
vars == <<phase, mem, mu, flush, disk, tmp, tmux, pc, job, load,
          acked, dropped, drawn, home, budget>>

-----------------------------------------------------------------------------
(* Types *)

Records == [ws: Workspaces, id: Terminals, name: Names]
States == [wss: SUBSET Workspaces, terms: SUBSET Records, blob: Blobs \cup {Null}]
EmptyState == [wss |-> {}, terms |-> {}, blob |-> Null]

ASSUME FileAssumption == NoFile \notin States /\ Torn \notin States \cup {NoFile}

Operations == {"none", "createWs", "deleteWs", "edit", "create", "delete", "rename"}
Points == {"idle", "has", "taken", "pick", "new", "add", "undo", "kill", "remove",
           "renHas", "ren", "renStore", "killAll", "flush"}

\* recs is the copy of store records the handler took, next the index of the
\* next default name, cut says that the request's context is cancelled.
Jobs == [op: Operations, ws: Workspaces \cup {Null}, id: Terminals \cup {Null},
         name: Names \cup {Null}, to: Names \cup {Null},
         recs: SUBSET Records, next: Nat \ {0}, cut: BOOLEAN]

NewJob(op, w, t, n, m, rs) ==
    [op |-> op, ws |-> w, id |-> t, name |-> n, to |-> m,
     recs |-> rs, next |-> 1, cut |-> FALSE]
NoJob == NewJob("none", Null, Null, Null, Null, {})

Loads == [todo: SUBSET Records, changed: BOOLEAN, sig: BOOLEAN]
NoLoad == [todo |-> {}, changed |-> FALSE, sig |-> FALSE]

TypeOK ==
    /\ phase \in {"down", "loading", "up"}
    /\ mem \in States
    /\ mu \in Requests \cup {Loader, Null}
    /\ flush \in {"none", "write", "replace"}
    /\ disk \in States \cup {NoFile, Torn}
    /\ tmp \in States \cup {NoFile, Torn}
    /\ tmux \in [Names -> Terminals \cup {Null}]
    /\ pc \in [Requests -> Points]
    /\ job \in [Requests -> Jobs]
    /\ load \in Loads
    /\ acked \in [created: SUBSET Ids, deleted: SUBSET Ids]
    /\ dropped \in SUBSET Ids
    /\ drawn \in SUBSET Workspaces
    /\ home \in [Terminals -> Workspaces \cup {Null}]
    /\ budget \in [FaultKinds -> Nat]

Init ==
    /\ phase = "down"
    /\ mem = EmptyState
    /\ mu = Null
    /\ flush = "none"
    /\ disk = NoFile
    /\ tmp = NoFile
    /\ tmux = [n \in Names |-> Null]
    /\ pc = [r \in Requests |-> "idle"]
    /\ job = [r \in Requests |-> NoJob]
    /\ load = NoLoad
    /\ acked = [created |-> {}, deleted |-> {}]
    /\ dropped = {}
    /\ drawn = {}
    /\ home = [t \in Terminals |-> Null]
    /\ budget = Budget

-----------------------------------------------------------------------------
(* Helpers *)

\* The ids a store state speaks of.
IdsOf(s) == s.wss \cup {t.id : t \in s.terms}

TermsOf(s, w) == {t \in s.terms : t.ws = w}

Live(n) == tmux[n] # Null

\* The session "tmux -t n" means: the one of that name or else, if there is
\* exactly one, the one whose name starts with n.
Found(n) ==
    IF Live(n) THEN {n}
    ELSE {m \in Longer[n] : Live(m) /\ \A k \in Longer[n] : Live(k) => k = m}

\* tmux.HasSession
Has(n) == Found(n) # {}

At(r, p) == phase = "up" /\ pc[r] = p

\* Store.mu is not held for writing: RLock and Lock can be taken.
Unlocked == mu = Null

Goto(r, p) == pc' = [pc EXCEPT ![r] = p]

\* The handler writes its response and returns.
Reply(r) == /\ Goto(r, "idle")
            /\ job' = [job EXCEPT ![r] = NoJob]

\* Variant: the data is changed without waiting for Store.mu.
MutateUnlocked(r, s) == /\ mem' = s
                        /\ mu' = r
                        /\ flush' = "write"
                        /\ Goto(r, "flush")

\* A mutator of Store: change the data under the lock and enter flushLocked.
Mutate(r, s) == /\ Unlocked
                /\ mem' = s
                /\ mu' = r
                /\ flush' = "write"
                /\ Goto(r, "flush")

Spend(kind) == /\ budget[kind] > 0
               /\ budget' = [budget EXCEPT ![kind] = @ - 1]

\* The client goes away while the handler waits for a tmux command: the
\* command is killed, before or after it reached the tmux server.
Cancel(r) == ~job[r].cut /\ Spend("cancel")
CutJob(r) == [job EXCEPT ![r].cut = TRUE]

\* What kill-session and rename-session leave, on the session found. Renaming
\* needs a new name that no other session has.
Killed(n) == [k \in Names |-> IF k \in Found(n) THEN Null ELSE tmux[k]]
CanRename(n, m) == Has(n) /\ (Live(m) => Found(n) = {m})
Renamed(n, m) ==
    [k \in Names |-> IF k = m THEN tmux[CHOOSE f \in Names : f \in Found(n)]
                     ELSE IF k \in Found(n) THEN Null ELSE tmux[k]]

-----------------------------------------------------------------------------
(* Workspaces, layout and display names (api/workspace.go, api/layout.go) *)

CreateWorkspace(r, w) ==
    /\ At(r, "idle")
    /\ w \notin drawn
    /\ Mutate(r, [mem EXCEPT !.wss = @ \cup {w}])
    /\ job' = [job EXCEPT ![r] = NewJob("createWs", w, Null, Null, Null, {})]
    /\ drawn' = drawn \cup {w}
    /\ UNCHANGED <<phase, disk, tmp, tmux, load, acked, dropped, home, budget>>

\* The layout and the display names are values no other step reads; blob
\* stands for all of them.
Edit(r, b) ==
    /\ At(r, "idle")
    /\ Mutate(r, [mem EXCEPT !.blob = b])
    /\ job' = [job EXCEPT ![r] = NewJob("edit", Null, Null, Null, Null, {})]
    /\ UNCHANGED <<phase, disk, tmp, tmux, load, history, budget>>

SetLayout(r, b) == Edit(r, b)

RenameWorkspace(r, w, b) == w \in mem.wss /\ Edit(r, b)

\* handleDeleteWorkspace: GetWorkspace copies the terminals ...
DeleteWorkspace(r, w) ==
    /\ At(r, "idle")
    /\ Unlocked
    /\ w \in mem.wss
    /\ job' = [job EXCEPT ![r] = NewJob("deleteWs", w, Null, Null, Null, TermsOf(mem, w))]
    /\ Goto(r, "killAll")
    /\ UNCHANGED <<phase, mem, mu, flush, disk, tmp, tmux, load, history, budget>>

\* Variant: the loop over the copy does not advance.
KillAllStuck(r) ==
    /\ At(r, "killAll")
    /\ \E t \in job[r].recs : tmux' = Killed(t.name)
    /\ UNCHANGED <<phase, mem, mu, flush, disk, tmp, pc, job, load, history, budget>>

\* ... the sessions of the copy are killed one by one (errors are logged) ...
KillAll(r) ==
    /\ At(r, "killAll")
    /\ \E t \in job[r].recs :
         \/ /\ ~job[r].cut
            /\ tmux' = Killed(t.name)
            /\ job' = [job EXCEPT ![r].recs = @ \ {t}]
            /\ UNCHANGED budget
         \/ /\ Cancel(r)
            /\ tmux' \in {tmux, Killed(t.name)}
            /\ job' = [job EXCEPT ![r].recs = {}, ![r].cut = TRUE]
    /\ UNCHANGED <<phase, mem, mu, flush, disk, tmp, pc, load, history>>

\* ... and Store.DeleteWorkspace removes the workspace with what it holds now.
DropWorkspace(r) ==
    /\ At(r, "killAll")
    /\ job[r].recs = {}
    /\ LET w == job[r].ws IN
       IF w \in mem.wss
         THEN /\ Mutate(r, [mem EXCEPT !.wss = @ \ {w}, !.terms = @ \ TermsOf(mem, w)])
              /\ dropped' = dropped \cup {w} \cup {t.id : t \in TermsOf(mem, w)}
              /\ UNCHANGED job
         ELSE /\ Unlocked
              /\ Reply(r)
              /\ UNCHANGED <<mem, mu, flush, dropped>>
    /\ UNCHANGED <<phase, disk, tmp, tmux, load, acked, drawn, home, budget>>

-----------------------------------------------------------------------------
(* handleCreateTerminal *)

\* Variant: the id drawn may be one that was drawn before.
CreateTerminalReusing(r, w, t, n) ==
    /\ At(r, "idle")
    /\ Unlocked
    /\ w \in mem.wss
    /\ home' = [home EXCEPT ![t] = w]
    /\ job' = [job EXCEPT ![r] = NewJob("create", w, t, n, Null, {})]
    /\ Goto(r, IF n = Null THEN "taken" ELSE "has")
    /\ UNCHANGED <<phase, mem, mu, flush, disk, tmp, tmux, load, acked, dropped, drawn, budget>>

CreateTerminal(r, w, t, n) ==
    /\ At(r, "idle")
    /\ Unlocked
    /\ w \in mem.wss
    /\ home[t] = Null
    /\ home' = [home EXCEPT ![t] = w]
    /\ job' = [job EXCEPT ![r] = NewJob("create", w, t, n, Null, {})]
    /\ Goto(r, IF n = Null THEN "taken" ELSE "has")
    /\ UNCHANGED <<phase, mem, mu, flush, disk, tmp, tmux, load, acked, dropped, drawn, budget>>

\* The requested name is refused when a session answers to it. A probe killed
\* with the request reports "does not exist"; one never started is an error.
CheckName(r) ==
    /\ At(r, "has")
    /\ \/ /\ Has(job[r].name)
          /\ Reply(r)
          /\ UNCHANGED budget
       \/ /\ ~Has(job[r].name)
          /\ Goto(r, "new")
          /\ UNCHANGED <<job, budget>>
       \/ /\ Cancel(r)
          /\ \/ Goto(r, "new") /\ job' = CutJob(r)
             \/ Reply(r)
    /\ UNCHANGED <<phase, mem, mu, flush, disk, tmp, tmux, load, history>>

\* DefaultTerminalName: copy the names taken in the store, then let go of mu ...
CopyTaken(r) ==
    /\ At(r, "taken")
    /\ Unlocked
    /\ job' = [job EXCEPT ![r].recs = mem.terms]
    /\ Goto(r, "pick")
    /\ UNCHANGED <<phase, mem, mu, flush, disk, tmp, tmux, load, history, budget>>

\* ... and probe the candidates that are not taken, in order.
PickName(r) ==
    /\ At(r, "pick")
    /\ LET taken == {t.name : t \in job[r].recs}
           free == {i \in job[r].next .. Len(DefaultNames) : DefaultNames[i] \notin taken}
       IN \/ /\ free = {}
             /\ Reply(r)
             /\ UNCHANGED budget
          \/ \E i \in free :
               /\ \A j \in free : i <= j
               /\ \/ /\ Has(DefaultNames[i])
                     /\ job' = [job EXCEPT ![r].next = i + 1]
                     /\ UNCHANGED <<pc, budget>>
                  \/ /\ ~Has(DefaultNames[i])
                     /\ job' = [job EXCEPT ![r].name = DefaultNames[i], ![r].recs = {}]
                     /\ Goto(r, "new")
                     /\ UNCHANGED budget
                  \/ /\ Cancel(r)
                     /\ \/ /\ job' = [job EXCEPT ![r].name = DefaultNames[i],
                                                 ![r].recs = {}, ![r].cut = TRUE]
                           /\ Goto(r, "new")
                        \/ Reply(r)
    /\ UNCHANGED <<phase, mem, mu, flush, disk, tmp, tmux, load, history>>

\* tmux.NewSession fails on a name in use, and is never started once the
\* request is cancelled; killed in flight, it may have created the session.
NewSession(r) ==
    /\ At(r, "new")
    /\ LET n == job[r].name
           made == [tmux EXCEPT ![n] = job[r].id]
       IN \/ /\ ~job[r].cut /\ ~Live(n)
             /\ tmux' = made
             /\ Goto(r, "add")
             /\ UNCHANGED <<job, budget>>
          \/ /\ job[r].cut \/ Live(n)
             /\ Reply(r)
             /\ UNCHANGED <<tmux, budget>>
          \/ /\ Cancel(r) /\ ~Live(n)
             /\ tmux' \in {tmux, made}
             /\ Reply(r)
    /\ UNCHANGED <<phase, mem, mu, flush, disk, tmp, load, history>>

\* Store.AddTerminal; the workspace may be gone by now.
AddTerminal(r) ==
    /\ At(r, "add")
    /\ Unlocked
    /\ LET w == job[r].ws
           rec == [ws |-> w, id |-> job[r].id, name |-> job[r].name]
       IN IF w \in mem.wss
            THEN Mutate(r, [mem EXCEPT !.terms = @ \cup {rec}])
            ELSE Goto(r, "undo") /\ UNCHANGED <<mem, mu, flush>>
    /\ UNCHANGED <<phase, disk, tmp, tmux, job, load, history, budget>>

\* AddTerminal failed: kill the session again, with the request's context.
UndoSession(r) ==
    /\ At(r, "undo")
    /\ \/ tmux' = Killed(job[r].name) /\ UNCHANGED budget
       \/ Cancel(r) /\ tmux' \in {tmux, Killed(job[r].name)}
    /\ Reply(r)
    /\ UNCHANGED <<phase, mem, mu, flush, disk, tmp, load, history>>

-----------------------------------------------------------------------------
(* handleDeleteTerminal *)

DeleteTerminal(r, t) ==
    /\ At(r, "idle")
    /\ Unlocked
    /\ t \in mem.terms
    /\ job' = [job EXCEPT ![r] = NewJob("delete", t.ws, t.id, t.name, Null, {})]
    /\ Goto(r, "kill")
    /\ UNCHANGED <<phase, mem, mu, flush, disk, tmp, tmux, load, history, budget>>

\* tmux.KillSession on the name read before; an error is only logged.
KillSession(r) ==
    /\ At(r, "kill")
    /\ \/ tmux' = Killed(job[r].name) /\ UNCHANGED budget
       \/ Cancel(r) /\ tmux' \in {tmux, Killed(job[r].name)}
    /\ Goto(r, "remove")
    /\ UNCHANGED <<phase, mem, mu, flush, disk, tmp, job, load, history>>

\* Store.RemoveTerminal, or 404 when another request was faster.
RemoveTerminal(r) ==
    /\ At(r, "remove")
    /\ Unlocked
    /\ LET mine == {t \in mem.terms : t.ws = job[r].ws /\ t.id = job[r].id}
       IN IF mine # {}
            THEN /\ Mutate(r, [mem EXCEPT !.terms = @ \ mine])
                 /\ dropped' = dropped \cup {job[r].id}
                 /\ UNCHANGED job
            ELSE Reply(r) /\ UNCHANGED <<mem, mu, flush, dropped>>
    /\ UNCHANGED <<phase, disk, tmp, tmux, load, acked, drawn, home, budget>>

-----------------------------------------------------------------------------
(* handleRenameTerminal *)

RenameTerminal(r, t, n) ==
    /\ At(r, "idle")
    /\ Unlocked
    /\ t \in mem.terms
    /\ n # t.name
    /\ job' = [job EXCEPT ![r] = NewJob("rename", t.ws, t.id, t.name, n, {})]
    /\ Goto(r, "renHas")
    /\ UNCHANGED <<phase, mem, mu, flush, disk, tmp, tmux, load, history, budget>>

CheckNewName(r) ==
    /\ At(r, "renHas")
    /\ \/ /\ Has(job[r].to)
          /\ Reply(r)
          /\ UNCHANGED budget
       \/ /\ ~Has(job[r].to)
          /\ Goto(r, "ren")
          /\ UNCHANGED <<job, budget>>
       \/ /\ Cancel(r)
          /\ \/ Goto(r, "ren") /\ job' = CutJob(r)
             \/ Reply(r)
    /\ UNCHANGED <<phase, mem, mu, flush, disk, tmp, tmux, load, history>>

\* tmux.RenameSession fails when the old name finds no session or the new one
\* is used.
RenameSession(r) ==
    /\ At(r, "ren")
    /\ LET n == job[r].name
           m == job[r].to
           can == CanRename(n, m)
       IN \/ /\ ~job[r].cut /\ can
             /\ tmux' = Renamed(n, m)
             /\ Goto(r, "renStore")
             /\ UNCHANGED <<job, budget>>
          \/ /\ job[r].cut \/ ~can
             /\ Reply(r)
             /\ UNCHANGED <<tmux, budget>>
          \/ /\ Cancel(r) /\ can
             /\ tmux' \in {tmux, Renamed(n, m)}
             /\ Reply(r)
    /\ UNCHANGED <<phase, mem, mu, flush, disk, tmp, load, history>>

\* Variant: the record keeps the old session name.
RenameRecordForgets(r) ==
    /\ At(r, "renStore")
    /\ Mutate(r, mem)
    /\ UNCHANGED <<phase, disk, tmp, tmux, job, load, history, budget>>

\* Store.RenameTerminal, or 404 when the terminal was deleted meanwhile.
RenameRecord(r) ==
    /\ At(r, "renStore")
    /\ Unlocked
    /\ LET mine == {t \in mem.terms : t.ws = job[r].ws /\ t.id = job[r].id}
           new == {[t EXCEPT !.name = job[r].to] : t \in mine}
       IN IF mine # {}
            THEN /\ Mutate(r, [mem EXCEPT !.terms = (@ \ mine) \cup new])
                 /\ UNCHANGED job
            ELSE Reply(r) /\ UNCHANGED <<mem, mu, flush>>
    /\ UNCHANGED <<phase, disk, tmp, tmux, load, history, budget>>

-----------------------------------------------------------------------------
(* flushLocked, run by whoever holds Store.mu *)

\* The answer the handler gives when flushLocked returned without error.
Acknowledge(r) ==
    acked' = CASE job[r].op = "createWs" -> [acked EXCEPT !.created = @ \cup {job[r].ws}]
               [] job[r].op = "create"   -> [acked EXCEPT !.created = @ \cup {job[r].id}]
               [] job[r].op = "deleteWs" -> [acked EXCEPT !.deleted = @ \cup {job[r].ws}]
               [] job[r].op = "delete"   -> [acked EXCEPT !.deleted = @ \cup {job[r].id}]
               [] OTHER                  -> acked

\* Variant: the error of flushLocked is ignored.
UnlockIgnoringError(ok) ==
    /\ mu' = Null
    /\ flush' = "none"
    /\ IF mu = Loader
         THEN phase' = "up" /\ load' = NoLoad /\ UNCHANGED <<mem, pc, job, acked>>
         ELSE Acknowledge(mu) /\ Reply(mu) /\ UNCHANGED <<phase, mem, load>>

\* The holder unlocks. pruneDead only logs an error and Load goes on; a process
\* that was told to stop while loading exits instead of serving.
Unlock(ok) ==
    /\ mu' = Null
    /\ flush' = "none"
    /\ IF mu = Loader
         THEN /\ phase' = IF load.sig THEN "down" ELSE "up"
              /\ mem' = IF load.sig THEN EmptyState ELSE mem
              /\ load' = NoLoad
              /\ UNCHANGED <<pc, job, acked>>
         ELSE /\ IF ok THEN Acknowledge(mu) ELSE UNCHANGED acked
              /\ IF ~ok /\ job[mu].op = "create"
                   THEN Goto(mu, "undo") /\ UNCHANGED job
                   ELSE Reply(mu)
              /\ UNCHANGED <<phase, mem, load>>

WriteTmp ==
    /\ flush = "write"
    /\ tmp' = mem
    /\ flush' = "replace"
    /\ UNCHANGED <<phase, mem, mu, disk, tmux, pc, job, load, history, budget>>

WriteTmpFails ==
    /\ flush = "write"
    /\ Spend("flush")
    /\ tmp' \in {tmp, Torn}
    /\ Unlock(FALSE)
    /\ UNCHANGED <<disk, tmux, dropped, drawn, home>>

\* Variant: the temporary file is never renamed.
ReplaceForgotten ==
    /\ flush = "replace"
    /\ Unlock(TRUE)
    /\ UNCHANGED <<disk, tmp, tmux, dropped, drawn, home, budget>>

Replace ==
    /\ flush = "replace"
    /\ disk' = tmp
    /\ tmp' = NoFile
    /\ Unlock(TRUE)
    /\ UNCHANGED <<tmux, dropped, drawn, home, budget>>

ReplaceFails ==
    /\ flush = "replace"
    /\ Spend("flush")
    /\ Unlock(FALSE)
    /\ UNCHANGED <<disk, tmp, tmux, dropped, drawn, home>>

-----------------------------------------------------------------------------
(* The life of the server process *)

\* store.Load: no file means an empty store, an unreadable one means no server.
Load ==
    /\ phase = "down"
    /\ disk # Torn
    /\ IF disk = NoFile
         THEN phase' = "up" /\ mem' = EmptyState /\ load' = NoLoad
         ELSE /\ phase' = "loading"
              /\ mem' = disk
              /\ load' = [NoLoad EXCEPT !.todo = disk.terms]
    /\ UNCHANGED <<mu, flush, disk, tmp, tmux, pc, job, history, budget>>

\* pruneDead asks tmux about each terminal. SIGTERM cancels the context Load
\* runs with: the probe in flight is killed, which HasSession reports as "does
\* not exist", and every later one is an error that keeps the terminal.
Keep(t) == /\ load' = [load EXCEPT !.todo = @ \ {t}]
           /\ UNCHANGED <<mem, dropped>>

Prune(t, sig) == /\ mem' = [mem EXCEPT !.terms = @ \ {t}]
                 /\ load' = [todo |-> load.todo \ {t}, changed |-> TRUE, sig |-> sig]
                 /\ dropped' = dropped \cup {t.id}

ProbeTerminal(t) ==
    /\ phase = "loading"
    /\ \/ /\ load.sig \/ Has(t.name)
          /\ Keep(t)
          /\ UNCHANGED budget
       \/ /\ ~load.sig /\ ~Has(t.name)
          /\ Prune(t, FALSE)
          /\ UNCHANGED budget
       \/ /\ ~load.sig /\ Spend("cancel")
          /\ Prune(t, TRUE)
    /\ UNCHANGED <<phase, mu, flush, disk, tmp, tmux, pc, job, acked, drawn, home>>

\* Every terminal was probed: flush what was pruned, or serve right away.
LoadDone ==
    /\ phase = "loading"
    /\ load.todo = {}
    /\ Unlocked
    /\ IF load.changed
         THEN /\ mu' = Loader
              /\ flush' = "write"
              /\ UNCHANGED <<phase, load>>
         ELSE /\ phase' = "up"
              /\ load' = NoLoad
              /\ UNCHANGED <<mu, flush>>
    /\ UNCHANGED <<mem, disk, tmp, tmux, pc, job, history, budget>>

\* The process stops. SIGTERM does not wait for handlers either: main returns
\* as soon as Serve does, while Shutdown still runs in its goroutine.
Stop ==
    /\ phase # "down"
    /\ Spend("crash")
    /\ tmp' \in IF flush = "write" THEN {tmp, Torn, mem} ELSE {tmp}
    /\ phase' = "down"
    /\ mem' = EmptyState
    /\ mu' = Null
    /\ flush' = "none"
    /\ pc' = [r \in Requests |-> "idle"]
    /\ job' = [r \in Requests |-> NoJob]
    /\ load' = NoLoad
    /\ UNCHANGED <<disk, tmux, history>>

\* A user types exit: the session dies and the store is not told.
SessionExit(n) ==
    /\ Live(n)
    /\ Spend("exit")
    /\ tmux' = [tmux EXCEPT ![n] = Null]
    /\ UNCHANGED <<phase, mem, mu, flush, disk, tmp, pc, job, load, history>>

-----------------------------------------------------------------------------
Start(r) ==
    \/ \E w \in Workspaces : CreateWorkspace(r, w) \/ DeleteWorkspace(r, w)
    \/ \E b \in Blobs : SetLayout(r, b)
    \/ \E w \in Workspaces, b \in Blobs : RenameWorkspace(r, w, b)
    \/ \E w \in Workspaces, t \in Terminals, n \in Names \cup {Null} : CreateTerminal(r, w, t, n)
    \/ \E t \in mem.terms : DeleteTerminal(r, t)
    \/ \E t \in mem.terms, n \in Names : RenameTerminal(r, t, n)

\* Steps that wait for Store.mu, and steps that wait for tmux.
LockStep(r) ==
    \/ DropWorkspace(r) \/ CopyTaken(r) \/ AddTerminal(r)
    \/ RemoveTerminal(r) \/ RenameRecord(r)
TmuxStep(r) ==
    \/ KillAll(r) \/ CheckName(r) \/ PickName(r) \/ NewSession(r) \/ UndoSession(r)
    \/ KillSession(r) \/ CheckNewName(r) \/ RenameSession(r)

FlushStep == WriteTmp \/ WriteTmpFails \/ Replace \/ ReplaceFails

LoadStep == (\E t \in load.todo : ProbeTerminal(t)) \/ LoadDone

Next ==
    \/ \E r \in Requests : Start(r) \/ LockStep(r) \/ TmuxStep(r)
    \/ FlushStep
    \/ Load
    \/ LoadStep
    \/ Stop
    \/ \E n \in Names : SessionExit(n)

Spec == Init /\ [][Next]_vars

\* Handlers keep running: tmux commands and file operations return, and
\* sync.RWMutex hands the lock to a goroutine that keeps waiting for it.
Fairness ==
    /\ \A r \in Requests : SF_vars(LockStep(r)) /\ WF_vars(TmuxStep(r))
    /\ WF_vars(FlushStep)
    /\ WF_vars(LoadStep)

FairSpec == Spec /\ Fairness

Quiet == \A r \in Requests : pc[r] = "idle"

\* One request at a time. Between requests the process may be restarted, even
\* in the middle of pruneDead or with its flush failing; shells may exit at any
\* time; nothing else fails.
Orderly ==
    /\ \A q, r \in Requests : pc'[q] # "idle" /\ pc'[r] # "idle" => q = r
    /\ budget'["cancel"] = budget["cancel"]
    /\ budget'["crash"] # budget["crash"] \/ budget'["flush"] # budget["flush"] => Quiet

SequentialSpec == Init /\ [][Next /\ Orderly]_vars

-----------------------------------------------------------------------------
(* Properties *)

\* However a write of state.json ends - an error, or the process stopping half
\* way - the file the next store.Load parses is a complete one.
StateFileWhole == disk # Torn

\* Once a DELETE was answered with 204 the workspace or terminal never comes
\* back: not in memory, not in the file, not after any later failed flush,
\* crash or restart; and no state holds a terminal of a workspace it does not
\* hold (store.DeleteWorkspace, store.RemoveTerminal, store.AddTerminal).
FreeOf(ids, s) == ids \cap IdsOf(s) = {} /\ \A t \in s.terms : t.ws \in s.wss
DeleteIsFinal ==
    /\ FreeOf(acked.deleted, mem)
    /\ disk # NoFile => FreeOf(acked.deleted, disk)

\* Once a POST was answered with 201, the workspace or terminal is in the file
\* and, after any number of restarts, in memory until a request or pruneDead
\* takes it out (store.CreateWorkspace, store.AddTerminal).
CreateIsDurable ==
    LET kept == acked.created \ dropped
    IN /\ kept # {} => disk # NoFile
       /\ disk # NoFile => kept \subseteq IdsOf(disk)
       /\ phase # "down" => kept \subseteq IdsOf(mem)

\* However requests race, fail and are cut short, no terminal is listed twice,
\* in memory or in the file, and no session answers to two names.
OneOfEach ==
    /\ \A t, u \in mem.terms : t.id = u.id => t = u
    /\ disk # NoFile => \A t, u \in disk.terms : t.id = u.id => t = u
    /\ \A m, n \in Names : Live(m) /\ tmux[m] = tmux[n] => m = n

\* DeleteWorkspace's caller kills the sessions of the workspace, a failed
\* creation its session, a rename changes session and record: between requests
\* no session is left that no terminal in the store names, so that nobody could
\* attach to it or end it from the program. Holds while one request runs at a
\* time (SequentialSpec), though shells exit and tmux then takes a dead
\* terminal's name for the session it is a prefix of; races break it.
NoOrphanSession ==
    phase = "up" /\ Quiet =>
        \A n \in Names : Live(n) => \E t \in mem.terms : t.name = n

\* store.Load prunes terminals whose sessions are dead, and only those.
PruneOnlyDead ==
    [][\A t \in mem.terms \ mem'.terms :
         phase = "loading" /\ phase' = "loading" => \A n \in Names : tmux[n] # t.id]_vars

\* Every request is answered, unless the process stops first (its client then
\* sees the connection break, and pc is idle as well); no goroutine waits
\* forever for Store.mu.
RequestsAnswered == \A r \in Requests : pc[r] # "idle" ~> pc[r] = "idle"

\* state.json behaves like a variable that is assigned atomically.
PrunedFrom(s, t) == s.terms \subseteq t.terms /\ s.wss = t.wss /\ s.blob = t.blob
locked == mu # Null
stored == IF disk = NoFile THEN EmptyState ELSE disk
File == INSTANCE StateFile
          WITH Values <- States, Empty <- EmptyState, Smaller <- PrunedFrom,
               mode <- phase, shown <- mem, busy <- locked, saved <- stored
AtomicFile == File!Spec

-----------------------------------------------------------------------------
(* The inductive invariant behind StateFileWhole, DeleteIsFinal and          *)
(* CreateIsDurable.                                                          *)

\* What a handler knows at each point p, j being its local variables.
JobAt(p, j, h, d) ==
    /\ p = "idle" => j = NoJob
    /\ p \in {"has", "taken", "pick", "new", "add", "undo"} => j.op = "create"
    /\ p \in {"kill", "remove"} => j.op = "delete"
    /\ p \in {"renHas", "ren", "renStore"} => j.op = "rename"
    /\ p = "killAll" => j.op = "deleteWs"
    /\ p \in {"has", "new", "add", "undo", "kill", "remove", "renHas", "ren", "renStore"}
         => j.name \in Names
    /\ p = "flush" /\ j.op = "create" => j.name \in Names
    /\ j.op = "rename" => j.to \in Names
    /\ j.op \in {"create", "delete", "rename"} => j.id \in Terminals /\ j.ws = h[j.id]
    /\ j.op \in {"create", "delete", "rename"} \/ j.id = Null
    /\ j.op \in {"createWs", "deleteWs", "create", "delete", "rename"} => j.ws \in Workspaces
    /\ j.op \in {"createWs", "deleteWs"} => j.ws \in d

JobsOK == \A r \in Requests : JobAt(pc[r], job[r], home, drawn)

\* Store.mu is held exactly while a flush is under way, by a handler that is
\* in it or by the loader, and the file to be renamed is what memory holds.
LockOK ==
    /\ flush = "none" <=> mu = Null
    /\ mu = Loader => phase = "loading" /\ load.todo = {}
    /\ \A r \in Requests : pc[r] = "flush" <=> mu = r
    /\ phase # "up" => \A r \in Requests : pc[r] = "idle"
    /\ flush = "replace" => tmp = mem

\* A store state only speaks of ids that were drawn, each in its own workspace
\* and of no terminal twice.
StateAt(s, h, d) ==
    /\ s.wss \subseteq d
    /\ \A t \in s.terms : t.ws = h[t.id]
    /\ \A t, u \in s.terms : t.id = u.id => t = u
StatesOK == StateAt(mem, home, drawn) /\ (disk # NoFile => StateAt(disk, home, drawn))

\* A terminal id is new until AddTerminal.
Early == {"has", "taken", "pick", "new", "add"}
FreshOK ==
    \A r \in Requests : pc[r] \in Early =>
        /\ job[r].id \notin IdsOf(mem) \cup acked.deleted
        /\ disk # NoFile => job[r].id \notin IdsOf(disk)
        /\ \A q \in Requests \ {r} : job[q].id # job[r].id

\* What a mutator did is still in memory when its flush ends.
SavedAt(j, s) ==
    /\ j.op = "createWs" => j.ws \in s.wss
    /\ j.op = "create" => j.id \in IdsOf(s)
    /\ j.op = "deleteWs" => j.ws \notin IdsOf(s)
    /\ j.op = "delete" => j.id \notin IdsOf(s)
SavedOK == mu \in Requests => SavedAt(job[mu], mem)

HistoryOK == \A i \in acked.deleted : i \in drawn \/ (i \in Terminals /\ home[i] # Null)

Inv ==
    /\ TypeOK
    /\ StateFileWhole
    /\ LockOK
    /\ JobsOK
    /\ StatesOK
    /\ FreshOK
    /\ SavedOK
    /\ HistoryOK
    /\ DeleteIsFinal
    /\ CreateIsDurable
=============================================================================
