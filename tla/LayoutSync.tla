----------------------------- MODULE LayoutSync -----------------------------
(***************************************************************************)
(* The layout the server keeps, against the tree that is shown: the        *)
(* restore effect, persist and commit of useLayout.ts, for trees of any    *)
(* kind. root is the rendered tree and rootRef at once, since every        *)
(* handler sets both. Layout says which trees there are and how they are   *)
(* edited and parsed.                                                      *)
(*                                                                         *)
(* The restored layout races the user's edits, and the debounced PUTs race *)
(* each other, a logout and a reload. spoilt is a ghost: why the server    *)
(* may hold another tree than the one shown, since the last edit.          *)
(***************************************************************************)
EXTENDS Client, Naturals, Sequences, SequencesExt

CONSTANTS
    MaxTurns,  \* edits of the tree and logins
    MaxPuts    \* PUTs in flight

VARIABLES
    root,           \* root and rootRef
    saveTimer,      \* the tree the debounced PUT will send, or Null
    puts,           \* trees of the PUTs in flight, in the order sent
    stored,         \* the server's layout blob, or Null
    restore,        \* the GET of the restore effect
    authed,
    spoilt,
    turns           \* edits and logins so far

syncVars == <<root, saveTimer, puts, stored, restore, authed, spoilt, turns>>

NoRestore == [phase |-> "none", blob |-> Null]

\* The page opens; an earlier visit may have left a layout.
SyncInit ==
    /\ root # Null
    /\ saveTimer = Null
    /\ puts = <<>>
    /\ restore = NoRestore
    /\ authed = FALSE
    /\ spoilt = {"unsaved"}
    /\ turns = 0

-----------------------------------------------------------------------------
(* Persistence *)

\* Variant: the timer keeps the tree from before the edit.
commitStale(next) ==
    /\ turns < MaxTurns
    /\ root' = next
    /\ saveTimer' = root
    /\ spoilt' = {}
    /\ turns' = turns + 1
    /\ UNCHANGED <<puts, stored, restore, authed>>

\* commit and persist: a PUT that was due is replaced.
commit(next) ==
    /\ turns < MaxTurns
    /\ root' = next
    /\ saveTimer' = next
    /\ spoilt' = {}
    /\ turns' = turns + 1
    /\ UNCHANGED <<puts, stored, restore, authed>>

SaveFires ==
    /\ saveTimer # Null
    /\ Len(puts) < MaxPuts
    /\ puts' = Append(puts, saveTimer)
    /\ saveTimer' = Null
    /\ UNCHANGED <<root, stored, restore, authed, spoilt, turns>>

\* A PUT reaches the server, perhaps before one that was sent earlier.
PutArrives(i) ==
    /\ i \in DOMAIN puts
    /\ authed
    /\ stored' = puts[i]
    /\ puts' = RemoveAt(puts, i)
    /\ spoilt' = IF i = 1 THEN spoilt ELSE spoilt \cup {"lost"}
    /\ UNCHANGED <<root, saveTimer, restore, authed, turns>>

\* The network or, after a logout, the auth middleware; best effort.
PutFails(i) ==
    /\ i \in DOMAIN puts
    /\ puts' = RemoveAt(puts, i)
    /\ spoilt' = spoilt \cup {"lost"}
    /\ UNCHANGED <<root, saveTimer, stored, restore, authed, turns>>

-----------------------------------------------------------------------------
(* Login, restore and reload *)

\* checkAuth or a login succeeds and the restore effect runs.
Authenticated ==
    /\ ~authed /\ turns < MaxTurns
    /\ authed' = TRUE
    /\ restore' = [phase |-> "asked", blob |-> Null]
    /\ turns' = turns + 1
    /\ UNCHANGED <<root, saveTimer, puts, stored, spoilt>>

\* The effect's cleanup cancels the restore; the tree and the timer stay.
LogsOut ==
    /\ authed
    /\ authed' = FALSE
    /\ restore' = NoRestore
    /\ UNCHANGED <<root, saveTimer, puts, stored, spoilt, turns>>

\* The page is loaded anew; PUTs on their way may still arrive.
Reloaded(fresh) ==
    /\ root' = fresh
    /\ saveTimer' = Null
    /\ restore' = NoRestore
    /\ authed' = FALSE
    /\ spoilt' = {"unsaved"}
    /\ UNCHANGED <<puts, stored, turns>>

ServerGetsLayout ==
    /\ restore.phase = "asked"
    /\ restore' = [phase |-> "answered", blob |-> stored]
    /\ UNCHANGED <<root, saveTimer, puts, stored, authed, spoilt, turns>>

\* The answer replaces the tree when it is one, whatever happened since.
Restored(parsed) ==
    /\ restore.phase = "answered"
    /\ restore' = NoRestore
    /\ \/ parsed = Null /\ UNCHANGED <<root, spoilt>>
       \/ /\ parsed # Null
          /\ root' = parsed
          /\ spoilt' = IF saveTimer = Null /\ puts = <<>> /\ parsed = stored
                       THEN {} ELSE spoilt \cup {"late"}
    /\ UNCHANGED <<saveTimer, puts, stored, authed, turns>>

RestoreFails ==
    /\ restore.phase # "none"
    /\ restore' = NoRestore
    /\ UNCHANGED <<root, saveTimer, puts, stored, authed, spoilt, turns>>

-----------------------------------------------------------------------------
\* Any tree may be the next one, except that there always is one.
SyncNext ==
    \/ Authenticated \/ LogsOut
    \/ ServerGetsLayout \/ RestoreFails \/ SaveFires
    \/ \E i \in 1..MaxPuts : PutArrives(i) \/ PutFails(i)
    \/ root' # Null /\ (commit(root') \/ Reloaded(root') \/ Restored(root') \/ Restored(Null))

SyncSpec == SyncInit /\ [][SyncNext]_syncVars

-----------------------------------------------------------------------------
(* Properties *)

Settled == authed /\ saveTimer = Null /\ puts = <<>> /\ restore.phase = "none"

\* Once an edit was made and the page is at rest, the server holds the tree
\* that is shown, unless a PUT failed, PUTs overtook each other or the
\* restored layout came late (persist, commit).
MirrorUnlessRaced == Settled /\ spoilt = {} => stored = root
=============================================================================
