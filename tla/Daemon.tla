------------------------------- MODULE Daemon -------------------------------
(***************************************************************************)
(* internal/daemon: the commands --daemon, --stop and --status, the server *)
(* child that --daemon leaves behind, the flock on oh-my-terminal.lock     *)
(* they share and the pid file.                                            *)
(*                                                                         *)
(* A flock belongs to an open file description. start hands its own to the *)
(* child, so the lock is free when every process of holders has closed it. *)
(* Pids are recycled, by a later child or by a process of somebody else.   *)
(* Timeouts may fire at any moment, and any process may be killed.         *)
(***************************************************************************)
CONSTANTS
    Commands,   \* invocations of the binary from a shell
    Pids,       \* process ids of children (and of unrelated processes)
    Tmux,       \* the tmux server, which outlives the child that starts it
    Nobody,     \* init, which adopts a child whose parent is gone
    NoPid,      \* there is no pid file; no process
    Blank       \* a pid file that is truncated but not yet written

ASSUME PidAssumption == NoPid \notin Pids /\ Blank \notin Pids \cup {NoPid}
ASSUME ProcessAssumption == /\ Commands \cap Pids = {}
                            /\ Tmux \notin Commands \cup Pids
                            /\ Nobody \notin Commands

VARIABLES
    holders,   \* the processes that have the locked file description open
    pidFile,   \* oh-my-terminal.pid
    pc,        \* where each command is
    own,       \* the child a start waits for, or the pid a stop read
    proc,      \* what runs under each pid
    parent,    \* the start that forked the child and still lives, or Nobody
    told,      \* the child wrote to the readiness pipe
    term,      \* the child was sent SIGTERM
    inherit,   \* processes forked by the child get its lock descriptor
    tmux       \* the tmux server runs

vars == <<holders, pidFile, pc, own, proc, parent, told, term, inherit, tmux>>

Points == {"idle", "clear", "spawn", "wait", "kill", "tidy", "clean", "stopRead",
           "statusRead", "term", "poll", "sigkill", "lastPoll", "stopTidy"}

\* The life of a child: exec, PrepareChild, api.Run up to the listener, the
\* pid file in two steps, the readiness byte, and the way out. A child that
\* ended stays a zombie until its parent has waited for it.
Daemons == {"exec", "load", "writing", "ready", "serve", "ending", "closing"}
Processes == Daemons \cup {"free", "zombie", "other"}

FileType == /\ holders \subseteq Commands \cup Pids \cup {Tmux}
            /\ pidFile \in Pids \cup {NoPid, Blank}
CommandType == /\ pc \in [Commands -> Points]
               /\ own \in [Commands -> Pids \cup {NoPid}]
ProcessType == /\ proc \in [Pids -> Processes]
               /\ parent \in [Pids -> Commands \cup {Nobody}]
FlagType == /\ told \in [Pids -> BOOLEAN]
            /\ term \in [Pids -> BOOLEAN]
            /\ inherit \in [Pids -> BOOLEAN]
            /\ tmux \in BOOLEAN
TypeOK == FileType /\ CommandType /\ ProcessType /\ FlagType

Init ==
    /\ holders = {}
    /\ pidFile = NoPid
    /\ pc = [c \in Commands |-> "idle"]
    /\ own = [c \in Commands |-> NoPid]
    /\ proc = [p \in Pids |-> "free"]
    /\ parent = [p \in Pids |-> Nobody]
    /\ told = [p \in Pids |-> FALSE]
    /\ term = [p \in Pids |-> FALSE]
    /\ inherit = [p \in Pids |-> FALSE]
    /\ tmux = FALSE

-----------------------------------------------------------------------------
Free == holders = {}

IsDaemon(p) == proc[p] \in Daemons

Goto(c, p) == /\ pc' = [pc EXCEPT ![c] = p]
              /\ UNCHANGED own

\* The command prints its result and exits, which closes its descriptors.
Return(c) == /\ pc' = [pc EXCEPT ![c] = "idle"]
             /\ own' = [own EXCEPT ![c] = NoPid]
             /\ holders' = holders \ {c}

\* removePIDFile, which may fail, and removePIDFileIfOwned.
RemovePidFile == pidFile' \in {pidFile, NoPid}
RemoveIfOwned(p) == IF pidFile = p THEN RemovePidFile ELSE UNCHANGED pidFile

children == <<proc, parent, told, term, inherit>>

\* The process under pid p is gone, with its descriptors; only a start that
\* waits for it keeps the pid from being used again.
Ends(p) == /\ proc' = [proc EXCEPT ![p] = IF parent[p] = Nobody THEN "free" ELSE "zombie"]
           /\ holders' = holders \ {p}
           /\ term' = [term EXCEPT ![p] = FALSE]
           /\ inherit' = [inherit EXCEPT ![p] = FALSE]
           /\ UNCHANGED <<parent, told>>

-----------------------------------------------------------------------------
(* --daemon *)

\* start: flock without blocking.
Start(c) ==
    /\ pc[c] = "idle"
    /\ IF Free
         THEN holders' = {c} /\ Goto(c, "clear")
         ELSE Return(c)
    /\ UNCHANGED <<pidFile, children, tmux>>

Clear(c) ==
    /\ pc[c] = "clear"
    /\ pidFile' = NoPid
    /\ Goto(c, "spawn")
    /\ UNCHANGED <<holders, children, tmux>>

\* The pid file cannot be removed, or the log file, /dev/null, the pipe, the
\* executable or fork fails.
SpawnFails(c) ==
    /\ pc[c] \in {"clear", "spawn"}
    /\ Return(c)
    /\ UNCHANGED <<pidFile, children, tmux>>

\* Variant: the lock file is not among the files handed to the child.
SpawnWithoutLock(c, p) ==
    /\ pc[c] = "spawn"
    /\ proc[p] = "free"
    /\ proc' = [proc EXCEPT ![p] = "exec"]
    /\ parent' = [parent EXCEPT ![p] = c]
    /\ told' = [told EXCEPT ![p] = FALSE]
    /\ own' = [own EXCEPT ![c] = p]
    /\ pc' = [pc EXCEPT ![c] = "wait"]
    /\ UNCHANGED <<holders, pidFile, term, inherit, tmux>>

\* cmd.Start: the child gets the lock and the write end of the pipe.
Spawn(c, p) ==
    /\ pc[c] = "spawn"
    /\ proc[p] = "free"
    /\ proc' = [proc EXCEPT ![p] = "exec"]
    /\ parent' = [parent EXCEPT ![p] = c]
    /\ told' = [told EXCEPT ![p] = FALSE]
    /\ inherit' = [inherit EXCEPT ![p] = TRUE]
    /\ own' = [own EXCEPT ![c] = p]
    /\ pc' = [pc EXCEPT ![c] = "wait"]
    /\ holders' = holders \cup {p}
    /\ UNCHANGED <<pidFile, term, tmux>>

\* waitForReady read the byte: the command exits and init adopts the child.
WaitDone(c) ==
    /\ pc[c] = "wait"
    /\ told[own[c]]
    /\ Return(c)
    /\ parent' = [parent EXCEPT ![own[c]] = Nobody]
    /\ proc' = [proc EXCEPT ![own[c]] = IF @ = "zombie" THEN "free" ELSE @]
    /\ UNCHANGED <<pidFile, told, term, inherit, tmux>>

\* Deadline passed, or the pipe was closed without a byte.
WaitFails(c) ==
    /\ pc[c] = "wait"
    /\ Goto(c, "kill")
    /\ UNCHANGED <<holders, pidFile, children, tmux>>

\* Variant: the child is not killed.
KillForgotten(c) ==
    /\ pc[c] = "kill"
    /\ Goto(c, "tidy")
    /\ UNCHANGED <<holders, pidFile, children, tmux>>

\* killAndWait: SIGKILL, then reap.
KillAndWait(c) ==
    /\ pc[c] = "kill"
    /\ proc' = [proc EXCEPT ![own[c]] = "free"]
    /\ parent' = [parent EXCEPT ![own[c]] = Nobody]
    /\ term' = [term EXCEPT ![own[c]] = FALSE]
    /\ inherit' = [inherit EXCEPT ![own[c]] = FALSE]
    /\ holders' = holders \ {own[c]}
    /\ Goto(c, "tidy")
    /\ UNCHANGED <<pidFile, told, tmux>>

\* Variant: the lock is closed before the pid file is looked at.
TidyUnlocked(c) ==
    \/ /\ pc[c] = "tidy"
       /\ c \in holders
       /\ holders' = holders \ {c}
       /\ UNCHANGED <<pidFile, pc, own, children, tmux>>
    \/ /\ pc[c] = "tidy"
       /\ c \notin holders
       /\ pidFile' = NoPid
       /\ Return(c)
       /\ UNCHANGED <<children, tmux>>

Tidy(c) ==
    /\ pc[c] = "tidy"
    /\ RemoveIfOwned(own[c])
    /\ Return(c)
    /\ UNCHANGED <<children, tmux>>

-----------------------------------------------------------------------------
(* --stop and --status *)

\* lockAcquire: when the lock was free nothing runs, and a stale pid file goes.
Stop(c) ==
    /\ pc[c] = "idle"
    /\ IF Free
         THEN holders' = {c} /\ Goto(c, "clean")
         ELSE Goto(c, "stopRead") /\ UNCHANGED holders
    /\ UNCHANGED <<pidFile, children, tmux>>

Status(c) ==
    /\ pc[c] = "idle"
    /\ IF Free
         THEN holders' = {c} /\ Goto(c, "clean")
         ELSE Goto(c, "statusRead") /\ UNCHANGED holders
    /\ UNCHANGED <<pidFile, children, tmux>>

Clean(c) ==
    /\ pc[c] = "clean"
    /\ RemovePidFile
    /\ Return(c)
    /\ UNCHANGED <<children, tmux>>

StopRead(c) ==
    /\ pc[c] = "stopRead"
    /\ IF pidFile \in Pids
         THEN /\ own' = [own EXCEPT ![c] = pidFile]
              /\ pc' = [pc EXCEPT ![c] = "term"]
              /\ UNCHANGED holders
         ELSE Return(c)
    /\ UNCHANGED <<pidFile, children, tmux>>

\* The pid, or "pid unknown" when the file cannot be read.
StatusRead(c) ==
    /\ pc[c] = "statusRead"
    /\ Return(c)
    /\ UNCHANGED <<pidFile, children, tmux>>

\* kill(pid, SIGTERM); a missing process is not an error, the process of
\* another user is. What the signal does to an unrelated process is left open.
Terminate(c) ==
    /\ pc[c] = "term"
    /\ \/ /\ term' = IF IsDaemon(own[c]) THEN [term EXCEPT ![own[c]] = TRUE] ELSE term
          /\ Goto(c, "poll")
          /\ UNCHANGED holders
       \/ /\ proc[own[c]] = "other"
          /\ Return(c)
          /\ UNCHANGED term
    /\ UNCHANGED <<pidFile, proc, parent, told, inherit, tmux>>

\* waitForLockFree: one poll that finds the lock free takes it ...
Poll(c) ==
    /\ pc[c] \in {"poll", "lastPoll"}
    /\ Free
    /\ holders' = {c}
    /\ Goto(c, "stopTidy")
    /\ UNCHANGED <<pidFile, children, tmux>>

\* Variant: the last wait has no deadline.
PollForever(c) ==
    /\ ~Free
    /\ pc[c] = "poll"
    /\ Goto(c, "sigkill")
    /\ UNCHANGED <<holders, pidFile, children, tmux>>

\* ... and one that finds it held may be the last.
PollExpires(c) ==
    /\ ~Free
    /\ \/ /\ pc[c] = "poll"
          /\ Goto(c, "sigkill")
          /\ UNCHANGED holders
       \/ /\ pc[c] = "lastPoll"
          /\ Return(c)
    /\ UNCHANGED <<pidFile, children, tmux>>

SigKill(c) ==
    /\ pc[c] = "sigkill"
    /\ \/ /\ IF IsDaemon(own[c]) THEN Ends(own[c]) ELSE UNCHANGED <<holders, children>>
          /\ Goto(c, "lastPoll")
       \/ /\ proc[own[c]] = "other"
          /\ Return(c)
          /\ UNCHANGED children
    /\ UNCHANGED <<pidFile, tmux>>

StopTidy(c) ==
    /\ pc[c] = "stopTidy"
    /\ RemoveIfOwned(own[c])
    /\ Return(c)
    /\ UNCHANGED <<children, tmux>>

-----------------------------------------------------------------------------
(* The child *)

Becomes(p, s) == proc' = [proc EXCEPT ![p] = s]

commands == <<pc, own>>

\* Variant: the inherited descriptor is not marked close-on-exec.
PrepareChildLeaky(p) ==
    /\ proc[p] = "exec"
    /\ Becomes(p, "load")
    /\ UNCHANGED <<holders, pidFile, commands, parent, told, term, inherit, tmux>>

\* prepareChild; a failure to do so ends the child.
PrepareChild(p) ==
    /\ proc[p] = "exec"
    /\ \/ Becomes(p, "load") /\ inherit' = [inherit EXCEPT ![p] = FALSE]
       \/ Becomes(p, "closing") /\ UNCHANGED inherit
    /\ UNCHANGED <<holders, pidFile, commands, parent, told, term, tmux>>

\* A handler starts the tmux server, which gets the descriptors of the child
\* that are not close-on-exec.
RunTmux(p) ==
    /\ proc[p] = "serve"
    /\ ~tmux
    /\ tmux' = TRUE
    /\ holders' = IF inherit[p] THEN holders \cup {Tmux} ELSE holders
    /\ UNCHANGED <<pidFile, commands, children>>

TmuxExits ==
    /\ tmux
    /\ tmux' = FALSE
    /\ holders' = holders \ {Tmux}
    /\ UNCHANGED <<pidFile, commands, children>>

\* api.Run fails: the store cannot be loaded, the port is taken, the pid file
\* cannot be written, the listener breaks.
RunFails(p) ==
    /\ proc[p] \in {"load", "writing", "serve"}
    /\ Becomes(p, "ending")
    /\ UNCHANGED <<holders, pidFile, commands, parent, told, term, inherit, tmux>>

\* childReady: os.WriteFile truncates the pid file, then writes it ...
TruncatePid(p) ==
    /\ proc[p] = "load"
    /\ pidFile' = Blank
    /\ Becomes(p, "writing")
    /\ UNCHANGED <<holders, commands, parent, told, term, inherit, tmux>>

WritePid(p) ==
    /\ proc[p] = "writing"
    /\ pidFile' = p
    /\ Becomes(p, "ready")
    /\ UNCHANGED <<holders, commands, parent, told, term, inherit, tmux>>

\* ... and the byte is sent; without a reader the child gives up.
SignalReady(p) ==
    /\ proc[p] = "ready"
    /\ IF parent[p] = Nobody
         THEN Becomes(p, "ending") /\ UNCHANGED told
         ELSE Becomes(p, "serve") /\ told' = [told EXCEPT ![p] = TRUE]
    /\ UNCHANGED <<holders, pidFile, commands, parent, term, inherit, tmux>>

\* Variant: nobody calls Shutdown.
ServeGoesOn(p) ==
    /\ proc[p] = "serve"
    /\ term[p]
    /\ UNCHANGED vars

\* Serve returns after SIGTERM.
ServeReturns(p) ==
    /\ proc[p] = "serve"
    /\ term[p]
    /\ Becomes(p, "ending")
    /\ UNCHANGED <<holders, pidFile, commands, parent, told, term, inherit, tmux>>

\* RemoveChildPIDFile, then child.Close and exit.
RemovePid(p) ==
    /\ proc[p] = "ending"
    /\ RemoveIfOwned(p)
    /\ Becomes(p, "closing")
    /\ UNCHANGED <<holders, commands, parent, told, term, inherit, tmux>>

CloseChild(p) ==
    /\ proc[p] = "closing"
    /\ Ends(p)
    /\ UNCHANGED <<pidFile, commands, tmux>>

-----------------------------------------------------------------------------
(* The rest of the machine *)

\* Somebody kills the child, or it crashes.
ChildKilled(p) ==
    /\ IsDaemon(p)
    /\ Ends(p)
    /\ UNCHANGED <<pidFile, commands, tmux>>

\* Somebody kills a command; init adopts its child.
CommandKilled(c) ==
    /\ pc[c] # "idle"
    /\ Return(c)
    /\ parent' = [p \in Pids |-> IF parent[p] = c THEN Nobody ELSE parent[p]]
    /\ proc' = [p \in Pids |-> IF parent[p] = c /\ proc[p] = "zombie" THEN "free" ELSE proc[p]]
    /\ UNCHANGED <<pidFile, told, term, inherit, tmux>>

\* An unrelated process gets a pid that is not in use, and ends.
OtherStarts(p) ==
    /\ proc[p] = "free"
    /\ Becomes(p, "other")
    /\ UNCHANGED <<holders, pidFile, commands, parent, told, term, inherit, tmux>>

OtherEnds(p) ==
    /\ proc[p] = "other"
    /\ Becomes(p, "free")
    /\ UNCHANGED <<holders, pidFile, commands, parent, told, term, inherit, tmux>>

-----------------------------------------------------------------------------
Invoke(c) == Start(c) \/ Stop(c) \/ Status(c)

\* The steps of a command that are not the wait for somebody else.
Step(c) ==
    \/ Clear(c) \/ SpawnFails(c) \/ (\E p \in Pids : Spawn(c, p))
    \/ WaitDone(c) \/ WaitFails(c) \/ KillAndWait(c) \/ Tidy(c)
    \/ Clean(c) \/ StopRead(c) \/ StatusRead(c) \/ Terminate(c)
    \/ Poll(c) \/ PollExpires(c) \/ SigKill(c) \/ StopTidy(c)

Progress(p) ==
    \/ PrepareChild(p) \/ TruncatePid(p) \/ WritePid(p) \/ SignalReady(p)
    \/ ServeReturns(p) \/ RemovePid(p) \/ CloseChild(p)

Child(p) == Progress(p) \/ RunTmux(p) \/ RunFails(p)

Machine == \/ TmuxExits
           \/ \E p \in Pids : ChildKilled(p) \/ OtherStarts(p) \/ OtherEnds(p)
           \/ \E c \in Commands : CommandKilled(c)

Next == (\E c \in Commands : Invoke(c) \/ Step(c)) \/ (\E p \in Pids : Child(p)) \/ Machine

Spec == Init /\ [][Next]_vars

\* Commands run on, and their timers fire; a child runs on, and once it was
\* sent SIGTERM its server stops (http.Server.Shutdown).
Fairness == /\ \A c \in Commands : WF_vars(Step(c))
            /\ \A p \in Pids : WF_vars(Progress(p))

FairSpec == Spec /\ Fairness

-----------------------------------------------------------------------------
(* Properties *)

\* At no time do two children run, from exec to the release of the lock: two
\* servers would write the same state.json.
OneDaemon == \A p, q \in Pids : IsDaemon(p) /\ IsDaemon(q) => p = q

\* The pid file names the daemon that serves, whatever commands started,
\* stopped, failed, timed out or were killed before and meanwhile: --stop and
\* --status can find it.
PidFileNamesDaemon == \A p \in Pids : proc[p] = "serve" => pidFile = p

\* The lock is never kept by anything but a command or a daemon: when these
\* are gone, --daemon can start again, even if tmux lives on.
LockNotLeaked == \A x \in holders : x \in Commands \/ (x \in Pids /\ IsDaemon(x))

\* While --stop or --status is about to say "not running" or "stopped", and
\* while --daemon is about to say that its child failed to start, no daemon is
\* left, and none can appear before the command has removed the pid file.
NoneLeft ==
    \A c \in Commands : pc[c] \in {"clean", "tidy", "stopTidy"} =>
        holders = {c} /\ \A p \in Pids : ~IsDaemon(p)

\* Every command returns.
CommandsReturn == \A c \in Commands : pc[c] # "idle" ~> pc[c] = "idle"

\* A daemon that was sent SIGTERM ends and gives the lock back.
TermEnds == \A p \in Pids : term[p] ~> ~term[p] /\ p \notin holders

\* --status says "running" only when a daemon runs or is being started.
StatusTruthful ==
    [][\A c \in Commands :
         pc[c] = "idle" /\ pc'[c] = "statusRead" =>
           \/ \E p \in Pids : IsDaemon(p)
           \/ \E d \in holders \cap Commands : pc[d] \in {"clear", "spawn", "wait", "kill", "tidy"}]_vars

\* What misleads --status is a --stop or --status that has the lock just then.
StatusMisledByCommand ==
    [][\A c \in Commands :
         pc[c] = "idle" /\ pc'[c] = "statusRead" =>
           \/ \E p \in Pids : IsDaemon(p)
           \/ \E d \in holders \cap Commands :
                pc[d] \in {"clear", "spawn", "wait", "kill", "tidy", "clean", "stopTidy"}]_vars

\* When waitForReady has the byte, and --daemon is about to say that the server
\* runs, the child it forked itself has served, with the pid file written; it
\* may have ended since.
StartTruthful ==
    \A c \in Commands : pc[c] = "wait" /\ told[own[c]] =>
        proc[own[c]] \in {"serve", "ending", "closing", "zombie"}

-----------------------------------------------------------------------------
(* The inductive invariant: who holds the lock, and what the others may do. *)

Holding == {"clear", "spawn", "wait", "kill", "tidy", "clean", "stopTidy"}

\* A command holds the lock at its Holding points and nowhere else, a child
\* from exec to its end; at most one command and one child hold it, and when
\* both do the command is the start that waits for this child.
LockOK ==
    /\ \A c \in Commands : c \in holders <=> pc[c] \in Holding
    /\ \A p \in Pids : p \in holders <=> IsDaemon(p)
    /\ Tmux \notin holders
    /\ \A c, d \in Commands : pc[c] \in Holding /\ pc[d] \in Holding => c = d
    /\ \A c \in Commands, p \in Pids :
         pc[c] \in Holding /\ IsDaemon(p) => pc[c] \in {"wait", "kill"} /\ own[c] = p

\* A start that waits has a child that no one else can have reaped; a stop that
\* signals has a pid.
OwnOK ==
    \A c \in Commands :
        /\ pc[c] \in {"wait", "kill"} =>
             /\ own[c] \in Pids
             /\ proc[own[c]] \in Daemons \cup {"zombie"}
             /\ parent[own[c]] = c
        /\ pc[c] \in {"tidy", "term", "poll", "sigkill", "lastPoll", "stopTidy"} => own[c] \in Pids

\* From PrepareChild on the lock descriptor is close-on-exec.
InheritOK == \A p \in Pids : proc[p] \in Daemons \ {"exec", "closing"} => ~inherit[p]

PidFileOK == \A p \in Pids : proc[p] \in {"ready", "serve"} => pidFile = p

Inv == TypeOK /\ LockOK /\ OwnOK /\ InheritOK /\ OneDaemon /\ PidFileOK
=============================================================================
