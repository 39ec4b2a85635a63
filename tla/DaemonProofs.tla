---------------------------- MODULE DaemonProofs ----------------------------
(***************************************************************************)
(* For any number of commands and pids: at most one daemon runs, the pid   *)
(* file names the one that serves, the lock is never leaked, a command     *)
(* that is about to report that nothing runs is right, and so is a start   *)
(* that is about to report success.                                        *)
(***************************************************************************)
EXTENDS Daemon, TLAPS

USE DEF IsDaemon, Daemons, Holding, children, commands,
        FileType, CommandType, ProcessType, FlagType

\* Nothing runs and nobody holds the lock at first.
LEMMA InitInv == Init => Inv
  BY PidAssumption DEF Init, Inv, TypeOK, LockOK, OwnOK, InheritOK, OneDaemon, PidFileOK,
     Points, Processes

\* The first attempt of start, stop and status to take the lock.
LEMMA InvokeKeeps == ASSUME Inv, NEW c \in Commands, Invoke(c) PROVE Inv'
<1> USE DEF Inv, TypeOK, Invoke, Start, Stop, Status, Goto, Return, Free
<1>1. TypeOK'
  <2>1. FileType'
    OBVIOUS
  <2>2. CommandType'
    BY DEF Points
  <2>3. ProcessType'
    BY DEF OwnOK, Processes
  <2>4. FlagType'
    OBVIOUS
  <2> QED
    BY <2>1, <2>2, <2>3, <2>4 DEF TypeOK
<1>2. LockOK'
  BY ProcessAssumption DEF LockOK, OwnOK, OneDaemon, InheritOK
<1>3. OwnOK'
  BY ProcessAssumption DEF OwnOK, LockOK
<1>4. InheritOK' /\ OneDaemon'
  BY DEF InheritOK, OneDaemon, LockOK, OwnOK
<1>5. PidFileOK'
  BY PidAssumption DEF PidFileOK, OneDaemon, LockOK, OwnOK
<1> QED
  BY <1>1, <1>2, <1>3, <1>4, <1>5

\* start before it has a child: it holds the lock, so the pid file is nobody's.
LEMMA PrepareStartKeeps == ASSUME Inv, NEW c \in Commands, Clear(c) \/ SpawnFails(c) PROVE Inv'
<1> USE DEF Inv, TypeOK, Clear, SpawnFails, Goto, Return
<1>1. TypeOK'
  <2>1. FileType'
    OBVIOUS
  <2>2. CommandType'
    BY DEF Points
  <2>3. ProcessType'
    BY DEF OwnOK, Processes
  <2>4. FlagType'
    OBVIOUS
  <2> QED
    BY <2>1, <2>2, <2>3, <2>4 DEF TypeOK
<1>2. LockOK'
  BY ProcessAssumption DEF LockOK, OwnOK, OneDaemon, InheritOK
<1>3. OwnOK'
  BY ProcessAssumption DEF OwnOK, LockOK
<1>4. InheritOK' /\ OneDaemon'
  BY DEF InheritOK, OneDaemon, LockOK, OwnOK
<1>5. PidFileOK'
  BY PidAssumption DEF PidFileOK, OneDaemon, LockOK, OwnOK
<1> QED
  BY <1>1, <1>2, <1>3, <1>4, <1>5

\* The child shares the lock of its start, which held it alone.
LEMMA SpawnKeeps == ASSUME Inv, NEW c \in Commands, NEW p \in Pids, Spawn(c, p) PROVE Inv'
<1> USE DEF Inv, TypeOK, Spawn
<1>1. TypeOK'
  <2>1. FileType'
    OBVIOUS
  <2>2. CommandType'
    BY DEF Points
  <2>3. ProcessType'
    BY DEF OwnOK, Processes
  <2>4. FlagType'
    OBVIOUS
  <2> QED
    BY <2>1, <2>2, <2>3, <2>4 DEF TypeOK
<1>2. LockOK'
  BY ProcessAssumption DEF LockOK, OwnOK, OneDaemon, InheritOK
<1>3. OwnOK'
  BY ProcessAssumption DEF OwnOK, LockOK
<1>4. InheritOK' /\ OneDaemon'
  BY DEF InheritOK, OneDaemon, LockOK, OwnOK
<1>5. PidFileOK'
  BY PidAssumption DEF PidFileOK, OneDaemon, LockOK, OwnOK
<1> QED
  BY <1>1, <1>2, <1>3, <1>4, <1>5

\* The wait for the readiness byte, and the kill when it does not come.
LEMMA WaitKeeps == ASSUME Inv, NEW c \in Commands, WaitDone(c) \/ WaitFails(c) \/ KillAndWait(c) PROVE Inv'
<1> USE DEF Inv, TypeOK, WaitDone, WaitFails, KillAndWait, Goto, Return
<1>1. TypeOK'
  <2>1. FileType'
    OBVIOUS
  <2>2. CommandType'
    BY DEF Points
  <2>3. ProcessType'
    BY DEF OwnOK, Processes
  <2>4. FlagType'
    OBVIOUS
  <2> QED
    BY <2>1, <2>2, <2>3, <2>4 DEF TypeOK
<1>2. LockOK'
  BY ProcessAssumption DEF LockOK, OwnOK, OneDaemon, InheritOK
<1>3. OwnOK'
  BY ProcessAssumption DEF OwnOK, LockOK
<1>4. InheritOK' /\ OneDaemon'
  BY DEF InheritOK, OneDaemon, LockOK, OwnOK
<1>5. PidFileOK'
  BY PidAssumption DEF PidFileOK, OneDaemon, LockOK, OwnOK
<1> QED
  BY <1>1, <1>2, <1>3, <1>4, <1>5

\* The removals of the pid file happen under the lock, when no daemon is left.
LEMMA TidyKeeps == ASSUME Inv, NEW c \in Commands, Tidy(c) \/ StopTidy(c) \/ Clean(c) PROVE Inv'
<1> USE DEF Inv, TypeOK, Tidy, StopTidy, Clean, Return, RemoveIfOwned, RemovePidFile
<1>1. TypeOK'
  <2>1. FileType'
    OBVIOUS
  <2>2. CommandType'
    BY DEF Points
  <2>3. ProcessType'
    BY DEF OwnOK, Processes
  <2>4. FlagType'
    OBVIOUS
  <2> QED
    BY <2>1, <2>2, <2>3, <2>4 DEF TypeOK
<1>2. LockOK'
  BY ProcessAssumption DEF LockOK, OwnOK, OneDaemon, InheritOK
<1>3. OwnOK'
  BY ProcessAssumption DEF OwnOK, LockOK
<1>4. InheritOK' /\ OneDaemon'
  BY DEF InheritOK, OneDaemon, LockOK, OwnOK
<1>5. PidFileOK'
  BY PidAssumption DEF PidFileOK, OneDaemon, LockOK, OwnOK
<1> QED
  BY <1>1, <1>2, <1>3, <1>4, <1>5

\* The reads, signals and polls of stop and status.
LEMMA StopKeeps == ASSUME Inv, NEW c \in Commands, StopRead(c) \/ StatusRead(c) \/ Terminate(c) \/ Poll(c) \/ PollExpires(c) PROVE Inv'
<1> USE DEF Inv, TypeOK, StopRead, StatusRead, Terminate, Poll, PollExpires, Goto, Return, Free
<1>1. TypeOK'
  <2>1. FileType'
    OBVIOUS
  <2>2. CommandType'
    BY DEF Points
  <2>3. ProcessType'
    BY DEF OwnOK, Processes
  <2>4. FlagType'
    OBVIOUS
  <2> QED
    BY <2>1, <2>2, <2>3, <2>4 DEF TypeOK
<1>2. LockOK'
  BY ProcessAssumption DEF LockOK, OwnOK, OneDaemon, InheritOK
<1>3. OwnOK'
  BY ProcessAssumption DEF OwnOK, LockOK
<1>4. InheritOK' /\ OneDaemon'
  BY DEF InheritOK, OneDaemon, LockOK, OwnOK
<1>5. PidFileOK'
  BY PidAssumption DEF PidFileOK, OneDaemon, LockOK, OwnOK
<1> QED
  BY <1>1, <1>2, <1>3, <1>4, <1>5

\* SIGKILL, whatever runs under the pid by then.
LEMMA SigKillKeeps == ASSUME Inv, NEW c \in Commands, SigKill(c) PROVE Inv'
<1> USE DEF Inv, TypeOK, SigKill, Ends, Goto, Return
<1>1. TypeOK'
  <2>1. FileType'
    OBVIOUS
  <2>2. CommandType'
    BY DEF Points
  <2>3. ProcessType'
    BY DEF OwnOK, Processes
  <2>4. FlagType'
    OBVIOUS
  <2> QED
    BY <2>1, <2>2, <2>3, <2>4 DEF TypeOK
<1>2. LockOK'
  BY ProcessAssumption DEF LockOK, OwnOK, OneDaemon, InheritOK
<1>3. OwnOK'
  BY ProcessAssumption DEF OwnOK, LockOK
<1>4. InheritOK' /\ OneDaemon'
  BY DEF InheritOK, OneDaemon, LockOK, OwnOK
<1>5. PidFileOK'
  BY PidAssumption DEF PidFileOK, OneDaemon, LockOK, OwnOK
<1> QED
  BY <1>1, <1>2, <1>3, <1>4, <1>5

\* The steps of a child up to its end: it is the only one, so the pid file is its own.
LEMMA ChildKeeps == ASSUME Inv, NEW p \in Pids, Child(p) PROVE Inv'
<1> USE DEF Inv, TypeOK, Child, Progress, PrepareChild, TruncatePid, WritePid, SignalReady, ServeReturns,
            RemovePid, CloseChild, RunTmux, RunFails, Becomes, RemoveIfOwned, RemovePidFile, Ends
<1>1. TypeOK'
  <2>1. FileType'
    OBVIOUS
  <2>2. CommandType'
    BY DEF Points
  <2>3. ProcessType'
    BY DEF OwnOK, Processes
  <2>4. FlagType'
    OBVIOUS
  <2> QED
    BY <2>1, <2>2, <2>3, <2>4 DEF TypeOK
<1>2. LockOK'
  BY ProcessAssumption DEF LockOK, OwnOK, OneDaemon, InheritOK
<1>3. OwnOK'
  BY ProcessAssumption DEF OwnOK, LockOK
<1>4. InheritOK' /\ OneDaemon'
  BY DEF InheritOK, OneDaemon, LockOK, OwnOK
<1>5. PidFileOK'
  BY PidAssumption DEF PidFileOK, OneDaemon, LockOK, OwnOK
<1> QED
  BY <1>1, <1>2, <1>3, <1>4, <1>5

\* Kills, and processes that have nothing to do with the daemon.
LEMMA MachineKeeps == ASSUME Inv, Machine PROVE Inv'
<1> USE DEF Inv, TypeOK, Machine, TmuxExits, ChildKilled, OtherStarts, OtherEnds, CommandKilled, Becomes, Ends, Return
<1>1. TypeOK'
  <2>1. FileType'
    OBVIOUS
  <2>2. CommandType'
    BY DEF Points
  <2>3. ProcessType'
    BY DEF OwnOK, Processes
  <2>4. FlagType'
    OBVIOUS
  <2> QED
    BY <2>1, <2>2, <2>3, <2>4 DEF TypeOK
<1>2. LockOK'
  BY ProcessAssumption DEF LockOK, OwnOK, OneDaemon, InheritOK
<1>3. OwnOK'
  BY ProcessAssumption DEF OwnOK, LockOK
<1>4. InheritOK' /\ OneDaemon'
  BY DEF InheritOK, OneDaemon, LockOK, OwnOK
<1>5. PidFileOK'
  BY PidAssumption DEF PidFileOK, OneDaemon, LockOK, OwnOK
<1> QED
  BY <1>1, <1>2, <1>3, <1>4, <1>5

\* Every step keeps the invariant.
LEMMA NextInv == Inv /\ [Next]_vars => Inv'
<1> SUFFICES ASSUME Inv, [Next]_vars PROVE Inv'
  OBVIOUS
<1>1. CASE UNCHANGED vars
  BY <1>1 DEF vars, Inv, TypeOK, LockOK, OwnOK, InheritOK, OneDaemon, PidFileOK
<1>2. ASSUME NEW c \in Commands, Step(c) PROVE Inv'
  BY <1>2, PrepareStartKeeps, SpawnKeeps, WaitKeeps, TidyKeeps, StopKeeps, SigKillKeeps DEF Step
<1> QED
  BY <1>1, <1>2, InvokeKeeps, ChildKeeps, MachineKeeps DEF Next

\* The inductive invariant holds throughout: the lock has at most one start and
\* its child, or one other command, for holders.
THEOREM DaemonInv == Spec => []Inv
<1>1. Inv /\ [Next]_vars => Inv'
  BY NextInv
<1> QED
  BY <1>1, InitInv, PTL DEF Spec

\* Two daemons never run at the same time, in whatever order --daemon, --stop,
\* --status, timeouts and kills come.
THEOREM AtMostOneDaemon == Spec => []OneDaemon
<1>1. Inv => OneDaemon
  BY DEF Inv
<1> QED
  BY <1>1, DaemonInv, PTL

\* The pid file names the daemon that serves.
THEOREM ServingDaemonIsNamed == Spec => []PidFileNamesDaemon
<1>1. Inv => PidFileNamesDaemon
  BY DEF Inv, PidFileOK, PidFileNamesDaemon
<1> QED
  BY <1>1, DaemonInv, PTL

\* Only commands and daemons keep the lock, so that it is free once they ended.
THEOREM LockIsNotLeaked == Spec => []LockNotLeaked
<1>1. Inv => LockNotLeaked
  BY DEF Inv, TypeOK, LockOK, LockNotLeaked
<1> QED
  BY <1>1, DaemonInv, PTL

\* "stopped", "not running" and "failed to start" are said with the lock in
\* hand and no daemon left.
THEOREM NoneIsLeft == Spec => []NoneLeft
<1>1. Inv => NoneLeft
  BY DEF Inv, TypeOK, LockOK, NoneLeft
<1> QED
  BY <1>1, DaemonInv, PTL

\* The lock, the pid file, the commands and the processes stay in the states the
\* code knows.
THEOREM DaemonTypes == Spec => []TypeOK
<1>1. Inv => TypeOK
  BY DEF Inv
<1> QED
  BY <1>1, DaemonInv, PTL

-----------------------------------------------------------------------------
(* What the commands say *)

\* A child has the readiness byte behind it only once it served.
ToldOK == \A p \in Pids : IsDaemon(p) /\ told[p] => proc[p] \in {"serve", "ending", "closing"}

\* Commands keep it: a start clears the flag of the child it forks.
LEMMA ToldByCommand ==
    ASSUME Inv, ToldOK, NEW c \in Commands, Invoke(c) \/ Step(c) PROVE ToldOK'
<1> USE DEF Inv, TypeOK, ToldOK
<1>1. CASE Invoke(c)
  BY <1>1 DEF Invoke, Start, Stop, Status
<1>2. CASE \E p \in Pids : Spawn(c, p)
  BY <1>2 DEF Spawn
<1>3. CASE WaitDone(c) \/ KillAndWait(c)
  BY <1>3 DEF WaitDone, KillAndWait, OwnOK
<1>4. CASE SigKill(c)
  BY <1>4 DEF SigKill, Ends, OwnOK
<1>5. CASE UNCHANGED <<proc, told>>
  BY <1>5
<1> QED
  BY <1>1, <1>2, <1>3, <1>4, <1>5
     DEF Step, Clear, SpawnFails, WaitFails, Tidy, Clean, StopRead, StatusRead, Terminate,
         Poll, PollExpires, StopTidy

\* The child and the machine keep it.
LEMMA ToldByOthers ==
    ASSUME Inv, ToldOK, (\E p \in Pids : Child(p)) \/ Machine PROVE ToldOK'
<1> USE DEF Inv, TypeOK, ToldOK
<1>1. ASSUME NEW p \in Pids, Child(p) PROVE ToldOK'
  BY <1>1 DEF Child, Progress, PrepareChild, TruncatePid, WritePid, SignalReady, ServeReturns,
              RemovePid, CloseChild, RunTmux, RunFails, Becomes, Ends
<1>2. CASE Machine
  BY <1>2 DEF Machine, TmuxExits, ChildKilled, OtherStarts, OtherEnds, CommandKilled, Becomes, Ends
<1> QED
  BY <1>1, <1>2

\* --daemon reports success only for a child of its own that has served, pid
\* file and all: no byte of an earlier child that had the same pid counts.
THEOREM StartIsTruthful == Spec => []StartTruthful
<1>1. Init => ToldOK
  BY DEF Init, ToldOK
<1>2. Inv /\ ToldOK /\ [Next]_vars => ToldOK'
  <2> SUFFICES ASSUME Inv, ToldOK, [Next]_vars PROVE ToldOK'
    OBVIOUS
  <2>1. CASE UNCHANGED vars
    BY <2>1 DEF vars, ToldOK
  <2> QED
    BY <2>1, ToldByCommand, ToldByOthers DEF Next
<1>3. Inv /\ ToldOK => StartTruthful
  BY DEF Inv, OwnOK, ToldOK, StartTruthful
<1> QED
  BY <1>1, <1>2, <1>3, DaemonInv, PTL DEF Spec

\* --status says "running" only when a daemon runs, a start is under way, or
\* another --stop or --status has the lock for a moment - never because of a
\* lock that was left behind.
THEOREM StatusIsMisledByCommandsOnly == Spec => StatusMisledByCommand
<1> DEFINE Said == \A c \in Commands :
             pc[c] = "idle" /\ pc'[c] = "statusRead" =>
               \/ \E p \in Pids : IsDaemon(p)
               \/ \E d \in holders \cap Commands :
                    pc[d] \in {"clear", "spawn", "wait", "kill", "tidy", "clean", "stopTidy"}
<1>1. Inv /\ [Next]_vars => [Said]_vars
  <2> SUFFICES ASSUME Inv, Next, NEW c \in Commands, pc[c] = "idle", pc'[c] = "statusRead"
               PROVE  \/ \E p \in Pids : IsDaemon(p)
                      \/ \E d \in holders \cap Commands :
                           pc[d] \in {"clear", "spawn", "wait", "kill", "tidy", "clean", "stopTidy"}
    OBVIOUS
  <2> USE DEF Inv, TypeOK
  <2>1. CASE holders # {}
    BY <2>1 DEF LockOK
  <2>2. CASE holders = {}
    <3>1. ASSUME NEW d \in Commands, Invoke(d) PROVE FALSE
      BY <2>2, <3>1 DEF Invoke, Start, Stop, Status, Free, Goto, Return
    <3>2. ASSUME NEW d \in Commands, Step(d) PROVE FALSE
      BY <3>2 DEF Step, Clear, SpawnFails, Spawn, WaitDone, WaitFails, KillAndWait, Tidy, Clean,
                  StopRead, StatusRead, Terminate, Poll, PollExpires, SigKill, StopTidy, Goto, Return
    <3>3. ASSUME NEW p \in Pids, Child(p) PROVE FALSE
      BY <3>3 DEF Child, Progress, PrepareChild, TruncatePid, WritePid, SignalReady, ServeReturns,
                  RemovePid, CloseChild, RunTmux, RunFails
    <3>4. ~Machine
      BY DEF Machine, TmuxExits, ChildKilled, OtherStarts, OtherEnds, CommandKilled, Return
    <3> QED
      BY <3>1, <3>2, <3>3, <3>4 DEF Next
  <2> QED
    BY <2>1, <2>2
<1> QED
  BY <1>1, DaemonInv, PTL DEF Spec, StatusMisledByCommand
=============================================================================
