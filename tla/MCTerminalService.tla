-------------------------- MODULE MCTerminalService --------------------------
(* Instances of TerminalService for TLC. *)
EXTENDS TerminalService, TLC

CONSTANTS n1, n2   \* session names, in the order they are offered as defaults

OneDefault == <<n1>>
TwoDefaults == <<n1, n2>>

\* n1 is a prefix of every other name, as "app-1" is of "app-10" and "app-12".
N1Prefix == [n \in Names |-> IF n = n1 THEN Names \ {n1} ELSE {}]

\* How many crashes, failed flushes, cancelled contexts and exited sessions.
Faults(c, f, x, e) == [crash |-> c, flush |-> f, cancel |-> x, exit |-> e]
NoFaults == Faults(0, 0, 0, 0)
CrashFlushExit == Faults(2, 1, 0, 2)
CrashAndCancel == Faults(1, 0, 1, 0)
CrashAndFlush == Faults(1, 1, 0, 0)
CrashCancelExit == Faults(1, 0, 1, 1)

Symmetry == Permutations(Requests) \cup Permutations(Terminals) \cup Permutations(Workspaces)
=============================================================================
