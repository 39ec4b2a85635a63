------------------------------ MODULE MCDaemon ------------------------------
(* Instances of Daemon for TLC. *)
EXTENDS Daemon, TLC

Symmetry == Permutations(Commands) \cup Permutations(Pids)
=============================================================================
