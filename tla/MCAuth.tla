------------------------------- MODULE MCAuth -------------------------------
(* Instances of AuthSessions for TLC. *)
EXTENDS AuthSessions, TLC

Symmetry == Permutations(Clients) \cup Permutations(Handlers) \cup Permutations(Tokens)
=============================================================================
