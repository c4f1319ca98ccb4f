---------------------------- MODULE MCAuthSession -----------------------------
(* Instances of AuthSession for TLC. *)
EXTENDS AuthSession, TLC

(* The processes and the identifiers of tokens are interchangeable. *)
Symmetry == Permutations(Process) \cup Permutations(Token)
=============================================================================
