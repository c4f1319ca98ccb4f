--------------------------- MODULE MCTenantMembers ---------------------------
(* Instances of TenantMembers for TLC. *)
EXTENDS TenantMembers, TLC

(* Users and workers are interchangeable. *)
Symmetry == Permutations(User) \cup Permutations(Worker)
=============================================================================
