----------------------------- MODULE MCSsoLogin -------------------------------
(* Instances of SsoLogin for TLC. *)
EXTENDS SsoLogin, TLC

Symmetry ==
  Permutations(Login) \cup Permutations(Tenant) \cup Permutations(Process)
    \cup Permutations(Slot)
=============================================================================
