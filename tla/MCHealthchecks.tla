---------------------------- MODULE MCHealthchecks ----------------------------
(* Instances of Healthchecks for TLC. *)
EXTENDS Healthchecks, TLC

Symmetry ==
  Permutations(Service) \cup Permutations(Uuid) \cup Permutations(Admin)
  \cup Permutations(Process)
===============================================================================
