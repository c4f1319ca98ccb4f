----------------------------- MODULE MCSsoConfig ------------------------------
(* Instances of SsoConfig for TLC. *)
EXTENDS SsoConfig, TLC

(* The workers and the primary keys are interchangeable. *)
Symmetry == Permutations(Worker) \cup Permutations(ConfigId)
=============================================================================
