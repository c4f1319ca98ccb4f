----------------------------- MODULE MCSsoTokens ------------------------------
(* Instances of SsoTokens for TLC: no symmetry, which liveness forbids. *)
EXTENDS SsoTokens, TLC
=============================================================================
