--------------------------- MODULE MCTsaTimestamp ----------------------------
(* Instances of TsaTimestamp for TLC. *)
EXTENDS TsaTimestamp
=============================================================================
