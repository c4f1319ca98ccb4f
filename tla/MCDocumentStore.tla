--------------------------- MODULE MCDocumentStore ---------------------------
(* Instances of DocumentStore for TLC: no symmetry, which liveness forbids. *)
EXTENDS DocumentStore, TLC
=============================================================================
