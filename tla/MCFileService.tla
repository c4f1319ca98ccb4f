---------------------------- MODULE MCFileService -----------------------------
(* Instances of FileService for TLC. *)
EXTENDS FileService, TLC

(* The primary keys are interchangeable. *)
Symmetry == Permutations(File) \cup Permutations(Doc)
=============================================================================
