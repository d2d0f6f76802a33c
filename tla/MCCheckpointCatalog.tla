------------------------- MODULE MCCheckpointCatalog -------------------------
(* A small instance of CheckpointCatalog: one task, one attempt, two steps, *)
(* two parts of two contents, three manifests.  Parts and contents are      *)
(* interchangeable.                                                         *)
EXTENDS CheckpointCatalog, TLC

Symmetry == Permutations(Keys) \cup Permutations(Hashes)
=============================================================================
