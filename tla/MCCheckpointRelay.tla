-------------------------- MODULE MCCheckpointRelay --------------------------
(* A small instance of CheckpointRelay: two attempts on two nodes.          *)
EXTENDS CheckpointRelay
=============================================================================
