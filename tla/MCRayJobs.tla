----------------------------- MODULE MCRayJobs -----------------------------
(* A small instance of RayJobs: worker names in the order of the API's list. *)
EXTENDS RayJobs, TLC

CONSTANTS c1, c2
=============================================================================
