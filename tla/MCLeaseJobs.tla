----------------------------- MODULE MCLeaseJobs -----------------------------
(* Small instances of LeaseJobs: a job of two tasks and a job of one.       *)
EXTENDS LeaseJobs, TLC

CONSTANTS jA, jB, t1, t2, t3

MCTasksOf == (jA :> <<t1, t2>>) @@ (jB :> <<t3>>)
=============================================================================
