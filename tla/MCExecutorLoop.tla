---------------------------- MODULE MCExecutorLoop ----------------------------
(* A small instance of ExecutorLoop: this device and one other.              *)
EXTENDS ExecutorLoop, TLC

CONSTANTS t1, t2, self, other, jA

MCTasks == {t1, t2}
MCJobOf == (t1 :> jA) @@ (t2 :> jA)
MCMaxAttempts == (t1 :> 2) @@ (t2 :> 1)
MCLeaseTime == (t1 :> 2) @@ (t2 :> 1)
=============================================================================
