--------------------------- MODULE MCLeaseManager ---------------------------
(* A small instance of LeaseManager: three tasks of two jobs, two nodes, one *)
(* task that only one of the nodes may have.                                *)
EXTENDS LeaseManager, TLC

CONSTANTS t1, t2, t3, n1, n2, jA, jB

MCTasks == {t1, t2, t3}
MCJobOf == (t1 :> jA) @@ (t2 :> jA) @@ (t3 :> jB)
MCFits == (n1 :> {t1, t2}) @@ (n2 :> {t2, t3})
MCMaxAttempts == (t1 :> 2) @@ (t2 :> 2) @@ (t3 :> 1)
MCLeaseTime == (t1 :> 2) @@ (t2 :> 1) @@ (t3 :> 1)
=============================================================================
