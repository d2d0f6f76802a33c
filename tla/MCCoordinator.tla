---------------------------- MODULE MCCoordinator ----------------------------
(* Small instances of Coordinator: two tasks of two jobs, two nodes; the    *)
(* second task is only for nodes that are in its pool.                      *)
EXTENDS Coordinator

CONSTANTS t1, t2, n1, n2, jA, jB, plain, pooled

MCTasks == {t1, t2}
MCJobOf == (t1 :> jA) @@ (t2 :> jB)
MCOffers == (n1 :> {plain}) @@ (n2 :> {plain, pooled})
MCEligible == (plain :> {t1}) @@ (pooled :> {t1, t2})
MCMaxAttempts == (t1 :> 2) @@ (t2 :> 1)
MCLeaseTime == (t1 :> 1) @@ (t2 :> 1)
=============================================================================
