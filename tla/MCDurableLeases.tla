--------------------------- MODULE MCDurableLeases ---------------------------
(* Small instances of DurableLeases: two tasks of one job, two nodes; the   *)
(* first task has two attempts and only one node may have the second.       *)
EXTENDS DurableLeases, TLC

CONSTANTS t1, t2, n1, n2, jA

MCTasks == {t1, t2}
MCJobOf == (t1 :> jA) @@ (t2 :> jA)
MCFits == (n1 :> {t1, t2}) @@ (n2 :> {t1})
MCMaxAttempts == (t1 :> 2) @@ (t2 :> 1)
MCLeaseTime == (t1 :> 1) @@ (t2 :> 1)
=============================================================================
