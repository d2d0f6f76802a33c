----------------------------- MODULE MCLocalRun -----------------------------
(* A sweep of two trials, a script on one or two ranks, and a script that   *)
(* raises at its second step.                                               *)
EXTENDS LocalRun

MCWorkloads ==
    {[fanout |-> TRUE, ranks |-> 1, bug |-> 0], [fanout |-> FALSE, ranks |-> 1, bug |-> 2]}
      \cup {[fanout |-> FALSE, ranks |-> 2, bug |-> b] : b \in {0, 2}}

=============================================================================
