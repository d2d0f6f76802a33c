------------------------------ MODULE Recovery ------------------------------
(***************************************************************************)
(* What is made of a failure: the signals of a local process               *)
(* (recovery/signals.py), their class (recovery/taxonomy.py) and the       *)
(* action the policy takes for it (recovery/policy.py).  No state.         *)
(*                                                                         *)
(* A log and a message are the sets of the markers found in them.          *)
(***************************************************************************)
EXTENDS Naturals, Sequences, FiniteSets

Mode == {"independent_tasks", "coordinated_training"}

\* The default of every signal: nothing was observed.
NoSignals ==
    [exit |-> "none", deterministic |-> FALSE, heartbeat_lost |-> FALSE,
     node_unreachable |-> FALSE, xid |-> FALSE, driver_fault |-> FALSE,
     hash_mismatch |-> FALSE, validation_failed |-> FALSE, preempted |-> FALSE,
     storage_errors |-> 0, control_plane |-> FALSE, concurrent |-> 1, message |-> {}]

CORRELATED_THRESHOLD == 3

(***************************************************************************)
(* classify: the classes in their order of precedence, each with its       *)
(* evidence                                                                *)
(***************************************************************************)
Precedence ==
    <<"CORRELATED_INCIDENT", "CONTROL_PLANE_FAILURE", "PREEMPTION", "ACCELERATOR_FAILURE",
      "NODE_LOSS", "COMMUNICATION_ERROR", "STORAGE_TIMEOUT", "ARTIFACT_CORRUPTION",
      "APPLICATION_ERROR", "WORKER_CRASH", "UNKNOWN">>

Evidence(class, s) ==
    CASE class = "CORRELATED_INCIDENT" -> s.concurrent >= CORRELATED_THRESHOLD
      [] class = "CONTROL_PLANE_FAILURE" -> s.control_plane
      [] class = "PREEMPTION" -> s.preempted
      [] class = "ACCELERATOR_FAILURE" -> s.xid \/ s.driver_fault
      [] class = "NODE_LOSS" -> s.heartbeat_lost \/ s.node_unreachable
      [] class = "COMMUNICATION_ERROR" -> "comm" \in s.message
      [] class = "STORAGE_TIMEOUT" -> s.storage_errors > 0 \/ "storage" \in s.message
      [] class = "ARTIFACT_CORRUPTION" -> s.hash_mismatch \/ s.validation_failed
      [] class = "APPLICATION_ERROR" -> s.exit = "nonzero" /\ s.deterministic
      [] class = "WORKER_CRASH" -> s.exit = "nonzero"
      [] OTHER -> TRUE

\* classify with the process's evidence before the node's and the system's.
ClassifyByProcess(s) ==
    IF Evidence("APPLICATION_ERROR", s) THEN "APPLICATION_ERROR"
    ELSE IF Evidence("WORKER_CRASH", s) THEN "WORKER_CRASH"
    ELSE Precedence[CHOOSE k \in DOMAIN Precedence :
                       /\ Evidence(Precedence[k], s)
                       /\ \A j \in 1 .. k - 1 : ~Evidence(Precedence[j], s)]

Classify(s) ==
    Precedence[CHOOSE k \in DOMAIN Precedence :
                  /\ Evidence(Precedence[k], s)
                  /\ \A j \in 1 .. k - 1 : ~Evidence(Precedence[j], s)]

(***************************************************************************)
(* decide: the table of the policy, DATA_ERROR and NETWORK_DEGRADATION     *)
(* included, which classify never returns                                  *)
(***************************************************************************)
ActionAlone(class) ==
    CASE class = "APPLICATION_ERROR" -> "FAIL_JOB"
      [] class \in {"STORAGE_TIMEOUT", "CONTROL_PLANE_FAILURE"} -> "PAUSE_JOB"
      [] class = "CORRELATED_INCIDENT" -> "FREEZE_AUTOMATION"
      [] OTHER -> "RETRY_TASK"

ActionOfGroup(class) ==
    CASE class \in {"APPLICATION_ERROR", "DATA_ERROR"} -> "FAIL_JOB"
      [] class \in {"STORAGE_TIMEOUT", "CONTROL_PLANE_FAILURE", "UNKNOWN"} -> "PAUSE_JOB"
      [] class = "CORRELATED_INCIDENT" -> "FREEZE_AUTOMATION"
      [] class \in {"NODE_LOSS", "ACCELERATOR_FAILURE", "PREEMPTION"} -> "REPLACE_NODE"
      [] OTHER -> "RESTART_GROUP"

Cordons(class) == class \in {"NODE_LOSS", "ACCELERATOR_FAILURE"}

NeedsCheckpoint(action) == action \in {"RESTART_GROUP", "REPLACE_NODE"}

Decide(class, mode) ==
    LET action == IF mode = "independent_tasks" THEN ActionAlone(class) ELSE ActionOfGroup(class)
    IN  [action |-> action,
         cordon |-> Cordons(class),
         checkpoint |-> NeedsCheckpoint(action) \/ (class = "UNKNOWN" /\ mode = "coordinated_training")]

(***************************************************************************)
(* from_local_launch: exit code and log of a local process                 *)
(***************************************************************************)

\* Without the exception for the traceback torchrun prints for every death.
DeterministicByTraceback(log) == "named" \in log \/ "traceback" \in log

\* The exit code "none" is a process that never started.  A named error is one of the
\* deterministic types on the last line of a traceback.
Deterministic(log) ==
    \/ "named" \in log
    \/ "traceback" \in log /\ "wrapper" \notin log

FromLocalLaunch(exit, log) ==
    [NoSignals EXCEPT !.exit = exit,
                      !.deterministic = exit = "nonzero" /\ Deterministic(log)]
=============================================================================
