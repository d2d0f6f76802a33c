----------------------------- MODULE Expansion -----------------------------
(***************************************************************************)
(* From a lease-mode JobSpec to the requirements its tasks carry:          *)
(* expand_tasks, _expand_kmeans, _expand_fedavg and _lease_seconds         *)
(* (service/modea.py), CommandRecipe (recipes/command.py), to_jobspec      *)
(* (workloads/command.py) and the validators of v1alpha1.  No state.       *)
(*                                                                         *)
(* All tasks of a job carry the same requirements, so one payload stands   *)
(* for them.  A job is a record: type, the number of its tasks, pool, tier,*)
(* waived (isolation.allowFallback), gpuPerTask, local_inputs, lease (in   *)
(* seconds, Unbounded or NotANumber) and the defects of its parameters.    *)
(***************************************************************************)
EXTENDS Placement

CONSTANTS Unbounded, NotANumber

JobSpec ==
    [type : STRING, count : Nat, pool : STRING, tier : STRING, waived : BOOLEAN, gpus : Nat,
     local_inputs : {Absent} \cup SUBSET STRING, lease : {Unbounded, NotANumber} \cup Int,
     defects : SUBSET STRING]

LegacyType == {"hyperparameter_search", "sharded_kmeans", "federated_averaging"}

MAX_LEASE_SECONDS == 3600

\* What the parameters of each type are refused for.
Defects(type) ==
    CASE type = "command" ->
            {"no_argv", "foreign_input", "task_params", "unpack_mistyped", "unpack_twice",
             "unpack_undeclared", "placeholder"}
      [] type = "hyperparameter_search" -> {"no_trials", "module", "foreign_input"}
      [] type = "sharded_kmeans" -> {"no_shards", "no_centroids", "foreign_input"}
      [] type = "federated_averaging" -> {"num_shards", "foreign_input", "missing_params"}
      [] OTHER -> {}

\* What no JobSpec may hold, whatever its backend.
SpecRefused(job) ==
    job.defects \cap {"latest_image", "worker_range", "job_name", "foreign_prefix"} # {}

\* _lease_seconds of the legacy expansions.
LeaseRefused(job) == job.lease \in {NotANumber, Unbounded} \/ job.lease <= 0

ClampedLease(job) ==
    IF job.lease > MAX_LEASE_SECONDS THEN MAX_LEASE_SECONDS ELSE job.lease

LegacyRefused(job) == job.defects \cap Defects(job.type) # {} \/ LeaseRefused(job)

\* CommandRecipe.expand: a waiver needs a pool, another tier needs the operator's leave,
\* and TaskSpec wants a positive lease.
CommandRefused(job, trusted_fleet) ==
    \/ job.waived /\ job.pool = "any"
    \/ job.tier # "sandboxed" /\ ~trusted_fleet
    \/ job.defects \cap Defects("command") # {}
    \/ job.lease = NotANumber
    \/ job.lease # Unbounded /\ job.lease <= 0

Refused(job, trusted_fleet) ==
    \/ SpecRefused(job)
    \/ job.type \notin LegacyType \cup {"command"}
    \/ job.type \in LegacyType /\ LegacyRefused(job)
    \/ job.type = "command" /\ CommandRefused(job, trusted_fleet)

Isolation(job) == [tier |-> job.tier, waived |-> job.waived]

PoolOf(job) == IF job.pool = "any" THEN Absent ELSE job.pool

LegacyPayload(job) ==
    [kind |-> "module", pool |-> PoolOf(job), isolation |-> Isolation(job),
     local_inputs |-> Absent, gpus |-> Absent, exclude_nodes |-> Absent]

\* The forwards of the command payload with the one read from spec.resources left out.
CommandPayloadWithoutGpus(job) ==
    [kind |-> "argv", pool |-> PoolOf(job), isolation |-> Isolation(job),
     local_inputs |-> job.local_inputs, gpus |-> Absent, exclude_nodes |-> Absent]

CommandPayload(job) ==
    [kind |-> "argv", pool |-> PoolOf(job), isolation |-> Isolation(job),
     local_inputs |-> job.local_inputs,
     gpus |-> IF job.gpus = 0 THEN Absent ELSE job.gpus, exclude_nodes |-> Absent]

Payload(job) == IF job.type = "command" THEN CommandPayload(job) ELSE LegacyPayload(job)

LeaseOf(job) == IF job.type = "command" THEN job.lease ELSE ClampedLease(job)

\* to_jobspec: of a command workload's description only these parts reach the wire; the
\* hardware it asks for does not.
ToJobSpec(workload) ==
    [type |-> "command", count |-> workload.count, pool |-> "any", tier |-> workload.tier,
     waived |-> workload.waived, gpus |-> 0, local_inputs |-> Absent, lease |-> 60,
     defects |-> workload.defects]
=============================================================================
