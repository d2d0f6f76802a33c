----------------------------- MODULE Placement -----------------------------
(***************************************************************************)
(* IsolationAwarePlacement (scheduler/__init__.py) and the node view the   *)
(* claim route builds for it (service/modea.py).  No state.                *)
(*                                                                         *)
(* A requirement of a task is Absent, Confused (a value of the wrong type, *)
(* or one with a member of the wrong type) or a value: a set of names, a   *)
(* number, or an isolation block [tier, waived].  An advertisement of a    *)
(* node is Confused or a value.  waived and the capability flags stand for *)
(* "is the genuine boolean True".                                          *)
(***************************************************************************)
EXTENDS Integers, FiniteSets

CONSTANTS Absent, Confused

\* What a task says of its isolation, and a field of its payload: left out, of the wrong
\* type, or a value.
IsolationBlock == [tier : {Absent} \cup STRING, waived : BOOLEAN]

ASSUME RequirementAssumption ==
    /\ Absent # Confused
    /\ \A x \in {Absent, Confused} : x \notin STRING /\ x \notin Int /\ x \notin IsolationBlock

Requirement(values) == {Absent, Confused} \cup values

Requirements ==
    [kind : {"argv", "module"}, pool : Requirement(STRING), isolation : Requirement(IsolationBlock),
     local_inputs : Requirement(SUBSET STRING), gpus : Requirement(Int),
     exclude_nodes : Requirement(SUBSET STRING)]

\* What a node registered, as the coordinator hands it to the policy.
Advertisement ==
    [node_id : STRING, sandbox_capable : BOOLEAN, argv_capable : BOOLEAN,
     unsandboxed_argv_capable : BOOLEAN, module_capable : BOOLEAN,
     local_datasets : {Confused} \cup SUBSET STRING, gpus : {Confused} \cup Int,
     pools : {Confused} \cup SUBSET STRING]

Given(requirement) == requirement # Absent

\* A name that asks for something: neither missing, nor mistyped, nor "".
IsName(x) == x \notin {Absent, Confused, ""}

WaivesIsolation(task) ==
    task.isolation \notin {Absent, Confused} /\ task.isolation.waived

\* Gate 1, fail closed: argv goes to a containerised runner, or to an opted-in host
\* for a pool's task whose submitter waived the sandbox.
ArgvGate(task, node) ==
    task.kind = "argv" =>
        \/ node.argv_capable
        \/ IsName(task.pool) /\ WaivesIsolation(task) /\ node.unsandboxed_argv_capable

\* Gate 2, fail open: only a host that says it runs no module is left out.
ModuleGate(task, node) == task.kind = "module" => node.module_capable

\* Gate 3: data the host lends.
LocalDataGate(task, node) ==
    Given(task.local_inputs) =>
        /\ task.local_inputs # Confused
        /\ \/ task.local_inputs = {}
           \/ node.local_datasets # Confused /\ task.local_inputs \subseteq node.local_datasets

\* Gate 4: as many devices as asked for.
GpuGate(task, node) ==
    Given(task.gpus) =>
        /\ task.gpus # Confused
        /\ task.gpus >= 0
        /\ task.gpus > 0 => node.gpus # Confused /\ node.gpus >= task.gpus

\* Gate 5: not the node that holds the other half of a verification pair.
ExclusionGate(task, node) ==
    Given(task.exclude_nodes) =>
        /\ task.exclude_nodes # Confused
        /\ \/ task.exclude_nodes = {}
           \/ IsName(node.node_id) /\ node.node_id \notin task.exclude_nodes

\* Gate 6: only members of the pool.
PoolGate(task, node) ==
    Given(task.pool) =>
        /\ IsName(task.pool)
        /\ node.pools # Confused /\ task.pool \in node.pools

\* The last gate, the only one the waiver opens.
IsolationGate(task, node) ==
    Given(task.isolation) =>
        /\ task.isolation # Confused
        /\ \/ task.isolation.tier \in {Absent, "", "standard"}
           \/ task.isolation.waived
           \/ node.sandbox_capable

\* eligible, with the waiver read before the gates it must not open.
EligibleWaiverFirst(task, node) ==
    /\ ModuleGate(task, node)
    /\ \/ WaivesIsolation(task)
       \/ /\ ArgvGate(task, node)
          /\ LocalDataGate(task, node) /\ GpuGate(task, node)
          /\ ExclusionGate(task, node) /\ PoolGate(task, node)
          /\ IsolationGate(task, node)

\* eligible: every gate.
Eligible(task, node) ==
    /\ ArgvGate(task, node)
    /\ ModuleGate(task, node)
    /\ LocalDataGate(task, node)
    /\ GpuGate(task, node)
    /\ ExclusionGate(task, node)
    /\ PoolGate(task, node)
    /\ IsolationGate(task, node)

\* What the claim route shows the policy of a registered node.
NodeView(registration) ==
    [node_id |-> registration.node_id,
     sandbox_capable |-> registration.sandbox_capable,
     argv_capable |-> registration.argv_capable,
     unsandboxed_argv_capable |-> registration.unsandboxed_argv_capable,
     module_capable |-> registration.module_capable,
     local_datasets |-> registration.local_datasets,
     gpus |-> registration.gpus,
     pools |-> registration.pools]

\* A heartbeat that states memberships replaces them all; one that does not keeps them.
Heartbeated(registration, pools) ==
    IF pools = Absent THEN registration ELSE [registration EXCEPT !.pools = pools]
=============================================================================
