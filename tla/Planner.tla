------------------------------ MODULE Planner ------------------------------
(***************************************************************************)
(* The strategy planner (flashruntime/planner): the menu of candidates of  *)
(* a request, the verdict on each, and the selection.  No state.           *)
(*                                                                         *)
(* Numbers are integers in the units the arithmetic needs: memory in MB,   *)
(* parameters in millions (trainable ones in thousands), tokens and hidden *)
(* sizes in thousands, link times in units of 10 microseconds, efficiency  *)
(* in percent, cost in cents.  Division rounds down where the code rounds  *)
(* to its last printed digit.  Candidates of equal rank are not told apart.*)
(***************************************************************************)
EXTENDS Integers, FiniteSets, FiniteSetsExt

CONSTANTS Unset, Unknown, NoLimit

\* What is not set, not estimated or not limited is no number.
ASSUME EstimateAssumption == {Unset, Unknown, NoLimit} \cap Int = {}

(***************************************************************************)
(* Requests (plan_v1alpha1.py): a workload of one of four kinds, the       *)
(* machines, and an objective                                              *)
(***************************************************************************)
Transformer ==
    [params : Nat, method : {"full", "lora", "qlora"}, rank : Nat, hidden : Nat, layers : Nat \ {0},
     tokens : Nat, precision : STRING, optimizer : STRING, grad_accum : Nat,
     ackpt : {Unset} \cup BOOLEAN, train_tokens : {Unset} \cup Nat]

Generic ==
    [params : Nat, trainable : 1 .. 100, precision : STRING, optimizer : STRING,
     activations : {Unset} \cup Nat, gpu_hours : {Unset} \cup Nat]

Classical == [dataset : Nat, partial_fit : BOOLEAN]

IndependentTasks == [count : Nat \ {0}, minutes : Nat, needs_gpu : BOOLEAN, vram : Nat]

Interconnect ==
    {"same_host_nvlink", "same_host_pcie", "multi_node_ib", "multi_node_100g", "multi_node_10g",
     "wan"}

Resources ==
    [gpus : Nat, vram : Nat, tflops : Nat, hosts : Nat \ {0}, link : Interconnect, ram : Nat,
     cores : Nat, rate : {Unset} \cup Nat]

RequestOf(kind, workload) ==
    [kind : {kind}, workload : workload, resources : Resources,
     mode : {"cheapest", "fastest", "balanced", "reliable"}, deadline : {NoLimit} \cup Nat,
     budget : {NoLimit} \cup Nat, allow_quantization : BOOLEAN, allow_cpu_offload : BOOLEAN]

PlanRequest ==
    RequestOf("transformer_finetune", Transformer) \cup RequestOf("pytorch_training", Generic)
      \cup RequestOf("classical_ml", Classical)
      \cup RequestOf("independent_tasks", IndependentTasks)

Bytes(precision) == IF precision = "fp32" THEN 4 ELSE 2

OptimizerBytes(optimizer) ==
    CASE optimizer = "adamw" -> 12 [] optimizer = "adamw_8bit" -> 6 [] OTHER -> 8

OVERHEAD == 2500

HardCap(vram) == (vram * 95) \div 100
RamBudget(ram) == (ram * 80) \div 100

(***************************************************************************)
(* memory.py: per GPU, by strategy family                                  *)
(***************************************************************************)
Sharded(family) == family \in {"fsdp2", "zero3_cpu_offload"}
Offloaded(family) == family = "zero3_cpu_offload"

PerGpu(x, family, world) == IF Sharded(family) THEN x \div world ELSE x

\* resolve_transformer: adapters on the four attention projections, or everything.
Trainable(w) ==
    IF w.method = "full" THEN w.params * 1000 ELSE 8 * w.hidden * w.rank * w.layers

ModelWeights(w) ==
    IF w.method = "full" THEN w.params * Bytes(w.precision)
    ELSE (IF w.method = "qlora" THEN (w.params * 55) \div 100 ELSE w.params * Bytes(w.precision))
         + (Trainable(w) * Bytes(w.precision)) \div 1000

OptimizerState(w) == (Trainable(w) * OptimizerBytes(w.optimizer)) \div 1000

Activations(w, ackpt) ==
    LET layer == w.tokens * w.hidden
    IN  IF ackpt THEN w.layers * layer * 2 + layer * 18 ELSE w.layers * layer * 18

TransformerMemory(w, family, world, ackpt) ==
      PerGpu(ModelWeights(w), family, world)
    + PerGpu((Trainable(w) * Bytes(w.precision)) \div 1000, family, world)
    + (IF Offloaded(family) THEN 0 ELSE PerGpu(OptimizerState(w), family, world))
    + Activations(w, ackpt)
    + (IF Sharded(family) THEN (w.params * Bytes(w.precision) * 2) \div w.layers ELSE 0)
    + OVERHEAD

\* The optimizer state one rank keeps in host RAM.
OffloadedRam(w, family, world) ==
    IF Offloaded(family) THEN PerGpu(OptimizerState(w), family, world) ELSE 0

\* trainable is the percentage of the parameters that is trained.
Trained(w) == (w.params * w.trainable) \div 100

GenericMemory(w, family, world) ==
      PerGpu(w.params * Bytes(w.precision), family, world)
    + PerGpu(Trained(w) * Bytes(w.precision), family, world)
    + PerGpu(Trained(w) * OptimizerBytes(w.optimizer), family, world)
    + (IF w.activations = Unset THEN 2000 ELSE w.activations)
    + OVERHEAD

(***************************************************************************)
(* comm.py: percent of the step that is compute, on a link of bandwidth    *)
(* bw (hundredths of GB/s) and latency lat                                 *)
(***************************************************************************)
Link(name) ==
    CASE name = "same_host_nvlink" -> [bw |-> 25000, lat |-> 1]
      [] name = "same_host_pcie" -> [bw |-> 2000, lat |-> 2]
      [] name = "multi_node_ib" -> [bw |-> 2500, lat |-> 5]
      [] name = "multi_node_100g" -> [bw |-> 1000, lat |-> 10]
      [] name = "multi_node_10g" -> [bw |-> 110, lat |-> 30]
      [] name = "wan" -> [bw |-> 5, lat |-> 3000]

\* _verdict: half the compute hides communication; with no compute time only the class
\* of the link decides.
Verdict(comm, compute, link) ==
    IF compute <= 0 THEN IF link = "wan" THEN 0 ELSE 100
    ELSE (compute * 100) \div (compute + Max({0, comm - compute \div 2}))

DdpEfficiency(gradients, world, link, compute) ==
    IF world <= 1 THEN 100
    ELSE Verdict((((2 * (world - 1) * gradients) \div world) * 10000) \div Link(link).bw
                    + Link(link).lat, compute, link)

FsdpEfficiency(weights, layers, world, link, compute) ==
    IF world <= 1 THEN 100
    ELSE Verdict((((3 * (world - 1) * weights) \div world) * 10000) \div Link(link).bw
                    + 3 * layers * Link(link).lat, compute, link)

E_REJECT == 50

\* A group within one host uses that host's link.
LinkOf(r, world) ==
    IF r.hosts = 1 \/ world <= Max({1, r.gpus \div r.hosts})
    THEN IF r.link \in {"same_host_nvlink", "same_host_pcie"} THEN r.link ELSE "same_host_pcie"
    ELSE r.link

(***************************************************************************)
(* timecost.py: absent inputs give no estimate                             *)
(***************************************************************************)
MicroStep(w, r) == IF r.tflops = 0 THEN 0 ELSE (w.tokens * w.params * 2000) \div r.tflops

Penalty(ackpt, qlora, offload) ==
    ((IF ackpt THEN 130 ELSE 100) * (IF qlora THEN 135 ELSE 100) * (IF offload THEN 4 ELSE 1)) \div 100

TrainingMinutes(w, r, world, efficiency, penalty) ==
    IF r.tflops = 0 \/ w.train_tokens = Unset THEN Unknown
    ELSE (w.train_tokens * w.params * penalty) \div (3 * r.tflops * world * Max({1, efficiency}))

Cost(minutes, world, r) ==
    IF minutes = Unknown \/ r.rate = Unset THEN Unknown ELSE (minutes * world * r.rate) \div 60

(***************************************************************************)
(* A verdict.  shortfall is how far a candidate that does not fit is off.  *)
(***************************************************************************)
\* A limit that was not set read as zero.
MissesUnset(estimate, limit) ==
    estimate # Unknown /\ estimate > (IF limit = NoLimit THEN 0 ELSE limit)

Misses(estimate, limit) == estimate # Unknown /\ limit # NoLimit /\ estimate > limit

Candidate(family, world, status) ==
    [family |-> family, workers |-> world, status |-> status, quantized |-> FALSE,
     ackpt |-> FALSE, memory |-> 0, ram |-> 0, time |-> Unknown, cost |-> Unknown,
     headroom |-> 0, shortfall |-> 0]

Judged(candidate, q, r) ==
    [candidate EXCEPT !.status = IF \/ Misses(candidate.time, q.deadline)
                                    \/ Misses(candidate.cost, q.budget)
                                 THEN "rejected_policy" ELSE "feasible"]

\* 1, the powers of two below the count, and the count.
WorldSizes(gpus) == {1, gpus} \cup {n \in 2 .. gpus - 1 : \E k \in 1 .. n : n = 2 ^ k}

(***************************************************************************)
(* Transformer fine-tuning                                                 *)
(***************************************************************************)

\* Activation checkpointing is the planner's choice only where it makes the group fit.
Checkpointing(w, r, family, world) ==
    IF w.ackpt # Unset THEN w.ackpt
    ELSE /\ TransformerMemory(w, family, world, FALSE) > HardCap(r.vram)
         /\ TransformerMemory(w, family, world, TRUE) <= HardCap(r.vram)

Efficiency(w, r, family, world) ==
    IF family \in {"single_gpu", "ddp"}
    THEN DdpEfficiency((Trainable(w) * Bytes(w.precision)) \div 1000, world, LinkOf(r, world),
                       MicroStep(w, r) * w.grad_accum)
    ELSE FsdpEfficiency(w.params * Bytes(w.precision), w.layers, world, LinkOf(r, world), MicroStep(w, r))

EvaluateTraining(q, w, family, world) ==
    LET r == q.resources
        ackpt == Checkpointing(w, r, family, world)
        memory == TransformerMemory(w, family, world, ackpt)
        ram == OffloadedRam(w, family, world)
        efficiency == Efficiency(w, r, family, world)
        minutes == TrainingMinutes(w, r, world, efficiency,
                                   Penalty(ackpt, w.method = "qlora", Offloaded(family)))
        rejected == [Candidate(family, world, "infeasible") EXCEPT !.memory = memory]
    IN  IF memory > HardCap(r.vram) THEN [rejected EXCEPT !.shortfall = memory - HardCap(r.vram)]
        ELSE IF ram > RamBudget(r.ram) \/ efficiency < E_REJECT THEN rejected
        ELSE Judged([rejected EXCEPT !.quantized = w.method = "qlora", !.ackpt = ackpt, !.ram = ram,
                                     !.time = minutes, !.cost = Cost(minutes, world, r),
                                     !.headroom = r.vram - memory], q, r)

Variants(q) ==
    {q.workload}
      \cup (IF q.workload.method = "lora" /\ q.allow_quantization
            THEN {[q.workload EXCEPT !.method = "qlora"]} ELSE {})

Families(w, world, q) ==
    IF world = 1 THEN {"single_gpu"}
    ELSE {"ddp"} \cup (IF w.method = "qlora" THEN {} ELSE {"fsdp2"})
                 \cup (IF q.allow_cpu_offload THEN {"zero3_cpu_offload"} ELSE {})

TransformerCandidates(q) ==
    IF q.resources.gpus < 1 THEN {}
    ELSE UNION {UNION {{EvaluateTraining(q, w, f, n) : f \in Families(w, n, q)}
                          : n \in WorldSizes(q.resources.gpus)} : w \in Variants(q)}

(***************************************************************************)
(* Other models: no compute time is known, so the link alone decides       *)
(***************************************************************************)
EvaluateGeneric(q, family, world) ==
    LET w == q.workload
        r == q.resources
        memory == GenericMemory(w, family, world)
        efficiency == IF world <= 1 THEN 100 ELSE Verdict(0, 0, LinkOf(r, world))
        minutes == IF w.gpu_hours = Unset THEN Unknown ELSE (w.gpu_hours * 60) \div world
        rejected == [Candidate(family, world, "infeasible") EXCEPT !.memory = memory]
    IN  IF memory > HardCap(r.vram) THEN [rejected EXCEPT !.shortfall = memory - HardCap(r.vram)]
        ELSE IF efficiency < E_REJECT THEN rejected
        ELSE Judged([rejected EXCEPT !.time = minutes, !.cost = Cost(minutes, world, r),
                                     !.headroom = r.vram - memory], q, r)

PytorchCandidates(q) ==
    IF q.resources.gpus < 1 THEN {}
    ELSE UNION {{EvaluateGeneric(q, f, n) : f \in IF n = 1 THEN {"single_gpu"} ELSE {"ddp", "fsdp2"}}
                   : n \in WorldSizes(q.resources.gpus)}

(***************************************************************************)
(* Classical models and independent tasks                                  *)
(***************************************************************************)
ClassicalCandidates(q) ==
    LET w == q.workload
        fits == w.dataset * 3 <= RamBudget(q.resources.ram)
    IN  {Candidate("local_process", 1, IF fits THEN "feasible" ELSE "infeasible")}
          \cup (IF w.partial_fit
                THEN {Candidate("sharded_partial_fit",
                                Max({2, Min({16, w.dataset \div 500})}), "feasible")}
                ELSE {})

Slots(w, r) ==
    Max({1, Min({w.count, IF w.needs_gpu THEN r.gpus ELSE r.hosts * Max({1, r.cores \div 4})})})

Waves(w, r) == (w.count + Slots(w, r) - 1) \div Slots(w, r)

TasksCandidates(q) ==
    LET w == q.workload
        r == q.resources
        leased == [Candidate("lease_tasks", Slots(w, r), "feasible")
                      EXCEPT !.time = Waves(w, r) * w.minutes]
    IN  IF w.needs_gpu /\ r.gpus > 0 /\ w.vram > HardCap(r.vram)
        THEN {[Candidate("lease_tasks", 0, "infeasible") EXCEPT !.shortfall = w.vram - r.vram]}
        ELSE {IF Misses(leased.time, q.deadline)
                 THEN [leased EXCEPT !.status = "rejected_policy"] ELSE leased,
              [Candidate("local_process", 1, IF Slots(w, r) = 1 THEN "feasible" ELSE "rejected_dominated")
                  EXCEPT !.time = w.count * w.minutes]}

Generate(q) ==
    CASE q.kind = "transformer_finetune" -> TransformerCandidates(q)
      [] q.kind = "pytorch_training" -> PytorchCandidates(q)
      [] q.kind = "classical_ml" -> ClassicalCandidates(q)
      [] q.kind = "independent_tasks" -> TasksCandidates(q)

(***************************************************************************)
(* selector.py                                                             *)
(***************************************************************************)
INFINITY == 1000000000

Sortable(estimate) == IF estimate = Unknown THEN INFINITY ELSE estimate

RankKey(c, mode) ==
    CASE mode = "fastest" -> <<Sortable(c.time), Sortable(c.cost), c.workers, 0>>
      [] mode = "reliable" -> <<c.workers, IF Offloaded(c.family) THEN 1 ELSE 0,
                                IF c.quantized THEN 1 ELSE 0, -c.headroom>>
      [] OTHER -> <<Sortable(c.cost), Sortable(c.time), c.workers, 0>>

Before(a, b) == \E i \in DOMAIN a : a[i] < b[i] /\ \A j \in 1 .. i - 1 : a[j] = b[j]

Feasible(q) == {c \in Generate(q) : c.status = "feasible"}

\* The candidates the winner is taken from: the first of those no other ranks before.
Best(q) ==
    {c \in Feasible(q) : \A d \in Feasible(q) : ~Before(RankKey(d, q.mode), RankKey(c, q.mode))}

\* _nearest_miss: what it names as what would unlock a plan.
Hints(q) ==
    (IF \E c \in Generate(q) : c.shortfall > 0 THEN {"memory"} ELSE {})
      \cup (IF \E c \in Generate(q) : c.status = "rejected_policy" THEN {"limits"} ELSE {})
=============================================================================
