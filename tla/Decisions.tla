----------------------------- MODULE Decisions -----------------------------
(***************************************************************************)
(* The decisions of the system that keep no state, composed where the code *)
(* composes them: a job's spec becomes a task's requirements, placement    *)
(* compares them with what a host registered, and the host's runner runs   *)
(* or refuses the task; a failure's signals become a class and the class   *)
(* an action; a request becomes a plan; a round's deltas become their      *)
(* mean.  A behaviour asks one question and keeps it with its answer.      *)
(***************************************************************************)
EXTENDS HostRunner, Planner, Averaging

Recovery == INSTANCE Recovery

CONSTANTS
    Jobs, Hosts, Contents,      \* specs, machines, what payloads ask to be run
    Tasks, Views,               \* payloads and node views of any shape
    Signals,                    \* evidence of a failure
    Archives, MaxBytes, MaxMembers,
    Requests,                   \* requests to the planner
    Contributions, MaxContributions   \* what a round's shards report

ASSUME HostingAssumption == Jobs \subseteq JobSpec /\ Hosts \subseteq Host
ASSUME PlacementAssumption == Tasks \subseteq Requirements /\ Views \subseteq Advertisement
ASSUME ArchivesAssumption == Archives \subseteq Seq(Member) /\ {MaxBytes, MaxMembers} \subseteq Nat
ASSUME PlanAssumption == Requests \subseteq PlanRequest
ASSUME RoundAssumption == Contributions \subseteq Contribution /\ MaxContributions \in Nat

VARIABLES asked, answer
decisionVars == <<asked, answer>>

Nothing == [kind |-> "nothing"]

\* One job, one host: whether the job is taken, its tasks placed there, and run.
Hosted(job, host, content, trusted_fleet) ==
    LET accepted == ~Refused(job, trusted_fleet) /\ Starts(host)
        payload == Payload(job)
        placed == accepted /\ Eligible(payload, NodeView(Registration(host)))
    IN  [accepted |-> accepted,
         placed |-> placed,
         runs |-> placed /\ ~RunnerRefuses(host, payload, content),
         gets |-> Gets(host, payload),
         lease |-> IF accepted THEN LeaseOf(job) ELSE 0]

AskHosting ==
    \E job \in Jobs, host \in Hosts, content \in Contents, trusted_fleet \in BOOLEAN :
        /\ asked' = [kind |-> "hosting", job |-> job, host |-> host, content |-> content]
        /\ answer' = Hosted(job, host, content, trusted_fleet)

AskPlacement ==
    \E task \in Tasks, view \in Views :
        /\ asked' = [kind |-> "placement", task |-> task, view |-> view]
        /\ answer' = Eligible(task, view)

AskRecovery ==
    \E signals \in Signals, mode \in Recovery!Mode :
        /\ asked' = [kind |-> "recovery", signals |-> signals, mode |-> mode]
        /\ answer' = Recovery!Decide(Recovery!Classify(signals), mode)

AskExtraction ==
    \E members \in Archives :
        /\ asked' = [kind |-> "extraction", members |-> members]
        /\ answer' = Extract(members, MaxBytes, MaxMembers)

AskPlan ==
    \E request \in Requests :
        /\ asked' = [kind |-> "plan", request |-> request]
        /\ answer' = [best |-> Best(request), hints |-> Hints(request)]

AskAverage ==
    \E n \in 0 .. MaxContributions : \E cs \in [1 .. n -> Contributions] :
        /\ asked' = [kind |-> "average", round |-> cs]
        /\ answer' = IF ReductionRefused(cs) THEN [refused |-> TRUE]
                     ELSE [refused |-> FALSE, mean |-> Reduced(cs)]

DecisionInit == asked = Nothing /\ answer = Nothing

DecisionNext ==
    /\ asked = Nothing
    /\ AskHosting \/ AskPlacement \/ AskRecovery \/ AskExtraction
       \/ AskPlan \/ AskAverage

DecisionSpec == DecisionInit /\ [][DecisionNext]_decisionVars

-----------------------------------------------------------------------------
(***************************************************************************)
(* Properties                                                              *)
(***************************************************************************)

\* Of the hosts: a sandbox claimed by an operator (FLASHNODE_SANDBOX_CAPABLE) or a cluster's
\* label is there.  discover registers the claim as it comes (capabilities.py:82-91).
HonestClaims == \A host \in Hosts : host.claims_sandbox => Contained(host)

\* Of the payloads: the modules the coordinator hands out are those the runners allow.  The
\* two lists are kept apart (modea.py:52-57, executor/runner.py:26-33).
AllowlistsAgree == \A content \in Contents : content.allowlisted

\* What a task that runs has is what its job's spec asked for, over every hop between
\* them: a pool's work only on its members; a sandboxed job without a waiver in a
\* container; a command with exactly its datasets and devices in its container, unless
\* its submitter waived the container for a pool.  Each hop forwards the requirement by
\* hand, and a forward left out places the task anywhere (recipes/command.py:143-186).
JobRunsAsAsked ==
    asked.kind = "hosting" /\ answer.runs =>
        LET job == asked.job
            command == job.type = "command"
        IN  /\ job.pool # "any" => job.pool \in asked.host.pools
            /\ job.tier = "sandboxed" /\ ~job.waived => answer.gets.contained
            /\ command /\ ~answer.gets.contained => job.waived /\ job.pool # "any"
            /\ command /\ answer.gets.contained =>
                  /\ answer.gets.gpus = job.gpus
                  /\ answer.gets.datasets = IF job.local_inputs = Absent THEN {} ELSE job.local_inputs

\* A task placed on a host whose owner allows its image is not refused by the runner it
\* was placed for: what a host registers is what its runner does.  Hosts of the trusted
\* tier are left out: they register as able to run modules and are not.
PlacedIsRun ==
    asked.kind = "hosting" /\ answer.placed /\ asked.host.runner # "trusted"
      /\ ImageAllowed(asked.content.image, asked.host) /\ asked.content.env_ok
        => answer.runs

\* A waiver buys the sandbox and nothing else: a task that runs somewhere with it would,
\* without it, run on the same host had that a sandbox and a containerised runner.
WaiverBuysOnlyTheSandbox ==
    asked.kind = "placement" /\ answer /\ WaivesIsolation(asked.task) =>
        Eligible([asked.task EXCEPT !.isolation.waived = FALSE],
                 [asked.view EXCEPT !.sandbox_capable = TRUE, !.argv_capable = TRUE])

\* While the control plane is failing, or several workers fail at once, nothing is
\* retried, replaced or failed for its own evidence.
SystemicEvidenceStopsRetries ==
    asked.kind = "recovery"
      /\ (asked.signals.control_plane \/ asked.signals.concurrent >= Recovery!CORRELATED_THRESHOLD)
        => answer.action \in {"PAUSE_JOB", "FREEZE_AUTOMATION"}

\* What the members of an archive weigh together.
Unpacked(members, which) == MapThenSumSet(LAMBDA k : members[k].size, which)

\* An archive is unpacked whole or not at all, within its caps and its directory: every
\* file to its end, of two of one name the later, or nothing, wherever it was refused or
\* broke off ("On refusal dest is removed entirely", archives.py:262).
ArchiveIsAllOrNothing ==
    asked.kind = "extraction" =>
        LET members == asked.members
            files == {k \in DOMAIN members : members[k].kind = "file"}
            last == {k \in files : \A j \in files : j > k => members[j].name # members[k].name}
        IN  /\ answer.written = IF answer.refused THEN {} ELSE last
            /\ \A k \in answer.written : members[k].inside /\ members[k].intact
            /\ ~answer.refused => Unpacked(members, files) <= MaxBytes

\* When the greater part of a round's deltas are no longer than some length, the average
\* is no longer than three times it, however long the others are and however many samples
\* they claim (fedavg_weights.py: with an honest majority the median is honest).
HonestMajorityBounds ==
    asked.kind = "average" /\ ~answer.refused =>
        LET cs == asked.round
            within(i) == {j \in DOMAIN cs : Magnitude(cs[j].delta) <= Magnitude(cs[i].delta)}
        IN  \A i \in DOMAIN cs :
                2 * Cardinality(within(i)) > Len(cs) =>
                    Magnitude(answer.mean.over)
                        <= CLIP_FACTOR * Magnitude(cs[i].delta) * answer.mean.under

\* The requests that ask for less or offer more than q, one change each.
Relaxed(q) ==
    {[q EXCEPT !.deadline = NoLimit], [q EXCEPT !.budget = NoLimit],
     [q EXCEPT !.allow_quantization = TRUE], [q EXCEPT !.allow_cpu_offload = TRUE],
     [q EXCEPT !.resources.vram = 2 * q.resources.vram],
     [q EXCEPT !.resources.ram = 2 * q.resources.ram]}

\* Asking for less, or offering more, never takes a plan away, and a request for the
\* fastest or the cheapest plan never gets a worse one for it, although the planner
\* changes its own choices (checkpointing, the variants, the group) on the way.
RelaxingKeepsPlan ==
    asked.kind = "plan" /\ answer.best # {} =>
        \A q \in Relaxed(asked.request) :
            /\ Best(q) # {}
            /\ q.mode # "reliable" =>
                  \A c \in answer.best, d \in Best(q) : ~Before(RankKey(c, q.mode), RankKey(d, q.mode))

\* What a plan puts in a machine's memory for all its ranks there stays within the share
\* of the machine's RAM the planner allows (plan_v1alpha1.py:203-210, 160).
OffloadFitsHost ==
    asked.kind = "plan" =>
        \A c \in answer.best :
            LET r == asked.request.resources
                ranks == Min({c.workers, Max({1, r.gpus \div r.hosts})})
            IN  ranks * c.ram <= RamBudget(r.ram)
=============================================================================
