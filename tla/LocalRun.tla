------------------------------ MODULE LocalRun ------------------------------
(***************************************************************************)
(* A run of flash.submit on one machine: the driver of sdk.py with its     *)
(* restarts, the launcher, and the ranks of the training process with      *)
(* their checkpoints (torch/__init__.py, checkpoint/local.py).             *)
(*                                                                         *)
(* The script is the one the repository gives its users: a loop that calls *)
(* checkpoint after every step and once more at its end.  Under torchrun   *)
(* there are two ranks; they meet at the gradient exchange of a step and   *)
(* at the barrier of a checkpoint, and only rank 0 writes.  A process may  *)
(* be killed anywhere.  A file is torn from its opening to its closing.    *)
(*                                                                         *)
(* A launch is its number.  Weights, and the bytes of a part, are named by *)
(* the launch that computed them: a launch that resumes at a step writes   *)
(* the same bytes at that step again.                                      *)
(***************************************************************************)
EXTENDS Naturals, Sequences, FiniteSets, FiniteSetsExt, Recovery

CONSTANTS
    Steps,          \* the steps of the training loop
    Every,          \* a checkpoint every so many steps
    MaxRestarts,    \* max_restarts of submit
    Workloads,      \* records [fanout, ranks, bug]: see WorkloadsAssumption
    MaxSubmits,     \* bound on submissions into one output directory
    None, Torn,     \* contents of a file that is absent, and of one being written
    Damaged,        \* the content of a part that was damaged from outside
    MaxFaults       \* bound on kills, damaged files and failed launches

ASSUME StepsAssumption == Steps \in Nat \ {0} /\ Every \in Nat \ {0}
ASSUME BoundsAssumption == {MaxRestarts, MaxSubmits, MaxFaults} \subseteq Nat

\* What cannot be loaded: torch.load, or the JSON parser, raises on it.
Unreadable == {None, Torn, Damaged}

\* What a part holds, or had when it was hashed.
Content == Nat \cup Unreadable

\* A file that is whole has the bytes of a launch, or the hashes of its parts.
ASSUME FilesAssumption ==
    Unreadable \cap (Nat \cup (Content \X Content)) = {} /\ Damaged \notin {None, Torn}

\* fanout: one trial for each of two parameter sets; ranks: processes of a
\* launch; bug: the step at which the script always raises, 0 for none.
ASSUME WorkloadsAssumption ==
    Workloads \subseteq [fanout : BOOLEAN, ranks : {1, 2}, bug : 0 .. Steps]

VARIABLES
    workload,   \* the workload that is submitted
    submits,    \* submissions so far
    state,      \* Run.state
    driver,     \* where _drive is
    trial,      \* the parameter set it is at
    restart,    \* the restart it is at
    states,     \* how the parameter sets before it ended
    launches,   \* for each launch its submission and its trial
    exit,       \* how the launched processes ended, as far as they have
    log,        \* the markers in their log
    at,         \* where each rank is
    step,       \* the step each rank is at
    looped,     \* whether its training loop is behind it
    weights,    \* the launch that computed each rank's weights, and their optimizer's
    disk,       \* the checkpoint trees: [job -> [step -> files]]
    cwd,        \* the launch whose metrics.json is in the source directory, 0 for no JSON
    out,        \* the launch whose metrics.json is in each attempt's directory, or 0
    metrics,    \* trial_metrics
    trials,     \* Run.trials
    damaged,    \* whether a file was damaged from outside
    reached,    \* per job, the newest step whose checkpoint was completed
    faults

control == <<workload, submits, state, driver, trial, restart, states, launches>>
process == <<exit, log, at, step, looped, weights>>
results == <<cwd, out, metrics, trials>>
tree == <<disk, reached, damaged>>
vars == <<control, process, results, tree, faults>>

Ranks == 0 .. workload.ranks - 1
Trials == IF workload.fanout THEN {1, 2} ELSE {1}
Kind == IF workload.fanout THEN "independent_tasks" ELSE "coordinated_training"
Jobs == {1, 2}

\* The launch that is on its way, and the one named by its attempt's directory.
Launch == Len(launches)
Attempt == <<trial, restart>>

\* The checkpoint tree of a trial, which its restarts and resubmissions share.
JobOf(t) == t

Job == JobOf(trial)

(***************************************************************************)
(* The checkpoint tree                                                     *)
(***************************************************************************)
NoFiles == [model |-> None, optimizer |-> None, manifest |-> None]

\* verify_manifest, if it compared the sizes of the parts.
Complete(d) == {d.model, d.optimizer, d.manifest} \cap Unreadable = {}

\* verify_manifest: every part named is there with the hash it was given.
Verified(d) == d.manifest \notin Unreadable /\ d.manifest = <<d.model, d.optimizer>>

ValidSteps(files) == {s \in 1 .. Steps : Verified(files[s])}

\* latest_valid_manifest, if it stopped at the first one it finds.
FirstValid(files) == IF ValidSteps(files) = {} THEN 0 ELSE Min(ValidSteps(files))

\* latest_valid_manifest: the step of the newest one, 0 for none.
LatestValid(files) == IF ValidSteps(files) = {} THEN 0 ELSE Max(ValidSteps(files))

(***************************************************************************)
(* The driver                                                              *)
(***************************************************************************)

\* submit: a new Run in the same output directory, and _drive begins.
Submit ==
    /\ submits < MaxSubmits
    /\ driver = "idle"
    /\ submits' = submits + 1
    /\ state' = "RUNNING"
    /\ driver' = "launch"
    /\ trial' = 1
    /\ restart' = 0
    /\ states' = {}
    /\ trials' = <<>>
    /\ UNCHANGED <<workload, launches, process, cwd, out, metrics, tree, faults>>

\* launcher.launch: the processes start.
Start ==
    /\ driver = "launch"
    /\ driver' = "wait"
    /\ launches' = Append(launches, [submit |-> submits, trial |-> trial])
    /\ exit' = "running"
    /\ log' = {}
    /\ at' = [r \in Ranks |-> "pick"]
    /\ step' = [r \in Ranks |-> 0]
    /\ looped' = [r \in Ranks |-> FALSE]
    /\ weights' = [r \in Ranks |-> <<0, 0>>]
    /\ UNCHANGED <<workload, submits, state, trial, restart, states, results, tree, faults>>

\* launcher.launch raises LaunchError, which nothing in _drive catches.
LaunchRaises ==
    /\ faults < MaxFaults
    /\ faults' = faults + 1
    /\ driver = "launch"
    /\ driver' = "raised"
    /\ UNCHANGED <<workload, submits, state, trial, restart, states, launches, process, results, tree>>

\* _collect: the metrics.json in the attempt's directory once the file of
\* the source directory was copied there, unless that is older than the launch.
\* One that its launch did not write to its end is copied, and is no JSON.
Collected ==
    IF at[0] = "metrics ends" THEN 0 ELSE IF cwd = Launch THEN cwd ELSE out[Attempt]

\* Whether the policy lets the driver try again.
Retried ==
    Decide(Classify(FromLocalLaunch("nonzero", log)), Kind).action # "FAIL_JOB"

\* The end of the run, for a driver that only settles a success.
EndIfDone(all) == IF all = {"SUCCEEDED"} THEN "SUCCEEDED" ELSE state

\* The end of the run after its parameter sets ended like this.
EndOf(all) == IF all = {"SUCCEEDED"} THEN "SUCCEEDED" ELSE "FAILED"

\* The launch has ended: its outputs are collected and its metrics read, and
\* the driver goes on with a restart, the next parameter set or the end.
Settle ==
    LET found == IF Collected # 0 THEN Collected ELSE metrics
        again == exit # "ok" /\ Retried /\ restart < MaxRestarts
        all == states \cup {IF exit = "ok" THEN "SUCCEEDED" ELSE "FAILED"}
    IN  /\ driver = "wait"
        /\ exit # "running"
        /\ exit' = "none"
        /\ out' = [out EXCEPT ![Attempt] = Collected]
        /\ IF again
           THEN /\ driver' = "launch"
                /\ restart' = restart + 1
                /\ metrics' = found
                /\ UNCHANGED <<state, trial, states, trials>>
           ELSE /\ trials' = IF found = 0 THEN trials
                             ELSE Append(trials, [trial |-> trial, launch |-> found])
                /\ metrics' = 0
                /\ states' = all
                /\ IF trial + 1 \in Trials
                   THEN /\ driver' = "launch"
                        /\ trial' = trial + 1
                        /\ restart' = 0
                        /\ UNCHANGED state
                   ELSE /\ driver' = "idle"
                        /\ state' = EndOf(all)
                        /\ UNCHANGED <<trial, restart>>
        /\ UNCHANGED <<workload, submits, launches, log, at, step, looped, weights, cwd, tree, faults>>

(***************************************************************************)
(* The training process                                                    *)
(***************************************************************************)
Running == exit = "running"
Move(r, to) == at' = [at EXCEPT ![r] = to]

\* The launch fails; torchrun adds a traceback of its own.
Fails(markers) ==
    /\ exit' = "failed"
    /\ log' = markers \cup (IF workload.ranks > 1 THEN {"traceback", "wrapper"} ELSE {})

\* prepare: the newest valid manifest is looked for.
Pick(r) ==
    LET chosen == LatestValid(disk[Job])
    IN  /\ Running /\ at[r] = "pick"
        /\ step' = [step EXCEPT ![r] = chosen]
        /\ Move(r, IF chosen = 0 THEN "loop" ELSE "load")
        /\ UNCHANGED <<control, exit, log, looped, weights, results, tree, faults>>

\* prepare: the parts are loaded, or torch.load raises on one that is torn or
\* was damaged before it was hashed.
Load(r) ==
    LET d == disk[Job][step[r]]
        readable == {d.model, d.optimizer} \cap Unreadable = {}
    IN  /\ Running /\ at[r] = "load"
        /\ IF readable
           THEN /\ weights' = [weights EXCEPT ![r] = <<d.model, d.optimizer>>]
                /\ Move(r, "loop")
                /\ UNCHANGED <<exit, log>>
           ELSE /\ Fails({"traceback"})
                /\ UNCHANGED <<weights, at>>
        /\ UNCHANGED <<control, step, looped, results, tree, faults>>

\* Where a call of checkpoint takes a rank: only rank 0 writes.
ToCheckpoint(r) == IF r = 0 THEN "model" ELSE "barrier"

\* The head of the loop: another step, or the last checkpoint.
Loop(r) ==
    /\ Running /\ at[r] = "loop"
    /\ looped' = [looped EXCEPT ![r] = step[r] >= Steps]
    /\ Move(r, IF step[r] < Steps THEN "exchange" ELSE ToCheckpoint(r))
    /\ UNCHANGED <<control, exit, log, step, weights, results, tree, faults>>

\* All ranks exchange their gradients and take the step; checkpoint is called
\* and does nothing but at every Every-th step.  The bug raises here.
Train ==
    /\ Running
    /\ \A r \in Ranks : at[r] = "exchange"
    /\ IF \E r \in Ranks : step[r] + 1 = workload.bug
       THEN /\ \E names \in {{}, {"named"}} : Fails({"traceback"} \cup names)
            /\ UNCHANGED <<at, step, weights>>
       ELSE /\ step' = [r \in Ranks |-> step[r] + 1]
            /\ weights' = [r \in Ranks |-> <<Launch, Launch>>]
            /\ at' = [r \in Ranks |-> IF (step[r] + 1) % Every = 0 THEN ToCheckpoint(r) ELSE "loop"]
            /\ UNCHANGED <<exit, log>>
    /\ UNCHANGED <<control, looped, results, tree, faults>>

\* What rank 0 does in a checkpoint: each file is opened and closed, and the
\* parts are hashed as they lie on disk.
SaveOrder == <<"model", "model ends", "optimizer", "optimizer ends", "manifest", "manifest ends", "barrier">>

Saved(d, what) ==
    CASE what = "model" -> [d EXCEPT !.model = Torn]
      [] what = "model ends" -> [d EXCEPT !.model = weights[0][1]]
      [] what = "optimizer" -> [d EXCEPT !.optimizer = Torn]
      [] what = "optimizer ends" -> [d EXCEPT !.optimizer = weights[0][2]]
      [] what = "manifest" -> [d EXCEPT !.manifest = Torn]
      [] what = "manifest ends" -> [d EXCEPT !.manifest = <<d.model, d.optimizer>>]

\* checkpoint on rank 0: the parts, and the manifest last.
Save ==
    /\ Running
    /\ \E k \in 1 .. Len(SaveOrder) - 1 :
          /\ at[0] = SaveOrder[k]
          /\ Move(0, SaveOrder[k + 1])
          /\ disk' = [disk EXCEPT ![Job][step[0]] = Saved(@, SaveOrder[k])]
          /\ reached' = IF SaveOrder[k] = "manifest ends"
                        THEN [reached EXCEPT ![Job] = Max({@, step[0]})] ELSE reached
    /\ UNCHANGED <<control, exit, log, step, looped, weights, results, damaged, faults>>

\* The barrier at the end of checkpoint, and back to the loop or out of it.
Barrier ==
    /\ Running
    /\ \A r \in Ranks : at[r] = "barrier"
    /\ at' = [r \in Ranks |-> IF ~looped[r] THEN "loop" ELSE IF r = 0 THEN "metrics" ELSE "end"]
    /\ UNCHANGED <<control, exit, log, step, looped, weights, results, tree, faults>>

\* A rank in the exchange of a step and another in a barrier, or gone, do not
\* meet; in the end the collective times out.
NoMeeting ==
    /\ Running
    /\ \E r, q \in Ranks : at[r] = "exchange" /\ at[q] \in {"barrier", "metrics", "metrics ends", "end"}
    /\ Fails({})
    /\ UNCHANGED <<control, at, step, looped, weights, results, tree, faults>>

\* Rank 0 opens metrics.json in the source directory: what was there is gone.
OpenMetrics ==
    /\ Running /\ at[0] = "metrics"
    /\ cwd' = 0
    /\ Move(0, "metrics ends")
    /\ UNCHANGED <<control, exit, log, step, looped, weights, out, metrics, trials, tree, faults>>

\* It has written it to its end.
WriteMetrics ==
    /\ Running /\ at[0] = "metrics ends"
    /\ cwd' = Launch
    /\ Move(0, "end")
    /\ UNCHANGED <<control, exit, log, step, looped, weights, out, metrics, trials, tree, faults>>

Exit ==
    /\ Running
    /\ \A r \in Ranks : at[r] = "end"
    /\ exit' = "ok"
    /\ UNCHANGED <<control, log, at, step, looped, weights, results, tree, faults>>

\* A signal, or the want of memory, ends the processes.
Kill ==
    /\ faults < MaxFaults
    /\ faults' = faults + 1
    /\ Running
    /\ Fails({})
    /\ UNCHANGED <<control, at, step, looped, weights, results, tree>>

\* Rank 0 has hashed the parts of this checkpoint and writes the manifest.
Hashed(j, s) == Running /\ at[0] = "manifest ends" /\ j = Job /\ s = step[0]

\* A part of a checkpoint is damaged from outside, before it is hashed or
\* after.  Between its hashing and the end of the manifest is the same as after.
Damage ==
    /\ faults < MaxFaults
    /\ faults' = faults + 1
    /\ \E j \in Jobs, s \in 1 .. Steps :
          /\ disk[j][s].model \notin Unreadable
          /\ ~Hashed(j, s)
          /\ disk' = [disk EXCEPT ![j][s].model = Damaged]
    /\ damaged' = TRUE
    /\ UNCHANGED <<control, process, results, reached>>

Init ==
    /\ workload \in Workloads
    /\ submits = 0
    /\ state = "PENDING"
    /\ driver = "idle"
    /\ trial = 1
    /\ restart = 0
    /\ states = {}
    /\ launches = <<>>
    /\ exit = "none"
    /\ log = {}
    /\ at = [r \in Ranks |-> "none"]
    /\ step = [r \in Ranks |-> 0]
    /\ looped = [r \in Ranks |-> FALSE]
    /\ weights = [r \in Ranks |-> <<0, 0>>]
    /\ disk = [j \in Jobs |-> [s \in 1 .. Steps |-> NoFiles]]
    /\ cwd = 0
    /\ out = [a \in Jobs \X (0 .. MaxRestarts) |-> 0]
    /\ metrics = 0
    /\ trials = <<>>
    /\ damaged = FALSE
    /\ reached = [j \in Jobs |-> 0]
    /\ faults = 0

Driver == Start \/ Settle
Process == (\E r \in Ranks : Pick(r) \/ Load(r) \/ Loop(r))
             \/ Train \/ Save \/ Barrier \/ NoMeeting \/ OpenMetrics \/ WriteMetrics \/ Exit

Next == Submit \/ Driver \/ LaunchRaises \/ Process \/ Kill \/ Damage

Spec == Init /\ [][Next]_vars

\* The driver waits for the processes and they go on, collectives included,
\* which time out when a rank does not come.
FairSpec == Spec /\ WF_vars(Driver) /\ WF_vars(Process)

-----------------------------------------------------------------------------
(***************************************************************************)
(* Properties                                                              *)
(***************************************************************************)

\* Every variable has its type, and results are those of launches there were.
TypeOK ==
    /\ submits \in 0 .. MaxSubmits
    /\ state \in {"PENDING", "RUNNING", "SUCCEEDED", "FAILED"}
    /\ driver \in {"idle", "launch", "wait", "raised"}
    /\ trial \in Trials /\ restart \in 0 .. MaxRestarts
    /\ states \subseteq {"SUCCEEDED", "FAILED"}
    /\ exit \in {"none", "running", "ok", "failed"}
    /\ log \subseteq {"named", "traceback", "wrapper"}
    /\ step \in [Ranks -> 0 .. Steps] /\ looped \in [Ranks -> BOOLEAN]
    /\ reached \in [Jobs -> 0 .. Steps] /\ damaged \in BOOLEAN
    /\ {cwd, metrics} \cup {out[a] : a \in DOMAIN out} \subseteq 0 .. Launch
    /\ faults \in 0 .. MaxFaults

\* What a rank resumes from was saved at once: its model and its optimizer
\* are never those of two launches, whatever was overwritten, and in what
\* order, before the process that wrote it was killed.
RestoredIsWhole ==
    \A r \in Ranks : weights[r][1] = weights[r][2]

\* A trial is never trained from another trial's weights, nor is it credited
\* with the metrics of another ("or trial i could restore trial j's weights";
\* "a stale metrics.json from a previous trial must never be credited").
TrialsAreApart ==
    /\ \A r \in Ranks :
          Running /\ weights[r][1] # 0 => launches[weights[r][1]].trial = trial
    /\ \A k \in DOMAIN trials : launches[trials[k].launch].trial = trials[k].trial

\* Whatever a launch resumes from is one whole checkpoint of its own trial: both of
\* the above.
RestoredIsOwn == TypeOK /\ RestoredIsWhole /\ TrialsAreApart

\* A launch gives up at most the steps of one interval of what was saved
\* before it: only a checkpoint that is being written again can be lost.
LostWorkIsBounded ==
    [][\A r \in DOMAIN at \cap DOMAIN at' :
         at[r] = "pick" /\ at'[r] # "pick" /\ exit' = "running" /\ ~damaged
             => step'[r] + Every >= reached[Job]]_vars

\* A run only fails for the script's own error, a damaged file, or a trial
\* that used up its restarts: no transient death is taken for an error.
FailureIsEarned ==
    state = "FAILED" =>
        \/ workload.bug # 0 \/ damaged
        \/ \E t \in Trials :
              Cardinality({l \in DOMAIN launches :
                             launches[l] = [submit |-> submits, trial |-> t]}) = MaxRestarts + 1

\* A run that was submitted comes to its end, unless a launch raised: then it
\* stays RUNNING and whoever waits for it waits for ever.
RunEnds == state = "RUNNING" ~> (state \in {"SUCCEEDED", "FAILED"} \/ driver = "raised")

\* Without any fault a script without an error succeeds, also when it is
\* submitted again ("a resubmit against the same output_dir resumes",
\* sdk.py; "no one races past a half-written checkpoint", torch/__init__.py).
FaultlessRunSucceeds ==
    faults = 0 /\ workload.bug = 0 => state # "FAILED"
=============================================================================
