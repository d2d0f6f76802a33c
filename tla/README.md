# FlashML: a verification project

FlashML runs machine-learning jobs on machines that come and go. A coordinator
(`flashruntime`) keeps a table of tasks and leases them to devices; a device
(`flashnode`) claims a task, runs it, ships its checkpoints, uploads its output
and commits. Everything is pulled by the devices, over requests that may be
lost, repeated or late. Beside this there are jobs on Kubernetes, runs on the
local machine with restarts, drivers that train in rounds, and a planner. This
directory holds TLA+ models of them, the TLC runs that check the models and
proofs that TLAPS checks.

To check: `tlc -config MCLeaseManager.cfg MCLeaseManager` (each run names its
`.cfg`), and `tlapm` on `LeaseManagerProofs.tla`, `DurableLeasesProofs.tla`,
`CoordinatorProofs.tla`, `CheckpointProofs.tla`, `ExecutorLoopProofs.tla`,
`JobsProofs.tla`, `RoundsProofs.tla` and `LocalRunProofs.tla`.

## Inventory

| Component | Source | State | Operations | Hard because |
|---|---|---|---|---|
| Lease manager | `leases/manager.py`, `leases/store.py` | task records: state, attempts used, active lease and deadline, accepted attempt, lease history; insertion order | add, cancel, claim (sweeps first), heartbeat, complete, fail, sweep | late and repeated calls on superseded leases; boundary of the deadline; retry budget; silent workers |
| SQLite lease store, event ledger | `leases/sqlite_store.py`, `service/ledger.py` | rows of the task table, events and job rows in another file | save, load, append | each save and append is its own transaction; a raise or a crash between two of them |
| Coordinator routes | `service/modea.py`, `service/auth.py` | registered nodes and their credit, artifact files, the lease table | register, node heartbeat, claim, attempt heartbeat / complete / fail, PUT artifact | PUT awaits its body between two checks; duplicates; restart forgets nodes |
| Jobs | `service/app.py`, `lease_job_state` of `modea.py` | job rows and events | submit, read, list, sweeper, cancel | handlers of several durable steps; every read writes; cancel against completion |
| Checkpoint catalog | `checkpoint/catalog.py`, `service/checkpoints.py` | registered parts, manifests with their validation; in memory | register part, commit, mark verified, quarantine, latest valid | commits of several attempts out of order; verdicts that conflict |
| Checkpoint relay | `executor/loop.py` `_CheckpointRelay`, `flashml_workloads/sgd_trainer.py` | names shipped; files on disk | scan, upload, register, commit; final sweep | reads files that are being written; two sweeps at once; lost answers |
| Executor loop | `executor/loop.py`, `executor/client.py`, `executor/runner.py` | current lease, `lost` flag, counters | node heartbeat, claim, run, upload, complete / fail, quarantine | two threads and one flag; failures at any request |
| Placement policy | `scheduler/__init__.py`, node view of `modea.py` | none | eligible, choose | many fail-closed conditions whose order matters |
| From job to task | `recipes/command.py`, `workloads/command.py`, `expand_tasks` of `modea.py`, validators | none | validate, expand | five hops that forward each requirement by hand |
| Runners of a device | `executor/*_runner.py`, `archives.py`, `images.py`, `agent/cli.py`, `inventory/` | none | register, refuse, mount, extract | what is registered must be what is run; half-extracted archives |
| Kubernetes backend, watcher | `backends/kuberay.py`, `service/app.py` | job rows, watcher tasks, pods seen | submit, watch, pod watch, ingest, cancel | awaits between read and write of a row; watchers die with the process |
| Recovery policy | `recovery/` | none | signals, classify, decide | one failure shows several signals |
| SDK, launcher, local checkpoints | `sdk.py`, `launchers/`, `torch/__init__.py`, `checkpoint/local.py` | run, trial, restart, checkpoint tree, collected results | submit, drive, checkpoint, resume, collect | ranks killed while they write; stale results; resubmission |
| Drivers | `flashml_workloads/fedavg_driver.py`, `kmeans_driver.py` | round, weights, frozen keys | submit round, poll, reduce, publish, resume | partial rounds, stale uploads, crash between publish and report |
| Averaging | `flashml_workloads/fedavg_weights.py` | none | clip, mean | sample counts and outliers |
| Planner | `planner/` | none | candidates, verdicts, ranking, hints | limits that are absent or met exactly |
| Viewers, SDK artifact store, command lines, doctor, enrolment, integrations | see `PROJECT.json` | little or none | presentation, probes, builders | not stateful cores |

How they interact: the routes call the lease manager synchronously on one event
loop; the manager saves to the store and appends to the ledger inside each
call; job state is derived from the task table on every read and by a sweeper
every two seconds; a device only talks HTTP, from three threads (main,
attempt heartbeat, relay); the catalog is consulted when an attempt starts. A
driver of rounds is one more HTTP client, that submits a lease job a round. The
Kubernetes path shares the job rows and the ledger and nothing else; the SDK's
local runs share the recovery policy.

What makes them correct, in a sentence each: a task has one live holder, one
accepted result and at most `max_attempts` attempts (lease manager); what a
worker was told survives a crash (durable leases); the file of a completed task
is the accepted attempt's (coordinator); the end a job is shown with is real and
final (jobs); a manifest says what its own attempt registered and is never
rewritten, the last sweep of an attempt misses no file, and the resume point does
not go back (catalog, relay); results are thrown away only for dead leases
and nobody's lease stays alive (executor loop); a job on Kubernetes is only
shown with an end it had (watcher); a rank resumes from one whole checkpoint of
its own trial and a run fails only for a reason (local run); weights come from
accepted attempts alone and an announced round is never lost (drivers); a task
runs only where its job's spec allows (expansion, placement, runners).

## Modules

### `TaskContract`, `LeaseManager`

`TaskContract` is the abstract promise: phases of a task, number of grants,
winner. `LeaseManager` has one action per method of `manager.py`. `tasks` is the
table of `TaskRecord`, `queue` the insertion order of `store.py`. The manager
receives the time and compares deadlines with it, so a deadline is the time left
to it (`ttl`) and `Tick` lowers all of them: `deadline > now` is `ttl > 0`, and
`deadline <= now` is `ttl = 0`. A lease is its place in the task's
`lease_history`, and every lease ever issued may still be used by its worker
(`Issued`), which gives late, repeated and reordered calls. Events are left to
`DurableLeases`. `Claim` takes the jobs asked for and the verdict of the policy as
parameters; FIFO order is `FirstInQueue`. `Next` claims with the fixed verdict
`Fits`; `Call`, and with it `Protocol`, lets the policy answer differently at each
claim, as the coordinator's does when it sees other profiles.

Run `lease_manager`: three tasks of two jobs with two, two and one attempts,
lease times two, one and one, two nodes of which one task fits only one. That is
enough for a task to lapse, move to the other node and exhaust its budget while
another is pending and for claims limited to one job. 17,928 states. It shows
`RetryBudget`, `LeaseOnlyUnheldTasks` (the sweep of a claim takes a task from no
live holder), `ClaimMissesNothing` (a claim that returns nothing leaves no eligible
task pending or held by a lapsed lease), `ImplementsContract` and
`EveryTaskSettles`. Only clock and sweeper are
fair in the specification that is run: `lease_sweeper` wakes every two
seconds and swallows what one round raises. `EveryTaskSettles` is an
implication whose premise `Workers` says that nodes keep polling (the loop
does, see `ExecutorLoop`) and that a holder that keeps its lease reports in the
end (runners have a timeout).

### `DurableLeases`

A call is a list of effects (change memory, save, append an event) in the order
of the code; `Returns` performs all, `Raises` stops at an append that raises and
keeps memory, `Dies` stops anywhere and reloads memory from the rows. Saves are
assumed to succeed or to kill the process. `handed` and `told` remember what
workers were told; `replayed` and `acceptances` are what a reader of the ledger
computes. `WhatWasToldStands` is that handed leases and accepted commits are on
disk; `LedgerIsTrue` that the ledger shows a task accepted once at most, and that
while no call was cut short its replay gives each task's status, except for
cancelled tasks. The refinement
`DurableContract` maps the database, not memory, to
`TaskContract`.

Run `durable_leases`: two tasks, two nodes, both faults, any number of them
(35,630 states). The three invariants and the refinement are proved.

### `Coordinator`

The routes of `modea.py` over the lease manager (by INSTANCE; placement depends on
the profile a node registered). Routes are atomic except PUT, split at its await
into `StartPut`, `FinishPut` and `DropPut`. `files` holds, per task, which attempt
produced the bytes at the commit key, so `OutputValid` (existence and sha256) is
equality. A restart keeps table and files; `RestartWriting` leaves a torn file; a
registration that is repeated resets the node's count. `Enforcing` is
`authenticator.enforcing`; operator tokens are left out.

Run `coordinator_enforcing`: two tasks, two nodes, two uploads in flight
(245,000 states): the file of a completed task is the accepted attempt's
(`AcceptedOutputStands`), nobody overwrites what the holder uploaded but its own
node (`HoldersUploadStands`), and credit is given once per accepted result
(`CreditIsEarned`). All three are proved.

### `LeaseJobs`

Handlers of `app.py` as lists of durable steps; a handler may be cut short after
any of them, `MaxCuts` times (two: a submission and a later refresh or
cancellation). Tasks follow `TaskContract`. Fairness: the sweeper, claims, and
strong fairness of settling since attempts are finite, which is what
`EveryTaskSettles` establishes of the manager. Run `lease_jobs`: two jobs, 2,575
states. `ShownEndIsTrue`: a job shown as ended is complete, idle and has its
event; `EndedJobIsFinal`; `EveryJobEnds` although nobody may ever read the job.
The first two are proved.

### `CheckpointCatalog`

The catalog's operations, the choice of `latest_valid` (the greater step, then
restore-verified before hash-verified, then the later creation) and the resume
point. A commit may name any part set. `MaxManifests` bounds the list.

Run `catalog_safety` (716,425 states, a minute; parts and contents are
interchangeable): two parts of two contents, two steps and three manifests, which
lets a part be registered again under another content between two commits, and two
steps be committed out of order with a verdict on either. `ManifestStands`: a
manifest is committed from parts that then stand registered for its own attempt and
step, one content a part, and never changes or disappears. It does not say that they
are all the parts: the code does not see to that (`ManifestIsComplete`, under
Divergences). `ResumeNeverRecedes`: only a quarantine moves the resume point back.
Both are proved.

### `CheckpointRelay`

Composes the catalog with a task's process, the relay thread, the final sweep of
`finish()`, a thread left over from the node's previous run, the artifact files
and the lease. A file is `partial` between opening and closing. Requests may be
lost before or after they took effect. That a file is read (`ReadFile`) and that its
bytes arrive (`Upload`) are two steps, since a request may take fifteen seconds and
`finish()` waits ten for the thread. `run.half` is a history: the steps of which a
thread holds or sent what the file held before its end.

Run `checkpoint_relay`: two attempts of two checkpoints and one lost request or
restart (9.2 million states, two to three minutes). Two checkpoints are enough for a
thread to hold one file while the final sweep ships another; two attempts for a
resume and for a thread left over. `ManifestHasBytes`: no manifest without bytes in
the store. `FinalSweepShips`: after a final sweep of a run none of whose requests
failed, every file the process left has been shipped, and every one that was written
to its end lies in the store to its end, unless a thread read it before that.
`ResumesWhereShipped`: no attempt resumes behind what was shipped since the last
restart. All three are proved.

The exception in `FinalSweepShips` is a fault of the code: a name that was shipped
is never shipped again, so the sweep passes over a file of which the thread took the
beginning (`FinalSweepShipsWhole`, under Divergences). Run `relay_partial`, expected
to fail, shows what comes of it and needs no fault: the relay reads a file in the
middle of `write_text`, and its hash is that of the half file, so the manifest is
valid and is preferred as the latest.

### `ExecutorLoop`

The main thread of a device as a program counter (`Round` to `After`), its
heartbeat threads as sets of leases (`beating`, `sent`, `lost`) and the
coordinator's lease table with another device on it. Staging, running and
uploading are one step each. `Unanswered` is a request of the main thread that
fails, performed or not; what follows depends on where the code catches it. A
commit (`Commit`) may be accepted, rejected as late or, if the coordinator finds the
output missing or other than claimed, be turned into a failure of the attempt.
`sent` keeps heartbeats that are on their way after `hb.stop()`.

Run `executor_loop`: two tasks, two devices, one failed request or restart
(161,490 states, liveness included; about a minute). Fairness: the main thread goes
on (a runner ends or is killed by its timeout, requests have a timeout of 15
seconds), time passes, requests arrive, the other device reports. The number of
faults is bounded, so the coordinator is reachable in the end. `MaxFailures` is
one where the command line's default is three: the streak is one counter and
the threshold is reached in every way it can be. One task has a lease of two ticks, so
that a heartbeat between two ticks could keep it for ever. `stop_event` is read at the
head of the loop only, so `Round` may end there. `LostIsGone` and `CountsAreTrue`
are proved; `LeasesMoveOn` says that no lease stays with nobody working on it,
and that the work gets done.

### `RayJobs`

A job on the Kubernetes path: `submit_job`, the watcher (`watch_job` over
`stream_events`, `_pod_events`, the ingestion of artifacts) and `cancel_job`, in
steps that end at their awaits. The watcher works on a record of its own and stores
the whole record; `rayRow` is what the ledger shows (names begin with Ray where
`LeaseJobs` has the same, since `JobsProofs` extends both). The RayJob and its pods
are an automaton of the environment that moves through the statuses KubeRay
documents, with stops, deadlines and replaced workers ("unset" stands for the empty
status); suspension is left out, which only `spec.suspend` brings about and no
manifest of the code has. Pod names are not used again. A call may fail, performed
or not, and the service may be restarted, which ends every task of it.

Run `ray_jobs`: a group of one worker that may be replaced once, two cancellations
at once and one fault (211,004 states). One replacement is enough for
a loss to be seen before, after and in the same look as the new pod; two
cancellations for one that finds the RayJob gone. `EndsAreTrue`: a success shown
is Ray's own and is in the ledger, and a failure shown has a cause.
`CancelSticks`: a watcher in the middle of a call does not overwrite CANCELLED.
Both are proved. `JobSettles` is stated for jobs that still have a watcher, since
none is started again after a restart. Fairness: the watcher's awaited calls end,
the event loop runs what is ready, and KubeRay moves a RayJob on, if only by
`activeDeadlineSeconds`.

### `Recovery`, `LocalRun`

`Recovery` is the reading of a local process's end, the order of precedence of
the classes and the policy's table. `LocalRun` runs it: the driver of `sdk.py`
with its trials and restarts, the launcher, the ranks with their loop, gradient
exchange, barrier and checkpoint, and the collection of `metrics.json`. The
script is the one the repository shows its users
(`examples/user_pytorch/train.py`). A process may be killed anywhere, a file is torn
from opening to closing, `metrics.json` included, and a part may be damaged from
outside. The manifest holds the hashes of the parts as they lie on disk
(`Hashed`): a part that is damaged before has a manifest that certifies the damage,
and the launch that loads it is taken to raise.

Run `local_run` (92,504 states): three steps with a checkpoint at each, one
restart, two submissions into one directory, two faults; a sweep of two trials, a
script on two ranks with and without a bug at step two, and one rank with the
bug. Three steps let a resume fall behind the newest checkpoint by one interval
and still have one to start from; two submissions let stale results be found.
`RestoredIsOwn`: the model and optimizer a rank restores were saved together, by
its own trial, and no trial is credited with another's metrics.
`LostWorkIsBounded`: without damage a launch gives up at most one interval of what
was checkpointed. `FailureIsEarned`: no transient death is taken for the script's
error. These three are proved. `RunEnds`: a driver that was not stopped by
`LaunchError` ends. Fairness: driver and processes go on, collectives time out
when a rank does not come.

### `Rounds`

The federated and the k-means driver over a table of tasks whose rules are those
checked in `Coordinator`: only a holder uploads, only an attempt that uploaded
is accepted. Weights are their own history (the rounds that made them, each with
its job and the attempts taken in), so a lost, repeated or mixed round shows.
The two calls of `_committed_metrics_keys` are two steps. The caller may restart
the driver with all the pairs it noted or those of the last run only.

Run `rounds` (1.2 million states, two minutes): three rounds of two shards, a
quorum of one, two attempts a task, a timeout of one poll and two tries of one
reading, two restarts and one fault (a lapse, failed call, crash or
cancellation). A quorum of one of two leaves a late shard in every round; two
restarts let a resumed run be resumed; three rounds leave one between the first
and the last. `WeightsAreEarned` and `ToldRoundsStand` are proved; `RunEnds` with
fairness of the driver alone, since no worker need ever appear: the deadline of a
round ends it.

### `Placement`, `Expansion`, `HostRunner`, `Planner`, `Averaging`, `Decisions`

Decisions without state, as operators. `Placement` has the gates of `eligible` in
the order of the code; a requirement may be absent, mistyped (`Confused`) or a
value. `Expansion` is what a job of each type is refused for and the requirements
its tasks carry. `HostRunner` is what a device registers for the runner it was
started with, what that runner refuses and hands over, the image policy and the
extraction of archives. `Planner` has the families of candidates with their
rejections, the ranking and the hints, in scaled integers. `Averaging` is the
clipped, sample-weighted mean.

`Decisions` composes them where the code does: a behaviour asks one question and
keeps it with its answer, so that a property relates the two ends of a chain of
calls (`DecisionSpec`, since `RoundsProofs` extends `Rounds` as well). The
operators are relations and choices rather than loops where that says the same:
the median is the norm with as many on either side (`Ordered`). Run `decisions`
(488,919 states, half a minute):

- `JobRunsAsAsked`: what a task has where it runs is what its job's spec asked
  for: pool, containment, datasets, devices.
- `PlacedIsRun`: a runner does not refuse what was placed for it. Hosts of the
  trusted tier are excepted, see Divergences.
- `WaiverBuysOnlyTheSandbox`: a waiver of isolation changes no other gate.
- `SystemicEvidenceStopsRetries`: no retry while the control plane fails.
- `ArchiveIsAllOrNothing`: what an archive leaves on disk is the last file of each
  of its names, whole and within the limits, or nothing.
- `RelaxingKeepsPlan`: asking for less, or offering more, never takes a plan away,
  nor makes the fastest or cheapest one worse.
- `HonestMajorityBounds`: a majority of short deltas bounds the mean.

All seven are proved. `JobsRunAsAsked` has the hypothesis `HonestClaims` (a sandbox that
an operator or a cluster's label claims is there; `discover` registers the claim
unseen), `PlacedWorkIsRun` the hypothesis `AllowlistsAgree` (the coordinator's list of
modules and the runners' are kept apart in the code, and are the same today).

Inputs are every combination of the fields the code looks at, with values on both
sides of each limit: requirements absent, confused and given (the tier of isolation
too), hosts with a malformed list of lent datasets, which do not start, archives of
up to three members whose names repeat and whose streams break off, models of which
a part is trained, rounds of up to four deltas (a median of an odd and of an even
number; one and two against three and two), and requests one step from each
rejection of the planner.

## Bounds

These constants bound a model and are not parameters of the code; each appears
in a guard: `MaxUploads` (uploads in flight), `MaxCuts` (handlers cut short),
`MaxManifests`, `MaxFaults` (failed calls, restarts, kills), `MaxSubmits`
(submissions into one directory), `MaxRestarts` of `Rounds` (in `LocalRun` it is
`max_restarts` of the SDK), `MaxWorkers` (pods a group has had) and the set
`Requests` of `RayJobs`.
Histories are bounded by `MaxAttempts` and clocks by `LeaseTime`, which are
parameters of the code. Faults are few because what follows one (a retry, a
resumption, a second holder) is explored to the end, with all interleavings.

## Proofs

`LeaseManagerProofs` proves, for any sets of tasks, nodes and jobs, any
placement, positive budgets and lease times (the four `ASSUME`s of
`LeaseManager`):

- `LeaseInvariant`, and from it `TypeCorrect`, `HolderIsUnique`,
  `AttemptsAreAccounted`, `BudgetIsRespected`, `AcceptedIsLast`;
- the action properties `TerminalStaysFinal` and `OnlyUnheldTasksAreLeased`;
- `ManagerImplementsContract`: each step is, per task, a step of `TaskContract`;
- `EmptyClaimMissedNothing` (`ClaimMissesNothing`) and `ClaimsAreAnswered`: a
  claim with candidates always has exactly one oldest to lease, so `Claim` never
  blocks and never chooses.

What does not name `Fits` is proved of `Protocol`, any sequence of calls with any
verdicts (`ProtocolInvariant`, `ProtocolImplementsContract` and the action
properties), and carried to `Spec` by `SpecIsProtocol`.

The argument: every call rewrites the records it touches independently, so
`StepsAreRecordSteps` reduces `Next` to `RecordStep`, a relation on one record,
and everything else is about one record. `LeaseInv` is the conjunction of its
five parts; it is needed as a whole, since neither the budget nor the winner can
be shown alone: that a sweep fails a task with exactly `max_attempts` attempts
rests on the accounting, that the winner is the last attempt rests on the
holder being the newest lease, and that a terminal record does not move under
`Tick` rests on `ttl` being zero without a holder. `ClaimsAreAnswered` needs an
invariant about the queue, `QueueIsTable` (the registered tasks, each once), and a
least place among those of the candidates.

`CoordinatorProofs` proves, for any tasks, nodes, profiles, placement and number
of uploads in flight:

- `AcceptedOutputIsNeverReplaced`, with `Enforcing`: the file of a completed task
  is and stays the accepted attempt's. `OutputInv` is the property and the shape
  of the table: a write requires the task to be leased by the second check, hence
  not completed, and only a commit whose file was just validated completes a task.
- `CreditIsNeverUnearned`, in both modes: a node has no more credit than completed
  tasks whose accepted attempt is its own. `CreditInv` adds that credit is a
  number for every node: the set of such tasks only grows, by one at an accepted
  commit, which alone gives credit.
- `HoldersOutputIsSafe`, with `Enforcing`: what a holder uploaded is overwritten
  by its own node alone. `UploadInv` adds that a file, and an upload in flight,
  comes from a lease that was issued: histories only grow and a new holder is a
  lease under which nothing was uploaded.
- `RoutesKeepProtocol`: the routes change the table by calls of the manager alone,
  so all that is proved of `Protocol` holds of the coordinator's table, whatever
  profiles, uploads and restarts do in between.

`CheckpointProofs` proves of the catalog `ManifestsStand` (`ManifestStands`) and
`ResumePointNeverRecedes`. That a key is registered under one content at most is
part of the type invariant, and makes what is committed one content a part; no
operation but a commit adds a manifest, and the verdicts touch nothing else. The
order of `latest_valid` is a strict total order on the manifests, so a nonempty
finite set of candidates has a best one, and the best has the greatest step; an
operation that leaves every selectable manifest selectable can then only find a
greater one.

`ExecutorLoopProofs` proves, for any tasks, devices, budgets, lease times and
number of faults, `DiscardsOnlyTheDead` (`LostIsGone`) and `CountIsHonest`
(`CountsAreTrue`). `LoopInv` says that every lease a heartbeat thread was refused is
one that was issued and is not live, and bounds the streak of failures; its step
rests on the fact that no call of the manager brings a lease back to life.
`CountInv` adds that an accepted attempt is one that was issued: the device counts
at an accepted commit of its own lease only, and such a task stays accepted.
`LoopKeepsProtocol` is `RoutesKeepProtocol` for the loop: heartbeat threads, retries
and lost requests included, the table sees calls of the manager and nothing else.

`DurableLeasesProofs` proves, for any tasks, jobs, nodes, placement, budgets, lease
times and faults and for calls of any number of effects:

- `DatabaseIsMemory`, `WhatWasToldIsDurable`, `LedgerCanBeTrusted`, from
  `DurableInvariant`;
- `FinalUnlessAppendsRaise`: where no append can raise, terminal states are final.
  The hypothesis on `Faults` is needed, see the first line under Divergences;
- `DatabaseImplementsContract`: every call, with every cut, is for each row a step
  of `TaskContract` or none.

A call is a list of effects and may be cut after any of them. `DurableInv` speaks of
the states between calls; the argument follows a call effect by effect through
`Seen` (where the process may die: each row is where it was or one step of its
contract on), `Halting` (where an append may raise) and `Settled` (where the call may
return). The invariant has to say how memory may differ from its row: a record is the
row, or the row released after an append that raised before the save (`Lag`).
Without it, neither can a later save be shown to be a step of the contract, nor an
acceptance to be saved before it is told.

`JobsProofs` proves `ShownEndsAreTrue` (`ShownEndIsTrue`) and
`EndedJobsAreFinal` (`EndedJobIsFinal`) for any finite set of jobs, nonempty
expansions that share no task, and number of calls cut short. `JobsInv` adds what
lies between two durable steps: a job has a row only after all its tasks, and an end
that was recorded, though not yet stored, is the one its tasks came to. This makes a
cut between `append_event` and `upsert_job` harmless, since the next refresh records
the same end again. `Good` is the set of tables such steps keep to, and each
handler's list of steps is shown to stay in it, step by step.

`JobsProofs` also proves, of the Kubernetes path, `RayEndsAreTrue` (`EndsAreTrue`)
and `CancellationSticks` (`CancelSticks`) for any number of workers, cancellations
and faults. `RayInv` ties
what the watcher holds across its awaits to the RayJob: while it polls, no end was
reported and what it fetched is what came (`Polling`); after it saw an end, the
record it is going to store is that end (`Ending`); a cancelled job has no watcher
that could still write (`CancelledIsAlone`). That a failure has a cause rests on
`MissedIsDisturbed`: only a cancellation or a fault takes the RayJob away.

`CheckpointProofs` proves of the relay `ManifestsHaveBytes`,
`FinalSweepMissesNothing` and `AttemptsResumeWhereShipped` for any number of steps,
attempts and faults. `RelayInv` adds that what is registered and committed was
uploaded (`RequestsAreReal`), what is left to ship is on disk (`WorkIsThere`), the
final sweep has in its list or its hand whatever is not shipped (`NothingIsMissed`),
and the highest step shipped is in the catalog (`CatalogIsEarned`). For the bytes,
`BytesAreTrue` is a second invariant: of a file that no thread read too early,
whatever is on its way is the file as it stays, so that a late arrival, even one
from the run before, writes the same again. Nothing is ever removed from the store,
so a lost answer, a leftover thread or a restart cannot separate a manifest from its
bytes. The point an attempt resumes from is the greatest selectable one by the
catalog's own lemma.

`RoundsProofs` proves `ToldRoundsAreKept` (`ToldRoundsStand`) and
`WeightsComeFromAcceptedWork` (`WeightsAreEarned`) for any number of rounds, any
finite set of shards, any quorum, polls, tries, restarts and faults. `RoundsInv`
says that an accepted attempt is one that uploaded and that a done task never moves
again, so what the driver read of it stays true; what the driver knows in each of
its steps (`DriverInv`); and that the published weights are one history, of which
each newer one holds the older (`PairsInv`), also over the pairs that were noted
before a restart.

`RoundsProofs` also proves what `Decisions` says, for any jobs, hosts, payloads, node
views, signals, archives, requests and contributions of the types the code admits:
`JobsRunAsAsked`, `PlacedWorkIsRun`, `WaiversBuyOnlyTheSandbox`,
`SystemicEvidenceStopsThem`, `ArchivesAreAllOrNothing`, `HonestMajoritiesBound` and
`RelaxingKeepsEveryPlan`. Their invariant, `Answered`, is only that the answer kept is
that of the question kept; the weight is in lemmas about the operators:

- The first four follow the fields of a spec through every hop, gate by gate, or the
  order of precedence class by class.
- A sum over a set is the value of a table over its subsets (`IsSum`), of which a
  least counterexample can be taken. Archives of any length are followed member by
  member with what was written and counted so far: the last file of each name, its
  bytes and no refused member (`StepTaken`). For the mean, the median is shown
  to be at most the norm of the longest delta of any majority, each clipped delta to
  be at most three medians, and the weighted sum so many times the samples.
- For the planner, `Eases` is the general relation of a request to a laxer one (any
  deadline or budget lifted, permissions added, as much or more memory, the rest
  equal). Memory estimates do not grow, recomputation of activations may be dropped
  but is never added (`PenaltyGrows`), and so each feasible candidate has one under
  the laxer request that is feasible, as fast, as cheap and no larger
  (`FeasibleIsEased`, by the four kinds of workload). A finite set of keys has a
  least one in the lexicographic order, so there is a plan (`BestExists`), and it is
  no worse (`AsGoodRanksFirst`). It need not be the same plan. The mode "reliable"
  prefers head-room to both, so that only the existence of a plan is claimed of it.

`LocalRunProofs` proves `RestoredIsAlwaysOwn` (`RestoredIsOwn`), `FailuresAreEarned`
(`FailureIsEarned`) and `LostWorkIsAlwaysBounded` (`LostWorkIsBounded`) for any
trials and scripts, numbers of steps, intervals, restarts, submissions and faults.
`LocalInv` says that a manifest names the files of one launch (`DiskInv`), that
until the other rank has loaded, the leading one writes only over what it loaded
itself (`SharedInv`), what the leading one has written of the checkpoint it is at,
which its manifest will hash (`SaveInv`), and how restarts count launches. For the
last theorem `WorkInv` follows the marks at which a checkpoint is due: the leading
rank has completed every mark before the one it is writing (`ProgressInv`), so only
the last can be torn, and the one before it is at most an interval back (`TreeInv`).

Steps and effects are lists, and what a handler does is defined by recursive
functions over them. The induction theorems of the library cannot be instantiated,
so these proofs argue by the least counterexample: `UpTo` says that a set that
contains 0, and k whenever it contains k - 1, contains all of `0 .. n`, by the
well-foundedness of < on the naturals. A function is first shown to be defined on
each `0 .. n` in this way, and then to stay in a set of good states.

The assumptions the proofs rest on are the `ASSUME`s of the modules, which TLC
evaluates in every run: finiteness of `Jobs` (a service lists finitely many) and
nonempty expansions (`expand_tasks`) for `LeaseJobs`, positive budgets and lease
times (the schema's minimum), at least one step and attempt, a finite set of shards
for `Rounds`, that None, Torn and Damaged are not the content of a file for
`LocalRun`, that the relay's catalog is that of one run for `CheckpointRelay`,
natural numbers elsewhere. Those of `Decisions` are the types of its inputs (the
fields of the schemas, a requirement of any shape, numbers where the code validates
numbers) and that what is missing or malformed is not a value; the two hypotheses
named above are in the theorems and not assumed, and `MCDecisions` has TLC evaluate
them of its hosts and contents. Proving also corrected the models: CASE expressions
whose guards overlapped, where TLA+ leaves the choice open and the code has an order
of `if`s, are now written in that order (`RayJobs`, `LeaseJobs`, `Rounds`), and
`FinalSweepShips` holds while the relay thread is still at work, which it used to
leave out; the planner's group sizes are every power of two below the number of
GPUs, which used to stop at 16.

Only model-checked: liveness (`EveryTaskSettles`, `EveryJobEnds`, `LeasesMoveOn`,
`JobSettles` and both `RunEnds`), since liveness under fairness and ENABLED are out of
the proof system's reach.
No module uses a RECURSIVE operator.

## Divergences

Where the code and what is said of it differ. Run `relay_partial`, expected to
fail, is listed in `PROJECT.json`; it needs no fault and is described under
`CheckpointRelay`.

Shown by configurations beside the runs, each of which TLC finds violated:

| Command | Property | What happens |
|---|---|---|
| `tlc -config MCDurableReopened.cfg MCDurableLeases` | `TerminalIsFinal` | `_release` appends before it saves (`manager.py:305`): an append that raises leaves FAILED in memory and LEASED in the database; after a restart the task is leased again |
| `tlc -config MCCoordinatorOpen.cfg MCCoordinator` | `DuplicateCannotPoison` | with the default, open authenticator a late upload replaces the accepted output (`architecture.md:80-82`) |
| `tlc -continue -config MCCatalogClaims.cfg MCCheckpointCatalog` | `ManifestIsComplete` | `commit` checks that expected parts are registered, not that registered parts are expected (`catalog.py:87` against its lines 5-7) |
| the same | `QuarantineIsForGood` | `mark_restore_verified` after `quarantine` makes a manifest selectable, although it is said to be never selectable again |
| `tlc -config MCRelayFinal.cfg MCCheckpointRelay` | `FinalSweepShipsWhole` | the thread ships the beginning of a file and enters its name (`loop.py:113,128`); the final sweep passes over the finished file, although `finish` is there to ship the last checkpoint (`loop.py:103-108`) |
| `tlc -config MCLoopRaises.cfg MCExecutorLoop` | `NeverRaises` | a job is cancelled, or the lease lapses, between the check of `hb.lost` and the upload; the coordinator answers 403, the client raises `RuntimeError` and nothing catches it |
| `tlc -config MCRayTerminal.cfg MCRayJobs` | `TerminalRowIsFinal` | the watcher fails while a deletion is awaited; the cancellation then overwrites the FAILED row |
| `tlc -config MCRayRecovering.cfg MCRayJobs` | `WorkersBackIsSeen` | one look finds the new pod and the loss of the old; the replacement is reported first, and the job stays RECOVERING with all its workers back |
| `tlc -config MCLocalResubmit.cfg MCLocalRun` | `FaultlessRunSucceeds` | a script resubmitted on two ranks rewrites its last checkpoint in place while the other rank looks for it: the ranks restore different steps, or a torn part (`sdk.py:309-310`, `torch/__init__.py:220-221`) |
| `tlc -config MCPlannerRam.cfg MCDecisions` | `OffloadFitsHost` | the RAM of an offloading plan is compared per rank and not for all ranks of a host (`candidates.py:241-242` against `plan_v1alpha1.py:160,207`) |

Noted while modelling, without a property:

- `cancel_task` has no event (`manager.py:76`), so a cancelled task's status is
  not in the ledger (`architecture.md:77-79` derives status from it).
- `cancel_job` stores CANCELLED by hand, also for a job with a failed task
  (`app.py:383` against `modea.py:846-847`).
- The catalog is not kept across a restart although its comment asks for it
  (`catalog.py:21-23`; `service/checkpoints.py:9-12` states the limitation).
- A submission that is cut short leaves tasks that workers claim and that no job
  shows (`app.py:296`).
- The lease time of a command job is not clamped as that of the other types is
  (`modea.py:61`).
- A host of the trusted tier registers as able to run modules, refuses them, and
  hands on neither environment, lent datasets nor devices; `PlacedIsRun` leaves it out.
- The expansions of hyperparameter searches, k-means and federated jobs do not
  forward `gpuPerTask`; `to_jobspec` drops the resources of the workload.
- A pool named "" is accepted and its tasks are placed nowhere; `local_inputs` is
  not validated.
- Inputs whose keys end in one file name overwrite each other (`loop.py:310-322`).
- The planner accepts `local_sequential` past the deadline, and tasks that need a
  GPU where there is none.
- `classify` never returns DATA_ERROR or NETWORK_DEGRADATION, which the policy has
  rows for; the storage marker "oss" also matches "loss" (`taxonomy.py:32`).
- A trial whose attempts all failed is credited with the metrics one of them left
  (`sdk.py:356`), and a resubmission with those of the run before it
  (`sdk.py:390-392`).
- A tar that is cut or damaged at a later header ends there for `tarfile`, without an
  error: what came before is extracted as if it were all (`archives.py:148`).
- `LaunchError` in the thread of a `wait=False` run leaves it RUNNING.
- The k-means driver counts every key that ends in `metrics.json`, nested outputs
  included; a federated round that met its quorum leaves its job running.

## Not modelled

`PROJECT.json` lists every component. Left out for good: presentation (viewer,
dashboard, status), builders without state (strategies, providers, profiles, the
command lines of containers), host probes and the doctor (their verdicts are
choices in `ExecutorLoop` and fields of a host in `HostRunner`), numerical code but
for the average. Left out so far: operator tokens and delegation of `auth.py`,
enrolment and stored credentials of a device, the SDK's artifact store and remote
checkpoint store. Real time is left out: intervals of heartbeats and of the
sweeper are fairness here, so a clock skew between device and coordinator is a
lease that lapses early. The planner's arithmetic is in scaled integers; of its
catalogues only the numbers a request carries are there.

## Plan

Done: the lease manager, durable leases, coordinator, jobs, catalog, relay and
executor loop; the Kubernetes path; recovery with the local run; rounds; the
decisions from job to container, of the planner and of the average. Proofs of every
safety property of these.

Next, in this order:

1. Authorization: operator tokens, delegation and enrolment as one state machine
   with expiry and revocation.
2. The SDK's artifact store under concurrent writers.
