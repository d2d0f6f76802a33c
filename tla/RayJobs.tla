------------------------------- MODULE RayJobs -------------------------------
(***************************************************************************)
(* A job on the Kubernetes path of the service: submission, the watcher    *)
(* task and cancellation of service/app.py over the backend of             *)
(* backends/kuberay.py, with the RayJob and its worker pods as the         *)
(* environment.                                                            *)
(*                                                                         *)
(* Every call of the Kubernetes API is awaited, so that the handlers and   *)
(* the watcher overlap there and nowhere else.  What the awaited call does *)
(* and the resumption after it are separate steps when another handler can *)
(* tell them apart.  The watcher works on a JobRecord of its own and       *)
(* stores the whole record; a cancellation works on another copy.  An API  *)
(* call may fail and the service may be restarted, which ends its tasks.   *)
(*                                                                         *)
(* A worker pod is the place of its name in the order of the API's list;   *)
(* names carry a random suffix and are not used again.                     *)
(*                                                                         *)
(* The job's state and the parts of the specification are named for Ray, so*)
(* that proofs about jobs can speak of LeaseJobs and of this module at once.*)
(***************************************************************************)
EXTENDS Naturals, Sequences, FiniteSets

CONSTANTS
    MaxWorkers,   \* bound on the worker pods there may ever be
    Replicas,     \* the size of the worker group (maximumWorkers)
    Requests,     \* cancellation requests
    MaxFaults     \* bound on failed API calls and restarts of the service

ASSUME MaxWorkersAssumption == MaxWorkers \in Nat
ASSUME ReplicasAssumption == Replicas \in Nat
ASSUME MaxFaultsAssumption == MaxFaults \in Nat

\* The worker pods, in the order of the API's list.
Workers == 1 .. MaxWorkers

VARIABLES
    ray,          \* status of the RayJob: jobDeploymentStatus, jobStatus,
                  \* each "unset" before KubeRay writes it
    outcome,      \* how the Ray job ended, as far as it has
    pods,         \* the worker pods
    rayRow,       \* the job's state in the ledger, "none" before it has one
    ends,         \* the events of the ledger that say the job ended
    submitting,   \* where the submission is
    watching,     \* where the watcher is
    job,          \* the state in the watcher's JobRecord
    status,       \* the status it fetched in this poll
    last,         \* last_state of stream_events
    seen,         \* seen_pods of stream_events
    cancelling,   \* where each cancellation is
    faults        \* failed API calls and restarts so far

cluster == <<ray, outcome, pods>>
watcher == <<watching, job, status, last, seen>>
rayVars == <<cluster, submitting, rayRow, ends, watcher, cancelling, faults>>

RayJobState == {"SUBMITTED", "RUNNING", "RECOVERING", "SUCCEEDED", "FAILED", "CANCELLED"}
Terminal == {"SUCCEEDED", "FAILED", "CANCELLED"}

NoRay == <<"absent", "unset">>

(***************************************************************************)
(* Translations, each after the form a fault would give it                 *)
(***************************************************************************)

\* map_rayjob_status, with the cluster's state before the job's.
StateOfCluster(s) ==
    CASE s[1] = "Failed" -> "FAILED"
      [] s[1] = "Complete" -> "SUCCEEDED"
      [] s[1] = "Running" -> "RUNNING"
      [] OTHER -> "SUBMITTED"

\* map_rayjob_status, for an author who forgot that a Ray job can be stopped.
StateWithoutStopped(s) ==
    IF s[2] = "SUCCEEDED" THEN "SUCCEEDED"
    ELSE IF s[2] = "FAILED" \/ s[1] = "Failed" THEN "FAILED"
    ELSE IF s[1] = "Running" THEN "RUNNING"
    ELSE "SUBMITTED"

\* map_rayjob_status: the Ray job's own state wins once it is there.
StateOf(s) ==
    IF s[2] = "SUCCEEDED" THEN "SUCCEEDED"
    ELSE IF s[2] = "FAILED" \/ s[1] = "Failed" THEN "FAILED"
    ELSE IF s[2] = "STOPPED" THEN "CANCELLED"
    ELSE IF s[2] = "RUNNING" THEN "RUNNING"
    ELSE IF s[2] = "unset" /\ s[1] = "Running" THEN "RUNNING"
    ELSE IF s[2] = "unset" /\ s[1] = "Complete" THEN "SUCCEEDED"
    ELSE "SUBMITTED"

(***************************************************************************)
(* One look at the pods                                                    *)
(***************************************************************************)
Listed == {w \in Workers : pods[w] \in {"up", "deleting"}}
NewlyDeleting(w) == seen[w] = "up" /\ pods[w] = "deleting"

\* The events about one pod of the list.  `current` of the code holds the
\* pods of the list up to this one only.
PodEvents(w) ==
    IF seen[w] = "unseen"
    THEN IF \E p \in Workers : seen[p] # "unseen" /\ ~(p \in Listed /\ p <= w)
         THEN <<"RAY_WORKER_REPLACED">> ELSE <<>>
    ELSE IF NewlyDeleting(w) THEN <<"RAY_WORKER_LOST">> ELSE <<>>

Vanished == {w \in Workers \ Listed : seen[w] = "up"}

\* _pod_events: those about the pods listed, in order, then the vanished.
LookEvents ==
    LET listed[w \in 0 .. MaxWorkers] ==
            IF w = 0 THEN <<>>
            ELSE IF w \in Listed THEN listed[w - 1] \o PodEvents(w)
            ELSE listed[w - 1]
    IN  listed[MaxWorkers] \o [k \in 1 .. Cardinality(Vanished) |-> "RAY_WORKER_LOST"]

SeenNow ==
    [w \in Workers |-> IF w \notin Listed THEN "unseen"
                       ELSE IF NewlyDeleting(w) THEN "Deleting" ELSE "up"]

\* What watch_job makes of an event about a worker.
OnWorkerEvent(state, e) ==
    CASE e = "RAY_WORKER_LOST" -> "RECOVERING"
      [] e = "RAY_WORKER_REPLACED" /\ state = "RECOVERING" -> "RUNNING"
      [] OTHER -> state

\* The state after one such event after the other.
OnWorkerEvents(state, events) ==
    LET after[k \in 0 .. Len(events)] ==
            IF k = 0 THEN state ELSE OnWorkerEvent(after[k - 1], events[k])
    IN  after[Len(events)]

(***************************************************************************)
(* Submission                                                              *)
(***************************************************************************)

\* submit_job, up to the awaited creation; a spec that validate refuses (see
\* Expansion) leaves nothing behind.
SubmitRayJob ==
    /\ submitting = "idle"
    /\ submitting' = "creating"
    /\ UNCHANGED <<cluster, rayRow, ends, watcher, cancelling, faults>>

\* The RayJob is created by the API server.
Created ==
    /\ ray' = <<"unset", "unset">>
    /\ UNCHANGED <<outcome, pods>>

Create ==
    /\ submitting = "creating"
    /\ submitting' = "created"
    /\ Created
    /\ UNCHANGED <<rayRow, ends, watcher, cancelling, faults>>

\* The watcher's record and the locals of stream_events, before and after it.
NoWatcher ==
    /\ job' = "none"
    /\ status' = "none"
    /\ last' = "none"
    /\ seen' = [w \in Workers |-> "unseen"]

\* submit_job goes on: the job is stored and its watcher started.
Submitted ==
    /\ submitting = "created"
    /\ submitting' = "done"
    /\ rayRow' = "SUBMITTED"
    /\ job' = "SUBMITTED"
    /\ watching' = "status"
    /\ last' = "none"
    /\ seen' = [w \in Workers |-> "unseen"]
    /\ UNCHANGED <<cluster, ends, status, cancelling, faults>>

\* The creation fails, performed or not, and the job is stored as FAILED.
SubmitFails ==
    /\ faults < MaxFaults
    /\ faults' = faults + 1
    /\ submitting = "creating"
    /\ submitting' = "done"
    /\ Created \/ UNCHANGED cluster
    /\ rayRow' = "FAILED"
    /\ UNCHANGED <<ends, watcher, cancelling>>

(***************************************************************************)
(* The watcher: watch_job over stream_events                               *)
(***************************************************************************)

\* get_status at the head of a poll.
FetchStatus ==
    /\ watching = "status"
    /\ ray # NoRay
    /\ status' = StateOf(ray)
    /\ watching' = "pods"
    /\ UNCHANGED <<cluster, submitting, rayRow, ends, job, last, seen, cancelling, faults>>

\* The pods are listed, and then, without a pause, the status fetched before
\* them is looked at.  Only events about workers are stored at once.
ListPods ==
    LET now == OnWorkerEvents(job, LookEvents)
        lost == \E k \in DOMAIN LookEvents : LookEvents[k] = "RAY_WORKER_LOST"
        changed == status # last
    IN  /\ watching = "pods"
        /\ seen' = SeenNow
        /\ last' = status
        /\ rayRow' = IF now # job \/ lost THEN now ELSE rayRow
        /\ \/ /\ changed /\ status \in {"SUCCEEDED", "FAILED"}
              /\ ends' = Append(ends, IF status = "SUCCEEDED" THEN "JOB_SUCCEEDED"
                                      ELSE "JOB_FAILED")
              /\ job' = status
              /\ watching' = "final"
           \/ /\ ~(changed /\ status \in {"SUCCEEDED", "FAILED"})
              /\ job' = now
              /\ watching' = IF ~changed /\ status \in Terminal THEN "final" ELSE "status"
              /\ UNCHANGED ends
        /\ UNCHANGED <<cluster, submitting, status, cancelling, faults>>

\* The last get_status of watch_job; a success goes on to its artifacts.
LastStatus ==
    LET end == IF StateOf(ray) \in Terminal THEN StateOf(ray) ELSE job
    IN  /\ watching = "final"
        /\ ray # NoRay
        /\ IF end = "SUCCEEDED"
           THEN /\ watching' = "ingest"
                /\ job' = end
                /\ UNCHANGED <<rayRow, status, last, seen>>
           ELSE /\ watching' = "done"
                /\ rayRow' = end
                /\ NoWatcher
        /\ UNCHANGED <<cluster, submitting, ends, cancelling, faults>>

\* ingest_workload_artifacts, and the job is stored.
Ingest ==
    /\ watching = "ingest"
    /\ watching' = "done"
    /\ rayRow' = job
    /\ NoWatcher
    /\ UNCHANGED <<cluster, submitting, ends, cancelling, faults>>

\* Whatever is raised in the watcher makes the job FAILED.
Raised ==
    /\ watching' = "done"
    /\ rayRow' = "FAILED"
    /\ NoWatcher
    /\ UNCHANGED <<cluster, submitting, ends, cancelling>>

\* The RayJob is not there any more.
WatcherMissesRay ==
    /\ watching \in {"status", "final"}
    /\ ray = NoRay
    /\ Raised
    /\ UNCHANGED faults

\* A call of the Kubernetes API, or of the artifact store, fails.
WatcherFails ==
    /\ faults < MaxFaults
    /\ faults' = faults + 1
    /\ watching \in {"status", "pods", "final", "ingest"}
    /\ Raised

(***************************************************************************)
(* Cancellation                                                            *)
(***************************************************************************)

\* cancel_job, up to the awaited deletion.
CancelRayJob(c) ==
    /\ cancelling[c] = "idle"
    /\ rayRow # "none"
    /\ cancelling' = [cancelling EXCEPT ![c] = IF rayRow \in Terminal THEN "done" ELSE "deleting"]
    /\ UNCHANGED <<cluster, submitting, rayRow, ends, watcher, faults>>

Deleted ==
    /\ ray # NoRay
    /\ ray' = NoRay
    /\ UNCHANGED <<outcome, pods>>

Delete(c) ==
    /\ cancelling[c] = "deleting"
    /\ cancelling' = [cancelling EXCEPT ![c] = "deleted"]
    /\ Deleted
    /\ UNCHANGED <<submitting, rayRow, ends, watcher, faults>>

\* The watcher after a cancellation, its task left running.
StillWatching == UNCHANGED watcher

\* The watcher after a cancellation: popped and cancelled.
StopWatching == watching' = "off" /\ NoWatcher

\* cancel_job goes on: no watcher any more, and the job is stored.
Cancelled(c) ==
    /\ cancelling[c] = "deleted"
    /\ cancelling' = [cancelling EXCEPT ![c] = "done"]
    /\ StopWatching
    /\ rayRow' = "CANCELLED"
    /\ UNCHANGED <<cluster, submitting, ends, faults>>

\* The deletion raises and so does the request: there is no such RayJob.
CancelFails(c) ==
    /\ cancelling[c] = "deleting"
    /\ ray = NoRay
    /\ cancelling' = [cancelling EXCEPT ![c] = "done"]
    /\ UNCHANGED <<cluster, submitting, rayRow, ends, watcher, faults>>

\* The deletion fails, performed or not.
CancelUnanswered(c) ==
    /\ faults < MaxFaults
    /\ faults' = faults + 1
    /\ cancelling[c] = "deleting"
    /\ cancelling' = [cancelling EXCEPT ![c] = "done"]
    /\ Deleted \/ UNCHANGED cluster
    /\ UNCHANGED <<submitting, rayRow, ends, watcher>>

(***************************************************************************)
(* The environment                                                         *)
(***************************************************************************)

\* The service is restarted: no task of it goes on.
Restart ==
    /\ faults < MaxFaults
    /\ faults' = faults + 1
    /\ submitting' = IF submitting \in {"creating", "created"} THEN "done" ELSE submitting
    /\ watching' = "off"
    /\ cancelling' = [c \in Requests |-> IF cancelling[c] = "idle" THEN "idle" ELSE "done"]
    /\ NoWatcher
    /\ UNCHANGED <<cluster, rayRow, ends>>

\* What KubeRay may report next; a deadline fails a job at any time.  Only
\* `spec.suspend` makes a job Suspended, and the manifest has none.
NextStatus(s) ==
    CASE s = <<"unset", "unset">> -> {<<"Initializing", "unset">>}
      [] s = <<"Initializing", "unset">> ->
            {<<"Waiting", "unset">>, <<"Running", "unset">>, <<"Failed", "unset">>}
      [] s = <<"Waiting", "unset">> -> {<<"Running", "unset">>, <<"Failed", "unset">>}
      [] s = <<"Running", "unset">> ->
            {<<"Running", "PENDING">>, <<"Running", "RUNNING">>, <<"Failed", "unset">>}
      [] s = <<"Running", "PENDING">> ->
            {<<"Running", "RUNNING">>, <<"Failed", "FAILED">>,
             <<"Complete", "STOPPED">>, <<"Failed", "PENDING">>}
      [] s = <<"Running", "RUNNING">> ->
            {<<"Running", "SUCCEEDED">>, <<"Failed", "FAILED">>,
             <<"Complete", "STOPPED">>, <<"Failed", "RUNNING">>}
      [] s = <<"Running", "SUCCEEDED">> -> {<<"Complete", "SUCCEEDED">>}
      [] OTHER -> {}

\* The end a status speaks of.
EndOf(s) ==
    IF s[2] = "SUCCEEDED" THEN "SUCCEEDED"
    ELSE IF s[2] = "STOPPED" THEN "CANCELLED"
    ELSE IF s[1] = "Failed" THEN "FAILED"
    ELSE "none"

Progress ==
    /\ ray # NoRay
    /\ \E s \in NextStatus(ray) :
          /\ ray' = s
          /\ outcome' = EndOf(s)
    /\ UNCHANGED <<pods, submitting, rayRow, ends, watcher, cancelling, faults>>

\* ttlSecondsAfterFinished, ten minutes: long after the watcher's last look.
Expire ==
    /\ ray # NoRay
    /\ outcome # "none"
    /\ watching \in {"off", "done"}
    /\ submitting # "created"
    /\ ray' = NoRay
    /\ UNCHANGED <<outcome, pods, submitting, rayRow, ends, watcher, cancelling, faults>>

\* A worker pod is created while the group is short of one, asked to stop, or
\* gone: after that, or because its node is.  Pods that nobody will look at
\* any more are left alone.
WorkerChanges ==
    /\ submitting # "done" \/ watching \in {"status", "pods"}
    /\ \E w \in Workers :
          \/ /\ pods[w] = "none"
             /\ ray[1] \in {"Initializing", "Waiting", "Running"}
             /\ Cardinality({v \in Workers : pods[v] = "up"}) < Replicas
             /\ pods' = [pods EXCEPT ![w] = "up"]
          \/ pods[w] = "up" /\ pods' = [pods EXCEPT ![w] = "deleting"]
          \/ pods[w] \in {"up", "deleting"} /\ pods' = [pods EXCEPT ![w] = "gone"]
    /\ UNCHANGED <<ray, outcome, submitting, rayRow, ends, watcher, cancelling, faults>>

RayInit ==
    /\ ray = NoRay
    /\ outcome = "none"
    /\ pods = [w \in Workers |-> "none"]
    /\ rayRow = "none"
    /\ ends = <<>>
    /\ submitting = "idle"
    /\ watching = "off"
    /\ job = "none"
    /\ status = "none"
    /\ last = "none"
    /\ seen = [w \in Workers |-> "unseen"]
    /\ cancelling = [c \in Requests |-> "idle"]
    /\ faults = 0

Watch == FetchStatus \/ ListPods \/ LastStatus \/ Ingest \/ WatcherMissesRay

RayNext ==
    \/ SubmitRayJob \/ Create \/ Submitted \/ SubmitFails
    \/ Watch
    \/ WatcherFails
    \/ \E c \in Requests :
          CancelRayJob(c) \/ Delete(c) \/ Cancelled(c) \/ CancelFails(c) \/ CancelUnanswered(c)
    \/ Restart
    \/ Progress \/ Expire \/ WorkerChanges

RaySpec == RayInit /\ [][RayNext]_rayVars

\* The event loop runs the tasks that are ready, awaited calls end, and
\* KubeRay moves a RayJob on, if only by activeDeadlineSeconds.
FairRaySpec ==
    /\ RaySpec
    /\ WF_rayVars(Watch)
    /\ WF_rayVars(Progress)
    /\ WF_rayVars(Create \/ Submitted)
    /\ \A c \in Requests : WF_rayVars(Delete(c) \/ Cancelled(c) \/ CancelFails(c))

-----------------------------------------------------------------------------
(***************************************************************************)
(* Properties                                                              *)
(***************************************************************************)

\* Every variable has its type, and a job is reported to end at most once.
RayTypeOK ==
    /\ outcome \in Terminal \cup {"none"}
    /\ pods \in [Workers -> {"none", "up", "deleting", "gone"}]
    /\ rayRow \in RayJobState \cup {"none"}
    /\ ends \in {<<>>, <<"JOB_SUCCEEDED">>, <<"JOB_FAILED">>}
    /\ submitting \in {"idle", "creating", "created", "done"}
    /\ watching \in {"off", "status", "pods", "final", "ingest", "done"}
    /\ {job, status, last} \subseteq RayJobState \cup {"none"}
    /\ seen \in [Workers -> {"unseen", "up", "Deleting"}]
    /\ cancelling \in [Requests -> {"idle", "deleting", "deleted", "done"}]
    /\ faults \in 0 .. MaxFaults

\* A job is only shown to have succeeded when its Ray job did and the ledger
\* says so too, and no event of its end is invented: whatever workers come
\* and go, and however old the status is that a poll works with ("Backends
\* never invent job state", base.py).
EndsAreReal ==
    /\ rayRow = "SUCCEEDED" => ends = <<"JOB_SUCCEEDED">>
    /\ ends = <<"JOB_SUCCEEDED">> => outcome = "SUCCEEDED"
    /\ ends = <<"JOB_FAILED">> => outcome = "FAILED"

\* A job is only shown to have failed when its Ray job did, or something was
\* done to it: a failed call, a restart, or a cancellation on its way.
FailureHasCause ==
    rayRow = "FAILED" =>
        outcome = "FAILED" \/ faults > 0 \/ \E c \in Requests : cancelling[c] # "idle"

\* What a job is shown to have come to is so, in the row and in the ledger, whether it
\* is good or bad: both of the above.
EndsAreTrue == RayTypeOK /\ EndsAreReal /\ FailureHasCause

\* A job that was cancelled stays so: the watcher that was in the middle of a
\* call does not write its own end over it.
CancelSticks == [][rayRow = "CANCELLED" => rayRow' = "CANCELLED"]_rayVars

\* A submitted job comes to an end while its watcher lives, whatever becomes
\* of its workers, of failed calls and of cancellations that raise.
JobSettles == rayRow # "none" ~> (rayRow \in Terminal \/ watching = "off")

\* The three terminal states are final ("`.terminal` = one of the 3 final
\* ones", docs/protocol/v1alpha1_map.md).
TerminalRowIsFinal == [][(rayRow \in Terminal) => rayRow' = rayRow]_rayVars

\* A worker pod that appears in the place of a lost one is reported as its
\* replacement: a job does not stay RECOVERING with all its workers back.
WorkersBackIsSeen ==
    [](Cardinality({w \in Workers : seen[w] = "up" /\ pods[w] = "up"}) = Replicas
         /\ watching = "status" => job # "RECOVERING")
=============================================================================
