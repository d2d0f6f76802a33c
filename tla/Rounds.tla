-------------------------------- MODULE Rounds --------------------------------
(***************************************************************************)
(* Training in rounds on top of the coordinator: the federated-averaging   *)
(* driver (flashml_workloads/fedavg_driver.py) and the k-means driver      *)
(* (kmeans_driver.py), each a client that submits one lease job a round,   *)
(* waits for the shards, and reduces what they left into the weights the   *)
(* next round starts from.  Either may die at any point and be started     *)
(* again by its caller with the jobs the caller has noted.                 *)
(*                                                                         *)
(* Weights are their own history: the sequence of the rounds that made     *)
(* them, each with its job and the attempts whose deltas it took in.  The  *)
(* coordinator keeps the rules the module Coordinator checks: only the     *)
(* holder of a task uploads to it, and only an attempt that uploaded and   *)
(* still holds the task is accepted.  Claim and upload are one step: until *)
(* the upload, nothing a driver can read tells a held task from a free one.*)
(***************************************************************************)
EXTENDS Naturals, Sequences, FiniteSets, FiniteSetsExt

CONSTANTS
    Drivers,          \* the drivers that are run: some of "fedavg", "kmeans"
    Shards,           \* the tasks of a round's job
    Rounds,           \* rounds (iterations) asked for
    MinParticipants,  \* the quorum of a federated round
    MaxAttempts,      \* attempts the coordinator gives a task
    RoundTimeout,     \* polls a round may take
    PollAttempts,     \* tries of one reading of the coordinator
    MaxRestarts,      \* bound on the times the caller runs a driver again
    MaxFaults         \* bound on lapses, failed calls, crashes and cancellations

ASSUME DriversAssumption == Drivers \subseteq {"fedavg", "kmeans"}
ASSUME QuorumAssumption ==
    IsFiniteSet(Shards) /\ MinParticipants \in 1 .. Cardinality(Shards)
ASSUME BoundsAssumption ==
    /\ {Rounds, MaxAttempts, PollAttempts} \subseteq Nat \ {0}
    /\ {RoundTimeout, MaxRestarts, MaxFaults} \subseteq Nat

VARIABLES
    jobs,     \* the jobs submitted so far, as the coordinator knows them
    driver,   \* the locals of the driver, and where it is
    caller,   \* what the caller keeps: the pairs it noted, what it was told
    restarts, faults

vars == <<jobs, driver, caller, restarts, faults>>
bounds == <<restarts, faults>>

Unpublished == <<>>     \* no weights artifact: one that is there holds a round
NoUri == 0

Round(j, from) == [job |-> j, from |-> from]

NewTask == [state |-> "waiting", attempt |-> 0, file |-> 0]
NewJob(r, base) ==
    [round |-> r, base |-> base, tasks |-> [s \in Shards |-> NewTask],
     weights |-> Unpublished]

\* Nobody reads the keys of a job again whose driver has gone on or died: what
\* became of its tasks is forgotten, and what its workers still do is left out.
Left(js) == [j \in DOMAIN js |-> [js[j] EXCEPT !.tasks = [s \in Shards |-> NewTask]]]

\* lease_job_state, as LeaseJobs models it.
JobState(j) ==
    LET states == {jobs[j].tasks[s].state : s \in Shards}
    IN  IF states \cap {"waiting", "held"} # {} THEN "RUNNING"
        ELSE IF "lost" \in states THEN "FAILED"
        ELSE IF states = {"done"} THEN "SUCCEEDED"
        ELSE "CANCELLED"

\* The shards with an output at the key a task's commit is expected at.
Present(j) == {s \in Shards : jobs[j].tasks[s].file # 0}

\* _committed_metrics_keys, with the artifacts alone.
UploadedOf(j, present) == present

\* _committed_metrics_keys: an output counts when its task is COMPLETED.
CommittedOf(j, present) == {s \in present : jobs[j].tasks[s].state = "done"}

\* _fetch: what lies at the keys of the frozen set.
Fetched(j, keys) == {<<s, jobs[j].tasks[s].file>> : s \in keys}

\* The keys run_kmeans reads: each one that ends in metrics.json.  A script may
\* leave another one in a folder of its output; the federated driver asks for
\* the expected keys, and cannot tell.
PartialsOf(j) == Cardinality(Present(j)) * (IF driver.nested THEN 2 ELSE 1)

-----------------------------------------------------------------------------
(* Where a federated run starts again *)

Published(pairs) == {p \in pairs : jobs[p.job].weights # Unpublished}

\* resume_state, probing the oldest round first.
ResumePointsOldest(pairs) ==
    LET found == Published(pairs)
    IN  {p \in found : \A q \in found : p.round <= q.round}

\* resume_state: the pair of the newest round that has its weights; job ids
\* are drawn at random, so among the pairs of one round it is any.
ResumePoints(pairs) ==
    LET found == Published(pairs)
    IN  {p \in found : \A q \in found : q.round <= p.round}

\* resume_state raises: nothing aggregated, and the rounds before are unknown.
ResumeRefused(pairs) ==
    /\ pairs # {} /\ Published(pairs) = {}
    /\ \A p \in pairs : p.round > 0

-----------------------------------------------------------------------------
Polling == {"listing", "crossing", "state"}
Running == Polling \cup {"submit", "fetch", "publish", "report"}

Started(kind, nested, r, w, uri) ==
    [at |-> "submit", kind |-> kind, nested |-> nested, round |-> r, weights |-> w, uri |-> uri,
     job |-> 0, keys |-> {}, tries |-> 0, waited |-> 0]

Init ==
    /\ jobs = <<>>
    /\ \E k \in Drivers :
           \E nested \in (IF k = "kmeans" THEN BOOLEAN ELSE {FALSE}) :
               driver = Started(k, nested, 0, <<>>, NoUri)
    /\ caller = [pairs |-> {}, latest |-> {}, told |-> {}]
    /\ restarts = 0 /\ faults = 0

\* The locals of a driver that raised or died are gone.
Dead == [Started(driver.kind, driver.nested, 0, <<>>, NoUri) EXCEPT !.at = "failed"]

Go(d) == /\ driver' = d /\ UNCHANGED <<jobs, caller, bounds>>
Fault == /\ faults < MaxFaults
         /\ faults' = faults + 1
         /\ UNCHANGED restarts

Federated == driver.kind = "fedavg"

\* What the workers of the job start from: a weights artifact, or centroids.
Base == IF Federated
        THEN IF driver.uri = NoUri THEN <<>> ELSE jobs[driver.uri].weights
        ELSE driver.weights

FirstPoll == IF Federated THEN "listing" ELSE "state"

Pair == [round |-> driver.round, job |-> Len(jobs) + 1]

\* The round's job.  A caller that wraps the coordinator knows its id at once,
\* one that waits for on_round does not; the coordinator is not asked twice.
Submit ==
    /\ driver.at = "submit"
    /\ jobs' = Append(Left(jobs), NewJob(driver.round, Base))
    /\ driver' = [driver EXCEPT !.at = FirstPoll, !.job = Len(jobs) + 1,
                                !.tries = 0, !.waited = 0]
    /\ \E noted \in (IF Federated THEN {{}, {Pair}} ELSE {{}}) :
           caller' = [caller EXCEPT !.pairs = @ \cup noted, !.latest = @ \cup noted]
    /\ UNCHANGED bounds

\* _committed_metrics_keys, its first call: the artifacts.
ListArtifacts ==
    /\ driver.at = "listing"
    /\ Go([driver EXCEPT !.at = "crossing", !.keys = Present(driver.job)])

\* Its second call, the tasks, and what the loop makes of the result.
ListTasks ==
    /\ driver.at = "crossing"
    /\ LET keys == CommittedOf(driver.job, driver.keys)
       IN  IF Cardinality(keys) >= MinParticipants
           THEN Go([driver EXCEPT !.at = "fetch", !.keys = keys, !.tries = 0, !.waited = 0])
           ELSE Go([driver EXCEPT !.at = "state", !.keys = {}, !.tries = 0])

\* The test of a round that has no deadline of its own.
NeverOverdue(d) == FALSE

\* The deadline of the round is past.
Overdue(d) == d.waited > RoundTimeout

\* The job's state: the k-means driver goes on when it succeeded, both end when
\* it failed or was cancelled or the round is overdue, and
\* sleep otherwise: the clock counts the polls.
ReadState ==
    /\ driver.at = "state"
    /\ LET s == JobState(driver.job)
       IN  IF s = "SUCCEEDED" /\ ~Federated
           THEN Go([driver EXCEPT !.at = "fetch", !.tries = 0, !.waited = 0])
           ELSE IF s \in {"FAILED", "CANCELLED"} \/ Overdue(driver) THEN Go(Dead)
           ELSE Go([driver EXCEPT !.at = FirstPoll, !.tries = 0, !.waited = Min({@ + 1, RoundTimeout + 1})])

\* _retrying: a failed reading is tried again, so many times and not past the
\* deadline.  The k-means driver, and every other call, does not try again.
ReadingFails ==
    /\ driver.at \in Polling
    /\ Fault
    /\ driver' = IF Federated /\ driver.tries + 1 < PollAttempts
                    /\ driver.waited < RoundTimeout
                 THEN [driver EXCEPT !.tries = @ + 1, !.keys = {},
                                     !.at = IF @ = "state" THEN "state" ELSE "listing"]
                 ELSE Dead
    /\ UNCHANGED <<jobs, caller>>

\* The frozen set is downloaded and reduced (apply_delta, or the bootstrap).
Fetch ==
    /\ driver.at = "fetch" /\ Federated
    /\ Go([driver EXCEPT
             !.at = "publish", !.keys = {},
             !.weights = Append(@, Round(driver.job, Fetched(driver.job, driver.keys)))])

\* run_kmeans: every metrics.json under the job, and no more than the shards.
Reduce ==
    /\ driver.at = "fetch" /\ ~Federated
    /\ IF PartialsOf(driver.job) # Cardinality(Shards)
       THEN Go(Dead)
       ELSE Go([driver EXCEPT
                  !.weights = Append(@, Round(driver.job, Fetched(driver.job, Shards))),
                  !.round = @ + 1,
                  !.at = IF driver.round + 1 = Rounds THEN "done" ELSE "submit"])

Publish ==
    /\ driver.at = "publish"
    /\ jobs' = [jobs EXCEPT ![driver.job].weights = driver.weights]
    /\ driver' = [driver EXCEPT !.at = "report", !.uri = driver.job]
    /\ UNCHANGED <<caller, bounds>>

\* on_round, and the loop's next turn.
Report ==
    /\ driver.at = "report"
    /\ LET noted == {[round |-> driver.round, job |-> driver.job]}
       IN  caller' = [pairs |-> caller.pairs \cup noted,
                      latest |-> caller.latest \cup noted,
                      told |-> caller.told
                          \cup {<<driver.round, driver.weights[driver.round + 1]>>}]
    /\ driver' = [driver EXCEPT !.round = @ + 1,
                                !.at = IF driver.round + 1 = Rounds THEN "done"
                                       ELSE "submit"]
    /\ UNCHANGED <<jobs, bounds>>

\* A call outside _retrying fails, a delta is refused by reduce_deltas, or the
\* process dies.  What was being sent may still arrive.
Stops ==
    /\ driver.at \in Running
    /\ Fault
    /\ driver' = Dead
    /\ \/ UNCHANGED jobs
       \/ /\ driver.at = "submit"
          /\ jobs' = Append(jobs, NewJob(driver.round, Base))
       \/ /\ driver.at = "publish"
          /\ jobs' = [jobs EXCEPT ![driver.job].weights = driver.weights]
    /\ UNCHANGED caller

\* The caller runs the driver again: k-means from the start, a federated run
\* from where resume_state says, over every pair noted or the last run's.  It
\* also refuses weights that are empty or not finite: Publish puts up neither.
Restart ==
    /\ driver.at = "failed"
    /\ restarts < MaxRestarts /\ restarts' = restarts + 1
    /\ \E kept \in {caller.pairs} \cup ({caller.latest} \ {{}}) :
        /\ ~ResumeRefused(kept)
        /\ \/ /\ ResumePoints(kept) = {}
              /\ driver' = Started(driver.kind, driver.nested, 0, <<>>, NoUri)
           \/ \E p \in ResumePoints(kept) :
                  driver' = Started(driver.kind, driver.nested,
                                    p.round + 1, jobs[p.job].weights, p.job)
    /\ driver'.round < Rounds
    /\ caller' = [caller EXCEPT !.latest = {}]
    /\ jobs' = IF Federated THEN Left(jobs) ELSE <<>>
    /\ UNCHANGED faults

-----------------------------------------------------------------------------
(* The coordinator and its workers.  They go on with a job after the driver
   froze its set, until it submits the next. *)

SetTask(j, s, task) ==
    /\ jobs' = [jobs EXCEPT ![j].tasks[s] = task]
    /\ UNCHANGED <<driver, caller>>

\* A worker claims the task and uploads its output tree.
Attempt(j, s) ==
    LET t == jobs[j].tasks[s]
    IN  /\ t.state = "waiting"
        /\ SetTask(j, s, [state |-> "held", attempt |-> t.attempt + 1,
                          file |-> t.attempt + 1])
        /\ UNCHANGED bounds

Commit(j, s) ==
    LET t == jobs[j].tasks[s]
    IN  /\ t.state = "held"
        /\ SetTask(j, s, [t EXCEPT !.state = "done"])
        /\ UNCHANGED bounds

\* The lease lapses or the attempt fails: its upload stays where it is.
Lapse(j, s) ==
    LET t == jobs[j].tasks[s]
    IN  /\ t.state = "held"
        /\ Fault
        /\ SetTask(j, s, [t EXCEPT !.state = IF t.attempt < MaxAttempts
                                             THEN "waiting" ELSE "lost"])

CancelJob(j) ==
    /\ JobState(j) = "RUNNING"
    /\ Fault
    /\ jobs' = [jobs EXCEPT ![j].tasks = [s \in Shards |->
                  IF @[s].state \in {"waiting", "held"}
                  THEN [@[s] EXCEPT !.state = "cancelled"] ELSE @[s]]]
    /\ UNCHANGED <<driver, caller>>

DriverStep == \/ Submit \/ ListArtifacts \/ ListTasks \/ ReadState
              \/ Fetch \/ Reduce \/ Publish \/ Report

Next ==
    \/ DriverStep \/ ReadingFails \/ Stops \/ Restart
    \/ \E j \in DOMAIN jobs \cap {driver.job} :
        \/ CancelJob(j)
        \/ \E s \in Shards : Attempt(j, s) \/ Commit(j, s) \/ Lapse(j, s)

\* The driver runs, and its clock with it; no worker need ever appear.
Spec == Init /\ [][Next]_vars /\ WF_vars(DriverStep)

-----------------------------------------------------------------------------
\* Every variable has its type.
TypeOK ==
    /\ \A j \in DOMAIN jobs :
          /\ jobs[j].round \in 0 .. Rounds - 1
          /\ \A s \in Shards :
                /\ jobs[j].tasks[s].state \in {"waiting", "held", "done", "lost", "cancelled"}
                /\ {jobs[j].tasks[s].attempt, jobs[j].tasks[s].file} \subseteq 0 .. MaxAttempts
    /\ driver.at \in Running \cup {"done", "failed"}
    /\ driver.round \in 0 .. Rounds
    /\ driver.keys \subseteq Shards
    /\ {driver.job, driver.uri} \subseteq {0} \cup DOMAIN jobs
    /\ caller.latest \subseteq caller.pairs
    /\ \A p \in caller.pairs : p.job \in DOMAIN jobs /\ jobs[p.job].round = p.round

Enough(from) ==
    Cardinality({c[1] : c \in from})
        >= IF Federated THEN MinParticipants ELSE Cardinality(Shards)

\* A round is added to the weights only from accepted work on those weights: of
\* enough shards, each once and at the attempt the coordinator accepted, whose
\* workers had started from the weights as they stand.  No rejected attempt's
\* upload and no delta of an earlier run slips in.
WeightsAreEarned ==
    [][driver.at = "fetch" /\ driver'.at \notin {"fetch", "failed"} =>
           LET new == driver'.weights[Len(driver.weights) + 1]
           IN  /\ driver'.weights = Append(driver.weights, new)
               /\ Enough(new.from)
               /\ jobs[new.job].base = driver.weights
               /\ \A c \in new.from :
                      LET t == jobs[new.job].tasks[c[1]]
                      IN  t.state = "done" /\ t.attempt = c[2]]_vars

\* A round the caller was told of is never trained again and never dropped: a
\* run that resumes after any crash starts behind it, from weights that hold it.
ToldRoundsStand ==
    /\ TypeOK
    /\ Federated /\ driver.at \in Running =>
         /\ Len(driver.weights)
               = driver.round + (IF driver.at \in {"publish", "report"} THEN 1 ELSE 0)
         /\ \A t \in caller.told :
               t[1] + 1 \in DOMAIN driver.weights /\ driver.weights[t[1] + 1] = t[2]

\* A run ends, with its weights or an error, though no worker ever takes its
\* tasks: run_fedavg and run_kmeans give every round a deadline.
RunEnds == (driver.at \in Running) ~> (driver.at \in {"done", "failed"})
=============================================================================
