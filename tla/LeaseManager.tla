---------------------------- MODULE LeaseManager ----------------------------
(***************************************************************************)
(* The Mode A lease state machine (flashruntime/leases/manager.py) over    *)
(* the insertion-ordered task table of leases/store.py.                    *)
(*                                                                         *)
(* The manager takes the time as an argument and only ever compares a      *)
(* deadline with it, so a deadline is kept as the time left to it, `ttl`:  *)
(* a lease is alive while ttl > 0 and Tick brings every deadline one unit  *)
(* nearer.  A lease is named by its task and its place in the task's       *)
(* lease_history, which stands for the fresh uuid of the code; the attempt *)
(* number the lease carries is kept apart from that place.                 *)
(***************************************************************************)
EXTENDS Naturals, Sequences, FiniteSets

CONSTANTS
    Tasks,        \* the tasks that may be registered, over all jobs
    Jobs,         \* the jobs
    Nodes,        \* the worker nodes
    JobOf,        \* the job of each task (TaskSpec.job_id)
    Fits,         \* the tasks the placement policy lets each node have
    MaxAttempts,  \* TaskSpec.max_attempts
    LeaseTime     \* TaskSpec.lease_seconds, in ticks of the clock

ASSUME JobOfAssumption == JobOf \in [Tasks -> Jobs]
ASSUME FitsAssumption == Fits \in [Nodes -> SUBSET Tasks]
ASSUME MaxAttemptsAssumption == MaxAttempts \in [Tasks -> Nat \ {0}]
ASSUME LeaseTimeAssumption == LeaseTime \in [Tasks -> Nat \ {0}]

VARIABLES
    tasks,        \* the TaskRecord of each task
    queue         \* the registered tasks in insertion order

vars == <<tasks, queue>>

TaskState == {"ABSENT", "PENDING", "LEASED", "COMPLETED", "FAILED", "CANCELLED"}
Terminal == {"COMPLETED", "FAILED", "CANCELLED"}

Lease == [node : Nodes, attempt : Nat]

TaskRecord ==
    [state         : TaskState,
     attempts_used : Nat,
     active        : Nat,          \* place of the active lease, 0 for None
     ttl           : Nat,          \* time left to the active lease's deadline
     accepted      : Nat,          \* accepted_attempt_id, 0 for None
     history       : Seq(Lease)]   \* lease_history, in order of issue

NoRecord ==
    [state |-> "ABSENT", attempts_used |-> 0, active |-> 0, ttl |-> 0,
     accepted |-> 0, history |-> <<>>]

(***************************************************************************)
(* Faults a change to the code could plausibly introduce.  Each has the    *)
(* parameters of the definition named in its comment and takes its place   *)
(* in a run that must then fail; the specification uses none of them.      *)
(***************************************************************************)

\* IsLive, with a superseded lease still recognised by its deadline alone.
IsLiveIgnoringSupersession(t, i) ==
    tasks[t].ttl > 0 /\ tasks[t].state = "LEASED"

\* Release, with the retry budget off by one.
ReleaseOffByOne(t, r) ==
    [r EXCEPT !.active = 0, !.ttl = 0,
              !.state = IF r.attempts_used > MaxAttempts[t] THEN "FAILED" ELSE "PENDING"]

\* Lapsed, with the deadline tested one tick before it is reached.
LapsedEarly(r) == r.state = "LEASED" /\ r.active # 0 /\ r.ttl <= 1

\* Candidates, looked up before the sweep of the claim.
CandidatesBeforeSweep(table, scope, fits) ==
    {t \in fits : tasks[t].state = "PENDING" /\ JobOf[t] \in scope}

\* SweptTasks, for a claim or a sweeper that skips the expiry.
SweptNothing == tasks

(***************************************************************************)
(* The pieces of a transition                                              *)
(***************************************************************************)

NewRecord == [NoRecord EXCEPT !.state = "PENDING"]

\* The lease at place i of t's history is the one that holds t (_is_live).
IsLive(t, i) ==
    /\ tasks[t].active = i
    /\ tasks[t].ttl > 0
    /\ tasks[t].state = "LEASED"

\* What _release makes of a record: requeue, or exhaust the budget.
Release(t, r) ==
    [r EXCEPT !.active = 0, !.ttl = 0,
              !.state = IF r.attempts_used >= MaxAttempts[t] THEN "FAILED" ELSE "PENDING"]

\* A leased record whose deadline has passed: what a sweep looks for.
Lapsed(r) == r.state = "LEASED" /\ r.active # 0 /\ r.ttl = 0

\* The task table after sweep().
SweptTasks == [t \in Tasks |-> IF Lapsed(tasks[t]) THEN Release(t, tasks[t]) ELSE tasks[t]]

\* A record with a new lease for node n.
Leased(t, r, n) ==
    [r EXCEPT !.attempts_used = @ + 1,
              !.state = "LEASED", !.ttl = LeaseTime[t],
              !.active = Len(r.history) + 1,
              !.history = Append(@, [node |-> n, attempt |-> r.attempts_used + 1])]

\* A record withdrawn by its job; terminal states are final.
Cancelled(r) ==
    IF r.state \in Terminal THEN r
    ELSE [r EXCEPT !.state = "CANCELLED", !.active = 0, !.ttl = 0]

\* The queue with t behind everything registered before it.
Enqueued(t) == Append(queue, t)

\* The pending tasks of the jobs in `scope` that the policy accepts.
Candidates(table, scope, fits) ==
    {t \in fits : table[t].state = "PENDING" /\ JobOf[t] \in scope}

\* The first task of C in queue order: the policy's choice, and FIFO's.
FirstInQueue(C, t) ==
    /\ t \in C
    /\ \E i \in DOMAIN queue : /\ queue[i] = t
                               /\ \A k \in 1 .. i - 1 : queue[k] \notin C

(***************************************************************************)
(* Operations                                                              *)
(***************************************************************************)

Init ==
    /\ tasks = [t \in Tasks |-> NoRecord]
    /\ queue = <<>>

\* add_task: a second registration of a task is refused by the store.
AddTask(t) ==
    /\ tasks[t].state = "ABSENT"
    /\ tasks' = [tasks EXCEPT ![t] = NewRecord]
    /\ queue' = Enqueued(t)

\* cancel_task: idempotent, and refused for a task nobody registered.
CancelTask(t) ==
    /\ tasks[t].state # "ABSENT"
    /\ tasks' = [tasks EXCEPT ![t] = Cancelled(@)]
    /\ UNCHANGED queue

\* claim: sweep, then lease the policy's choice; nothing eligible, no lease.
\* `scope` is the jobs the caller asks for, `fits` the policy's verdict.
Claim(n, scope, fits) ==
    LET cands == Candidates(SweptTasks, scope, fits)
    IN  /\ \/ /\ cands = {}
              /\ tasks' = SweptTasks
           \/ \E t \in cands :
                 /\ FirstInQueue(cands, t)
                 /\ tasks' = [SweptTasks EXCEPT ![t] = Leased(t, @, n)]
        /\ UNCHANGED queue

\* heartbeat: a live lease gets its full window back; any other is refused.
Heartbeat(t, i) ==
    /\ IsLive(t, i)
    /\ tasks' = [tasks EXCEPT ![t].ttl = LeaseTime[t]]
    /\ UNCHANGED queue

\* complete: the holder's commit is accepted; a late or second one is not.
Complete(t, i) ==
    /\ tasks' = IF tasks[t].state = "COMPLETED" \/ ~IsLive(t, i) THEN tasks
                ELSE [tasks EXCEPT ![t].state = "COMPLETED", ![t].accepted = i,
                                   ![t].active = 0, ![t].ttl = 0]
    /\ UNCHANGED queue

\* fail: the holder gives its attempt up; any other report is refused.
Fail(t, i) ==
    /\ IsLive(t, i)
    /\ tasks' = [tasks EXCEPT ![t] = Release(t, @)]
    /\ UNCHANGED queue

\* sweep, on the coordinator's timer.
Sweep ==
    /\ tasks' = SweptTasks
    /\ UNCHANGED queue

\* One unit of time passes.
Tick ==
    /\ tasks' = [t \in Tasks |-> [tasks[t] EXCEPT !.ttl = IF @ = 0 THEN 0 ELSE @ - 1]]
    /\ UNCHANGED queue

\* Every lease ever issued for t may still be named by a worker.
Issued(t) == DOMAIN tasks[t].history

Next ==
    \/ \E t \in Tasks : AddTask(t)
    \/ \E t \in Tasks : CancelTask(t)
    \/ \E n \in Nodes, j \in Jobs : Claim(n, {j}, Fits[n])
    \/ \E n \in Nodes : Claim(n, Jobs, Fits[n])
    \/ \E t \in Tasks : \E i \in Issued(t) : Heartbeat(t, i)
    \/ \E t \in Tasks : \E i \in Issued(t) : Complete(t, i)
    \/ \E t \in Tasks : \E i \in Issued(t) : Fail(t, i)
    \/ Sweep
    \/ Tick

Spec == Init /\ [][Next]_vars

\* Any call of the manager, with a policy that may answer otherwise at every
\* claim: nodes change what they offer, and callers bring the policy along.
Call ==
    \/ \E t \in Tasks : AddTask(t) \/ CancelTask(t)
    \/ \E n \in Nodes, scope \in SUBSET Jobs, fits \in SUBSET Tasks : Claim(n, scope, fits)
    \/ \E t \in Tasks : \E i \in Issued(t) : Heartbeat(t, i) \/ Complete(t, i) \/ Fail(t, i)
    \/ Sweep
    \/ Tick

\* What whoever calls the manager may do to the table, and nothing else.
Protocol == Init /\ [][Call]_vars

-----------------------------------------------------------------------------
(***************************************************************************)
(* Fairness: the clock runs; the coordinator's sweeper task wakes every    *)
(* two seconds (service/app.py, lease_sweeper); workers keep polling for   *)
(* work, and one that keeps its lease alive eventually reports a result or *)
(* a failure, since a runner's payload has an end or a timeout.            *)
(***************************************************************************)
Reports(t) == \E i \in Issued(t) : Complete(t, i) \/ Fail(t, i)

ClockAndSweeper == WF_vars(Tick) /\ WF_vars(Sweep)

Workers ==
    /\ \A n \in Nodes : WF_vars(Claim(n, Jobs, Fits[n]))
    /\ \A t \in Tasks : WF_vars(Reports(t))

SweptSpec == Spec /\ ClockAndSweeper

-----------------------------------------------------------------------------
(***************************************************************************)
(* Properties                                                              *)
(***************************************************************************)

\* Every variable has its type.
TypeOK ==
    /\ tasks \in [Tasks -> TaskRecord]
    /\ queue \in Seq(Tasks)

\* A task is held by exactly one lease while it is LEASED and by none
\* otherwise, and the holder is the newest lease ever issued: no sequence of
\* expiries, failures and late calls hands a task back to a superseded lease
\* (manager.py, claim / _release / _is_live).
OneHolder ==
    \A t \in Tasks :
        LET r == tasks[t]
        IN  /\ (r.state = "LEASED") <=> (r.active # 0)
            /\ r.active # 0 => r.active = Len(r.history)
            /\ r.ttl > 0 => r.active # 0
            /\ r.ttl <= LeaseTime[t]

\* Every attempt is accounted for once: the k-th lease of a task carries
\* attempt number k, and attempts_used counts the leases ever issued, so a
\* late commit is always attributed to the attempt that made it.
AttemptsAccounted ==
    \A t \in Tasks :
        LET r == tasks[t]
        IN  /\ r.state = "ABSENT" => r.attempts_used = 0
            /\ r.attempts_used = Len(r.history)
            /\ \A k \in 1 .. Len(r.history) : r.history[k].attempt = k

\* The retry budget is neither overdrawn nor forfeited: a claimable task has
\* an attempt left, a FAILED task has used all of them, and no task is ever
\* attempted more than max_attempts times (manager.py, _release).
RetryBudget ==
    \A t \in Tasks :
        LET r == tasks[t]
        IN  /\ r.attempts_used <= MaxAttempts[t]
            /\ r.state \in {"ABSENT", "PENDING"} => r.attempts_used < MaxAttempts[t]
            /\ r.state = "FAILED" => r.attempts_used = MaxAttempts[t]

\* A COMPLETED task, and no other, has an accepted attempt, and it is the
\* last one issued: when a task was requeued, the result of an earlier
\* attempt was not the one that counted (manager.py, complete).
AcceptedWasLast ==
    \A t \in Tasks :
        LET r == tasks[t]
        IN  /\ (r.state = "COMPLETED") <=> (r.accepted # 0)
            /\ r.accepted # 0 => r.accepted = Len(r.history)

\* Everything that is true of the task table between two calls.
LeaseInv ==
    /\ TypeOK
    /\ OneHolder
    /\ AttemptsAccounted
    /\ RetryBudget
    /\ AcceptedWasLast

\* A result once accepted stays the accepted one, and no call reopens,
\* completes or cancels a task that reached a terminal state: "exactly one
\* accepted output per task, ever" (manager.py, complete and cancel_task).
TerminalIsFinal ==
    [][\A t \in Tasks : tasks[t].state \in Terminal => tasks'[t] = tasks[t]]_vars

\* The history of a task only grows, by at most one lease at a time and only
\* for a task that has no live holder: two workers never hold live leases on
\* the same task, whatever the order of their calls.
LeaseOnlyUnheldTasks ==
    [][\A t \in Tasks :
        LET h == tasks[t].history
        IN  tasks'[t].history # h =>
               /\ Len(tasks'[t].history) = Len(h) + 1
               /\ SubSeq(tasks'[t].history, 1, Len(h)) = h
               /\ ~ \E i \in DOMAIN h : IsLive(t, i)]_vars

\* A claim that comes back empty-handed left nothing behind it could have
\* had: no eligible task is pending, nor held by a lease that has lapsed
\* ("a claim never starves behind a dead worker", manager.py, claim).
ClaimMissesNothing ==
    [][\A n \in Nodes :
        Claim(n, Jobs, Fits[n]) =>
            \/ \E t \in Fits[n] : tasks'[t].history # tasks[t].history
            \/ \A t \in Fits[n] : tasks'[t].state # "PENDING" /\ ~Lapsed(tasks'[t])]_vars

\* While workers keep polling and reporting, every registered task that some
\* node may have ends up COMPLETED, FAILED or CANCELLED, however often its
\* holders go silent, fail or are superseded on the way.
EveryTaskSettles ==
    Workers =>
        \A t \in Tasks :
            (tasks[t].state # "ABSENT" /\ \E n \in Nodes : t \in Fits[n])
                ~> (tasks[t].state \in Terminal)

-----------------------------------------------------------------------------
(***************************************************************************)
(* The manager implements the contract of TaskContract.                    *)
(***************************************************************************)
PhaseOf(s) ==
    CASE s = "ABSENT" -> "new"
      [] s = "PENDING" -> "open"
      [] s = "LEASED" -> "held"
      [] s = "COMPLETED" -> "won"
      [] s = "FAILED" -> "spent"
      [] s = "CANCELLED" -> "withdrawn"

Contract == INSTANCE TaskContract WITH
    phase  <- [t \in Tasks |-> PhaseOf(tasks[t].state)],
    issued <- [t \in Tasks |-> tasks[t].attempts_used],
    winner <- [t \in Tasks |-> tasks[t].accepted]

\* Each step of the manager is a step of the contract, or none of it.
ImplementsContract == Contract!Spec
=============================================================================
