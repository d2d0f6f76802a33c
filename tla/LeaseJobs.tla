------------------------------ MODULE LeaseJobs ------------------------------
(***************************************************************************)
(* Jobs on the lease path of the service (service/app.py): submission,     *)
(* the state derived from the task table, the sweeper and cancellation,    *)
(* over the jobs table and the events of service/ledger.py.                *)
(*                                                                         *)
(* Each handler is free of awaits, so handlers do not overlap; but each is *)
(* a sequence of durable steps, one transaction each, and the process may  *)
(* die, or an append raise, after any of them.  Nothing else is remembered *)
(* between two calls.  What workers and the lease manager do to a task is  *)
(* taken from the contract of TaskContract: a task in hand is won, spent   *)
(* or reopened, and a task that is won, spent or withdrawn stays so.       *)
(***************************************************************************)
EXTENDS Naturals, Sequences, FiniteSets

CONSTANTS
    Jobs,         \* the lease jobs that may be submitted
    TasksOf,      \* the tasks each job expands to, in order (expand_tasks)
    MaxCuts       \* bound on the calls that are cut short

TasksIn(j) == {TasksOf[j][i] : i \in DOMAIN TasksOf[j]}
Tasks == UNION {TasksIn(j) : j \in Jobs}

ASSUME JobsAssumption == IsFiniteSet(Jobs)
ASSUME TasksOfAssumption ==
    \A j \in Jobs : TasksOf[j] \in Seq(TasksIn(j)) /\ TasksOf[j] # <<>>
ASSUME DisjointAssumption ==
    \A j, k \in Jobs : j # k => TasksIn(j) \cap TasksIn(k) = {}
ASSUME MaxCutsAssumption == MaxCuts \in Nat

VARIABLES
    phase,        \* where each task is, in the terms of TaskContract
    row,          \* the job's state in the jobs table, "NONE" before it has one
    ended,        \* per job, the events that say it ended, in order
    asked,        \* the jobs somebody asked to submit
    cuts          \* calls cut short so far

vars == <<phase, row, ended, asked, cuts>>

Phase == {"new", "open", "held", "won", "spent", "withdrawn"}
Settled == {"won", "spent", "withdrawn"}
JobState == {"PENDING", "RUNNING", "SUCCEEDED", "FAILED", "CANCELLED"}
TerminalJob == {"SUCCEEDED", "FAILED", "CANCELLED"}

(***************************************************************************)
(* Durable steps                                                           *)
(***************************************************************************)
TaskStep(t, p) == [kind |-> "task", task |-> t, to |-> p]
RowStep(j, s) == [kind |-> "row", job |-> j, to |-> s]
EventStep(j, e) == [kind |-> "event", job |-> j, event |-> e]

Stored == [phase |-> phase, row |-> row, ended |-> ended]

Step(s, e) ==
    CASE e.kind = "task" -> [s EXCEPT !.phase[e.task] = e.to]
      [] e.kind = "row" -> [s EXCEPT !.row[e.job] = e.to]
      [] e.kind = "event" -> [s EXCEPT !.ended[e.job] = Append(@, e.event)]

\* The tables before the steps and after each of them.
States(steps) ==
    LET at[k \in 0 .. Len(steps)] == IF k = 0 THEN Stored ELSE Step(at[k - 1], steps[k])
    IN  at

\* The tables after the first k of the steps.
Leaves(steps, k) ==
    LET s == States(steps)[k]
    IN  /\ phase' = s.phase
        /\ row' = s.row
        /\ ended' = s.ended

\* A handler runs to its end, or is cut short after some of its steps.
Runs(steps) ==
    \/ Leaves(steps, Len(steps)) /\ UNCHANGED cuts
    \/ /\ cuts < MaxCuts
       /\ \E k \in 0 .. Len(steps) - 1 : Leaves(steps, k)
       /\ cuts' = cuts + 1

(***************************************************************************)
(* The state of a job                                                      *)
(***************************************************************************)

\* The tasks of the job that are in the lease table.
Known(table, j) == {t \in TasksIn(j) : table[t] # "new"}

\* lease_job_state, for an author who forgot that tasks can be withdrawn.
DerivedWithoutCancelled(table, j) ==
    LET known == {table[t] : t \in Known(table, j)}
    IN  IF known = {} THEN "PENDING"
        ELSE IF known \cap {"open", "held"} # {} THEN "RUNNING"
        ELSE IF "spent" \in known THEN "FAILED"
        ELSE IF known = {"won"} THEN "SUCCEEDED"
        ELSE "RUNNING"

\* lease_job_state: any active task, then any failed one, then all done.
Derived(table, j) ==
    LET known == {table[t] : t \in Known(table, j)}
    IN  IF known = {} THEN "PENDING"
        ELSE IF known \cap {"open", "held"} # {} THEN "RUNNING"
        ELSE IF "spent" \in known THEN "FAILED"
        ELSE IF known = {"won"} THEN "SUCCEEDED"
        ELSE "CANCELLED"

EndEvent(s) == IF s = "SUCCEEDED" THEN "JOB_SUCCEEDED" ELSE "JOB_FAILED"

\* refresh_lease_job, for terminal jobs too.
RefreshStepsAlways(j) ==
    LET s == Derived(phase, j)
    IN  IF s = row[j] THEN <<>>
        ELSE IF s \in TerminalJob THEN <<EventStep(j, EndEvent(s)), RowStep(j, s)>>
        ELSE <<RowStep(j, s)>>

\* refresh_lease_job: a terminal job is left alone; a job that ended is
\* recorded first and stored second.
RefreshSteps(j) ==
    LET s == Derived(phase, j)
    IN  IF row[j] \in TerminalJob \/ s = row[j] THEN <<>>
        ELSE IF s \in TerminalJob THEN <<EventStep(j, EndEvent(s)), RowStep(j, s)>>
        ELSE <<RowStep(j, s)>>

\* submit_job, with the job stored before its tasks.
SubmitStepsRowFirst(j) ==
    <<RowStep(j, "RUNNING")>>
    \o [i \in DOMAIN TasksOf[j] |-> TaskStep(TasksOf[j][i], "open")]

\* submit_job, lease path: the tasks one by one, the job last.
SubmitSteps(j) ==
    Append([i \in DOMAIN TasksOf[j] |-> TaskStep(TasksOf[j][i], "open")], RowStep(j, "RUNNING"))

\* cancel_task for every task of the job: one that is not in hand stays.
WithdrawSteps(j) ==
    [i \in DOMAIN TasksOf[j] |->
        LET t == TasksOf[j][i]
        IN  TaskStep(t, IF phase[t] \in {"open", "held"} THEN "withdrawn" ELSE phase[t])]

\* cancel_job: refreshed first, so a job that has ended meanwhile is not
\* cancelled any more.
CancelSteps(j) ==
    IF Derived(phase, j) \in TerminalJob THEN RefreshSteps(j)
    ELSE RefreshSteps(j) \o Append(WithdrawSteps(j), RowStep(j, "CANCELLED"))

(***************************************************************************)
(* Handlers                                                                *)
(***************************************************************************)

Init ==
    /\ phase = [t \in Tasks |-> "new"]
    /\ row = [j \in Jobs |-> "NONE"]
    /\ ended = [j \in Jobs |-> <<>>]
    /\ asked = {}
    /\ cuts = 0

\* submit_job; the job id is fresh, so the same job is not submitted again.
Submit(j) ==
    /\ j \notin asked
    /\ asked' = asked \cup {j}
    /\ Runs(SubmitSteps(j))

\* get_job, get_events, get_logs: any read of one job refreshes it.
ReadJob(j) ==
    /\ row[j] # "NONE"
    /\ Runs(RefreshSteps(j))
    /\ UNCHANGED asked

\* The orders some jobs may be listed in.
Orders(js) ==
    {order \in [1 .. Cardinality(js) -> js] :
        \A i, k \in DOMAIN order : order[i] = order[k] => i = k}

\* The refreshes of the jobs listed, one after the other.
RefreshAllSteps(order) ==
    LET upTo[i \in 0 .. Len(order)] ==
            IF i = 0 THEN <<>> ELSE upTo[i - 1] \o RefreshSteps(order[i])
    IN  upTo[Len(order)]

\* The sweeper and list_jobs: every job, one after the other.
RefreshAll ==
    \E order \in Orders({j \in Jobs : row[j] # "NONE"}) :
        /\ Runs(RefreshAllSteps(order))
        /\ UNCHANGED asked

\* cancel_job: 404 without a row, nothing to do for a terminal one.
Cancel(j) ==
    /\ row[j] \notin {"NONE"} \cup TerminalJob
    /\ Runs(CancelSteps(j))
    /\ UNCHANGED asked

\* A worker claims the task, with or without a row for its job.
ClaimTask(t) ==
    /\ phase[t] = "open"
    /\ phase' = [phase EXCEPT ![t] = "held"]
    /\ UNCHANGED <<row, ended, asked, cuts>>

\* The task is won by its holder, or has used its last attempt.
SettleTask(t) ==
    /\ phase[t] = "held"
    /\ \E p \in {"won", "spent"} : phase' = [phase EXCEPT ![t] = p]
    /\ UNCHANGED <<row, ended, asked, cuts>>

\* The holder fails or goes silent and attempts are left.
ReopenTask(t) ==
    /\ phase[t] = "held"
    /\ phase' = [phase EXCEPT ![t] = "open"]
    /\ UNCHANGED <<row, ended, asked, cuts>>

Next ==
    \/ \E j \in Jobs : Submit(j)
    \/ \E j \in Jobs : ReadJob(j)
    \/ RefreshAll
    \/ \E j \in Jobs : Cancel(j)
    \/ \E t \in Tasks : ClaimTask(t)
    \/ \E t \in Tasks : SettleTask(t)
    \/ \E t \in Tasks : ReopenTask(t)

Spec == Init /\ [][Next]_vars

(***************************************************************************)
(* Fairness: the sweeper wakes every two seconds, and survives what one    *)
(* iteration raises (lease_sweeper); tasks are claimed and, as their       *)
(* attempts are finite, settle (EveryTaskSettles of LeaseManager).         *)
(***************************************************************************)
FairSpec ==
    /\ Spec
    /\ WF_vars(RefreshAll)
    /\ \A t \in Tasks : WF_vars(ClaimTask(t)) /\ SF_vars(SettleTask(t))

-----------------------------------------------------------------------------
(***************************************************************************)
(* Properties                                                              *)
(***************************************************************************)

\* Every variable has its type.
TypeOK ==
    /\ phase \in [Tasks -> Phase]
    /\ row \in [Jobs -> JobState \cup {"NONE"}]
    /\ ended \in [Jobs -> Seq({"JOB_SUCCEEDED", "JOB_FAILED"})]
    /\ asked \subseteq Jobs
    /\ cuts \in 0 .. MaxCuts

\* The end a job is shown with is real, wherever its submission or a refresh
\* was cut short: SUCCEEDED means that every task it was expanded to has an
\* accepted result, FAILED that one of them ran out of attempts.
ShownEndIsReal ==
    \A j \in Jobs :
        /\ row[j] = "SUCCEEDED" => \A t \in TasksIn(j) : phase[t] = "won"
        /\ row[j] = "FAILED" => \E t \in TasksIn(j) : phase[t] = "spent"

\* A job shown as ended has no task left that a worker could claim or hold.
EndedJobIsIdle ==
    \A j \in Jobs : row[j] \in TerminalJob => \A t \in TasksIn(j) : phase[t] \in Settled

\* A job that is shown as ended stays as it is (app.py, refresh_lease_job
\* and cancel_job return a terminal job unchanged).
EndedJobIsFinal ==
    [][\A j \in Jobs : row[j] \in TerminalJob => row'[j] = row[j]]_vars

\* Whoever sees a job SUCCEEDED or FAILED finds the event in the ledger, and
\* the ledger never says both of one job, however often calls are cut short.
EndIsRecorded ==
    \A j \in Jobs :
        /\ row[j] \in {"SUCCEEDED", "FAILED"} => \E k \in DOMAIN ended[j] : ended[j][k] = EndEvent(row[j])
        /\ \A i, k \in DOMAIN ended[j] : ended[j][i] = ended[j][k]

\* What the row of an ended job promises, together: its tasks made that end, none
\* of them goes on, and the ledger tells the same.
ShownEndIsTrue == TypeOK /\ ShownEndIsReal /\ EndedJobIsIdle /\ EndIsRecorded

\* Every submitted job that is running comes to an end.
EveryJobEnds ==
    \A j \in Jobs : row[j] = "RUNNING" ~> row[j] \in TerminalJob
=============================================================================
