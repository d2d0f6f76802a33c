------------------------- MODULE LeaseManagerProofs -------------------------
(***************************************************************************)
(* Proofs about LeaseManager, for any tasks, nodes, jobs, placement,       *)
(* attempt budgets and lease times.                                        *)
(*                                                                         *)
(* Every call rewrites the records of the tasks it touches independently   *)
(* of each other, so the proofs go through one relation, RecordStep: what  *)
(* may happen to a single record.  StepsAreRecordSteps reduces Call to it; *)
(* the invariant, the action properties and the refinement are then facts  *)
(* about one record.  The last part is about the queue: that a claim finds *)
(* the oldest candidate rests on the queue listing every registered task   *)
(* once, and on the least element of a set of places.                      *)
(*                                                                         *)
(* What does not name the placement is proved of Protocol, which allows a  *)
(* different policy at every claim; Spec implies it, and CoordinatorProofs *)
(* and ExecutorLoopProofs show that those specifications imply it too.     *)
(***************************************************************************)
EXTENDS LeaseManager, SequenceTheorems, WellFoundedInduction, TLAPS

\* The record of t after the attempt at place i was accepted.
Committed(r, i) ==
    [r EXCEPT !.state = "COMPLETED", !.accepted = i, !.active = 0, !.ttl = 0]

\* A record, as the sweep of a claim leaves it.
AfterSweep(t, r) == IF Lapsed(r) THEN Release(t, r) ELSE r

\* The record of t goes from r to s in one call.
RecordStep(t, r, s) ==
    \/ s = r
    \/ r.state = "ABSENT" /\ s = NewRecord
    \/ r.state # "ABSENT" /\ s = Cancelled(r)
    \/ s = AfterSweep(t, r)
    \/ \E n \in Nodes : /\ AfterSweep(t, r).state = "PENDING"
                        /\ s = Leased(t, AfterSweep(t, r), n)
    \/ r.state = "LEASED" /\ r.ttl > 0 /\ s = [r EXCEPT !.ttl = LeaseTime[t]]
    \/ r.state = "LEASED" /\ r.ttl > 0 /\ s = Committed(r, r.active)
    \/ r.state = "LEASED" /\ r.ttl > 0 /\ s = Release(t, r)
    \/ s = [r EXCEPT !.ttl = IF @ = 0 THEN 0 ELSE @ - 1]

\* LeaseInv, for one record.
GoodRecord(t, r) ==
    /\ r \in TaskRecord
    /\ (r.state = "LEASED") <=> (r.active # 0)
    /\ r.active # 0 => r.active = Len(r.history)
    /\ r.ttl > 0 => r.active # 0
    /\ r.ttl <= LeaseTime[t]
    /\ r.state = "ABSENT" => r.attempts_used = 0
    /\ r.attempts_used = Len(r.history)
    /\ \A k \in 1 .. Len(r.history) : r.history[k].attempt = k
    /\ r.attempts_used <= MaxAttempts[t]
    /\ r.state \in {"ABSENT", "PENDING"} => r.attempts_used < MaxAttempts[t]
    /\ r.state = "FAILED" => r.attempts_used = MaxAttempts[t]
    /\ (r.state = "COMPLETED") <=> (r.accepted # 0)
    /\ r.accepted # 0 => r.accepted = Len(r.history)

-----------------------------------------------------------------------------
\* LeaseInv is GoodRecord of every task and the type of the two variables.
LEMMA LeaseInvByRecord ==
    LeaseInv <=> /\ tasks \in [Tasks -> TaskRecord]
                 /\ queue \in Seq(Tasks)
                 /\ \A t \in Tasks : GoodRecord(t, tasks[t])
  BY DEF LeaseInv, TypeOK, OneHolder, AttemptsAccounted, RetryBudget,
         AcceptedWasLast, GoodRecord

\* The budget and the window of a task are positive numbers.
LEMMA ConstantsArePositive ==
    ASSUME NEW t \in Tasks
    PROVE  /\ MaxAttempts[t] \in Nat /\ MaxAttempts[t] > 0
           /\ LeaseTime[t] \in Nat /\ LeaseTime[t] > 0
  BY MaxAttemptsAssumption, LeaseTimeAssumption

\* A new record is a good one.
LEMMA NewRecordIsGood ==
    ASSUME NEW t \in Tasks
    PROVE  GoodRecord(t, NoRecord) /\ GoodRecord(t, NewRecord)
  <1>1. NewRecord = [state |-> "PENDING", attempts_used |-> 0, active |-> 0, ttl |-> 0,
                     accepted |-> 0, history |-> <<>>]
    BY DEF NewRecord, NoRecord
  <1>2. <<>> \in Seq(Lease) /\ Len(<<>>) = 0
    OBVIOUS
  <1>3. NoRecord \in TaskRecord /\ NewRecord \in TaskRecord
    BY <1>1, <1>2 DEF NoRecord, TaskRecord, TaskState
  <1> QED
    BY <1>1, <1>2, <1>3, ConstantsArePositive DEF GoodRecord, NoRecord

\* _release keeps a leased record good.
LEMMA ReleaseIsGood ==
    ASSUME NEW t \in Tasks, NEW r, GoodRecord(t, r), r.state = "LEASED"
    PROVE  GoodRecord(t, Release(t, r))
  <1> DEFINE s == Release(t, r)
  <1>1. r \in TaskRecord
    BY DEF GoodRecord
  <1>2. s \in TaskRecord
    BY <1>1 DEF Release, TaskRecord, TaskState
  <1>3. /\ s.state = IF r.attempts_used >= MaxAttempts[t] THEN "FAILED" ELSE "PENDING"
        /\ s.active = 0 /\ s.ttl = 0
        /\ s.history = r.history /\ s.attempts_used = r.attempts_used
        /\ s.accepted = r.accepted
    BY <1>1 DEF Release, TaskRecord
  <1> HIDE DEF s
  <1>4. r.attempts_used \in Nat
    BY <1>1 DEF TaskRecord
  <1> QED
    BY <1>2, <1>3, <1>4, ConstantsArePositive DEF GoodRecord, s

\* So does the sweep.
LEMMA AfterSweepIsGood ==
    ASSUME NEW t \in Tasks, NEW r, GoodRecord(t, r)
    PROVE  GoodRecord(t, AfterSweep(t, r))
  BY ReleaseIsGood DEF AfterSweep, Lapsed

\* A claim makes a good record of a pending one.
LEMMA LeasedIsGood ==
    ASSUME NEW t \in Tasks, NEW n \in Nodes, NEW r, GoodRecord(t, r), r.state = "PENDING"
    PROVE  GoodRecord(t, Leased(t, r, n))
  <1> DEFINE l == [node |-> n, attempt |-> r.attempts_used + 1]
             h == Append(r.history, l)
             s == Leased(t, r, n)
  <1>1. /\ r \in TaskRecord /\ r.history \in Seq(Lease)
        /\ r.attempts_used \in Nat /\ Len(r.history) \in Nat
        /\ Len(r.history) = r.attempts_used
    BY DEF GoodRecord, TaskRecord
  <1>2. l \in Lease /\ l.attempt = r.attempts_used + 1
    BY <1>1 DEF Lease
  <1>3. /\ s.state = "LEASED" /\ s.ttl = LeaseTime[t] /\ s.active = Len(r.history) + 1
        /\ s.history = h /\ s.attempts_used = r.attempts_used + 1
        /\ s.accepted = r.accepted
    BY <1>1 DEF Leased, TaskRecord
  <1>10. s = [r EXCEPT !.attempts_used = r.attempts_used + 1,
                      !.state = "LEASED", !.ttl = LeaseTime[t],
                      !.active = Len(r.history) + 1, !.history = h]
    BY DEF Leased
  <1> HIDE DEF l
  <1>4. h \in Seq(Lease) /\ Len(h) = Len(r.history) + 1
    BY <1>1, <1>2
  <1>5. \A k \in 1 .. Len(r.history) : h[k] = r.history[k]
    BY <1>1, <1>2
  <1>6. h[Len(r.history) + 1] = l
    BY <1>1, <1>2
  <1> HIDE DEF h, s
  <1>7. s \in TaskRecord
    <2>1. LeaseTime[t] \in Nat /\ Len(r.history) + 1 \in Nat /\ r.attempts_used + 1 \in Nat
      BY <1>1, ConstantsArePositive
    <2> QED
      BY <2>1, <1>10, <1>1, <1>4 DEF TaskRecord, TaskState
  <1>8. \A k \in 1 .. Len(s.history) : s.history[k].attempt = k
    <2> SUFFICES ASSUME NEW k \in 1 .. Len(r.history) + 1
                 PROVE  h[k].attempt = k
      BY <1>3, <1>4
    <2>1. CASE k \in 1 .. Len(r.history)
      BY <2>1, <1>5 DEF GoodRecord
    <2>2. CASE k = Len(r.history) + 1
      BY <2>2, <1>1, <1>2, <1>6
    <2> QED
      BY <1>1, <2>1, <2>2
  <1>9. r.accepted = 0 /\ r.attempts_used < MaxAttempts[t]
    BY DEF GoodRecord
  <1> QED
    <2>1. GoodRecord(t, s)
      BY <1>1, <1>3, <1>4, <1>7, <1>8, <1>9, ConstantsArePositive DEF GoodRecord
    <2> QED
      BY <2>1 DEF s

\* Whatever happens to a good record leaves it good.
LEMMA RecordStepKeepsGood ==
    ASSUME NEW t \in Tasks, NEW r, NEW s, GoodRecord(t, r), RecordStep(t, r, s)
    PROVE  GoodRecord(t, s)
  <1>1. CASE r.state = "ABSENT" /\ s = NewRecord
    BY <1>1, NewRecordIsGood
  <1>2. CASE r.state # "ABSENT" /\ s = Cancelled(r)
    <2>1. CASE r.state \in Terminal
      BY <1>2, <2>1 DEF Cancelled
    <2>2. CASE r.state \notin Terminal
      <3>1. r \in TaskRecord /\ s = [r EXCEPT !.state = "CANCELLED", !.active = 0, !.ttl = 0]
        BY <1>2, <2>2 DEF GoodRecord, Cancelled
      <3>2. s \in TaskRecord
        BY <3>1 DEF TaskRecord, TaskState
      <3>3. /\ s.state = "CANCELLED" /\ s.active = 0 /\ s.ttl = 0 /\ s.accepted = r.accepted
            /\ s.history = r.history /\ s.attempts_used = r.attempts_used
        BY <3>1 DEF TaskRecord
      <3> QED
        BY <2>2, <3>2, <3>3, ConstantsArePositive DEF GoodRecord, Terminal
    <2> QED
      BY <2>1, <2>2
  <1>3. CASE s = AfterSweep(t, r)
    BY <1>3, AfterSweepIsGood
  <1>4. ASSUME NEW n \in Nodes, AfterSweep(t, r).state = "PENDING",
               s = Leased(t, AfterSweep(t, r), n)
        PROVE  GoodRecord(t, s)
    <2> DEFINE q == AfterSweep(t, r)
    <2>1. GoodRecord(t, q) /\ q.state = "PENDING" /\ s = Leased(t, q, n)
      BY <1>4, AfterSweepIsGood
    <2> HIDE DEF q
    <2>2. GoodRecord(t, Leased(t, q, n))
      BY <1>4, <2>1, LeasedIsGood
    <2> QED
      BY <2>1, <2>2
  <1>5. CASE r.state = "LEASED" /\ r.ttl > 0 /\ s = [r EXCEPT !.ttl = LeaseTime[t]]
    BY <1>5, ConstantsArePositive DEF GoodRecord, TaskRecord
  <1>6. CASE r.state = "LEASED" /\ r.ttl > 0 /\ s = Committed(r, r.active)
    <2>1. r \in TaskRecord /\ r.active \in Nat /\ r.active # 0 /\ r.active = Len(r.history)
      BY <1>6 DEF GoodRecord, TaskRecord
    <2>2. s \in TaskRecord
      BY <1>6, <2>1 DEF Committed, TaskRecord, TaskState
    <2>3. /\ s.state = "COMPLETED" /\ s.accepted = r.active /\ s.active = 0 /\ s.ttl = 0
          /\ s.history = r.history /\ s.attempts_used = r.attempts_used
      BY <1>6, <2>1 DEF Committed, TaskRecord
    <2> QED
      BY <2>1, <2>2, <2>3, ConstantsArePositive DEF GoodRecord
  <1>7. CASE r.state = "LEASED" /\ r.ttl > 0 /\ s = Release(t, r)
    BY <1>7, ReleaseIsGood
  <1>8. CASE s = [r EXCEPT !.ttl = IF @ = 0 THEN 0 ELSE @ - 1]
    BY <1>8, ConstantsArePositive DEF GoodRecord, TaskRecord
  <1> QED
    BY <1>1, <1>2, <1>3, <1>4, <1>5, <1>6, <1>7, <1>8 DEF RecordStep

-----------------------------------------------------------------------------
\* A sweep steps every record by AfterSweep.
LEMMA SweptRecord ==
    ASSUME NEW t \in Tasks
    PROVE  SweptTasks[t] = AfterSweep(t, tasks[t])
  BY DEF SweptTasks, AfterSweep

\* Every call moves every record by a RecordStep, and the queue stays typed.
LEMMA StepsAreRecordSteps ==
    ASSUME LeaseInv, Call
    PROVE  /\ tasks' = [t \in Tasks |-> tasks'[t]]
           /\ queue' \in Seq(Tasks)
           /\ \A t \in Tasks : RecordStep(t, tasks[t], tasks'[t])
  <1>1. tasks \in [Tasks -> TaskRecord] /\ queue \in Seq(Tasks)
    BY LeaseInvByRecord
  <1> DEFINE Goal == /\ tasks' = [t \in Tasks |-> tasks'[t]]
                     /\ queue' \in Seq(Tasks)
                     /\ \A t \in Tasks : RecordStep(t, tasks[t], tasks'[t])
  <1>2. ASSUME NEW u \in Tasks, AddTask(u)  PROVE Goal
    <2>1. queue' \in Seq(Tasks)
      BY <1>1, <1>2 DEF AddTask, Enqueued
    <2> QED
      BY <1>1, <1>2, <2>1 DEF AddTask, RecordStep
  <1>3. ASSUME NEW u \in Tasks, CancelTask(u)  PROVE Goal
    BY <1>1, <1>3 DEF CancelTask, RecordStep
  <1>4. ASSUME NEW n \in Nodes, NEW scope, NEW fits \in SUBSET Tasks, Claim(n, scope, fits)
        PROVE  Goal
    <2>1. SweptTasks = [t \in Tasks |-> AfterSweep(t, tasks[t])]
      BY DEF SweptTasks, AfterSweep
    <2> DEFINE C == Candidates(SweptTasks, scope, fits)
    <2>2. CASE tasks' = SweptTasks
      BY <1>1, <1>4, <2>1, <2>2 DEF Claim, RecordStep
    <2>3. ASSUME NEW u \in C, tasks' = [SweptTasks EXCEPT ![u] = Leased(u, @, n)]
          PROVE  Goal
      <3>1. u \in Tasks /\ SweptTasks[u].state = "PENDING"
        BY <2>3 DEF Candidates
      <3>2. queue' \in Seq(Tasks)
        BY <1>1, <1>4 DEF Claim
      <3>3. tasks'[u] = Leased(u, AfterSweep(u, tasks[u]), n)
        BY <2>1, <2>3, <3>1
      <3>4. AfterSweep(u, tasks[u]).state = "PENDING"
        BY <2>1, <3>1
      <3>5. RecordStep(u, tasks[u], tasks'[u])
        BY <3>3, <3>4 DEF RecordStep
      <3>6. \A t \in Tasks \ {u} : tasks'[t] = AfterSweep(t, tasks[t])
        BY <2>1, <2>3, <3>1
      <3>7. \A t \in Tasks \ {u} : RecordStep(t, tasks[t], tasks'[t])
        BY <3>6 DEF RecordStep
      <3>8. tasks' = [t \in Tasks |-> tasks'[t]]
        BY <2>1, <2>3, <3>1
      <3> QED
        BY <3>2, <3>5, <3>7, <3>8
    <2> QED
      BY <1>4, <2>2, <2>3 DEF Claim
  <1>5. ASSUME NEW u \in Tasks, NEW i \in Issued(u), Heartbeat(u, i)  PROVE Goal
    BY <1>1, <1>5 DEF Heartbeat, IsLive, RecordStep
  <1>6. ASSUME NEW u \in Tasks, NEW i \in Issued(u), Complete(u, i)  PROVE Goal
    <2>1. CASE tasks' = tasks
      BY <1>1, <1>6, <2>1 DEF Complete, RecordStep
    <2>2. CASE tasks' # tasks
      <3>1. /\ tasks[u].active = i /\ tasks[u].ttl > 0 /\ tasks[u].state = "LEASED"
            /\ tasks' = [tasks EXCEPT ![u] = Committed(tasks[u], i)]
            /\ queue' = queue
        BY <1>1, <1>6, <2>2 DEF Complete, IsLive, Committed
      <3> QED
        BY <1>1, <3>1 DEF RecordStep
    <2> QED
      BY <2>1, <2>2
  <1>7. ASSUME NEW u \in Tasks, NEW i \in Issued(u), Fail(u, i)  PROVE Goal
    BY <1>1, <1>7 DEF Fail, IsLive, RecordStep
  <1>8. CASE Sweep
    BY <1>1, <1>8 DEF Sweep, SweptTasks, RecordStep, AfterSweep
  <1>9. CASE Tick
    BY <1>1, <1>9 DEF Tick, RecordStep
  <1> QED
    BY <1>2, <1>3, <1>4, <1>5, <1>6, <1>7, <1>8, <1>9 DEF Call

-----------------------------------------------------------------------------
\* The invariant holds initially and every step preserves it.
LEMMA LeaseInvInductive == (Init => LeaseInv) /\ (LeaseInv /\ [Call]_vars => LeaseInv')
  <1>1. Init => LeaseInv
    <2> SUFFICES ASSUME Init PROVE LeaseInv
      OBVIOUS
    <2>1. \A t \in Tasks : GoodRecord(t, tasks[t]) /\ tasks[t] \in TaskRecord
      BY NewRecordIsGood DEF Init, GoodRecord
    <2>2. tasks \in [Tasks -> TaskRecord] /\ queue \in Seq(Tasks)
      BY <2>1 DEF Init
    <2> QED
      BY <2>1, <2>2, LeaseInvByRecord
  <1>2. ASSUME LeaseInv, Call  PROVE LeaseInv'
    <2>1. \A t \in Tasks : GoodRecord(t, tasks[t])
      BY <1>2, LeaseInvByRecord
    <2>2. \A t \in Tasks : GoodRecord(t, tasks'[t])
      BY <1>2, <2>1, StepsAreRecordSteps, RecordStepKeepsGood
    <2>3. tasks' \in [Tasks -> TaskRecord]
      BY <1>2, <2>2, StepsAreRecordSteps DEF GoodRecord
    <2>4. queue' \in Seq(Tasks)
      BY <1>2, StepsAreRecordSteps
    <2> QED
      BY <2>2, <2>3, <2>4 DEF LeaseInv, TypeOK, OneHolder, AttemptsAccounted,
         RetryBudget, AcceptedWasLast, GoodRecord
  <1>3. ASSUME LeaseInv, UNCHANGED vars  PROVE LeaseInv'
    BY <1>3 DEF vars, LeaseInv, TypeOK, OneHolder, AttemptsAccounted,
       RetryBudget, AcceptedWasLast
  <1> QED
    BY <1>1, <1>2, <1>3

\* LeaseInv is an invariant: typing, one holder per task, attempts accounted
\* for, the budget respected, and only the last attempt ever accepted.
THEOREM ProtocolInvariant == Protocol => []LeaseInv
  BY LeaseInvInductive, PTL DEF Protocol

\* The policy that always gives a node the tasks that fit it is one of them.
LEMMA NextIsCall == [Next]_vars => [Call]_vars
  <1>1. /\ \A n \in Nodes : Fits[n] \in SUBSET Tasks
        /\ Jobs \in SUBSET Jobs /\ \A j \in Jobs : {j} \in SUBSET Jobs
    BY FitsAssumption
  <1> QED
    BY <1>1 DEF Next, Call

\* So what is proved of Protocol is proved of Spec.
LEMMA SpecIsProtocol == Spec => Protocol
  BY NextIsCall, PTL DEF Spec, Protocol

\* The same invariant, of the manager under one policy.
THEOREM LeaseInvariant == Spec => []LeaseInv
  BY ProtocolInvariant, SpecIsProtocol

\* The type invariant (manager.py and store.py, TaskRecord).
THEOREM TypeCorrect == Spec => []TypeOK
  <1>1. LeaseInv => TypeOK
    BY DEF LeaseInv
  <1> QED
    BY <1>1, LeaseInvariant, PTL

\* A task is held by at most one lease, and by the newest one issued.
THEOREM HolderIsUnique == Spec => []OneHolder
  <1>1. LeaseInv => OneHolder
    BY DEF LeaseInv
  <1> QED
    BY <1>1, LeaseInvariant, PTL

\* The k-th lease of a task is its k-th attempt, and attempts_used counts them.
THEOREM AttemptsAreAccounted == Spec => []AttemptsAccounted
  <1>1. LeaseInv => AttemptsAccounted
    BY DEF LeaseInv
  <1> QED
    BY <1>1, LeaseInvariant, PTL

\* No task is attempted more than max_attempts times, nor given up earlier.
THEOREM BudgetIsRespected == Spec => []RetryBudget
  <1>1. LeaseInv => RetryBudget
    BY DEF LeaseInv
  <1> QED
    BY <1>1, LeaseInvariant, PTL

\* The accepted attempt of a completed task is the last one issued.
THEOREM AcceptedIsLast == Spec => []AcceptedWasLast
  <1>1. LeaseInv => AcceptedWasLast
    BY DEF LeaseInv
  <1> QED
    BY <1>1, LeaseInvariant, PTL

-----------------------------------------------------------------------------
\* A record in a terminal state is left as it is.
LEMMA TerminalRecordStays ==
    ASSUME NEW t \in Tasks, NEW r, NEW s, GoodRecord(t, r), RecordStep(t, r, s),
           r.state \in Terminal
    PROVE  s = r
  <1>1. r \in TaskRecord /\ r.ttl = 0 /\ r.state \notin {"ABSENT", "PENDING", "LEASED"}
    <2>1. r \in TaskRecord /\ r.ttl \in Nat /\ r.state # "LEASED"
      BY DEF GoodRecord, TaskRecord, Terminal
    <2> QED
      BY <2>1 DEF GoodRecord, Terminal
  <1>2. AfterSweep(t, r) = r /\ Cancelled(r) = r
    BY <1>1 DEF AfterSweep, Lapsed, Cancelled
  <1>3. [r EXCEPT !.ttl = IF @ = 0 THEN 0 ELSE @ - 1] = r
    BY <1>1 DEF TaskRecord
  <1> QED
    BY <1>1, <1>2, <1>3 DEF RecordStep

\* "Exactly one accepted output per task, ever": no step changes anything
\* about a completed, failed or cancelled task.
THEOREM TerminalStaysFinal == Protocol => TerminalIsFinal
  <1>1. ASSUME LeaseInv, [Call]_vars
        PROVE  [\A t \in Tasks : tasks[t].state \in Terminal => tasks'[t] = tasks[t]]_vars
    <2>1. CASE Call
      <3>1. \A t \in Tasks : GoodRecord(t, tasks[t]) /\ RecordStep(t, tasks[t], tasks'[t])
        BY <1>1, <2>1, LeaseInvByRecord, StepsAreRecordSteps
      <3> QED
        BY <3>1, TerminalRecordStays
    <2>2. CASE UNCHANGED vars
      BY <2>2
    <2> QED
      BY <1>1, <2>1, <2>2
  <1> QED
    BY <1>1, ProtocolInvariant, PTL DEF Protocol, TerminalIsFinal

\* A record gains at most one lease at a time, at the end of its history,
\* and only while no live lease holds it.
LEMMA HistoryOfRecordStep ==
    ASSUME NEW t \in Tasks, NEW r, NEW s, GoodRecord(t, r), RecordStep(t, r, s),
           s.history # r.history
    PROVE  /\ r.state = "PENDING" \/ Lapsed(r)
           /\ \E l \in Lease : s.history = Append(r.history, l)
  <1>1. r \in TaskRecord /\ r.history \in Seq(Lease) /\ r.attempts_used \in Nat
    BY DEF GoodRecord, TaskRecord
  <1>2. r.state = "ABSENT" => r.history = NewRecord.history
    BY <1>1 DEF GoodRecord, NewRecord, NoRecord
  <1>3. Release(t, r).history = r.history /\ Release(t, r).attempts_used = r.attempts_used
    BY <1>1 DEF Release, TaskRecord
  <1>4. Cancelled(r).history = r.history
    BY <1>1 DEF Cancelled, TaskRecord
  <1>5. /\ [r EXCEPT !.ttl = LeaseTime[t]].history = r.history
        /\ [r EXCEPT !.ttl = IF @ = 0 THEN 0 ELSE @ - 1].history = r.history
        /\ Committed(r, r.active).history = r.history
    BY <1>1 DEF Committed, TaskRecord
  <1> DEFINE q == AfterSweep(t, r)
  <1>6. /\ q.history = r.history /\ q.attempts_used = r.attempts_used
        /\ q.state = "PENDING" => r.state = "PENDING" \/ Lapsed(r)
        /\ q \in TaskRecord
    BY <1>1, <1>3, AfterSweepIsGood DEF AfterSweep, GoodRecord
  <1>7. PICK n \in Nodes : q.state = "PENDING" /\ s = Leased(t, q, n)
    BY <1>2, <1>3, <1>4, <1>5, <1>6 DEF RecordStep
  <1> DEFINE l == [node |-> n, attempt |-> r.attempts_used + 1]
  <1>8. l \in Lease
    BY <1>1 DEF Lease
  <1> HIDE DEF q
  <1>9. s.history = Append(r.history, l)
    BY <1>6, <1>7 DEF Leased, TaskRecord
  <1> QED
    BY <1>6, <1>7, <1>8, <1>9

\* Two workers never hold live leases on one task: a lease is only issued for
\* a task without a live holder, and the history only grows.
THEOREM OnlyUnheldTasksAreLeased == Protocol => LeaseOnlyUnheldTasks
  <1> DEFINE Grows(t) ==
          LET h == tasks[t].history
          IN  tasks'[t].history # h =>
                 /\ Len(tasks'[t].history) = Len(h) + 1
                 /\ SubSeq(tasks'[t].history, 1, Len(h)) = h
                 /\ ~ \E i \in DOMAIN h : IsLive(t, i)
  <1>1. ASSUME LeaseInv, [Call]_vars
        PROVE  [\A t \in Tasks : Grows(t)]_vars
    <2>1. CASE UNCHANGED vars
      BY <2>1
    <2>2. ASSUME Call, NEW t \in Tasks, tasks'[t].history # tasks[t].history
          PROVE  Grows(t)
      <3>1. GoodRecord(t, tasks[t]) /\ RecordStep(t, tasks[t], tasks'[t])
        BY <1>1, <2>2, LeaseInvByRecord, StepsAreRecordSteps
      <3>2. PICK l \in Lease : tasks'[t].history = Append(tasks[t].history, l)
        BY <2>2, <3>1, HistoryOfRecordStep
      <3>3. tasks[t].state = "PENDING" \/ Lapsed(tasks[t])
        BY <2>2, <3>1, HistoryOfRecordStep
      <3>4. tasks[t].history \in Seq(Lease)
        BY <3>1 DEF GoodRecord, TaskRecord
      <3>5. SubSeq(Append(tasks[t].history, l), 1, Len(tasks[t].history)) = tasks[t].history
        BY <3>4
      <3>6. Len(Append(tasks[t].history, l)) = Len(tasks[t].history) + 1
        BY <3>4
      <3>7. \A i \in DOMAIN tasks[t].history : ~IsLive(t, i)
        BY <3>3 DEF IsLive, Lapsed
      <3> QED
        BY <3>2, <3>5, <3>6, <3>7
    <2> QED
      BY <1>1, <2>1, <2>2
  <1> QED
    BY <1>1, ProtocolInvariant, PTL DEF Protocol, LeaseOnlyUnheldTasks

-----------------------------------------------------------------------------
(***************************************************************************)
(* The manager implements TaskContract                                     *)
(***************************************************************************)

\* What a RecordStep is to the contract: a task moves as it may, or stays.
LEMMA ContractOfRecordStep ==
    ASSUME NEW t \in Tasks, NEW r, NEW s, GoodRecord(t, r), RecordStep(t, r, s)
    PROVE  \/ /\ s.state = r.state
              /\ s.attempts_used = r.attempts_used /\ s.accepted = r.accepted
           \/ /\ r.state = "ABSENT" /\ s.state = "PENDING"
              /\ s.attempts_used = r.attempts_used /\ s.accepted = r.accepted
           \/ /\ r.state \in {"PENDING", "LEASED"} /\ s.state = "CANCELLED"
              /\ s.attempts_used = r.attempts_used /\ s.accepted = r.accepted
           \/ /\ r.state = "LEASED"
              /\ s.state = IF r.attempts_used < MaxAttempts[t] THEN "PENDING" ELSE "FAILED"
              /\ s.attempts_used = r.attempts_used /\ s.accepted = r.accepted
           \/ /\ r.state \in {"PENDING", "LEASED"} /\ s.state = "LEASED"
              /\ r.attempts_used < MaxAttempts[t]
              /\ s.attempts_used = r.attempts_used + 1 /\ s.accepted = r.accepted
           \/ /\ r.state = "LEASED" /\ s.state = "COMPLETED"
              /\ s.accepted = r.attempts_used /\ s.attempts_used = r.attempts_used
  <1>1. r \in TaskRecord /\ r.attempts_used \in Nat /\ r.state \in TaskState
    BY DEF GoodRecord, TaskRecord
  <1>2. /\ r.state = "ABSENT" => r.attempts_used = 0 /\ r.accepted = 0
        /\ NewRecord.state = "PENDING" /\ NewRecord.attempts_used = 0 /\ NewRecord.accepted = 0
    BY DEF GoodRecord, NewRecord, NoRecord
  <1>3. /\ Release(t, r).state = IF r.attempts_used < MaxAttempts[t] THEN "PENDING" ELSE "FAILED"
        /\ Release(t, r).attempts_used = r.attempts_used /\ Release(t, r).accepted = r.accepted
    BY <1>1, ConstantsArePositive DEF Release, TaskRecord
  <1>4. /\ Cancelled(r).attempts_used = r.attempts_used /\ Cancelled(r).accepted = r.accepted
        /\ Cancelled(r).state = IF r.state \in Terminal THEN r.state ELSE "CANCELLED"
    BY <1>1 DEF Cancelled, TaskRecord
  <1> DEFINE q == AfterSweep(t, r)
  <1>5. /\ q.attempts_used = r.attempts_used /\ q.accepted = r.accepted /\ q \in TaskRecord
        /\ q.state = "PENDING" => r.state \in {"PENDING", "LEASED"}
        /\ q.state = "PENDING" => r.attempts_used < MaxAttempts[t]
    <2>1. GoodRecord(t, q)
      BY AfterSweepIsGood
    <2>2. q.attempts_used = r.attempts_used /\ q.accepted = r.accepted
      BY <1>3 DEF AfterSweep
    <2>3. q.state = "PENDING" => r.state \in {"PENDING", "LEASED"}
      BY DEF AfterSweep, Lapsed
    <2> HIDE DEF q
    <2>4. q \in TaskRecord /\ (q.state = "PENDING" => q.attempts_used < MaxAttempts[t])
      BY <2>1 DEF GoodRecord
    <2> QED
      BY <2>2, <2>3, <2>4
  <1>6. CASE r.state = "ABSENT" /\ s = NewRecord
    BY <1>2, <1>6
  <1>7. CASE r.state # "ABSENT" /\ s = Cancelled(r)
    BY <1>1, <1>4, <1>7 DEF Terminal, TaskState
  <1>8. CASE s = AfterSweep(t, r)
    BY <1>3, <1>8 DEF AfterSweep, Lapsed
  <1>9. ASSUME NEW n \in Nodes, AfterSweep(t, r).state = "PENDING",
               s = Leased(t, AfterSweep(t, r), n)
        PROVE  /\ r.state \in {"PENDING", "LEASED"} /\ s.state = "LEASED"
               /\ r.attempts_used < MaxAttempts[t]
               /\ s.attempts_used = r.attempts_used + 1 /\ s.accepted = r.accepted
    <2>1. q.state = "PENDING" /\ s = Leased(t, q, n)
      BY <1>9
    <2> HIDE DEF q
    <2>2. s.state = "LEASED" /\ s.attempts_used = q.attempts_used + 1 /\ s.accepted = q.accepted
      BY <1>5, <2>1 DEF Leased, TaskRecord
    <2> QED
      BY <1>5, <2>1, <2>2
  <1>10. CASE r.state = "LEASED" /\ r.ttl > 0 /\ s = [r EXCEPT !.ttl = LeaseTime[t]]
    BY <1>1, <1>10 DEF TaskRecord
  <1>11. CASE r.state = "LEASED" /\ r.ttl > 0 /\ s = Committed(r, r.active)
    <2>1. r.active = r.attempts_used
      BY <1>11 DEF GoodRecord
    <2>2. s.state = "COMPLETED" /\ s.accepted = r.active /\ s.attempts_used = r.attempts_used
      BY <1>1, <1>11 DEF Committed, TaskRecord
    <2> QED
      BY <1>11, <2>1, <2>2
  <1>12. CASE r.state = "LEASED" /\ r.ttl > 0 /\ s = Release(t, r)
    BY <1>3, <1>12
  <1>13. CASE s = [r EXCEPT !.ttl = IF @ = 0 THEN 0 ELSE @ - 1]
    BY <1>1, <1>13 DEF TaskRecord
  <1> QED
    BY <1>6, <1>7, <1>8, <1>9, <1>10, <1>11, <1>12, <1>13 DEF RecordStep

\* So a task that steps takes a step of the contract.
LEMMA TaskStepOfRecordStep ==
    ASSUME NEW t \in Tasks, GoodRecord(t, tasks[t]), RecordStep(t, tasks[t], tasks'[t])
    PROVE  Contract!TaskStep(t)
  <1> DEFINE r == tasks[t]
             s == tasks'[t]
             ph == [u \in Tasks |-> PhaseOf(tasks[u].state)]
             is == [u \in Tasks |-> tasks[u].attempts_used]
             wn == [u \in Tasks |-> tasks[u].accepted]
  <1>1. /\ ph[t] = PhaseOf(r.state) /\ ph'[t] = PhaseOf(s.state)
        /\ is[t] = r.attempts_used /\ is'[t] = s.attempts_used
        /\ wn[t] = r.accepted /\ wn'[t] = s.accepted
    OBVIOUS
  <1>2. /\ PhaseOf("ABSENT") = "new" /\ PhaseOf("PENDING") = "open"
        /\ PhaseOf("LEASED") = "held" /\ PhaseOf("COMPLETED") = "won"
        /\ PhaseOf("FAILED") = "spent" /\ PhaseOf("CANCELLED") = "withdrawn"
    BY DEF PhaseOf
  <1> HIDE DEF ph, is, wn
  <1>3. CASE s.state = r.state /\ s.attempts_used = r.attempts_used /\ s.accepted = r.accepted
    <2>1. ph'[t] = ph[t] /\ is'[t] = is[t] /\ wn'[t] = wn[t]
      BY <1>1, <1>3
    <2> QED
      BY <2>1 DEF Contract!TaskStep, Contract!Stays, Contract!KeepsIssued,
                  Contract!KeepsWinner, ph, is, wn
  <1>4. CASE /\ r.state = "ABSENT" /\ s.state = "PENDING"
             /\ s.attempts_used = r.attempts_used /\ s.accepted = r.accepted
    <2>1. ph[t] = "new" /\ ph'[t] = "open" /\ is'[t] = is[t] /\ wn'[t] = wn[t]
      BY <1>1, <1>2, <1>4
    <2> QED
      BY <2>1 DEF Contract!TaskStep, Contract!Register, Contract!Moves,
                  Contract!KeepsIssued, Contract!KeepsWinner, ph, is, wn
  <1>5. CASE /\ r.state \in {"PENDING", "LEASED"} /\ s.state = "CANCELLED"
             /\ s.attempts_used = r.attempts_used /\ s.accepted = r.accepted
    <2>1. /\ ph[t] \in {"open", "held"} /\ ph'[t] = "withdrawn"
          /\ is'[t] = is[t] /\ wn'[t] = wn[t]
      BY <1>1, <1>2, <1>5
    <2> QED
      BY <2>1 DEF Contract!TaskStep, Contract!Withdraw, Contract!Moves,
                  Contract!KeepsIssued, Contract!KeepsWinner, ph, is, wn
  <1>6. CASE /\ r.state = "LEASED"
             /\ s.state = IF r.attempts_used < MaxAttempts[t] THEN "PENDING" ELSE "FAILED"
             /\ s.attempts_used = r.attempts_used /\ s.accepted = r.accepted
    <2>1. /\ ph[t] = "held" /\ is'[t] = is[t] /\ wn'[t] = wn[t]
          /\ ph'[t] = IF is[t] < MaxAttempts[t] THEN "open" ELSE "spent"
      BY <1>1, <1>2, <1>6
    <2> QED
      BY <2>1 DEF Contract!TaskStep, Contract!Drop, Contract!Moves,
                  Contract!KeepsIssued, Contract!KeepsWinner, ph, is, wn
  <1>7. CASE /\ r.state \in {"PENDING", "LEASED"} /\ s.state = "LEASED"
             /\ r.attempts_used < MaxAttempts[t]
             /\ s.attempts_used = r.attempts_used + 1 /\ s.accepted = r.accepted
    <2>1. /\ ph[t] \in {"open", "held"} /\ ph'[t] = "held" /\ is[t] < MaxAttempts[t]
          /\ is'[t] = is[t] + 1 /\ wn'[t] = wn[t]
      BY <1>1, <1>2, <1>7
    <2> QED
      BY <2>1 DEF Contract!TaskStep, Contract!Grant, Contract!Moves,
                  Contract!KeepsWinner, ph, is, wn
  <1>8. CASE /\ r.state = "LEASED" /\ s.state = "COMPLETED"
             /\ s.accepted = r.attempts_used /\ s.attempts_used = r.attempts_used
    <2>1. /\ ph[t] = "held" /\ ph'[t] = "won" /\ wn'[t] = is[t] /\ is'[t] = is[t]
      BY <1>1, <1>2, <1>8
    <2> QED
      BY <2>1 DEF Contract!TaskStep, Contract!Win, Contract!Moves,
                  Contract!KeepsIssued, ph, is, wn
  <1> QED
    BY <1>3, <1>4, <1>5, <1>6, <1>7, <1>8, ContractOfRecordStep

\* Whoever calls the manager, under whatever policy, keeps to the contract: each
\* call is, for every task, a step the contract allows or none.
THEOREM ProtocolImplementsContract == Protocol => ImplementsContract
  <1>1. Init => Contract!Init
    BY DEF Init, NoRecord, PhaseOf, Contract!Init
  <1>2. ASSUME LeaseInv, LeaseInv', [Call]_vars
        PROVE  [Contract!Next]_(Contract!vars)
    <2>1. CASE UNCHANGED vars
      BY <2>1 DEF vars, Contract!vars
    <2>2. CASE Call
      <3>1. \A t \in Tasks : Contract!TaskStep(t)
        BY <1>2, <2>2, LeaseInvByRecord, StepsAreRecordSteps, TaskStepOfRecordStep
      <3>2. \A t \in Tasks : tasks'[t] \in TaskRecord
        BY <1>2 DEF LeaseInv, TypeOK
      <3>3. \A t \in Tasks : /\ PhaseOf(tasks'[t].state) \in Contract!Phase
                             /\ tasks'[t].attempts_used \in Nat /\ tasks'[t].accepted \in Nat
        BY <3>2 DEF PhaseOf, TaskRecord, TaskState, Contract!Phase
      <3> QED
        BY <3>1, <3>3 DEF Contract!Next
    <2> QED
      BY <1>2, <2>1, <2>2
  <1> QED
    BY <1>1, <1>2, ProtocolInvariant, PTL DEF Protocol, ImplementsContract, Contract!Spec

\* The lease manager implements the contract.
THEOREM ManagerImplementsContract == Spec => ImplementsContract
  BY ProtocolImplementsContract, SpecIsProtocol

-----------------------------------------------------------------------------
(***************************************************************************)
(* What a claim finds                                                      *)
(***************************************************************************)

\* A claim that finds nothing has left nothing behind: its own sweep has
\* requeued what had lapsed (manager.py, claim).
THEOREM EmptyClaimMissedNothing == Spec => ClaimMissesNothing
  <1> DEFINE Fair(n) == \/ \E t \in Fits[n] : tasks'[t].history # tasks[t].history
                        \/ \A t \in Fits[n] : tasks'[t].state # "PENDING" /\ ~Lapsed(tasks'[t])
  <1>1. ASSUME LeaseInv, NEW n \in Nodes, Claim(n, Jobs, Fits[n])
        PROVE  Fair(n)
    <2> DEFINE C == Candidates(SweptTasks, Jobs, Fits[n])
    <2>1. Fits[n] \in SUBSET Tasks /\ \A t \in Tasks : JobOf[t] \in Jobs
      BY FitsAssumption, JobOfAssumption
    <2>2. \A t \in Tasks : /\ tasks[t] \in TaskRecord
                           /\ SweptTasks[t] = AfterSweep(t, tasks[t])
      BY <1>1, SweptRecord DEF LeaseInv, TypeOK
    <2>3. ASSUME NEW t \in Tasks
          PROVE  /\ ~Lapsed(AfterSweep(t, tasks[t]))
                 /\ AfterSweep(t, tasks[t]).history = tasks[t].history
      BY <2>2 DEF AfterSweep, Lapsed, Release, TaskRecord
    <2>4. CASE C = {} /\ tasks' = SweptTasks
      <3> SUFFICES ASSUME NEW t \in Fits[n]
                   PROVE  tasks'[t].state # "PENDING" /\ ~Lapsed(tasks'[t])
        OBVIOUS
      <3>1. t \in Tasks /\ t \notin C
        BY <2>1, <2>4
      <3> QED
        BY <2>1, <2>2, <2>3, <2>4, <3>1 DEF Candidates
    <2>5. ASSUME NEW t \in C, tasks' = [SweptTasks EXCEPT ![t] = Leased(t, @, n)]
          PROVE  Fair(n)
      <3>1. t \in Tasks /\ t \in Fits[n]
        BY <2>1 DEF Candidates
      <3>2. tasks'[t] = Leased(t, AfterSweep(t, tasks[t]), n)
        BY <2>2, <2>5, <3>1 DEF SweptTasks
      <3> DEFINE h == tasks[t].history
                 l == [node |-> n, attempt |-> AfterSweep(t, tasks[t]).attempts_used + 1]
      <3>3. AfterSweep(t, tasks[t]) \in TaskRecord
        BY <2>2, <3>1 DEF AfterSweep, Release, TaskRecord, TaskState
      <3>4. tasks'[t].history = Append(h, l)
        BY <2>3, <3>1, <3>2, <3>3 DEF Leased, TaskRecord
      <3>5. h \in Seq(Lease) /\ l \in Lease
        <4>1. h \in Seq(Lease)
          BY <2>2, <3>1 DEF TaskRecord
        <4>2. AfterSweep(t, tasks[t]).attempts_used \in Nat
          BY <3>3 DEF TaskRecord
        <4>3. l \in Lease
          BY <4>2 DEF Lease
        <4> QED
          BY <4>1, <4>3
      <3> HIDE DEF h, l
      <3>6. Append(h, l) # h
        <4>1. Len(Append(h, l)) = Len(h) + 1 /\ Len(h) \in Nat
          BY <3>5, AppendProperties
        <4> QED
          BY <4>1
      <3> QED
        BY <3>1, <3>4, <3>6 DEF h
    <2> QED
      BY <1>1, <2>4, <2>5 DEF Claim
  <1>2. ASSUME LeaseInv
        PROVE  [\A n \in Nodes : Claim(n, Jobs, Fits[n]) => Fair(n)]_vars
    BY <1>1, <1>2
  <1> QED
    BY <1>2, LeaseInvariant, PTL DEF ClaimMissesNothing

\* The queue lists the tasks of the table, each once.
QueueIsTable ==
    /\ \A t \in Tasks : tasks[t].state # "ABSENT" <=> \E i \in DOMAIN queue : queue[i] = t
    /\ \A i, k \in DOMAIN queue : queue[i] = queue[k] => i = k

\* Whatever a claim finds, there is one task to lease, the oldest of them, or
\* there is none it could have.
ClaimIsDetermined ==
    \A scope \in SUBSET Jobs, fits \in SUBSET Tasks :
        LET C == Candidates(SweptTasks, scope, fits)
        IN  C # {} => \E t \in C : /\ FirstInQueue(C, t)
                                   /\ \A u \in C : FirstInQueue(C, u) => u = t

\* No step forgets a task.
LEMMA KnownStaysKnown ==
    ASSUME NEW t \in Tasks, NEW r, NEW s, GoodRecord(t, r), RecordStep(t, r, s),
           r.state # "ABSENT"
    PROVE  s.state # "ABSENT"
  <1>1. r \in TaskRecord /\ AfterSweep(t, r) \in TaskRecord
    BY DEF GoodRecord, AfterSweep, Release, TaskRecord, TaskState
  <1>2. AfterSweep(t, r).state # "ABSENT"
    BY <1>1 DEF AfterSweep, Release, TaskRecord
  <1>3. \A n \in Nodes : Leased(t, AfterSweep(t, r), n).state = "LEASED"
    BY <1>1 DEF Leased, TaskRecord
  <1>4. Cancelled(r).state # "ABSENT" /\ Release(t, r).state # "ABSENT"
    BY <1>1 DEF Cancelled, Release, TaskRecord
  <1>5. Committed(r, r.active).state # "ABSENT"
    BY <1>1 DEF Committed, TaskRecord
  <1>6. \A v : [r EXCEPT !.ttl = v].state = r.state
    BY <1>1 DEF TaskRecord
  <1>7. CASE s = [r EXCEPT !.ttl = IF @ = 0 THEN 0 ELSE @ - 1]
    BY <1>1, <1>7 DEF TaskRecord
  <1> QED
    BY <1>2, <1>3, <1>4, <1>5, <1>6, <1>7 DEF RecordStep

\* Only a registration makes a task known.
LEMMA UnknownStaysUnknown ==
    ASSUME LeaseInv, Call, ~\E u \in Tasks : AddTask(u), NEW t \in Tasks,
           tasks[t].state = "ABSENT"
    PROVE  tasks'[t].state = "ABSENT"
  <1>1. tasks \in [Tasks -> TaskRecord] /\ tasks[t] \in TaskRecord
    BY DEF LeaseInv, TypeOK
  <1>2. SweptTasks \in [Tasks -> TaskRecord] /\ SweptTasks[t] = tasks[t]
    <2>1. \A u \in Tasks : Release(u, tasks[u]) \in TaskRecord
      BY <1>1 DEF Release, TaskRecord, TaskState
    <2> QED
      BY <1>1, <2>1 DEF SweptTasks, Lapsed
  <1>3. ASSUME NEW u \in Tasks, CancelTask(u) PROVE tasks'[t] = tasks[t]
    BY <1>1, <1>3 DEF CancelTask
  <1>4. ASSUME NEW n \in Nodes, NEW scope, NEW fits \in SUBSET Tasks, Claim(n, scope, fits)
        PROVE  tasks'[t] = tasks[t]
    <2>1. CASE tasks' = SweptTasks
      BY <1>2, <2>1
    <2>2. ASSUME NEW u \in Candidates(SweptTasks, scope, fits),
                 tasks' = [SweptTasks EXCEPT ![u] = Leased(u, @, n)]
          PROVE  tasks'[t] = tasks[t]
      <3>1. u # t
        BY <1>2 DEF Candidates
      <3> QED
        BY <1>2, <2>2, <3>1
    <2> QED
      BY <1>4, <2>1, <2>2 DEF Claim
  <1>5. ASSUME NEW u \in Tasks, NEW i \in Issued(u),
               Heartbeat(u, i) \/ Complete(u, i) \/ Fail(u, i)
        PROVE  tasks'[t] = tasks[t]
    <2>1. CASE u = t
      BY <1>5, <2>1 DEF Heartbeat, Complete, Fail, IsLive
    <2>2. CASE u # t
      BY <1>1, <1>5, <2>2 DEF Heartbeat, Complete, Fail
    <2> QED
      BY <2>1, <2>2
  <1>6. CASE Sweep
    BY <1>2, <1>6 DEF Sweep
  <1>7. CASE Tick
    BY <1>1, <1>7 DEF Tick, TaskRecord
  <1> QED
    BY <1>3, <1>4, <1>5, <1>6, <1>7 DEF Call

\* Only a registration lengthens the queue, by a task it does not list.
LEMMA QueueStepKeepsTable ==
    ASSUME LeaseInv, QueueIsTable, [Call]_vars
    PROVE  QueueIsTable'
  <1>1. tasks \in [Tasks -> TaskRecord] /\ queue \in Seq(Tasks)
    BY DEF LeaseInv, TypeOK
  <1>2. CASE \E u \in Tasks : AddTask(u)
    <2>1. PICK u \in Tasks : AddTask(u)
      BY <1>2
    <2> DEFINE n == Len(queue)
    <2>2. /\ n \in Nat /\ DOMAIN queue = 1 .. n /\ DOMAIN queue' = 1 .. n + 1
          /\ \A i \in 1 .. n : queue'[i] = queue[i]
          /\ queue'[n + 1] = u
      BY <1>1, <2>1, AppendProperties DEF AddTask, Enqueued
    <2>3. /\ tasks[u].state = "ABSENT" /\ tasks'[u].state = "PENDING"
          /\ \A t \in Tasks \ {u} : tasks'[t] = tasks[t]
      BY <1>1, <2>1 DEF AddTask, NewRecord, NoRecord
    <2> HIDE DEF n
    <2>4. \A i \in 1 .. n : queue[i] # u
      BY <2>2, <2>3 DEF QueueIsTable
    <2>5. \A t \in Tasks : tasks'[t].state # "ABSENT" <=> \E i \in DOMAIN queue' : queue'[i] = t
      <3>1. ASSUME NEW t \in Tasks \ {u}
            PROVE  tasks'[t].state # "ABSENT" <=> \E i \in DOMAIN queue' : queue'[i] = t
        <4>1. (\E i \in DOMAIN queue' : queue'[i] = t) <=> \E i \in DOMAIN queue : queue[i] = t
          BY <2>2
        <4> QED
          BY <2>3, <4>1 DEF QueueIsTable
      <3>2. n + 1 \in DOMAIN queue'
        BY <2>2
      <3> QED
        BY <2>2, <2>3, <3>1, <3>2
    <2>6. \A i, k \in DOMAIN queue' : queue'[i] = queue'[k] => i = k
      <3> SUFFICES ASSUME NEW i \in DOMAIN queue', NEW k \in DOMAIN queue',
                          queue'[i] = queue'[k]
                   PROVE  i = k
        OBVIOUS
      <3>1. (i \in 1 .. n \/ i = n + 1) /\ (k \in 1 .. n \/ k = n + 1)
        BY <2>2
      <3> QED
        BY <2>2, <2>4, <3>1 DEF QueueIsTable
    <2> QED
      BY <2>5, <2>6 DEF QueueIsTable
  <1>3. CASE Call /\ ~\E u \in Tasks : AddTask(u)
    <2>1. queue' = queue
      BY <1>3 DEF Call, CancelTask, Claim, Heartbeat, Complete, Fail, Sweep, Tick
    <2>2. ASSUME NEW t \in Tasks
          PROVE  tasks'[t].state = "ABSENT" <=> tasks[t].state = "ABSENT"
      <3>1. GoodRecord(t, tasks[t]) /\ RecordStep(t, tasks[t], tasks'[t])
        BY <1>3, LeaseInvByRecord, StepsAreRecordSteps
      <3>2. tasks[t].state # "ABSENT" => tasks'[t].state # "ABSENT"
        BY <3>1, KnownStaysKnown
      <3>3. tasks[t].state = "ABSENT" => tasks'[t].state = "ABSENT"
        BY <1>3, <3>1, UnknownStaysUnknown
      <3> QED
        BY <3>2, <3>3
    <2> QED
      BY <2>1, <2>2 DEF QueueIsTable
  <1>4. CASE UNCHANGED vars
    BY <1>4 DEF vars, QueueIsTable
  <1> QED
    BY <1>2, <1>3, <1>4

\* A set of numbers that is not empty has a least one.
LEMMA LeastNumber ==
    ASSUME NEW S \in SUBSET Nat, S # {}
    PROVE  \E m \in S : \A k \in S : m <= k
  <1> DEFINE R == OpToRel(<, Nat)
  <1>1. \A k, m \in Nat : k < m => <<k, m>> \in R
    BY DEF OpToRel
  <1>2. PICK m \in S : \A k \in S : ~(<<k, m>> \in R)
    BY NatLessThanWellFounded, WFMin
  <1> HIDE DEF R
  <1>3. m \in Nat /\ \A k \in S : k \in Nat /\ ~(k < m)
    BY <1>1, <1>2
  <1> QED
    BY <1>3

\* Any tasks of the table have an oldest.
LEMMA OldestOf ==
    ASSUME LeaseInv, QueueIsTable, NEW C \in SUBSET Tasks, C # {},
           \A t \in C : tasks[t].state # "ABSENT"
    PROVE  \E t \in C : FirstInQueue(C, t) /\ \A u \in C : FirstInQueue(C, u) => u = t
  <1> DEFINE Places == {i \in DOMAIN queue : queue[i] \in C}
  <1>1. DOMAIN queue = 1 .. Len(queue) /\ Len(queue) \in Nat
    BY DEF LeaseInv, TypeOK
  <1>2. Places \in SUBSET Nat /\ Places # {}
    <2>1. PICK t \in C : TRUE
      OBVIOUS
    <2>2. \E i \in DOMAIN queue : queue[i] = t
      BY <2>1 DEF QueueIsTable
    <2> QED
      BY <1>1, <2>2
  <1>3. PICK m \in Places : \A k \in Places : m <= k
    <2> HIDE DEF Places
    <2> QED
      BY <1>2, LeastNumber
  <1>4. \A k \in 1 .. m - 1 : queue[k] \notin C
    BY <1>1, <1>3
  <1>5. FirstInQueue(C, queue[m])
    BY <1>3, <1>4 DEF FirstInQueue
  <1>6. ASSUME NEW u \in C, FirstInQueue(C, u)
        PROVE  u = queue[m]
    <2>1. PICK i \in DOMAIN queue : queue[i] = u /\ \A k \in 1 .. i - 1 : queue[k] \notin C
      BY <1>6 DEF FirstInQueue
    <2>2. m <= i /\ m \in 1 .. Len(queue) /\ i \in 1 .. Len(queue)
      BY <1>1, <1>3, <1>6, <2>1
    <2>3. ~(m < i)
      BY <1>1, <1>3, <2>1, <2>2
    <2>4. m = i
      BY <1>1, <2>2, <2>3
    <2> QED
      BY <2>1, <2>4
  <1> QED
    BY <1>3, <1>5, <1>6

\* A claim is always answered, and in one way: the queue lists every task of
\* the table once, so that next_pending and the policy's loop over it (store.py
\* and manager.py, claim) find the oldest of what fits whenever anything does.
THEOREM ClaimsAreAnswered == Protocol => []ClaimIsDetermined
  <1>1. Init => QueueIsTable
    BY DEF Init, NoRecord, QueueIsTable
  <1>2. LeaseInv /\ QueueIsTable /\ [Call]_vars => QueueIsTable'
    BY QueueStepKeepsTable
  <1>3. LeaseInv /\ QueueIsTable => ClaimIsDetermined
    <2> SUFFICES ASSUME LeaseInv, QueueIsTable,
                        NEW scope \in SUBSET Jobs, NEW fits \in SUBSET Tasks,
                        Candidates(SweptTasks, scope, fits) # {}
                 PROVE  LET C == Candidates(SweptTasks, scope, fits)
                        IN  \E t \in C : /\ FirstInQueue(C, t)
                                         /\ \A u \in C : FirstInQueue(C, u) => u = t
      BY DEF ClaimIsDetermined
    <2> DEFINE C == Candidates(SweptTasks, scope, fits)
    <2>1. C \in SUBSET Tasks
      BY DEF Candidates
    <2>2. ASSUME NEW t \in C
          PROVE  tasks[t].state # "ABSENT"
      <3>1. SweptTasks[t].state = "PENDING" /\ t \in Tasks
        BY <2>1, <2>2 DEF Candidates
      <3>2. tasks[t].state = "ABSENT" => SweptTasks[t] = tasks[t]
        BY <3>1 DEF SweptTasks, Lapsed
      <3> QED
        BY <3>1, <3>2
    <2> HIDE DEF C
    <2>3. \E t \in C : FirstInQueue(C, t) /\ \A u \in C : FirstInQueue(C, u) => u = t
      BY <2>1, <2>2, OldestOf DEF C
    <2> QED
      BY <2>3 DEF C
  <1> QED
    BY <1>1, <1>2, <1>3, ProtocolInvariant, PTL DEF Protocol
=============================================================================
