-------------------------- MODULE ExecutorLoopProofs --------------------------
(***************************************************************************)
(* Proofs about ExecutorLoop, for any tasks, nodes, budgets, lease times   *)
(* and number of failed requests and restarts.                             *)
(*                                                                         *)
(* A result is only thrown away for a lease that is gone for good: the     *)
(* flag is set by an answer that the lease is not live, and no call of the *)
(* coordinator brings a lease back to life that is not, since histories    *)
(* only grow and a renewal needs a live lease.  So the flag stays true of  *)
(* the lease however late the main thread reads it.                        *)
(*                                                                         *)
(* The device counts no more accepted tasks than the coordinator accepted  *)
(* from it: it counts at a commit that completes the task, the lease it    *)
(* commits is its own, and what was accepted stays so.                     *)
(***************************************************************************)
EXTENDS ExecutorLoop, FiniteSetTheorems, TLAPS

\* The lease table is one, its queue holds tasks, and a task that is not registered
\* was never leased.
TableShape ==
    /\ tasks \in [Tasks -> Manager!TaskRecord]
    /\ queue \in Seq(Tasks)
    /\ \A t \in Tasks : tasks[t].state = "ABSENT" => tasks[t].history = <<>>

\* Nothing of a history is lost.
KeepsHistory ==
    \A t \in Tasks :
        /\ DOMAIN tasks[t].history \subseteq DOMAIN tasks'[t].history
        /\ \A i \in DOMAIN tasks[t].history : tasks'[t].history[i] = tasks[t].history[i]

\* No lease is brought back to life.
KeepsGone ==
    \A t \in Tasks : \A i \in DOMAIN tasks[t].history :
        Manager!IsLive(t, i)' => Manager!IsLive(t, i)

\* What a call of the manager leaves as it was.
TableStep == TableShape' /\ KeepsHistory /\ KeepsGone

\* One record, before and after: what TableStep says of it.
Keeps(r, s) ==
    /\ s \in Manager!TaskRecord
    /\ s.state = "ABSENT" => s.history = <<>>
    /\ DOMAIN r.history \subseteq DOMAIN s.history
    /\ \A i \in DOMAIN r.history : s.history[i] = r.history[i]
    /\ s.state = "LEASED" /\ s.ttl > 0 /\ s.active \in DOMAIN r.history
          => r.state = "LEASED" /\ r.ttl > 0 /\ r.active = s.active

-----------------------------------------------------------------------------
\* The records of a table of that shape.
LEMMA RecordShape ==
    ASSUME TableShape, NEW t \in Tasks
    PROVE  /\ tasks[t] \in Manager!TaskRecord
           /\ tasks[t].history \in Seq(Manager!Lease)
           /\ 0 \notin DOMAIN tasks[t].history
           /\ Keeps(tasks[t], tasks[t])
  <1>1. tasks[t] \in Manager!TaskRecord /\ tasks[t].history \in Seq(Manager!Lease)
    BY DEF TableShape, Manager!TaskRecord
  <1> QED
    BY <1>1 DEF TableShape, Keeps

\* A table is stepped record by record.
LEMMA StepByRecords ==
    ASSUME TableShape, tasks' = [t \in Tasks |-> tasks'[t]], queue' \in Seq(Tasks),
           \A t \in Tasks : Keeps(tasks[t], tasks'[t])
    PROVE  TableStep
  <1>1. TableShape'
    BY DEF TableShape, Keeps
  <1>2. KeepsHistory
    BY DEF KeepsHistory, Keeps
  <1>3. KeepsGone
    BY DEF KeepsGone, Keeps, Manager!IsLive
  <1> QED
    BY <1>1, <1>2, <1>3 DEF TableStep

\* A record that is freed, with its history, keeps everything.
LEMMA FreedRecord ==
    ASSUME NEW r \in Manager!TaskRecord, NEW s \in Manager!TaskRecord,
           s.history = r.history, s.state # "LEASED",
           s.state = "ABSENT" => s.history = <<>>
    PROVE  Keeps(r, s)
  BY DEF Keeps

\* Release frees a record.
LEMMA ReleasedRecord ==
    ASSUME NEW t \in Tasks, NEW r \in Manager!TaskRecord
    PROVE  /\ Manager!Release(t, r) \in Manager!TaskRecord
           /\ Manager!Release(t, r).history = r.history
           /\ Manager!Release(t, r).accepted = r.accepted
           /\ Manager!Release(t, r).state \in {"FAILED", "PENDING"}
           /\ Keeps(r, Manager!Release(t, r))
  <1>1. /\ Manager!Release(t, r) \in Manager!TaskRecord
        /\ Manager!Release(t, r).history = r.history
        /\ Manager!Release(t, r).accepted = r.accepted
        /\ Manager!Release(t, r).state \in {"FAILED", "PENDING"}
    BY DEF Manager!Release, Manager!TaskRecord, Manager!TaskState
  <1> QED
    BY <1>1, FreedRecord

\* A sweep keeps every record, and its history.
LEMMA SweptRecords ==
    ASSUME TableShape
    PROVE  /\ Manager!SweptTasks \in [Tasks -> Manager!TaskRecord]
           /\ \A t \in Tasks :
                 /\ Keeps(tasks[t], Manager!SweptTasks[t])
                 /\ Manager!SweptTasks[t].history = tasks[t].history
                 /\ Manager!SweptTasks[t].state = "ABSENT" => tasks[t].state = "ABSENT"
  <1>1. ASSUME NEW t \in Tasks
        PROVE  LET s == IF Manager!Lapsed(tasks[t]) THEN Manager!Release(t, tasks[t])
                        ELSE tasks[t]
               IN  /\ s \in Manager!TaskRecord
                   /\ Keeps(tasks[t], s)
                   /\ s.history = tasks[t].history
                   /\ s.state = "ABSENT" => tasks[t].state = "ABSENT"
    BY RecordShape, ReleasedRecord
  <1> QED
    BY <1>1 DEF Manager!SweptTasks

\* A new lease is the last of the history, and the record keeps the others.
LEMMA LeasedRecord ==
    ASSUME NEW t \in Tasks, NEW n \in Nodes, NEW r \in Manager!TaskRecord
    PROVE  LET s == Manager!Leased(t, r, n)
           IN  /\ Keeps(r, s)
               /\ Len(s.history) \in DOMAIN s.history /\ Len(s.history) \in Nat
               /\ s.history[Len(s.history)].node = n
               /\ s.accepted = r.accepted
  <1> DEFINE l == [node |-> n, attempt |-> r.attempts_used + 1]
             h == Append(r.history, l)
             s == Manager!Leased(t, r, n)
  <1>1. r.history \in Seq(Manager!Lease) /\ r.attempts_used \in Nat
    BY DEF Manager!TaskRecord
  <1>2. l \in Manager!Lease /\ l.node = n
    BY <1>1 DEF Manager!Lease
  <1>3. s = [r EXCEPT !.attempts_used = r.attempts_used + 1, !.state = "LEASED",
                      !.ttl = LeaseTime[t], !.active = Len(r.history) + 1, !.history = h]
    BY DEF Manager!Leased
  <1> HIDE DEF l
  <1>4. /\ h \in Seq(Manager!Lease) /\ Len(r.history) + 1 \in Nat
        /\ Len(h) = Len(r.history) + 1 /\ h[Len(h)] = l
        /\ DOMAIN h = 1 .. Len(r.history) + 1 /\ DOMAIN r.history = 1 .. Len(r.history)
        /\ \A i \in DOMAIN r.history : h[i] = r.history[i]
    BY <1>1, <1>2
  <1>5. LeaseTime[t] \in Nat /\ r.attempts_used + 1 \in Nat
    BY <1>1, TaskAssumption
  <1> HIDE DEF h, s
  <1>6. /\ s \in Manager!TaskRecord /\ s.state = "LEASED" /\ s.history = h
        /\ s.active = Len(r.history) + 1 /\ s.accepted = r.accepted
    BY <1>3, <1>4, <1>5 DEF Manager!TaskRecord, Manager!TaskState
  <1>7. Len(r.history) + 1 \notin DOMAIN r.history
    BY <1>4
  <1>8. DOMAIN r.history \subseteq DOMAIN h
    BY <1>4
  <1>9. Keeps(r, s)
    BY <1>4, <1>6, <1>7, <1>8 DEF Keeps
  <1> QED
    BY <1>2, <1>4, <1>6, <1>9 DEF s

-----------------------------------------------------------------------------
(***************************************************************************)
(* The calls of the manager                                                *)
(***************************************************************************)

\* One record is replaced by one that keeps what it must.
LEMMA OneRecord ==
    ASSUME TableShape, NEW t \in Tasks, NEW s, Keeps(tasks[t], s),
           tasks' = [tasks EXCEPT ![t] = s], queue' \in Seq(Tasks)
    PROVE  TableStep
  <1>1. /\ tasks' = [u \in Tasks |-> tasks'[u]] /\ tasks'[t] = s
        /\ \A u \in Tasks \ {t} : tasks'[u] = tasks[u]
    BY DEF TableShape
  <1>2. \A u \in Tasks : Keeps(tasks[u], tasks'[u])
    BY <1>1, RecordShape
  <1> QED
    BY <1>1, <1>2, StepByRecords

\* A table that stays is a step.
LEMMA NoStep ==
    ASSUME TableShape, UNCHANGED table
    PROVE  TableStep
  BY RecordShape, StepByRecords DEF TableShape, table

\* Registration and cancellation.
LEMMA AddAndCancelStep ==
    ASSUME TableShape, NEW t \in Tasks, Manager!AddTask(t) \/ Manager!CancelTask(t)
    PROVE  TableStep
  <1>1. tasks[t] \in Manager!TaskRecord
    BY RecordShape
  <1>2. CASE Manager!AddTask(t)
    <2>1. Manager!NewRecord = [state |-> "PENDING", attempts_used |-> 0, active |-> 0,
                               ttl |-> 0, accepted |-> 0, history |-> <<>>]
      BY DEF Manager!NewRecord, Manager!NoRecord
    <2>2. Manager!NewRecord \in Manager!TaskRecord /\ Manager!NewRecord.state = "PENDING"
          /\ Manager!NewRecord.history = <<>>
      BY <2>1 DEF Manager!TaskRecord, Manager!TaskState
    <2>3. tasks[t].history = <<>>
      BY <1>2 DEF Manager!AddTask, TableShape
    <2>4. Keeps(tasks[t], Manager!NewRecord)
      BY <1>1, <2>2, <2>3, FreedRecord
    <2>5. queue' \in Seq(Tasks) /\ tasks' = [tasks EXCEPT ![t] = Manager!NewRecord]
      BY <1>2 DEF TableShape, Manager!AddTask, Manager!Enqueued
    <2> QED
      BY <2>4, <2>5, OneRecord
  <1>3. CASE Manager!CancelTask(t)
    <2> DEFINE s == Manager!Cancelled(tasks[t])
    <2>1. s = tasks[t] \/ (s \in Manager!TaskRecord /\ s.state = "CANCELLED"
                           /\ s.history = tasks[t].history)
      BY <1>1 DEF Manager!Cancelled, Manager!TaskRecord, Manager!TaskState
    <2>2. tasks' = [tasks EXCEPT ![t] = s] /\ queue' \in Seq(Tasks)
      BY <1>3 DEF TableShape, Manager!CancelTask
    <2> HIDE DEF s
    <2>3. Keeps(tasks[t], s)
      BY <1>1, <2>1, FreedRecord, RecordShape
    <2> QED
      BY <2>2, <2>3, OneRecord
  <1> QED
    BY <1>2, <1>3

\* A claim leases at most one task, to the caller.
LEMMA ClaimStep ==
    ASSUME TableShape, NEW n \in Nodes, NEW scope, NEW fits, Manager!Claim(n, scope, fits)
    PROVE  /\ TableStep
           /\ \A t \in Tasks :
                 tasks'[t].history # tasks[t].history =>
                    /\ Len(tasks'[t].history) \in Nat
                    /\ Len(tasks'[t].history) \in DOMAIN tasks'[t].history
                    /\ tasks'[t].history[Len(tasks'[t].history)].node = n
  <1> DEFINE S == Manager!SweptTasks
             C == Manager!Candidates(S, scope, fits)
  <1>1. /\ S \in [Tasks -> Manager!TaskRecord]
        /\ \A t \in Tasks : /\ Keeps(tasks[t], S[t])
                            /\ S[t].history = tasks[t].history
                            /\ S[t].state = "ABSENT" => tasks[t].state = "ABSENT"
    BY SweptRecords
  <1>2. \A t \in C : Manager!FirstInQueue(C, t) => t \in Tasks
    BY DEF TableShape, Manager!FirstInQueue
  <1>3. /\ \/ tasks' = S
           \/ \E t \in Tasks : tasks' = [S EXCEPT ![t] = Manager!Leased(t, S[t], n)]
        /\ queue' \in Seq(Tasks)
    BY <1>2 DEF TableShape, Manager!Claim
  <1> HIDE DEF S, C
  <1>4. CASE tasks' = S
    <2>1. TableStep
      BY <1>1, <1>3, <1>4, StepByRecords
    <2> QED
      BY <1>1, <1>4, <2>1
  <1>5. ASSUME NEW t \in Tasks, tasks' = [S EXCEPT ![t] = Manager!Leased(t, S[t], n)]
        PROVE  /\ TableStep
               /\ \A u \in Tasks :
                     tasks'[u].history # tasks[u].history =>
                        /\ Len(tasks'[u].history) \in Nat
                        /\ Len(tasks'[u].history) \in DOMAIN tasks'[u].history
                        /\ tasks'[u].history[Len(tasks'[u].history)].node = n
    <2> DEFINE s == Manager!Leased(t, S[t], n)
    <2>1. /\ Keeps(S[t], s) /\ Len(s.history) \in DOMAIN s.history /\ Len(s.history) \in Nat
          /\ s.history[Len(s.history)].node = n
      BY <1>1, LeasedRecord
    <2>2. /\ tasks'[t] = s /\ tasks' = [u \in Tasks |-> tasks'[u]]
          /\ \A u \in Tasks \ {t} : tasks'[u] = S[u]
      BY <1>1, <1>5
    <2> HIDE DEF s
    <2>3. Keeps(tasks[t], s)
      BY <1>1, <2>1 DEF Keeps
    <2>4. \A u \in Tasks : Keeps(tasks[u], tasks'[u])
      BY <1>1, <2>2, <2>3
    <2>5. TableStep
      BY <1>3, <2>2, <2>4, StepByRecords
    <2> QED
      BY <1>1, <2>1, <2>2, <2>5
  <1> QED
    BY <1>3, <1>4, <1>5

\* Heartbeats, commits and failures of any lease, the sweeper and the clock.
LEMMA OtherSteps ==
    ASSUME TableShape,
           \/ Manager!Sweep
           \/ Manager!Tick
           \/ \E t \in Tasks, i \in Nat :
                 Manager!Heartbeat(t, i) \/ Manager!Complete(t, i) \/ Manager!Fail(t, i)
    PROVE  TableStep
  <1>1. \A t \in Tasks : tasks[t] \in Manager!TaskRecord
    BY RecordShape
  <1>2. CASE Manager!Sweep
    <2>1. tasks' = Manager!SweptTasks /\ queue' \in Seq(Tasks)
      BY <1>2 DEF Manager!Sweep, TableShape
    <2> QED
      BY <2>1, SweptRecords, StepByRecords
  <1>3. CASE Manager!Tick
    <2>1. \A r \in Manager!TaskRecord :
             LET s == [r EXCEPT !.ttl = IF @ = 0 THEN 0 ELSE @ - 1]
             IN  /\ s \in Manager!TaskRecord /\ s.state = r.state /\ s.history = r.history
                 /\ s.active = r.active /\ (s.ttl > 0 => r.ttl > 0)
      BY DEF Manager!TaskRecord
    <2>2. \A t \in Tasks : Keeps(tasks[t], tasks'[t])
      BY <1>1, <1>3, <2>1 DEF TableShape, Keeps, Manager!Tick
    <2>3. tasks' = [t \in Tasks |-> tasks'[t]] /\ queue' \in Seq(Tasks)
      BY <1>3 DEF TableShape, Manager!Tick
    <2> QED
      BY <2>2, <2>3, StepByRecords
  <1>4. ASSUME NEW t \in Tasks, NEW i \in Nat, Manager!Heartbeat(t, i) PROVE TableStep
    <2> DEFINE s == [tasks[t] EXCEPT !.ttl = LeaseTime[t]]
    <2>1. tasks' = [tasks EXCEPT ![t] = s] /\ queue' \in Seq(Tasks)
          /\ tasks[t].state = "LEASED" /\ tasks[t].ttl > 0
      BY <1>4 DEF Manager!Heartbeat, Manager!IsLive, TableShape
    <2>2. LeaseTime[t] \in Nat
      BY TaskAssumption
    <2>3. /\ s \in Manager!TaskRecord /\ s.state = tasks[t].state /\ s.active = tasks[t].active
          /\ s.history = tasks[t].history
      BY <1>1, <2>2 DEF Manager!TaskRecord
    <2> HIDE DEF s
    <2>4. Keeps(tasks[t], s)
      BY <2>1, <2>3 DEF Keeps
    <2> QED
      BY <2>1, <2>4, OneRecord
  <1>5. ASSUME NEW t \in Tasks, NEW i \in Nat, Manager!Complete(t, i) PROVE TableStep
    <2> DEFINE s == [tasks[t] EXCEPT !.state = "COMPLETED", !.accepted = i,
                                     !.active = 0, !.ttl = 0]
    <2>1. (tasks' = tasks \/ tasks' = [tasks EXCEPT ![t] = s]) /\ queue' = queue
      BY <1>5 DEF Manager!Complete, TableShape
    <2>2. s \in Manager!TaskRecord /\ s.state = "COMPLETED" /\ s.history = tasks[t].history
      BY <1>1 DEF Manager!TaskRecord, Manager!TaskState
    <2> HIDE DEF s
    <2>3. Keeps(tasks[t], s)
      BY <1>1, <2>2, FreedRecord
    <2> QED
      BY <2>1, <2>3, OneRecord, NoStep DEF TableShape, table
  <1>6. ASSUME NEW t \in Tasks, NEW i \in Nat, Manager!Fail(t, i) PROVE TableStep
    <2>1. tasks' = [tasks EXCEPT ![t] = Manager!Release(t, tasks[t])] /\ queue' \in Seq(Tasks)
      BY <1>6 DEF Manager!Fail, TableShape
    <2> QED
      BY <1>1, <2>1, ReleasedRecord, OneRecord
  <1> QED
    BY <1>2, <1>3, <1>4, <1>5, <1>6

-----------------------------------------------------------------------------
(***************************************************************************)
(* The loop and its threads                                                *)
(***************************************************************************)
Lease == Tasks \X Nat

IssuedLease(l) == l \in Lease /\ l[2] \in DOMAIN tasks[l[1]].history

\* Where the main thread has a lease in hand.
Working == {"stage", "run", "check", "upload", "complete", "report"}

LoopInv ==
    /\ TypeOK
    /\ TableShape
    /\ \A l \in beating \cup sent \cup lost : IssuedLease(l)
    /\ pc \in Working => IssuedLease(mine) /\ Holder(mine[1], mine[2]) = Self
    /\ streak = MaxFailures => pc \in {"after", "quarantined"}
    /\ \A l \in lost : ~Manager!IsLive(l[1], l[2])

\* A lease stays issued, to the same node, and stays gone.
LEMMA LeasesStay ==
    ASSUME TableShape, TableStep
    PROVE  \A l : IssuedLease(l) =>
              /\ IssuedLease(l)'
              /\ Holder(l[1], l[2])' = Holder(l[1], l[2])
              /\ Manager!IsLive(l[1], l[2])' => Manager!IsLive(l[1], l[2])
  BY DEF TableStep, KeepsHistory, KeepsGone, IssuedLease, Lease, Holder

\* The values the two counters and the flags take.
LEMMA Counters ==
    ASSUME TypeOK
    PROVE  /\ accepted \in Nat /\ accepted + 1 \in Nat
           /\ streak \in 0 .. MaxFailures /\ 0 \in 0 .. MaxFailures
           /\ streak # MaxFailures => streak + 1 \in 0 .. MaxFailures
           /\ MaxFailures # 0
           /\ faults \in 0 .. MaxFaults
           /\ faults < MaxFaults => faults + 1 \in 0 .. MaxFaults
  BY MaxFailuresAssumption, MaxFaultsAssumption DEF TypeOK

\* A step of the table under which the loop and its threads stay as they are.
LEMMA TableAlone ==
    ASSUME LoopInv, TableStep, loop' = loop, known' \in BOOLEAN, faults' \in 0 .. MaxFaults
    PROVE  LoopInv'
  <1>1. TableShape /\ TypeOK
    BY DEF LoopInv
  <1>2. /\ pc' = pc /\ mine' = mine /\ due' = due /\ accepted' = accepted /\ streak' = streak
        /\ beating' = beating /\ sent' = sent /\ lost' = lost
    BY DEF loop, threads
  <1>3. TypeOK'
    BY <1>1, <1>2 DEF TypeOK, TableStep, TableShape, Manager!TypeOK
  <1>4. TableShape'
    BY DEF TableStep
  <1> QED
    BY <1>1, <1>2, <1>3, <1>4, LeasesStay DEF LoopInv

\* A step of the main thread: whatever it does to its own variables, leases stay leases.
LEMMA MainStep ==
    ASSUME LoopInv, TableStep,
           known' \in BOOLEAN, pc' \in PC, mine' \in Lease \cup {NoLease}, due' \in BOOLEAN,
           accepted' \in Nat, streak' \in 0 .. MaxFailures, faults' \in 0 .. MaxFaults,
           \A l \in beating' : l \in beating \/ IssuedLease(l)',
           sent' = sent, lost' \subseteq lost,
           pc' \in Working => \/ mine' = mine /\ pc \in Working
                              \/ IssuedLease(mine)' /\ Holder(mine[1], mine[2])' = Self,
           streak' = MaxFailures => pc' \in {"after", "quarantined"}
    PROVE  LoopInv'
  <1>1. TableShape /\ TypeOK
    BY DEF LoopInv
  <1>2. TableShape'
    BY DEF TableStep
  <1>3. \A l \in beating' \cup sent' \cup lost' : IssuedLease(l)'
    BY <1>1, LeasesStay DEF LoopInv
  <1>4. \A l \in lost' : ~Manager!IsLive(l[1], l[2])'
    BY <1>1, LeasesStay DEF LoopInv
  <1>5. pc' \in Working => IssuedLease(mine)' /\ Holder(mine[1], mine[2])' = Self
    BY <1>1, LeasesStay DEF LoopInv
  <1>6. beating' \subseteq Lease /\ sent' \subseteq Lease /\ lost' \subseteq Lease
    BY <1>3 DEF IssuedLease
  <1>7. TypeOK'
    BY <1>1, <1>2, <1>6 DEF TypeOK, TableShape, Manager!TypeOK, Lease
  <1> QED
    BY <1>2, <1>3, <1>4, <1>5, <1>7 DEF LoopInv

\* The main thread's own steps.
LEMMA MainThreadKeeps ==
    ASSUME LoopInv, MainThread
    PROVE  LoopInv'
  <1>1. TableShape /\ TypeOK
    BY DEF LoopInv
  <1>2. /\ known \in BOOLEAN /\ pc \in PC /\ mine \in Lease \cup {NoLease} /\ due \in BOOLEAN
        /\ accepted \in Nat /\ streak \in 0 .. MaxFailures /\ faults \in 0 .. MaxFaults
        /\ accepted + 1 \in Nat /\ 0 \in 0 .. MaxFailures /\ MaxFailures # 0
        /\ streak # MaxFailures => streak + 1 \in 0 .. MaxFailures
    BY <1>1, Counters DEF TypeOK, Lease
  <1>3. streak = MaxFailures => pc \in {"after", "quarantined"}
    BY DEF LoopInv
  <1>4. UNCHANGED table => TableStep
    BY <1>1, NoStep
  <1>5. CASE Round \/ Beat \/ ReRegister \/ Stage \/ Run \/ Check
    <2>1. /\ TableStep /\ mine' = mine /\ accepted' = accepted /\ streak' = streak
          /\ faults' = faults /\ beating' = beating /\ sent' = sent /\ lost' = lost
      BY <1>4, <1>5 DEF Round, Beat, ReRegister, Stage, Run, Check, table, threads
    <2>2. /\ known' \in BOOLEAN /\ due' \in BOOLEAN
          /\ pc' \in PC /\ pc \notin {"after", "quarantined"}
          /\ pc' \in Working => pc \in Working
      BY <1>2, <1>5 DEF Round, Beat, ReRegister, Stage, Run, Check, AfterBeat, PC, Exits, Working
    <2> QED
      BY <1>2, <1>3, <2>1, <2>2, MainStep
  <1>6. CASE Claim
    <2>1. /\ pc = "claim" /\ known' = known /\ due' = due /\ accepted' = accepted
          /\ streak' = streak /\ faults' = faults /\ sent' = sent /\ lost' = lost
      BY <1>6 DEF Claim
    <2>2. CASE UNCHANGED <<table, mine, beating>> /\ pc' = "top"
      <3>1. TableStep /\ mine' = mine /\ beating' = beating
        BY <1>4, <2>2
      <3> QED
        BY <1>2, <1>3, <2>1, <2>2, <3>1, MainStep DEF PC, Working
    <2>3. CASE Manager!Claim(Self, Jobs, Tasks) /\ pc' = "top" /\ UNCHANGED <<mine, beating>>
      <3>1. TableStep
        BY <1>1, <2>3, ClaimStep, SelfAssumption
      <3> QED
        BY <1>2, <1>3, <2>1, <2>3, <3>1, MainStep DEF PC, Working
    <2>4. CASE /\ Manager!Claim(Self, Jobs, Tasks)
               /\ \E t \in NewlyLeased :
                     /\ mine' = <<t, Len(tasks'[t].history)>>
                     /\ beating' = beating \cup {mine'}
                     /\ pc' = "stage"
      <3>1. PICK t \in NewlyLeased : /\ mine' = <<t, Len(tasks'[t].history)>>
                                     /\ beating' = beating \cup {mine'}
                                     /\ pc' = "stage"
        BY <2>4
      <3>2. t \in Tasks /\ tasks'[t].history # tasks[t].history
        BY DEF NewlyLeased
      <3>3. /\ TableStep
            /\ Len(tasks'[t].history) \in Nat
            /\ Len(tasks'[t].history) \in DOMAIN tasks'[t].history
            /\ tasks'[t].history[Len(tasks'[t].history)].node = Self
        BY <1>1, <2>4, <3>2, ClaimStep, SelfAssumption
      <3>4. mine' \in Lease /\ IssuedLease(mine)' /\ Holder(mine[1], mine[2])' = Self
        BY <3>1, <3>2, <3>3 DEF IssuedLease, Lease, Holder
      <3>5. \A l \in beating' : l \in beating \/ IssuedLease(l)'
        BY <3>1, <3>4
      <3> QED
        BY <1>2, <1>3, <2>1, <3>1, <3>3, <3>4, <3>5, MainStep DEF PC, Working
    <2> QED
      BY <1>6, <2>2, <2>3, <2>4 DEF Claim
  <1>7. CASE Upload
    <2>1. /\ TableStep /\ pc = "upload" /\ known' = known /\ due' = due /\ accepted' = accepted
          /\ streak' = streak /\ faults' = faults /\ sent' = sent
      BY <1>4, <1>7 DEF Upload
    <2>2. \/ pc' = "crashed" /\ mine' = NoLease /\ beating' = {} /\ lost' = {}
          \/ pc' = "complete" /\ mine' = mine /\ beating' = beating /\ lost' = lost
      BY <1>7 DEF Upload, Crash
    <2> QED
      BY <1>2, <1>3, <2>1, <2>2, MainStep DEF PC, Exits, Working
  <1>8. CASE Complete
    <2>1. /\ Commit(mine) /\ pc = "complete" /\ pc' = "after"
          /\ accepted' \in {accepted, accepted + 1} /\ streak' \in {0, streak}
          /\ known' = known /\ mine' = mine /\ due' = due /\ faults' = faults
          /\ beating' = beating /\ sent' = sent /\ lost' = lost
      BY <1>8 DEF Complete, Counted, threads
    <2>2. mine[1] \in Tasks /\ mine[2] \in Nat
      BY <2>1 DEF LoopInv, Working, IssuedLease, Lease
    <2>3. TableStep
      BY <1>1, <2>1, <2>2, OtherSteps DEF Commit
    <2> QED
      BY <1>2, <1>3, <2>1, <2>3, MainStep DEF PC, Working
  <1>9. CASE Report
    <2>1. /\ pc = "report" /\ pc' = "after" /\ streak' = streak + 1
          /\ known' = known /\ mine' = mine /\ due' = due /\ accepted' = accepted
          /\ faults' = faults /\ beating' = beating /\ sent' = sent /\ lost' = lost
          /\ Manager!Fail(mine[1], mine[2]) \/ UNCHANGED table
      BY <1>9 DEF Report, threads
    <2>2. mine[1] \in Tasks /\ mine[2] \in Nat
      BY <2>1 DEF LoopInv, Working, IssuedLease, Lease
    <2>3. TableStep
      BY <1>1, <1>4, <2>1, <2>2, OtherSteps
    <2> QED
      BY <1>2, <1>3, <2>1, <2>3, MainStep DEF PC, Working
  <1>10. CASE After
    <2>1. /\ TableStep /\ pc = "after" /\ mine' = NoLease /\ known' = known /\ due' = due
          /\ accepted' = accepted /\ sent' = sent /\ faults' = faults
          /\ beating' \subseteq beating /\ lost' \subseteq lost
      BY <1>4, <1>10 DEF After, StillBeating
    <2>2. \/ streak < MaxFailures /\ streak' = streak /\ pc' = "top"
          \/ streak' = 0 /\ pc' = "top"
          \/ streak' = streak /\ pc' = "quarantined"
      BY <1>2, <1>10, MaxFailuresAssumption DEF After, StreakFull
    <2>3. streak' \in 0 .. MaxFailures /\ (streak' = MaxFailures => pc' = "quarantined")
      BY <1>2, <2>2, MaxFailuresAssumption
    <2> QED
      BY <1>2, <2>1, <2>2, <2>3, MainStep DEF PC, Exits, Working
  <1> QED
    BY <1>5, <1>6, <1>7, <1>8, <1>9, <1>10 DEF MainThread

\* A request of the main thread that fails.
LEMMA UnansweredKeeps ==
    ASSUME LoopInv, Unanswered
    PROVE  LoopInv'
  <1>1. TableShape /\ TypeOK
    BY DEF LoopInv
  <1>2. /\ known \in BOOLEAN /\ pc \in PC /\ mine \in Lease \cup {NoLease} /\ due \in BOOLEAN
        /\ accepted \in Nat /\ streak \in 0 .. MaxFailures
        /\ streak # MaxFailures => streak + 1 \in 0 .. MaxFailures
    BY <1>1, Counters DEF TypeOK, Lease
  <1>3. streak = MaxFailures => pc \in {"after", "quarantined"}
    BY DEF LoopInv
  <1>4. UNCHANGED table => TableStep
    BY <1>1, NoStep
  <1>5. faults' \in 0 .. MaxFaults /\ due' = due /\ accepted' = accepted /\ sent' = sent
    BY <1>1, Counters DEF Unanswered
  <1>6. pc \in Working => mine[1] \in Tasks /\ mine[2] \in Nat
    BY DEF LoopInv, IssuedLease, Lease
  <1>7. CASE /\ pc \in {"beat", "register"}
             /\ known' \in {known, known \/ pc = "register"}
             /\ pc' = "top"
             /\ UNCHANGED <<table, mine, beating, lost, streak>>
    <2>1. known' \in BOOLEAN
      BY <1>2, <1>7
    <2>2. TableStep /\ mine' = mine /\ beating' = beating /\ lost' = lost /\ streak' = streak
      BY <1>4, <1>7
    <2> QED
      BY <1>2, <1>3, <1>5, <1>7, <2>1, <2>2, MainStep DEF PC, Working
  <1>8. CASE /\ pc = "claim" /\ pc' = "top"
             /\ UNCHANGED table \/ (known /\ Manager!Claim(Self, Jobs, Tasks))
             /\ UNCHANGED <<known, mine, beating, lost, streak>>
    <2>1. TableStep
      BY <1>1, <1>4, <1>8, ClaimStep, SelfAssumption
    <2> QED
      BY <1>2, <1>3, <1>5, <1>8, <2>1, MainStep DEF PC, Working
  <1>9. CASE pc \in {"stage", "upload"} /\ Crash /\ UNCHANGED <<table, known, streak>>
    <2>1. TableStep
      BY <1>4, <1>9
    <2> QED
      BY <1>2, <1>3, <1>5, <1>9, <2>1, MainStep DEF Crash, PC, Exits, Working
  <1>10. CASE /\ pc = "complete" /\ Crash
              /\ UNCHANGED table \/ Commit(mine)
              /\ UNCHANGED <<known, streak>>
    <2>1. TableStep
      BY <1>1, <1>4, <1>6, <1>10, OtherSteps DEF Working, Commit
    <2> QED
      BY <1>2, <1>3, <1>5, <1>10, <2>1, MainStep DEF Crash, PC, Exits, Working
  <1>11. CASE /\ pc = "report"
              /\ UNCHANGED table \/ Manager!Fail(mine[1], mine[2])
              /\ streak' = streak + 1
              /\ pc' = "after"
              /\ UNCHANGED <<known, mine, beating, lost>>
    <2>1. TableStep
      BY <1>1, <1>4, <1>6, <1>11, OtherSteps DEF Working
    <2> QED
      BY <1>2, <1>3, <1>5, <1>11, <2>1, MainStep DEF PC, Working
  <1> QED
    BY <1>7, <1>8, <1>9, <1>10, <1>11 DEF Unanswered

\* The heartbeat threads: the flag is set by an answer that the lease is not live.
LEMMA ThreadsKeep ==
    ASSUME LoopInv, NEW l,
           \/ l \in beating /\ SendHeartbeat(l)
           \/ l \in sent /\ (HeartbeatArrives(l) \/ HeartbeatUnanswered(l))
    PROVE  LoopInv'
  <1>1. TableShape /\ TypeOK /\ IssuedLease(l) /\ l[1] \in Tasks /\ l[2] \in Nat
    BY DEF LoopInv, IssuedLease, Lease
  <1>2. /\ known' = known /\ pc' = pc /\ mine' = mine /\ due' = due /\ accepted' = accepted
        /\ streak' = streak /\ beating' = beating /\ faults' \in 0 .. MaxFaults
        /\ sent' \subseteq sent \cup {l} /\ lost' \subseteq lost \cup {l}
    BY <1>1, Counters DEF SendHeartbeat, HeartbeatArrives, HeartbeatUnanswered, LostAfterError
  <1>3. TableStep
    BY <1>1, NoStep, OtherSteps DEF SendHeartbeat, HeartbeatArrives, HeartbeatUnanswered
  <1>4. l \in lost' => l \in lost \/ (~Manager!IsLive(l[1], l[2]) /\ UNCHANGED table)
    BY DEF SendHeartbeat, HeartbeatArrives, HeartbeatUnanswered, LostAfterError
  <1>5. \A k \in beating' \cup sent' \cup lost' : IssuedLease(k)'
    BY <1>1, <1>2, <1>3, LeasesStay DEF LoopInv
  <1>6. \A k \in lost' : ~Manager!IsLive(k[1], k[2])'
    BY <1>1, <1>2, <1>3, <1>4, LeasesStay DEF LoopInv
  <1>7. beating' \subseteq Lease /\ sent' \subseteq Lease /\ lost' \subseteq Lease
    BY <1>5 DEF IssuedLease
  <1>8. TableShape'
    BY <1>3 DEF TableStep
  <1>9. TypeOK'
    BY <1>1, <1>2, <1>7, <1>8 DEF TypeOK, TableShape, Manager!TypeOK, Lease
  <1>10. pc' \in Working => IssuedLease(mine)' /\ Holder(mine[1], mine[2])' = Self
    BY <1>1, <1>2, <1>3, LeasesStay DEF LoopInv
  <1> QED
    BY <1>2, <1>5, <1>6, <1>8, <1>9, <1>10 DEF LoopInv

\* The coordinator, the clock and the other devices.
LEMMA OthersKeep ==
    ASSUME LoopInv, FallsDue \/ Restart \/ Others \/ Tick
    PROVE  LoopInv'
  <1>1. TableShape /\ TypeOK
    BY DEF LoopInv
  <1>2. known \in BOOLEAN /\ faults \in 0 .. MaxFaults
    BY <1>1 DEF TypeOK
  <1>3. CASE FallsDue
    <2>1. TableStep
      BY <1>1, <1>3, NoStep DEF FallsDue
    <2> QED
      BY <1>1, <1>3, <2>1, MainStep, Counters DEF FallsDue, LoopInv, TypeOK, Lease, threads
  <1>4. CASE Restart
    BY <1>1, <1>4, NoStep, TableAlone, Counters DEF Restart
  <1>5. CASE Tick
    BY <1>1, <1>2, <1>5, OtherSteps, TableAlone DEF Tick
  <1>6. CASE Others
    <2>1. \A t \in Tasks : Theirs(t) \subseteq Nat
      BY <1>1, RecordShape DEF Theirs, Manager!Issued
    <2>2. CASE \E t \in Tasks : Manager!AddTask(t) \/ Manager!CancelTask(t)
      BY <1>1, <1>2, <1>6, <2>2, AddAndCancelStep, TableAlone DEF Others
    <2>3. CASE \E n \in Nodes \ {Self} : Manager!Claim(n, Jobs, Tasks)
      BY <1>1, <1>2, <1>6, <2>3, ClaimStep, TableAlone DEF Others
    <2>4. CASE \/ \E t \in Tasks : \E i \in Theirs(t) : Manager!Heartbeat(t, i)
               \/ \E t \in Tasks : TheirReport(t)
               \/ Manager!Sweep
      <3>1. TableStep
        BY <1>1, <2>1, <2>4, OtherSteps DEF TheirReport
      <3> QED
        BY <1>2, <1>6, <3>1, TableAlone DEF Others
    <2> QED
      BY <1>6, <2>2, <2>3, <2>4 DEF Others
  <1> QED
    BY <1>3, <1>4, <1>5, <1>6

\* Every step keeps LoopInv.
LEMMA LoopInvInductive == (Init => LoopInv) /\ (LoopInv /\ [Next]_vars => LoopInv')
  <1>1. Init => LoopInv
    <2> SUFFICES ASSUME Init PROVE LoopInv
      OBVIOUS
    <2>1. Manager!NoRecord \in Manager!TaskRecord /\ Manager!NoRecord.history = <<>>
      BY DEF Manager!NoRecord, Manager!TaskRecord, Manager!TaskState
    <2>2. TableShape
      BY <2>1 DEF Init, Manager!Init, TableShape
    <2>3. 0 \in 0 .. MaxFailures /\ MaxFailures # 0 /\ 0 \in 0 .. MaxFaults
      BY MaxFailuresAssumption, MaxFaultsAssumption
    <2>4. TypeOK
      BY <2>2, <2>3 DEF Init, TypeOK, TableShape, Manager!TypeOK, PC
    <2> QED
      BY <2>2, <2>3, <2>4 DEF Init, LoopInv, Working
  <1>2. ASSUME LoopInv, UNCHANGED vars PROVE LoopInv'
    <2>1. TableShape /\ TypeOK
      BY <1>2 DEF LoopInv
    <2>2. UNCHANGED table /\ loop' = loop /\ known' = known /\ faults' = faults
      BY <1>2 DEF vars, loop, threads, table
    <2>3. TableStep
      BY <2>1, <2>2, NoStep
    <2> QED
      BY <1>2, <2>1, <2>2, <2>3, TableAlone DEF TypeOK
  <1>3. ASSUME LoopInv, Next PROVE LoopInv'
    BY <1>3, MainThreadKeeps, UnansweredKeeps, ThreadsKeep, OthersKeep DEF Next
  <1> QED
    BY <1>1, <1>2, <1>3

\* Whatever requests fail and however late the heartbeat thread and the main thread look, a
\* result is only discarded for a lease that can never be live again (_AttemptHeartbeat.run
\* and execute_one).
THEOREM DiscardsOnlyTheDead == Spec => []LostIsGone
  <1>1. LoopInv => LostIsGone
    BY DEF LoopInv, LostIsGone
  <1> QED
    BY <1>1, LoopInvInductive, PTL DEF Spec

-----------------------------------------------------------------------------
(***************************************************************************)
(* The count of accepted tasks.  No call but a commit that is accepted     *)
(* changes what was won, and that one adds a task nobody had won before.   *)
(***************************************************************************)
Won == {t \in Tasks : tasks[t].accepted # 0 /\ Holder(t, tasks[t].accepted) = Self}

\* An accepted attempt was issued, and its task is settled.
WinnersAreIssued ==
    \A t \in Tasks : tasks[t].accepted # 0 =>
        tasks[t].state = "COMPLETED" /\ tasks[t].accepted \in DOMAIN tasks[t].history

\* The step leaves what was accepted of u as it was.
KeepsWinner(u) ==
    /\ tasks'[u].accepted = tasks[u].accepted
    /\ tasks[u].accepted # 0 => tasks'[u].state = "COMPLETED"

KeepsWinners == \A t \in Tasks : KeepsWinner(t)

\* The step accepts the attempt at place i of t.
Accepts(t, i) ==
    /\ tasks[t].accepted = 0 /\ tasks'[t].accepted = i
    /\ tasks'[t].state = "COMPLETED" /\ tasks[t].state = "LEASED"
    /\ \A u \in Tasks \ {t} : KeepsWinner(u)

CountInv ==
    /\ LoopInv
    /\ WinnersAreIssued
    /\ IsFiniteSet(Won)
    /\ CountsAreTrue

\* A sweep does not touch a settled task.
LEMMA SweptWinners ==
    ASSUME TableShape, WinnersAreIssued, NEW t \in Tasks
    PROVE  /\ Manager!SweptTasks[t].accepted = tasks[t].accepted
           /\ tasks[t].accepted # 0 => Manager!SweptTasks[t] = tasks[t]
  <1>1. Manager!SweptTasks[t] =
            IF Manager!Lapsed(tasks[t]) THEN Manager!Release(t, tasks[t]) ELSE tasks[t]
    BY DEF Manager!SweptTasks
  <1>2. Manager!Lapsed(tasks[t]) => tasks[t].accepted = 0
    BY DEF WinnersAreIssued, Manager!Lapsed
  <1> QED
    BY <1>1, <1>2, RecordShape, ReleasedRecord

\* Every call but a commit leaves the winners alone.
LEMMA CallWinners ==
    ASSUME TableShape, WinnersAreIssued,
           \/ \E t \in Tasks : Manager!AddTask(t) \/ Manager!CancelTask(t)
           \/ \E t \in Tasks, i \in Nat : Manager!Heartbeat(t, i) \/ Manager!Fail(t, i)
           \/ Manager!Sweep
           \/ Manager!Tick
    PROVE  KeepsWinners
  <1>1. \A t \in Tasks : tasks[t] \in Manager!TaskRecord
    BY RecordShape
  <1>2. ASSUME NEW t \in Tasks, NEW s, s.accepted = tasks[t].accepted,
               tasks[t].accepted # 0 => s.state = "COMPLETED",
               tasks' = [tasks EXCEPT ![t] = s]
        PROVE  KeepsWinners
    <2>1. tasks'[t] = s /\ \A u \in Tasks \ {t} : tasks'[u] = tasks[u]
      BY <1>2 DEF TableShape
    <2> QED
      BY <1>2, <2>1 DEF KeepsWinners, KeepsWinner, WinnersAreIssued
  <1>3. ASSUME NEW t \in Tasks, Manager!AddTask(t) PROVE KeepsWinners
    <2>1. tasks[t].accepted = 0 /\ Manager!NewRecord.accepted = 0
      BY <1>3 DEF Manager!AddTask, WinnersAreIssued, Manager!NewRecord, Manager!NoRecord
    <2>2. tasks' = [tasks EXCEPT ![t] = Manager!NewRecord]
      BY <1>3 DEF Manager!AddTask
    <2> HIDE DEF Manager!NewRecord
    <2> QED
      BY <1>2, <2>1, <2>2
  <1>4. ASSUME NEW t \in Tasks, Manager!CancelTask(t) PROVE KeepsWinners
    <2> DEFINE s == Manager!Cancelled(tasks[t])
    <2>1. s.accepted = tasks[t].accepted /\ (tasks[t].accepted # 0 => s = tasks[t])
      BY <1>1 DEF Manager!Cancelled, Manager!TaskRecord, Manager!Terminal, WinnersAreIssued
    <2>2. tasks' = [tasks EXCEPT ![t] = s]
      BY <1>4 DEF Manager!CancelTask
    <2> HIDE DEF s
    <2> QED
      BY <1>2, <2>1, <2>2 DEF WinnersAreIssued
  <1>5. ASSUME NEW t \in Tasks, NEW i \in Nat, Manager!Heartbeat(t, i) PROVE KeepsWinners
    <2> DEFINE s == [tasks[t] EXCEPT !.ttl = LeaseTime[t]]
    <2>1. s.accepted = tasks[t].accepted /\ s.state = tasks[t].state
      BY <1>1 DEF Manager!TaskRecord
    <2>2. tasks' = [tasks EXCEPT ![t] = s]
      BY <1>5 DEF Manager!Heartbeat, TableShape
    <2> HIDE DEF s
    <2> QED
      BY <1>2, <2>1, <2>2 DEF WinnersAreIssued
  <1>6. ASSUME NEW t \in Tasks, NEW i \in Nat, Manager!Fail(t, i) PROVE KeepsWinners
    <2>1. tasks[t].accepted = 0
      BY <1>6 DEF Manager!Fail, Manager!IsLive, WinnersAreIssued
    <2>2. tasks' = [tasks EXCEPT ![t] = Manager!Release(t, tasks[t])]
      BY <1>6 DEF Manager!Fail, TableShape
    <2> QED
      BY <1>1, <1>2, <2>1, <2>2, ReleasedRecord
  <1>7. CASE Manager!Sweep
    BY <1>7, SweptWinners DEF Manager!Sweep, KeepsWinners, KeepsWinner, WinnersAreIssued
  <1>8. CASE Manager!Tick
    BY <1>1, <1>8 DEF Manager!Tick, Manager!TaskRecord, KeepsWinners, KeepsWinner,
                      WinnersAreIssued
  <1> QED
    BY <1>3, <1>4, <1>5, <1>6, <1>7, <1>8

\* A claim leases a task that nobody has won.
LEMMA ClaimWinners ==
    ASSUME TableShape, WinnersAreIssued, NEW n \in Nodes, NEW scope, NEW fits,
           Manager!Claim(n, scope, fits)
    PROVE  KeepsWinners
  <1> DEFINE S == Manager!SweptTasks
             C == Manager!Candidates(S, scope, fits)
  <1>1. S \in [Tasks -> Manager!TaskRecord]
    BY SweptRecords
  <1>2. \A t \in Tasks : /\ S[t].accepted = tasks[t].accepted
                         /\ tasks[t].accepted # 0 => S[t] = tasks[t]
    BY SweptWinners
  <1>3. \A t \in C : S[t].state = "PENDING"
    BY DEF Manager!Candidates
  <1>4. \A t \in C : Manager!FirstInQueue(C, t) => t \in Tasks
    BY DEF TableShape, Manager!FirstInQueue
  <1>5. \/ tasks' = S
        \/ \E t \in Tasks : /\ S[t].state = "PENDING"
                            /\ tasks' = [S EXCEPT ![t] = Manager!Leased(t, S[t], n)]
    BY <1>3, <1>4 DEF Manager!Claim
  <1> HIDE DEF S, C
  <1>6. CASE tasks' = S
    BY <1>2, <1>6 DEF KeepsWinners, KeepsWinner, WinnersAreIssued
  <1>7. ASSUME NEW t \in Tasks, S[t].state = "PENDING",
               tasks' = [S EXCEPT ![t] = Manager!Leased(t, S[t], n)]
        PROVE  KeepsWinners
    <2>1. Manager!Leased(t, S[t], n).accepted = S[t].accepted
      BY <1>1, LeasedRecord
    <2>2. tasks[t].accepted = 0
      BY <1>2, <1>7 DEF WinnersAreIssued
    <2> QED
      BY <1>1, <1>2, <1>7, <2>1, <2>2 DEF KeepsWinners, KeepsWinner, WinnersAreIssued
  <1> QED
    BY <1>5, <1>6, <1>7

\* A commit accepts the attempt, of a task that nobody has won, or changes nothing.
LEMMA CommitWinners ==
    ASSUME TableShape, WinnersAreIssued, NEW t \in Tasks, NEW i \in DOMAIN tasks[t].history,
           Manager!Complete(t, i)
    PROVE  \/ tasks' = tasks /\ KeepsWinners
           \/ Accepts(t, i)
  <1>1. tasks[t] \in Manager!TaskRecord
    BY RecordShape
  <1>2. CASE tasks' = tasks
    BY <1>2 DEF KeepsWinners, KeepsWinner, WinnersAreIssued
  <1>3. CASE tasks' # tasks
    <2> DEFINE s == [tasks[t] EXCEPT !.state = "COMPLETED", !.accepted = i,
                                     !.active = 0, !.ttl = 0]
    <2>1. tasks' = [tasks EXCEPT ![t] = s] /\ tasks[t].state = "LEASED"
      BY <1>3 DEF Manager!Complete, Manager!IsLive, TableShape
    <2>2. s.state = "COMPLETED" /\ s.accepted = i
      BY <1>1 DEF Manager!TaskRecord
    <2> HIDE DEF s
    <2>3. tasks'[t] = s /\ \A u \in Tasks \ {t} : tasks'[u] = tasks[u]
      BY <2>1 DEF TableShape
    <2> QED
      BY <2>1, <2>2, <2>3 DEF Accepts, KeepsWinner, WinnersAreIssued
  <1> QED
    BY <1>2, <1>3

\* What a step that only keeps winners does to the set of tasks won.
LEMMA WonStays ==
    ASSUME TableShape, WinnersAreIssued, TableStep, KeepsWinners
    PROVE  WinnersAreIssued' /\ Won' = Won
  BY DEF TableStep, KeepsHistory, KeepsWinners, KeepsWinner, WinnersAreIssued, Won, Holder

\* What an accepted commit does to it.
LEMMA WonGrows ==
    ASSUME TableShape, WinnersAreIssued, TableStep,
           NEW t \in Tasks, NEW i \in DOMAIN tasks[t].history, Accepts(t, i)
    PROVE  /\ WinnersAreIssued'
           /\ t \notin Won
           /\ Won' = IF Holder(t, i) = Self THEN Won \cup {t} ELSE Won
  <1>1. i # 0
    BY RecordShape
  <1>2. /\ i \in DOMAIN tasks'[t].history /\ tasks'[t].accepted = i
        /\ tasks'[t].state = "COMPLETED" /\ Holder(t, i)' = Holder(t, i)
    BY DEF TableStep, KeepsHistory, Accepts, Holder
  <1>3. \A u \in Tasks \ {t} : KeepsWinner(u)
    BY DEF Accepts
  <1>4. WinnersAreIssued'
    BY <1>2, <1>3 DEF TableStep, KeepsHistory, KeepsWinner, WinnersAreIssued
  <1>5. t \notin Won
    BY DEF Accepts, Won
  <1>6. \A u \in Tasks \ {t} : u \in Won' <=> u \in Won
    BY <1>3 DEF TableStep, KeepsHistory, KeepsWinner, WinnersAreIssued, Won, Holder
  <1>7. t \in Won' <=> Holder(t, i) = Self
    BY <1>1, <1>2 DEF Won
  <1>8. Won \subseteq Tasks /\ Won' \subseteq Tasks
    BY DEF Won
  <1> QED
    BY <1>4, <1>5, <1>6, <1>7, <1>8

\* A step that keeps winners, or accepts a commit, and counts no more than it accepted.
LEMMA CountStep ==
    ASSUME CountInv, LoopInv', TableStep,
           \/ KeepsWinners /\ accepted' = accepted
           \/ \E t \in Tasks : \E i \in DOMAIN tasks[t].history :
                 /\ Accepts(t, i)
                 /\ \/ accepted' = accepted
                    \/ accepted' = accepted + 1 /\ Holder(t, i) = Self
    PROVE  CountInv'
  <1>1. /\ TableShape /\ WinnersAreIssued /\ IsFiniteSet(Won) /\ accepted \in Nat
        /\ Cardinality(Won) \in Nat /\ accepted <= Cardinality(Won)
    BY FS_CardinalityType DEF CountInv, LoopInv, TypeOK, CountsAreTrue, Won
  <1>2. CASE KeepsWinners /\ accepted' = accepted
    <2>1. WinnersAreIssued' /\ Won' = Won
      BY <1>1, <1>2, WonStays
    <2>2. accepted' <= Cardinality(Won')
      BY <1>1, <1>2, <2>1
    <2> QED
      BY <1>1, <2>1, <2>2 DEF CountInv, CountsAreTrue, Won
  <1>3. ASSUME NEW t \in Tasks, NEW i \in DOMAIN tasks[t].history, Accepts(t, i),
               \/ accepted' = accepted
               \/ accepted' = accepted + 1 /\ Holder(t, i) = Self
        PROVE  CountInv'
    <2>1. /\ WinnersAreIssued' /\ t \notin Won
          /\ Won' = IF Holder(t, i) = Self THEN Won \cup {t} ELSE Won
      BY <1>1, <1>3, WonGrows
    <2>2. IsFiniteSet(Won \cup {t}) /\ Cardinality(Won \cup {t}) = Cardinality(Won) + 1
      BY <1>1, <2>1, FS_AddElement
    <2>3. IsFiniteSet(Won') /\ accepted' <= Cardinality(Won')
      BY <1>1, <1>3, <2>1, <2>2
    <2> QED
      BY <2>1, <2>3 DEF CountInv, CountsAreTrue, Won
  <1> QED
    BY <1>2, <1>3

\* A step that leaves the table and the count alone.
LEMMA CountQuiet ==
    ASSUME CountInv, LoopInv', UNCHANGED table, accepted' = accepted
    PROVE  CountInv'
  <1>1. TableShape /\ WinnersAreIssued
    BY DEF CountInv, LoopInv
  <1>2. TableStep
    BY <1>1, NoStep
  <1>3. KeepsWinners
    BY <1>1 DEF KeepsWinners, KeepsWinner, WinnersAreIssued, table
  <1> QED
    BY <1>2, <1>3, CountStep

\* Every step keeps CountInv.
LEMMA CountInvInductive == (Init => CountInv) /\ (CountInv /\ [Next]_vars => CountInv')
  <1>1. Init => CountInv
    <2> SUFFICES ASSUME Init PROVE CountInv
      OBVIOUS
    <2>1. LoopInv
      BY LoopInvInductive
    <2>2. \A t \in Tasks : tasks[t].accepted = 0
      BY DEF Init, Manager!Init, Manager!NoRecord
    <2>3. Won = {} /\ WinnersAreIssued /\ accepted = 0
      BY <2>2 DEF Init, Won, WinnersAreIssued
    <2> QED
      BY <2>1, <2>3, FS_EmptySet DEF CountInv, CountsAreTrue, Won
  <1>2. ASSUME CountInv, [Next]_vars PROVE LoopInv'
    BY <1>2, LoopInvInductive DEF CountInv
  <1>3. ASSUME CountInv, UNCHANGED vars PROVE CountInv'
    BY <1>2, <1>3, CountQuiet DEF vars, table
  <1>4. ASSUME CountInv, Next PROVE CountInv'
    <2> USE <1>4
    <2>1. LoopInv' /\ LoopInv /\ TableShape /\ WinnersAreIssued
      BY <1>2 DEF CountInv, LoopInv
    <2>2. ASSUME TableStep, KeepsWinners, accepted' = accepted PROVE CountInv'
      BY <2>1, <2>2, CountStep
    <2>3. ASSUME UNCHANGED table, accepted' = accepted PROVE CountInv'
      BY <2>1, <2>3, CountQuiet
    <2>4. ASSUME NEW n \in Nodes, Manager!Claim(n, Jobs, Tasks), accepted' = accepted
          PROVE  CountInv'
      BY <2>1, <2>2, <2>4, ClaimStep, ClaimWinners
    <2>5. ASSUME NEW t \in Tasks, NEW i \in DOMAIN tasks[t].history, Manager!Complete(t, i),
                 accepted' = accepted
          PROVE  CountInv'
      <3>1. TableStep
        BY <2>1, <2>5, OtherSteps, RecordShape
      <3> QED
        BY <2>1, <2>2, <2>5, <3>1, CommitWinners, CountStep
    <2>6. ASSUME NEW t \in Tasks, NEW i \in Nat,
                 Manager!Fail(t, i) \/ Manager!Heartbeat(t, i), accepted' = accepted
          PROVE  CountInv'
      BY <2>1, <2>2, <2>6, OtherSteps, CallWinners
    <2>7. pc \in Working =>
             /\ mine[1] \in Tasks /\ mine[2] \in Nat /\ mine[2] \in DOMAIN tasks[mine[1]].history
             /\ Holder(mine[1], mine[2]) = Self
      BY <2>1 DEF LoopInv, IssuedLease, Lease
    <2>8. CASE MainThread
      <3>1. CASE Round \/ Beat \/ ReRegister \/ Stage \/ Run \/ Check \/ Upload \/ After
        BY <2>3, <3>1 DEF Round, Beat, ReRegister, Stage, Run, Check, Upload, After, table
      <3>2. CASE Claim
        BY <2>3, <2>4, <3>2, SelfAssumption DEF Claim, table
      <3>3. CASE Report
        BY <2>3, <2>6, <2>7, <3>3 DEF Report, Working
      <3>4. CASE Complete
        <4>1. /\ Commit(mine) /\ pc = "complete"
              /\ accepted' = IF tasks'[mine[1]].accepted # tasks[mine[1]].accepted
                             THEN accepted + 1 ELSE accepted
          BY <3>4 DEF Complete, Counted
        <4>2. TableStep
          BY <2>1, <2>7, <4>1, OtherSteps DEF Working, Commit
        <4>3. CASE KeepsWinners /\ tasks'[mine[1]].accepted = tasks[mine[1]].accepted
          BY <2>2, <4>1, <4>2, <4>3
        <4>4. CASE Accepts(mine[1], mine[2])
          <5>1. accepted' = accepted + 1
            <6>1. mine[1] \in Tasks /\ mine[2] \in DOMAIN tasks[mine[1]].history
              BY <2>7, <4>1 DEF Working
            <6>2. tasks[mine[1]].history \in Seq(Manager!Lease)
              BY <2>1, <6>1, RecordShape DEF Manager!TaskRecord
            <6>3. mine[2] # 0
              BY <6>1, <6>2
            <6> QED BY <4>1, <4>4, <6>3 DEF Accepts
          <5> QED
            BY <2>1, <2>7, <4>1, <4>2, <4>4, <5>1, CountStep DEF Working
        <4>5. CASE Manager!Complete(mine[1], mine[2])
          BY <2>1, <2>7, <4>1, <4>3, <4>4, <4>5, CommitWinners DEF Working
        <4>6. CASE Manager!Fail(mine[1], mine[2])
          <5>1. KeepsWinners
            BY <2>1, <2>7, <4>1, <4>6, CallWinners DEF Working
          <5>2. tasks'[mine[1]].accepted = tasks[mine[1]].accepted
            BY <2>1, <2>7, <4>1, <5>1 DEF KeepsWinners, KeepsWinner, Working
          <5> QED
            BY <4>3, <5>1, <5>2
        <4> QED
          BY <4>1, <4>5, <4>6 DEF Commit
      <3> QED
        BY <2>8, <3>1, <3>2, <3>3, <3>4 DEF MainThread
    <2>9. CASE Unanswered
      <3>1. accepted' = accepted
        BY <2>9 DEF Unanswered
      <3>2. \/ UNCHANGED table
            \/ Manager!Claim(Self, Jobs, Tasks)
            \/ pc = "complete" /\ Manager!Complete(mine[1], mine[2])
            \/ pc \in {"complete", "report"} /\ Manager!Fail(mine[1], mine[2])
        BY <2>9 DEF Unanswered, Commit, table
      <3> QED
        BY <2>3, <2>4, <2>5, <2>6, <2>7, <3>1, <3>2, SelfAssumption DEF Working
    <2>10. ASSUME NEW l, \/ l \in beating /\ SendHeartbeat(l)
                         \/ l \in sent /\ (HeartbeatArrives(l) \/ HeartbeatUnanswered(l))
           PROVE  CountInv'
      <3>1. l[1] \in Tasks /\ l[2] \in Nat
        BY <2>1, <2>10 DEF LoopInv, IssuedLease, Lease
      <3>2. accepted' = accepted /\ (UNCHANGED table \/ Manager!Heartbeat(l[1], l[2]))
        BY <2>10 DEF SendHeartbeat, HeartbeatArrives, HeartbeatUnanswered
      <3> QED
        BY <2>3, <2>6, <3>1, <3>2
    <2>11. CASE FallsDue \/ Restart
      BY <2>3, <2>11 DEF FallsDue, Restart, loop
    <2>12. CASE Tick
      <3>1. Manager!Tick /\ accepted' = accepted
        BY <2>12 DEF Tick, loop
      <3> QED
        BY <2>1, <2>2, <3>1, OtherSteps, CallWinners
    <2>13. CASE Others
      <3>1. accepted' = accepted
        BY <2>13 DEF Others, loop
      <3>2. \A t \in Tasks : Theirs(t) \subseteq DOMAIN tasks[t].history /\ Theirs(t) \subseteq Nat
        BY <2>1, RecordShape DEF Theirs, Manager!Issued
      <3>3. CASE \/ \E t \in Tasks : Manager!AddTask(t) \/ Manager!CancelTask(t)
                 \/ Manager!Sweep
        BY <2>1, <2>2, <3>1, <3>3, AddAndCancelStep, OtherSteps, CallWinners
      <3>4. CASE \E n \in Nodes \ {Self} : Manager!Claim(n, Jobs, Tasks)
        BY <2>4, <3>1, <3>4
      <3>5. CASE \E t \in Tasks : \E i \in Theirs(t) : Manager!Heartbeat(t, i) \/ Manager!Fail(t, i)
        BY <2>6, <3>1, <3>2, <3>5
      <3>6. CASE \E t \in Tasks : \E i \in Theirs(t) : Manager!Complete(t, i)
        BY <2>5, <3>1, <3>2, <3>6
      <3> QED
        BY <2>13, <3>3, <3>4, <3>5, <3>6 DEF Others, TheirReport
    <2> QED
      BY <2>8, <2>9, <2>10, <2>11, <2>12, <2>13 DEF Next
  <1> QED
    BY <1>1, <1>3, <1>4

\* Whatever commits are late, declined, repeated or unanswered, the device counts no more
\* accepted tasks than the coordinator accepted from it (execute_one).
THEOREM CountIsHonest == Spec => []CountsAreTrue
  <1>1. CountInv => CountsAreTrue
    BY DEF CountInv
  <1> QED
    BY <1>1, CountInvInductive, PTL DEF Spec
-----------------------------------------------------------------------------
(***************************************************************************)
(* The loop and the manager's protocol                                     *)
(***************************************************************************)

\* A report or a heartbeat of a lease that was issued.
LEMMA ReportIsCall ==
    ASSUME NEW l, IssuedLease(l),
           \/ Manager!Heartbeat(l[1], l[2])
           \/ Manager!Complete(l[1], l[2])
           \/ Manager!Fail(l[1], l[2])
    PROVE  Manager!Call
  <1>1. l[1] \in Tasks /\ l[2] \in Manager!Issued(l[1])
    BY DEF IssuedLease, Lease, Manager!Issued
  <1> QED
    BY <1>1 DEF Manager!Call

\* The main thread.
LEMMA MainThreadCalls ==
    ASSUME LoopInv, MainThread \/ Unanswered
    PROVE  Manager!Call \/ UNCHANGED table
  <1>1. Manager!Claim(Self, Jobs, Tasks) => Manager!Call
    BY SelfAssumption DEF Manager!Call
  <1>2. pc \in Working => IssuedLease(mine)
    BY DEF LoopInv
  <1>3. CASE Claim \/ Complete \/ Report
    BY <1>1, <1>2, <1>3, ReportIsCall 
       DEF Claim, Complete, Commit, Report, Working
  <1>4. CASE Unanswered
    BY <1>1, <1>2, <1>4, ReportIsCall DEF Unanswered, Commit, Working, table
  <1> QED
    BY <1>3, <1>4 DEF MainThread, Round, Beat, ReRegister, Stage, Run, Check, Upload, After

\* The device calls the manager by its protocol, in every interleaving of its threads
\* and with requests lost on either way: a report or a heartbeat always names a lease
\* that was issued, and nothing else moves the table (loop.py, execute_one and
\* _AttemptHeartbeat; client.py).
THEOREM LoopKeepsProtocol == Spec => Manager!Protocol
  <1>1. Init => Manager!Init
    BY DEF Init
  <1>2. ASSUME LoopInv, [Next]_vars
        PROVE  [Manager!Call]_(Manager!vars)
    <2>1. Manager!Call \/ UNCHANGED table => [Manager!Call]_(Manager!vars)
      BY DEF table, Manager!vars
    <2>2. CASE MainThread \/ Unanswered
      BY <1>2, <2>1, <2>2, MainThreadCalls
    <2>3. ASSUME NEW l \in beating, SendHeartbeat(l)
          PROVE  UNCHANGED table
      BY <2>3 DEF SendHeartbeat
    <2>4. ASSUME NEW l \in sent, HeartbeatArrives(l) \/ HeartbeatUnanswered(l)
          PROVE  Manager!Call \/ UNCHANGED table
      <3>1. IssuedLease(l)
        BY <1>2, <2>4 DEF LoopInv
      <3> QED
        BY <2>4, <3>1, ReportIsCall DEF HeartbeatArrives, HeartbeatUnanswered
    <2>5. CASE Others
      <3>1. \A t \in Tasks : Theirs(t) \subseteq Manager!Issued(t)
        BY DEF Theirs
      <3>2. Jobs \in SUBSET Jobs /\ Tasks \in SUBSET Tasks
        OBVIOUS
      <3> QED
        BY <2>1, <2>5, <3>1, <3>2 DEF Others, TheirReport, Manager!Call
    <2>6. CASE Tick
      BY <2>1, <2>6 DEF Tick, Manager!Call
    <2>7. CASE FallsDue \/ Restart \/ UNCHANGED vars
      BY <2>1, <2>7 DEF FallsDue, Restart, vars
    <2> QED
      BY <1>2, <2>1, <2>2, <2>3, <2>4, <2>5, <2>6, <2>7 DEF Next
  <1> QED
    BY <1>1, <1>2, LoopInvInductive, PTL DEF Spec, Manager!Protocol
=============================================================================
