-------------------------- MODULE CoordinatorProofs --------------------------
(***************************************************************************)
(* Proofs about Coordinator, for any tasks, nodes, profiles, placement     *)
(* policy and number of uploads in flight.                                 *)
(*                                                                         *)
(* With node identities enforced, nothing that arrives late ends up in the *)
(* place of an accepted output: a file only changes when the second check  *)
(* of put_artifact finds the task leased, and a leased task is not         *)
(* completed; a task only becomes completed when its file was just found   *)
(* to be the output of the attempt that commits.  What is to be shown of   *)
(* the lease table is how each call of the manager treats a completed      *)
(* task.                                                                   *)
(*                                                                         *)
(* A node has no more credit than completed tasks of which it holds the    *)
(* accepted attempt: only a commit that completes a task adds credit, one  *)
(* unit, to the holder of that attempt; a completed task stays one; and a  *)
(* registration starts at zero.                                            *)
(*                                                                         *)
(* With node identities enforced, what the holder uploaded is overwritten  *)
(* by its own node alone: whoever passes the second check is the holder's  *)
(* node, histories only grow, and a new holder is a lease under which      *)
(* nothing was uploaded yet.                                               *)
(***************************************************************************)
EXTENDS Coordinator, FiniteSetTheorems, TLAPS

\* The lease table is one, and its queue holds tasks.
TableShape ==
    /\ tasks \in [Tasks -> Manager!TaskRecord]
    /\ queue \in Seq(Tasks)

\* The variables have the shape the routes rely on.
Shape ==
    /\ TableShape
    /\ files \in [Tasks -> Int]
    /\ uploads \subseteq Upload

\* The output of a completed task is the accepted one, in a table of that shape.
OutputInv == Shape /\ AcceptedOutputStands

\* No call of the manager but a commit completes a task, and none changes the
\* accepted attempt of a completed one.
CompletesNothing ==
    \A t \in Tasks : tasks'[t].state = "COMPLETED" =>
        tasks[t].state = "COMPLETED" /\ tasks'[t].accepted = tasks[t].accepted

-----------------------------------------------------------------------------
\* A released record is one, and is not completed.
LEMMA ReleaseRecord ==
    ASSUME NEW t \in Tasks, NEW r \in Manager!TaskRecord
    PROVE  /\ Manager!Release(t, r) \in Manager!TaskRecord
           /\ Manager!Release(t, r).state # "COMPLETED"
  BY DEF Manager!Release, Manager!TaskRecord, Manager!TaskState

\* A sweep keeps the shape of the table and completes nothing.
LEMMA SweptTable ==
    ASSUME TableShape
    PROVE  /\ Manager!SweptTasks \in [Tasks -> Manager!TaskRecord]
           /\ \A t \in Tasks :
                 \/ Manager!SweptTasks[t] = tasks[t]
                 \/ Manager!SweptTasks[t].state # "COMPLETED"
  BY ReleaseRecord DEF TableShape, Manager!SweptTasks

\* So does a new lease.
LEMMA LeasedRecord ==
    ASSUME NEW t \in Tasks, NEW n \in Nodes, NEW r \in Manager!TaskRecord
    PROVE  /\ Manager!Leased(t, r, n) \in Manager!TaskRecord
           /\ Manager!Leased(t, r, n).state = "LEASED"
  <1> DEFINE l == [node |-> n, attempt |-> r.attempts_used + 1]
             h == Append(r.history, l)
             s == Manager!Leased(t, r, n)
  <1>1. r.history \in Seq(Manager!Lease) /\ r.attempts_used \in Nat
    BY DEF Manager!TaskRecord
  <1>2. l \in Manager!Lease
    BY <1>1 DEF Manager!Lease
  <1>3. s = [r EXCEPT !.attempts_used = r.attempts_used + 1, !.state = "LEASED",
                      !.ttl = LeaseTime[t], !.active = Len(r.history) + 1, !.history = h]
    BY DEF Manager!Leased
  <1> HIDE DEF l
  <1>4. h \in Seq(Manager!Lease) /\ Len(r.history) + 1 \in Nat
    BY <1>1, <1>2
  <1>5. LeaseTime[t] \in Nat /\ r.attempts_used + 1 \in Nat
    BY <1>1, TaskAssumption
  <1> HIDE DEF h, s
  <1>6. s \in Manager!TaskRecord /\ s.state = "LEASED"
    BY <1>3, <1>4, <1>5 DEF Manager!TaskRecord, Manager!TaskState
  <1> QED
    BY <1>6 DEF s

\* The registration and the cancellation of a task keep the shape and
\* complete nothing.
LEMMA AddAndCancel ==
    ASSUME TableShape, NEW t \in Tasks, Manager!AddTask(t) \/ Manager!CancelTask(t)
    PROVE  TableShape' /\ CompletesNothing
  <1>1. Manager!NewRecord = [state |-> "PENDING", attempts_used |-> 0, active |-> 0,
                             ttl |-> 0, accepted |-> 0, history |-> <<>>]
    BY DEF Manager!NewRecord, Manager!NoRecord
  <1>2. Manager!NewRecord \in Manager!TaskRecord /\ Manager!NewRecord.state = "PENDING"
    BY <1>1 DEF Manager!TaskRecord, Manager!TaskState
  <1>3. \A r \in Manager!TaskRecord :
           /\ Manager!Cancelled(r) \in Manager!TaskRecord
           /\ Manager!Cancelled(r) = r \/ Manager!Cancelled(r).state = "CANCELLED"
    BY DEF Manager!Cancelled, Manager!TaskRecord, Manager!TaskState
  <1>4. CASE Manager!AddTask(t)
    <2>1. queue' \in Seq(Tasks)
      BY <1>4 DEF TableShape, Manager!AddTask, Manager!Enqueued
    <2> QED
      BY <1>2, <1>4, <2>1 DEF TableShape, CompletesNothing, Manager!AddTask
  <1>5. CASE Manager!CancelTask(t)
    BY <1>3, <1>5 DEF TableShape, CompletesNothing, Manager!CancelTask
  <1> QED
    BY <1>4, <1>5

\* A claim keeps the shape and completes nothing.
LEMMA ClaimTable ==
    ASSUME TableShape, NEW n \in Nodes, NEW scope, NEW fits,
           Manager!Claim(n, scope, fits)
    PROVE  TableShape' /\ CompletesNothing
  <1> DEFINE S == Manager!SweptTasks
             C == Manager!Candidates(S, scope, fits)
  <1>1. /\ S \in [Tasks -> Manager!TaskRecord]
        /\ \A t \in Tasks : S[t] = tasks[t] \/ S[t].state # "COMPLETED"
    BY SweptTable
  <1>2. \A t \in C : Manager!FirstInQueue(C, t) => t \in Tasks
    BY DEF TableShape, Manager!FirstInQueue
  <1>3. /\ \/ tasks' = S
           \/ \E t \in Tasks : tasks' = [S EXCEPT ![t] = Manager!Leased(t, S[t], n)]
        /\ queue' \in Seq(Tasks)
    BY <1>2 DEF TableShape, Manager!Claim
  <1> HIDE DEF S, C
  <1>4. CASE tasks' = S
    BY <1>1, <1>3, <1>4 DEF TableShape, CompletesNothing
  <1>5. ASSUME NEW t \in Tasks, tasks' = [S EXCEPT ![t] = Manager!Leased(t, S[t], n)]
        PROVE  TableShape' /\ CompletesNothing
    <2>1. S[t] \in Manager!TaskRecord
      BY <1>1, <1>5
    <2>2. /\ Manager!Leased(t, S[t], n) \in Manager!TaskRecord
          /\ Manager!Leased(t, S[t], n).state = "LEASED"
      BY <2>1, LeasedRecord
    <2> QED
      BY <1>1, <1>3, <1>5, <2>2 DEF TableShape, CompletesNothing
  <1> QED
    BY <1>3, <1>4, <1>5

\* Heartbeats, failures, the sweeper and the clock complete nothing.
LEMMA OtherCalls ==
    ASSUME TableShape,
           \/ Manager!Sweep
           \/ Manager!Tick
           \/ \E t \in Tasks : \E i \in Manager!Issued(t) :
                 Manager!Heartbeat(t, i) \/ Manager!Fail(t, i)
    PROVE  TableShape' /\ CompletesNothing
  <1>1. CASE Manager!Sweep
    BY <1>1, SweptTable DEF TableShape, CompletesNothing, Manager!Sweep
  <1>2. CASE Manager!Tick
    <2>1. \A r \in Manager!TaskRecord :
             LET s == [r EXCEPT !.ttl = IF @ = 0 THEN 0 ELSE @ - 1]
             IN  s \in Manager!TaskRecord /\ s.state = r.state /\ s.accepted = r.accepted
      BY DEF Manager!TaskRecord
    <2>2. \A t \in Tasks : tasks[t] \in Manager!TaskRecord
      BY DEF TableShape
    <2> QED
      BY <1>2, <2>1, <2>2 DEF TableShape, CompletesNothing, Manager!Tick
  <1>3. ASSUME NEW t \in Tasks, NEW i \in Manager!Issued(t), Manager!Heartbeat(t, i)
        PROVE  TableShape' /\ CompletesNothing
    <2>1. LeaseTime[t] \in Nat
      BY TaskAssumption
    <2> QED
      BY <1>3, <2>1 DEF TableShape, CompletesNothing, Manager!Heartbeat, Manager!TaskRecord
  <1>4. ASSUME NEW t \in Tasks, NEW i \in Manager!Issued(t), Manager!Fail(t, i)
        PROVE  TableShape' /\ CompletesNothing
    <2>1. tasks' = [tasks EXCEPT ![t] = Manager!Release(t, tasks[t])]
      BY <1>4 DEF TableShape, Manager!Fail
    <2> QED
      BY <1>4, <2>1, ReleaseRecord DEF TableShape, CompletesNothing, Manager!Fail
  <1> QED
    BY <1>1, <1>2, <1>3, <1>4

\* A step that leaves the files alone and completes nothing keeps OutputInv.
LEMMA FilesAlone ==
    ASSUME OutputInv, TableShape', CompletesNothing,
           files' = files, uploads' \subseteq Upload
    PROVE  OutputInv'
  BY DEF OutputInv, Shape, TableShape, AcceptedOutputStands, CompletesNothing

\* A commit completes a task only when its file is the output of the attempt.
LEMMA CommitOfValidOutput ==
    ASSUME OutputInv, NEW t \in Tasks, NEW i \in Manager!Issued(t), AttemptComplete(t, i)
    PROVE  OutputInv'
  <1>1. Shape /\ TableShape /\ files' = files /\ uploads' = uploads /\ uploads' \subseteq Upload
    BY DEF OutputInv, Shape, AttemptComplete
  <1>2. CASE Manager!Fail(t, i)
    BY <1>1, <1>2, OtherCalls, FilesAlone
  <1>3. CASE (OutputValid(t, i) \/ ~Manager!IsLive(t, i)) /\ Manager!Complete(t, i)
    <2>1. CASE tasks' = tasks
      <3>1. TableShape' /\ CompletesNothing
        BY <1>1, <1>3, <2>1 DEF Shape, TableShape, CompletesNothing, Manager!Complete
      <3> QED
        BY <1>1, <3>1, FilesAlone
    <2>2. CASE tasks' # tasks
      <3>1. /\ files[t] = i /\ tasks[t].state = "LEASED"
            /\ tasks' = [tasks EXCEPT ![t].state = "COMPLETED", ![t].accepted = i,
                                      ![t].active = 0, ![t].ttl = 0]
        BY <1>3, <2>2 DEF Manager!Complete, Manager!IsLive, OutputValid
      <3> DEFINE s == [tasks[t] EXCEPT !.state = "COMPLETED", !.accepted = i,
                                       !.active = 0, !.ttl = 0]
      <3>2. i \in Nat /\ tasks[t] \in Manager!TaskRecord
        BY <1>1 DEF Shape, TableShape, Manager!Issued, Manager!TaskRecord
      <3>3. s \in Manager!TaskRecord /\ s.state = "COMPLETED" /\ s.accepted = i
        BY <3>2 DEF Manager!TaskRecord, Manager!TaskState
      <3>4. tasks' = [tasks EXCEPT ![t] = s]
        BY <1>1, <3>1 DEF Shape, TableShape
      <3> HIDE DEF s
      <3>5. TableShape' /\ tasks'[t] = s
            /\ \A u \in Tasks \ {t} : tasks'[u] = tasks[u]
        BY <1>1, <1>3, <3>3, <3>4 DEF Shape, TableShape, Manager!Complete
      <3> QED
        BY <1>1, <3>1, <3>3, <3>5 DEF OutputInv, Shape, TableShape, AcceptedOutputStands
    <2> QED
      BY <2>1, <2>2
  <1> QED
    BY <1>2, <1>3 DEF AttemptComplete

\* With identities enforced, a file is only written while its task is leased.
LEMMA WriteOfLeasedTask ==
    ASSUME Enforcing, OutputInv, NEW u \in uploads, NEW v \in Int,
           files' = [files EXCEPT ![u.task] = v], Lands(u),
           tasks' = tasks, queue' = queue, uploads' \subseteq uploads
    PROVE  OutputInv'
  <1>1. tasks[u.task].state = "LEASED" /\ u.task \in Tasks
    BY DEF OutputInv, Shape, TableShape, Upload, Lands, MayWrite, Writable, Manager!IsLive
  <1>2. Shape'
    BY <1>1 DEF OutputInv, Shape, TableShape
  <1>3. AcceptedOutputStands'
    BY <1>1 DEF OutputInv, Shape, TableShape, AcceptedOutputStands
  <1> QED
    BY <1>2, <1>3 DEF OutputInv

\* Every step keeps OutputInv.
LEMMA OutputInvInductive ==
    ASSUME Enforcing
    PROVE  /\ Init => OutputInv
           /\ OutputInv /\ [Next]_vars => OutputInv'
  <1>1. Init => OutputInv
    <2> SUFFICES ASSUME Init PROVE OutputInv
      OBVIOUS
    <2>1. Manager!NoRecord \in Manager!TaskRecord /\ Manager!NoRecord.state = "ABSENT"
      BY DEF Manager!NoRecord, Manager!TaskRecord, Manager!TaskState
    <2> QED
      BY <2>1 DEF Init, Manager!Init, NoFile, OutputInv, Shape, TableShape, AcceptedOutputStands
  <1>2. ASSUME OutputInv, UNCHANGED vars  PROVE OutputInv'
    BY <1>2 DEF vars, OutputInv, Shape, TableShape, AcceptedOutputStands
  <1>3. ASSUME OutputInv, Next  PROVE OutputInv'
    <2> USE <1>3
    <2> DEFINE Quiet == files' = files /\ uploads' = uploads
    <2>1. Shape /\ TableShape /\ uploads \subseteq Upload
      BY DEF OutputInv, Shape
    <2>2. CASE tasks' = tasks /\ queue' = queue /\ files' = files /\ uploads' \subseteq Upload
      BY <2>1, <2>2, FilesAlone DEF TableShape, CompletesNothing
    <2>3. ASSUME NEW t \in Tasks, AddTask(t) \/ CancelTask(t)  PROVE OutputInv'
      <3>1. (Manager!AddTask(t) \/ Manager!CancelTask(t)) /\ Quiet
        BY <2>3 DEF AddTask, CancelTask
      <3> QED
        BY <2>1, <3>1, AddAndCancel, FilesAlone
    <2>4. ASSUME NEW n \in Nodes, NEW scope, Claim(n, scope)  PROVE OutputInv'
      <3>1. Manager!Claim(n, scope, Eligible[nodes[n].profile]) /\ Quiet
        BY <2>4 DEF Claim
      <3> QED
        BY <2>1, <2>4, <3>1, ClaimTable, FilesAlone
    <2>5. ASSUME NEW t \in Tasks, NEW i \in Manager!Issued(t),
                 AttemptHeartbeat(t, i) \/ AttemptFail(t, i)
          PROVE  OutputInv'
      <3>1. (Manager!Heartbeat(t, i) \/ Manager!Fail(t, i)) /\ Quiet
        BY <2>5 DEF AttemptHeartbeat, AttemptFail
      <3> QED
        BY <2>1, <2>5, <3>1, OtherCalls, FilesAlone
    <2>6. CASE Sweep \/ Tick
      BY <2>1, <2>6, OtherCalls, FilesAlone DEF Sweep, Tick
    <2>7. ASSUME NEW t \in Tasks, NEW i \in Manager!Issued(t), AttemptComplete(t, i)
          PROVE  OutputInv'
      BY <2>7, CommitOfValidOutput
    <2>8. ASSUME NEW t \in Tasks, NEW i \in Manager!Issued(t), StartPut(t, i)
          PROVE  OutputInv'
      <3>1. tasks[t].history \in Seq(Manager!Lease) /\ i \in 1 .. Len(tasks[t].history)
        BY <2>1, <2>8 DEF TableShape, Manager!TaskRecord, Manager!Issued
      <3>2. Holder(t, i) \in Nodes /\ i \in Nat
        <4>1. tasks[t].history[i] \in Manager!Lease /\ i \in Nat
          BY <3>1
        <4> QED
          BY <4>1 DEF Holder, Manager!Lease
      <3>3. [node |-> Holder(t, i), task |-> t, made |-> i] \in Upload
        BY <3>2 DEF Upload
      <3>4. tasks' = tasks /\ queue' = queue /\ files' = files /\ uploads' \subseteq Upload
        BY <2>1, <2>8, <3>3 DEF StartPut, table
      <3> QED
        BY <2>2, <3>4
    <2>9. ASSUME NEW u \in uploads, FinishPut(u)  PROVE OutputInv'
      <3>1. tasks' = tasks /\ queue' = queue /\ uploads' \subseteq uploads /\ u.made \in Int
        BY <2>1, <2>9 DEF FinishPut, table, Upload
      <3>2. CASE Lands(u)
        BY <2>9, <3>1, <3>2, WriteOfLeasedTask DEF FinishPut
      <3>3. CASE ~Lands(u)
        BY <2>1, <2>2, <2>9, <3>1, <3>3 DEF FinishPut
      <3> QED
        BY <3>2, <3>3
    <2>10. ASSUME NEW u \in uploads, DropPut(u)  PROVE OutputInv'
      BY <2>1, <2>2, <2>10 DEF DropPut, table
    <2>11. ASSUME NEW u \in uploads, RestartWriting(u)  PROVE OutputInv'
      <3>1. /\ tasks' = tasks /\ queue' = queue /\ uploads' \subseteq uploads /\ Lands(u) /\ Torn \in Int
            /\ files' = [files EXCEPT ![u.task] = Torn]
        BY <2>11 DEF RestartWriting, table, Torn
      <3> QED
        BY <3>1, WriteOfLeasedTask
    <2>12. ASSUME NEW n \in Nodes, NEW p, RegisterNode(n, p) \/ NodeHeartbeat(n, p)
           PROVE  OutputInv'
      BY <2>1, <2>2, <2>12 DEF RegisterNode, NodeHeartbeat, table
    <2>13. CASE Restart
      BY <2>2, <2>13 DEF Restart, table
    <2> QED
      BY <2>3, <2>4, <2>5, <2>6, <2>7, <2>8, <2>9, <2>10, <2>11, <2>12, <2>13 DEF Next
  <1> QED
    BY <1>1, <1>2, <1>3

\* With node identities enforced the file of a completed task is, and stays,
\* the output of the accepted attempt (modea.py, put_artifact and
\* attempt_complete), for any number of tasks, nodes and uploads in flight.
THEOREM AcceptedOutputIsNeverReplaced == Enforcing /\ Spec => []AcceptedOutputStands
  <1>1. OutputInv => AcceptedOutputStands
    BY DEF OutputInv
  <1>2. Enforcing => (Init => OutputInv) /\ (OutputInv /\ [Next]_vars => OutputInv')
    BY OutputInvInductive
  <1> SUFFICES ASSUME Enforcing PROVE Spec => []AcceptedOutputStands
    OBVIOUS
  <1>3. (Init => OutputInv) /\ (OutputInv /\ [Next]_vars => OutputInv')
    BY <1>2
  <1> QED
    BY <1>1, <1>3, PTL DEF Spec

-----------------------------------------------------------------------------
(***************************************************************************)
(* Credit.  The tasks a node has won are those whose accepted attempt it   *)
(* was issued.  No call but a commit that is accepted changes what was     *)
(* won, and that one adds a task that nobody had won before.               *)
(***************************************************************************)
Won(n) == {t \in Tasks : tasks[t].accepted # 0 /\ Holder(t, tasks[t].accepted) = n}

\* An accepted attempt was issued, and its task is settled.
WinnersAreIssued ==
    \A t \in Tasks : tasks[t].accepted # 0 =>
        tasks[t].state = "COMPLETED" /\ tasks[t].accepted \in DOMAIN tasks[t].history

\* The registry is a function from nodes to entries.
RegistryShape ==
    /\ DOMAIN nodes \subseteq Nodes
    /\ nodes = [n \in DOMAIN nodes |-> nodes[n]]
    /\ \A n \in DOMAIN nodes : nodes[n] \in NodeEntry

\* Credit is earned, in a table and a registry of that shape.
CreditInv ==
    /\ TableShape
    /\ WinnersAreIssued
    /\ RegistryShape
    /\ \A n \in Nodes : IsFiniteSet(Won(n))
    /\ CreditIsEarned

\* A step that leaves alone what was accepted.
KeepsWinners ==
    \A t \in Tasks :
        /\ tasks'[t].accepted = tasks[t].accepted
        /\ tasks[t].accepted # 0 =>
              tasks'[t].state = "COMPLETED" /\ tasks'[t].history = tasks[t].history

\* A sweep does not touch a settled task.
LEMMA SweptWinners ==
    ASSUME TableShape, WinnersAreIssued, NEW t \in Tasks
    PROVE  /\ Manager!SweptTasks[t].accepted = tasks[t].accepted
           /\ tasks[t].accepted # 0 => Manager!SweptTasks[t] = tasks[t]
           /\ Manager!SweptTasks[t].state = "COMPLETED" => tasks[t].state = "COMPLETED"
  <1>1. tasks[t] \in Manager!TaskRecord
    BY DEF TableShape
  <1>2. Manager!SweptTasks[t] =
            IF Manager!Lapsed(tasks[t]) THEN Manager!Release(t, tasks[t]) ELSE tasks[t]
    BY DEF Manager!SweptTasks
  <1>3. Manager!Lapsed(tasks[t]) => tasks[t].accepted = 0
    BY DEF WinnersAreIssued, Manager!Lapsed
  <1> QED
    BY <1>1, <1>2, <1>3 DEF Manager!Release, Manager!TaskRecord

\* Neither registration nor cancellation touches a settled task.
LEMMA AddAndCancelWinners ==
    ASSUME TableShape, WinnersAreIssued, NEW t \in Tasks,
           Manager!AddTask(t) \/ Manager!CancelTask(t)
    PROVE  KeepsWinners
  <1>1. tasks[t] \in Manager!TaskRecord
    BY DEF TableShape
  <1>2. CASE Manager!AddTask(t)
    <2>1. tasks[t].state = "ABSENT" /\ tasks[t].accepted = 0
      BY <1>2 DEF Manager!AddTask, WinnersAreIssued
    <2>2. Manager!NewRecord.accepted = 0
      BY DEF Manager!NewRecord, Manager!NoRecord
    <2> QED
      BY <1>2, <2>1, <2>2 DEF KeepsWinners, TableShape, Manager!AddTask, WinnersAreIssued
  <1>3. CASE Manager!CancelTask(t)
    <2>1. /\ Manager!Cancelled(tasks[t]).accepted = tasks[t].accepted
          /\ tasks[t].accepted # 0 => Manager!Cancelled(tasks[t]) = tasks[t]
      BY <1>1 DEF Manager!Cancelled, Manager!TaskRecord, Manager!Terminal, WinnersAreIssued
    <2> QED
      BY <1>3, <2>1 DEF KeepsWinners, TableShape, Manager!CancelTask, WinnersAreIssued
  <1> QED
    BY <1>2, <1>3

\* A claim leases a task that nobody has won.
LEMMA ClaimWinners ==
    ASSUME TableShape, WinnersAreIssued, NEW n \in Nodes, NEW scope, NEW fits,
           Manager!Claim(n, scope, fits)
    PROVE  KeepsWinners
  <1> DEFINE S == Manager!SweptTasks
             C == Manager!Candidates(S, scope, fits)
  <1>1. S \in [Tasks -> Manager!TaskRecord]
    BY SweptTable
  <1>2. \A t \in Tasks : /\ S[t].accepted = tasks[t].accepted
                         /\ tasks[t].accepted # 0 => S[t] = tasks[t]
    BY SweptWinners
  <1>3. \A t \in C : S[t].state = "PENDING"
    BY DEF Manager!Candidates
  <1>4. \A t \in C : Manager!FirstInQueue(C, t) => t \in Tasks
    BY DEF TableShape, Manager!FirstInQueue
  <1>5. \/ tasks' = S
        \/ \E t \in Tasks : /\ S[t].state = "PENDING"
                            /\ tasks' = [S EXCEPT ![t] = Manager!Leased(t, S[t], n)]
    BY <1>3, <1>4 DEF Manager!Claim
  <1> HIDE DEF S, C
  <1>6. CASE tasks' = S
    BY <1>2, <1>6 DEF KeepsWinners, WinnersAreIssued
  <1>7. ASSUME NEW t \in Tasks, S[t].state = "PENDING",
               tasks' = [S EXCEPT ![t] = Manager!Leased(t, S[t], n)]
        PROVE  KeepsWinners
    <2>1. S[t] \in Manager!TaskRecord
      BY <1>1
    <2>2. Manager!Leased(t, S[t], n).accepted = S[t].accepted
      BY <2>1 DEF Manager!Leased, Manager!TaskRecord
    <2>3. tasks[t].accepted = 0
      BY <1>2, <1>7 DEF WinnersAreIssued
    <2> QED
      BY <1>1, <1>2, <1>7, <2>2, <2>3 DEF KeepsWinners, WinnersAreIssued
  <1> QED
    BY <1>5, <1>6, <1>7

\* Nor do heartbeats, failures, the sweeper and the clock.
LEMMA OtherWinners ==
    ASSUME TableShape, WinnersAreIssued,
           \/ Manager!Sweep
           \/ Manager!Tick
           \/ \E t \in Tasks : \E i \in Manager!Issued(t) :
                 Manager!Heartbeat(t, i) \/ Manager!Fail(t, i)
    PROVE  KeepsWinners
  <1>1. \A t \in Tasks : tasks[t] \in Manager!TaskRecord
    BY DEF TableShape
  <1>2. CASE Manager!Sweep
    BY <1>2, SweptWinners DEF Manager!Sweep, KeepsWinners, WinnersAreIssued
  <1>3. CASE Manager!Tick
    BY <1>1, <1>3 DEF Manager!Tick, Manager!TaskRecord, KeepsWinners, WinnersAreIssued
  <1>4. ASSUME NEW t \in Tasks, NEW i \in Manager!Issued(t), Manager!Heartbeat(t, i)
        PROVE  KeepsWinners
    BY <1>1, <1>4 DEF Manager!Heartbeat, TableShape, Manager!TaskRecord, KeepsWinners,
                      WinnersAreIssued
  <1>5. ASSUME NEW t \in Tasks, NEW i \in Manager!Issued(t), Manager!Fail(t, i)
        PROVE  KeepsWinners
    <2>1. tasks[t].accepted = 0
      BY <1>5 DEF Manager!Fail, Manager!IsLive, WinnersAreIssued
    <2>2. Manager!Release(t, tasks[t]).accepted = tasks[t].accepted
      BY <1>1 DEF Manager!Release, Manager!TaskRecord
    <2> QED
      BY <1>5, <2>1, <2>2 DEF Manager!Fail, TableShape, KeepsWinners, WinnersAreIssued
  <1> QED
    BY <1>2, <1>3, <1>4, <1>5

\* A step that leaves the winners alone and gives no credit keeps CreditInv.
LEMMA NoCredit ==
    ASSUME CreditInv, TableShape', KeepsWinners, RegistryShape',
           \A n \in DOMAIN nodes' :
               \/ nodes'[n].accepted = 0
               \/ n \in DOMAIN nodes /\ nodes'[n].accepted = nodes[n].accepted
    PROVE  CreditInv'
  <1>1. WinnersAreIssued'
    BY DEF CreditInv, WinnersAreIssued, KeepsWinners
  <1>2. \A n : Won(n)' = Won(n)
    BY DEF KeepsWinners, Won, Holder
  <1>3. \A n \in Nodes : IsFiniteSet(Won(n)) /\ Cardinality(Won(n)) \in Nat
    BY FS_CardinalityType DEF CreditInv
  <1>4. \A n \in DOMAIN nodes : nodes[n].accepted <= Cardinality(Won(n))
    BY DEF CreditInv, CreditIsEarned, Won
  <1>5. \A n \in DOMAIN nodes' : nodes'[n].accepted <= Cardinality(Won(n)')
    BY <1>2, <1>3, <1>4 DEF RegistryShape
  <1>6. CreditIsEarned'
    BY <1>5 DEF CreditIsEarned, Won
  <1> QED
    BY <1>1, <1>2, <1>3, <1>6 DEF CreditInv

\* An accepted commit gives its node one task and at most one credit.
LEMMA CreditOfCommit ==
    ASSUME CreditInv, NEW t \in Tasks, NEW i \in Manager!Issued(t), AttemptComplete(t, i)
    PROVE  CreditInv'
  <1>1. TableShape /\ WinnersAreIssued /\ RegistryShape
    BY DEF CreditInv
  <1>2. tasks[t] \in Manager!TaskRecord /\ i \in DOMAIN tasks[t].history /\ i \in Nat /\ i # 0
    BY <1>1 DEF TableShape, Manager!Issued, Manager!TaskRecord
  <1>3. CASE Manager!Fail(t, i) /\ nodes' = nodes
    <2>1. TableShape' /\ KeepsWinners
      BY <1>1, <1>3, OtherCalls, OtherWinners
    <2> QED
      BY <1>1, <1>3, <2>1, NoCredit DEF RegistryShape
  <1>4. CASE Manager!Complete(t, i) /\ nodes' = Credited(t, i, tasks'[t].state # tasks[t].state)
    <2>1. CASE tasks' = tasks
      <3>1. nodes' = nodes /\ queue' = queue
        BY <1>4, <2>1 DEF Credited, Manager!Complete
      <3>2. KeepsWinners
        BY <1>1, <2>1 DEF KeepsWinners, WinnersAreIssued
      <3> QED
        BY <1>1, <2>1, <3>1, <3>2, NoCredit DEF RegistryShape, TableShape
    <2>2. CASE tasks' # tasks
      <3> DEFINE s == [tasks[t] EXCEPT !.state = "COMPLETED", !.accepted = i,
                                       !.active = 0, !.ttl = 0]
      <3>1. /\ tasks[t].state = "LEASED"
            /\ tasks' = [tasks EXCEPT ![t].state = "COMPLETED", ![t].accepted = i,
                                      ![t].active = 0, ![t].ttl = 0]
            /\ queue' = queue
        BY <1>4, <2>2 DEF Manager!Complete, Manager!IsLive
      <3>2. /\ s \in Manager!TaskRecord /\ s.state = "COMPLETED" /\ s.accepted = i
            /\ s.history = tasks[t].history
        BY <1>2 DEF Manager!TaskRecord, Manager!TaskState
      <3>3. tasks' = [tasks EXCEPT ![t] = s]
        BY <1>1, <3>1 DEF TableShape
      <3> HIDE DEF s
      <3>4. /\ tasks' \in [Tasks -> Manager!TaskRecord] /\ tasks'[t] = s
            /\ \A u \in Tasks \ {t} : tasks'[u] = tasks[u]
        BY <1>1, <3>2, <3>3 DEF TableShape
      <3>5. TableShape' /\ WinnersAreIssued'
        BY <1>1, <1>2, <3>1, <3>2, <3>4 DEF TableShape, WinnersAreIssued
      <3>6. tasks[t].accepted = 0
        BY <1>1, <3>1 DEF WinnersAreIssued
      <3>7. PICK h \in Nodes : h = Holder(t, i)
        <4>1. tasks[t].history \in Seq(Manager!Lease)
          BY <1>2 DEF Manager!TaskRecord
        <4>2. tasks[t].history[i] \in Manager!Lease
          BY <1>2, <4>1
        <4> QED
          BY <4>2 DEF Holder, Manager!Lease
      <3>8. /\ t \notin Won(h)
            /\ Won(h)' = Won(h) \cup {t}
            /\ \A n : n # h => Won(n)' = Won(n)
        BY <1>2, <3>2, <3>4, <3>6, <3>7 DEF Won, Holder
      <3>9. \A n \in Nodes : IsFiniteSet(Won(n)) /\ Cardinality(Won(n)) \in Nat
        BY FS_CardinalityType DEF CreditInv
      <3>10. IsFiniteSet(Won(h)') /\ Cardinality(Won(h)') = Cardinality(Won(h)) + 1
        BY <3>8, <3>9, FS_AddElement
      <3>11. \A n \in Nodes : IsFiniteSet(Won(n)')
        <4> SUFFICES ASSUME NEW n \in Nodes PROVE IsFiniteSet(Won(n)')
          OBVIOUS
        <4>1. CASE n = h
          BY <3>10, <4>1
        <4>2. CASE n # h
          BY <3>8, <3>9, <4>2
        <4> QED
          BY <4>1, <4>2
      <3>12. /\ DOMAIN nodes' = DOMAIN nodes
             /\ RegistryShape'
             /\ \A n \in DOMAIN nodes :
                   /\ nodes'[n].accepted <= nodes[n].accepted + 1
                   /\ n # h => nodes'[n].accepted = nodes[n].accepted
        <4>1. \/ nodes' = nodes
              \/ h \in DOMAIN nodes /\ nodes' = [nodes EXCEPT ![h].accepted = @ + 1]
          BY <1>4, <3>7 DEF Credited
        <4>2. CASE nodes' = nodes
          BY <1>1, <4>2 DEF RegistryShape, NodeEntry
        <4>3. CASE h \in DOMAIN nodes /\ nodes' = [nodes EXCEPT ![h].accepted = @ + 1]
          <5>1. nodes[h] \in NodeEntry
            BY <1>1, <4>3 DEF RegistryShape
          <5>2. /\ [nodes[h] EXCEPT !.accepted = @ + 1] \in NodeEntry
                /\ [nodes[h] EXCEPT !.accepted = @ + 1].accepted = nodes[h].accepted + 1
            BY <5>1 DEF NodeEntry
          <5>3. /\ DOMAIN nodes' = DOMAIN nodes
                /\ nodes' = [n \in DOMAIN nodes' |-> nodes'[n]]
                /\ nodes'[h] = [nodes[h] EXCEPT !.accepted = @ + 1]
                /\ \A n \in DOMAIN nodes : n # h => nodes'[n] = nodes[n]
            BY <1>1, <4>3 DEF RegistryShape
          <5>4. RegistryShape'
            BY <1>1, <5>2, <5>3 DEF RegistryShape
          <5>5. \A n \in DOMAIN nodes : nodes[n].accepted \in Nat
            BY <1>1 DEF RegistryShape, NodeEntry
          <5>6. ASSUME NEW n \in DOMAIN nodes
                PROVE  /\ nodes'[n].accepted <= nodes[n].accepted + 1
                       /\ n # h => nodes'[n].accepted = nodes[n].accepted
            <6>1. CASE n = h
              <7>1. nodes'[h].accepted = nodes[h].accepted + 1
                BY <5>2, <5>3
              <7>2. nodes[h].accepted \in Nat
                BY <4>3, <5>5
              <7>3. nodes'[h].accepted <= nodes[h].accepted + 1
                BY <7>1, <7>2
              <7> QED
                BY <6>1, <7>3
            <6>2. CASE n # h
              BY <5>3, <5>5, <6>2
            <6> QED
              BY <6>1, <6>2
          <5> QED
            BY <5>3, <5>4, <5>6
        <4> QED
          BY <4>1, <4>2, <4>3
      <3>13. \A n \in DOMAIN nodes : nodes[n].accepted <= Cardinality(Won(n)) /\ nodes[n].accepted \in Nat
        BY <1>1 DEF CreditInv, CreditIsEarned, Won, RegistryShape, NodeEntry
      <3>14. \A n \in DOMAIN nodes' : nodes'[n].accepted <= Cardinality(Won(n)')
        <4> SUFFICES ASSUME NEW n \in DOMAIN nodes'
                     PROVE  nodes'[n].accepted <= Cardinality(Won(n)')
          OBVIOUS
        <4>1. n \in DOMAIN nodes /\ n \in Nodes /\ nodes'[n].accepted \in Nat
          BY <1>1, <3>12 DEF RegistryShape, NodeEntry
        <4>2. CASE n = h
          <5>1. /\ nodes'[h].accepted <= nodes[h].accepted + 1
                /\ nodes[h].accepted <= Cardinality(Won(h)) /\ nodes[h].accepted \in Nat
                /\ Cardinality(Won(h)) \in Nat /\ nodes'[h].accepted \in Nat
                /\ Cardinality(Won(h)') = Cardinality(Won(h)) + 1
            BY <3>9, <3>10, <3>12, <3>13, <4>1, <4>2
          <5>2. nodes'[h].accepted <= Cardinality(Won(h)')
            BY <5>1
          <5> QED
            BY <4>2, <5>2
        <4>3. CASE n # h
          BY <3>8, <3>12, <3>13, <4>1, <4>3
        <4> QED
          BY <4>2, <4>3
      <3>15. CreditIsEarned'
        BY <3>14 DEF CreditIsEarned, Won
      <3> QED
        BY <3>5, <3>11, <3>12, <3>15 DEF CreditInv
    <2> QED
      BY <2>1, <2>2
  <1> QED
    BY <1>3, <1>4 DEF AttemptComplete

\* A registration starts an entry without credit.
LEMMA CreditOfRegistration ==
    ASSUME CreditInv, NEW n \in Nodes, NEW p \in Profiles, RegisterNode(n, p)
    PROVE  CreditInv'
  <1> DEFINE e == [profile |-> p, accepted |-> 0]
  <1>1. /\ DOMAIN nodes' = DOMAIN nodes \cup {n}
        /\ nodes' = [m \in DOMAIN nodes' |-> nodes'[m]]
        /\ nodes'[n] = e
        /\ \A m \in DOMAIN nodes : m # n => nodes'[m] = nodes[m]
    BY DEF RegisterNode
  <1>2. e \in NodeEntry /\ e.accepted = 0
    BY DEF NodeEntry
  <1> HIDE DEF e
  <1>3. RegistryShape'
    BY <1>1, <1>2 DEF CreditInv, RegistryShape
  <1>4. TableShape' /\ KeepsWinners
    BY DEF CreditInv, TableShape, KeepsWinners, WinnersAreIssued, RegisterNode, table
  <1> QED
    BY <1>1, <1>2, <1>3, <1>4, NoCredit

\* Every step keeps CreditInv.
LEMMA CreditInvInductive ==
    /\ Init => CreditInv
    /\ CreditInv /\ [Next]_vars => CreditInv'
  <1>1. Init => CreditInv
    <2> SUFFICES ASSUME Init PROVE CreditInv
      OBVIOUS
    <2>1. Manager!NoRecord \in Manager!TaskRecord /\ Manager!NoRecord.accepted = 0
      BY DEF Manager!NoRecord, Manager!TaskRecord, Manager!TaskState
    <2>2. tasks = [t \in Tasks |-> Manager!NoRecord] /\ queue = <<>> /\ nodes = <<>>
      BY DEF Init, Manager!Init
    <2>3. TableShape /\ WinnersAreIssued
      BY <2>1, <2>2 DEF TableShape, WinnersAreIssued
    <2>4. DOMAIN nodes = {} /\ nodes = [n \in DOMAIN nodes |-> nodes[n]]
      BY <2>2
    <2>5. \A n : Won(n) = {}
      BY <2>1, <2>2 DEF Won
    <2> QED
      BY <2>3, <2>4, <2>5, FS_EmptySet DEF CreditInv, RegistryShape, CreditIsEarned
  <1>2. ASSUME CreditInv, tasks' = tasks, queue' = queue, nodes' = nodes PROVE CreditInv'
    BY <1>2 DEF CreditInv, TableShape, WinnersAreIssued, RegistryShape, Won, Holder, CreditIsEarned
  <1>3. ASSUME CreditInv, Next PROVE CreditInv'
    <2> USE <1>3
    <2>1. TableShape /\ WinnersAreIssued /\ RegistryShape
      BY DEF CreditInv
    <2>2. ASSUME TableShape', KeepsWinners, nodes' = nodes PROVE CreditInv'
      BY <2>1, <2>2, NoCredit DEF RegistryShape
    <2>3. ASSUME NEW t \in Tasks, AddTask(t) \/ CancelTask(t) PROVE CreditInv'
      <3>1. (Manager!AddTask(t) \/ Manager!CancelTask(t)) /\ nodes' = nodes
        BY <2>3 DEF AddTask, CancelTask
      <3> QED
        BY <2>1, <2>2, <3>1, AddAndCancel, AddAndCancelWinners
    <2>4. ASSUME NEW n \in Nodes, NEW scope, Claim(n, scope) PROVE CreditInv'
      <3>1. Manager!Claim(n, scope, Eligible[nodes[n].profile]) /\ nodes' = nodes
        BY <2>4 DEF Claim
      <3> QED
        BY <2>1, <2>2, <2>4, <3>1, ClaimTable, ClaimWinners
    <2>5. ASSUME NEW t \in Tasks, NEW i \in Manager!Issued(t),
                 AttemptHeartbeat(t, i) \/ AttemptFail(t, i)
          PROVE  CreditInv'
      <3>1. (Manager!Heartbeat(t, i) \/ Manager!Fail(t, i)) /\ nodes' = nodes
        BY <2>5 DEF AttemptHeartbeat, AttemptFail
      <3> QED
        BY <2>1, <2>2, <2>5, <3>1, OtherCalls, OtherWinners
    <2>6. CASE Sweep \/ Tick
      BY <2>1, <2>2, <2>6, OtherCalls, OtherWinners DEF Sweep, Tick
    <2>7. ASSUME NEW t \in Tasks, NEW i \in Manager!Issued(t), AttemptComplete(t, i)
          PROVE  CreditInv'
      BY <2>7, CreditOfCommit
    <2>8. ASSUME \/ \E t \in Tasks : \E i \in Manager!Issued(t) : StartPut(t, i)
                 \/ \E u \in uploads : FinishPut(u) \/ DropPut(u)
          PROVE  CreditInv'
      BY <1>2, <2>8 DEF StartPut, FinishPut, DropPut, table
    <2>9. ASSUME Restart \/ \E u \in uploads : RestartWriting(u) PROVE CreditInv'
      <3>1. tasks' = tasks /\ queue' = queue /\ nodes' = <<>>
        BY <2>9 DEF Restart, RestartWriting, table
      <3>2. DOMAIN nodes' = {} /\ nodes' = [n \in DOMAIN nodes' |-> nodes'[n]]
        BY <3>1
      <3>3. RegistryShape' /\ TableShape' /\ KeepsWinners
        BY <2>1, <3>1, <3>2 DEF RegistryShape, TableShape, KeepsWinners, WinnersAreIssued
      <3> QED
        BY <3>2, <3>3, NoCredit
    <2>10. ASSUME NEW n \in Nodes, NEW p \in Profiles, RegisterNode(n, p) PROVE CreditInv'
      BY <2>10, CreditOfRegistration
    <2>11. ASSUME NEW n \in Nodes, NEW p \in Profiles, NodeHeartbeat(n, p) PROVE CreditInv'
      <3>1. n \in DOMAIN nodes /\ nodes' = [nodes EXCEPT ![n].profile = p]
        BY <2>11 DEF NodeHeartbeat
      <3>2. /\ [nodes[n] EXCEPT !.profile = p] \in NodeEntry
            /\ [nodes[n] EXCEPT !.profile = p].accepted = nodes[n].accepted
        BY <2>1, <3>1 DEF RegistryShape, NodeEntry
      <3>3. RegistryShape'
        BY <2>1, <3>1, <3>2 DEF RegistryShape
      <3>4. TableShape' /\ KeepsWinners
        BY <2>1, <2>11 DEF NodeHeartbeat, table, TableShape, KeepsWinners, WinnersAreIssued
      <3> QED
        BY <2>1, <3>1, <3>2, <3>3, <3>4, NoCredit DEF RegistryShape
    <2> QED
      BY <2>3, <2>4, <2>5, <2>6, <2>7, <2>8, <2>9, <2>10, <2>11 DEF Next
  <1> QED
    BY <1>1, <1>2, <1>3 DEF vars, table

\* With or without node identities, and however often a commit is repeated or comes late,
\* a node is credited with no more tasks than it has accepted attempts for (modea.py,
\* attempt_complete), for any number of tasks and nodes.
THEOREM CreditIsNeverUnearned == Spec => []CreditIsEarned
  <1>1. CreditInv => CreditIsEarned
    BY DEF CreditInv
  <1> QED
    BY <1>1, CreditInvInductive, PTL DEF Spec

-----------------------------------------------------------------------------
(***************************************************************************)
(* Uploads.  The history of a task only grows, and a new holder is a lease *)
(* that did not exist before, so what was uploaded under an older lease is *)
(* never taken for the holder's; and with node identities enforced only    *)
(* the holder's node passes the second check of put_artifact.              *)
(***************************************************************************)
\* A task that is not registered was never leased.
NoLeaseBefore == \A t \in Tasks : tasks[t].state = "ABSENT" => tasks[t].history = <<>>

\* A step that only adds to the histories and hands no task to an old lease.
KeepsHistory ==
    \A t \in Tasks :
        /\ DOMAIN tasks[t].history \subseteq DOMAIN tasks'[t].history
        /\ \A i \in DOMAIN tasks[t].history : tasks'[t].history[i] = tasks[t].history[i]
        /\ \/ tasks'[t].active = tasks[t].active
           \/ tasks'[t].active \notin DOMAIN tasks[t].history
        /\ tasks'[t].state = "ABSENT" => tasks'[t].history = <<>>

\* Files, bodies in flight and landed outputs are those of leases that were issued.
UploadInv ==
    /\ TableShape
    /\ NoLeaseBefore
    /\ files \in [Tasks -> Int]
    /\ \A t \in Tasks : files[t] \in {NoFile, Torn} \/ files[t] \in DOMAIN tasks[t].history
    /\ \A u \in uploads : /\ u \in Upload
                          /\ u.made \in DOMAIN tasks[u.task].history
                          /\ Holder(u.task, u.made) = u.node
    /\ \A h \in landed : /\ h[1] \in Tasks
                         /\ h[2] \in DOMAIN tasks[h[1]].history
                         /\ files[h[1]] # NoFile
    /\ HoldersUploadStands

\* A sweep leaves the histories alone and only frees tasks.
LEMMA SweptHistory ==
    ASSUME TableShape, NoLeaseBefore, NEW t \in Tasks
    PROVE  /\ Manager!SweptTasks[t].history = tasks[t].history
           /\ Manager!SweptTasks[t].active \in {tasks[t].active, 0}
           /\ Manager!SweptTasks[t].state = "ABSENT" => tasks[t].state = "ABSENT"
  <1>1. tasks[t] \in Manager!TaskRecord
    BY DEF TableShape
  <1>2. Manager!SweptTasks[t] =
            IF Manager!Lapsed(tasks[t]) THEN Manager!Release(t, tasks[t]) ELSE tasks[t]
    BY DEF Manager!SweptTasks
  <1>3. LET r == Manager!Release(t, tasks[t])
        IN  r.history = tasks[t].history /\ r.active = 0 /\ r.state # "ABSENT"
    BY <1>1 DEF Manager!Release, Manager!TaskRecord
  <1> QED
    BY <1>2, <1>3

\* No lease has the place 0.
LEMMA PlacesArePositive ==
    ASSUME TableShape, NEW t \in Tasks
    PROVE  /\ tasks[t] \in Manager!TaskRecord
           /\ tasks[t].history \in Seq(Manager!Lease)
           /\ DOMAIN tasks[t].history = 1 .. Len(tasks[t].history)
           /\ Len(tasks[t].history) \in Nat
           /\ 0 \notin DOMAIN tasks[t].history
  <1>1. tasks[t] \in Manager!TaskRecord
    BY DEF TableShape
  <1>2. tasks[t].history \in Seq(Manager!Lease)
    BY <1>1 DEF Manager!TaskRecord
  <1> QED
    BY <1>1, <1>2

\* A registration starts a history, a cancellation leaves it.
LEMMA AddAndCancelHistory ==
    ASSUME TableShape, NoLeaseBefore, NEW t \in Tasks,
           Manager!AddTask(t) \/ Manager!CancelTask(t)
    PROVE  KeepsHistory
  <1>1. tasks[t] \in Manager!TaskRecord /\ 0 \notin DOMAIN tasks[t].history
    BY PlacesArePositive
  <1>2. CASE Manager!AddTask(t)
    <2>1. tasks[t].history = <<>>
      BY <1>2 DEF Manager!AddTask, NoLeaseBefore
    <2>2. Manager!NewRecord.history = <<>> /\ Manager!NewRecord.active = 0
      BY DEF Manager!NewRecord, Manager!NoRecord
    <2>3. tasks' = [tasks EXCEPT ![t] = Manager!NewRecord]
      BY <1>2 DEF Manager!AddTask
    <2> HIDE DEF Manager!NewRecord
    <2>4. tasks'[t] = Manager!NewRecord /\ \A u \in Tasks \ {t} : tasks'[u] = tasks[u]
      BY <2>3 DEF TableShape
    <2> QED
      BY <1>1, <2>1, <2>2, <2>4 DEF KeepsHistory, NoLeaseBefore
  <1>3. CASE Manager!CancelTask(t)
    <2> DEFINE s == Manager!Cancelled(tasks[t])
    <2>1. /\ s.history = tasks[t].history /\ s.active \in {tasks[t].active, 0}
          /\ s.state = "ABSENT" => tasks[t].state = "ABSENT"
      BY <1>1 DEF Manager!Cancelled, Manager!TaskRecord
    <2>2. tasks'[t] = s /\ \A u \in Tasks \ {t} : tasks'[u] = tasks[u]
      BY <1>3 DEF TableShape, Manager!CancelTask
    <2> HIDE DEF s
    <2> QED
      BY <1>1, <2>1, <2>2 DEF KeepsHistory, NoLeaseBefore
  <1> QED
    BY <1>2, <1>3

\* A new lease lies behind every other.
LEMMA ClaimHistory ==
    ASSUME TableShape, NoLeaseBefore, NEW n \in Nodes, NEW scope, NEW fits,
           Manager!Claim(n, scope, fits)
    PROVE  KeepsHistory
  <1> DEFINE S == Manager!SweptTasks
             C == Manager!Candidates(S, scope, fits)
  <1>1. S \in [Tasks -> Manager!TaskRecord]
    BY SweptTable
  <1>2. \A t \in Tasks : /\ S[t].history = tasks[t].history
                         /\ S[t].active \in {tasks[t].active, 0}
                         /\ S[t].state = "ABSENT" => tasks[t].state = "ABSENT"
    BY SweptHistory
  <1>3. \A t \in C : Manager!FirstInQueue(C, t) => t \in Tasks
    BY DEF TableShape, Manager!FirstInQueue
  <1>4. \/ tasks' = S
        \/ \E t \in Tasks : tasks' = [S EXCEPT ![t] = Manager!Leased(t, S[t], n)]
    BY <1>3 DEF Manager!Claim
  <1>5. \A t \in Tasks : 0 \notin DOMAIN tasks[t].history
    BY PlacesArePositive
  <1> HIDE DEF S, C
  <1>6. CASE tasks' = S
    BY <1>2, <1>5, <1>6 DEF KeepsHistory, NoLeaseBefore
  <1>7. ASSUME NEW t \in Tasks, tasks' = [S EXCEPT ![t] = Manager!Leased(t, S[t], n)]
        PROVE  KeepsHistory
    <2> DEFINE s == Manager!Leased(t, S[t], n)
               l == [node |-> n, attempt |-> S[t].attempts_used + 1]
    <2>1. S[t] \in Manager!TaskRecord /\ S[t].history \in Seq(Manager!Lease)
      BY <1>1 DEF Manager!TaskRecord
    <2>2. /\ s.history = Append(S[t].history, l)
          /\ s.active = Len(S[t].history) + 1
          /\ s.state = "LEASED"
      BY <2>1 DEF Manager!Leased, Manager!TaskRecord
    <2>3. tasks'[t] = s /\ \A u \in Tasks \ {t} : tasks'[u] = S[u]
      BY <1>1, <1>7
    <2> HIDE DEF s
    <2>4. /\ DOMAIN S[t].history = 1 .. Len(S[t].history) /\ Len(S[t].history) \in Nat
          /\ DOMAIN s.history = 1 .. Len(S[t].history) + 1
          /\ \A i \in DOMAIN S[t].history : s.history[i] = S[t].history[i]
      BY <2>1, <2>2
    <2>5. /\ DOMAIN S[t].history \subseteq DOMAIN s.history
          /\ s.active \notin DOMAIN S[t].history
      BY <2>2, <2>4
    <2> QED
      BY <1>2, <1>5, <2>2, <2>3, <2>4, <2>5 DEF KeepsHistory, NoLeaseBefore
  <1> QED
    BY <1>4, <1>6, <1>7

\* The other calls leave the histories alone and at most free a task.
LEMMA OtherHistory ==
    ASSUME TableShape, NoLeaseBefore,
           \/ Manager!Sweep
           \/ Manager!Tick
           \/ \E t \in Tasks : \E i \in Manager!Issued(t) :
                 Manager!Heartbeat(t, i) \/ Manager!Fail(t, i)
    PROVE  KeepsHistory
  <1>1. \A t \in Tasks : tasks[t] \in Manager!TaskRecord /\ 0 \notin DOMAIN tasks[t].history
    BY PlacesArePositive
  <1>2. CASE Manager!Sweep
    BY <1>1, <1>2, SweptHistory DEF Manager!Sweep, KeepsHistory, NoLeaseBefore
  <1>3. CASE Manager!Tick
    BY <1>1, <1>3 DEF Manager!Tick, Manager!TaskRecord, KeepsHistory, NoLeaseBefore
  <1>4. ASSUME NEW t \in Tasks, NEW i \in Manager!Issued(t), Manager!Heartbeat(t, i)
        PROVE  KeepsHistory
    BY <1>1, <1>4 DEF Manager!Heartbeat, TableShape, Manager!TaskRecord, KeepsHistory,
                      NoLeaseBefore
  <1>5. ASSUME NEW t \in Tasks, NEW i \in Manager!Issued(t), Manager!Fail(t, i)
        PROVE  KeepsHistory
    <2> DEFINE s == Manager!Release(t, tasks[t])
    <2>1. s.history = tasks[t].history /\ s.active = 0 /\ s.state # "ABSENT"
      BY <1>1 DEF Manager!Release, Manager!TaskRecord
    <2>2. tasks'[t] = s /\ \A u \in Tasks \ {t} : tasks'[u] = tasks[u]
      BY <1>5 DEF Manager!Fail, TableShape
    <2> HIDE DEF s
    <2> QED
      BY <1>1, <2>1, <2>2 DEF KeepsHistory, NoLeaseBefore
  <1> QED
    BY <1>2, <1>3, <1>4, <1>5

\* So does a commit.
LEMMA CommitHistory ==
    ASSUME TableShape, NoLeaseBefore, NEW t \in Tasks, NEW i \in Manager!Issued(t),
           Manager!Complete(t, i)
    PROVE  TableShape' /\ KeepsHistory
  <1> DEFINE s == [tasks[t] EXCEPT !.state = "COMPLETED", !.accepted = i,
                                   !.active = 0, !.ttl = 0]
  <1>1. /\ tasks[t] \in Manager!TaskRecord
        /\ \A u \in Tasks : 0 \notin DOMAIN tasks[u].history
        /\ i \in Nat
    BY PlacesArePositive DEF Manager!Issued
  <1>2. tasks' = tasks \/ tasks' = [tasks EXCEPT ![t] = s]
    BY DEF Manager!Complete, TableShape
  <1>3. /\ s \in Manager!TaskRecord /\ s.history = tasks[t].history /\ s.active = 0
        /\ s.state = "COMPLETED"
    BY <1>1 DEF Manager!TaskRecord, Manager!TaskState
  <1> HIDE DEF s
  <1>4. queue' = queue
    BY DEF Manager!Complete
  <1>5. CASE tasks' = tasks
    BY <1>4, <1>5 DEF TableShape, KeepsHistory, NoLeaseBefore
  <1>6. CASE tasks' = [tasks EXCEPT ![t] = s]
    <2>1. tasks'[t] = s /\ \A u \in Tasks \ {t} : tasks'[u] = tasks[u]
      BY <1>6 DEF TableShape
    <2>2. TableShape'
      BY <1>3, <1>4, <1>6 DEF TableShape
    <2> QED
      BY <1>1, <1>3, <2>1, <2>2 DEF KeepsHistory, NoLeaseBefore
  <1> QED
    BY <1>2, <1>5, <1>6

\* A step of the table alone keeps UploadInv.
LEMMA TableAlone ==
    ASSUME UploadInv, TableShape', KeepsHistory,
           files' = files, uploads' \subseteq uploads, landed' = landed
    PROVE  UploadInv'
  <1>1. NoLeaseBefore'
    BY DEF KeepsHistory, NoLeaseBefore
  <1>2. \A t \in Tasks : \A i \in DOMAIN tasks[t].history :
            i \in DOMAIN tasks'[t].history /\ Holder(t, i)' = Holder(t, i)
    BY DEF KeepsHistory, Holder
  <1>3. \A u \in uploads' : /\ u \in Upload
                            /\ u.made \in DOMAIN tasks'[u.task].history
                            /\ Holder(u.task, u.made)' = u.node
    BY <1>2 DEF UploadInv, Upload
  <1>4. \A h \in landed' : /\ h[1] \in Tasks
                           /\ h[2] \in DOMAIN tasks'[h[1]].history
                           /\ files'[h[1]] # NoFile
    BY <1>2 DEF UploadInv
  <1>5. HoldersUploadStands'
    <2> SUFFICES ASSUME NEW h \in landed, tasks'[h[1]].active = h[2], files[h[1]] # h[2]
                 PROVE  \/ files[h[1]] = Torn
                        \/ Holder(h[1], files[h[1]])' = Holder(h[1], h[2])'
      BY DEF HoldersUploadStands, Holder
    <2>1. h[1] \in Tasks /\ h[2] \in DOMAIN tasks[h[1]].history /\ files[h[1]] # NoFile
      BY DEF UploadInv
    <2>2. tasks[h[1]].active = h[2]
      BY <2>1 DEF KeepsHistory
    <2>3. files[h[1]] = Torn \/ Holder(h[1], files[h[1]]) = Holder(h[1], h[2])
      BY <2>2 DEF UploadInv, HoldersUploadStands
    <2>4. files[h[1]] = Torn \/ files[h[1]] \in DOMAIN tasks[h[1]].history
      BY <2>1 DEF UploadInv
    <2> QED
      BY <1>2, <2>1, <2>3, <2>4
  <1>6. \A t \in Tasks : files'[t] \in {NoFile, Torn} \/ files'[t] \in DOMAIN tasks'[t].history
    BY <1>2 DEF UploadInv
  <1> QED
    BY <1>1, <1>3, <1>4, <1>5, <1>6 DEF UploadInv

\* A body that lands is the holder's.
LEMMA LandingOfUpload ==
    ASSUME Enforcing, UploadInv, NEW u \in uploads, FinishPut(u), Lands(u)
    PROVE  UploadInv'
  <1> DEFINE t == u.task
             i == u.made
  <1>1. /\ t \in Tasks /\ i \in Int /\ i # NoFile
        /\ i \in DOMAIN tasks[t].history /\ Holder(t, i) = u.node
        /\ Holder(t, tasks[t].active) = u.node
    BY PlacesArePositive DEF UploadInv, Upload, Lands, MayWrite, Writable, NoFile
  <1>2. /\ tasks' = tasks /\ queue' = queue
        /\ uploads' \subseteq uploads
        /\ files' = [files EXCEPT ![t] = i]
        /\ landed' \subseteq landed \cup {<<t, i>>}
    BY DEF FinishPut, table
  <1>3. /\ files' \in [Tasks -> Int] /\ files'[t] = i
        /\ \A v \in Tasks \ {t} : files'[v] = files[v]
    BY <1>1, <1>2 DEF UploadInv
  <1> HIDE DEF t, i
  <1>4. TableShape' /\ NoLeaseBefore'
    BY <1>2 DEF UploadInv, TableShape, NoLeaseBefore
  <1>5. \A h \in landed' : /\ h[1] \in Tasks
                           /\ h[2] \in DOMAIN tasks[h[1]].history
                           /\ files'[h[1]] # NoFile
    BY <1>1, <1>2, <1>3 DEF UploadInv
  <1>6. HoldersUploadStands'
    <2> SUFFICES ASSUME NEW h \in landed', tasks[h[1]].active = h[2], files'[h[1]] # h[2]
                 PROVE  \/ files'[h[1]] = Torn
                        \/ Holder(h[1], files'[h[1]]) = Holder(h[1], h[2])
      BY <1>2 DEF HoldersUploadStands, Holder
    <2>1. CASE h[1] = t
      BY <1>1, <1>3, <2>1
    <2>2. CASE h[1] # t
      BY <1>2, <1>3, <1>5, <2>2 DEF UploadInv, HoldersUploadStands
    <2> QED
      BY <2>1, <2>2
  <1>7. \A v \in Tasks : files'[v] \in {NoFile, Torn} \/ files'[v] \in DOMAIN tasks'[v].history
    BY <1>1, <1>2, <1>3 DEF UploadInv
  <1>8. \A w \in uploads' : /\ w \in Upload
                            /\ w.made \in DOMAIN tasks'[w.task].history
                            /\ Holder(w.task, w.made)' = w.node
    BY <1>2 DEF UploadInv, Holder
  <1> QED
    BY <1>2, <1>3, <1>4, <1>5, <1>6, <1>7, <1>8 DEF UploadInv

\* A body that was being written when the process died leaves a torn file.
LEMMA TornUpload ==
    ASSUME UploadInv, NEW u \in uploads, RestartWriting(u)
    PROVE  UploadInv'
  <1>1. /\ u.task \in Tasks /\ Torn \in Int /\ Torn # NoFile
        /\ tasks' = tasks /\ queue' = queue /\ uploads' = {} /\ landed' = landed
        /\ files' = [files EXCEPT ![u.task] = Torn]
    BY DEF UploadInv, Upload, RestartWriting, table, Torn, NoFile
  <1>2. /\ files' \in [Tasks -> Int] /\ files'[u.task] = Torn
        /\ \A v \in Tasks \ {u.task} : files'[v] = files[v]
    BY <1>1 DEF UploadInv
  <1>3. TableShape' /\ NoLeaseBefore'
    BY <1>1 DEF UploadInv, TableShape, NoLeaseBefore
  <1>4. HoldersUploadStands'
    BY <1>1, <1>2 DEF UploadInv, HoldersUploadStands, Holder
  <1> QED
    BY <1>1, <1>2, <1>3, <1>4 DEF UploadInv

\* Every step keeps UploadInv.
LEMMA UploadInvInductive ==
    ASSUME Enforcing
    PROVE  /\ Init => UploadInv
           /\ UploadInv /\ [Next]_vars => UploadInv'
  <1>1. Init => UploadInv
    <2> SUFFICES ASSUME Init PROVE UploadInv
      OBVIOUS
    <2>1. Manager!NoRecord \in Manager!TaskRecord /\ Manager!NoRecord.history = <<>>
      BY DEF Manager!NoRecord, Manager!TaskRecord, Manager!TaskState
    <2>2. /\ tasks = [t \in Tasks |-> Manager!NoRecord] /\ queue = <<>>
          /\ files = [t \in Tasks |-> NoFile] /\ uploads = {} /\ landed = {}
      BY DEF Init, Manager!Init
    <2>3. TableShape /\ NoLeaseBefore
      BY <2>1, <2>2 DEF TableShape, NoLeaseBefore
    <2> QED
      BY <2>2, <2>3 DEF UploadInv, HoldersUploadStands, NoFile
  <1>2. ASSUME UploadInv, tasks' = tasks, queue' = queue, files' = files,
               uploads' \subseteq uploads, landed' = landed
        PROVE  UploadInv'
    <2>1. TableShape' /\ KeepsHistory
      BY <1>2 DEF UploadInv, TableShape, NoLeaseBefore, KeepsHistory
    <2> QED
      BY <1>2, <2>1, TableAlone
  <1>3. ASSUME UploadInv, Next PROVE UploadInv'
    <2> USE <1>3
    <2> DEFINE Quiet == files' = files /\ uploads' = uploads /\ landed' = landed
    <2>1. TableShape /\ NoLeaseBefore
      BY DEF UploadInv
    <2>2. ASSUME TableShape', KeepsHistory, Quiet PROVE UploadInv'
      BY <2>2, TableAlone
    <2>3. ASSUME NEW t \in Tasks, AddTask(t) \/ CancelTask(t) PROVE UploadInv'
      <3>1. (Manager!AddTask(t) \/ Manager!CancelTask(t)) /\ Quiet
        BY <2>3 DEF AddTask, CancelTask
      <3> QED
        BY <2>1, <2>2, <3>1, AddAndCancel, AddAndCancelHistory
    <2>4. ASSUME NEW n \in Nodes, NEW scope, Claim(n, scope) PROVE UploadInv'
      <3>1. Manager!Claim(n, scope, Eligible[nodes[n].profile]) /\ Quiet
        BY <2>4 DEF Claim
      <3> QED
        BY <2>1, <2>2, <2>4, <3>1, ClaimTable, ClaimHistory
    <2>5. ASSUME NEW t \in Tasks, NEW i \in Manager!Issued(t),
                 AttemptHeartbeat(t, i) \/ AttemptFail(t, i)
          PROVE  UploadInv'
      <3>1. (Manager!Heartbeat(t, i) \/ Manager!Fail(t, i)) /\ Quiet
        BY <2>5 DEF AttemptHeartbeat, AttemptFail
      <3> QED
        BY <2>1, <2>2, <2>5, <3>1, OtherCalls, OtherHistory
    <2>6. CASE Sweep \/ Tick
      BY <2>1, <2>2, <2>6, OtherCalls, OtherHistory DEF Sweep, Tick
    <2>7. ASSUME NEW t \in Tasks, NEW i \in Manager!Issued(t), AttemptComplete(t, i)
          PROVE  UploadInv'
      <3>1. (Manager!Fail(t, i) \/ Manager!Complete(t, i)) /\ Quiet
        BY <2>7 DEF AttemptComplete
      <3>2. TableShape' /\ KeepsHistory
        BY <2>1, <2>7, <3>1, OtherCalls, OtherHistory, CommitHistory
      <3> QED
        BY <2>2, <3>1, <3>2
    <2>8. ASSUME NEW n \in Nodes, NEW p \in Profiles, RegisterNode(n, p) \/ NodeHeartbeat(n, p)
          PROVE  UploadInv'
      BY <1>2, <2>8 DEF RegisterNode, NodeHeartbeat, table
    <2>9. ASSUME NEW t \in Tasks, NEW i \in Manager!Issued(t), StartPut(t, i)
          PROVE  UploadInv'
      <3> DEFINE u == [node |-> Holder(t, i), task |-> t, made |-> i]
      <3>1. Holder(t, i) \in Nodes /\ i \in Nat /\ i \in DOMAIN tasks[t].history
        <4>1. tasks[t].history \in Seq(Manager!Lease) /\ i \in DOMAIN tasks[t].history
          BY <2>1, <2>9, PlacesArePositive DEF Manager!Issued
        <4>2. tasks[t].history[i] \in Manager!Lease /\ i \in Nat
          BY <4>1
        <4> QED
          BY <4>1, <4>2 DEF Holder, Manager!Lease
      <3>2. /\ tasks' = tasks /\ queue' = queue /\ files' = files /\ landed' = landed
            /\ uploads' = uploads \cup {u}
        BY <2>9 DEF StartPut, table
      <3>3. /\ u \in Upload /\ u.made \in DOMAIN tasks[u.task].history
            /\ Holder(u.task, u.made) = u.node
        BY <3>1 DEF Upload
      <3> HIDE DEF u
      <3>4. TableShape' /\ NoLeaseBefore'
        BY <2>1, <3>2 DEF TableShape, NoLeaseBefore
      <3>5. HoldersUploadStands'
        BY <3>2 DEF UploadInv, HoldersUploadStands, Holder
      <3>6. \A w \in uploads' : /\ w \in Upload
                                /\ w.made \in DOMAIN tasks'[w.task].history
                                /\ Holder(w.task, w.made)' = w.node
        BY <3>2, <3>3 DEF UploadInv, Holder
      <3> QED
        BY <3>2, <3>4, <3>5, <3>6 DEF UploadInv
    <2>10. ASSUME NEW u \in uploads, FinishPut(u) \/ DropPut(u) PROVE UploadInv'
      <3>1. CASE FinishPut(u) /\ Lands(u)
        BY <2>10, <3>1, LandingOfUpload
      <3>2. CASE DropPut(u) \/ (FinishPut(u) /\ ~Lands(u))
        BY <1>2, <3>2 DEF DropPut, FinishPut, table
      <3> QED
        BY <2>10, <3>1, <3>2
    <2>11. CASE Restart
      BY <1>2, <2>11 DEF Restart, table
    <2>12. ASSUME NEW u \in uploads, RestartWriting(u) PROVE UploadInv'
      BY <2>12, TornUpload
    <2> QED
      BY <2>3, <2>4, <2>5, <2>6, <2>7, <2>8, <2>9, <2>10, <2>11, <2>12 DEF Next
  <1>4. ASSUME UploadInv, UNCHANGED vars PROVE UploadInv'
    BY <1>2, <1>4 DEF vars
  <1> QED
    BY <1>1, <1>3, <1>4

\* With node identities enforced, what the holder of a task has uploaded is overwritten by
\* its own node alone, so no other node's late body makes a good attempt fail its
\* validation (modea.py, put_artifact), for any number of uploads in flight.
THEOREM HoldersOutputIsSafe == Enforcing /\ Spec => []HoldersUploadStands
  <1>1. UploadInv => HoldersUploadStands
    BY DEF UploadInv
  <1>2. Enforcing => (Init => UploadInv) /\ (UploadInv /\ [Next]_vars => UploadInv')
    BY UploadInvInductive
  <1> SUFFICES ASSUME Enforcing PROVE Spec => []HoldersUploadStands
    OBVIOUS
  <1>3. (Init => UploadInv) /\ (UploadInv /\ [Next]_vars => UploadInv')
    BY <1>2
  <1> QED
    BY <1>1, <1>3, PTL DEF Spec
-----------------------------------------------------------------------------
(***************************************************************************)
(* The routes and the manager's protocol                                   *)
(***************************************************************************)

\* A claim asks for some of the jobs, on behalf of a profile of the registry.
LEMMA ClaimIsCall ==
    ASSUME RegistryShape, NEW n \in Nodes, NEW scope \in SUBSET Jobs, Claim(n, scope)
    PROVE  Manager!Call
  <1>1. Eligible[nodes[n].profile] \in SUBSET Tasks
    BY ProfileAssumption DEF RegistryShape, NodeEntry, Claim
  <1> QED
    BY <1>1 DEF Claim, Manager!Call

\* The routes call the manager by its protocol: whatever is uploaded, repeated or late,
\* whichever nodes register or change their pools, and wherever the process is
\* restarted, the table is moved only by calls of the manager.  What is proved of the
\* protocol, a single holder, the retry budget and the contract of a task, is so of the
\* coordinator (modea.py and app.py, the routes).
THEOREM RoutesKeepProtocol == Spec => Manager!Protocol
  <1>1. Init => Manager!Init
    BY DEF Init
  <1>2. ASSUME RegistryShape, [Next]_vars
        PROVE  [Manager!Call]_(Manager!vars)
    <2>1. CASE UNCHANGED table
      BY <2>1 DEF table, Manager!vars
    <2>2. ASSUME NEW t \in Tasks, AddTask(t) \/ CancelTask(t)
          PROVE  Manager!Call
      BY <2>2 DEF AddTask, CancelTask, Manager!Call
    <2>3. ASSUME NEW n \in Nodes, \/ \E j \in Jobs : Claim(n, {j})
                                 \/ Claim(n, Jobs)
          PROVE  Manager!Call
      BY <1>2, <2>3, ClaimIsCall
    <2>4. ASSUME NEW t \in Tasks, NEW i \in Manager!Issued(t),
                 AttemptHeartbeat(t, i) \/ AttemptComplete(t, i) \/ AttemptFail(t, i)
          PROVE  Manager!Call
      BY <2>4 DEF AttemptHeartbeat, AttemptComplete, AttemptFail, Manager!Call
    <2>5. CASE Sweep \/ Tick
      BY <2>5 DEF Sweep, Tick, Manager!Call
    <2>6. \/ UNCHANGED table
          \/ \E t \in Tasks : AddTask(t) \/ CancelTask(t)
          \/ \E n \in Nodes : (\E j \in Jobs : Claim(n, {j})) \/ Claim(n, Jobs)
          \/ \E t \in Tasks : \E i \in Manager!Issued(t) :
                AttemptHeartbeat(t, i) \/ AttemptComplete(t, i) \/ AttemptFail(t, i)
          \/ Sweep \/ Tick
      BY <1>2 DEF Next, vars, table, RegisterNode, NodeHeartbeat, StartPut, FinishPut,
                  DropPut, RestartWriting, Restart
    <2> QED
      BY <2>1, <2>2, <2>3, <2>4, <2>5, <2>6
  <1>3. CreditInv => RegistryShape
    BY DEF CreditInv
  <1> QED
    BY <1>1, <1>2, <1>3, CreditInvInductive, PTL DEF Spec, Manager!Protocol
=============================================================================
