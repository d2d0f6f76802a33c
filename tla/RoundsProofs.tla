----------------------------- MODULE RoundsProofs -----------------------------
(***************************************************************************)
(* Proofs about Rounds, for any shards, quorum, rounds, attempts, clock    *)
(* and retries, and for the federated and the k-means driver, and, at the  *)
(* end, about Decisions, among them the mean of such a round.              *)
(*                                                                         *)
(* Two arguments about Rounds. What enters the weights: of a frozen key    *)
(* the task is done, a done task never moves again, and what lies at its   *)
(* key is the upload of its last attempt (GoodTask); the job was given the *)
(* weights the driver still has (DriverInv). What is kept: among the jobs  *)
(* a caller can find again, newer weights hold the older ones (PairsInv),  *)
(* so the newest of all is a safe place to start. A caller that asks only  *)
(* about the last run's pairs is safe for another reason: whatever that    *)
(* run published is newer than anything published before it. Two published *)
(* pairs of one round hold the same weights: a round is only submitted     *)
(* again if nothing of it was found.                                       *)
(*                                                                         *)
(* About Decisions: a behaviour keeps one question with its answer         *)
(* (Answered), so each theorem rests on a lemma about the operator that    *)
(* answers. Sums are tables over subsets (IsSum), and the k-th of a list   *)
(* is found by counting (Ordered), so that least counterexamples serve in  *)
(* place of induction. Of the planner: whatever is feasible under a        *)
(* request has a counterpart, as fast, as cheap and no larger, under a     *)
(* laxer one (Eases, AsGood), and the plan has the least of the keys.      *)
(***************************************************************************)
EXTENDS Rounds, Decisions, FiniteSetTheorems, WellFoundedInduction, TLAPS

States == {"waiting", "held", "done", "lost", "cancelled"}
Task == [state : States, attempt : 0 .. MaxAttempts, file : 0 .. MaxAttempts]

\* What weights are a history of.
OneRound == [job : Nat, from : SUBSET (Shards \X Nat)]
Weights == Seq(OneRound)

JobRecord == [round : 0 .. Rounds - 1, base : Weights, tasks : [Shards -> Task], weights : Weights]

Driver == [at : Running \cup {"done", "failed"}, kind : {"fedavg", "kmeans"}, nested : BOOLEAN,
           round : 0 .. Rounds, weights : Weights, uri : Nat, job : Nat,
           keys : SUBSET Shards, tries : Nat, waited : Nat]

Pairs == [round : 0 .. Rounds - 1, job : Nat]

Caller == [pairs : SUBSET Pairs, latest : SUBSET Pairs,
           told : SUBSET ((0 .. Rounds - 1) \X OneRound)]

\* What lies at the key of a task is the upload of its last attempt, and one
\* that may be claimed has an attempt left.
GoodTask(t) == t.file = t.attempt /\ (t.state = "waiting" => t.attempt < MaxAttempts)

\* A job's weights, if there, hold a round more than there were before it.
GoodJob(j) ==
    /\ \A s \in Shards : GoodTask(j.tasks[s])
    /\ j.weights = <<>> \/ Len(j.weights) = j.round + 1

ShapeInv ==
    /\ jobs \in Seq(JobRecord) /\ driver \in Driver /\ caller \in Caller
    /\ \A j \in DOMAIN jobs : GoodJob(jobs[j])
    /\ {driver.job, driver.uri} \subseteq {0} \cup DOMAIN jobs
    /\ caller.latest \subseteq caller.pairs
    /\ \A p \in caller.pairs : p.job \in DOMAIN jobs /\ jobs[p.job].round = p.round
    /\ ~Federated => /\ caller.pairs = {} /\ caller.told = {}
                     /\ driver.at \notin {"listing", "crossing", "publish", "report"}

\* The driver's weights are those of the rounds behind it, and so are those its
\* workers start from; what it froze is accepted work.
DriverInv ==
    driver.at \in Running =>
        /\ driver.round < Rounds
        /\ Len(driver.weights)
              = driver.round + (IF driver.at \in {"publish", "report"} THEN 1 ELSE 0)
        /\ driver.at # "publish" => Base = driver.weights
        /\ driver.at # "submit" => /\ driver.job \in DOMAIN jobs
                                   /\ jobs[driver.job].round = driver.round
        /\ driver.at \in Polling \cup {"fetch"} => jobs[driver.job].base = driver.weights
        /\ driver.at = "fetch" =>
              /\ Federated => Cardinality(driver.keys) >= MinParticipants
              /\ \A s \in IF Federated THEN driver.keys ELSE Shards :
                    jobs[driver.job].tasks[s].state = "done"
        /\ driver.at = "report" => driver.uri = driver.job

Within(v, w) == Len(v) <= Len(w) /\ \A i \in 1 .. Len(v) : v[i] = w[i]

\* Of the weights the caller could find again, the newer hold the older, and the
\* driver's hold them all; those of the present run are newer than those before.
PairsInv ==
    /\ \A p, q \in Published(caller.pairs) :
          p.round <= q.round => Within(jobs[p.job].weights, jobs[q.job].weights)
    /\ \A p \in Published(caller.pairs) \ caller.latest, q \in caller.latest : p.round < q.round
    /\ \A t \in caller.told : \E p \in Published(caller.pairs) :
          p.round = t[1] /\ jobs[p.job].weights[t[1] + 1] = t[2]
    /\ driver.at \in Running =>
          /\ \A p \in Published(caller.pairs) : Within(jobs[p.job].weights, driver.weights)
          /\ \A p \in Published(caller.pairs) \ caller.latest : p.round < driver.round
          /\ \A p \in caller.pairs : p.job = driver.job => p \in caller.latest

RoundsInv == ShapeInv /\ DriverInv /\ PairsInv

-----------------------------------------------------------------------------
\* The smaller of two numbers is one of them, and no greater than either.
LEMMA MinOfTwo ==
    ASSUME NEW a \in Int, NEW b \in Int
    PROVE  Min({a, b}) \in Int /\ Min({a, b}) <= a /\ Min({a, b}) <= b /\ Min({a, b}) \in {a, b}
  <1>1. \E x \in {a, b} : \A y \in {a, b} : x <= y
    OBVIOUS
  <1> QED BY <1>1 DEF Min

\* The bounds are numbers.
LEMMA Numbers ==
    /\ Rounds \in Nat /\ Rounds > 0 /\ MaxAttempts \in Nat /\ MaxAttempts > 0
    /\ RoundTimeout \in Nat
  BY BoundsAssumption

\* A job just submitted: nothing was attempted, no weights are there.
LEMMA NewJobIsGood ==
    ASSUME NEW r \in 0 .. Rounds - 1, NEW b \in Weights
    PROVE  NewJob(r, b) \in JobRecord /\ GoodJob(NewJob(r, b))
  <1>1. NewTask \in Task /\ GoodTask(NewTask)
    BY Numbers DEF NewTask, Task, States, GoodTask
  <1>2. <<>> \in Weights
    BY DEF Weights
  <1> QED BY <1>1, <1>2 DEF NewJob, JobRecord, GoodJob, Unpublished

\* Forgetting the tasks keeps everything else.
LEMMA LeftKeeps ==
    ASSUME ShapeInv
    PROVE  /\ Left(jobs) \in Seq(JobRecord) /\ Len(Left(jobs)) = Len(jobs)
           /\ \A j \in DOMAIN jobs : /\ Left(jobs)[j].round = jobs[j].round
                                     /\ Left(jobs)[j].weights = jobs[j].weights
                                     /\ GoodJob(Left(jobs)[j])
  <1>1. jobs \in Seq(JobRecord) /\ DOMAIN jobs = 1 .. Len(jobs) /\ Len(jobs) \in Nat
    BY DEF ShapeInv
  <1>2. NewTask \in Task /\ GoodTask(NewTask)
    BY Numbers DEF NewTask, Task, States, GoodTask
  <1>3. \A j \in DOMAIN jobs : /\ Left(jobs)[j] \in JobRecord
                               /\ Left(jobs)[j].round = jobs[j].round
                               /\ Left(jobs)[j].weights = jobs[j].weights
                               /\ Left(jobs)[j].tasks = [s \in Shards |-> NewTask]
    <2> SUFFICES ASSUME NEW j \in DOMAIN jobs
                 PROVE  /\ Left(jobs)[j] \in JobRecord
                        /\ Left(jobs)[j].round = jobs[j].round
                        /\ Left(jobs)[j].weights = jobs[j].weights
                        /\ Left(jobs)[j].tasks = [s \in Shards |-> NewTask]
      OBVIOUS
    <2>1. jobs[j] \in JobRecord
      BY <1>1
    <2>2. Left(jobs)[j] = [jobs[j] EXCEPT !.tasks = [s \in Shards |-> NewTask]]
      BY DEF Left
    <2>3. [s \in Shards |-> NewTask] \in [Shards -> Task]
      BY <1>2
    <2> QED BY <2>1, <2>2, <2>3 DEF JobRecord
  <1>4. DOMAIN Left(jobs) = 1 .. Len(jobs)
    BY <1>1 DEF Left
  <1>5. Left(jobs) \in Seq(JobRecord) /\ Len(Left(jobs)) = Len(jobs)
    <2>1. Left(jobs) = [j \in 1 .. Len(jobs) |-> Left(jobs)[j]]
      BY <1>1 DEF Left
    <2> DEFINE l == Left(jobs)
    <2>2. l = [j \in 1 .. Len(jobs) |-> l[j]] /\ \A j \in 1 .. Len(jobs) : l[j] \in JobRecord
      BY <1>1, <1>3, <2>1
    <2> HIDE DEF l
    <2>3. l \in Seq(JobRecord) /\ Len(l) = Len(jobs)
      BY <1>1, <2>2
    <2> QED BY <2>3 DEF l
  <1>6. \A j \in DOMAIN jobs : GoodJob(Left(jobs)[j])
    <2>1. \A j \in DOMAIN jobs : GoodJob(jobs[j])
      BY DEF ShapeInv
    <2> QED BY <1>2, <1>3, <2>1 DEF GoodJob
  <1> QED BY <1>3, <1>5, <1>6

\* The workers of a job move its tasks, and never one that is done.
LEMMA WorkersMoveTasks ==
    ASSUME ShapeInv, NEW j \in DOMAIN jobs,
           CancelJob(j) \/ \E s \in Shards : Attempt(j, s) \/ Commit(j, s) \/ Lapse(j, s)
    PROVE  /\ jobs' \in Seq(JobRecord) /\ Len(jobs') = Len(jobs)
           /\ \A k \in DOMAIN jobs :
                 /\ jobs'[k].round = jobs[k].round
                 /\ jobs'[k].base = jobs[k].base
                 /\ jobs'[k].weights = jobs[k].weights
                 /\ \A s \in Shards : /\ GoodTask(jobs'[k].tasks[s])
                                      /\ jobs[k].tasks[s].state = "done" =>
                                            jobs'[k].tasks[s] = jobs[k].tasks[s]
           /\ UNCHANGED <<driver, caller>>
  <1>1. jobs \in Seq(JobRecord) /\ DOMAIN jobs = 1 .. Len(jobs) /\ Len(jobs) \in Nat
    BY DEF ShapeInv
  <1>2. \A k \in DOMAIN jobs : /\ jobs[k] \in JobRecord
                               /\ jobs[k].tasks \in [Shards -> Task]
                               /\ \A s \in Shards : jobs[k].tasks[s] \in Task
                                                    /\ GoodTask(jobs[k].tasks[s])
    <2>1. \A k \in DOMAIN jobs : jobs[k] \in JobRecord
      BY <1>1
    <2>2. \A k \in DOMAIN jobs : jobs[k].tasks \in [Shards -> Task]
      BY <2>1 DEF JobRecord
    <2>3. \A k \in DOMAIN jobs : \A s \in Shards : GoodTask(jobs[k].tasks[s])
      BY DEF ShapeInv, GoodJob
    <2> QED BY <2>1, <2>2, <2>3
  <1>3. ASSUME NEW new \in [Shards -> Task], jobs' = [jobs EXCEPT ![j].tasks = new],
               \A s \in Shards : GoodTask(new[s]) /\ (jobs[j].tasks[s].state = "done" =>
                                                         new[s] = jobs[j].tasks[s])
        PROVE  /\ jobs' \in Seq(JobRecord) /\ Len(jobs') = Len(jobs)
               /\ \A k \in DOMAIN jobs :
                     /\ jobs'[k].round = jobs[k].round
                     /\ jobs'[k].base = jobs[k].base
                     /\ jobs'[k].weights = jobs[k].weights
                     /\ \A s \in Shards : /\ GoodTask(jobs'[k].tasks[s])
                                          /\ jobs[k].tasks[s].state = "done" =>
                                                jobs'[k].tasks[s] = jobs[k].tasks[s]
    <2> DEFINE r == [jobs[j] EXCEPT !.tasks = new]
    <2>1. r \in JobRecord /\ r.round = jobs[j].round /\ r.base = jobs[j].base
          /\ r.weights = jobs[j].weights /\ r.tasks = new
      BY <1>2, <1>3 DEF JobRecord
    <2>2. jobs' = [jobs EXCEPT ![j] = r]
      BY <1>3
    <2> HIDE DEF r
    <2>3. jobs' \in Seq(JobRecord) /\ Len(jobs') = Len(jobs)
          /\ \A k \in DOMAIN jobs : jobs'[k] = IF k = j THEN r ELSE jobs[k]
      BY <1>1, <2>1, <2>2
    <2> QED BY <1>2, <1>3, <2>1, <2>3
  <1>4. ASSUME NEW s \in Shards, NEW task \in Task, SetTask(j, s, task), GoodTask(task),
               jobs[j].tasks[s].state # "done"
        PROVE  \E new \in [Shards -> Task] :
                  /\ jobs' = [jobs EXCEPT ![j].tasks = new]
                  /\ \A u \in Shards : GoodTask(new[u]) /\ (jobs[j].tasks[u].state = "done" =>
                                                               new[u] = jobs[j].tasks[u])
    <2> DEFINE new == [jobs[j].tasks EXCEPT ![s] = task]
    <2>1. jobs[j].tasks \in [Shards -> Task]
      BY <1>2
    <2>2. new \in [Shards -> Task] /\ \A u \in Shards : new[u] = IF u = s THEN task
                                                                 ELSE jobs[j].tasks[u]
      BY <1>4, <2>1
    <2>3. jobs' = [jobs EXCEPT ![j].tasks = new]
      BY <1>4 DEF SetTask
    <2> HIDE DEF new
    <2> QED BY <1>2, <1>4, <2>2, <2>3
  <1>5. ASSUME NEW s \in Shards, Attempt(j, s) \/ Commit(j, s) \/ Lapse(j, s)
        PROVE  /\ \E task \in Task : SetTask(j, s, task) /\ GoodTask(task)
               /\ jobs[j].tasks[s].state # "done"
               /\ UNCHANGED <<driver, caller>>
    <2> DEFINE t == jobs[j].tasks[s]
    <2>1. t \in Task /\ GoodTask(t)
      BY <1>2
    <2>2. CASE Attempt(j, s)
      <3> DEFINE new == [state |-> "held", attempt |-> t.attempt + 1, file |-> t.attempt + 1]
      <3>1. new \in Task /\ GoodTask(new)
        BY <2>1, <2>2, Numbers DEF Attempt, Task, States, GoodTask
      <3>2. SetTask(j, s, new) /\ t.state = "waiting"
        BY <2>2 DEF Attempt
      <3> QED BY <3>1, <3>2 DEF SetTask
    <2>3. CASE Commit(j, s)
      <3> DEFINE new == [t EXCEPT !.state = "done"]
      <3>1. new \in Task /\ GoodTask(new)
        BY <2>1, <2>3, Numbers DEF Commit, Task, States, GoodTask
      <3>2. SetTask(j, s, new) /\ t.state = "held"
        BY <2>3 DEF Commit
      <3> QED BY <3>1, <3>2 DEF SetTask
    <2>4. CASE Lapse(j, s)
      <3> DEFINE new == [t EXCEPT !.state = IF t.attempt < MaxAttempts THEN "waiting" ELSE "lost"]
      <3>1. new \in Task /\ GoodTask(new)
        BY <2>1, <2>4, Numbers DEF Lapse, Task, States, GoodTask
      <3>2. SetTask(j, s, new) /\ t.state = "held"
        BY <2>4 DEF Lapse
      <3> QED BY <3>1, <3>2 DEF SetTask
    <2> QED BY <1>5, <2>2, <2>3, <2>4
  <1>6. CASE CancelJob(j)
    <2> DEFINE t == jobs[j].tasks
               new == [s \in Shards |-> IF t[s].state \in {"waiting", "held"}
                                        THEN [t[s] EXCEPT !.state = "cancelled"] ELSE t[s]]
    <2>1. \A s \in Shards : [t[s] EXCEPT !.state = "cancelled"] \in Task
                            /\ GoodTask([t[s] EXCEPT !.state = "cancelled"])
      BY <1>2 DEF Task, States, GoodTask
    <2>2. new \in [Shards -> Task]
          /\ \A s \in Shards : GoodTask(new[s]) /\ (t[s].state = "done" => new[s] = t[s])
      BY <1>2, <2>1
    <2>3. jobs' = [jobs EXCEPT ![j].tasks = new] /\ UNCHANGED <<driver, caller>>
      BY <1>6 DEF CancelJob
    <2> HIDE DEF new
    <2> QED BY <1>3, <2>2, <2>3
  <1>7. CASE \E s \in Shards : Attempt(j, s) \/ Commit(j, s) \/ Lapse(j, s)
    <2>1. PICK s \in Shards : Attempt(j, s) \/ Commit(j, s) \/ Lapse(j, s)
      BY <1>7
    <2>2. PICK task \in Task : SetTask(j, s, task) /\ GoodTask(task)
      BY <1>5, <2>1
    <2>3. jobs[j].tasks[s].state # "done" /\ UNCHANGED <<driver, caller>>
      BY <1>5, <2>1
    <2> QED BY <1>3, <1>4, <2>2, <2>3
  <1> QED BY <1>6, <1>7

-----------------------------------------------------------------------------
\* What the workers of a job start from is a history of rounds.
LEMMA BaseIsWeights == ShapeInv => Base \in Weights
  <1> SUFFICES ASSUME ShapeInv PROVE Base \in Weights
    OBVIOUS
  <1>1. driver.weights \in Weights /\ <<>> \in Weights
    BY DEF ShapeInv, Driver, Weights
  <1>2. \A j \in DOMAIN jobs : jobs[j].weights \in Weights
    <2>1. \A j \in DOMAIN jobs : jobs[j] \in JobRecord
      BY DEF ShapeInv
    <2> QED BY <2>1 DEF JobRecord
  <1>3. driver.uri # 0 => driver.uri \in DOMAIN jobs
    BY DEF ShapeInv
  <1> QED BY <1>1, <1>2, <1>3 DEF Base, NoUri

\* What is downloaded are uploads of shards.
LEMMA FetchedIsFrom ==
    ASSUME ShapeInv, NEW j \in DOMAIN jobs, NEW keys \in SUBSET Shards
    PROVE  /\ Fetched(j, keys) \in SUBSET (Shards \X Nat)
           /\ {c[1] : c \in Fetched(j, keys)} = keys
           /\ \A c \in Fetched(j, keys) : c[1] \in keys /\ c[2] = jobs[j].tasks[c[1]].file
  <1>1. jobs[j].tasks \in [Shards -> Task]
    <2>1. jobs[j] \in JobRecord
      BY DEF ShapeInv
    <2> QED BY <2>1 DEF JobRecord
  <1>2. \A s \in Shards : jobs[j].tasks[s].file \in Nat
    BY <1>1, Numbers DEF Task
  <1>3. \A c \in Fetched(j, keys) : \E s \in keys : c = <<s, jobs[j].tasks[s].file>>
    BY DEF Fetched
  <1>4. \A s \in keys : <<s, jobs[j].tasks[s].file>> \in Fetched(j, keys)
    BY DEF Fetched
  <1>5. Fetched(j, keys) \in SUBSET (Shards \X Nat)
    BY <1>2, <1>3
  <1>6. \A c \in Fetched(j, keys) : c[1] \in keys /\ c[2] = jobs[j].tasks[c[1]].file
    BY <1>3
  <1>7. {c[1] : c \in Fetched(j, keys)} = keys
    <2>1. \A s \in keys : \E c \in Fetched(j, keys) : s = c[1]
      <3> SUFFICES ASSUME NEW s \in keys PROVE \E c \in Fetched(j, keys) : s = c[1]
        OBVIOUS
      <3>1. <<s, jobs[j].tasks[s].file>>[1] = s
        OBVIOUS
      <3> QED BY <1>4, <3>1
    <2> QED BY <1>6, <2>1
  <1> QED BY <1>5, <1>6, <1>7

\* A step of the driver alone.
LEMMA DriverMoves ==
    ASSUME ShapeInv, UNCHANGED <<jobs, caller>>, driver' \in Driver, driver'.kind = driver.kind,
           {driver'.job, driver'.uri} \subseteq {0, driver.job, driver.uri},
           ~Federated => driver'.at \notin {"listing", "crossing", "publish", "report"}
    PROVE  ShapeInv'
  BY DEF ShapeInv, Federated

\* A driver that starts afresh, or is gone.
LEMMA StartedIsDriver ==
    ASSUME ShapeInv, NEW r \in 0 .. Rounds, NEW w \in Weights, NEW uri \in Nat
    PROVE  /\ Started(driver.kind, driver.nested, r, w, uri) \in Driver
           /\ Dead \in Driver /\ Dead.kind = driver.kind /\ Dead.job = 0 /\ Dead.uri = 0
           /\ Dead.at = "failed"
  <1>1. driver.kind \in {"fedavg", "kmeans"} /\ driver.nested \in BOOLEAN
    BY DEF ShapeInv, Driver
  <1>2. <<>> \in Weights /\ 0 \in 0 .. Rounds
    BY Numbers DEF Weights
  <1> QED BY <1>1, <1>2 DEF Started, Dead, Driver, Running, NoUri

\* A driver that raised or died leaves the jobs and the caller as they are.
LEMMA DeadKeepsShape ==
    ASSUME ShapeInv, UNCHANGED <<jobs, caller>>, driver' = Dead
    PROVE  ShapeInv'
  <1>1. 0 \in 0 .. Rounds /\ <<>> \in Weights
    BY Numbers DEF Weights
  <1>2. Dead \in Driver /\ Dead.kind = driver.kind /\ Dead.job = 0 /\ Dead.uri = 0
        /\ Dead.at = "failed"
    BY <1>1, StartedIsDriver
  <1> QED BY <1>2, DriverMoves

\* One more job.
LEMMA JobAdded ==
    ASSUME ShapeInv, NEW js \in Seq(JobRecord), Len(js) = Len(jobs), driver.round < Rounds,
           \A j \in DOMAIN jobs : /\ js[j].round = jobs[j].round
                                  /\ js[j].weights = jobs[j].weights
                                  /\ GoodJob(js[j]),
           jobs' = Append(js, NewJob(driver.round, Base))
    PROVE  /\ jobs' \in Seq(JobRecord) /\ Len(jobs') = Len(jobs) + 1
           /\ \A j \in DOMAIN jobs' : GoodJob(jobs'[j])
           /\ \A j \in DOMAIN jobs : /\ j \in DOMAIN jobs'
                                     /\ jobs'[j].round = jobs[j].round
                                     /\ jobs'[j].weights = jobs[j].weights
           /\ jobs'[Len(jobs) + 1] = NewJob(driver.round, Base)
  <1>1. driver.round \in 0 .. Rounds - 1
    BY Numbers DEF ShapeInv, Driver
  <1>2. NewJob(driver.round, Base) \in JobRecord /\ GoodJob(NewJob(driver.round, Base))
    BY <1>1, BaseIsWeights, NewJobIsGood
  <1> DEFINE new == NewJob(driver.round, Base)
  <1>3. jobs' = Append(js, new) /\ new \in JobRecord /\ GoodJob(new)
    BY <1>2
  <1>4. jobs \in Seq(JobRecord)
    BY DEF ShapeInv
  <1> HIDE DEF new
  <1>5. /\ jobs' \in Seq(JobRecord) /\ Len(jobs') = Len(jobs) + 1
        /\ \A j \in 1 .. Len(jobs) : jobs'[j] = js[j]
        /\ jobs'[Len(jobs) + 1] = new
    BY <1>3
  <1>6. DOMAIN jobs = 1 .. Len(jobs) /\ DOMAIN jobs' = 1 .. Len(jobs) + 1 /\ Len(jobs) \in Nat
    BY <1>4, <1>5
  <1>7. \A j \in DOMAIN jobs' : j \in DOMAIN jobs \/ j = Len(jobs) + 1
    BY <1>6
  <1>8. \A j \in DOMAIN jobs' : GoodJob(jobs'[j])
    BY <1>3, <1>5, <1>6, <1>7
  <1> QED BY <1>5, <1>6, <1>8 DEF new

\* The weights of a job are there.
LEMMA JobPublished ==
    ASSUME ShapeInv, DriverInv, driver.at = "publish",
           jobs' = [jobs EXCEPT ![driver.job].weights = driver.weights]
    PROVE  /\ jobs' \in Seq(JobRecord) /\ Len(jobs') = Len(jobs) /\ DOMAIN jobs' = DOMAIN jobs
           /\ \A j \in DOMAIN jobs :
                 /\ jobs'[j].round = jobs[j].round
                 /\ jobs'[j].weights = IF j = driver.job THEN driver.weights ELSE jobs[j].weights
                 /\ GoodJob(jobs'[j])
  <1>1. driver.job \in DOMAIN jobs /\ jobs[driver.job].round = driver.round
        /\ Len(driver.weights) = driver.round + 1
    BY DEF DriverInv, Running
  <1>2. jobs \in Seq(JobRecord) /\ driver.weights \in Weights
    BY DEF ShapeInv, Driver
  <1> DEFINE r == [jobs[driver.job] EXCEPT !.weights = driver.weights]
  <1>3. jobs[driver.job] \in JobRecord
    BY <1>1, <1>2
  <1>4. /\ r \in JobRecord /\ r.round = driver.round /\ r.weights = driver.weights
        /\ r.tasks = jobs[driver.job].tasks
    BY <1>1, <1>2, <1>3 DEF JobRecord
  <1>5. GoodJob(r)
    <2>1. GoodJob(jobs[driver.job])
      BY <1>1 DEF ShapeInv
    <2> HIDE DEF r
    <2> QED BY <1>1, <1>4, <2>1 DEF GoodJob
  <1>6. jobs' = [jobs EXCEPT ![driver.job] = r]
    OBVIOUS
  <1> HIDE DEF r
  <1>7. /\ jobs' \in Seq(JobRecord) /\ Len(jobs') = Len(jobs) /\ DOMAIN jobs' = DOMAIN jobs
        /\ \A j \in DOMAIN jobs : jobs'[j] = IF j = driver.job THEN r ELSE jobs[j]
    BY <1>1, <1>2, <1>4, <1>6
  <1>8. \A j \in DOMAIN jobs : GoodJob(jobs[j])
    BY DEF ShapeInv
  <1> QED BY <1>1, <1>4, <1>5, <1>7, <1>8

-----------------------------------------------------------------------------
\* Every step keeps the types and what is true of every task.
LEMMA ShapeStep ==
    ASSUME ShapeInv, DriverInv, [Next]_vars
    PROVE  ShapeInv'
  <1>0. /\ driver \in Driver /\ caller \in Caller /\ jobs \in Seq(JobRecord)
        /\ DOMAIN jobs = 1 .. Len(jobs) /\ Len(jobs) \in Nat
    BY DEF ShapeInv
  <1>a. /\ driver.kind \in {"fedavg", "kmeans"} /\ driver.round \in 0 .. Rounds
        /\ driver.weights \in Weights /\ driver.job \in Nat /\ driver.uri \in Nat
        /\ driver.waited \in Nat /\ driver.tries \in Nat /\ driver.keys \in SUBSET Shards
    BY <1>0 DEF Driver
  <1>1. CASE Submit
    <2>1. driver.round < Rounds
      BY <1>1 DEF Submit, DriverInv, Running
    <2>2. /\ jobs' \in Seq(JobRecord) /\ Len(jobs') = Len(jobs) + 1
          /\ \A j \in DOMAIN jobs' : GoodJob(jobs'[j])
          /\ \A j \in DOMAIN jobs : j \in DOMAIN jobs' /\ jobs'[j].round = jobs[j].round
          /\ jobs'[Len(jobs) + 1] = NewJob(driver.round, Base)
      BY <1>1, <2>1, LeftKeeps, JobAdded DEF Submit
    <2>3. /\ driver' \in Driver /\ driver'.kind = driver.kind /\ driver'.job = Len(jobs) + 1
          /\ driver'.uri = driver.uri /\ driver'.at = FirstPoll
      <3>1. driver' = [driver EXCEPT !.at = FirstPoll, !.job = Len(jobs) + 1,
                                     !.tries = 0, !.waited = 0]
        BY <1>1 DEF Submit
      <3>2. FirstPoll \in Running /\ Len(jobs) + 1 \in Nat
        BY <1>0 DEF FirstPoll, Running, Polling
      <3> QED BY <1>0, <3>1, <3>2 DEF Driver
    <2>4. PICK noted \in (IF Federated THEN {{}, {Pair}} ELSE {{}}) :
              caller' = [caller EXCEPT !.pairs = @ \cup noted, !.latest = @ \cup noted]
      BY <1>1 DEF Submit
    <2>5. Pair \in Pairs /\ Pair.round = driver.round /\ Pair.job = Len(jobs) + 1
      BY <1>0, <1>a, <2>1, Numbers DEF Pair, Pairs
    <2>6. /\ caller' \in Caller /\ caller'.told = caller.told
          /\ caller'.pairs = caller.pairs \cup noted /\ caller'.latest = caller.latest \cup noted
      BY <1>0, <2>4, <2>5 DEF Caller
    <2>7. jobs'[Len(jobs) + 1].round = driver.round /\ Len(jobs) + 1 \in DOMAIN jobs'
      BY <1>0, <2>2 DEF NewJob
    <2>8. Federated' = Federated /\ (~Federated => noted = {} /\ driver'.at = "state")
      BY <2>3 DEF Federated, FirstPoll
    <2> QED BY <2>2, <2>3, <2>5, <2>6, <2>7, <2>8 DEF ShapeInv
  <1>2. CASE ListArtifacts
    <2>1. driver.at = "listing" /\ Present(driver.job) \in SUBSET Shards
      BY <1>2 DEF ListArtifacts, Present
    <2> QED BY <1>0, <1>2, <2>1, DriverMoves
            DEF ListArtifacts, Go, Driver, Running, Polling, ShapeInv
  <1>3. CASE ListTasks
    <2> DEFINE keys == CommittedOf(driver.job, driver.keys)
    <2>1. keys \in SUBSET Shards
      BY <1>a DEF CommittedOf
    <2>2. driver.at = "crossing" /\ Federated
      BY <1>3 DEF ListTasks, ShapeInv
    <2>3. /\ UNCHANGED <<jobs, caller>>
          /\ \/ driver' = [driver EXCEPT !.at = "fetch", !.keys = keys, !.tries = 0, !.waited = 0]
             \/ driver' = [driver EXCEPT !.at = "state", !.keys = {}, !.tries = 0]
      BY <1>3 DEF ListTasks, Go
    <2> HIDE DEF keys
    <2>4. driver' \in Driver /\ driver'.kind = driver.kind /\ driver'.job = driver.job
          /\ driver'.uri = driver.uri
      <3>1. {} \in SUBSET Shards
        OBVIOUS
      <3>2. CASE driver' = [driver EXCEPT !.at = "fetch", !.keys = keys, !.tries = 0, !.waited = 0]
        BY <1>0, <2>1, <3>2 DEF Driver, Running, Polling
      <3>3. CASE driver' = [driver EXCEPT !.at = "state", !.keys = {}, !.tries = 0]
        BY <1>0, <3>1, <3>3 DEF Driver, Running, Polling
      <3> QED BY <2>3, <3>2, <3>3
    <2> QED BY <2>2, <2>3, <2>4, DriverMoves
  <1>4. CASE ReadState
    <2> DEFINE waited == Min({driver.waited + 1, RoundTimeout + 1})
    <2>1. waited \in Nat
      <3>1. driver.waited + 1 \in Nat /\ RoundTimeout + 1 \in Nat
        BY <1>a, Numbers
      <3>2. waited \in {driver.waited + 1, RoundTimeout + 1}
        <4>1. driver.waited + 1 \in Int /\ RoundTimeout + 1 \in Int
          BY <3>1
        <4> QED BY <4>1, MinOfTwo, Zenon
      <3> QED BY <3>1, <3>2
    <2>2. /\ UNCHANGED <<jobs, caller>>
          /\ \/ /\ driver' = [driver EXCEPT !.at = "fetch", !.tries = 0, !.waited = 0]
             \/ driver' = Dead
             \/ driver' = [driver EXCEPT !.at = FirstPoll, !.tries = 0, !.waited = waited]
      BY <1>4 DEF ReadState, Go
    <2> HIDE DEF waited
    <2>3. CASE driver' = [driver EXCEPT !.at = "fetch", !.tries = 0, !.waited = 0]
      BY <1>0, <2>2, <2>3, DriverMoves DEF Driver, Running, Polling
    <2>4. CASE driver' = [driver EXCEPT !.at = FirstPoll, !.tries = 0, !.waited = waited]
      <3>1. FirstPoll \in Polling /\ (~Federated => FirstPoll = "state")
        BY DEF FirstPoll, Polling
      <3>2. driver' \in Driver /\ driver'.kind = driver.kind /\ driver'.job = driver.job
            /\ driver'.uri = driver.uri /\ driver'.at = FirstPoll
        BY <1>0, <2>1, <2>4, <3>1 DEF Driver, Running
      <3> QED BY <2>2, <3>1, <3>2, DriverMoves
    <2> QED BY <2>2, <2>3, <2>4, DeadKeepsShape
  <1>5. CASE ReadingFails
    <2>1. /\ UNCHANGED <<jobs, caller>>
          /\ \/ driver' = Dead
             \/ /\ Federated
                /\ driver' = [driver EXCEPT !.tries = @ + 1, !.keys = {},
                                            !.at = IF @ = "state" THEN "state" ELSE "listing"]
      BY <1>5 DEF ReadingFails
    <2>2. ASSUME Federated,
                 driver' = [driver EXCEPT !.tries = @ + 1, !.keys = {},
                                          !.at = IF @ = "state" THEN "state" ELSE "listing"]
          PROVE  ShapeInv'
      <3> DEFINE to == IF driver.at = "state" THEN "state" ELSE "listing"
      <3>2. to \in Running /\ driver.tries + 1 \in Nat
        BY <1>a DEF Running, Polling
      <3>3. driver' = [driver EXCEPT !.tries = driver.tries + 1, !.keys = {}, !.at = to]
        BY <2>2
      <3> HIDE DEF to
      <3>1. driver' \in Driver /\ driver'.kind = driver.kind /\ driver'.job = driver.job
            /\ driver'.uri = driver.uri
        BY <1>0, <3>2, <3>3 DEF Driver
      <3> QED BY <2>1, <2>2, <3>1, DriverMoves
    <2> QED BY <2>1, <2>2, DeadKeepsShape
  <1>6. CASE Fetch
    <2> DEFINE new == Round(driver.job, Fetched(driver.job, driver.keys))
    <2>1. driver.job \in DOMAIN jobs /\ Federated
      BY <1>6 DEF Fetch, DriverInv, Running
    <2>2. new \in OneRound
      <3>1. Fetched(driver.job, driver.keys) \in SUBSET (Shards \X Nat)
        BY <1>a, <2>1, FetchedIsFrom
      <3> QED BY <1>a, <3>1 DEF Round, OneRound
    <2>3. UNCHANGED <<jobs, caller>>
          /\ driver' = [driver EXCEPT !.at = "publish", !.keys = {}, !.weights = Append(@, new)]
      BY <1>6 DEF Fetch, Go
    <2> HIDE DEF new
    <2>4. Append(driver.weights, new) \in Weights
      BY <1>a, <2>2 DEF Weights
    <2> QED BY <1>0, <2>1, <2>3, <2>4, DriverMoves DEF Driver, Running, Polling
  <1>7. CASE Reduce
    <2>1. CASE driver' = Dead /\ UNCHANGED <<jobs, caller>>
      BY <2>1, DeadKeepsShape
    <2> DEFINE new == Round(driver.job, Fetched(driver.job, Shards))
    <2>2. CASE /\ UNCHANGED <<jobs, caller>>
               /\ driver' = [driver EXCEPT !.weights = Append(@, new), !.round = @ + 1,
                               !.at = IF driver.round + 1 = Rounds THEN "done" ELSE "submit"]
      <3>1. driver.job \in DOMAIN jobs /\ driver.round < Rounds
        BY <1>7 DEF Reduce, DriverInv, Running
      <3>2. new \in OneRound
        <4>1. Fetched(driver.job, Shards) \in SUBSET (Shards \X Nat)
          BY <3>1, FetchedIsFrom
        <4> QED BY <1>a, <4>1 DEF Round, OneRound
      <3> HIDE DEF new
      <3>3. Append(driver.weights, new) \in Weights /\ driver.round + 1 \in 0 .. Rounds
        BY <1>a, <3>1, <3>2, Numbers DEF Weights
      <3>4. driver' \in Driver /\ driver'.kind = driver.kind /\ driver'.job = driver.job
            /\ driver'.uri = driver.uri /\ driver'.at \in {"done", "submit"}
        BY <1>0, <2>2, <3>3 DEF Driver, Running, Polling
      <3> QED BY <2>2, <3>4, DriverMoves
    <2> QED BY <1>7, <2>1, <2>2 DEF Reduce, Go
  <1>8. CASE Publish
    <2>1. /\ jobs' \in Seq(JobRecord) /\ DOMAIN jobs' = DOMAIN jobs
          /\ \A j \in DOMAIN jobs : jobs'[j].round = jobs[j].round /\ GoodJob(jobs'[j])
      BY <1>8, JobPublished DEF Publish
    <2>2. driver' \in Driver /\ driver'.kind = driver.kind /\ driver'.job = driver.job
          /\ driver'.uri = driver.job /\ driver'.at = "report" /\ caller' = caller
          /\ driver.at = "publish"
      BY <1>0, <1>8 DEF Publish, Driver, Running, Polling
    <2> QED BY <2>1, <2>2 DEF ShapeInv, Federated
  <1>9. CASE Report
    <2> DEFINE pair == [round |-> driver.round, job |-> driver.job]
               t == <<driver.round, driver.weights[driver.round + 1]>>
    <2>1. /\ driver.round < Rounds /\ Len(driver.weights) = driver.round + 1
          /\ driver.job \in DOMAIN jobs /\ jobs[driver.job].round = driver.round /\ Federated
      BY <1>9 DEF Report, DriverInv, Running, ShapeInv
    <2>2. pair \in Pairs
      BY <1>a, <2>1, Numbers DEF Pairs
    <2>3. t \in (0 .. Rounds - 1) \X OneRound
      <3>1. driver.round \in 0 .. Rounds - 1
        BY <1>a, <2>1, Numbers
      <3>2. driver.weights[driver.round + 1] \in OneRound
        <4>1. driver.round + 1 \in 1 .. Len(driver.weights)
          BY <1>a, <2>1, Numbers
        <4> QED BY <1>a, <4>1 DEF Weights
      <3> QED BY <3>1, <3>2
    <2>4. caller' = [pairs |-> caller.pairs \cup {pair}, latest |-> caller.latest \cup {pair},
                     told |-> caller.told \cup {t}] /\ jobs' = jobs
      BY <1>9 DEF Report
    <2>5. caller' \in Caller
      <3> HIDE DEF t, pair
      <3> QED BY <1>0, <2>2, <2>3, <2>4 DEF Caller
    <2>6. driver' \in Driver /\ driver'.kind = driver.kind /\ driver'.job = driver.job
          /\ driver'.uri = driver.uri
      <3> DEFINE to == IF driver.round + 1 = Rounds THEN "done" ELSE "submit"
      <3>1. driver' = [driver EXCEPT !.round = driver.round + 1, !.at = to]
        BY <1>9 DEF Report
      <3>2. to \in Running \cup {"done"} /\ driver.round + 1 \in 0 .. Rounds
        BY <1>a, <2>1, Numbers DEF Running
      <3> HIDE DEF to
      <3> QED BY <1>0, <3>1, <3>2 DEF Driver
    <2> QED BY <2>1, <2>4, <2>5, <2>6 DEF ShapeInv, Federated
  <1>10. CASE Stops
    <2>1. UNCHANGED caller /\ driver' = Dead
      BY <1>10 DEF Stops
    <2>2. /\ Dead \in Driver /\ Dead.kind = driver.kind /\ Dead.job = 0 /\ Dead.uri = 0
          /\ Dead.at = "failed"
      <3>1. 0 \in 0 .. Rounds /\ <<>> \in Weights
        BY Numbers DEF Weights
      <3> QED BY <3>1, StartedIsDriver
    <2>3. CASE UNCHANGED jobs
      BY <2>1, <2>3, DeadKeepsShape
    <2>4. CASE driver.at = "submit" /\ jobs' = Append(jobs, NewJob(driver.round, Base))
      <3>1. driver.round < Rounds
        BY <2>4 DEF DriverInv, Running
      <3>2. \A j \in DOMAIN jobs : GoodJob(jobs[j])
        BY DEF ShapeInv
      <3>3. /\ jobs' \in Seq(JobRecord) /\ \A j \in DOMAIN jobs' : GoodJob(jobs'[j])
            /\ \A j \in DOMAIN jobs : j \in DOMAIN jobs' /\ jobs'[j].round = jobs[j].round
        BY <1>0, <2>4, <3>1, <3>2, JobAdded
      <3> QED BY <2>1, <2>2, <3>3 DEF ShapeInv, Federated
    <2>5. CASE driver.at = "publish" /\ jobs' = [jobs EXCEPT ![driver.job].weights = driver.weights]
      <3>1. /\ jobs' \in Seq(JobRecord) /\ DOMAIN jobs' = DOMAIN jobs
            /\ \A j \in DOMAIN jobs : jobs'[j].round = jobs[j].round /\ GoodJob(jobs'[j])
        BY <2>5, JobPublished
      <3> QED BY <2>1, <2>2, <3>1 DEF ShapeInv, Federated
    <2> QED BY <1>10, <2>3, <2>4, <2>5 DEF Stops
  <1>11. CASE Restart
    <2>1. PICK kept \in {caller.pairs} \cup ({caller.latest} \ {{}}) :
              /\ ~ResumeRefused(kept)
              /\ \/ /\ ResumePoints(kept) = {}
                    /\ driver' = Started(driver.kind, driver.nested, 0, <<>>, NoUri)
                 \/ \E p \in ResumePoints(kept) :
                        driver' = Started(driver.kind, driver.nested,
                                          p.round + 1, jobs[p.job].weights, p.job)
      BY <1>11 DEF Restart
    <2>2. kept \subseteq caller.pairs
      BY DEF ShapeInv
    <2>3. /\ driver' \in Driver /\ driver'.kind = driver.kind /\ driver'.job = 0
          /\ driver'.at = "submit"
          /\ driver'.uri = 0 \/ (driver'.uri \in DOMAIN jobs /\ Federated)
      <3>1. CASE driver' = Started(driver.kind, driver.nested, 0, <<>>, NoUri)
        <4>1. 0 \in 0 .. Rounds /\ <<>> \in Weights
          BY Numbers DEF Weights
        <4> QED BY <3>1, <4>1, StartedIsDriver DEF Started, NoUri
      <3>2. ASSUME NEW p \in ResumePoints(kept),
                   driver' = Started(driver.kind, driver.nested,
                                     p.round + 1, jobs[p.job].weights, p.job)
            PROVE  /\ driver' \in Driver /\ driver'.kind = driver.kind /\ driver'.job = 0
                   /\ driver'.at = "submit"
                   /\ driver'.uri \in DOMAIN jobs /\ Federated
        <4>1. p \in caller.pairs
          BY <2>2 DEF ResumePoints, Published
        <4>2. p \in Pairs /\ p.job \in DOMAIN jobs /\ Federated
          BY <1>0, <4>1 DEF Caller, ShapeInv
        <4>3. p.round + 1 \in 0 .. Rounds /\ p.job \in Nat
          BY <4>2, Numbers DEF Pairs
        <4>4. jobs[p.job].weights \in Weights
          <5>1. jobs[p.job] \in JobRecord
            BY <1>0, <4>2
          <5> QED BY <5>1 DEF JobRecord
        <4>5. driver' \in Driver
          BY <3>2, <4>3, <4>4, StartedIsDriver
        <4> QED BY <3>2, <4>2, <4>5 DEF Started
      <3> QED BY <2>1, <3>1, <3>2
    <2>4. caller' = [caller EXCEPT !.latest = {}]
          /\ jobs' = IF Federated THEN Left(jobs) ELSE <<>>
      BY <1>11 DEF Restart
    <2>5. /\ caller' \in Caller /\ caller'.pairs = caller.pairs /\ caller'.latest = {}
          /\ caller'.told = caller.told
      BY <1>0, <2>4 DEF Caller
    <2>6. CASE Federated
      <3>1. /\ jobs' \in Seq(JobRecord) /\ DOMAIN jobs' = DOMAIN jobs
            /\ \A j \in DOMAIN jobs : jobs'[j].round = jobs[j].round /\ GoodJob(jobs'[j])
        BY <1>0, <2>4, <2>6, LeftKeeps
      <3> QED BY <2>3, <2>5, <2>6, <3>1 DEF ShapeInv, Federated
    <2>7. CASE ~Federated
      <3>1. jobs' \in Seq(JobRecord) /\ DOMAIN jobs' = {}
        BY <2>4, <2>7
      <3> QED BY <2>3, <2>5, <2>7, <3>1 DEF ShapeInv, Federated
    <2> QED BY <2>6, <2>7
  <1>12. ASSUME NEW j \in DOMAIN jobs,
                CancelJob(j) \/ \E s \in Shards : Attempt(j, s) \/ Commit(j, s) \/ Lapse(j, s)
         PROVE  ShapeInv'
    <2>1. /\ jobs' \in Seq(JobRecord) /\ Len(jobs') = Len(jobs)
          /\ \A k \in DOMAIN jobs : /\ jobs'[k].round = jobs[k].round
                                    /\ jobs'[k].weights = jobs[k].weights
                                    /\ \A s \in Shards : GoodTask(jobs'[k].tasks[s])
          /\ UNCHANGED <<driver, caller>>
      BY <1>12, WorkersMoveTasks
    <2>2. DOMAIN jobs' = DOMAIN jobs
      BY <1>0, <2>1
    <2>3. \A k \in DOMAIN jobs' : GoodJob(jobs'[k])
      BY <2>1, <2>2 DEF ShapeInv, GoodJob
    <2> QED BY <2>1, <2>2, <2>3 DEF ShapeInv, Federated
  <1>13. CASE UNCHANGED vars
    BY <1>13 DEF vars, ShapeInv, Federated
  <1> QED BY <1>1, <1>2, <1>3, <1>4, <1>5, <1>6, <1>7, <1>8, <1>9, <1>10, <1>11, <1>12, <1>13
          DEF Next, DriverStep

-----------------------------------------------------------------------------
\* A job whose shards are all done, and one that is not.
LEMMA SucceededIsDone ==
    ASSUME NEW j, JobState(j) = "SUCCEEDED"
    PROVE  \A s \in Shards : jobs[j].tasks[s].state = "done"
  BY DEF JobState

\* Base, of a driver and jobs that keep what it reads.
LEMMA BaseKept ==
    ASSUME ShapeInv, driver'.kind = driver.kind, driver'.uri = driver.uri,
           driver'.weights = driver.weights,
           \A j \in DOMAIN jobs : jobs'[j].weights = jobs[j].weights
    PROVE  Base' = Base
  <1>1. driver.uri # 0 => driver.uri \in DOMAIN jobs
    BY DEF ShapeInv
  <1> QED BY <1>1 DEF Base, Federated, NoUri

\* Every step keeps what ties the driver's locals to its job.  Workers go on while
\* it reads, but a task that is done stays as it is.
LEMMA DriverInvStep ==
    ASSUME ShapeInv, DriverInv, [Next]_vars
    PROVE  DriverInv'
  <1>0. /\ driver \in Driver /\ jobs \in Seq(JobRecord)
        /\ DOMAIN jobs = 1 .. Len(jobs) /\ Len(jobs) \in Nat
    BY DEF ShapeInv
  <1>a. /\ driver.round \in Nat /\ Rounds \in Nat /\ driver.weights \in Weights
        /\ driver.kind \in {"fedavg", "kmeans"}
    BY <1>0, Numbers DEF Driver
  <1>b. driver.at \in Running \ {"submit"} =>
            driver.job \in DOMAIN jobs /\ jobs[driver.job].round = driver.round
    BY DEF DriverInv
  <1>1. CASE Submit
    <2>1. driver.at = "submit" /\ driver.round < Rounds /\ Len(driver.weights) = driver.round
          /\ Base = driver.weights
      BY <1>1, <1>a DEF Submit, DriverInv, Running
    <2>2. /\ \A j \in DOMAIN jobs : jobs'[j].weights = jobs[j].weights
          /\ jobs'[Len(jobs) + 1] = NewJob(driver.round, Base)
          /\ jobs' \in Seq(JobRecord) /\ Len(jobs') = Len(jobs) + 1
      BY <1>1, <2>1, LeftKeeps, JobAdded DEF Submit
    <2>3. /\ driver'.kind = driver.kind /\ driver'.job = Len(jobs) + 1
          /\ driver'.uri = driver.uri /\ driver'.at = FirstPoll /\ driver'.weights = driver.weights
          /\ driver'.round = driver.round
      BY <1>0, <1>1 DEF Submit, Driver
    <2>4. Base' = driver'.weights
      BY <2>1, <2>2, <2>3, BaseKept
    <2>5. FirstPoll \in Polling
      BY DEF FirstPoll, Polling
    <2>6. /\ jobs'[driver'.job].base = driver'.weights
          /\ jobs'[driver'.job].round = driver'.round
          /\ driver'.job \in DOMAIN jobs'
      BY <1>0, <2>1, <2>2, <2>3 DEF NewJob
    <2>7. driver'.at \notin {"publish", "report", "submit", "fetch"}
      BY <2>3, <2>5 DEF Polling
    <2> QED BY <1>a, <2>1, <2>3, <2>4, <2>6, <2>7 DEF DriverInv
  <1>2. CASE ListArtifacts
    <2>1. /\ driver.at = "listing" /\ driver'.at = "crossing" /\ driver'.kind = driver.kind
          /\ driver'.uri = driver.uri /\ driver'.weights = driver.weights
          /\ driver'.round = driver.round /\ driver'.job = driver.job /\ jobs' = jobs
      BY <1>0, <1>2 DEF ListArtifacts, Go, Driver
    <2>2. Base' = Base
      BY <2>1, BaseKept
    <2> QED BY <2>1, <2>2 DEF DriverInv, Running, Polling
  <1>3. CASE ListTasks
    <2> DEFINE keys == CommittedOf(driver.job, driver.keys)
    <2>1. /\ driver.at = "crossing" /\ driver'.kind = driver.kind
          /\ driver'.uri = driver.uri /\ driver'.weights = driver.weights
          /\ driver'.round = driver.round /\ driver'.job = driver.job /\ jobs' = jobs
          /\ \/ driver'.at = "state"
             \/ /\ driver'.at = "fetch" /\ driver'.keys = keys
                /\ Cardinality(keys) >= MinParticipants
      BY <1>0, <1>3 DEF ListTasks, Go, Driver
    <2>2. Base' = Base
      BY <2>1, BaseKept
    <2>3. \A s \in keys : jobs[driver.job].tasks[s].state = "done"
      BY DEF CommittedOf
    <2>4. Federated /\ Federated'
      BY <2>1 DEF ShapeInv, Federated
    <2> HIDE DEF keys
    <2> QED BY <2>1, <2>2, <2>3, <2>4 DEF DriverInv, Running, Polling
  <1>4. CASE ReadState
    <2>1. /\ driver.at = "state" /\ jobs' = jobs
          /\ \/ driver' = Dead
             \/ /\ driver'.kind = driver.kind
                /\ driver'.uri = driver.uri /\ driver'.weights = driver.weights
                /\ driver'.round = driver.round /\ driver'.job = driver.job
                /\ \/ driver'.at = FirstPoll
                   \/ /\ driver'.at = "fetch" /\ ~Federated
                      /\ JobState(driver.job) = "SUCCEEDED"
      BY <1>0, <1>4 DEF ReadState, Go, Driver
    <2>2. CASE driver' = Dead
      BY <2>2 DEF Dead, Started, DriverInv, Running, Polling
    <2>3. CASE driver'.at = FirstPoll /\ driver' # Dead
      <3>1. Base' = Base /\ FirstPoll \in Polling
        BY <2>1, <2>3, BaseKept DEF FirstPoll, Polling
      <3> QED BY <2>1, <2>3, <3>1 DEF DriverInv, Running, Polling
    <2>4. CASE driver' # Dead /\ driver'.at = "fetch"
      <3>1. Base' = Base
        BY <2>1, <2>4, BaseKept
      <3>2. ~Federated' /\ \A s \in Shards : jobs[driver.job].tasks[s].state = "done"
        BY <2>1, <2>4, SucceededIsDone DEF Federated, FirstPoll
      <3> QED BY <2>1, <2>4, <3>1, <3>2 DEF DriverInv, Running, Polling
    <2> QED BY <2>1, <2>2, <2>3, <2>4
  <1>5. CASE ReadingFails
    <2>1. CASE driver' = Dead
      BY <2>1 DEF Dead, Started, DriverInv, Running, Polling
    <2>2. CASE driver' # Dead
      <3>1. /\ driver.at \in Polling /\ driver'.kind = driver.kind
            /\ driver'.uri = driver.uri /\ driver'.weights = driver.weights
            /\ driver'.round = driver.round /\ driver'.job = driver.job /\ jobs' = jobs
            /\ driver'.at \in {"state", "listing"}
        BY <1>0, <1>5, <2>2 DEF ReadingFails, Driver
      <3>2. Base' = Base
        BY <3>1, BaseKept
      <3> QED BY <3>1, <3>2 DEF DriverInv, Running, Polling
    <2> QED BY <2>1, <2>2
  <1>6. CASE Fetch
    <2> DEFINE new == Round(driver.job, Fetched(driver.job, driver.keys))
    <2>1. /\ driver.at = "fetch" /\ driver'.kind = driver.kind
          /\ driver'.round = driver.round /\ driver'.job = driver.job /\ jobs' = jobs
          /\ driver'.at = "publish" /\ driver'.weights = Append(driver.weights, new)
      BY <1>0, <1>6 DEF Fetch, Go, Driver
    <2> HIDE DEF new
    <2>2. Len(Append(driver.weights, new)) = Len(driver.weights) + 1
      BY <1>a DEF Weights
    <2>3. Len(driver.weights) = driver.round /\ driver.round < Rounds
      BY <1>a, <2>1 DEF DriverInv, Running
    <2> QED BY <1>a, <1>b, <2>1, <2>2, <2>3 DEF DriverInv, Running, Polling
  <1>7. CASE Reduce
    <2> DEFINE new == Round(driver.job, Fetched(driver.job, Shards))
    <2>1. /\ driver.at = "fetch" /\ ~Federated
          /\ \/ driver' = Dead
             \/ /\ driver'.kind = driver.kind /\ driver'.round = driver.round + 1
                /\ driver'.at = (IF driver.round + 1 = Rounds THEN "done" ELSE "submit")
                /\ driver'.weights = Append(driver.weights, new)
      BY <1>0, <1>7 DEF Reduce, Go, Driver
    <2> HIDE DEF new
    <2>2. CASE driver' = Dead
      BY <2>2 DEF Dead, Started, DriverInv, Running, Polling
    <2>3. CASE driver' # Dead
      <3>1. Len(Append(driver.weights, new)) = Len(driver.weights) + 1
        BY <1>a DEF Weights
      <3>2. Len(driver.weights) = driver.round /\ driver.round < Rounds
        BY <1>a, <2>1 DEF DriverInv, Running
      <3>3. Base' = driver'.weights /\ ~Federated'
        BY <2>1, <2>3 DEF Base, Federated
      <3>4. driver'.at = "submit" => driver'.round < Rounds
        BY <1>a, <2>1, <2>3, <3>2
      <3>5. driver'.at \in {"done", "submit"} /\ Len(driver'.weights) = driver'.round
        BY <1>a, <2>1, <2>3, <3>1, <3>2
      <3> QED BY <1>a, <2>1, <2>3, <3>3, <3>4, <3>5 DEF DriverInv, Running, Polling
    <2> QED BY <2>2, <2>3
  <1>8. CASE Publish
    <2>1. /\ driver.at = "publish" /\ driver'.at = "report" /\ driver'.uri = driver.job
          /\ driver'.kind = driver.kind /\ driver'.weights = driver.weights
          /\ driver'.round = driver.round /\ driver'.job = driver.job
      BY <1>0, <1>8 DEF Publish, Driver
    <2>2. /\ DOMAIN jobs' = DOMAIN jobs
          /\ \A j \in DOMAIN jobs : jobs'[j].round = jobs[j].round
          /\ jobs'[driver.job].weights = driver.weights
      BY <1>8, <1>b, <2>1, JobPublished DEF Publish, Running
    <2>3. driver.job # 0 /\ driver.job \in DOMAIN jobs
      BY <1>0, <1>b, <2>1 DEF Running
    <2>4. Base' = driver'.weights
      BY <2>1, <2>2, <2>3 DEF Base, NoUri, Federated
    <2>5. Len(driver.weights) = driver.round + 1 /\ driver.round < Rounds
      BY <2>1 DEF DriverInv, Running
    <2> QED BY <1>b, <2>1, <2>2, <2>3, <2>4, <2>5 DEF DriverInv, Running, Polling
  <1>9. CASE Report
    <2>1. /\ driver.at = "report" /\ driver'.uri = driver.uri
          /\ driver'.kind = driver.kind /\ driver'.weights = driver.weights
          /\ driver'.round = driver.round + 1 /\ jobs' = jobs
          /\ driver'.at = (IF driver.round + 1 = Rounds THEN "done" ELSE "submit")
      BY <1>0, <1>9 DEF Report, Driver
    <2>2. Base' = Base
      BY <2>1, BaseKept
    <2>3. Len(driver.weights) = driver.round + 1 /\ driver.round < Rounds /\ Base = driver.weights
      BY <2>1 DEF DriverInv, Running
    <2>4. driver'.at = "submit" => driver'.round < Rounds
      BY <1>a, <2>1, <2>3
    <2>5. driver'.at \in {"done", "submit"}
      BY <2>1
    <2> QED BY <1>a, <2>1, <2>2, <2>3, <2>4, <2>5 DEF DriverInv, Running, Polling
  <1>10. CASE Stops
    BY <1>10 DEF Stops, Dead, Started, DriverInv, Running, Polling
  <1>11. CASE Restart
    <2>1. PICK kept \in {caller.pairs} \cup ({caller.latest} \ {{}}) :
              \/ driver' = Started(driver.kind, driver.nested, 0, <<>>, NoUri)
              \/ \E p \in ResumePoints(kept) :
                     driver' = Started(driver.kind, driver.nested,
                                       p.round + 1, jobs[p.job].weights, p.job)
      BY <1>11 DEF Restart
    <2>2. driver'.round < Rounds /\ jobs' = IF Federated THEN Left(jobs) ELSE <<>>
      BY <1>11 DEF Restart
    <2>3. CASE driver' = Started(driver.kind, driver.nested, 0, <<>>, NoUri)
      <3>1. Base' = <<>> /\ driver'.weights = <<>> /\ driver'.at = "submit" /\ driver'.round = 0
        BY <2>3 DEF Started, Base, Federated, NoUri
      <3> QED BY <2>2, <3>1 DEF DriverInv, Polling
    <2>4. ASSUME NEW p \in ResumePoints(kept),
                 driver' = Started(driver.kind, driver.nested,
                                   p.round + 1, jobs[p.job].weights, p.job)
          PROVE  DriverInv'
      <3>1. p \in caller.pairs /\ jobs[p.job].weights # <<>>
        BY DEF ResumePoints, Published, Unpublished, ShapeInv
      <3>2. p.job \in DOMAIN jobs /\ jobs[p.job].round = p.round /\ Federated
        BY <3>1 DEF ShapeInv
      <3>3. Len(jobs[p.job].weights) = p.round + 1
        BY <3>1, <3>2 DEF ShapeInv, GoodJob
      <3>4. /\ driver'.at = "submit" /\ driver'.round = p.round + 1 /\ driver'.uri = p.job
            /\ driver'.weights = jobs[p.job].weights /\ driver'.kind = driver.kind
        BY <2>4 DEF Started
      <3>5. Base' = driver'.weights
        BY <1>0, <2>2, <3>2, <3>4, LeftKeeps DEF Base, Federated, NoUri
      <3>6. p.round + 1 \in Nat
        BY <3>1, Numbers DEF ShapeInv, Caller, Pairs
      <3> QED BY <2>2, <3>3, <3>4, <3>5, <3>6 DEF DriverInv, Polling
    <2> QED BY <2>1, <2>3, <2>4
  <1>12. ASSUME NEW j \in DOMAIN jobs,
                CancelJob(j) \/ \E s \in Shards : Attempt(j, s) \/ Commit(j, s) \/ Lapse(j, s)
         PROVE  DriverInv'
    <2>1. /\ jobs' \in Seq(JobRecord) /\ Len(jobs') = Len(jobs)
          /\ \A k \in DOMAIN jobs :
                /\ jobs'[k].round = jobs[k].round
                /\ jobs'[k].base = jobs[k].base
                /\ jobs'[k].weights = jobs[k].weights
                /\ \A s \in Shards : jobs[k].tasks[s].state = "done" =>
                                        jobs'[k].tasks[s] = jobs[k].tasks[s]
          /\ driver' = driver
      BY <1>12, WorkersMoveTasks
    <2>2. DOMAIN jobs' = DOMAIN jobs
      BY <1>0, <2>1
    <2>3. Base' = Base /\ Federated' = Federated
      BY <2>1, BaseKept DEF Federated
    <2>4. driver.keys \in SUBSET Shards
      BY <1>0 DEF Driver
    <2> QED BY <2>1, <2>2, <2>3, <2>4 DEF DriverInv, Running, Polling
  <1>13. CASE UNCHANGED vars
    BY <1>13 DEF vars, DriverInv, Base, Federated
  <1> QED BY <1>1, <1>2, <1>3, <1>4, <1>5, <1>6, <1>7, <1>8, <1>9, <1>10, <1>11, <1>12, <1>13
          DEF Next, DriverStep

-----------------------------------------------------------------------------
\* The weights the caller could find again have a round more than their number.
LEMMA PublishedHaveRounds ==
    ASSUME ShapeInv, NEW p \in Published(caller.pairs)
    PROVE  /\ p \in caller.pairs /\ p.job \in DOMAIN jobs /\ p.job # 0
           /\ p.round \in Nat /\ p.round < Rounds
           /\ jobs[p.job].weights \in Weights
           /\ Len(jobs[p.job].weights) = p.round + 1 /\ jobs[p.job].round = p.round
  <1>1. p \in caller.pairs /\ jobs[p.job].weights # <<>>
    BY DEF Published, Unpublished
  <1>2. p.job \in DOMAIN jobs /\ jobs[p.job].round = p.round /\ p \in Pairs
    BY <1>1 DEF ShapeInv, Caller
  <1>3. jobs \in Seq(JobRecord) /\ GoodJob(jobs[p.job])
    BY <1>2 DEF ShapeInv
  <1>4. jobs[p.job] \in JobRecord /\ p.job # 0
    BY <1>2, <1>3
  <1>5. jobs[p.job].weights \in Weights
    BY <1>4 DEF JobRecord
  <1> QED BY <1>1, <1>2, <1>3, <1>4, <1>5, Numbers DEF GoodJob, Pairs

\* Of a nonempty set of pairs some are the newest.
LEMMA NewestExists ==
    ASSUME NEW found \in SUBSET Pairs, found # {}
    PROVE  \E p \in found : \A q \in found : q.round <= p.round
  <1> DEFINE ages == {Rounds - p.round : p \in found}
  <1>1. \A p \in found : p.round \in Nat /\ Rounds - p.round \in Nat
    BY Numbers DEF Pairs
  <1>2. ages \subseteq Nat /\ ages # {}
    BY <1>1
  <1>3. PICK a \in ages : \A b \in ages : <<b, a>> \notin OpToRel(<, Nat)
    <2> HIDE DEF ages
    <2> QED BY <1>2, NatLessThanWellFounded, WFMin
  <1>4. \A b \in ages : ~(b < a)
    BY <1>2, <1>3 DEF OpToRel
  <1>5. PICK p \in found : a = Rounds - p.round
    BY <1>3
  <1>6. \A q \in found : ~(Rounds - q.round < Rounds - p.round)
    BY <1>4, <1>5
  <1> QED BY <1>1, <1>6, Numbers

\* Where a run starts again, nothing the caller could find is newer.
LEMMA ResumePointIsNewest ==
    ASSUME ShapeInv, PairsInv, NEW kept \in {caller.pairs} \cup ({caller.latest} \ {{}}),
           ~ResumeRefused(kept)
    PROVE  /\ ResumePoints(kept) = {} => Published(caller.pairs) = {}
           /\ \A p \in ResumePoints(kept) :
                 /\ p \in Published(caller.pairs)
                 /\ \A q \in Published(caller.pairs) : q.round <= p.round
  <1>1. kept \subseteq caller.pairs /\ caller.pairs \subseteq Pairs
    BY DEF ShapeInv, Caller
  <1>2. Published(kept) \subseteq Published(caller.pairs)
    BY <1>1 DEF Published
  <1>3. \A q \in Published(caller.pairs) : q \in caller.pairs /\ q.round \in Nat
    BY PublishedHaveRounds
  <1>4. kept # caller.pairs => kept = caller.latest /\ kept # {}
    OBVIOUS
  <1>5. \A q \in Published(caller.pairs) : q \in kept => q \in Published(kept)
    BY DEF Published
  <1>6. \A q \in Published(caller.pairs), p \in kept : q \notin kept => q.round < p.round
    BY <1>3, <1>4 DEF PairsInv
  <1>7. ASSUME ResumePoints(kept) = {} PROVE Published(caller.pairs) = {}
    <2>1. Published(kept) = {}
      <3>1. Published(kept) \in SUBSET Pairs
        BY <1>1, <1>2, <1>3
      <3> QED BY <1>7, <3>1, NewestExists DEF ResumePoints
    <2>2. kept = {} \/ \E p \in kept : ~(p.round > 0)
      BY <2>1 DEF ResumeRefused
    <2>3. CASE kept = {}
      BY <1>3, <1>4, <2>1, <2>3
    <2>4. ASSUME NEW p \in kept, ~(p.round > 0) PROVE Published(caller.pairs) = {}
      <3>1. p.round \in Nat
        BY <1>1 DEF Pairs
      <3>2. \A q \in Published(caller.pairs) : q \in kept
        BY <1>3, <1>6, <2>4, <3>1
      <3> QED BY <1>5, <2>1, <3>2
    <2> QED BY <2>2, <2>3, <2>4
  <1>8. ASSUME NEW p \in ResumePoints(kept)
        PROVE  /\ p \in Published(caller.pairs)
               /\ \A q \in Published(caller.pairs) : q.round <= p.round
    <2>1. p \in Published(kept) /\ \A q \in Published(kept) : q.round <= p.round
      BY DEF ResumePoints
    <2>2. p \in kept /\ p \in Published(caller.pairs)
      BY <1>2, <2>1 DEF Published
    <2>3. \A q \in Published(caller.pairs) : q.round <= p.round
      BY <1>3, <1>5, <1>6, <2>1, <2>2
    <2> QED BY <2>2, <2>3
  <1> QED BY <1>7, <1>8

\* The same rounds hold the same.
LEMMA WithinOfSameLength ==
    ASSUME NEW v \in Weights, NEW w \in Weights, Within(v, w), Len(w) <= Len(v)
    PROVE  Within(w, v)
  <1>1. Len(v) \in Nat /\ Len(w) \in Nat
    BY DEF Weights
  <1> QED BY <1>1 DEF Within

\* Weights that hold an older history hold it with a round more.
LEMMA WithinGrows ==
    ASSUME NEW v \in Weights, NEW w \in Weights, NEW r, Within(v, w)
    PROVE  Within(v, Append(w, r))
  <1>1. Len(v) \in Nat /\ Len(w) \in Nat /\ Len(Append(w, r)) = Len(w) + 1
        /\ \A i \in 1 .. Len(w) : Append(w, r)[i] = w[i]
    BY DEF Weights
  <1> QED BY <1>1 DEF Within

\* A step that notes nothing and publishes nothing.
LEMMA QuietStep ==
    ASSUME ShapeInv, PairsInv, caller' = caller,
           \A j \in DOMAIN jobs : jobs'[j].weights = jobs[j].weights,
           driver'.at \in Running =>
              /\ driver.at \in Running /\ driver'.round = driver.round /\ driver'.job = driver.job
              /\ \A v \in Weights : Within(v, driver.weights) => Within(v, driver'.weights)
    PROVE  PairsInv'
  <1>1. \A p \in caller.pairs : p.job \in DOMAIN jobs
    BY DEF ShapeInv
  <1>2. Published(caller.pairs)' = Published(caller.pairs)
    BY <1>1 DEF Published
  <1>3. \A p \in Published(caller.pairs) : /\ jobs'[p.job].weights = jobs[p.job].weights
                                           /\ jobs[p.job].weights \in Weights
    BY PublishedHaveRounds
  <1> QED BY <1>2, <1>3 DEF PairsInv

\* The round's weights appear at its job.
LEMMA PublishStep ==
    ASSUME ShapeInv, DriverInv, PairsInv, driver.at = "publish", caller' = caller,
           jobs' = [jobs EXCEPT ![driver.job].weights = driver.weights],
           driver'.at \in Running =>
              /\ driver'.round = driver.round /\ driver'.job = driver.job
              /\ driver'.weights = driver.weights
    PROVE  PairsInv'
  <1> DEFINE W == driver.weights
             Seen == Published(caller.pairs)
             Own(p) == p.job = driver.job
  <1>1. driver.at \in Running
    BY DEF Running
  <1>2. /\ W \in Weights /\ driver.round \in Nat /\ Len(W) = driver.round + 1
        /\ driver.job \in DOMAIN jobs /\ jobs[driver.job].round = driver.round
    BY <1>1, Numbers DEF DriverInv, ShapeInv, Driver
  <1>3. \A p \in caller.pairs : p.job \in DOMAIN jobs /\ jobs[p.job].round = p.round
    BY DEF ShapeInv
  <1>4. \A p \in caller.pairs : jobs'[p.job].weights = IF Own(p) THEN W ELSE jobs[p.job].weights
    BY <1>3, JobPublished
  <1>5. \A p \in Published(caller.pairs)' : p \in caller.pairs /\ (Own(p) \/ p \in Seen)
    BY <1>4 DEF Published
  <1>6. \A p \in Seen : p \in Published(caller.pairs)'
    <2>1. W # <<>>
      BY <1>2
    <2> QED BY <1>4, <2>1 DEF Published, Unpublished
  <1>7. \A p \in Seen : /\ jobs[p.job].weights \in Weights /\ p.round \in Nat
                        /\ Len(jobs[p.job].weights) = p.round + 1
                        /\ Within(jobs[p.job].weights, W)
    BY <1>1, PublishedHaveRounds DEF PairsInv
  <1>8. Within(W, W)
    BY <1>2 DEF Within, Weights
  <1>9. \A q \in Seen : driver.round <= q.round => Within(W, jobs[q.job].weights)
    BY <1>2, <1>7, WithinOfSameLength
  <1>10. ASSUME NEW p \in Published(caller.pairs)', NEW q \in Published(caller.pairs)',
                p.round <= q.round
         PROVE  Within(jobs'[p.job].weights, jobs'[q.job].weights)
    <2>1. Own(p) => p.round = driver.round
      BY <1>2, <1>3, <1>5
    <2>2. ~Own(p) => p \in Seen /\ jobs'[p.job].weights = jobs[p.job].weights
      BY <1>4, <1>5
    <2>3. ~Own(q) => q \in Seen /\ jobs'[q.job].weights = jobs[q.job].weights
      BY <1>4, <1>5
    <2>4. CASE ~Own(p) /\ ~Own(q)
      BY <1>10, <2>2, <2>3, <2>4 DEF PairsInv
    <2>5. CASE Own(q)
      BY <1>4, <1>5, <1>7, <1>8, <2>2, <2>5
    <2>6. CASE Own(p) /\ ~Own(q)
      BY <1>4, <1>5, <1>9, <1>10, <2>1, <2>3, <2>6
    <2> QED BY <2>4, <2>5, <2>6
  <1>11. \A p \in caller.pairs : Own(p) => p \in caller.latest
    BY <1>1 DEF PairsInv
  <1>12. \A p \in Published(caller.pairs)' \ caller.latest : p \in Seen \ caller.latest
    BY <1>5, <1>11
  <1>13. \A t \in caller.told : \E p \in Published(caller.pairs)' :
             p.round = t[1] /\ jobs'[p.job].weights[t[1] + 1] = t[2]
    <2> SUFFICES ASSUME NEW t \in caller.told
                 PROVE  \E p \in Published(caller.pairs)' :
                            p.round = t[1] /\ jobs'[p.job].weights[t[1] + 1] = t[2]
      OBVIOUS
    <2>1. PICK p \in Seen : p.round = t[1] /\ jobs[p.job].weights[t[1] + 1] = t[2]
      BY DEF PairsInv
    <2>2. jobs'[p.job].weights[t[1] + 1] = t[2]
      <3>1. W[p.round + 1] = jobs[p.job].weights[p.round + 1]
        BY <1>7 DEF Within
      <3>2. p \in caller.pairs
        BY DEF Published
      <3> QED BY <1>4, <2>1, <3>1, <3>2
    <2> QED BY <1>6, <2>1, <2>2
  <1>14. driver'.at \in Running =>
            \A p \in Published(caller.pairs)' : Within(jobs'[p.job].weights, driver'.weights)
    BY <1>4, <1>5, <1>7, <1>8
  <1>15. driver'.at \in Running =>
            /\ \A p \in Published(caller.pairs)' \ caller.latest : p.round < driver'.round
            /\ \A p \in caller.pairs : p.job = driver'.job => p \in caller.latest
    BY <1>1, <1>11, <1>12 DEF PairsInv
  <1>16. \A p \in Published(caller.pairs)' \ caller.latest, q \in caller.latest :
             p.round < q.round
    BY <1>12 DEF PairsInv
  <1> HIDE DEF W, Seen, Own
  <1> QED BY <1>10, <1>13, <1>14, <1>15, <1>16 DEF PairsInv

\* The round is noted and told.
LEMMA ReportStep ==
    ASSUME ShapeInv, DriverInv, PairsInv, Report
    PROVE  PairsInv'
  <1> DEFINE pair == [round |-> driver.round, job |-> driver.job]
             Seen == Published(caller.pairs)
             W == driver.weights
  <1>1. driver.at = "report" /\ driver.at \in Running /\ Federated
    BY DEF Report, Running, ShapeInv
  <1>2. /\ W \in Weights /\ driver.round \in Nat /\ Len(W) = driver.round + 1
        /\ driver.job \in DOMAIN jobs /\ driver.job # 0
        /\ driver.uri = driver.job /\ Base = W
    <2>1. jobs \in Seq(JobRecord) /\ driver \in Driver
      BY DEF ShapeInv
    <2> QED BY <1>1, <2>1, Numbers DEF DriverInv, Driver
  <1>3. jobs[driver.job].weights = W
    BY <1>1, <1>2 DEF Base, NoUri
  <1>4. /\ caller'.pairs = caller.pairs \cup {pair} /\ caller'.latest = caller.latest \cup {pair}
        /\ caller'.told = caller.told \cup {<<driver.round, W[driver.round + 1]>>}
        /\ jobs' = jobs
    BY DEF Report
  <1>5. /\ driver'.round = driver.round + 1 /\ driver'.job = driver.job /\ driver'.weights = W
    BY DEF Report, ShapeInv, Driver
  <1>6. Published(caller.pairs)' = Seen \cup {pair}
    <2>1. W # <<>>
      BY <1>2
    <2> QED BY <1>3, <1>4, <2>1 DEF Published, Unpublished
  <1>7. \A p \in Seen : /\ jobs[p.job].weights \in Weights /\ p.round \in Nat
                        /\ Len(jobs[p.job].weights) = p.round + 1
                        /\ Within(jobs[p.job].weights, W)
    BY <1>1, PublishedHaveRounds DEF PairsInv
  <1>8. Within(W, W)
    BY <1>2 DEF Within, Weights
  <1>9. \A q \in Seen : driver.round <= q.round => Within(W, jobs[q.job].weights)
    BY <1>2, <1>7, WithinOfSameLength
  <1>10. pair.round = driver.round /\ pair.job = driver.job
    OBVIOUS
  <1> HIDE DEF pair
  <1>11. \A p, q \in Seen \cup {pair} :
            p.round <= q.round => Within(jobs[p.job].weights, jobs[q.job].weights)
    BY <1>3, <1>7, <1>8, <1>9, <1>10 DEF PairsInv
  <1>12. \A p \in (Seen \cup {pair}) \ caller'.latest : p.round < driver.round
    BY <1>1, <1>4 DEF PairsInv
  <1>13. \A p \in (Seen \cup {pair}) \ caller'.latest, q \in caller'.latest : p.round < q.round
    BY <1>4, <1>10, <1>12 DEF PairsInv
  <1>14. \A t \in caller'.told : \E p \in Seen \cup {pair} :
            p.round = t[1] /\ jobs[p.job].weights[t[1] + 1] = t[2]
    BY <1>3, <1>4, <1>10 DEF PairsInv
  <1>15. \A p \in Seen \cup {pair} : Within(jobs[p.job].weights, W)
    BY <1>3, <1>7, <1>8, <1>10
  <1>16. \A p \in (Seen \cup {pair}) \ caller'.latest : p.round < driver'.round
    <2>1. \A p \in (Seen \cup {pair}) \ caller'.latest : p.round \in Nat
      BY <1>4, <1>7
    <2> QED BY <1>2, <1>5, <1>12, <2>1
  <1>17. \A p \in caller'.pairs : p.job = driver'.job => p \in caller'.latest
    BY <1>1, <1>4, <1>5 DEF PairsInv
  <1> HIDE DEF W, Seen
  <1> QED BY <1>4, <1>5, <1>6, <1>11, <1>13, <1>14, <1>15, <1>16, <1>17 DEF PairsInv

\* A round is submitted; the caller may note the job at once, without weights.
LEMMA SubmitStep ==
    ASSUME ShapeInv, DriverInv, PairsInv, Submit
    PROVE  PairsInv'
  <1>1. /\ driver.at = "submit" /\ driver.at \in Running /\ driver.round < Rounds
    BY DEF Submit, DriverInv, Running
  <1>2. /\ jobs \in Seq(JobRecord) /\ DOMAIN jobs = 1 .. Len(jobs) /\ Len(jobs) \in Nat
    BY DEF ShapeInv
  <1>3. /\ \A j \in DOMAIN jobs : jobs'[j].weights = jobs[j].weights
        /\ jobs'[Len(jobs) + 1].weights = <<>>
    BY <1>1, LeftKeeps, JobAdded DEF Submit, NewJob, Unpublished
  <1>4. PICK noted \in {{}, {Pair}} :
            /\ caller'.pairs = caller.pairs \cup noted
            /\ caller'.latest = caller.latest \cup noted
            /\ caller'.told = caller.told
    BY DEF Submit, ShapeInv, Caller
  <1>5. /\ driver'.round = driver.round /\ driver'.job = Len(jobs) + 1
        /\ driver'.weights = driver.weights
    BY DEF Submit, ShapeInv, Driver
  <1>6. Pair.round = driver.round /\ Pair.job = Len(jobs) + 1
    BY DEF Pair
  <1>7. \A p \in caller.pairs : p.job \in DOMAIN jobs /\ p.job # Len(jobs) + 1
    BY <1>2 DEF ShapeInv
  <1>8. Published(caller.pairs)' = Published(caller.pairs)
    BY <1>3, <1>4, <1>6, <1>7 DEF Published, Unpublished
  <1>9. \A p \in Published(caller.pairs) : jobs'[p.job].weights = jobs[p.job].weights
    BY <1>3, PublishedHaveRounds
  <1>10. \A p \in Published(caller.pairs) \ caller'.latest : p \notin caller.latest
    BY <1>4
  <1>11. \A p \in Published(caller.pairs) \ caller'.latest, q \in caller'.latest :
            p.round < q.round
    BY <1>1, <1>4, <1>6, <1>10 DEF PairsInv
  <1>12. \A p \in caller'.pairs : p.job = driver'.job => p \in caller'.latest
    BY <1>4, <1>5, <1>7
  <1> QED BY <1>1, <1>4, <1>5, <1>8, <1>9, <1>10, <1>11, <1>12 DEF PairsInv

\* A run that resumes starts from weights that hold all that was published, and a
\* run that starts from nothing only does so when nothing was.
LEMMA RestartStep ==
    ASSUME ShapeInv, PairsInv, Restart, Federated
    PROVE  PairsInv'
  <1>1. PICK kept \in {caller.pairs} \cup ({caller.latest} \ {{}}) :
            /\ ~ResumeRefused(kept)
            /\ \/ /\ ResumePoints(kept) = {}
                  /\ driver' = Started(driver.kind, driver.nested, 0, <<>>, NoUri)
               \/ \E p \in ResumePoints(kept) :
                      driver' = Started(driver.kind, driver.nested,
                                        p.round + 1, jobs[p.job].weights, p.job)
    BY DEF Restart
  <1>2. /\ caller'.pairs = caller.pairs /\ caller'.latest = {} /\ caller'.told = caller.told
        /\ jobs' = Left(jobs)
    BY DEF Restart, ShapeInv, Caller
  <1>3. \A p \in caller.pairs : p.job \in DOMAIN jobs /\ p.job # 0
    BY DEF ShapeInv
  <1>4. \A p \in caller.pairs : jobs'[p.job].weights = jobs[p.job].weights
    BY <1>2, <1>3, LeftKeeps
  <1>5. Published(caller.pairs)' = Published(caller.pairs)
    BY <1>2, <1>4 DEF Published
  <1>6. \A p \in Published(caller.pairs) : jobs'[p.job].weights = jobs[p.job].weights
    BY <1>4 DEF Published
  <1>7. driver'.job = 0 /\ driver'.at = "submit"
    BY <1>1 DEF Started
  <1>8. CASE ResumePoints(kept) = {}
    <2>1. Published(caller.pairs) = {}
      BY <1>1, <1>8, ResumePointIsNewest
    <2> QED BY <1>2, <1>3, <1>5, <1>7, <2>1 DEF PairsInv
  <1>9. ASSUME NEW p \in ResumePoints(kept),
               driver' = Started(driver.kind, driver.nested,
                                 p.round + 1, jobs[p.job].weights, p.job)
        PROVE  PairsInv'
    <2>1. p \in Published(caller.pairs) /\ \A q \in Published(caller.pairs) : q.round <= p.round
      BY <1>1, ResumePointIsNewest
    <2>2. driver'.round = p.round + 1 /\ driver'.weights = jobs[p.job].weights
      BY <1>9 DEF Started
    <2>3. \A q \in Published(caller.pairs) : Within(jobs[q.job].weights, driver'.weights)
      BY <2>1, <2>2 DEF PairsInv
    <2>4. \A q \in Published(caller.pairs) : q.round < driver'.round
      BY <2>1, <2>2, PublishedHaveRounds
    <2> QED BY <1>2, <1>3, <1>5, <1>6, <1>7, <2>3, <2>4 DEF PairsInv
  <1> QED BY <1>1, <1>8, <1>9

\* Every step keeps what the caller can find again.
LEMMA PairsInvStep ==
    ASSUME ShapeInv, DriverInv, PairsInv, [Next]_vars
    PROVE  PairsInv'
  <1>0. driver \in Driver /\ driver.weights \in Weights
    BY DEF ShapeInv, Driver
  <1>a. ASSUME caller' = caller, jobs' = jobs, driver' = Dead PROVE PairsInv'
    <2>1. driver'.at \notin Running
      BY <1>a DEF Dead, Started, Running, Polling
    <2> QED BY <1>a, <2>1, QuietStep
  <1>b. ASSUME caller' = caller, jobs' = jobs, driver.at \in Running,
               driver'.round = driver.round, driver'.job = driver.job,
               driver'.weights = driver.weights
        PROVE  PairsInv'
    BY <1>b, QuietStep
  <1>1. CASE Submit
    BY <1>1, SubmitStep
  <1>2. CASE ListArtifacts \/ ListTasks
    <2>1. /\ caller' = caller /\ jobs' = jobs /\ driver.at \in Running
          /\ driver'.round = driver.round /\ driver'.job = driver.job
          /\ driver'.weights = driver.weights
      BY <1>0, <1>2 DEF ListArtifacts, ListTasks, Go, Driver, Running, Polling
    <2> QED BY <1>b, <2>1
  <1>3. CASE ReadState
    <2>1. /\ caller' = caller /\ jobs' = jobs /\ driver.at \in Running
          /\ \/ driver' = Dead
             \/ /\ driver'.round = driver.round /\ driver'.job = driver.job
                /\ driver'.weights = driver.weights
      BY <1>0, <1>3 DEF ReadState, Go, Driver, Running, Polling
    <2> QED BY <1>a, <1>b, <2>1
  <1>4. CASE ReadingFails
    <2>1. /\ caller' = caller /\ jobs' = jobs /\ driver.at \in Running
          /\ \/ driver' = Dead
             \/ /\ driver'.round = driver.round /\ driver'.job = driver.job
                /\ driver'.weights = driver.weights
      BY <1>0, <1>4 DEF ReadingFails, Driver, Running
    <2> QED BY <1>a, <1>b, <2>1
  <1>5. CASE Fetch
    <2> DEFINE new == Round(driver.job, Fetched(driver.job, driver.keys))
    <2>1. /\ caller' = caller /\ jobs' = jobs /\ driver.at \in Running
          /\ driver'.round = driver.round /\ driver'.job = driver.job
          /\ driver'.weights = Append(driver.weights, new)
      BY <1>0, <1>5 DEF Fetch, Go, Driver, Running
    <2>2. \A v \in Weights : Within(v, driver.weights) => Within(v, driver'.weights)
      BY <1>0, <2>1, WithinGrows
    <2> HIDE DEF new
    <2> QED BY <2>1, <2>2, QuietStep
  <1>6. CASE Publish
    <2>1. /\ driver.at = "publish" /\ caller' = caller
          /\ jobs' = [jobs EXCEPT ![driver.job].weights = driver.weights]
          /\ driver'.round = driver.round /\ driver'.job = driver.job
          /\ driver'.weights = driver.weights
      BY <1>0, <1>6 DEF Publish, Driver
    <2> QED BY <2>1, PublishStep
  <1>7. CASE Report
    BY <1>7, ReportStep
  <1>8. CASE Stops
    <2>1. caller' = caller /\ driver' = Dead /\ driver'.at \notin Running
      BY <1>8 DEF Stops, Dead, Started, Running, Polling
    <2>2. CASE UNCHANGED jobs
      BY <1>a, <2>1, <2>2
    <2>3. CASE driver.at = "submit" /\ jobs' = Append(jobs, NewJob(driver.round, Base))
      <3>1. driver.round < Rounds
        BY <2>3 DEF DriverInv, Running
      <3>2. jobs \in Seq(JobRecord) /\ \A j \in DOMAIN jobs : GoodJob(jobs[j])
        BY DEF ShapeInv
      <3>3. \A j \in DOMAIN jobs : jobs'[j].weights = jobs[j].weights
        BY <2>3, <3>1, <3>2, JobAdded
      <3> QED BY <2>1, <3>3, QuietStep
    <2>4. CASE /\ driver.at = "publish"
               /\ jobs' = [jobs EXCEPT ![driver.job].weights = driver.weights]
      BY <2>1, <2>4, PublishStep
    <2> QED BY <1>8, <2>2, <2>3, <2>4 DEF Stops
  <1>9. CASE Reduce \/ (Restart /\ ~Federated)
    <2>1. caller'.pairs = caller.pairs /\ caller'.told = caller.told
          /\ (caller'.latest = caller.latest \/ caller'.latest = {})
      BY <1>9 DEF Reduce, Go, Restart, ShapeInv, Caller
    <2>2. caller'.pairs = {} /\ caller'.told = {} /\ caller'.latest = {}
      BY <1>9, <2>1 DEF Reduce, ShapeInv
    <2> QED BY <2>2 DEF PairsInv, Published
  <1>10. CASE Restart /\ Federated
    BY <1>10, RestartStep
  <1>11. ASSUME NEW j \in DOMAIN jobs,
                CancelJob(j) \/ \E s \in Shards : Attempt(j, s) \/ Commit(j, s) \/ Lapse(j, s)
         PROVE  PairsInv'
    <2>1. /\ \A k \in DOMAIN jobs : jobs'[k].weights = jobs[k].weights
          /\ driver' = driver /\ caller' = caller
      BY <1>11, WorkersMoveTasks
    <2> QED BY <2>1, QuietStep
  <1>12. CASE UNCHANGED vars
    BY <1>12, QuietStep DEF vars
  <1> QED BY <1>1, <1>2, <1>3, <1>4, <1>5, <1>6, <1>7, <1>8, <1>9, <1>10, <1>11, <1>12
          DEF Next, DriverStep

-----------------------------------------------------------------------------
\* The invariant of a run and its restarts: the driver's locals fit the job it is
\* at, and what was published is one history (fedavg.py: run_fedavg, resume_state).
THEOREM RoundsInvariant == Spec => []RoundsInv
  <1>1. Init => RoundsInv
    <2> SUFFICES ASSUME Init PROVE RoundsInv
      OBVIOUS
    <2>1. PICK k \in Drivers, nested \in BOOLEAN : driver = Started(k, nested, 0, <<>>, NoUri)
      BY DEF Init
    <2>2. k \in {"fedavg", "kmeans"} /\ 0 \in 0 .. Rounds /\ <<>> \in Weights /\ Rounds > 0
      BY DriversAssumption, Numbers DEF Weights
    <2>3. /\ driver \in Driver /\ driver.job = 0 /\ driver.uri = 0 /\ driver.at = "submit"
          /\ driver.round = 0 /\ driver.weights = <<>>
      BY <2>1, <2>2 DEF Started, Driver, Running, NoUri
    <2>4. jobs = <<>> /\ caller = [pairs |-> {}, latest |-> {}, told |-> {}]
      BY DEF Init
    <2>5. jobs \in Seq(JobRecord) /\ DOMAIN jobs = {} /\ caller \in Caller
      BY <2>4 DEF Caller
    <2>6. ShapeInv
      BY <2>3, <2>4, <2>5 DEF ShapeInv
    <2>7. Base = <<>>
      BY <2>3 DEF Base, NoUri
    <2>8. DriverInv
      BY <2>2, <2>3, <2>7 DEF DriverInv, Polling
    <2>9. PairsInv
      BY <2>4 DEF PairsInv, Published
    <2> QED BY <2>6, <2>8, <2>9 DEF RoundsInv
  <1>2. RoundsInv /\ [Next]_vars => RoundsInv'
    BY ShapeStep, DriverInvStep, PairsInvStep DEF RoundsInv
  <1> QED BY <1>1, <1>2, PTL DEF Spec

\* A round on_round reported is never trained again and never dropped, by any
\* number of crashes and restarts (fedavg.py: resume_state probes the newest first).
THEOREM ToldRoundsAreKept == Spec => []ToldRoundsStand
  <1>1. RoundsInv => ToldRoundsStand
    <2> SUFFICES ASSUME ShapeInv, DriverInv, PairsInv PROVE ToldRoundsStand
      BY DEF RoundsInv
    <2>1. TypeOK
      <3>1. \A j \in DOMAIN jobs : jobs[j] \in JobRecord
        BY DEF ShapeInv
      <3>2. \A j \in DOMAIN jobs : \A s \in Shards : jobs[j].tasks[s] \in Task
        BY <3>1 DEF JobRecord
      <3>3. \A j \in DOMAIN jobs :
              /\ jobs[j].round \in 0 .. Rounds - 1
              /\ \A s \in Shards :
                    /\ jobs[j].tasks[s].state
                          \in {"waiting", "held", "done", "lost", "cancelled"}
                    /\ {jobs[j].tasks[s].attempt, jobs[j].tasks[s].file} \subseteq 0 .. MaxAttempts
        BY <3>1, <3>2 DEF JobRecord, Task, States
      <3>4. /\ driver.at \in Running \cup {"done", "failed"} /\ driver.round \in 0 .. Rounds
            /\ driver.keys \subseteq Shards
        BY DEF ShapeInv, Driver
      <3> QED BY <3>3, <3>4 DEF TypeOK, ShapeInv
    <2>2. ASSUME driver.at \in Running, NEW t \in caller.told
          PROVE  t[1] + 1 \in DOMAIN driver.weights /\ driver.weights[t[1] + 1] = t[2]
      <3>1. PICK p \in Published(caller.pairs) :
                p.round = t[1] /\ jobs[p.job].weights[t[1] + 1] = t[2]
        BY DEF PairsInv
      <3>2. /\ jobs[p.job].weights \in Weights /\ p.round \in Nat
            /\ Len(jobs[p.job].weights) = p.round + 1
        BY PublishedHaveRounds
      <3>3. Within(jobs[p.job].weights, driver.weights)
        BY <2>2 DEF PairsInv
      <3>4. driver.weights \in Weights
        BY DEF ShapeInv, Driver
      <3>5. p.round + 1 \in 1 .. Len(driver.weights)
        BY <3>2, <3>3, <3>4 DEF Within, Weights
      <3> QED BY <3>1, <3>2, <3>3, <3>4, <3>5 DEF Within, Weights
    <2> QED BY <2>1, <2>2 DEF ToldRoundsStand, DriverInv
  <1> QED BY <1>1, RoundsInvariant, PTL

\* Every round of the weights is accepted work of enough shards on the weights
\* before it (fedavg.py: _committed_metrics_keys; kmeans.py: run_kmeans).
THEOREM WeightsComeFromAcceptedWork == Spec => WeightsAreEarned
  <1>1. RoundsInv /\ [Next]_vars =>
          [driver.at = "fetch" /\ driver'.at \notin {"fetch", "failed"} =>
             LET new == driver'.weights[Len(driver.weights) + 1]
             IN  /\ driver'.weights = Append(driver.weights, new)
                 /\ Enough(new.from)
                 /\ jobs[new.job].base = driver.weights
                 /\ \A c \in new.from :
                        LET t == jobs[new.job].tasks[c[1]]
                        IN  t.state = "done" /\ t.attempt = c[2]]_vars
    <2> SUFFICES ASSUME ShapeInv, DriverInv, Next,
                        driver.at = "fetch", driver'.at \notin {"fetch", "failed"}
                 PROVE  LET new == driver'.weights[Len(driver.weights) + 1]
                        IN  /\ driver'.weights = Append(driver.weights, new)
                            /\ Enough(new.from)
                            /\ jobs[new.job].base = driver.weights
                            /\ \A c \in new.from :
                                   LET t == jobs[new.job].tasks[c[1]]
                                   IN  t.state = "done" /\ t.attempt = c[2]
      BY DEF RoundsInv
    <2> DEFINE keys == IF Federated THEN driver.keys ELSE Shards
               from == Fetched(driver.job, keys)
               round == Round(driver.job, from)
    <2>1. driver \in Driver /\ driver.weights \in Weights /\ keys \in SUBSET Shards
      BY DEF ShapeInv, Driver
    <2>2. /\ driver.job \in DOMAIN jobs /\ jobs[driver.job].base = driver.weights
          /\ Federated => Cardinality(driver.keys) >= MinParticipants
          /\ \A s \in keys : jobs[driver.job].tasks[s].state = "done"
      BY DEF DriverInv, Running
    <2>3. /\ {c[1] : c \in from} = keys
          /\ \A c \in from : c[1] \in keys /\ c[2] = jobs[driver.job].tasks[c[1]].file
      BY <2>1, <2>2, FetchedIsFrom
    <2>4. \A s \in Shards : jobs[driver.job].tasks[s].file = jobs[driver.job].tasks[s].attempt
      BY <2>2 DEF ShapeInv, GoodJob, GoodTask
    <2>5. driver'.weights = Append(driver.weights, round)
      <3>1. CASE Fetch
        BY <2>1, <3>1 DEF Fetch, Go, Driver
      <3>2. CASE Reduce
        <4>1. ~Federated /\ driver' # Dead
          BY <3>2 DEF Reduce, Dead, Started
        <4> QED BY <2>1, <3>2, <4>1 DEF Reduce, Go, Driver
      <3>3. ASSUME NEW j \in DOMAIN jobs, CancelJob(j) \/ \E s \in Shards :
                       Attempt(j, s) \/ Commit(j, s) \/ Lapse(j, s)
            PROVE  driver' = driver
        BY <3>3, WorkersMoveTasks
      <3>4. ~Submit /\ ~ListArtifacts /\ ~ListTasks /\ ~ReadState /\ ~Publish /\ ~Report
        BY DEF Submit, ListArtifacts, ListTasks, ReadState, Publish, Report
      <3>5. ~ReadingFails /\ ~Stops /\ ~Restart
        BY DEF ReadingFails, Stops, Restart, Polling, Dead, Started
      <3> QED BY <3>1, <3>2, <3>3, <3>4, <3>5 DEF Next, DriverStep
    <2>6. driver'.weights[Len(driver.weights) + 1] = round
      <3> HIDE DEF round
      <3> QED BY <2>1, <2>5 DEF Weights
    <2>7. round.job = driver.job /\ round.from = from
      BY DEF Round
    <2>8. Enough(from)
      <3>1. Cardinality(Shards) \in Nat
        BY QuorumAssumption, FS_CardinalityType
      <3>2. Cardinality(keys) >= (IF Federated THEN MinParticipants ELSE Cardinality(Shards))
        BY <2>2, <3>1
      <3> HIDE DEF keys, from
      <3> QED BY <2>3, <3>2 DEF Enough
    <2> HIDE DEF round, from
    <2> QED BY <2>1, <2>2, <2>3, <2>4, <2>5, <2>6, <2>7, <2>8
  <1> QED BY <1>1, RoundsInvariant, PTL DEF Spec, WeightsAreEarned

-----------------------------------------------------------------------------
(***************************************************************************)
(* Decisions                                                               *)
(***************************************************************************)

\* A behaviour has asked nothing, or keeps one question with the answer to it.
Answered ==
    \/ asked = Nothing
    \/ \E job \in Jobs, host \in Hosts, content \in Contents, trusted_fleet \in BOOLEAN :
          /\ asked = [kind |-> "hosting", job |-> job, host |-> host, content |-> content]
          /\ answer = Hosted(job, host, content, trusted_fleet)
    \/ \E task \in Tasks, view \in Views :
          /\ asked = [kind |-> "placement", task |-> task, view |-> view]
          /\ answer = Eligible(task, view)
    \/ \E signals \in Signals, mode \in Recovery!Mode :
          /\ asked = [kind |-> "recovery", signals |-> signals, mode |-> mode]
          /\ answer = Recovery!Decide(Recovery!Classify(signals), mode)
    \/ \E members \in Archives :
          /\ asked = [kind |-> "extraction", members |-> members]
          /\ answer = Extract(members, MaxBytes, MaxMembers)
    \/ \E request \in Requests :
          /\ asked = [kind |-> "plan", request |-> request]
          /\ answer = [best |-> Best(request), hints |-> Hints(request)]
    \/ \E n \in 0 .. MaxContributions : \E cs \in [1 .. n -> Contributions] :
          /\ asked = [kind |-> "average", round |-> cs]
          /\ answer = IF ReductionRefused(cs) THEN [refused |-> TRUE]
                      ELSE [refused |-> FALSE, mean |-> Reduced(cs)]

\* What is kept is always a question and the answer to it.
LEMMA AnswersAreKept == DecisionSpec => []Answered
  <1>1. DecisionInit => Answered
    BY DEF DecisionInit, Answered
  <1>2. Answered /\ [DecisionNext]_decisionVars => Answered'
    <2> SUFFICES ASSUME Answered, [DecisionNext]_decisionVars
                 PROVE  Answered'
      OBVIOUS
    <2>1. CASE UNCHANGED decisionVars
      BY <2>1 DEF Answered, decisionVars
    <2>2. CASE AskHosting
      BY <2>2 DEF Answered, AskHosting
    <2>3. CASE AskPlacement
      BY <2>3 DEF Answered, AskPlacement
    <2>4. CASE AskRecovery
      BY <2>4 DEF Answered, AskRecovery
    <2>5. CASE AskExtraction
      BY <2>5 DEF Answered, AskExtraction
    <2>6. CASE AskPlan
      BY <2>6 DEF Answered, AskPlan
    <2>7. CASE AskAverage
      BY <2>7 DEF Answered, AskAverage
    <2> QED BY <2>1, <2>2, <2>3, <2>4, <2>5, <2>6, <2>7 DEF DecisionNext
  <1> QED BY <1>1, <1>2, PTL DEF DecisionSpec

-----------------------------------------------------------------------------
\* The capabilities a host registers.
LEMMA RegisteredView ==
    ASSUME NEW host \in Host
    PROVE  LET view == NodeView(Registration(host))
           IN  /\ view.argv_capable = (host.runner = "argv")
               /\ view.module_capable = (host.runner # "argv")
               /\ view.unsandboxed_argv_capable = (host.runner = "trusted")
               /\ view.sandbox_capable = (host.claims_sandbox \/ host.runner = "argv")
               /\ view.local_datasets = host.datasets
               /\ view.pools = host.pools
  BY DEF NodeView, Registration, Host

\* The requirements the tasks of a job carry.
LEMMA CarriedRequirements ==
    ASSUME NEW job \in JobSpec
    PROVE  LET payload == Payload(job)
           IN  /\ payload.kind = IF job.type = "command" THEN "argv" ELSE "module"
               /\ payload.pool = IF job.pool = "any" THEN Absent ELSE job.pool
               /\ payload.isolation = [tier |-> job.tier, waived |-> job.waived]
               /\ payload.local_inputs = IF job.type = "command" THEN job.local_inputs ELSE Absent
               /\ payload.gpus = IF job.type = "command" /\ job.gpus # 0 THEN job.gpus ELSE Absent
  BY DEF Payload, CommandPayload, LegacyPayload, PoolOf, Isolation, JobSpec

\* A task that runs has what its job's spec asked for.
LEMMA HostedAsAsked ==
    ASSUME HonestClaims, NEW job \in Jobs, NEW host \in Hosts, NEW content, NEW trusted_fleet,
           Hosted(job, host, content, trusted_fleet).runs
    PROVE  LET gets == Gets(host, Payload(job))
               command == job.type = "command"
           IN  /\ job.pool # "any" => job.pool \in host.pools
               /\ job.tier = "sandboxed" /\ ~job.waived => gets.contained
               /\ command /\ ~gets.contained => job.waived /\ job.pool # "any"
               /\ command /\ gets.contained =>
                     /\ gets.gpus = job.gpus
                     /\ gets.datasets = IF job.local_inputs = Absent THEN {} ELSE job.local_inputs
  <1> DEFINE payload == Payload(job)
             view == NodeView(Registration(host))
  <1>1. job \in JobSpec /\ host \in Host
    BY HostingAssumption
  <1>2. Eligible(payload, view)
    BY DEF Hosted
  <1>3. /\ payload.kind = IF job.type = "command" THEN "argv" ELSE "module"
        /\ payload.pool = IF job.pool = "any" THEN Absent ELSE job.pool
        /\ payload.isolation = [tier |-> job.tier, waived |-> job.waived]
        /\ payload.local_inputs = IF job.type = "command" THEN job.local_inputs ELSE Absent
        /\ payload.gpus = IF job.type = "command" /\ job.gpus # 0 THEN job.gpus ELSE Absent
    BY <1>1, CarriedRequirements
  <1>4. /\ view.argv_capable = (host.runner = "argv")
        /\ view.unsandboxed_argv_capable = (host.runner = "trusted")
        /\ view.sandbox_capable = (host.claims_sandbox \/ host.runner = "argv")
        /\ view.pools = host.pools
    BY <1>1, RegisteredView
  <1>5. /\ job.pool \in STRING /\ job.gpus \in Nat /\ job.waived \in BOOLEAN
        /\ payload.isolation \in IsolationBlock
        /\ payload.isolation.tier = job.tier /\ payload.isolation.waived = job.waived
    BY <1>1, <1>3 DEF JobSpec, IsolationBlock
  <1>6. /\ Absent \notin STRING /\ Absent \notin Int /\ Confused \notin Int
        /\ payload.isolation \notin {Absent, Confused}
    BY <1>5, RequirementAssumption
  <1> HIDE DEF payload, view
  <1>7. job.pool # "any" => job.pool \in host.pools
    BY <1>2, <1>3, <1>4, <1>5, <1>6 DEF Eligible, PoolGate, Given
  <1>8. job.tier = "sandboxed" /\ ~job.waived => Contained(host)
    <2>1. job.tier = "sandboxed" /\ ~job.waived => view.sandbox_capable
      <3>1. job.tier = "sandboxed" => job.tier \notin {Absent, "", "standard"}
        <4>1. job.tier # Absent
          BY <1>1, <1>6 DEF JobSpec
        <4> QED BY <4>1
      <3>2. IsolationGate(payload, view) /\ Given(payload.isolation)
        BY <1>2, <1>6 DEF Eligible, Given
      <3> QED BY <1>5, <3>1, <3>2, Zenon DEF IsolationGate
    <2> QED BY <2>1, <1>4 DEF HonestClaims, Contained
  <1>9. job.type = "command" /\ ~Contained(host) => job.waived /\ job.pool # "any"
    BY <1>2, <1>3, <1>4, <1>5 DEF Eligible, ArgvGate, Contained, IsName, WaivesIsolation
  <1>10. job.type = "command" /\ Contained(host) =>
            /\ GpuFlag(payload) = job.gpus
            /\ Mounted(host, payload) = IF job.local_inputs = Absent THEN {} ELSE job.local_inputs
    BY <1>3, <1>5, <1>6 DEF GpuFlag, Mounted
  <1>11. LET gets == Gets(host, payload)
         IN  /\ gets.contained = Contained(host)
             /\ Contained(host) => gets.datasets = Mounted(host, payload)
             /\ Contained(host) => gets.gpus = GpuFlag(payload)
    BY DEF Gets
  <1> QED BY <1>7, <1>8, <1>9, <1>10, <1>11 DEF payload

\* What a task that runs has is what its job's spec asked for, for every job, host,
\* content and kind of fleet: no hop from the spec to the runner leaves a requirement out
\* (recipes/command.py, IsolationAwarePlacement.eligible, the runners).  A host that
\* claims a sandbox it has not is believed, so the claims are taken to be honest.
THEOREM JobsRunAsAsked == HonestClaims /\ DecisionSpec => []JobRunsAsAsked
  <1> SUFFICES ASSUME HonestClaims
               PROVE  DecisionSpec => []JobRunsAsAsked
    OBVIOUS
  <1>1. Answered => JobRunsAsAsked
    <2> SUFFICES ASSUME Answered, asked.kind = "hosting", answer.runs
                 PROVE  JobRunsAsAsked
      BY DEF JobRunsAsAsked
    <2>1. PICK job \in Jobs, host \in Hosts, content \in Contents, trusted_fleet \in BOOLEAN :
              /\ asked = [kind |-> "hosting", job |-> job, host |-> host, content |-> content]
              /\ answer = Hosted(job, host, content, trusted_fleet)
      BY DEF Answered, Nothing
    <2>2. asked.job = job /\ asked.host = host /\ answer.gets = Gets(host, Payload(job))
      BY <2>1 DEF Hosted
    <2> QED BY <2>1, <2>2, HostedAsAsked DEF JobRunsAsAsked
  <1> QED BY <1>1, AnswersAreKept, PTL

-----------------------------------------------------------------------------
\* A runner takes what was placed for it.
LEMMA PlacedIsTaken ==
    ASSUME AllowlistsAgree, NEW job \in Jobs, NEW host \in Hosts, NEW content \in Contents,
           Eligible(Payload(job), NodeView(Registration(host))), host.runner # "trusted",
           ImageAllowed(content.image, host), content.env_ok
    PROVE  ~RunnerRefuses(host, Payload(job), content)
  <1> DEFINE payload == Payload(job)
             view == NodeView(Registration(host))
  <1>1. job \in JobSpec /\ host \in Host
    BY HostingAssumption
  <1>2. host.runner \in {"subprocess", "docker", "argv"} /\ content.allowlisted
    BY <1>1 DEF Host, Runner, AllowlistsAgree
  <1>3. /\ view.argv_capable = (host.runner = "argv")
        /\ view.module_capable = (host.runner # "argv")
        /\ view.unsandboxed_argv_capable = (host.runner = "trusted")
        /\ view.local_datasets = host.datasets
    BY <1>1, RegisteredView
  <1>4. payload.kind \in {"argv", "module"}
    BY <1>1, CarriedRequirements
  <1> HIDE DEF payload, view
  <1>5. Eligible(payload, view)
    BY DEF payload, view
  <1>6. payload.kind = IF host.runner = "argv" THEN "argv" ELSE "module"
    BY <1>2, <1>3, <1>4, <1>5 DEF Eligible, ArgvGate, ModuleGate
  <1>7. ~MountsRefused(host, payload)
    BY <1>3, <1>5 DEF Eligible, LocalDataGate, Given, MountsRefused
  <1>8. ~RunnerRefuses(host, payload, content)
    BY <1>2, <1>6, <1>7 DEF RunnerRefuses
  <1> QED BY <1>8 DEF payload

\* A task placed on a host whose owner allows its image runs there, for every job and
\* host but those of the trusted tier: what `flashnode work` registers for its runner is
\* what the runner takes.  Both ends have their own list of modules, taken to agree.
THEOREM PlacedWorkIsRun == AllowlistsAgree /\ DecisionSpec => []PlacedIsRun
  <1> SUFFICES ASSUME AllowlistsAgree
               PROVE  DecisionSpec => []PlacedIsRun
    OBVIOUS
  <1>1. Answered => PlacedIsRun
    <2> SUFFICES ASSUME Answered, asked.kind = "hosting", answer.placed,
                        asked.host.runner # "trusted",
                        ImageAllowed(asked.content.image, asked.host), asked.content.env_ok
                 PROVE  answer.runs
      BY DEF PlacedIsRun
    <2>1. PICK job \in Jobs, host \in Hosts, content \in Contents, trusted_fleet \in BOOLEAN :
              /\ asked = [kind |-> "hosting", job |-> job, host |-> host, content |-> content]
              /\ answer = Hosted(job, host, content, trusted_fleet)
      BY DEF Answered, Nothing
    <2>2. /\ asked.host = host /\ asked.content = content
          /\ answer.placed => Eligible(Payload(job), NodeView(Registration(host)))
          /\ answer.runs = (answer.placed /\ ~RunnerRefuses(host, Payload(job), content))
      BY <2>1 DEF Hosted
    <2> QED BY <2>1, <2>2, PlacedIsTaken
  <1> QED BY <1>1, AnswersAreKept, PTL

-----------------------------------------------------------------------------
\* A task that is eligible with its waiver is eligible without it, on the same host with
\* a sandbox.
LEMMA WaivedIsSandboxed ==
    ASSUME NEW task \in Requirements, NEW view \in Advertisement,
           Eligible(task, view), WaivesIsolation(task)
    PROVE  Eligible([task EXCEPT !.isolation.waived = FALSE],
                    [view EXCEPT !.sandbox_capable = TRUE, !.argv_capable = TRUE])
  <1> DEFINE strict == [task EXCEPT !.isolation.waived = FALSE]
             able == [view EXCEPT !.sandbox_capable = TRUE, !.argv_capable = TRUE]
  <1>1. task.isolation \in IsolationBlock
    BY DEF Requirements, Requirement, WaivesIsolation
  <1>2. /\ strict.kind = task.kind /\ strict.pool = task.pool
        /\ strict.local_inputs = task.local_inputs /\ strict.gpus = task.gpus
        /\ strict.exclude_nodes = task.exclude_nodes
        /\ strict.isolation = [task.isolation EXCEPT !.waived = FALSE]
    BY DEF Requirements
  <1>3. strict.isolation \in IsolationBlock
    BY <1>1, <1>2 DEF IsolationBlock
  <1>4. /\ able.sandbox_capable /\ able.argv_capable /\ able.module_capable = view.module_capable
        /\ able.local_datasets = view.local_datasets /\ able.gpus = view.gpus
        /\ able.node_id = view.node_id /\ able.pools = view.pools
    BY DEF Advertisement
  <1> HIDE DEF strict, able
  <1>5. ArgvGate(strict, able) /\ ModuleGate(strict, able) /\ LocalDataGate(strict, able)
    BY <1>2, <1>4 DEF Eligible, ArgvGate, ModuleGate, LocalDataGate, Given
  <1>6. GpuGate(strict, able) /\ ExclusionGate(strict, able) /\ PoolGate(strict, able)
    BY <1>2, <1>4 DEF Eligible, GpuGate, ExclusionGate, PoolGate, Given
  <1>7. IsolationGate(strict, able)
    BY <1>3, <1>4, RequirementAssumption DEF IsolationGate
  <1>8. Eligible(strict, able)
    BY <1>5, <1>6, <1>7 DEF Eligible
  <1> QED BY <1>8 DEF strict, able

\* A waiver buys the sandbox and nothing else, whatever a payload and a registration hold,
\* values of no meaning included: no other gate of eligible looks at it.
THEOREM WaiversBuyOnlyTheSandbox == DecisionSpec => []WaiverBuysOnlyTheSandbox
  <1>1. Answered => WaiverBuysOnlyTheSandbox
    <2> SUFFICES ASSUME Answered, asked.kind = "placement"
                 PROVE  WaiverBuysOnlyTheSandbox
      BY DEF WaiverBuysOnlyTheSandbox
    <2>1. PICK task \in Tasks, view \in Views :
              /\ asked = [kind |-> "placement", task |-> task, view |-> view]
              /\ answer = Eligible(task, view)
      BY DEF Answered, Nothing
    <2>2. /\ asked.task = task /\ asked.view = view
          /\ task \in Requirements /\ view \in Advertisement
      BY <2>1, PlacementAssumption
    <2> QED BY <2>1, <2>2, WaivedIsSandboxed DEF WaiverBuysOnlyTheSandbox
  <1> QED BY <1>1, AnswersAreKept, PTL

-----------------------------------------------------------------------------
\* Evidence of an incident takes precedence over all other.
LEMMA SystemicComesFirst ==
    ASSUME NEW s, s.control_plane \/ s.concurrent >= Recovery!CORRELATED_THRESHOLD
    PROVE  Recovery!Classify(s) \in {"CORRELATED_INCIDENT", "CONTROL_PLANE_FAILURE"}
  <1> DEFINE First(k) == /\ Recovery!Evidence(Recovery!Precedence[k], s)
                         /\ \A j \in 1 .. k - 1 : ~Recovery!Evidence(Recovery!Precedence[j], s)
             chosen == CHOOSE k \in DOMAIN Recovery!Precedence : First(k)
  <1>1. /\ DOMAIN Recovery!Precedence = 1 .. 11
        /\ Recovery!Precedence[1] = "CORRELATED_INCIDENT"
        /\ Recovery!Precedence[2] = "CONTROL_PLANE_FAILURE"
    BY DEF Recovery!Precedence
  <1>2. Recovery!Evidence(Recovery!Precedence[1], s) \/ Recovery!Evidence(Recovery!Precedence[2], s)
    BY <1>1 DEF Recovery!Evidence
  <1>3. \E k \in DOMAIN Recovery!Precedence : First(k)
    <2>1. CASE Recovery!Evidence(Recovery!Precedence[1], s)
      <3>1. First(1)
        BY <2>1
      <3> HIDE DEF First
      <3> QED BY <3>1, <1>1
    <2>2. CASE ~Recovery!Evidence(Recovery!Precedence[1], s)
      <3>1. First(2)
        BY <2>2, <1>2
      <3> HIDE DEF First
      <3> QED BY <3>1, <1>1
    <2> QED BY <2>1, <2>2
  <1>4. chosen \in 1 .. 11 /\ First(chosen)
    <2> HIDE DEF First
    <2> QED BY <1>1, <1>3
  <1>5. chosen \in 1 .. 2
    <2> HIDE DEF chosen
    <2>1. CASE chosen > 2
      <3>1. 1 \in 1 .. chosen - 1 /\ 2 \in 1 .. chosen - 1
        BY <2>1, <1>4
      <3> QED BY <3>1, <1>4, <1>2
    <2> QED BY <2>1, <1>4
  <1>6. Recovery!Classify(s) = Recovery!Precedence[chosen]
    BY DEF Recovery!Classify
  <1> HIDE DEF chosen
  <1> QED BY <1>1, <1>5, <1>6

\* Nothing is retried, replaced or failed for its own evidence while the control plane is
\* failing or several workers fail at once, whatever else is seen: of the classes that have
\* evidence the first in the order of precedence is taken.
THEOREM SystemicEvidenceStopsThem == DecisionSpec => []SystemicEvidenceStopsRetries
  <1>1. Answered => SystemicEvidenceStopsRetries
    <2> SUFFICES ASSUME Answered, asked.kind = "recovery",
                        \/ asked.signals.control_plane
                        \/ asked.signals.concurrent >= Recovery!CORRELATED_THRESHOLD
                 PROVE  answer.action \in {"PAUSE_JOB", "FREEZE_AUTOMATION"}
      BY DEF SystemicEvidenceStopsRetries
    <2>1. PICK signals \in Signals, mode \in Recovery!Mode :
              /\ asked = [kind |-> "recovery", signals |-> signals, mode |-> mode]
              /\ answer = Recovery!Decide(Recovery!Classify(signals), mode)
      BY DEF Answered, Nothing
    <2>2. Recovery!Classify(signals) \in {"CORRELATED_INCIDENT", "CONTROL_PLANE_FAILURE"}
      BY <2>1, SystemicComesFirst
    <2> QED BY <2>1, <2>2 DEF Recovery!Decide, Recovery!ActionAlone, Recovery!ActionOfGroup
  <1> QED BY <1>1, AnswersAreKept, PTL
-----------------------------------------------------------------------------
\* A set that has 0, and k when it has k - 1, has every number up to n: a
\* least number that it misses has nothing to be missed for.
LEMMA UpTo ==
    ASSUME NEW n \in Nat, NEW T, 0 \in T, \A k \in 1 .. n : k - 1 \in T => k \in T
    PROVE  0 .. n \subseteq T
  <1> DEFINE R == OpToRel(<, Nat)
             Missed == {k \in 0 .. n : k \notin T}
  <1>1. \A k, m \in Nat : k < m => <<k, m>> \in R
    BY DEF OpToRel
  <1>2. SUFFICES ASSUME Missed # {}
                 PROVE  FALSE
    OBVIOUS
  <1>3. PICK m \in Missed : \A k \in Missed : ~(<<k, m>> \in R)
    <2>1. Missed \subseteq Nat
      OBVIOUS
    <2> HIDE DEF Missed
    <2> QED
      BY <1>2, <2>1, NatLessThanWellFounded, WFMin
  <1> HIDE DEF R
  <1>4. m \in 1 .. n /\ m - 1 \in 0 .. n /\ m - 1 < m
    BY <1>3
  <1>5. m - 1 \notin Missed
    <2>1. <<m - 1, m>> \in R
      BY <1>1, <1>4
    <2> HIDE DEF Missed
    <2> QED
      BY <1>3, <2>1
  <1> QED
    BY <1>3, <1>4, <1>5

\* What the recursion of MapThenSumSet over a set S asks of its table of sums.
IsSum(g, w, S) ==
    g = [s \in SUBSET S |->
            IF s = {} THEN 0 ELSE w[CHOOSE x \in s : TRUE] + g[s \ {CHOOSE x \in s : TRUE}]]

\* The sizes of a set without one of its elements.
LEMMA OneLess ==
    ASSUME NEW S, IsFiniteSet(S), NEW s \in SUBSET S, NEW x \in s
    PROVE  /\ IsFiniteSet(s) /\ s \ {x} \in SUBSET S
           /\ Cardinality(s) \in Nat /\ Cardinality(s) # 0
           /\ Cardinality(s \ {x}) = Cardinality(s) - 1
  <1>1. IsFiniteSet(s)
    BY FS_Subset
  <1> QED BY <1>1, FS_RemoveElement, FS_EmptySet, FS_CardinalityType

\* Every finite set of numbers has a table of sums.
LEMMA SumExists ==
    ASSUME NEW S, IsFiniteSet(S), NEW w \in [S -> Int]
    PROVE  \E g : IsSum(g, w, S)
  <1> DEFINE Small(n) == {s \in SUBSET S : Cardinality(s) <= n}
             Pick(s) == CHOOSE x \in s : TRUE
             Partial(g, n) ==
                g = [s \in Small(n) |-> IF s = {} THEN 0 ELSE w[Pick(s)] + g[s \ {Pick(s)}]]
             T == {n \in Nat : \E g : Partial(g, n)}
             n0 == Cardinality(S)
  <1>0. n0 \in Nat
    BY FS_CardinalityType
  <1>1. \A s \in SUBSET S : s # {} => Pick(s) \in s /\ s \ {Pick(s)} \in SUBSET S
    OBVIOUS
  <1>2. \A s \in SUBSET S : s # {} => /\ Cardinality(s) \in Nat /\ Cardinality(s) # 0
                                      /\ Cardinality(s \ {Pick(s)}) = Cardinality(s) - 1
    BY <1>1, OneLess
  <1>3. 0 \in T
    <2>1. \A s \in Small(0) : s = {}
      <3> HIDE DEF Pick
      <3> SUFFICES ASSUME NEW s \in SUBSET S, Cardinality(s) <= 0, s # {}
                   PROVE  FALSE
        OBVIOUS
      <3>1. PICK x : x \in s
        OBVIOUS
      <3>2. Cardinality(s) \in Nat /\ Cardinality(s) # 0
        BY <3>1, OneLess
      <3> QED BY <3>2
    <2>2. Partial([s \in Small(0) |-> 0], 0)
      <3> HIDE DEF Small
      <3> QED BY <2>1
    <2> HIDE DEF Partial
    <2> QED BY <2>2
  <1>4. \A k \in 1 .. n0 : k - 1 \in T => k \in T
    <2> SUFFICES ASSUME NEW k \in 1 .. n0, k - 1 \in T
                 PROVE  k \in T
      OBVIOUS
    <2>1. PICK g : Partial(g, k - 1)
      <3> HIDE DEF Partial
      <3> QED OBVIOUS
    <2> DEFINE h == [s \in Small(k) |-> IF s = {} THEN 0 ELSE w[Pick(s)] + g[s \ {Pick(s)}]]
    <2>2. \A s \in Small(k) : s # {} => s \ {Pick(s)} \in Small(k - 1)
      <3> HIDE DEF Pick
      <3> QED BY <1>1, <1>2
    <2>3. \A s \in Small(k - 1) : s \in Small(k)
      BY <1>2, <1>0, FS_EmptySet
    <2>4. \A s \in Small(k - 1) : h[s] = g[s]
      <3> HIDE DEF Small, Pick
      <3> QED BY <2>1, <2>3
    <2>5. Partial(h, k)
      <3> HIDE DEF Small, Pick
      <3> QED BY <2>2, <2>4
    <2> HIDE DEF Partial, h
    <2> QED BY <2>5
  <1>5. n0 \in T
    <2> HIDE DEF T, n0
    <2>1. 0 .. n0 \subseteq T
      BY <1>0, <1>3, <1>4, UpTo
    <2> QED BY <1>0, <2>1
  <1>6. Small(n0) = SUBSET S
    BY FS_Subset
  <1>7. PICK g : Partial(g, n0)
    <2> HIDE DEF Partial
    <2> QED BY <1>5
  <1>8. IsSum(g, w, S)
    <2> HIDE DEF Small
    <2> QED BY <1>6, <1>7 DEF IsSum
  <1> QED BY <1>8

\* A sum is a number.
LEMMA SumIsNumber ==
    ASSUME NEW S, IsFiniteSet(S), NEW w \in [S -> Int], NEW g, IsSum(g, w, S)
    PROVE  \A s \in SUBSET S : g[s] \in Int
  <1> DEFINE T == {n \in Nat : \A s \in SUBSET S : Cardinality(s) <= n => g[s] \in Int}
             Pick(s) == CHOOSE x \in s : TRUE
             n0 == Cardinality(S)
  <1>0. n0 \in Nat
    BY FS_CardinalityType
  <1>1. \A s \in SUBSET S : s # {} => Pick(s) \in s /\ s \ {Pick(s)} \in SUBSET S
    OBVIOUS
  <1>2. \A s \in SUBSET S : s # {} => /\ Cardinality(s) \in Nat /\ Cardinality(s) # 0
                                      /\ Cardinality(s \ {Pick(s)}) = Cardinality(s) - 1
    BY <1>1, OneLess
  <1>3. /\ g[{}] = 0
        /\ \A s \in SUBSET S : s # {} => g[s] = w[Pick(s)] + g[s \ {Pick(s)}]
    BY DEF IsSum
  <1> HIDE DEF Pick
  <1>4. 0 \in T
    <2> SUFFICES ASSUME NEW s \in SUBSET S, Cardinality(s) <= 0
                 PROVE  g[s] \in Int
      OBVIOUS
    <2>1. s = {}
      <3> SUFFICES ASSUME NEW x \in s
                   PROVE  FALSE
        OBVIOUS
      <3>1. Cardinality(s) \in Nat /\ Cardinality(s) # 0
        BY OneLess
      <3> QED BY <3>1
    <2> QED BY <2>1, <1>3
  <1>5. \A k \in 1 .. n0 : k - 1 \in T => k \in T
    <2> SUFFICES ASSUME NEW k \in 1 .. n0, k - 1 \in T, NEW s \in SUBSET S, Cardinality(s) <= k
                 PROVE  g[s] \in Int
      OBVIOUS
    <2>1. CASE s = {}
      BY <2>1, <1>3
    <2>2. CASE s # {}
      <3>0. /\ s \ {Pick(s)} \in SUBSET S /\ Pick(s) \in s
            /\ Cardinality(s \ {Pick(s)}) <= k - 1
        <4>1. Pick(s) \in s
          BY <2>2 DEF Pick
        <4> QED BY <4>1, OneLess
      <3>1. g[s \ {Pick(s)}] \in Int
        BY <3>0
      <3>2. w[Pick(s)] \in Int
        BY <2>2, <1>1
      <3>3. g[s] = w[Pick(s)] + g[s \ {Pick(s)}]
        BY <2>2, <1>3
      <3> QED BY <3>1, <3>2, <3>3
    <2> QED BY <2>1, <2>2
  <1>6. n0 \in T
    <2> HIDE DEF T, n0
    <2>1. 0 .. n0 \subseteq T
      BY <1>0, <1>4, <1>5, UpTo
    <2> QED BY <1>0, <2>1
  <1> QED BY <1>6, FS_Subset

\* Any element can be taken out of a sum first.
TakesOut(g, w, S) == \A s \in SUBSET S : \A x \in s : g[s] = w[x] + g[s \ {x}]

\* It can, of every sum of a finite set, whichever element the recursion picks.
LEMMA SumTakesOut ==
    ASSUME NEW S, IsFiniteSet(S), NEW w \in [S -> Int], NEW g, IsSum(g, w, S)
    PROVE  TakesOut(g, w, S)
  <1> DEFINE Splits(s) == \A x \in s : g[s] = w[x] + g[s \ {x}]
             T == {n \in Nat : \A s \in SUBSET S : Cardinality(s) <= n => Splits(s)}
             Pick(s) == CHOOSE x \in s : TRUE
             n0 == Cardinality(S)
  <1>0. n0 \in Nat
    BY FS_CardinalityType
  <1>1. \A s \in SUBSET S : s # {} => Pick(s) \in s /\ s \ {Pick(s)} \in SUBSET S
    OBVIOUS
  <1>2. \A s \in SUBSET S : \A x \in s : /\ Cardinality(s) \in Nat /\ Cardinality(s) # 0
                                         /\ Cardinality(s \ {x}) = Cardinality(s) - 1
    BY OneLess
  <1>3. \A s \in SUBSET S : s # {} => g[s] = w[Pick(s)] + g[s \ {Pick(s)}]
    BY DEF IsSum
  <1>4. \A s \in SUBSET S : g[s] \in Int
    BY SumIsNumber
  <1> HIDE DEF Pick
  <1>5. 0 \in T
    BY <1>2
  <1>6. \A k \in 1 .. n0 : k - 1 \in T => k \in T
    <2> SUFFICES ASSUME NEW k \in 1 .. n0, k - 1 \in T, NEW s \in SUBSET S, Cardinality(s) <= k,
                        NEW x \in s
                 PROVE  g[s] = w[x] + g[s \ {x}]
      OBVIOUS
    <2> DEFINE p == Pick(s)
    <2>1. p \in s /\ g[s] = w[p] + g[s \ {p}]
      BY <1>1, <1>3
    <2>2. CASE x = p
      BY <2>1, <2>2
    <2>3. CASE x # p
      <3> HIDE DEF p
      <3>1. /\ s \ {p} \in SUBSET S /\ Cardinality(s \ {p}) <= k - 1 /\ x \in s \ {p}
            /\ s \ {x} \in SUBSET S /\ Cardinality(s \ {x}) <= k - 1 /\ p \in s \ {x}
        BY <1>2, <2>1, <2>3
      <3>2. g[s \ {p}] = w[x] + g[(s \ {p}) \ {x}] /\ g[s \ {x}] = w[p] + g[(s \ {x}) \ {p}]
        BY <3>1
      <3>3. (s \ {p}) \ {x} = (s \ {x}) \ {p}
        OBVIOUS
      <3>4. w[x] \in Int /\ w[p] \in Int /\ g[(s \ {x}) \ {p}] \in Int
        BY <1>4, <2>1
      <3> DEFINE rest == g[(s \ {x}) \ {p}]
      <3>5. g[s] = w[p] + (w[x] + rest) /\ g[s \ {x}] = w[p] + rest
        BY <2>1, <3>2, <3>3
      <3>6. rest \in Int
        BY <3>4
      <3> HIDE DEF rest
      <3> QED BY <3>4, <3>5, <3>6
    <2> QED BY <2>2, <2>3
  <1>7. n0 \in T
    <2> HIDE DEF T, n0
    <2>1. 0 .. n0 \subseteq T
      BY <1>0, <1>5, <1>6, UpTo
    <2> QED BY <1>0, <2>1
  <1> QED BY <1>7, FS_Subset DEF TakesOut

-----------------------------------------------------------------------------
\* The sizes of files are added up in some order.
LEMMA SizesAreSummed ==
    ASSUME NEW members, NEW W, IsFiniteSet(W), \A k \in W : members[k].size \in Int
    PROVE  \E g : /\ IsSum(g, [k \in W |-> members[k].size], W)
                  /\ Unpacked(members, W) = g[W]
  <1> DEFINE w == [k \in W |-> members[k].size]
             Solves(g) == g = [s \in SUBSET W |->
                            IF s = {} THEN 0
                            ELSE members[CHOOSE x \in s : TRUE].size
                                 + g[s \ {CHOOSE x \in s : TRUE}]]
             g0 == CHOOSE g : Solves(g)
  <1>1. w \in [W -> Int]
    OBVIOUS
  <1>2. PICK g : IsSum(g, w, W)
    <2> HIDE DEF w
    <2> QED BY <1>1, SumExists
  <1>3. \A h : IsSum(h, w, W) <=> Solves(h)
    BY DEF IsSum
  <1>4. Solves(g0)
    <2> HIDE DEF Solves
    <2> QED BY <1>2, <1>3
  <1>5. Unpacked(members, W) = g0[W]
    BY DEF Unpacked, MapThenSumSet, MapThenFoldSet
  <1>6. IsSum(g0, w, W)
    <2> HIDE DEF Solves, w, g0
    <2> QED BY <1>3, <1>4
  <1> HIDE DEF Solves, g0
  <1> QED BY <1>5, <1>6

\* The steps of an extraction, and where they end.
LEMMA ExtractionSteps ==
    ASSUME NEW members, Len(members) \in Nat, NEW cap, NEW max_members
    PROVE  \E at : /\ at[0] = Untouched
                   /\ \A k \in 1 .. Len(members) :
                         at[k] = ExtractStep(at[k - 1], members, k, cap, max_members)
                   /\ Extraction(members, cap, max_members) = at[Len(members)]
  <1> DEFINE start == Untouched
             Step(sofar, k) == ExtractStep(sofar, members, k, cap, max_members)
             Solves(n, f) == f = [k \in 0 .. n |-> IF k = 0 THEN start ELSE Step(f[k - 1], k)]
             T == {n \in Nat : \E f : Solves(n, f)}
             f0 == CHOOSE f : Solves(Len(members), f)
  <1> HIDE DEF start
  <1>1. 0 \in T
    <2>1. Solves(0, [k \in 0 .. 0 |-> start])
      OBVIOUS
    <2> QED BY <2>1
  <1>2. ASSUME NEW n \in 1 .. Len(members), n - 1 \in T
        PROVE  n \in T
    <2>1. PICK g : Solves(n - 1, g)
      BY <1>2
    <2> DEFINE h == [k \in 0 .. n |-> IF k = n THEN Step(g[n - 1], n) ELSE g[k]]
    <2> HIDE DEF Step
    <2>2. Solves(n, h)
      BY <2>1
    <2>3. \E f : Solves(n, f)
      <3> HIDE DEF Solves, h
      <3> QED BY <2>2
    <2> QED BY <2>3
  <1>3. Len(members) \in T
    <2> HIDE DEF T
    <2>1. 0 .. Len(members) \subseteq T
      BY <1>1, <1>2, UpTo
    <2> QED BY <2>1
  <1>4. Extraction(members, cap, max_members) = f0[Len(members)]
    BY DEF Extraction, start
  <1>5. Solves(Len(members), f0)
    <2> HIDE DEF Solves
    <2> QED BY <1>3
  <1> HIDE DEF f0, Step
  <1>6. /\ f0[0] = start
        /\ \A k \in 1 .. Len(members) : f0[k] = Step(f0[k - 1], k)
    BY <1>5
  <1> QED BY <1>4, <1>6 DEF start, Step

\* A step that does not end the extraction has written a member to its end.
LEMMA StepTaken ==
    ASSUME NEW members, NEW k, NEW written, NEW spent, NEW cap, NEW max_members,
           ~ExtractStep([refused |-> FALSE, written |-> written, bytes |-> spent],
                        members, k, cap, max_members).refused
    PROVE  LET m == members[k]
               bytes == IF m.kind = "file" THEN spent + m.size ELSE spent
               others == {j \in written : members[j].name # m.name}
           IN  /\ ~MemberRefused(members, k) /\ m.intact /\ ~(bytes > cap)
               /\ ExtractStep([refused |-> FALSE, written |-> written, bytes |-> spent],
                              members, k, cap, max_members)
                    = [refused |-> FALSE, bytes |-> bytes,
                       written |-> IF m.kind = "file" THEN others \cup {k} ELSE written]
  <1> DEFINE sofar == [refused |-> FALSE, written |-> written, bytes |-> spent]
             m == members[k]
             bytes == IF m.kind = "file" THEN spent + m.size ELSE spent
             others == {j \in written : members[j].name # m.name}
             after == IF m.kind = "file" THEN others \cup {k} ELSE written
             broken == ~m.intact \/ bytes > cap
             step == ExtractStep(sofar, members, k, cap, max_members)
  <1>1. step = IF sofar.refused THEN sofar
               ELSE IF k > max_members \/ MemberRefused(members, k)
               THEN [sofar EXCEPT !.refused = TRUE]
               ELSE [refused |-> broken, bytes |-> bytes, written |-> after]
    BY Zenon DEF ExtractStep
  <1>2. ~sofar.refused /\ sofar.written = written /\ sofar.bytes = spent
    OBVIOUS
  <1>3. [sofar EXCEPT !.refused = TRUE].refused
    OBVIOUS
  <1>4. ~step.refused
    OBVIOUS
  <1> HIDE DEF sofar, bytes, after, broken, step
  <1>5. /\ ~(k > max_members \/ MemberRefused(members, k))
        /\ step = [refused |-> broken, bytes |-> bytes, written |-> after]
    BY <1>1, <1>2, <1>3, <1>4, Zenon
  <1>6. ~broken
    BY <1>4, <1>5
  <1>7. broken = FALSE
    BY <1>6 DEF broken
  <1>8. step = [refused |-> FALSE, bytes |-> bytes, written |-> after]
    BY <1>5, <1>7, Zenon
  <1> QED BY <1>5, <1>6, <1>8 DEF broken, sofar, step, bytes, after

\* An extraction leaves the last file of every name, each inside and whole, or nothing,
\* within the cap.
LEMMA ExtractionIsWhole ==
    ASSUME NEW members \in Seq(Member), NEW cap \in Nat, NEW max_members \in Nat
    PROVE  LET answered == Extract(members, cap, max_members)
               files == {k \in DOMAIN members : members[k].kind = "file"}
               last == {k \in files : \A j \in files : j > k => members[j].name # members[k].name}
           IN  /\ answered.written = IF answered.refused THEN {} ELSE last
               /\ \A k \in answered.written : members[k].inside /\ members[k].intact
               /\ ~answered.refused => Unpacked(members, files) <= cap
  <1> DEFINE n == Len(members)
             files == {k \in DOMAIN members : members[k].kind = "file"}
             Files(k) == {j \in files : j <= k}
             Last(k) == {i \in Files(k) :
                            \A j \in Files(k) : j > i => members[j].name # members[i].name}
             w == [k \in files |-> members[k].size]
             end == Extraction(members, cap, max_members)
  <1>1. n \in Nat /\ DOMAIN members = 1 .. n /\ \A k \in 1 .. n : members[k] \in Member
    OBVIOUS
  <1>2. IsFiniteSet(files) /\ \A k \in files : members[k].size \in Int
    <2>1. files \subseteq 1 .. n /\ IsFiniteSet(1 .. n)
      BY <1>1, FS_Interval
    <2> QED BY <1>1, <2>1, FS_Subset DEF Member
  <1>3. PICK at : /\ at[0] = Untouched
                  /\ \A k \in 1 .. n : at[k] = ExtractStep(at[k - 1], members, k, cap, max_members)
                  /\ end = at[n]
    BY <1>1, ExtractionSteps
  <1>4. PICK g : /\ IsSum(g, w, files)
                 /\ Unpacked(members, files) = g[files]
    BY <1>2, SizesAreSummed
  <1>5. w \in [files -> Int]
    BY <1>2
  <1>6. g[{}] = 0 /\ \A s \in SUBSET files : \A x \in s : g[s] = w[x] + g[s \ {x}]
    <2>1. g[{}] = 0
      BY <1>4 DEF IsSum
    <2> HIDE DEF files, w
    <2> QED BY <1>2, <1>4, <1>5, <2>1, SumTakesOut DEF TakesOut
  <1> DEFINE Good(k) == /\ at[k] = [refused |-> FALSE, written |-> Last(k), bytes |-> g[Files(k)]]
                        /\ g[Files(k)] <= cap
                        /\ \A j \in Files(k) : members[j].inside /\ members[j].intact
             T == {k \in 0 .. n : at[k].refused \/ Good(k)}
  <1>7. 0 \in T
    <2>1. Files(0) = {} /\ Last(0) = {}
      BY <1>1
    <2>2. Good(0)
      <3> HIDE DEF Files, files, w, Last
      <3>0. g[{}] = 0
        BY <1>6
      <3>1. g[Files(0)] = 0
        BY <2>1, <3>0, Zenon
      <3>2. at[0] = [refused |-> FALSE, written |-> {}, bytes |-> 0]
        BY <1>3 DEF Untouched
      <3>3. at[0] = [refused |-> FALSE, written |-> Last(0), bytes |-> g[Files(0)]]
        BY <2>1, <3>1, <3>2, Zenon
      <3>4. g[Files(0)] <= cap
        BY <3>1
      <3>5. \A j \in Files(0) : members[j].inside /\ members[j].intact
        BY <2>1
      <3> QED BY <3>3, <3>4, <3>5, Zenon
    <2> HIDE DEF Good
    <2> QED BY <1>1, <2>2
  <1>8. \A k \in 1 .. n : k - 1 \in T => k \in T
    <2> SUFFICES ASSUME NEW k \in 1 .. n, at[k - 1].refused \/ Good(k - 1), ~at[k].refused
                 PROVE  Good(k)
      <3> HIDE DEF Good
      <3> QED BY <1>1
    <2>1. at[k] = ExtractStep(at[k - 1], members, k, cap, max_members)
      BY <1>3
    <2>2. ~at[k - 1].refused
      BY <2>1 DEF ExtractStep
    <2>3. /\ at[k - 1] = [refused |-> FALSE, written |-> Last(k - 1), bytes |-> g[Files(k - 1)]]
          /\ g[Files(k - 1)] <= cap
          /\ \A j \in Files(k - 1) : members[j].inside /\ members[j].intact
      BY <2>2
    <2> DEFINE others == {j \in Last(k - 1) : members[j].name # members[k].name}
               spent == g[Files(k - 1)]
               bytes == IF members[k].kind = "file" THEN spent + members[k].size ELSE spent
    <2>4. /\ ~MemberRefused(members, k) /\ members[k].intact /\ ~(bytes > cap)
          /\ at[k] = [refused |-> FALSE, bytes |-> bytes,
                      written |-> IF members[k].kind = "file" THEN others \cup {k}
                                  ELSE Last(k - 1)]
      <3> HIDE DEF Files, files, w, Last
      <3>1. at[k] = ExtractStep([refused |-> FALSE, written |-> Last(k - 1), bytes |-> spent],
                                members, k, cap, max_members)
        BY <2>1, <2>3
      <3>2. ~ExtractStep([refused |-> FALSE, written |-> Last(k - 1), bytes |-> spent],
                         members, k, cap, max_members).refused
        BY <3>1
      <3> QED BY <3>1, <3>2, StepTaken
    <2>5. CASE members[k].kind = "file"
      <3>1. k \in Files(k) /\ Files(k) \in SUBSET files /\ Files(k) \ {k} = Files(k - 1)
            /\ Files(k) = Files(k - 1) \cup {k}
        BY <1>1, <2>5
      <3>2. Last(k) = {j \in Last(k - 1) : members[j].name # members[k].name} \cup {k}
        BY <1>1, <2>5
      <3>3. g[Files(k)] = members[k].size + g[Files(k - 1)]
        <4>1. w[k] = members[k].size
          BY <1>1, <2>5
        <4> HIDE DEF Files, files, w
        <4> QED BY <1>6, <3>1, <4>1
      <3>4. members[k].size \in Nat /\ g[Files(k - 1)] \in Int
        <4>1. members[k].size \in Nat
          BY <1>1 DEF Member
        <4>2. Files(k - 1) \in SUBSET files
          OBVIOUS
        <4> HIDE DEF Files, files, w
        <4> QED BY <4>1, <4>2, <1>2, <1>4, <1>5, SumIsNumber
      <3> HIDE DEF Files, files, w, Last
      <3>5. /\ ~MemberRefused(members, k)
            /\ members[k].intact /\ ~(g[Files(k - 1)] + members[k].size > cap)
            /\ at[k] = [refused |-> FALSE, bytes |-> g[Files(k - 1)] + members[k].size,
                        written |-> {j \in Last(k - 1) : members[j].name # members[k].name}
                                      \cup {k}]
        BY <2>5, <2>4
      <3>6. members[k].inside
        BY <3>5 DEF MemberRefused
      <3>7. g[Files(k)] = g[Files(k - 1)] + members[k].size /\ g[Files(k)] <= cap
        BY <3>3, <3>4, <3>5
      <3>8. \A j \in Files(k) : members[j].inside /\ members[j].intact
        BY <2>3, <3>1, <3>5, <3>6
      <3> QED BY <3>2, <3>5, <3>7, <3>8
    <2>6. CASE members[k].kind # "file"
      <3>1. Files(k) = Files(k - 1)
        BY <1>1, <2>6
      <3>2. Last(k) = Last(k - 1)
        BY <3>1
      <3> HIDE DEF Files, files, w, Last
      <3>3. at[k] = at[k - 1]
        BY <2>3, <2>6, <2>4
      <3> QED BY <2>3, <3>1, <3>2, <3>3
    <2> QED BY <2>5, <2>6
  <1>9. n \in T
    <2> HIDE DEF T, n
    <2>1. 0 .. n \subseteq T
      BY <1>1, <1>7, <1>8, UpTo
    <2> QED BY <1>1, <2>1
  <1>10. Files(n) = files
    BY <1>1
  <1>11. Last(n) = {k \in files : \A j \in files : j > k => members[j].name # members[k].name}
    BY <1>10
  <1>12. CASE end.refused
    <2> HIDE DEF files, w, end
    <2>1. Extract(members, cap, max_members) = Refusal
      BY <1>12 DEF Extract, end
    <2> QED BY <2>1 DEF Refusal
  <1>13. CASE ~end.refused
    <2>1. Extract(members, cap, max_members) = at[n]
      <3> HIDE DEF files, w, Files, Last
      <3> QED BY <1>3, <1>13 DEF Extract
    <2> HIDE DEF Files, files, w, Last, end
    <2>2. /\ at[n] = [refused |-> FALSE, written |-> Last(n), bytes |-> g[files]]
          /\ g[files] <= cap /\ \A j \in files : members[j].inside /\ members[j].intact
      BY <1>3, <1>9, <1>10, <1>13
    <2>3. \A j \in Last(n) : j \in files
      BY <1>11
    <2> QED BY <1>4, <1>11, <2>1, <2>2, <2>3 DEF files
  <1> QED BY <1>12, <1>13

\* An archive of any members is unpacked whole or not at all, within its directory and the
\* cap on its bytes, which are added up file after file as they are written, whatever is
\* refused, breaks off or comes twice.
THEOREM ArchivesAreAllOrNothing == DecisionSpec => []ArchiveIsAllOrNothing
  <1>1. Answered => ArchiveIsAllOrNothing
    <2> SUFFICES ASSUME Answered, asked.kind = "extraction"
                 PROVE  ArchiveIsAllOrNothing
      BY DEF ArchiveIsAllOrNothing
    <2>1. PICK members \in Archives :
              /\ asked = [kind |-> "extraction", members |-> members]
              /\ answer = Extract(members, MaxBytes, MaxMembers)
      BY DEF Answered, Nothing
    <2>2. members \in Seq(Member) /\ asked.members = members /\ {MaxBytes, MaxMembers} \subseteq Nat
      BY <2>1, ArchivesAssumption
    <2> DEFINE files == {k \in DOMAIN members : members[k].kind = "file"}
               last == {k \in files : \A j \in files : j > k => members[j].name # members[k].name}
    <2>3. /\ answer.written = IF answer.refused THEN {} ELSE last
          /\ \A k \in answer.written : members[k].inside /\ members[k].intact
          /\ ~answer.refused => Unpacked(members, files) <= MaxBytes
      <3>1. MaxBytes \in Nat /\ MaxMembers \in Nat
        BY <2>2
      <3>2. LET answered == Extract(members, MaxBytes, MaxMembers)
            IN  /\ answered.written = IF answered.refused THEN {} ELSE last
                /\ \A k \in answered.written : members[k].inside /\ members[k].intact
                /\ ~answered.refused => Unpacked(members, files) <= MaxBytes
        BY <2>2, <3>1, ExtractionIsWhole
      <3> HIDE DEF files, last
      <3> QED BY <2>1, <3>2
    <2> QED BY <2>2, <2>3 DEF ArchiveIsAllOrNothing
  <1> QED BY <1>1, AnswersAreKept, PTL

-----------------------------------------------------------------------------
\* A sum of terms that are bounded by multiples of others is bounded by that of the others.
LEMMA SumIsBounded ==
    ASSUME NEW S, IsFiniteSet(S), NEW w \in [S -> Int], NEW v \in [S -> Int], NEW c \in Int,
           \A x \in S : -(c * v[x]) <= w[x] /\ w[x] <= c * v[x],
           NEW g, IsSum(g, w, S), NEW h, IsSum(h, v, S)
    PROVE  \A s \in SUBSET S : -(c * h[s]) <= g[s] /\ g[s] <= c * h[s]
  <1> DEFINE Bounded(s) == -(c * h[s]) <= g[s] /\ g[s] <= c * h[s]
             T == {n \in Nat : \A s \in SUBSET S : Cardinality(s) <= n => Bounded(s)}
             n0 == Cardinality(S)
  <1>0. n0 \in Nat
    BY FS_CardinalityType
  <1>1. \A s \in SUBSET S : g[s] \in Int /\ h[s] \in Int
    BY SumIsNumber
  <1>2. \A s \in SUBSET S : \A x \in s : /\ g[s] = w[x] + g[s \ {x}]
                                         /\ h[s] = v[x] + h[s \ {x}]
    <2>1. TakesOut(g, w, S) /\ TakesOut(h, v, S)
      BY SumTakesOut, Zenon
    <2> QED BY <2>1, Zenon DEF TakesOut
  <1>3. 0 \in T
    <2> SUFFICES ASSUME NEW s \in SUBSET S, Cardinality(s) <= 0
                 PROVE  Bounded(s)
      OBVIOUS
    <2>1. s = {}
      <3> SUFFICES ASSUME NEW x \in s
                   PROVE  FALSE
        OBVIOUS
      <3>1. Cardinality(s) \in Nat /\ Cardinality(s) # 0
        BY OneLess
      <3> QED BY <3>1
    <2>2. g[{}] = 0 /\ h[{}] = 0
      BY DEF IsSum
    <2>3. g[s] = 0 /\ h[s] = 0
      BY <2>1, <2>2, Zenon
    <2> QED BY <2>3
  <1>4. \A k \in 1 .. n0 : k - 1 \in T => k \in T
    <2> SUFFICES ASSUME NEW k \in 1 .. n0, k - 1 \in T, NEW s \in SUBSET S, Cardinality(s) <= k
                 PROVE  Bounded(s)
      OBVIOUS
    <2>1. CASE s = {}
      <3>1. Cardinality(s) <= k - 1
        BY <2>1, FS_EmptySet
      <3> QED BY <3>1
    <2>2. CASE s # {}
      <3>1. PICK x : x \in s
        BY <2>2
      <3>2. s \ {x} \in SUBSET S /\ Cardinality(s \ {x}) <= k - 1
        BY <3>1, OneLess
      <3>3. Bounded(s \ {x})
        BY <3>2
      <3>4. /\ w[x] \in Int /\ v[x] \in Int /\ -(c * v[x]) <= w[x] /\ w[x] <= c * v[x]
            /\ g[s \ {x}] \in Int /\ h[s \ {x}] \in Int
        BY <1>1, <3>1, <3>2
      <3>5. g[s] = w[x] + g[s \ {x}] /\ h[s] = v[x] + h[s \ {x}]
        BY <1>2, <3>1
      <3>6. c * h[s] = c * v[x] + c * h[s \ {x}]
        BY <3>4, <3>5
      <3>7. c * v[x] \in Int /\ c * h[s \ {x}] \in Int
        BY <3>4
      <3> QED BY <3>3, <3>4, <3>5, <3>6, <3>7
    <2> QED BY <2>1, <2>2
  <1>5. n0 \in T
    <2> HIDE DEF T, n0
    <2>1. 0 .. n0 \subseteq T
      BY <1>0, <1>3, <1>4, UpTo
    <2> QED BY <1>0, <2>1
  <1> QED BY <1>5, FS_Subset

\* The samples of a round are summed.
LEMMA SamplesAreSummed ==
    ASSUME NEW cs, NEW W, DOMAIN cs = W, IsFiniteSet(W), \A i \in W : cs[i].samples \in Int
    PROVE  \E g : IsSum(g, [i \in W |-> cs[i].samples], W) /\ Samples(cs) = g[W]
  <1> DEFINE w == [i \in W |-> cs[i].samples]
             Solves(g) == g = [s \in SUBSET W |->
                            IF s = {} THEN 0
                            ELSE cs[CHOOSE x \in s : TRUE].samples + g[s \ {CHOOSE x \in s : TRUE}]]
             g0 == CHOOSE g : Solves(g)
  <1>1. w \in [W -> Int]
    OBVIOUS
  <1>2. PICK g : IsSum(g, w, W)
    <2> HIDE DEF w
    <2> QED BY <1>1, SumExists
  <1>3. \A h : IsSum(h, w, W) <=> Solves(h)
    BY DEF IsSum
  <1>4. Solves(g0)
    <2> HIDE DEF Solves
    <2> QED BY <1>2, <1>3
  <1>5. Samples(cs) = g0[W]
    BY DEF Samples, MapThenSumSet, MapThenFoldSet
  <1>6. IsSum(g0, w, W)
    <2> HIDE DEF Solves, w, g0
    <2> QED BY <1>3, <1>4
  <1> HIDE DEF Solves, g0
  <1> QED BY <1>5, <1>6

\* The terms of the weighted sum.
Terms(cs, cap) == [i \in DOMAIN cs |-> cs[i].samples * TwiceClipped(cs[i].delta, cap)]

\* They are summed by the same recursion, so the weighted sum is a sum of the terms.
LEMMA DeltasAreSummed ==
    ASSUME NEW cs, NEW W, DOMAIN cs = W, IsFiniteSet(W), NEW cap, Terms(cs, cap) \in [W -> Int]
    PROVE  \E g : IsSum(g, Terms(cs, cap), W) /\ WeightedSum(cs, cap) = g[W]
  <1> DEFINE w == Terms(cs, cap)
             Solves(g) == g = [s \in SUBSET W |->
                            IF s = {} THEN 0
                            ELSE cs[CHOOSE x \in s : TRUE].samples
                                   * TwiceClipped(cs[CHOOSE x \in s : TRUE].delta, cap)
                                 + g[s \ {CHOOSE x \in s : TRUE}]]
             g0 == CHOOSE g : Solves(g)
  <1>1. PICK g : IsSum(g, w, W)
    BY SumExists
  <1>2. \A h : IsSum(h, w, W) <=> Solves(h)
    <2>1. \A i \in W : w[i] = cs[i].samples * TwiceClipped(cs[i].delta, cap)
      BY DEF Terms
    <2> HIDE DEF w
    <2> QED BY <2>1 DEF IsSum
  <1>3. Solves(g0)
    <2> HIDE DEF Solves
    <2> QED BY <1>1, <1>2
  <1>4. WeightedSum(cs, cap) = g0[W]
    BY DEF WeightedSum, MapThenSumSet, MapThenFoldSet
  <1>5. IsSum(g0, w, W)
    <2> HIDE DEF Solves, g0, w
    <2> QED BY <1>2, <1>3
  <1> HIDE DEF Solves, g0
  <1> QED BY <1>4, <1>5

\* The norms of a round have a bound.
LEMMA NormsHaveBound ==
    ASSUME NEW n \in Nat, NEW norm \in [1 .. n -> Nat]
    PROVE  \E b \in Nat : \A i \in 1 .. n : norm[i] <= b
  <1> DEFINE T == {m \in 0 .. n : \E b \in Nat : \A i \in 1 .. m : norm[i] <= b}
  <1>1. 0 \in T
    OBVIOUS
  <1>2. \A k \in 1 .. n : k - 1 \in T => k \in T
    <2> SUFFICES ASSUME NEW k \in 1 .. n, \E b \in Nat : \A i \in 1 .. k - 1 : norm[i] <= b
                 PROVE  \E b \in Nat : \A i \in 1 .. k : norm[i] <= b
      <3> DEFINE Bound(m) == \E b \in Nat : \A i \in 1 .. m : norm[i] <= b
      <3>1. \A k \in 1 .. n : Bound(k - 1) => Bound(k)
        OBVIOUS
      <3>2. T = {m \in 0 .. n : Bound(m)}
        OBVIOUS
      <3> HIDE DEF Bound, T
      <3> QED BY <3>1, <3>2
    <2>1. PICK b \in Nat : \A i \in 1 .. k - 1 : norm[i] <= b
      OBVIOUS
    <2>2. norm[k] \in Nat
      OBVIOUS
    <2>3. b + norm[k] \in Nat /\ \A i \in 1 .. k : norm[i] <= b + norm[k]
      <3> SUFFICES ASSUME NEW i \in 1 .. k
                   PROVE  norm[i] <= b + norm[k]
        BY <2>1, <2>2
      <3>1. CASE i = k
        BY <2>1, <2>2, <3>1
      <3>2. CASE i # k
        <4>1. i \in 1 .. k - 1 /\ i \in 1 .. n
          BY <3>2
        <4>2. norm[i] <= b /\ norm[i] \in Nat
          BY <2>1, <4>1
        <4> QED BY <2>1, <2>2, <4>2
      <3> QED BY <3>1, <3>2
    <2> QED BY <2>3
  <1>3. n \in T
    <2> HIDE DEF T
    <2>1. 0 .. n \subseteq T
      BY <1>1, <1>2, UpTo
    <2> QED BY <2>1
  <1> QED BY <1>3

\* There is a norm at each place of a round, and when k norms are no greater than some
\* norm, neither is the one at place k.
LEMMA OrderedIsWithin ==
    ASSUME NEW n \in Nat, NEW cs, DOMAIN cs = 1 .. n, \A i \in 1 .. n : cs[i].delta \in Int,
           NEW k \in 1 .. n
    PROVE  /\ Ordered(cs, k) \in Nat
           /\ \A i \in 1 .. n :
                 Cardinality({j \in 1 .. n : Magnitude(cs[j].delta) <= Magnitude(cs[i].delta)}) >= k
                    => Ordered(cs, k) <= Magnitude(cs[i].delta)
  <1> DEFINE norm == [i \in 1 .. n |-> Magnitude(cs[i].delta)]
             Upto(x) == {i \in 1 .. n : norm[i] <= x}
             Below(x) == {i \in 1 .. n : norm[i] < x}
             Norms == {norm[i] : i \in 1 .. n}
             K == {x \in Nat : Cardinality(Upto(x)) >= k}
             Stands(x) == Cardinality(Below(x)) < k /\ Cardinality(Upto(x)) >= k
  <1>1. norm \in [1 .. n -> Nat]
    BY DEF Magnitude
  <1>2. IsFiniteSet(1 .. n) /\ Cardinality(1 .. n) = n
    BY FS_Interval
  <1>3. \A A \in SUBSET (1 .. n) : /\ IsFiniteSet(A) /\ Cardinality(A) \in Nat
                                   /\ \A B \in SUBSET A : Cardinality(B) <= Cardinality(A)
    BY <1>2, FS_Subset, FS_CardinalityType
  <1> HIDE DEF norm
  <1>4. K # {}
    <2>1. PICK b \in Nat : \A i \in 1 .. n : norm[i] <= b
      BY <1>1, NormsHaveBound
    <2>2. Upto(b) = 1 .. n
      BY <2>1
    <2>3. Cardinality(Upto(b)) >= k
      <3>1. Cardinality(Upto(b)) = n
        BY <1>2, <2>2, Zenon
      <3> HIDE DEF Upto
      <3> QED BY <3>1
    <2> HIDE DEF Upto
    <2> QED BY <2>3
  <1>5. PICK x \in K : \A y \in K : ~(y < x)
    <2> DEFINE R == OpToRel(<, Nat)
    <2>1. PICK x \in K : \A y \in K : ~(<<y, x>> \in R)
      <3>1. K \subseteq Nat
        OBVIOUS
      <3> HIDE DEF K
      <3> QED BY <1>4, <3>1, NatLessThanWellFounded, WFMin
    <2>2. \A y \in Nat : y < x => <<y, x>> \in R
      BY DEF OpToRel
    <2> HIDE DEF R
    <2> QED BY <2>1, <2>2
  <1>6. x \in Nat /\ Cardinality(Upto(x)) >= k
    OBVIOUS
  <1>7. Cardinality(Below(x)) < k
    <2>1. CASE x = 0
      <3>1. Below(x) = {}
        BY <1>1, <2>1
      <3>2. Cardinality(Below(x)) = 0
        BY <3>1, FS_EmptySet, Zenon
      <3> HIDE DEF Below
      <3> QED BY <3>2
    <2>2. CASE x # 0
      <3>1. x - 1 \in Nat /\ x - 1 < x
        BY <1>6, <2>2
      <3>2. ~(Cardinality(Upto(x - 1)) >= k)
        BY <1>5, <3>1
      <3>3. Below(x) = Upto(x - 1)
        BY <1>1, <1>6
      <3>4. Cardinality(Below(x)) = Cardinality(Upto(x - 1))
        BY <3>3, Zenon
      <3>5. Cardinality(Upto(x - 1)) \in Nat
        BY <1>3
      <3> HIDE DEF Below, Upto
      <3> QED BY <3>2, <3>4, <3>5
    <2> QED BY <2>1, <2>2
  <1>8. x \in Norms
    <2> SUFFICES ASSUME x \notin Norms
                 PROVE  FALSE
      OBVIOUS
    <2>1. Upto(x) = Below(x)
      BY <1>1, <1>6
    <2>2. Cardinality(Upto(x)) = Cardinality(Below(x))
      BY <2>1, Zenon
    <2>3. Cardinality(Upto(x)) \in Nat
      BY <1>3
    <2> HIDE DEF Upto, Below
    <2> QED BY <1>6, <1>7, <2>2, <2>3
  <1>9. Ordered(cs, k) = CHOOSE y \in Norms : Stands(y)
    BY DEF Ordered, norm
  <1>10. Ordered(cs, k) \in Norms /\ Stands(Ordered(cs, k))
    <2>1. Stands(x)
      BY <1>6, <1>7
    <2> HIDE DEF Norms, Stands
    <2> QED BY <1>8, <1>9, <2>1
  <1>11. Ordered(cs, k) \in Nat
    BY <1>1, <1>10
  <1>12. ASSUME NEW i \in 1 .. n, Cardinality(Upto(norm[i])) >= k
         PROVE  Ordered(cs, k) <= norm[i]
    <2> SUFFICES ASSUME norm[i] < Ordered(cs, k)
                 PROVE  FALSE
      BY <1>1, <1>11
    <2>1. Upto(norm[i]) \subseteq Below(Ordered(cs, k))
      BY <1>1, <1>11
    <2>2. Below(Ordered(cs, k)) \in SUBSET (1 .. n)
      OBVIOUS
    <2>3. /\ Cardinality(Below(Ordered(cs, k))) \in Nat
          /\ Cardinality(Upto(norm[i])) <= Cardinality(Below(Ordered(cs, k)))
      <3> HIDE DEF Upto, Below
      <3> QED BY <1>3, <2>1, <2>2
    <2>4. Cardinality(Below(Ordered(cs, k))) < k
      BY <1>10
    <2>5. Cardinality(Upto(norm[i])) \in Nat
      BY <1>3
    <2> HIDE DEF Upto, Below
    <2> QED BY <1>12, <2>3, <2>4, <2>5
  <1>13. \A i \in 1 .. n : /\ norm[i] = Magnitude(cs[i].delta)
                           /\ Upto(norm[i])
                                = {j \in 1 .. n : Magnitude(cs[j].delta) <= Magnitude(cs[i].delta)}
    BY DEF norm
  <1> HIDE DEF Upto
  <1> QED BY <1>11, <1>12, <1>13

\* What is twice a clipped delta is no longer than twice the cap.
LEMMA ClippedIsCapped ==
    ASSUME NEW delta \in Int, NEW cap \in Nat
    PROVE  /\ TwiceClipped(delta, cap) \in Int
           /\ -cap <= TwiceClipped(delta, cap) /\ TwiceClipped(delta, cap) <= cap
  BY DEF TwiceClipped, Magnitude

\* A number of samples times what is bounded.
LEMMA TimesBounded ==
    ASSUME NEW n \in Nat, NEW c \in Nat, NEW t \in Int, -c <= t, t <= c
    PROVE  /\ n * t \in Int
           /\ -(c * n) <= n * t /\ n * t <= c * n
  <1>1. n * (c - t) \in Nat /\ n * (c + t) \in Nat
    <2>1. c - t \in Nat /\ c + t \in Nat
      OBVIOUS
    <2> QED BY <2>1
  <1>2. n * (c - t) = n * c - n * t /\ n * (c + t) = n * c + n * t
    OBVIOUS
  <1>3. n * c = c * n /\ n * c \in Int /\ n * t \in Int
    OBVIOUS
  <1> QED BY <1>1, <1>2, <1>3

\* The median is no longer than a delta that the greater part is no longer than.
LEMMA MedianIsHonest ==
    ASSUME NEW n \in Nat \ {0}, NEW cs, DOMAIN cs = 1 .. n, Len(cs) = n,
           \A i \in 1 .. n : cs[i].delta \in Int, NEW i \in 1 .. n,
           2 * Cardinality({j \in 1 .. n : Magnitude(cs[j].delta) <= Magnitude(cs[i].delta)}) > n
    PROVE  TwiceMedian(cs) \in Nat /\ TwiceMedian(cs) <= 2 * Magnitude(cs[i].delta)
  <1> DEFINE most == Cardinality({j \in 1 .. n : Magnitude(cs[j].delta) <= Magnitude(cs[i].delta)})
             mid == n \div 2
             m == Magnitude(cs[i].delta)
  <1>1. most \in Nat
    <2>1. IsFiniteSet({j \in 1 .. n : Magnitude(cs[j].delta) <= Magnitude(cs[i].delta)})
      <3>1. IsFiniteSet(1 .. n)
        BY FS_Interval
      <3> QED BY <3>1, FS_Subset
    <2> QED BY <2>1, FS_CardinalityType
  <1>2. m \in Nat
    BY DEF Magnitude
  <1>3. \A k \in 1 .. n : Ordered(cs, k) \in Nat /\ (most >= k => Ordered(cs, k) <= m)
    BY OrderedIsWithin
  <1>4. 2 * most > n
    OBVIOUS
  <1> HIDE DEF most, m
  <1>5. CASE n % 2 = 1
    <2>1. mid + 1 \in 1 .. n /\ most >= mid + 1
      BY <1>1, <1>4, <1>5
    <2>2. TwiceMedian(cs) = 2 * Ordered(cs, mid + 1)
      BY <1>5 DEF TwiceMedian
    <2>3. Ordered(cs, mid + 1) \in Nat /\ Ordered(cs, mid + 1) <= m
      BY <1>3, <2>1
    <2> HIDE DEF mid
    <2> QED BY <1>2, <2>2, <2>3 DEF m
  <1>6. CASE n % 2 # 1
    <2>1. mid \in 1 .. n /\ mid + 1 \in 1 .. n /\ most >= mid /\ most >= mid + 1
      BY <1>1, <1>4, <1>6
    <2>2. TwiceMedian(cs) = Ordered(cs, mid) + Ordered(cs, mid + 1)
      BY <1>6 DEF TwiceMedian
    <2>3. /\ Ordered(cs, mid) \in Nat /\ Ordered(cs, mid) <= m
          /\ Ordered(cs, mid + 1) \in Nat /\ Ordered(cs, mid + 1) <= m
      BY <1>3, <2>1
    <2> HIDE DEF mid
    <2> QED BY <1>2, <2>2, <2>3 DEF m
  <1> QED BY <1>5, <1>6

\* A majority of short deltas bounds the mean of a round that is not refused.
LEMMA MeanIsBounded ==
    ASSUME NEW n \in Nat, NEW cs \in [1 .. n -> Contribution], ~ReductionRefused(cs),
           NEW i \in 1 .. n,
           2 * Cardinality({j \in 1 .. n : Magnitude(cs[j].delta) <= Magnitude(cs[i].delta)}) > n
    PROVE  Magnitude(Reduced(cs).over)
             <= CLIP_FACTOR * Magnitude(cs[i].delta) * Reduced(cs).under
  <1> DEFINE W == 1 .. n
             m == Magnitude(cs[i].delta)
             cap == 3 * TwiceMedian(cs)
             v == [j \in W |-> cs[j].samples]
             w == Terms(cs, cap)
  <1>1. n \in Nat \ {0} /\ DOMAIN cs = W /\ Len(cs) = n
    OBVIOUS
  <1>2. \A j \in W : cs[j].delta \in Int /\ cs[j].samples \in Nat
    <2> SUFFICES ASSUME NEW j \in W
                 PROVE  cs[j].delta \in Int /\ cs[j].samples \in Nat
      OBVIOUS
    <2>1. cs[j] \in Contribution /\ WellFormed(cs[j])
          /\ ~(cs[j].samples = NotACount \/ cs[j].samples <= 0)
      BY <1>1 DEF ReductionRefused
    <2> QED BY <2>1 DEF Contribution, WellFormed
  <1>3. IsFiniteSet(W)
    BY FS_Interval
  <1>4. TwiceMedian(cs) \in Nat /\ TwiceMedian(cs) <= 2 * m
    BY <1>1, <1>2, MedianIsHonest
  <1>5. m \in Nat /\ cap \in Nat /\ cap <= 6 * m
    <2>1. m \in Nat
      BY <1>2 DEF Magnitude
    <2> HIDE DEF m
    <2> QED BY <2>1, <1>4
  <1> HIDE DEF cap, m
  <1>6. \A j \in W : /\ cs[j].samples * TwiceClipped(cs[j].delta, cap) \in Int
                     /\ -(cap * cs[j].samples) <= cs[j].samples * TwiceClipped(cs[j].delta, cap)
                     /\ cs[j].samples * TwiceClipped(cs[j].delta, cap) <= cap * cs[j].samples
    BY <1>2, <1>5, ClippedIsCapped, TimesBounded
  <1>7. PICK h : IsSum(h, v, W) /\ Samples(cs) = h[W]
    <2>1. \A j \in W : cs[j].samples \in Int
      BY <1>2
    <2> HIDE DEF W
    <2> QED BY <1>1, <1>3, <2>1, SamplesAreSummed
  <1>8. w \in [W -> Int] /\ \A j \in W : w[j] = cs[j].samples * TwiceClipped(cs[j].delta, cap)
    BY <1>1, <1>6 DEF Terms
  <1>9. PICK g : IsSum(g, w, W) /\ WeightedSum(cs, cap) = g[W]
    <2>1. DOMAIN cs = W /\ Terms(cs, cap) \in [W -> Int]
      BY <1>1, <1>8
    <2> HIDE DEF W
    <2> QED BY <1>3, <2>1, DeltasAreSummed
  <1>10. /\ v \in [W -> Int] /\ w \in [W -> Int]
         /\ \A j \in W : -(cap * v[j]) <= w[j] /\ w[j] <= cap * v[j]
         /\ \A j \in W : -(1 * v[j]) <= v[j] /\ v[j] <= 1 * v[j]
    BY <1>2, <1>6, <1>8
  <1> HIDE DEF v, w, W
  <1>11. -(cap * h[W]) <= g[W] /\ g[W] <= cap * h[W]
    <2>1. cap \in Int /\ W \in SUBSET W
      BY <1>5
    <2>2. \A s \in SUBSET W : -(cap * h[s]) <= g[s] /\ g[s] <= cap * h[s]
      BY <1>3, <1>7, <1>9, <1>10, <2>1, SumIsBounded
    <2> QED BY <2>1, <2>2
  <1>12. -(1 * h[W]) <= h[W]
    <2>1. 1 \in Int /\ W \in SUBSET W
      OBVIOUS
    <2>2. \A s \in SUBSET W : -(1 * h[s]) <= h[s] /\ h[s] <= 1 * h[s]
      BY <1>3, <1>7, <1>10, <2>1, SumIsBounded, Zenon
    <2> QED BY <2>1, <2>2, Zenon
  <1>13. g[W] \in Int /\ h[W] \in Int
    BY <1>3, <1>7, <1>9, <1>10, SumIsNumber
  <1>14. Reduced(cs).over = g[W] /\ Reduced(cs).under = 2 * h[W]
    BY <1>7, <1>9 DEF Reduced, CLIP_FACTOR, cap
  <1>15. h[W] \in Nat
    BY <1>12, <1>13
  <1>16. cap * h[W] <= (6 * m) * h[W] /\ cap * h[W] \in Int /\ (6 * m) * h[W] \in Int
    <2>1. (6 * m - cap) * h[W] \in Nat
      <3>1. 6 * m - cap \in Nat
        BY <1>5
      <3> QED BY <3>1, <1>15
    <2>2. (6 * m - cap) * h[W] = (6 * m) * h[W] - cap * h[W]
      BY <1>5, <1>15
    <2> QED BY <2>1, <2>2, <1>5, <1>15
  <1>17. Magnitude(g[W]) <= cap * h[W]
    BY <1>11, <1>13, <1>16 DEF Magnitude
  <1>18. CLIP_FACTOR * m * (2 * h[W]) = (6 * m) * h[W]
    BY <1>5, <1>15 DEF CLIP_FACTOR
  <1>19. Magnitude(g[W]) <= CLIP_FACTOR * m * (2 * h[W])
    <2>1. Magnitude(g[W]) \in Int
      BY <1>13 DEF Magnitude
    <2> QED BY <1>16, <1>17, <1>18, <2>1
  <1> QED BY <1>14, <1>19 DEF m

\* In a round that is not refused, of any number of deltas, a majority of short ones bounds
\* the mean, whatever the others and the sample counts are: the median of the norms is at
\* most that of the majority's longest, and no delta counts for more than three medians.
THEOREM HonestMajoritiesBound == DecisionSpec => []HonestMajorityBounds
  <1>1. Answered => HonestMajorityBounds
    <2> SUFFICES ASSUME Answered, asked.kind = "average", ~answer.refused
                 PROVE  HonestMajorityBounds
      BY DEF HonestMajorityBounds
    <2>1. PICK n \in 0 .. MaxContributions : \E cs \in [1 .. n -> Contributions] :
              /\ asked = [kind |-> "average", round |-> cs]
              /\ answer = IF ReductionRefused(cs) THEN [refused |-> TRUE]
                          ELSE [refused |-> FALSE, mean |-> Reduced(cs)]
      BY DEF Answered, Nothing
    <2>2. PICK cs \in [1 .. n -> Contributions] :
              /\ asked = [kind |-> "average", round |-> cs]
              /\ answer = IF ReductionRefused(cs) THEN [refused |-> TRUE]
                          ELSE [refused |-> FALSE, mean |-> Reduced(cs)]
      BY <2>1
    <2>3. /\ n \in Nat /\ cs \in [1 .. n -> Contribution] /\ DOMAIN cs = 1 .. n /\ Len(cs) = n
          /\ asked.round = cs /\ ~ReductionRefused(cs) /\ answer.mean = Reduced(cs)
      BY <2>2, RoundAssumption
    <2>4. \A i \in 1 .. n :
             2 * Cardinality({j \in 1 .. n :
                                Magnitude(cs[j].delta) <= Magnitude(cs[i].delta)}) > n =>
                Magnitude(Reduced(cs).over)
                   <= CLIP_FACTOR * Magnitude(cs[i].delta) * Reduced(cs).under
      BY <2>3, MeanIsBounded
    <2> QED BY <2>3, <2>4 DEF HonestMajorityBounds
  <1> QED BY <1>1, AnswersAreKept, PTL

-----------------------------------------------------------------------------
(***************************************************************************)
(* The planner                                                             *)
(***************************************************************************)

\* The greater of two numbers.
LEMMA MaxOfTwo ==
    ASSUME NEW a \in Int, NEW b \in Int
    PROVE  Max({a, b}) \in Int /\ Max({a, b}) >= a /\ Max({a, b}) >= b /\ Max({a, b}) \in {a, b}
  <1>1. \E x \in {a, b} : \A y \in {a, b} : x >= y
    OBVIOUS
  <1> QED BY <1>1 DEF Max

\* A product of whole numbers is one, and grows with its factors.
LEMMA ProductGrows ==
    ASSUME NEW a \in Nat, NEW b \in Nat, NEW c \in Nat, a <= b
    PROVE  a * c \in Nat /\ b * c \in Nat /\ a * c <= b * c
  <1>1. b - a \in Nat
    OBVIOUS
  <1>2. (b - a) * c \in Nat /\ a * c \in Nat /\ b * c \in Nat
    BY <1>1
  <1>3. (b - a) * c = b * c - a * c
    OBVIOUS
  <1> QED BY <1>2, <1>3

\* A quotient of whole numbers is one, and grows with what is divided.
LEMMA QuotientGrows ==
    ASSUME NEW a \in Nat, NEW b \in Nat, a <= b, NEW c \in Nat \ {0}
    PROVE  a \div c \in Nat /\ b \div c \in Nat /\ a \div c <= b \div c
  <1>1. a \div c \in Nat /\ b \div c \in Nat
    OBVIOUS
  <1>2. c * (a \div c) <= a /\ b < c * (b \div c) + c
    OBVIOUS
  <1> DEFINE x == a \div c
             y == b \div c
  <1>3. SUFFICES ASSUME x > y PROVE FALSE
    BY <1>1
  <1> HIDE DEF x, y
  <1>4. x \in Nat /\ y \in Nat
    BY <1>1 DEF x, y
  <1>5. c * x < c * y + c
    BY <1>2 DEF x, y
  <1>6. x - y - 1 \in Nat
    BY <1>3, <1>4
  <1>7. c * (x - y - 1) \in Nat
    BY <1>6
  <1>8. c * (x - y - 1) = c * x - c * y - c
    BY <1>4
  <1>9. c * x \in Int /\ c * y \in Int
    BY <1>4
  <1> QED BY <1>5, <1>7, <1>8, <1>9

\* A product of whole numbers is one, and so is a quotient.
LEMMA WholeNumbers ==
    ASSUME NEW a \in Nat, NEW b \in Nat
    PROVE  a * b \in Nat /\ (b # 0 => a \div b \in Nat)
  OBVIOUS

\* A part of the memory of a rank is a number of MB.
LEMMA PerGpuIsNumber ==
    ASSUME NEW x \in Nat, NEW family, NEW world \in Nat \ {0}
    PROVE  PerGpu(x, family, world) \in Nat
  BY DEF PerGpu

\* What is trained, and the memory of weights and optimizer, are numbers.
LEMMA TrainedIsNumber ==
    ASSUME NEW w \in Transformer
    PROVE  /\ Bytes(w.precision) \in Nat /\ OptimizerBytes(w.optimizer) \in Nat
           /\ w.params * Bytes(w.precision) \in Nat /\ Trainable(w) \in Nat
           /\ (Trainable(w) * Bytes(w.precision)) \div 1000 \in Nat
           /\ ModelWeights(w) \in Nat /\ OptimizerState(w) \in Nat
  <1>1. /\ w.params \in Nat /\ w.hidden \in Nat /\ w.rank \in Nat /\ w.layers \in Nat
    BY DEF Transformer
  <1>2. Bytes(w.precision) \in Nat /\ OptimizerBytes(w.optimizer) \in Nat
    BY DEF Bytes, OptimizerBytes
  <1>3. w.params * Bytes(w.precision) \in Nat
    BY <1>1, <1>2, WholeNumbers
  <1>4. Trainable(w) \in Nat
    <2>1. 8 * w.hidden \in Nat
      BY <1>1
    <2>2. 8 * w.hidden * w.rank \in Nat
      BY <1>1, <2>1, WholeNumbers
    <2>3. 8 * w.hidden * w.rank * w.layers \in Nat
      BY <1>1, <2>2, WholeNumbers
    <2>4. w.params * 1000 \in Nat
      BY <1>1
    <2> QED BY <2>3, <2>4 DEF Trainable
  <1>5. (Trainable(w) * Bytes(w.precision)) \div 1000 \in Nat
    <2>1. Trainable(w) * Bytes(w.precision) \in Nat
      BY <1>2, <1>4, WholeNumbers
    <2> QED BY <2>1
  <1>6. OptimizerState(w) \in Nat
    <2>1. Trainable(w) * OptimizerBytes(w.optimizer) \in Nat
      BY <1>2, <1>4, WholeNumbers
    <2> QED BY <2>1 DEF OptimizerState
  <1>7. ModelWeights(w) \in Nat
    <2>1. (w.params * 55) \div 100 \in Nat
      BY <1>1
    <2> QED BY <1>3, <1>5, <2>1 DEF ModelWeights
  <1> QED BY <1>2, <1>3, <1>4, <1>5, <1>6, <1>7

\* The memory a group needs is a number.
LEMMA MemoryIsNumber ==
    ASSUME NEW w \in Transformer, NEW family, NEW world \in Nat \ {0}, NEW ackpt \in BOOLEAN
    PROVE  /\ TransformerMemory(w, family, world, ackpt) \in Nat
           /\ OffloadedRam(w, family, world) \in Nat
  <1>1. /\ PerGpu(ModelWeights(w), family, world) \in Nat
        /\ PerGpu((Trainable(w) * Bytes(w.precision)) \div 1000, family, world) \in Nat
        /\ PerGpu(OptimizerState(w), family, world) \in Nat
    BY TrainedIsNumber, PerGpuIsNumber
  <1>2. Activations(w, ackpt) \in Nat
    <2> DEFINE layer == w.tokens * w.hidden
    <2>1. w.tokens \in Nat /\ w.hidden \in Nat /\ w.layers \in Nat
      BY DEF Transformer
    <2>2. layer \in Nat
      BY <2>1, WholeNumbers
    <2>3. w.layers * layer \in Nat
      BY <2>1, <2>2, WholeNumbers
    <2>4. Activations(w, ackpt) = IF ackpt THEN w.layers * layer * 2 + layer * 18
                                  ELSE w.layers * layer * 18
      BY DEF Activations
    <2> HIDE DEF layer
    <2> QED BY <2>2, <2>3, <2>4
  <1>3. (w.params * Bytes(w.precision) * 2) \div w.layers \in Nat
    <2>1. w.params * Bytes(w.precision) * 2 \in Nat /\ w.layers \in Nat \ {0}
      BY TrainedIsNumber DEF Transformer
    <2> QED BY <2>1, WholeNumbers
  <1> QED BY <1>1, <1>2, <1>3 DEF TransformerMemory, OffloadedRam, OVERHEAD

\* A machine with more memory allows more of it.
LEMMA CapsGrow ==
    ASSUME NEW a \in Nat, NEW b \in Nat, a <= b
    PROVE  /\ HardCap(a) \in Nat /\ HardCap(b) \in Nat /\ HardCap(a) <= HardCap(b)
           /\ RamBudget(a) \in Nat /\ RamBudget(b) \in Nat /\ RamBudget(a) <= RamBudget(b)
  BY DEF HardCap, RamBudget

\* The verdict on a link is a percentage of some sort.
LEMMA VerdictIsNumber ==
    ASSUME NEW comm \in Nat, NEW compute \in Nat, NEW link
    PROVE  Verdict(comm, compute, link) \in Int
  <1>1. CASE compute <= 0
    BY <1>1 DEF Verdict
  <1>2. CASE compute > 0
    <2> DEFINE left == Max({0, comm - compute \div 2})
    <2>1. left \in Int /\ left >= 0
      BY MaxOfTwo
    <2> HIDE DEF left
    <2>2. compute + left \in Nat \ {0} /\ compute * 100 \in Nat
      BY <1>2, <2>1
    <2>3. (compute * 100) \div (compute + left) \in Nat
      BY <2>2, WholeNumbers
    <2> QED BY <1>2, <2>3 DEF Verdict, left
  <1> QED BY <1>1, <1>2

\* A link is one of the six, with a bandwidth and a latency.
LEMMA LinkIsKnown ==
    ASSUME NEW r \in Resources, NEW world
    PROVE  /\ Link(LinkOf(r, world)).bw \in Nat \ {0}
           /\ Link(LinkOf(r, world)).lat \in Nat
  <1>1. LinkOf(r, world) \in Interconnect
    BY DEF LinkOf, Resources, Interconnect
  <1> QED BY <1>1 DEF Link, Interconnect

\* The efficiency of a group is a number.
LEMMA EfficiencyIsNumber ==
    ASSUME NEW w \in Transformer, NEW r \in Resources, NEW family, NEW world \in Nat \ {0}
    PROVE  Efficiency(w, r, family, world) \in Int
  <1> DEFINE link == LinkOf(r, world)
             bytes == (Trainable(w) * Bytes(w.precision)) \div 1000
             whole == w.params * Bytes(w.precision)
             step == MicroStep(w, r)
  <1>1. Link(link).bw \in Nat \ {0} /\ Link(link).lat \in Nat
    BY LinkIsKnown
  <1>2. bytes \in Nat /\ whole \in Nat
    BY TrainedIsNumber
  <1>3. step \in Nat /\ step * w.grad_accum \in Nat
    <2>1. /\ w.tokens \in Nat /\ w.params \in Nat /\ w.grad_accum \in Nat /\ r.tflops \in Nat
      BY DEF Transformer, Resources
    <2>2. w.tokens * w.params * 2000 \in Nat
      <3>1. w.tokens * w.params \in Nat
        BY <2>1, WholeNumbers
      <3> QED BY <3>1
    <2>3. step \in Nat
      BY <2>1, <2>2, WholeNumbers DEF MicroStep
    <2> HIDE DEF step
    <2> QED BY <2>1, <2>3, WholeNumbers
  <1> HIDE DEF link, bytes, whole, step
  <1> DEFINE Sent(k, b, lat) ==
                (((k * (world - 1) * b) \div world) * 10000) \div Link(link).bw + lat
  <1>4. \A k \in Nat : \A b \in Nat : \A lat \in Nat : Sent(k, b, lat) \in Nat
    <2> SUFFICES ASSUME NEW k \in Nat, NEW b \in Nat, NEW lat \in Nat
                 PROVE  Sent(k, b, lat) \in Nat
      OBVIOUS
    <2>1. world - 1 \in Nat
      OBVIOUS
    <2>2. k * (world - 1) \in Nat
      BY <2>1, WholeNumbers
    <2>3. k * (world - 1) * b \in Nat
      BY <2>2, WholeNumbers
    <2>4. (k * (world - 1) * b) \div world \in Nat
      BY <2>3, WholeNumbers
    <2> DEFINE x == (k * (world - 1) * b) \div world
    <2> HIDE DEF x
    <2>5. x * 10000 \in Nat
      BY <2>4 DEF x
    <2>6. (x * 10000) \div Link(link).bw \in Nat
      BY <1>1, <2>5, WholeNumbers
    <2> QED BY <2>6 DEF x
  <1>5. DdpEfficiency(bytes, world, link, step * w.grad_accum) \in Int
    <2>1. Sent(2, bytes, Link(link).lat) \in Nat
      <3> HIDE DEF Sent
      <3> QED BY <1>1, <1>2, <1>4
    <2>2. Verdict(Sent(2, bytes, Link(link).lat), step * w.grad_accum, link) \in Int
      <3> HIDE DEF Sent
      <3> QED BY <1>3, <2>1, VerdictIsNumber
    <2> QED BY <2>2 DEF DdpEfficiency
  <1>6. FsdpEfficiency(whole, w.layers, world, link, step) \in Int
    <2> DEFINE lat == 3 * w.layers * Link(link).lat
    <2>1. lat \in Nat
      <3>1. 3 * w.layers \in Nat
        BY DEF Transformer
      <3> QED BY <1>1, <3>1, WholeNumbers
    <2>2. Sent(3, whole, lat) \in Nat
      <3> HIDE DEF Sent, lat
      <3> QED BY <1>2, <1>4, <2>1
    <2>3. Verdict(Sent(3, whole, lat), step, link) \in Int
      <3> HIDE DEF Sent, lat
      <3> QED BY <1>3, <2>2, VerdictIsNumber
    <2> QED BY <2>3 DEF FsdpEfficiency
  <1> QED BY <1>5, <1>6 DEF Efficiency, link, bytes, whole, step

-----------------------------------------------------------------------------
\* An estimate that is no greater than another, and as known as it.
NoMore(a, b) == IF b = Unknown THEN a = Unknown ELSE a \in Nat /\ b \in Nat /\ a <= b

\* A request that asks for no more than q and offers no less.
Eases(p, q) ==
    /\ p \in PlanRequest /\ q \in PlanRequest
    /\ p.kind = q.kind /\ p.workload = q.workload /\ p.mode = q.mode
    /\ p.deadline \in {q.deadline, NoLimit} /\ p.budget \in {q.budget, NoLimit}
    /\ q.allow_quantization => p.allow_quantization
    /\ q.allow_cpu_offload => p.allow_cpu_offload
    /\ LET r == p.resources
           s == q.resources
       IN  /\ r.gpus = s.gpus /\ r.tflops = s.tflops /\ r.hosts = s.hosts /\ r.link = s.link
           /\ r.rate = s.rate /\ r.cores = s.cores /\ s.vram <= r.vram /\ s.ram <= r.ram

\* A candidate as good as another for those who ask for the fastest or the cheapest.
AsGood(d, c) == d.workers = c.workers /\ NoMore(d.time, c.time) /\ NoMore(d.cost, c.cost)

\* What a feasible candidate says is a number where it says anything.
Offered(c, q) ==
    /\ c.workers \in Nat /\ AsGood(c, c)
    /\ c.headroom \in Int /\ c.headroom <= q.resources.vram

\* Every request has machines, limits and a mode.
LEMMA RequestHas ==
    ASSUME NEW q \in PlanRequest
    PROVE  /\ q.resources \in Resources
           /\ q.deadline \in {NoLimit} \cup Nat /\ q.budget \in {NoLimit} \cup Nat
           /\ q.mode \in {"cheapest", "fastest", "balanced", "reliable"}
           /\ q.kind \in {"transformer_finetune", "pytorch_training", "classical_ml",
                         "independent_tasks"}
           /\ q.kind = "transformer_finetune" => q.workload \in Transformer
           /\ q.kind = "pytorch_training" => q.workload \in Generic
           /\ q.kind = "classical_ml" => q.workload \in Classical
           /\ q.kind = "independent_tasks" => q.workload \in IndependentTasks
  BY DEF PlanRequest, RequestOf

\* No estimate that is a number is unknown.
LEMMA KnownIsNumber == \A x \in Int : x # Unknown /\ x # NoLimit /\ x # Unset
  BY EstimateAssumption

\* An estimate that was within its limit is so when it is less or the limit is waived.
LEMMA MissesLess ==
    ASSUME NEW a, NEW b, NoMore(a, b),
           NEW limit \in {NoLimit} \cup Nat, NEW loose \in {limit, NoLimit},
           Misses(a, loose)
    PROVE  Misses(b, limit)
  BY KnownIsNumber DEF Misses, NoMore

\* Recomputing activations only takes longer.
LEMMA PenaltyGrows ==
    ASSUME NEW a \in BOOLEAN, NEW b \in BOOLEAN, a => b,
           NEW qlora \in BOOLEAN, NEW offload \in BOOLEAN
    PROVE  /\ Penalty(a, qlora, offload) \in Nat /\ Penalty(b, qlora, offload) \in Nat
           /\ Penalty(a, qlora, offload) <= Penalty(b, qlora, offload)
  <1>1. CASE qlora /\ offload
    BY <1>1 DEF Penalty
  <1>2. CASE qlora /\ ~offload
    BY <1>2 DEF Penalty
  <1>3. CASE ~qlora /\ offload
    BY <1>3 DEF Penalty
  <1>4. CASE ~qlora /\ ~offload
    BY <1>4 DEF Penalty
  <1> QED BY <1>1, <1>2, <1>3, <1>4

\* A run takes no longer for a lesser penalty.
LEMMA MinutesGrow ==
    ASSUME NEW w \in Transformer, NEW r \in Resources, NEW s \in Resources, r.tflops = s.tflops,
           NEW world \in Nat \ {0}, NEW e \in Int, NEW a \in Nat, NEW b \in Nat, a <= b
    PROVE  NoMore(TrainingMinutes(w, r, world, e, a), TrainingMinutes(w, s, world, e, b))
  <1>1. CASE s.tflops = 0 \/ w.train_tokens = Unset
    BY <1>1 DEF TrainingMinutes, NoMore
  <1>2. CASE ~(s.tflops = 0 \/ w.train_tokens = Unset)
    <2> DEFINE work == w.train_tokens * w.params
               rate == 3 * s.tflops * world * Max({1, e})
    <2>1. work \in Nat
      <3>1. w.train_tokens \in Nat /\ w.params \in Nat
        BY <1>2 DEF Transformer
      <3> QED BY <3>1, WholeNumbers
    <2>2. rate \in Nat \ {0}
      <3>1. Max({1, e}) \in Nat \ {0}
        BY MaxOfTwo
      <3>2. 3 * s.tflops \in Nat \ {0}
        BY <1>2 DEF Resources
      <3>3. \A x \in Nat \ {0} : \A y \in Nat \ {0} : x * y \in Nat \ {0}
        OBVIOUS
      <3>4. 3 * s.tflops * world \in Nat \ {0}
        BY <3>2, <3>3
      <3> QED BY <3>1, <3>3, <3>4
    <2> HIDE DEF work, rate
    <2>3. work * a \in Nat /\ work * b \in Nat /\ work * a <= work * b
      <3>1. a * work \in Nat /\ b * work \in Nat /\ a * work <= b * work
        BY <2>1, ProductGrows
      <3>2. a * work = work * a /\ b * work = work * b
        BY <2>1
      <3> QED BY <3>1, <3>2
    <2>4. /\ (work * a) \div rate \in Nat /\ (work * b) \div rate \in Nat
          /\ (work * a) \div rate <= (work * b) \div rate
      BY <2>2, <2>3, QuotientGrows
    <2>5. /\ TrainingMinutes(w, r, world, e, a) = (work * a) \div rate
          /\ TrainingMinutes(w, s, world, e, b) = (work * b) \div rate
      BY <1>2 DEF TrainingMinutes, work, rate
    <2> QED BY <2>4, <2>5, KnownIsNumber DEF NoMore
  <1> QED BY <1>1, <1>2

\* A run costs no more for being shorter.
LEMMA CostGrows ==
    ASSUME NEW a, NEW b, NoMore(a, b), NEW r \in Resources, NEW s \in Resources, r.rate = s.rate,
           NEW world \in Nat
    PROVE  NoMore(Cost(a, world, r), Cost(b, world, s))
  <1>1. CASE b = Unknown \/ s.rate = Unset
    BY <1>1 DEF NoMore, Cost
  <1>2. CASE ~(b = Unknown \/ s.rate = Unset)
    <2>1. a \in Nat /\ b \in Nat /\ a <= b /\ s.rate \in Nat /\ a # Unknown
      BY <1>2, KnownIsNumber DEF NoMore, Resources
    <2>2. a * world \in Nat /\ b * world \in Nat /\ a * world <= b * world
      BY <2>1, ProductGrows
    <2> DEFINE x == a * world * s.rate
               y == b * world * s.rate
    <2>3. x \in Nat /\ y \in Nat /\ x <= y
      <3> DEFINE m == a * world
                 n == b * world
      <3>1. m \in Nat /\ n \in Nat /\ m <= n
        BY <2>2
      <3> HIDE DEF m, n
      <3>2. m * s.rate \in Nat /\ n * s.rate \in Nat /\ m * s.rate <= n * s.rate
        BY <2>1, <3>1, ProductGrows
      <3> QED BY <3>2 DEF m, n
    <2>4. Cost(a, world, r) = x \div 60 /\ Cost(b, world, s) = y \div 60
      BY <1>2, <2>1 DEF Cost
    <2> HIDE DEF x, y
    <2>5. x \div 60 \in Nat /\ y \div 60 \in Nat /\ x \div 60 <= y \div 60
      BY <2>3
    <2> QED BY <2>4, <2>5, KnownIsNumber DEF NoMore
  <1> QED BY <1>1, <1>2

-----------------------------------------------------------------------------
\* How long a group is estimated to train.
EstimatedMinutes(w, r, family, world) ==
    TrainingMinutes(w, r, world, Efficiency(w, r, family, world),
                    Penalty(Checkpointing(w, r, family, world), w.method = "qlora",
                            Offloaded(family)))

\* ... and what each of its GPUs is estimated to hold.
EstimatedMemory(w, r, family, world) ==
    TransformerMemory(w, family, world, Checkpointing(w, r, family, world))

\* A candidate for fine-tuning is feasible when it fits, scales and meets the limits.
LEMMA TrainingIsJudged ==
    ASSUME NEW q \in PlanRequest, NEW w \in Transformer, NEW family, NEW world \in Nat \ {0}
    PROVE  LET r == q.resources
               c == EvaluateTraining(q, w, family, world)
               minutes == EstimatedMinutes(w, r, family, world)
               memory == EstimatedMemory(w, r, family, world)
           IN  /\ memory \in Nat
               /\ c.status = "feasible" <=>
                     /\ memory <= HardCap(r.vram)
                     /\ OffloadedRam(w, family, world) <= RamBudget(r.ram)
                     /\ ~(Efficiency(w, r, family, world) < E_REJECT)
                     /\ ~Misses(minutes, q.deadline)
                     /\ ~Misses(Cost(minutes, world, r), q.budget)
               /\ c.status = "feasible" =>
                     /\ c.workers = world /\ c.time = minutes /\ c.cost = Cost(minutes, world, r)
                     /\ c.headroom = r.vram - memory
  <1> DEFINE r == q.resources
             c == EvaluateTraining(q, w, family, world)
             ackpt == Checkpointing(w, r, family, world)
             memory == TransformerMemory(w, family, world, ackpt)
             ram == OffloadedRam(w, family, world)
             e == Efficiency(w, r, family, world)
             minutes == TrainingMinutes(w, r, world, e,
                                        Penalty(ackpt, w.method = "qlora", Offloaded(family)))
             cost == Cost(minutes, world, r)
             rejected == [Candidate(family, world, "infeasible") EXCEPT !.memory = memory]
             judged == Judged([rejected EXCEPT !.quantized = w.method = "qlora", !.ackpt = ackpt,
                                               !.ram = ram, !.time = minutes, !.cost = cost,
                                               !.headroom = r.vram - memory], q, r)
  <1>1. ackpt \in BOOLEAN
    BY DEF Checkpointing, Transformer
  <1>2. memory \in Nat /\ ram \in Nat
    <2> HIDE DEF ackpt
    <2> QED BY <1>1, MemoryIsNumber
  <1>3. r \in Resources /\ HardCap(r.vram) \in Nat /\ RamBudget(r.ram) \in Nat
    <2>1. r \in Resources
      BY RequestHas
    <2> HIDE DEF r
    <2> QED BY <2>1, CapsGrow DEF Resources
  <1>4. c = IF memory > HardCap(r.vram)
            THEN [rejected EXCEPT !.shortfall = memory - HardCap(r.vram)]
            ELSE IF ram > RamBudget(r.ram) \/ e < E_REJECT THEN rejected ELSE judged
    BY DEF EvaluateTraining
  <1>5. /\ minutes = EstimatedMinutes(w, r, family, world)
        /\ memory = EstimatedMemory(w, r, family, world)
    BY DEF EstimatedMinutes, EstimatedMemory
  <1> HIDE DEF c, minutes, memory, ram, e, ackpt, cost, r
  <1>6. /\ rejected.status = "infeasible"
        /\ [rejected EXCEPT !.shortfall = memory - HardCap(r.vram)].status = "infeasible"
    BY DEF Candidate
  <1>7. /\ judged.workers = world /\ judged.time = minutes /\ judged.cost = cost
        /\ judged.headroom = r.vram - memory
        /\ judged.status = IF Misses(minutes, q.deadline) \/ Misses(cost, q.budget)
                           THEN "rejected_policy" ELSE "feasible"
    BY DEF Judged, Candidate
  <1> HIDE DEF rejected, judged
  <1>8. c.status = "feasible" <=>
            /\ memory <= HardCap(r.vram) /\ ram <= RamBudget(r.ram) /\ ~(e < E_REJECT)
            /\ ~Misses(minutes, q.deadline) /\ ~Misses(cost, q.budget)
    BY <1>2, <1>3, <1>4, <1>6, <1>7
  <1>9. c.status = "feasible" => c = judged
    BY <1>4, <1>6
  <1> QED BY <1>2, <1>5, <1>7, <1>8, <1>9 DEF c, ram, e, cost, r

\* More memory makes no group recompute its activations.
LEMMA CheckpointingLess ==
    ASSUME NEW w \in Transformer, NEW r \in Resources, NEW s \in Resources, s.vram <= r.vram,
           NEW family, NEW world \in Nat \ {0},
           EstimatedMemory(w, s, family, world) <= HardCap(s.vram)
    PROVE  /\ Checkpointing(w, r, family, world) \in BOOLEAN
           /\ Checkpointing(w, s, family, world) \in BOOLEAN
           /\ Checkpointing(w, r, family, world) => Checkpointing(w, s, family, world)
           /\ EstimatedMemory(w, r, family, world) <= HardCap(r.vram)
  <1> DEFINE plain == TransformerMemory(w, family, world, FALSE)
             saving == TransformerMemory(w, family, world, TRUE)
             a == Checkpointing(w, r, family, world)
             b == Checkpointing(w, s, family, world)
  <1>1. plain \in Nat /\ saving \in Nat
    BY MemoryIsNumber
  <1>2. /\ HardCap(r.vram) \in Nat /\ HardCap(s.vram) \in Nat
        /\ HardCap(s.vram) <= HardCap(r.vram)
    BY CapsGrow DEF Resources
  <1>3. /\ a = IF w.ackpt # Unset THEN w.ackpt
               ELSE plain > HardCap(r.vram) /\ saving <= HardCap(r.vram)
        /\ b = IF w.ackpt # Unset THEN w.ackpt
               ELSE plain > HardCap(s.vram) /\ saving <= HardCap(s.vram)
    BY DEF Checkpointing
  <1>4. w.ackpt # Unset => w.ackpt \in BOOLEAN
    BY DEF Transformer
  <1>5. a \in BOOLEAN /\ b \in BOOLEAN
    BY <1>3, <1>4
  <1>6. /\ EstimatedMemory(w, r, family, world) = IF a THEN saving ELSE plain
        /\ EstimatedMemory(w, s, family, world) = IF b THEN saving ELSE plain
    BY <1>5 DEF EstimatedMemory
  <1> HIDE DEF a, b, plain, saving
  <1>7. CASE w.ackpt # Unset
    BY <1>1, <1>2, <1>3, <1>4, <1>5, <1>6, <1>7 DEF a, b
  <1>8. CASE w.ackpt = Unset
    BY <1>1, <1>2, <1>3, <1>5, <1>6, <1>8 DEF a, b
  <1> QED BY <1>7, <1>8

\* A feasible candidate for fine-tuning stays feasible, and as good, when a request is eased.
LEMMA TrainingEased ==
    ASSUME NEW p, NEW q, Eases(p, q), NEW w \in Transformer, NEW family, NEW world \in Nat \ {0},
           EvaluateTraining(q, w, family, world).status = "feasible"
    PROVE  /\ EvaluateTraining(p, w, family, world).status = "feasible"
           /\ AsGood(EvaluateTraining(p, w, family, world), EvaluateTraining(q, w, family, world))
  <1> DEFINE r == p.resources
             s == q.resources
             e == Efficiency(w, s, family, world)
             d == EvaluateTraining(p, w, family, world)
             c == EvaluateTraining(q, w, family, world)
             m == EstimatedMinutes(w, r, family, world)
             n == EstimatedMinutes(w, s, family, world)
  <1>1. /\ p \in PlanRequest /\ q \in PlanRequest /\ r \in Resources /\ s \in Resources
        /\ q.deadline \in {NoLimit} \cup Nat /\ q.budget \in {NoLimit} \cup Nat
        /\ p.deadline \in {q.deadline, NoLimit} /\ p.budget \in {q.budget, NoLimit}
    BY RequestHas DEF Eases
  <1>2. /\ r.gpus = s.gpus /\ r.tflops = s.tflops /\ r.hosts = s.hosts /\ r.link = s.link
        /\ r.rate = s.rate /\ s.vram <= r.vram /\ s.ram <= r.ram
    BY DEF Eases
  <1>3. /\ EstimatedMemory(w, s, family, world) <= HardCap(s.vram)
        /\ OffloadedRam(w, family, world) <= RamBudget(s.ram)
        /\ ~(e < E_REJECT) /\ ~Misses(n, q.deadline) /\ ~Misses(Cost(n, world, s), q.budget)
        /\ c.workers = world /\ c.time = n /\ c.cost = Cost(n, world, s)
    BY <1>1, TrainingIsJudged
  <1> HIDE DEF r, s, d, c, m, n
  <1>4. Efficiency(w, r, family, world) = e /\ e \in Int
    <2>1. MicroStep(w, r) = MicroStep(w, s) /\ LinkOf(r, world) = LinkOf(s, world)
      BY <1>2 DEF MicroStep, LinkOf
    <2>2. e \in Int
      BY <1>1, EfficiencyIsNumber
    <2> QED BY <2>1, <2>2 DEF Efficiency
  <1> HIDE DEF e
  <1>5. /\ Checkpointing(w, r, family, world) \in BOOLEAN
        /\ Checkpointing(w, s, family, world) \in BOOLEAN
        /\ Checkpointing(w, r, family, world) => Checkpointing(w, s, family, world)
        /\ EstimatedMemory(w, r, family, world) <= HardCap(r.vram)
    BY <1>1, <1>2, <1>3, CheckpointingLess
  <1>6. NoMore(m, n)
    <2> DEFINE a == Penalty(Checkpointing(w, r, family, world), w.method = "qlora",
                            Offloaded(family))
               b == Penalty(Checkpointing(w, s, family, world), w.method = "qlora",
                            Offloaded(family))
    <2>1. (w.method = "qlora") \in BOOLEAN /\ Offloaded(family) \in BOOLEAN
      BY DEF Offloaded
    <2>2. a \in Nat /\ b \in Nat /\ a <= b
      BY <1>5, <2>1, PenaltyGrows
    <2>3. m = TrainingMinutes(w, r, world, e, a) /\ n = TrainingMinutes(w, s, world, e, b)
      BY <1>4 DEF EstimatedMinutes, m, n, e
    <2> HIDE DEF a, b
    <2> QED BY <1>1, <1>2, <1>4, <2>2, <2>3, MinutesGrow
  <1>7. NoMore(Cost(m, world, r), Cost(n, world, s))
    BY <1>1, <1>2, <1>6, CostGrows
  <1>8. OffloadedRam(w, family, world) <= RamBudget(r.ram)
    <2>1. OffloadedRam(w, family, world) \in Nat
      BY MemoryIsNumber
    <2>2. /\ RamBudget(s.ram) \in Nat /\ RamBudget(r.ram) \in Nat
          /\ RamBudget(s.ram) <= RamBudget(r.ram)
      BY <1>1, <1>2, CapsGrow DEF Resources
    <2> QED BY <1>3, <2>1, <2>2
  <1>9. ~Misses(m, p.deadline) /\ ~Misses(Cost(m, world, r), p.budget)
    BY <1>1, <1>3, <1>6, <1>7, MissesLess
  <1>10. d.status = "feasible"
    BY <1>1, <1>3, <1>4, <1>5, <1>8, <1>9, TrainingIsJudged DEF r, d, m
  <1>11. d.workers = world /\ d.time = m /\ d.cost = Cost(m, world, r)
    BY <1>1, <1>10, TrainingIsJudged DEF r, d, m
  <1>12. AsGood(d, c)
    BY <1>3, <1>6, <1>7, <1>11 DEF AsGood
  <1> QED BY <1>10, <1>12 DEF d, c

-----------------------------------------------------------------------------

\* The same of another model, whose work the user gives in GPU hours.
GenericMinutes(w, world) == IF w.gpu_hours = Unset THEN Unknown ELSE (w.gpu_hours * 60) \div world

\* ... and how well it scales.
GenericEfficiency(r, world) == IF world <= 1 THEN 100 ELSE Verdict(0, 0, LinkOf(r, world))

\* Another model's memory and time are numbers.
LEMMA GenericIsNumber ==
    ASSUME NEW w \in Generic, NEW family, NEW world \in Nat \ {0}
    PROVE  /\ GenericMemory(w, family, world) \in Nat
           /\ NoMore(GenericMinutes(w, world), GenericMinutes(w, world))
  <1>0. Trained(w) \in Nat
    <2>1. w.params * w.trainable \in Nat
      <3>1. w.params \in Nat /\ w.trainable \in Nat
        BY DEF Generic
      <3> QED BY <3>1, WholeNumbers
    <2>2. (w.params * w.trainable) \div 100 \in Nat
      BY <2>1, WholeNumbers
    <2> QED BY <2>2 DEF Trained
  <1>1. w.params \in Nat /\ Bytes(w.precision) \in Nat /\ OptimizerBytes(w.optimizer) \in Nat
    BY DEF Generic, Bytes, OptimizerBytes
  <1>2. /\ w.params * Bytes(w.precision) \in Nat /\ Trained(w) * Bytes(w.precision) \in Nat
        /\ Trained(w) * OptimizerBytes(w.optimizer) \in Nat
    BY <1>0, <1>1, WholeNumbers
  <1>3. /\ PerGpu(w.params * Bytes(w.precision), family, world) \in Nat
        /\ PerGpu(Trained(w) * Bytes(w.precision), family, world) \in Nat
        /\ PerGpu(Trained(w) * OptimizerBytes(w.optimizer), family, world) \in Nat
    BY <1>2, PerGpuIsNumber
  <1>4. GenericMemory(w, family, world) \in Nat
    BY <1>3 DEF GenericMemory, Generic, OVERHEAD
  <1>5. CASE w.gpu_hours = Unset
    BY <1>4, <1>5 DEF GenericMinutes, NoMore
  <1>6. CASE w.gpu_hours # Unset
    <2>1. w.gpu_hours * 60 \in Nat
      BY <1>6 DEF Generic
    <2>2. (w.gpu_hours * 60) \div world \in Nat
      BY <2>1, WholeNumbers
    <2>3. GenericMinutes(w, world) \in Nat
      BY <1>6, <2>2 DEF GenericMinutes
    <2> QED BY <1>4, <2>3 DEF NoMore
  <1> QED BY <1>5, <1>6

\* A candidate for another model is feasible when it fits, scales and meets the limits.
LEMMA GenericIsJudged ==
    ASSUME NEW q \in PlanRequest, q.workload \in Generic, NEW family, NEW world \in Nat \ {0}
    PROVE  LET r == q.resources
               c == EvaluateGeneric(q, family, world)
               minutes == GenericMinutes(q.workload, world)
               memory == GenericMemory(q.workload, family, world)
           IN  /\ c.status = "feasible" <=>
                     /\ memory <= HardCap(r.vram)
                     /\ ~(GenericEfficiency(r, world) < E_REJECT)
                     /\ ~Misses(minutes, q.deadline)
                     /\ ~Misses(Cost(minutes, world, r), q.budget)
               /\ c.status = "feasible" =>
                     /\ c.workers = world /\ c.time = minutes /\ c.cost = Cost(minutes, world, r)
                     /\ c.headroom = r.vram - memory
  <1> DEFINE w == q.workload
             r == q.resources
             c == EvaluateGeneric(q, family, world)
             memory == GenericMemory(w, family, world)
             e == IF world <= 1 THEN 100 ELSE Verdict(0, 0, LinkOf(r, world))
             minutes == IF w.gpu_hours = Unset THEN Unknown ELSE (w.gpu_hours * 60) \div world
             cost == Cost(minutes, world, r)
             rejected == [Candidate(family, world, "infeasible") EXCEPT !.memory = memory]
             judged == Judged([rejected EXCEPT !.time = minutes, !.cost = cost,
                                               !.headroom = r.vram - memory], q, r)
  <1>1. memory \in Nat
    BY GenericIsNumber
  <1>2. r \in Resources /\ HardCap(r.vram) \in Nat
    <2>1. r \in Resources
      BY RequestHas
    <2> HIDE DEF r
    <2> QED BY <2>1, CapsGrow DEF Resources
  <1>3. c = IF memory > HardCap(r.vram)
            THEN [rejected EXCEPT !.shortfall = memory - HardCap(r.vram)]
            ELSE IF e < E_REJECT THEN rejected ELSE judged
    BY DEF EvaluateGeneric
  <1>4. minutes = GenericMinutes(w, world) /\ e = GenericEfficiency(r, world)
    BY DEF GenericMinutes, GenericEfficiency
  <1> HIDE DEF c, minutes, memory, e, cost, r, w
  <1>5. /\ rejected.status = "infeasible"
        /\ [rejected EXCEPT !.shortfall = memory - HardCap(r.vram)].status = "infeasible"
    BY DEF Candidate
  <1>6. /\ judged.workers = world /\ judged.time = minutes /\ judged.cost = cost
        /\ judged.headroom = r.vram - memory
        /\ judged.status = IF Misses(minutes, q.deadline) \/ Misses(cost, q.budget)
                           THEN "rejected_policy" ELSE "feasible"
    BY DEF Judged, Candidate
  <1> HIDE DEF rejected, judged
  <1>7. c.status = "feasible" <=>
            /\ memory <= HardCap(r.vram) /\ ~(e < E_REJECT)
            /\ ~Misses(minutes, q.deadline) /\ ~Misses(cost, q.budget)
    BY <1>1, <1>2, <1>3, <1>5, <1>6
  <1>8. c.status = "feasible" => c = judged
    BY <1>3, <1>5
  <1> QED BY <1>4, <1>6, <1>7, <1>8 DEF c, memory, cost, r, w

\* A feasible candidate for another model stays so, and as good, when a request is eased.
LEMMA GenericEased ==
    ASSUME NEW p, NEW q, Eases(p, q), q.workload \in Generic, NEW family, NEW world \in Nat \ {0},
           EvaluateGeneric(q, family, world).status = "feasible"
    PROVE  /\ EvaluateGeneric(p, family, world).status = "feasible"
           /\ AsGood(EvaluateGeneric(p, family, world), EvaluateGeneric(q, family, world))
  <1> DEFINE r == p.resources
             s == q.resources
             d == EvaluateGeneric(p, family, world)
             c == EvaluateGeneric(q, family, world)
             w == q.workload
             minutes == GenericMinutes(w, world)
             memory == GenericMemory(w, family, world)
  <1>1. /\ p \in PlanRequest /\ q \in PlanRequest /\ r \in Resources /\ s \in Resources
        /\ q.deadline \in {NoLimit} \cup Nat /\ q.budget \in {NoLimit} \cup Nat
        /\ p.deadline \in {q.deadline, NoLimit} /\ p.budget \in {q.budget, NoLimit}
        /\ p.workload = w
    BY RequestHas DEF Eases
  <1>2. /\ r.gpus = s.gpus /\ r.hosts = s.hosts /\ r.link = s.link /\ r.rate = s.rate
        /\ s.vram <= r.vram
    BY DEF Eases
  <1>3. /\ memory <= HardCap(s.vram) /\ ~(GenericEfficiency(s, world) < E_REJECT)
        /\ ~Misses(minutes, q.deadline) /\ ~Misses(Cost(minutes, world, s), q.budget)
        /\ c.workers = world /\ c.time = minutes /\ c.cost = Cost(minutes, world, s)
    BY <1>1, GenericIsJudged
  <1>4. memory \in Nat /\ NoMore(minutes, minutes)
    BY GenericIsNumber
  <1> HIDE DEF r, s, d, c, w, minutes, memory
  <1>5. GenericEfficiency(r, world) = GenericEfficiency(s, world)
    BY <1>2 DEF GenericEfficiency, LinkOf
  <1>6. memory <= HardCap(r.vram)
    <2>1. HardCap(s.vram) \in Nat /\ HardCap(r.vram) \in Nat /\ HardCap(s.vram) <= HardCap(r.vram)
      BY <1>1, <1>2, CapsGrow DEF Resources
    <2> QED BY <1>3, <1>4, <2>1
  <1>7. NoMore(Cost(minutes, world, r), Cost(minutes, world, s))
    BY <1>1, <1>2, <1>4, CostGrows
  <1>8. ~Misses(minutes, p.deadline) /\ ~Misses(Cost(minutes, world, r), p.budget)
    BY <1>1, <1>3, <1>4, <1>7, MissesLess
  <1>9. /\ d.status = "feasible"
        /\ d.workers = world /\ d.time = minutes /\ d.cost = Cost(minutes, world, r)
    BY <1>1, <1>3, <1>5, <1>6, <1>8, GenericIsJudged DEF r, d, w, minutes, memory
  <1>10. AsGood(d, c)
    BY <1>3, <1>4, <1>7, <1>9 DEF AsGood
  <1> QED BY <1>9, <1>10 DEF d, c

-----------------------------------------------------------------------------
\* Sizes of groups are whole numbers of devices.
LEMMA SizesAreNumbers ==
    ASSUME NEW gpus \in Nat \ {0}
    PROVE  WorldSizes(gpus) \subseteq Nat \ {0}
  BY DEF WorldSizes

\* The variants of a workload are workloads, and one more may come with quantization.
LEMMA VariantsGrow ==
    ASSUME NEW p, NEW q, Eases(p, q), q.workload \in Transformer
    PROVE  Variants(q) \subseteq Variants(p) /\ Variants(q) \subseteq Transformer
  <1>1. p.workload = q.workload /\ (q.allow_quantization => p.allow_quantization)
    BY DEF Eases
  <1>2. [q.workload EXCEPT !.method = "qlora"] \in Transformer
    BY DEF Transformer
  <1> QED BY <1>1, <1>2 DEF Variants

\* An eased request has every strategy that the request had.
LEMMA FamiliesGrow ==
    ASSUME NEW p, NEW q, Eases(p, q), NEW w, NEW world
    PROVE  Families(w, world, q) \subseteq Families(w, world, p)
  BY DEF Eases, Families

\* The candidates for fine-tuning, one by one.
LEMMA TransformerCandidatesAre ==
    ASSUME NEW q \in PlanRequest, q.resources.gpus >= 1
    PROVE  \A c : c \in TransformerCandidates(q) <=>
              \E w \in Variants(q) : \E n \in WorldSizes(q.resources.gpus) :
                 \E f \in Families(w, n, q) : c = EvaluateTraining(q, w, f, n)
  <1>1. ~(q.resources.gpus < 1)
    BY RequestHas DEF Resources
  <1> QED BY <1>1 DEF TransformerCandidates

\* Every size of group is tried, and of several GPUs both ways to share.
LEMMA PytorchCandidatesAre ==
    ASSUME NEW q \in PlanRequest, q.resources.gpus >= 1
    PROVE  \A c : c \in PytorchCandidates(q) <=>
              \E n \in WorldSizes(q.resources.gpus) :
                 \E f \in IF n = 1 THEN {"single_gpu"} ELSE {"ddp", "fsdp2"} :
                    c = EvaluateGeneric(q, f, n)
  <1>1. ~(q.resources.gpus < 1)
    BY RequestHas DEF Resources
  <1> QED BY <1>1 DEF PytorchCandidates

\* What a new candidate says.
LEMMA CandidateSays ==
    ASSUME NEW family, NEW workers, NEW status
    PROVE  LET c == Candidate(family, workers, status)
           IN  /\ c.workers = workers /\ c.status = status /\ c.headroom = 0
               /\ c.time = Unknown /\ c.cost = Unknown
               /\ \A time : LET d == [c EXCEPT !.time = time]
                            IN  /\ d.workers = workers /\ d.status = status /\ d.headroom = 0
                                /\ d.time = time /\ d.cost = Unknown
  BY DEF Candidate

\* A candidate without an estimate, or with one of its time, is as good as itself.
LEMMA SameIsAsGood ==
    ASSUME NEW c, c.cost = Unknown, c.time = Unknown \/ c.time \in Nat
    PROVE  AsGood(c, c)
  BY KnownIsNumber DEF AsGood, NoMore

\* A feasible candidate for a classical model is offered, also when a request is eased.
LEMMA ClassicalEased ==
    ASSUME NEW p, NEW q, Eases(p, q), q.workload \in Classical, NEW c \in ClassicalCandidates(q),
           c.status = "feasible"
    PROVE  c \in ClassicalCandidates(p) /\ Offered(c, q)
  <1> DEFINE w == q.workload
             workers == Max({2, Min({16, w.dataset \div 500})})
             fits(r) == w.dataset * 3 <= RamBudget(r.ram)
             plain(r) == Candidate("local_process", 1, IF fits(r) THEN "feasible" ELSE "infeasible")
             sharded == Candidate("sharded_partial_fit", workers, "feasible")
  <1>1. /\ p.resources \in Resources /\ q.resources \in Resources
        /\ p.workload = w /\ q.resources.ram <= p.resources.ram
    BY RequestHas DEF Eases
  <1>2. workers \in Nat
    <2> DEFINE shards == w.dataset \div 500
               few == Min({16, shards})
    <2>1. shards \in Int /\ 16 \in Int /\ 2 \in Int
      BY DEF Classical
    <2> HIDE DEF shards
    <2>2. few \in Int
      BY <2>1, MinOfTwo, Zenon
    <2> HIDE DEF few
    <2>3. Max({2, few}) \in Int /\ Max({2, few}) >= 2
      BY <2>1, <2>2, MaxOfTwo, Zenon
    <2>4. workers = Max({2, few})
      BY DEF few, shards
    <2> HIDE DEF workers
    <2> QED BY <2>3, <2>4
  <1>3. fits(q.resources) => fits(p.resources)
    <2>1. /\ RamBudget(q.resources.ram) \in Nat /\ RamBudget(p.resources.ram) \in Nat
          /\ RamBudget(q.resources.ram) <= RamBudget(p.resources.ram)
      BY <1>1, CapsGrow DEF Resources
    <2>2. w.dataset * 3 \in Nat
      BY DEF Classical
    <2> HIDE DEF w
    <2> QED BY <2>1, <2>2
  <1>4. /\ ClassicalCandidates(q) = {plain(q.resources)}
                                  \cup (IF w.partial_fit THEN {sharded} ELSE {})
        /\ ClassicalCandidates(p) = {plain(p.resources)}
                                  \cup (IF w.partial_fit THEN {sharded} ELSE {})
    BY <1>1 DEF ClassicalCandidates
  <1>5. q.resources.vram \in Nat
    BY <1>1 DEF Resources
  <1> HIDE DEF w, workers, fits
  <1>6. CASE c = plain(q.resources)
    <2>1. fits(q.resources)
      BY <1>6, CandidateSays
    <2>2. c = plain(p.resources)
      BY <1>3, <1>6, <2>1
    <2>3. c.workers = 1 /\ c.time = Unknown /\ c.cost = Unknown /\ c.headroom = 0
      BY <1>6, CandidateSays
    <2> HIDE DEF plain
    <2> QED BY <1>4, <1>5, <2>2, <2>3, SameIsAsGood DEF Offered
  <1>7. CASE c # plain(q.resources)
    <2>1. w.partial_fit /\ c = sharded
      BY <1>4, <1>7
    <2>2. c.workers = workers /\ c.time = Unknown /\ c.cost = Unknown /\ c.headroom = 0
      BY <2>1, CandidateSays
    <2> HIDE DEF sharded, plain
    <2> QED BY <1>2, <1>4, <1>5, <2>1, <2>2, SameIsAsGood DEF Offered
  <1> QED BY <1>6, <1>7

\* The slots and waves of independent tasks are numbers.
LEMMA SlotsAreNumbers ==
    ASSUME NEW w \in IndependentTasks, NEW r \in Resources
    PROVE  /\ Slots(w, r) \in Nat \ {0} /\ Waves(w, r) * w.minutes \in Nat
           /\ w.count * w.minutes \in Nat
  <1>1. w.count \in Nat \ {0} /\ w.minutes \in Nat
    BY DEF IndependentTasks
  <1>2. Slots(w, r) \in Nat \ {0}
    <2> DEFINE machines == IF w.needs_gpu THEN r.gpus ELSE r.hosts * Max({1, r.cores \div 4})
               few == Min({w.count, machines})
    <2>1. machines \in Int
      <3>1. /\ r.gpus \in Int /\ r.hosts \in Int /\ r.cores \div 4 \in Int
        BY DEF Resources
      <3>2. Max({1, r.cores \div 4}) \in Int
        <4>1. 1 \in Int
          OBVIOUS
        <4> QED BY <3>1, <4>1, MaxOfTwo, Zenon
      <3> QED BY <3>1, <3>2
    <2> HIDE DEF machines
    <2>2. few \in Int
      BY <1>1, <2>1, MinOfTwo
    <2> HIDE DEF few
    <2>3. Max({1, few}) \in Int /\ Max({1, few}) >= 1
      BY <2>2, MaxOfTwo
    <2> QED BY <2>3 DEF Slots, few, machines
  <1>3. Waves(w, r) \in Nat
    <2>1. w.count + Slots(w, r) - 1 \in Nat
      BY <1>1, <1>2
    <2> QED BY <1>2, <2>1, WholeNumbers DEF Waves
  <1> QED BY <1>1, <1>2, <1>3, WholeNumbers

\* A feasible candidate for independent tasks is offered, also when a request is eased.
LEMMA TasksEased ==
    ASSUME NEW p, NEW q, Eases(p, q), q.workload \in IndependentTasks, NEW c \in TasksCandidates(q),
           c.status = "feasible"
    PROVE  c \in TasksCandidates(p) /\ Offered(c, q)
  <1> DEFINE w == q.workload
             s == q.resources
             r == p.resources
             slots == Slots(w, s)
             time == Waves(w, s) * w.minutes
             alone == w.count * w.minutes
             leased == [Candidate("lease_tasks", slots, "feasible") EXCEPT !.time = time]
             local == [Candidate("local_process", 1,
                                 IF slots = 1 THEN "feasible" ELSE "rejected_dominated")
                          EXCEPT !.time = alone]
             judged(d) == IF Misses(leased.time, d)
                          THEN [leased EXCEPT !.status = "rejected_policy"]
                          ELSE leased
             Large(x) == w.needs_gpu /\ x.gpus > 0 /\ w.vram > HardCap(x.vram)
  <1>1. /\ r \in Resources /\ s \in Resources /\ p.workload = w
        /\ r.gpus = s.gpus /\ r.hosts = s.hosts /\ r.cores = s.cores /\ s.vram <= r.vram
        /\ q.deadline \in {NoLimit} \cup Nat /\ p.deadline \in {q.deadline, NoLimit}
    BY RequestHas DEF Eases
  <1>2. slots \in Nat \ {0} /\ time \in Nat /\ alone \in Nat
    BY <1>1, SlotsAreNumbers
  <1>3. Slots(w, r) = slots /\ Waves(w, r) = Waves(w, s)
    <2>1. Slots(w, r) = slots
      BY <1>1 DEF Slots
    <2> QED BY <2>1 DEF Waves
  <1>4. /\ Large(s) => TasksCandidates(q) = {[Candidate("lease_tasks", 0, "infeasible")
                                                 EXCEPT !.shortfall = w.vram - s.vram]}
        /\ ~Large(s) => TasksCandidates(q) = {judged(q.deadline), local}
        /\ ~Large(r) => TasksCandidates(p) = {judged(p.deadline), local}
    BY <1>1, <1>3 DEF TasksCandidates
  <1>5. Large(r) => Large(s)
    <2>1. /\ HardCap(s.vram) \in Nat /\ HardCap(r.vram) \in Nat
          /\ HardCap(s.vram) <= HardCap(r.vram)
      BY <1>1, CapsGrow DEF Resources
    <2>2. w.vram \in Nat
      BY DEF IndependentTasks
    <2> HIDE DEF w, r, s
    <2> QED BY <1>1, <2>1, <2>2
  <1>6. s.vram \in Nat
    BY <1>1 DEF Resources
  <1> HIDE DEF w, s, r, slots, time, alone, Large
  <1>7. [Candidate("lease_tasks", 0, "infeasible") EXCEPT !.shortfall = w.vram - s.vram].status
          = "infeasible"
    BY DEF Candidate
  <1>8. /\ leased.workers = slots /\ leased.time = time /\ leased.cost = Unknown
        /\ leased.headroom = 0 /\ local.workers = 1 /\ local.time = alone /\ local.cost = Unknown
        /\ local.headroom = 0
    BY CandidateSays
  <1>9. [leased EXCEPT !.status = "rejected_policy"].status = "rejected_policy"
    BY DEF Candidate
  <1> HIDE DEF leased, local
  <1>10. ~Large(s) /\ ~Large(r)
    BY <1>4, <1>5, <1>7
  <1>11. (c = leased /\ ~Misses(time, q.deadline)) \/ c = local
    <2>1. c = judged(q.deadline) \/ c = local
      BY <1>4, <1>10
    <2>2. CASE Misses(time, q.deadline)
      BY <1>8, <1>9, <2>1, <2>2
    <2>3. CASE ~Misses(time, q.deadline)
      BY <1>8, <2>1, <2>3
    <2> QED BY <2>2, <2>3
  <1>12. ~Misses(time, q.deadline) => ~Misses(time, p.deadline)
    BY <1>1 DEF Misses
  <1>13. c \in TasksCandidates(p)
    BY <1>4, <1>8, <1>10, <1>11, <1>12
  <1>14. /\ c.workers \in Nat /\ c.time \in Nat /\ c.cost = Unknown /\ c.headroom = 0
    BY <1>2, <1>8, <1>11
  <1> QED BY <1>6, <1>13, <1>14, SameIsAsGood DEF Offered, s

-----------------------------------------------------------------------------
\* A request asks for no more and offers no less than itself.
LEMMA EasesItself == \A q \in PlanRequest : Eases(q, q)
  <1> SUFFICES ASSUME NEW q \in PlanRequest
               PROVE  Eases(q, q)
    OBVIOUS
  <1>1. q.resources.vram \in Nat /\ q.resources.ram \in Nat
    BY RequestHas DEF Resources
  <1> QED BY <1>1 DEF Eases

\* Whatever is feasible is offered, and something as good is when the request is eased.
LEMMA FeasibleIsEased ==
    ASSUME NEW p, NEW q, Eases(p, q), NEW c \in Feasible(q)
    PROVE  Offered(c, q) /\ \E d \in Feasible(p) : AsGood(d, c)
  <1>1. /\ p \in PlanRequest /\ q \in PlanRequest /\ p.kind = q.kind /\ p.workload = q.workload
        /\ p.resources.gpus = q.resources.gpus /\ Eases(q, q)
        /\ c \in Generate(q) /\ c.status = "feasible"
    BY EasesItself DEF Eases, Feasible
  <1>2. q.resources \in Resources /\ q.resources.gpus \in Nat /\ q.resources.vram \in Nat
    BY <1>1, RequestHas DEF Resources
  <1>3. CASE q.kind = "transformer_finetune"
    <2>1. q.workload \in Transformer /\ c \in TransformerCandidates(q)
      BY <1>1, <1>3, RequestHas DEF Generate
    <2>2. q.resources.gpus \in Nat \ {0} /\ q.resources.gpus >= 1 /\ p.resources.gpus >= 1
      <3>1. ~(q.resources.gpus < 1)
        BY <2>1 DEF TransformerCandidates
      <3> QED BY <1>1, <1>2, <3>1
    <2>0. PICK w \in Variants(q), n \in WorldSizes(q.resources.gpus) :
              \E f \in Families(w, n, q) : c = EvaluateTraining(q, w, f, n)
      BY <1>1, <2>1, <2>2, TransformerCandidatesAre
    <2>3. PICK f \in Families(w, n, q) : c = EvaluateTraining(q, w, f, n)
      BY <2>0
    <2>4. /\ w \in Transformer /\ n \in Nat \ {0}
          /\ w \in Variants(p) /\ f \in Families(w, n, p)
      BY <2>1, <2>2, SizesAreNumbers, VariantsGrow, FamiliesGrow
    <2> DEFINE d == EvaluateTraining(p, w, f, n)
    <2>5. d.status = "feasible" /\ AsGood(d, c) /\ AsGood(c, c)
      BY <1>1, <2>3, <2>4, TrainingEased
    <2>6. d \in TransformerCandidates(p)
      BY <1>1, <2>2, <2>3, <2>4, TransformerCandidatesAre
    <2>7. d \in Feasible(p)
      <3> HIDE DEF d
      <3> QED BY <1>1, <1>3, <2>5, <2>6 DEF Feasible, Generate
    <2>8. Offered(c, q)
      <3> DEFINE memory == EstimatedMemory(w, q.resources, f, n)
      <3>1. memory \in Nat /\ c.workers = n /\ c.headroom = q.resources.vram - memory
        BY <1>1, <2>3, <2>4, TrainingIsJudged
      <3> HIDE DEF memory
      <3> QED BY <1>2, <2>4, <2>5, <3>1 DEF Offered
    <2> QED BY <2>5, <2>7, <2>8
  <1>4. CASE q.kind = "pytorch_training"
    <2>1. q.workload \in Generic /\ c \in PytorchCandidates(q)
      BY <1>1, <1>4, RequestHas DEF Generate
    <2>2. q.resources.gpus \in Nat \ {0} /\ q.resources.gpus >= 1 /\ p.resources.gpus >= 1
      <3>1. ~(q.resources.gpus < 1)
        BY <2>1 DEF PytorchCandidates
      <3> QED BY <1>1, <1>2, <3>1
    <2>0. PICK n \in WorldSizes(q.resources.gpus) :
              \E f \in IF n = 1 THEN {"single_gpu"} ELSE {"ddp", "fsdp2"} :
                 c = EvaluateGeneric(q, f, n)
      BY <1>1, <2>1, <2>2, PytorchCandidatesAre
    <2>3. PICK f \in IF n = 1 THEN {"single_gpu"} ELSE {"ddp", "fsdp2"} :
              c = EvaluateGeneric(q, f, n)
      BY <2>0
    <2>4. n \in Nat \ {0}
      BY <2>2, SizesAreNumbers
    <2> DEFINE d == EvaluateGeneric(p, f, n)
    <2>5. d.status = "feasible" /\ AsGood(d, c) /\ AsGood(c, c)
      BY <1>1, <2>1, <2>3, <2>4, GenericEased
    <2>6. d \in PytorchCandidates(p)
      BY <1>1, <2>2, <2>3, PytorchCandidatesAre
    <2>7. d \in Feasible(p)
      <3> HIDE DEF d
      <3> QED BY <1>1, <1>4, <2>5, <2>6 DEF Feasible, Generate
    <2>8. Offered(c, q)
      <3> DEFINE memory == GenericMemory(q.workload, f, n)
      <3>1. memory \in Nat /\ c.workers = n /\ c.headroom = q.resources.vram - memory
        BY <1>1, <2>1, <2>3, <2>4, GenericIsJudged, GenericIsNumber
      <3> HIDE DEF memory
      <3> QED BY <1>2, <2>4, <2>5, <3>1 DEF Offered
    <2> QED BY <2>5, <2>7, <2>8
  <1>5. CASE q.kind = "classical_ml"
    <2>1. q.workload \in Classical /\ c \in ClassicalCandidates(q)
      BY <1>1, <1>5, RequestHas DEF Generate
    <2>2. c \in ClassicalCandidates(p) /\ Offered(c, q)
      BY <1>1, <2>1, ClassicalEased
    <2>3. c \in Feasible(p) /\ AsGood(c, c)
      BY <1>1, <1>5, <2>2 DEF Feasible, Generate, Offered
    <2> QED BY <2>2, <2>3
  <1>6. CASE q.kind = "independent_tasks"
    <2>1. q.workload \in IndependentTasks /\ c \in TasksCandidates(q)
      BY <1>1, <1>6, RequestHas DEF Generate
    <2>2. c \in TasksCandidates(p) /\ Offered(c, q)
      BY <1>1, <2>1, TasksEased
    <2>3. c \in Feasible(p) /\ AsGood(c, c)
      BY <1>1, <1>6, <2>2 DEF Feasible, Generate, Offered
    <2> QED BY <2>2, <2>3
  <1> QED BY <1>1, <1>3, <1>4, <1>5, <1>6, RequestHas

-----------------------------------------------------------------------------
\* Of the values of a function that has a bound from below, there is a least.
LEMMA LeastValue ==
    ASSUME NEW S, S # {}, NEW f \in [S -> Int], NEW b \in Int, \A x \in S : b <= f[x]
    PROVE  \E x \in S : \A y \in S : f[x] <= f[y]
  <1> DEFINE R == OpToRel(<, Nat)
             Above == {f[x] - b : x \in S}
  <1>1. Above \subseteq Nat /\ Above # {}
    OBVIOUS
  <1>2. PICK m \in Above : \A k \in Above : ~(<<k, m>> \in R)
    <2> HIDE DEF Above
    <2> QED BY <1>1, NatLessThanWellFounded, WFMin
  <1>3. \A k \in Nat : k < m => <<k, m>> \in R
    BY <1>1 DEF OpToRel
  <1> HIDE DEF R
  <1>4. PICK x \in S : m = f[x] - b
    OBVIOUS
  <1>5. ASSUME NEW y \in S
        PROVE  f[x] <= f[y]
    <2>1. f[y] - b \in Above /\ f[y] - b \in Nat
      OBVIOUS
    <2>2. ~(f[y] - b < m)
      <3> HIDE DEF Above
      <3> QED BY <1>2, <1>3, <2>1
    <2> QED BY <1>4, <2>2
  <1> QED BY <1>5

\* One key is before another at the first place where they differ.
LEMMA BeforeIs ==
    ASSUME NEW a \in [1 .. 4 -> Int], NEW b \in [1 .. 4 -> Int]
    PROVE  Before(a, b) <=> \/ a[1] < b[1]
                            \/ a[1] = b[1] /\ a[2] < b[2]
                            \/ a[1] = b[1] /\ a[2] = b[2] /\ a[3] < b[3]
                            \/ a[1] = b[1] /\ a[2] = b[2] /\ a[3] = b[3] /\ a[4] < b[4]
  <1>1. Before(a, b) <=> \E i \in 1 .. 4 : a[i] < b[i] /\ \A j \in 1 .. i - 1 : a[j] = b[j]
    BY DEF Before
  <1>2. \A i \in 1 .. 4 : i = 1 \/ i = 2 \/ i = 3 \/ i = 4
    OBVIOUS
  <1>3. /\ 1 .. 1 - 1 = {} /\ 1 .. 2 - 1 = {1} /\ 1 .. 3 - 1 = {1, 2} /\ 1 .. 4 - 1 = {1, 2, 3}
    OBVIOUS
  <1> QED BY <1>1, <1>2, <1>3

\* Of finitely or infinitely many keys with a bound from below, one has none before it.
LEMMA FirstExists ==
    ASSUME NEW S, S # {}, NEW key \in [S -> [1 .. 4 -> Int]], NEW b \in Int,
           \A x \in S : \A i \in 1 .. 4 : b <= key[x][i]
    PROVE  \E x \in S : \A y \in S : ~Before(key[y], key[x])
  <1> DEFINE Least(T, i) == {x \in T : \A y \in T : key[x][i] <= key[y][i]}
             A == Least(S, 1)
             B == Least(A, 2)
             C == Least(B, 3)
             D == Least(C, 4)
  <1>1. \A i \in 1 .. 4 : \A T \in SUBSET S : T # {} => Least(T, i) # {}
    <2> SUFFICES ASSUME NEW i \in 1 .. 4, NEW T \in SUBSET S, T # {}
                 PROVE  Least(T, i) # {}
      OBVIOUS
    <2> DEFINE f == [x \in T |-> key[x][i]]
    <2>1. f \in [T -> Int] /\ \A x \in T : b <= f[x]
      OBVIOUS
    <2> HIDE DEF f
    <2>2. \E x \in T : \A y \in T : f[x] <= f[y]
      BY <2>1, LeastValue
    <2> QED BY <2>2 DEF f
  <1>2. D # {}
    <2>1. A \in SUBSET S /\ B \in SUBSET S /\ C \in SUBSET S
      OBVIOUS
    <2>2. 1 \in 1 .. 4 /\ 2 \in 1 .. 4 /\ 3 \in 1 .. 4 /\ 4 \in 1 .. 4 /\ S \in SUBSET S
      OBVIOUS
    <2> HIDE DEF Least
    <2>3. A # {}
      BY <1>1, <2>2
    <2> HIDE DEF A
    <2>4. B # {}
      BY <1>1, <2>1, <2>2, <2>3
    <2> HIDE DEF B
    <2>5. C # {}
      BY <1>1, <2>1, <2>2, <2>4
    <2> HIDE DEF C
    <2> QED BY <1>1, <2>1, <2>2, <2>5
  <1>3. PICK x : x \in D
    BY <1>2
  <1>4. ASSUME NEW y \in S
        PROVE  ~Before(key[y], key[x])
    <2>1. x \in S /\ key[x] \in [1 .. 4 -> Int] /\ key[y] \in [1 .. 4 -> Int]
      BY <1>3
    <2>2. key[x][1] <= key[y][1]
      BY <1>3
    <2>3. key[y][1] = key[x][1] => y \in A
      BY <1>3
    <2>4. y \in A => key[x][2] <= key[y][2]
      BY <1>3
    <2>5. y \in A /\ key[y][2] = key[x][2] => y \in B
      BY <1>3
    <2>6. y \in B => key[x][3] <= key[y][3]
      BY <1>3
    <2>7. y \in B /\ key[y][3] = key[x][3] => y \in C
      BY <1>3
    <2>8. y \in C => key[x][4] <= key[y][4]
      BY <1>3
    <2> HIDE DEF A, B, C, D
    <2>9. \A i \in 1 .. 4 : key[x][i] \in Int /\ key[y][i] \in Int
      BY <2>1
    <2> QED BY <2>1, <2>2, <2>3, <2>4, <2>5, <2>6, <2>7, <2>8, <2>9, BeforeIs
  <1> QED BY <1>3, <1>4

\* The key of what is offered is made of numbers with a bound from below.
LEMMA KeyIsNumbers ==
    ASSUME NEW q \in PlanRequest, NEW c, Offered(c, q), NEW mode
    PROVE  /\ RankKey(c, mode) \in [1 .. 4 -> Int]
           /\ \A i \in 1 .. 4 : -q.resources.vram <= RankKey(c, mode)[i]
           /\ mode = "fastest" =>
                RankKey(c, mode) = <<Sortable(c.time), Sortable(c.cost), c.workers, 0>>
           /\ mode \notin {"fastest", "reliable"} =>
                 RankKey(c, mode) = <<Sortable(c.cost), Sortable(c.time), c.workers, 0>>
  <1>1. q.resources.vram \in Nat
    BY RequestHas DEF Resources
  <1>2. c.workers \in Nat /\ c.headroom \in Int /\ c.headroom <= q.resources.vram
    BY DEF Offered
  <1>3. Sortable(c.time) \in Nat /\ Sortable(c.cost) \in Nat
    BY DEF Offered, AsGood, NoMore, Sortable, INFINITY
  <1>4. CASE mode = "fastest"
    <2>1. RankKey(c, mode) = <<Sortable(c.time), Sortable(c.cost), c.workers, 0>>
      BY <1>4 DEF RankKey
    <2> QED BY <1>1, <1>2, <1>3, <1>4, <2>1
  <1>5. CASE mode = "reliable"
    <2>1. RankKey(c, mode) = <<c.workers, IF Offloaded(c.family) THEN 1 ELSE 0,
                               IF c.quantized THEN 1 ELSE 0, -c.headroom>>
      BY <1>5 DEF RankKey
    <2> QED BY <1>1, <1>2, <1>5, <2>1
  <1>6. CASE mode \notin {"fastest", "reliable"}
    <2>1. RankKey(c, mode) = <<Sortable(c.cost), Sortable(c.time), c.workers, 0>>
      BY <1>6 DEF RankKey
    <2> QED BY <1>1, <1>2, <1>3, <1>6, <2>1
  <1> QED BY <1>4, <1>5, <1>6

\* A request for which something is feasible gets a plan.
LEMMA BestExists ==
    ASSUME NEW q \in PlanRequest, Feasible(q) # {}
    PROVE  Best(q) # {}
  <1> DEFINE S == Feasible(q)
             key == [c \in S |-> RankKey(c, q.mode)]
             b == -q.resources.vram
  <1>1. \A c \in S : /\ RankKey(c, q.mode) \in [1 .. 4 -> Int]
                     /\ \A i \in 1 .. 4 : b <= RankKey(c, q.mode)[i]
    <2> SUFFICES ASSUME NEW c \in S
                 PROVE  /\ RankKey(c, q.mode) \in [1 .. 4 -> Int]
                        /\ \A i \in 1 .. 4 : b <= RankKey(c, q.mode)[i]
      OBVIOUS
    <2>1. Offered(c, q)
      BY EasesItself, FeasibleIsEased
    <2> QED BY <2>1, KeyIsNumbers
  <1>2. b \in Int
    BY RequestHas DEF Resources
  <1>3. key \in [S -> [1 .. 4 -> Int]] /\ \A c \in S : \A i \in 1 .. 4 : b <= key[c][i]
    BY <1>1
  <1>4. PICK c \in S : \A d \in S : ~Before(key[d], key[c])
    <2> HIDE DEF S, key, b
    <2>1. S # {}
      BY DEF S
    <2> QED BY <1>2, <1>3, <2>1, FirstExists
  <1>5. \A d \in S : key[d] = RankKey(d, q.mode)
    OBVIOUS
  <1> HIDE DEF key
  <1> QED BY <1>4, <1>5 DEF Best

\* What is as good as c ranks no later than it.
LEMMA AsGoodRanksFirst ==
    ASSUME NEW p \in PlanRequest, NEW q \in PlanRequest, NEW c, Offered(c, q), NEW d, Offered(d, p),
           NEW e, Offered(e, p), AsGood(e, c), NEW mode, mode # "reliable",
           Before(RankKey(c, mode), RankKey(d, mode))
    PROVE  Before(RankKey(e, mode), RankKey(d, mode))
  <1>1. /\ RankKey(c, mode) \in [1 .. 4 -> Int] /\ RankKey(d, mode) \in [1 .. 4 -> Int]
        /\ RankKey(e, mode) \in [1 .. 4 -> Int]
    BY KeyIsNumbers
  <1>2. /\ Sortable(e.time) <= Sortable(c.time) /\ Sortable(e.cost) <= Sortable(c.cost)
        /\ e.workers = c.workers
    BY KnownIsNumber DEF AsGood, NoMore, Sortable, INFINITY
  <1>3. /\ RankKey(e, mode)[1] <= RankKey(c, mode)[1] /\ RankKey(e, mode)[2] <= RankKey(c, mode)[2]
        /\ RankKey(e, mode)[3] = RankKey(c, mode)[3] /\ RankKey(e, mode)[4] = RankKey(c, mode)[4]
    <2>1. CASE mode = "fastest"
      <3>1. /\ RankKey(e, mode) = <<Sortable(e.time), Sortable(e.cost), e.workers, 0>>
            /\ RankKey(c, mode) = <<Sortable(c.time), Sortable(c.cost), c.workers, 0>>
        BY <2>1, KeyIsNumbers
      <3> QED BY <1>2, <3>1
    <2>2. CASE mode # "fastest"
      <3>1. /\ RankKey(e, mode) = <<Sortable(e.cost), Sortable(e.time), e.workers, 0>>
            /\ RankKey(c, mode) = <<Sortable(c.cost), Sortable(c.time), c.workers, 0>>
        BY <2>2, KeyIsNumbers
      <3> QED BY <1>2, <3>1
    <2> QED BY <2>1, <2>2
  <1> DEFINE a == RankKey(c, mode)
             b == RankKey(d, mode)
             g == RankKey(e, mode)
  <1> HIDE DEF a, b, g
  <1>4. /\ a \in [1 .. 4 -> Int] /\ b \in [1 .. 4 -> Int] /\ g \in [1 .. 4 -> Int]
        /\ g[1] <= a[1] /\ g[2] <= a[2] /\ g[3] = a[3] /\ g[4] = a[4] /\ Before(a, b)
    BY <1>1, <1>3 DEF a, b, g
  <1>5. Before(g, b)
    <2>1. \A i \in 1 .. 4 : a[i] \in Int /\ b[i] \in Int /\ g[i] \in Int
      BY <1>4
    <2> QED BY <1>4, <2>1, BeforeIs
  <1> QED BY <1>5 DEF b, g

\* Every relaxation of a request eases it.
LEMMA RelaxedEases ==
    ASSUME NEW q \in PlanRequest, NEW p \in Relaxed(q)
    PROVE  Eases(p, q)
  <1>1. /\ q.resources \in Resources /\ q.resources.vram \in Nat /\ q.resources.ram \in Nat
        /\ q.resources.vram <= 2 * q.resources.vram /\ q.resources.ram <= 2 * q.resources.ram
    BY RequestHas DEF Resources
  <1>2. \A kind, W : q \in RequestOf(kind, W) => p \in RequestOf(kind, W) /\ Eases(q, q)
    <2> SUFFICES ASSUME NEW kind, NEW W, q \in RequestOf(kind, W)
                 PROVE  p \in RequestOf(kind, W)
      BY EasesItself
    <2>1. /\ [q.resources EXCEPT !.vram = 2 * q.resources.vram] \in Resources
          /\ [q.resources EXCEPT !.ram = 2 * q.resources.ram] \in Resources
      BY <1>1 DEF Resources
    <2> DEFINE more == [q.resources EXCEPT !.vram = 2 * q.resources.vram]
               wide == [q.resources EXCEPT !.ram = 2 * q.resources.ram]
    <2>2. /\ [q EXCEPT !.resources.vram = 2 * q.resources.vram] = [q EXCEPT !.resources = more]
          /\ [q EXCEPT !.resources.ram = 2 * q.resources.ram] = [q EXCEPT !.resources = wide]
      BY DEF RequestOf
    <2> HIDE DEF more, wide
    <2>3. more \in Resources /\ wide \in Resources
      BY <2>1 DEF more, wide
    <2>4. p \in {[q EXCEPT !.deadline = NoLimit], [q EXCEPT !.budget = NoLimit],
                [q EXCEPT !.allow_quantization = TRUE], [q EXCEPT !.allow_cpu_offload = TRUE],
                [q EXCEPT !.resources = more], [q EXCEPT !.resources = wide]}
      BY <2>2 DEF Relaxed
    <2>5. /\ [q EXCEPT !.deadline = NoLimit] \in RequestOf(kind, W)
          /\ [q EXCEPT !.budget = NoLimit] \in RequestOf(kind, W)
      BY DEF RequestOf
    <2>6. /\ [q EXCEPT !.allow_quantization = TRUE] \in RequestOf(kind, W)
          /\ [q EXCEPT !.allow_cpu_offload = TRUE] \in RequestOf(kind, W)
      BY DEF RequestOf
    <2>7. /\ [q EXCEPT !.resources = more] \in RequestOf(kind, W)
          /\ [q EXCEPT !.resources = wide] \in RequestOf(kind, W)
      BY <2>3 DEF RequestOf
    <2> QED BY <2>4, <2>5, <2>6, <2>7, Zenon
  <1>3. p \in PlanRequest
    BY <1>2 DEF PlanRequest
  <1>4. /\ p.kind = q.kind /\ p.workload = q.workload /\ p.mode = q.mode
        /\ p.deadline \in {q.deadline, NoLimit} /\ p.budget \in {q.budget, NoLimit}
        /\ q.allow_quantization => p.allow_quantization
        /\ q.allow_cpu_offload => p.allow_cpu_offload
        /\ \/ p.resources = q.resources
           \/ p.resources = [q.resources EXCEPT !.vram = 2 * q.resources.vram]
           \/ p.resources = [q.resources EXCEPT !.ram = 2 * q.resources.ram]
    BY DEF Relaxed, PlanRequest, RequestOf
  <1>5. LET r == p.resources
            s == q.resources
        IN  /\ r.gpus = s.gpus /\ r.tflops = s.tflops /\ r.hosts = s.hosts /\ r.link = s.link
            /\ r.rate = s.rate /\ r.cores = s.cores /\ s.vram <= r.vram /\ s.ram <= r.ram
    BY <1>1, <1>4 DEF Resources
  <1> QED BY <1>3, <1>4, <1>5 DEF Eases

\* An eased request keeps its plan, or gets one that is no worse, whatever was eased.
LEMMA EasedKeepsPlan ==
    ASSUME NEW p, NEW q, Eases(p, q), Best(q) # {}
    PROVE  /\ Best(p) # {}
           /\ q.mode # "reliable" =>
                 \A c \in Best(q), d \in Best(p) :
                    ~Before(RankKey(c, q.mode), RankKey(d, q.mode))
  <1>1. p \in PlanRequest /\ q \in PlanRequest /\ p.mode = q.mode
    BY DEF Eases
  <1>2. Best(p) # {}
    <2>1. PICK c : c \in Feasible(q)
      BY DEF Best
    <2>2. Feasible(p) # {}
      BY <2>1, FeasibleIsEased
    <2> QED BY <1>1, <2>2, BestExists
  <1>3. ASSUME q.mode # "reliable", NEW c \in Best(q), NEW d \in Best(p),
               Before(RankKey(c, q.mode), RankKey(d, q.mode))
        PROVE  FALSE
    <2>1. c \in Feasible(q) /\ d \in Feasible(p) /\ Eases(p, p)
      BY <1>1, EasesItself DEF Best
    <2>2. PICK e \in Feasible(p) : AsGood(e, c)
      BY <2>1, FeasibleIsEased
    <2>3. Offered(c, q) /\ Offered(d, p) /\ Offered(e, p)
      BY <2>1, <2>2, FeasibleIsEased
    <2>4. Before(RankKey(e, q.mode), RankKey(d, q.mode))
      BY <1>1, <1>3, <2>2, <2>3, AsGoodRanksFirst
    <2> QED BY <1>1, <2>2, <2>4 DEF Best
  <1> QED BY <1>2, <1>3

\* Asking for less, or offering more, never takes a plan away nor makes the fastest or the
\* cheapest one worse, for every request: every candidate that was feasible has one among
\* the new ones that is feasible and as good.  It need not be the same: with more memory a
\* group no longer recomputes its activations (candidates.py:213-223).
THEOREM RelaxingKeepsEveryPlan == DecisionSpec => []RelaxingKeepsPlan
  <1>1. Answered => RelaxingKeepsPlan
    <2> SUFFICES ASSUME Answered, asked.kind = "plan", answer.best # {}
                 PROVE  RelaxingKeepsPlan
      BY DEF RelaxingKeepsPlan
    <2>1. PICK q \in Requests : /\ asked = [kind |-> "plan", request |-> q]
                               /\ answer = [best |-> Best(q), hints |-> Hints(q)]
      BY DEF Answered, Nothing
    <2>2. q \in PlanRequest /\ asked.request = q /\ answer.best = Best(q) /\ Best(q) # {}
      BY <2>1, PlanAssumption
    <2>3. ASSUME NEW p \in Relaxed(q)
          PROVE  /\ Best(p) # {}
                 /\ p.mode # "reliable" =>
                       \A c \in Best(q), d \in Best(p) :
                          ~Before(RankKey(c, p.mode), RankKey(d, p.mode))
      <3>1. Eases(p, q) /\ p.mode = q.mode
        BY <2>2, RelaxedEases DEF Eases
      <3> QED BY <2>2, <3>1, EasedKeepsPlan
    <2>4. \A p \in Relaxed(asked.request) :
             /\ Best(p) # {}
             /\ p.mode # "reliable" =>
                   \A c \in answer.best, d \in Best(p) :
                      ~Before(RankKey(c, p.mode), RankKey(d, p.mode))
      BY <2>2, <2>3, Zenon
    <2> QED BY <2>4, Zenon DEF RelaxingKeepsPlan
  <1> QED BY <1>1, AnswersAreKept, PTL

=============================================================================
