------------------------------ MODULE JobsProofs ------------------------------
(***************************************************************************)
(* Proofs about the jobs of the service: on the lease path, and after it   *)
(* on the Kubernetes path.                                                 *)
(*                                                                         *)
(* LeaseJobs, for any jobs, tasks and cuts.  A handler may be cut short    *)
(* after any of its durable steps, so that the invariant is shown of every *)
(* state it passes through (Good), by induction on its steps, which is an  *)
(* argument by least counterexample.                                       *)
(*                                                                         *)
(* RayJobs, for any number of worker pods, replicas, cancellations, failed *)
(* calls and restarts.  The invariant ties the watcher's locals to the Ray *)
(* job: a status that was fetched is the end the Ray job came to, an end   *)
(* of last_state was reported before, and a RayJob that is gone under the  *)
(* watcher was deleted by a request.  What the workers' events make of the *)
(* job's state is a recursive function, and its values are bounded by      *)
(* induction.                                                              *)
(***************************************************************************)
EXTENDS LeaseJobs, RayJobs, FiniteSetTheorems, SequenceTheorems, WellFoundedInduction, TLAPS

(***************************************************************************)
(* Induction on numbers, and the recursive definitions                     *)
(***************************************************************************)

\* A set that has 0, and k when it has k - 1, has every number up to n: a
\* least number that it misses has nothing to be missed for.
LEMMA UpTo ==
    ASSUME NEW n \in Nat, NEW T, 0 \in T, \A k \in 1 .. n : k - 1 \in T => k \in T
    PROVE  0 .. n \subseteq T
  <1> DEFINE R == OpToRel(<, Nat)
             Missed == {k \in 0 .. n : k \notin T}
  <1>1. \A k, m \in Nat : k < m => <<k, m>> \in R
    BY DEF OpToRel
  <1>2. SUFFICES ASSUME Missed # {}
                 PROVE  FALSE
    OBVIOUS
  <1>3. PICK m \in Missed : \A k \in Missed : ~(<<k, m>> \in R)
    <2>1. Missed \subseteq Nat
      OBVIOUS
    <2> HIDE DEF Missed
    <2> QED
      BY <1>2, <2>1, NatLessThanWellFounded, WFMin
  <1> HIDE DEF R
  <1>4. m \in 1 .. n /\ m - 1 \in 0 .. n /\ m - 1 < m
    BY <1>3
  <1>5. m - 1 \notin Missed
    <2>1. <<m - 1, m>> \in R
      BY <1>1, <1>4
    <2> HIDE DEF Missed
    <2> QED
      BY <1>3, <2>1
  <1> QED
    BY <1>3, <1>4, <1>5

\* The recursion that defines States has a solution, and States is one.
LEMMA StatesRule ==
    ASSUME NEW steps, Len(steps) \in Nat
    PROVE  /\ States(steps)[0] = Stored
           /\ \A k \in 1 .. Len(steps) : States(steps)[k] = Step(States(steps)[k - 1], steps[k])
  <1> DEFINE Solves(n, f) ==
                 f = [k \in 0 .. n |-> IF k = 0 THEN Stored ELSE Step(f[k - 1], steps[k])]
             T == {n \in Nat : \E f : Solves(n, f)}
  <1>1. 0 \in T
    <2>1. Solves(0, [k \in 0 .. 0 |-> Stored])
      OBVIOUS
    <2> QED
      BY <2>1
  <1>2. ASSUME NEW n \in 1 .. Len(steps), n - 1 \in T
        PROVE  n \in T
    <2>1. PICK g : Solves(n - 1, g)
      BY <1>2
    <2> DEFINE h == [k \in 0 .. n |-> IF k = n THEN Step(g[n - 1], steps[n]) ELSE g[k]]
    <2>2. Solves(n, h)
      BY <2>1
    <2>3. \E f : Solves(n, f)
      <3> HIDE DEF Solves, h
      <3> QED
        BY <2>2
    <2> QED
      BY <2>3
  <1>3. Len(steps) \in T
    <2> HIDE DEF T
    <2>1. 0 .. Len(steps) \subseteq T
      BY <1>1, <1>2, UpTo
    <2> QED
      BY <2>1
  <1>4. States(steps) = CHOOSE f : Solves(Len(steps), f)
    BY DEF States
  <1>5. Solves(Len(steps), States(steps))
    <2> HIDE DEF Solves
    <2> QED
      BY <1>3, <1>4
  <1> QED
    BY <1>5

\* A set of sequences of steps that is closed under concatenation and has the
\* refreshes of the jobs listed has what the sweeper does.
LEMMA RefreshAllRule ==
    ASSUME NEW order, Len(order) \in Nat, NEW C, <<>> \in C,
           \A a, b \in C : a \o b \in C,
           \A i \in 1 .. Len(order) : RefreshSteps(order[i]) \in C
    PROVE  RefreshAllSteps(order) \in C
  <1> DEFINE Longer(steps, i) == steps \o RefreshSteps(order[i])
             Solves(n, f) ==
                 f = [i \in 0 .. n |-> IF i = 0 THEN <<>> ELSE Longer(f[i - 1], i)]
             T == {n \in Nat : \E f : Solves(n, f)}
             f0 == CHOOSE f : Solves(Len(order), f)
             U == {i \in 0 .. Len(order) : f0[i] \in C}
  <1>1. RefreshAllSteps(order) = f0[Len(order)]
    BY DEF RefreshAllSteps
  <1>2. \A steps \in C, i \in 1 .. Len(order) : Longer(steps, i) \in C
    OBVIOUS
  <1> HIDE DEF Longer
  <1>3. 0 \in T
    <2>1. Solves(0, [i \in 0 .. 0 |-> <<>>])
      OBVIOUS
    <2> QED
      BY <2>1
  <1>4. ASSUME NEW n \in 1 .. Len(order), n - 1 \in T
        PROVE  n \in T
    <2>1. PICK g : Solves(n - 1, g)
      BY <1>4
    <2> DEFINE h == [i \in 0 .. n |-> IF i = n THEN Longer(g[n - 1], n) ELSE g[i]]
    <2>2. Solves(n, h)
      BY <2>1
    <2>3. \E f : Solves(n, f)
      <3> HIDE DEF Solves, h
      <3> QED
        BY <2>2
    <2> QED
      BY <2>3
  <1>5. Len(order) \in T
    <2> HIDE DEF T
    <2>1. 0 .. Len(order) \subseteq T
      BY <1>3, <1>4, UpTo
    <2> QED
      BY <2>1
  <1>6. Solves(Len(order), f0)
    <2> HIDE DEF Solves
    <2> QED
      BY <1>5
  <1> HIDE DEF f0
  <1>7. 0 \in U
    BY <1>6
  <1>8. ASSUME NEW i \in 1 .. Len(order), i - 1 \in U
        PROVE  i \in U
    <2>1. f0[i] = Longer(f0[i - 1], i) /\ f0[i - 1] \in C
      BY <1>6, <1>8
    <2>2. f0[i] \in C
      BY <1>2, <2>1
    <2> QED
      BY <2>2
  <1>9. Len(order) \in U
    <2> HIDE DEF U
    <2>1. 0 .. Len(order) \subseteq U
      BY <1>7, <1>8, UpTo
    <2> QED
      BY <2>1
  <1> QED
    BY <1>1, <1>9

-----------------------------------------------------------------------------
(***************************************************************************)
(* Jobs, tasks and durable steps                                           *)
(***************************************************************************)

\* The tables that the steps apply to.
EndEvents == {"JOB_SUCCEEDED", "JOB_FAILED"}
Tables ==
    [phase : [Tasks -> Phase],
     row   : [Jobs -> JobState \cup {"NONE"}],
     ended : [Jobs -> Seq(EndEvents)]]

\* What a task step does to the tables.
LEMMA TaskStepEffect ==
    ASSUME NEW s \in Tables, NEW t \in Tasks, NEW p \in Phase, NEW q, q = Step(s, TaskStep(t, p))
    PROVE  /\ q \in Tables /\ q.row = s.row /\ q.ended = s.ended
           /\ q.phase = [s.phase EXCEPT ![t] = p]
  <1>1. TaskStep(t, p).kind = "task" /\ TaskStep(t, p).task = t /\ TaskStep(t, p).to = p
    BY DEF TaskStep
  <1>2. q = [s EXCEPT !.phase[t] = p]
    BY <1>1 DEF Step
  <1>3. q = [phase |-> [s.phase EXCEPT ![t] = p], row |-> s.row, ended |-> s.ended]
    BY <1>2 DEF Tables
  <1> QED
    BY <1>3 DEF Tables

\* What a row step does.
LEMMA RowStepEffect ==
    ASSUME NEW s \in Tables, NEW j \in Jobs, NEW x \in JobState, NEW q, q = Step(s, RowStep(j, x))
    PROVE  /\ q \in Tables /\ q.phase = s.phase /\ q.ended = s.ended
           /\ q.row = [s.row EXCEPT ![j] = x]
  <1>1. RowStep(j, x).kind = "row" /\ RowStep(j, x).job = j /\ RowStep(j, x).to = x
    BY DEF RowStep
  <1>2. q = [s EXCEPT !.row[j] = x]
    BY <1>1 DEF Step
  <1>3. q = [phase |-> s.phase, row |-> [s.row EXCEPT ![j] = x], ended |-> s.ended]
    BY <1>2 DEF Tables
  <1> QED
    BY <1>3 DEF Tables

\* What the append of an event does.
LEMMA EventStepEffect ==
    ASSUME NEW s \in Tables, NEW j \in Jobs, NEW e \in EndEvents,
           NEW q, q = Step(s, EventStep(j, e))
    PROVE  /\ q \in Tables /\ q.phase = s.phase /\ q.row = s.row
           /\ q.ended = [s.ended EXCEPT ![j] = Append(@, e)]
  <1>1. EventStep(j, e).kind = "event" /\ EventStep(j, e).job = j /\ EventStep(j, e).event = e
    BY DEF EventStep
  <1>2. q = [s EXCEPT !.ended[j] = Append(@, e)]
    BY <1>1 DEF Step
  <1>3. q = [phase |-> s.phase, row |-> s.row,
             ended |-> [s.ended EXCEPT ![j] = Append(@, e)]]
    BY <1>2 DEF Tables
  <1> QED
    BY <1>3 DEF Tables

\* The tasks of a job are numbered, and it has one.
LEMMA TasksOfJob ==
    ASSUME NEW j \in Jobs
    PROVE  /\ Len(TasksOf[j]) \in Nat \ {0}
           /\ DOMAIN TasksOf[j] = 1 .. Len(TasksOf[j])
           /\ TasksIn(j) # {} /\ TasksIn(j) \subseteq Tasks
           /\ \A i \in 1 .. Len(TasksOf[j]) : TasksOf[j][i] \in TasksIn(j)
           /\ \A t \in TasksIn(j) : \E i \in 1 .. Len(TasksOf[j]) : TasksOf[j][i] = t
  <1>1. TasksOf[j] \in Seq(TasksIn(j)) /\ TasksOf[j] # <<>>
    BY TasksOfAssumption
  <1>2. Len(TasksOf[j]) \in Nat \ {0} /\ DOMAIN TasksOf[j] = 1 .. Len(TasksOf[j])
    BY <1>1
  <1>3. TasksIn(j) \subseteq Tasks
    BY DEF Tasks
  <1>4. /\ \A i \in 1 .. Len(TasksOf[j]) : TasksOf[j][i] \in TasksIn(j)
        /\ \A t \in TasksIn(j) : \E i \in 1 .. Len(TasksOf[j]) : TasksOf[j][i] = t
    BY <1>2 DEF TasksIn
  <1>5. TasksIn(j) # {}
    BY <1>2, <1>4
  <1> QED
    BY <1>2, <1>3, <1>4, <1>5

\* What the state derived from the tasks says of them.
LEMMA DerivedSays ==
    ASSUME NEW p \in [Tasks -> Phase], NEW j \in Jobs, \A t \in TasksIn(j) : p[t] # "new"
    PROVE  /\ Derived(p, j) \in {"RUNNING"} \cup TerminalJob
           /\ Derived(p, j) \in TerminalJob <=> \A t \in TasksIn(j) : p[t] \in Settled
           /\ Derived(p, j) = "SUCCEEDED" => \A t \in TasksIn(j) : p[t] = "won"
           /\ Derived(p, j) = "FAILED" => \E t \in TasksIn(j) : p[t] = "spent"
  <1> DEFINE known == {p[t] : t \in Known(p, j)}
  <1>1. Known(p, j) = TasksIn(j)
    BY DEF Known
  <1>2. known # {} /\ known \subseteq Phase \ {"new"}
    BY <1>1, TasksOfJob
  <1>3. /\ known \cap {"open", "held"} = {} <=> \A t \in TasksIn(j) : p[t] \in Settled
        /\ known = {"won"} => \A t \in TasksIn(j) : p[t] = "won"
        /\ "spent" \in known => \E t \in TasksIn(j) : p[t] = "spent"
    BY <1>1, <1>2 DEF Phase, Settled
  <1>4. Derived(p, j) = IF known = {} THEN "PENDING"
                        ELSE IF known \cap {"open", "held"} # {} THEN "RUNNING"
                        ELSE IF "spent" \in known THEN "FAILED"
                        ELSE IF known = {"won"} THEN "SUCCEEDED"
                        ELSE "CANCELLED"
    BY DEF Derived
  <1> HIDE DEF known
  <1> QED
    BY <1>2, <1>3, <1>4 DEF TerminalJob

\* It depends on nothing else.
LEMMA DerivedDepends ==
    ASSUME NEW p, NEW q, NEW j, \A t \in TasksIn(j) : p[t] = q[t]
    PROVE  Derived(p, j) = Derived(q, j)
  <1>1. Known(p, j) = Known(q, j)
    BY DEF Known
  <1>2. {p[t] : t \in Known(p, j)} = {q[t] : t \in Known(q, j)}
    BY <1>1 DEF Known
  <1> QED
    BY <1>2 DEF Derived

-----------------------------------------------------------------------------
(***************************************************************************)
(* The inductive invariant                                                 *)
(***************************************************************************)

\* What holds of a job when those in `a` were submitted: it is stored after
\* its tasks, and its end, whether stored or only recorded so far, is the one
\* its tasks came to.
JobIsSound(s, a, j) ==
    /\ j \notin a => s.row[j] = "NONE" /\ \A t \in TasksIn(j) : s.phase[t] = "new"
    /\ s.row[j] # "PENDING"
    /\ s.row[j] # "NONE" => \A t \in TasksIn(j) : s.phase[t] # "new"
    /\ s.row[j] \in TerminalJob => \A t \in TasksIn(j) : s.phase[t] \in Settled
    /\ s.ended[j] # <<>> => s.row[j] # "NONE" /\ \A t \in TasksIn(j) : s.phase[t] \in Settled
    /\ s.row[j] \in {"SUCCEEDED", "FAILED"} =>
          s.row[j] = Derived(s.phase, j) /\ s.ended[j] # <<>>
    /\ \A i \in DOMAIN s.ended[j] : s.ended[j][i] = EndEvent(Derived(s.phase, j))

\* Tables in which every job is sound and those that ended before still are
\* as they were.
Good(a) ==
    {s \in Tables : \A j \in Jobs :
        JobIsSound(s, a, j) /\ (row[j] \in TerminalJob => s.row[j] = row[j])}

JobsInv ==
    /\ phase \in [Tasks -> Phase]
    /\ row \in [Jobs -> JobState \cup {"NONE"}]
    /\ ended \in [Jobs -> Seq(EndEvents)]
    /\ asked \subseteq Jobs
    /\ cuts \in 0 .. MaxCuts
    /\ \A j \in Jobs : JobIsSound(Stored, asked, j)

\* What is stored now is good.
LEMMA StoredIsGood ==
    ASSUME JobsInv
    PROVE  Stored \in Good(asked)
  BY DEF JobsInv, Stored, Tables, Good

\* The invariant is what the row of an ended job promises, and more.
LEMMA SoundIsTrue == JobsInv => ShownEndIsTrue
  <1> SUFFICES ASSUME JobsInv
               PROVE  ShownEndIsTrue
    OBVIOUS
  <1>1. TypeOK
    BY DEF JobsInv, TypeOK, EndEvents
  <1>2. ASSUME NEW j \in Jobs
        PROVE  /\ row[j] \in TerminalJob => \A t \in TasksIn(j) : phase[t] \in Settled
               /\ row[j] = "SUCCEEDED" => \A t \in TasksIn(j) : phase[t] = "won"
               /\ row[j] = "FAILED" => \E t \in TasksIn(j) : phase[t] = "spent"
               /\ row[j] \in {"SUCCEEDED", "FAILED"} =>
                     \E k \in DOMAIN ended[j] : ended[j][k] = EndEvent(row[j])
               /\ \A i, k \in DOMAIN ended[j] : ended[j][i] = ended[j][k]
    <2>1. /\ row[j] # "NONE" => \A t \in TasksIn(j) : phase[t] # "new"
          /\ row[j] \in TerminalJob => \A t \in TasksIn(j) : phase[t] \in Settled
          /\ row[j] \in {"SUCCEEDED", "FAILED"} => row[j] = Derived(phase, j) /\ ended[j] # <<>>
          /\ \A i \in DOMAIN ended[j] : ended[j][i] = EndEvent(Derived(phase, j))
      BY <1>2 DEF JobsInv, JobIsSound, Stored
    <2>2. row[j] \in {"SUCCEEDED", "FAILED"} =>
              /\ Derived(phase, j) = "SUCCEEDED" => \A t \in TasksIn(j) : phase[t] = "won"
              /\ Derived(phase, j) = "FAILED" => \E t \in TasksIn(j) : phase[t] = "spent"
      BY <2>1, DerivedSays DEF JobsInv
    <2>3. ended[j] # <<>> => \E k \in DOMAIN ended[j] : TRUE
      <3>1. ended[j] \in Seq(EndEvents)
        BY DEF JobsInv
      <3>2. ended[j] # <<>> => Len(ended[j]) \in Nat \ {0} /\ DOMAIN ended[j] = 1 .. Len(ended[j])
        BY <3>1
      <3>3. ended[j] # <<>> => 1 \in DOMAIN ended[j]
        BY <3>2
      <3> QED
        BY <3>3
    <2> QED
      BY <2>1, <2>2, <2>3
  <1> QED
    BY <1>1, <1>2 DEF ShownEndIsTrue, ShownEndIsReal, EndedJobIsIdle, EndIsRecorded

\* A handler that passes through good tables only leaves good tables, whether
\* it is cut short or not.
LEMMA RunsKeep ==
    ASSUME JobsInv, NEW steps, Len(steps) \in Nat, Runs(steps),
           asked' \subseteq Jobs, \A k \in 0 .. Len(steps) : States(steps)[k] \in Good(asked')
    PROVE  Stored' \in Good(asked') /\ JobsInv'
  <1>1. PICK k \in 0 .. Len(steps) : Leaves(steps, k)
    BY DEF Runs
  <1>2. cuts' \in 0 .. MaxCuts
    BY MaxCutsAssumption DEF Runs, JobsInv
  <1>3. States(steps)[k] \in Tables
    BY DEF Good
  <1>4. Stored' = States(steps)[k]
    BY <1>1, <1>3 DEF Leaves, Stored, Tables
  <1>5. Stored' \in Good(asked')
    BY <1>4
  <1>6. /\ phase' \in [Tasks -> Phase]
        /\ row' \in [Jobs -> JobState \cup {"NONE"}]
        /\ ended' \in [Jobs -> Seq(EndEvents)]
    BY <1>5 DEF Good, Tables, Stored
  <1>7. \A j \in Jobs : JobIsSound(Stored', asked', j)
    BY <1>5 DEF Good
  <1> QED
    BY <1>2, <1>5, <1>6, <1>7 DEF JobsInv

-----------------------------------------------------------------------------
(***************************************************************************)
(* Refreshes                                                               *)
(***************************************************************************)

\* The durable steps.
AnyStep ==
    [kind : {"task"}, task : Tasks, to : Phase]
        \cup [kind : {"row"}, job : Jobs, to : JobState]
        \cup [kind : {"event"}, job : Jobs, event : EndEvents]

\* Sequences of steps that only refresh jobs that may still end, and record
\* an end before they store it.
Due(j) == row[j] \notin TerminalJob \cup {"NONE"}
EndStep(j) == EventStep(j, EndEvent(Derived(phase, j)))
IsRefresh(steps, k, j) ==
    /\ Due(j)
    /\ \/ Derived(phase, j) \in TerminalJob /\ steps[k] = EndStep(j)
       \/ /\ steps[k] = RowStep(j, Derived(phase, j))
          /\ Derived(phase, j) \in TerminalJob => k > 1 /\ steps[k - 1] = EndStep(j)
Refreshing ==
    {steps \in Seq(AnyStep) : \A k \in 1 .. Len(steps) : \E j \in Jobs : IsRefresh(steps, k, j)}

\* A refresh of one job is such a sequence.
LEMMA OneRefresh ==
    ASSUME JobsInv, NEW j \in Jobs, row[j] # "NONE"
    PROVE  RefreshSteps(j) \in Refreshing
  <1> DEFINE d == Derived(phase, j)
  <1>1. d \in JobState /\ EndStep(j) \in AnyStep /\ RowStep(j, d) \in AnyStep
    <2>1. d \in {"RUNNING"} \cup TerminalJob
      <3>1. \A t \in TasksIn(j) : phase[t] # "new"
        BY DEF JobsInv, JobIsSound, Stored
      <3> QED
        BY <3>1, DerivedSays DEF JobsInv
    <2>2. d \in JobState
      BY <2>1 DEF JobState, TerminalJob
    <2>3. EndEvent(d) \in EndEvents
      BY DEF EndEvent, EndEvents
    <2> HIDE DEF d
    <2>4. EventStep(j, EndEvent(d)) \in AnyStep
      BY <2>3 DEF EventStep, AnyStep
    <2>5. RowStep(j, d) \in AnyStep
      BY <2>2 DEF RowStep, AnyStep
    <2> QED
      BY <2>2, <2>4, <2>5 DEF d, EndStep
  <1>2. CASE row[j] \in TerminalJob \/ d = row[j]
    <2>1. RefreshSteps(j) = <<>>
      BY <1>2 DEF RefreshSteps
    <2> QED
      BY <2>1 DEF Refreshing
  <1>3. CASE Due(j) /\ d # row[j] /\ d \in TerminalJob
    <2>1. RefreshSteps(j) = <<EndStep(j), RowStep(j, d)>>
      BY <1>3 DEF RefreshSteps, EndStep, Due
    <2> DEFINE steps == <<EndStep(j), RowStep(j, d)>>
    <2>2. steps \in Seq(AnyStep) /\ Len(steps) = 2 /\ steps[1] = EndStep(j)
             /\ steps[2] = RowStep(j, d)
      BY <1>1
    <2> HIDE DEF steps
    <2>3. IsRefresh(steps, 1, j) /\ IsRefresh(steps, 2, j)
      BY <1>3, <2>2 DEF IsRefresh
    <2>4. \A k \in 1 .. 2 : k = 1 \/ k = 2
      OBVIOUS
    <2>5. steps \in Refreshing
      BY <2>2, <2>3, <2>4 DEF Refreshing
    <2> QED
      BY <2>1, <2>5 DEF steps
  <1>4. CASE Due(j) /\ d # row[j] /\ d \notin TerminalJob
    <2> DEFINE steps == <<RowStep(j, d)>>
    <2>1. RefreshSteps(j) = steps
      BY <1>4 DEF RefreshSteps, Due
    <2>2. steps \in Seq(AnyStep) /\ Len(steps) = 1 /\ steps[1] = RowStep(j, d)
      BY <1>1
    <2> HIDE DEF steps
    <2>3. IsRefresh(steps, 1, j)
      BY <1>4, <2>2 DEF IsRefresh
    <2>4. \A k \in 1 .. 1 : k = 1
      OBVIOUS
    <2> QED
      BY <2>1, <2>2, <2>3, <2>4 DEF Refreshing
  <1> QED
    BY <1>2, <1>3, <1>4 DEF Due

\* Several refreshes after one another are, too.
LEMMA MoreRefreshes ==
    ASSUME NEW a \in Refreshing, NEW b \in Refreshing
    PROVE  a \o b \in Refreshing
  <1>1. a \in Seq(AnyStep) /\ b \in Seq(AnyStep)
    BY DEF Refreshing
  <1>2. /\ a \o b \in Seq(AnyStep)
        /\ Len(a) \in Nat /\ Len(b) \in Nat
        /\ Len(a \o b) = Len(a) + Len(b)
        /\ \A k \in 1 .. Len(a) + Len(b) :
              (a \o b)[k] = IF k <= Len(a) THEN a[k] ELSE b[k - Len(a)]
    BY <1>1
  <1> DEFINE ab == a \o b
             m == Len(a)
             n == Len(b)
  <1>3. /\ m \in Nat /\ n \in Nat /\ ab \in Seq(AnyStep) /\ Len(ab) = m + n
        /\ \A k \in 1 .. m + n : ab[k] = IF k <= m THEN a[k] ELSE b[k - m]
    BY <1>2
  <1> HIDE DEF ab
  <1>4. ASSUME NEW k \in 1 .. m + n
        PROVE  \E j \in Jobs : IsRefresh(ab, k, j)
    <2>1. CASE k <= m
      <3>1. k \in 1 .. m
        BY <1>3, <2>1
      <3>2. PICK j \in Jobs : IsRefresh(a, k, j)
        BY <3>1 DEF Refreshing
      <3>3. ab[k] = a[k] /\ (k > 1 => ab[k - 1] = a[k - 1])
        BY <1>3, <2>1, <3>1
      <3> QED
        BY <3>2, <3>3 DEF IsRefresh
    <2>2. CASE ~(k <= m)
      <3>1. k - m \in 1 .. n
        BY <1>3, <2>2
      <3>2. PICK j \in Jobs : IsRefresh(b, k - m, j)
        BY <3>1 DEF Refreshing
      <3>3. ab[k] = b[k - m] /\ (k - m > 1 => k > 1 /\ ab[k - 1] = b[k - m - 1])
        <4>1. k - m > 1 => k - 1 \in 1 .. m + n /\ ~(k - 1 <= m) /\ (k - 1) - m = k - m - 1
          BY <1>3, <3>1
        <4> QED
          BY <1>3, <2>2, <3>1, <4>1
      <3> QED
        BY <3>2, <3>3 DEF IsRefresh
    <2> QED
      BY <2>1, <2>2
  <1>5. ab \in Refreshing
    BY <1>3, <1>4 DEF Refreshing
  <1> QED
    BY <1>5 DEF ab

\* No refresh passes through tables that are not good.
LEMMA RefreshingIsGood ==
    ASSUME JobsInv, NEW steps \in Refreshing
    PROVE  \A k \in 0 .. Len(steps) : States(steps)[k] \in Good(asked)
  <1> DEFINE n == Len(steps)
             S == States(steps)
             T == {k \in 0 .. n :
                     /\ S[k] \in Good(asked)
                     /\ S[k].phase = phase
                     /\ \A j \in Jobs : S[k].row[j] = "NONE" <=> row[j] = "NONE"
                     /\ \A j \in Jobs : k > 0 /\ steps[k] = EndStep(j) => S[k].ended[j] # <<>>}
  <1>1. n \in Nat /\ \A k \in 1 .. n : \E j \in Jobs : IsRefresh(steps, k, j)
    BY DEF Refreshing
  <1>2. S[0] = Stored /\ \A k \in 1 .. n : S[k] = Step(S[k - 1], steps[k])
    BY <1>1, StatesRule
  <1> HIDE DEF n, S
  <1>3. 0 \in T
    BY <1>1, <1>2, StoredIsGood DEF Stored
  <1>4. ASSUME NEW k \in 1 .. n, k - 1 \in T
        PROVE  k \in T
    <2> DEFINE s == S[k - 1]
               q == S[k]
    <2>1. PICK j \in Jobs : IsRefresh(steps, k, j)
      BY <1>1
    <2> DEFINE d == Derived(phase, j)
               e == EndEvent(d)
    <2>2. /\ s \in Good(asked) /\ s \in Tables /\ s.phase = phase
          /\ \A m \in Jobs : s.row[m] = "NONE" <=> row[m] = "NONE"
          /\ q = Step(s, steps[k])
      BY <1>2, <1>4 DEF Good
    <2>3. /\ \A t \in TasksIn(j) : phase[t] # "new"
          /\ d \in {"RUNNING"} \cup TerminalJob
          /\ d \in TerminalJob => \A t \in TasksIn(j) : phase[t] \in Settled
          /\ row[j] \notin TerminalJob /\ row[j] # "NONE"
      <3>1. \A t \in TasksIn(j) : phase[t] # "new"
        BY <2>1 DEF IsRefresh, Due, JobsInv, JobIsSound, Stored
      <3> QED
        BY <2>1, <3>1, DerivedSays DEF IsRefresh, Due, JobsInv
    <2>4. d \in JobState /\ e \in EndEvents
      BY <2>3 DEF JobState, TerminalJob, EndEvent, EndEvents
    <2>0. /\ q \in Good(asked)
          /\ q.phase = phase
          /\ \A m \in Jobs : q.row[m] = "NONE" <=> row[m] = "NONE"
          /\ \A m \in Jobs : steps[k] = EndStep(m) => q.ended[m] # <<>>
          => k \in T
      <3>1. k \in 0 .. n
        BY <1>1
      <3> QED
        BY <3>1
    <2> HIDE DEF s, q, d, e
    <2>5. CASE steps[k] = EndStep(j) /\ d \in TerminalJob
      <3>1. q \in Tables /\ q.phase = phase /\ q.row = s.row
               /\ q.ended = [s.ended EXCEPT ![j] = Append(@, e)]
        BY <2>2, <2>4, <2>5, EventStepEffect DEF EndStep, d, e
      <3>2. s.ended[j] \in Seq(EndEvents)
        BY <2>2 DEF Tables
      <3>3. /\ q.ended[j] # <<>>
            /\ \A i \in DOMAIN q.ended[j] :
                  q.ended[j][i] = e \/ (i \in DOMAIN s.ended[j] /\ q.ended[j][i] = s.ended[j][i])
            /\ \A m \in Jobs \ {j} : q.ended[m] = s.ended[m]
        <4> DEFINE old == s.ended[j]
        <4>1. q.ended[j] = Append(old, e)
          BY <2>2, <3>1 DEF Tables
        <4> HIDE DEF old
        <4>2. old \in Seq(EndEvents)
          BY <3>2 DEF old
        <4>3. Len(old) \in Nat /\ DOMAIN old = 1 .. Len(old)
                 /\ Append(old, e) \in Seq(EndEvents)
                 /\ Len(Append(old, e)) = Len(old) + 1
                 /\ \A i \in 1 .. Len(old) + 1 :
                       Append(old, e)[i] = IF i <= Len(old) THEN old[i] ELSE e
          BY <2>4, <4>2
        <4>4. DOMAIN Append(old, e) = 1 .. Len(old) + 1 /\ Append(old, e) # <<>>
          BY <4>3
        <4> QED
          BY <2>2, <3>1, <4>1, <4>3, <4>4 DEF Tables, old
      <3>4. ASSUME NEW m \in Jobs
            PROVE  JobIsSound(q, asked, m) /\ (row[m] \in TerminalJob => q.row[m] = row[m])
        <4>1. JobIsSound(s, asked, m) /\ (row[m] \in TerminalJob => s.row[m] = row[m])
          BY <2>2 DEF Good
        <4>2. CASE m = j
          <5>1. \A i \in DOMAIN q.ended[j] : q.ended[j][i] = EndEvent(Derived(q.phase, j))
            BY <2>2, <3>1, <3>3, <4>1, <4>2 DEF JobIsSound, d, e
          <5>2. s.row[j] # "NONE"
            BY <2>2, <2>3
          <5> QED
            BY <2>2, <2>3, <2>5, <3>1, <3>3, <4>1, <4>2, <5>1, <5>2 DEF JobIsSound
        <4>3. CASE m # j
          BY <2>2, <3>1, <3>3, <4>1, <4>3 DEF JobIsSound
        <4> QED
          BY <4>2, <4>3
      <3>5. \A m \in Jobs : steps[k] = EndStep(m) => q.ended[m] # <<>>
        BY <2>5, <3>3 DEF EndStep, EventStep
      <3>6. q \in Good(asked)
        BY <3>1, <3>4 DEF Good
      <3> QED
        BY <2>0, <2>2, <3>1, <3>5, <3>6
    <2>6. CASE /\ steps[k] = RowStep(j, d)
               /\ d \in TerminalJob => k > 1 /\ steps[k - 1] = EndStep(j)
      <3>1. q \in Tables /\ q.phase = phase /\ q.ended = s.ended
               /\ q.row = [s.row EXCEPT ![j] = d]
        BY <2>2, <2>4, <2>6, RowStepEffect
      <3>2. d \in TerminalJob => s.ended[j] # <<>>
        BY <1>1, <1>4, <2>6 DEF s
      <3>3. q.row[j] = d /\ \A m \in Jobs \ {j} : q.row[m] = s.row[m]
        BY <2>2, <3>1 DEF Tables
      <3>4. ASSUME NEW m \in Jobs
            PROVE  JobIsSound(q, asked, m) /\ (row[m] \in TerminalJob => q.row[m] = row[m])
        <4>1. JobIsSound(s, asked, m) /\ (row[m] \in TerminalJob => s.row[m] = row[m])
          BY <2>2 DEF Good
        <4>2. CASE m = j
          <5>1. d # "NONE" /\ d # "PENDING" /\ j \in asked
            BY <2>2, <2>3, <4>1, <4>2 DEF TerminalJob, JobIsSound
          <5>2. d \in {"SUCCEEDED", "FAILED"} => d = Derived(q.phase, j) /\ q.ended[j] # <<>>
            BY <3>1, <3>2 DEF d, TerminalJob
          <5> QED
            BY <2>2, <2>3, <3>1, <3>3, <4>1, <4>2, <5>1, <5>2 DEF JobIsSound
        <4>3. CASE m # j
          BY <2>2, <3>1, <3>3, <4>1, <4>3 DEF JobIsSound
        <4> QED
          BY <4>2, <4>3
      <3>5. \A m \in Jobs : steps[k] # EndStep(m)
        BY <2>6 DEF EndStep, EventStep, RowStep
      <3>6. \A m \in Jobs : q.row[m] = "NONE" <=> row[m] = "NONE"
        BY <2>2, <2>3, <3>3 DEF TerminalJob
      <3>7. q \in Good(asked)
        BY <3>1, <3>4 DEF Good
      <3> QED
        BY <2>0, <3>1, <3>5, <3>6, <3>7
    <2> QED
      BY <2>1, <2>5, <2>6 DEF IsRefresh, d
  <1>5. 0 .. n \subseteq T
    <2> HIDE DEF T
    <2> QED
      BY <1>1, <1>3, <1>4, UpTo
  <1> QED
    BY <1>5 DEF n, S

-----------------------------------------------------------------------------
(***************************************************************************)
(* Submission and cancellation                                             *)
(***************************************************************************)

\* The tables on the way of a handler that moves the tasks of a job, each as
\* `to` says, and stores the job's row last.
Reached(s, j, to, x) ==
    /\ s \in Tables
    /\ s.ended = ended
    /\ \A t \in Tasks : s.phase[t] # phase[t] => t \in TasksIn(j) /\ s.phase[t] = to[t]
    /\ \/ s.row = row
       \/ /\ s.row = [row EXCEPT ![j] = x]
          /\ \A t \in TasksIn(j) : s.phase[t] = to[t]

\* Such a handler passes through such tables.
LEMMA TasksThenRow ==
    ASSUME JobsInv, NEW j \in Jobs, NEW to \in [Tasks -> Phase], NEW x \in JobState, NEW steps,
           steps = Append([i \in DOMAIN TasksOf[j] |-> TaskStep(TasksOf[j][i], to[TasksOf[j][i]])],
                          RowStep(j, x))
    PROVE  Len(steps) \in Nat /\ \A k \in 0 .. Len(steps) : Reached(States(steps)[k], j, to, x)
  <1> DEFINE order == TasksOf[j]
             n == Len(order)
             moves == [i \in 1 .. n |-> TaskStep(order[i], to[order[i]])]
             closing == RowStep(j, x)
             S == States(steps)
  <1>1. /\ n \in Nat \ {0} /\ DOMAIN order = 1 .. n
        /\ TasksIn(j) \subseteq Tasks
        /\ \A i \in 1 .. n : order[i] \in TasksIn(j)
        /\ \A t \in TasksIn(j) : \E i \in 1 .. n : order[i] = t
    BY TasksOfJob
  <1> HIDE DEF order, n
  <1>2. moves \in Seq(AnyStep) /\ Len(moves) = n /\ closing \in AnyStep
    <2>1. \A i \in 1 .. n : moves[i] \in AnyStep
      BY <1>1 DEF TaskStep, AnyStep
    <2>2. closing \in AnyStep
      BY DEF RowStep, AnyStep
    <2> HIDE DEF AnyStep, closing
    <2> QED
      BY <1>1, <2>1, <2>2
  <1>3. steps = Append(moves, closing)
    BY <1>1 DEF order, n
  <1> HIDE DEF closing
  <1>4. /\ Len(steps) = n + 1
        /\ \A k \in 1 .. n : steps[k] = TaskStep(order[k], to[order[k]])
        /\ steps[n + 1] = closing
    <2>1. \A k \in 1 .. n : moves[k] = TaskStep(order[k], to[order[k]])
      OBVIOUS
    <2> HIDE DEF moves, AnyStep
    <2>2. /\ Len(steps) = n + 1
          /\ \A k \in 1 .. n : steps[k] = moves[k]
          /\ steps[n + 1] = closing
      BY <1>2, <1>3, AppendProperties
    <2> QED
      BY <2>1, <2>2
  <1> HIDE DEF moves
  <1>5. S[0] = Stored /\ \A k \in 1 .. n + 1 : S[k] = Step(S[k - 1], steps[k])
    <2>1. Len(steps) \in Nat
      BY <1>1, <1>4
    <2> QED
      BY <1>4, <2>1, StatesRule
  <1> HIDE DEF S
  <1> DEFINE Moved(k) == {order[i] : i \in 1 .. k}
             T == {k \in 0 .. n :
                     /\ S[k] \in Tables /\ S[k].ended = ended /\ S[k].row = row
                     /\ \A t \in Tasks : S[k].phase[t] = IF t \in Moved(k) THEN to[t] ELSE phase[t]}
  <1>6. 0 \in T
    <2>1. Moved(0) = {}
      OBVIOUS
    <2>2. Stored \in Tables /\ Stored.ended = ended /\ Stored.row = row /\ Stored.phase = phase
      BY DEF JobsInv, Stored, Tables
    <2>3. 0 \in 0 .. n
      BY <1>1
    <2> HIDE DEF Moved
    <2> QED
      BY <1>5, <2>1, <2>2, <2>3
  <1>7. ASSUME NEW k \in 1 .. n, k - 1 \in T
        PROVE  k \in T
    <2>1. k - 1 \in 0 .. n /\ k \in 0 .. n /\ k \in 1 .. n + 1
      BY <1>1
    <2>2. Moved(k) = Moved(k - 1) \cup {order[k]}
      <3>1. 1 .. k = (1 .. k - 1) \cup {k}
        OBVIOUS
      <3> QED
        BY <3>1
    <2> HIDE DEF Moved
    <2>3. order[k] \in Tasks /\ to[order[k]] \in Phase
      BY <1>1
    <2>4. S[k] = Step(S[k - 1], TaskStep(order[k], to[order[k]])) /\ S[k - 1] \in Tables
      BY <1>4, <1>5, <1>7, <2>1
    <2>5. /\ S[k] \in Tables /\ S[k].row = S[k - 1].row /\ S[k].ended = S[k - 1].ended
          /\ S[k].phase = [S[k - 1].phase EXCEPT ![order[k]] = to[order[k]]]
      BY <2>3, <2>4, TaskStepEffect
    <2>6. \A t \in Tasks : S[k].phase[t] = IF t \in Moved(k) THEN to[t] ELSE phase[t]
      BY <1>7, <2>2, <2>3, <2>4, <2>5 DEF Tables
    <2> QED
      BY <1>7, <2>1, <2>5, <2>6
  <1>8. 0 .. n \subseteq T
    <2>1. n \in Nat
      BY <1>1
    <2> HIDE DEF T
    <2> QED
      BY <1>6, <1>7, <2>1, UpTo
  <1>9. Moved(n) = TasksIn(j) /\ \A k \in 0 .. n : Moved(k) \subseteq TasksIn(j)
    BY <1>1
  <1> HIDE DEF Moved
  <1>10. /\ S[n + 1] \in Tables /\ S[n + 1].ended = ended
         /\ S[n + 1].row = [row EXCEPT ![j] = x]
         /\ \A t \in Tasks : S[n + 1].phase[t] = IF t \in TasksIn(j) THEN to[t] ELSE phase[t]
    <2>1. n + 1 \in 1 .. n + 1 /\ n + 1 - 1 = n /\ n \in 0 .. n
      BY <1>1
    <2>2. S[n + 1] = Step(S[n], RowStep(j, x))
      <3> DEFINE p == n + 1
      <3>1. p \in 1 .. n + 1 /\ p - 1 = n
        BY <2>1
      <3> HIDE DEF p
      <3>2. S[p] = Step(S[p - 1], steps[p])
        BY <1>5, <3>1
      <3>3. S[p] = Step(S[n], steps[p])
        BY <3>1, <3>2
      <3> QED
        BY <1>4, <3>3 DEF p, closing
    <2>3. /\ S[n] \in Tables /\ S[n].ended = ended /\ S[n].row = row
          /\ \A t \in Tasks : S[n].phase[t] = IF t \in TasksIn(j) THEN to[t] ELSE phase[t]
      BY <1>8, <1>9, <2>1
    <2>4. /\ S[n + 1] \in Tables /\ S[n + 1].phase = S[n].phase /\ S[n + 1].ended = S[n].ended
          /\ S[n + 1].row = [S[n].row EXCEPT ![j] = x]
      BY <2>2, <2>3, RowStepEffect
    <2> QED
      BY <2>3, <2>4
  <1>11. ASSUME NEW k \in 0 .. Len(steps)
         PROVE  Reached(S[k], j, to, x)
    <2>1. k \in 0 .. n \/ k = n + 1
      BY <1>1, <1>4
    <2>2. CASE k \in 0 .. n
      BY <1>8, <1>9, <2>2 DEF Reached
    <2>3. CASE k = n + 1
      BY <1>1, <1>10, <2>3 DEF Reached
    <2> QED
      BY <2>1, <2>2, <2>3
  <1>12. Len(steps) \in Nat
    BY <1>1, <1>4
  <1> QED
    BY <1>11, <1>12 DEF S

\* Tasks of another job are not moved, so nothing of it changes.
LEMMA OthersStaySound ==
    ASSUME JobsInv, NEW j \in Jobs, NEW m \in Jobs \ {j}, NEW s \in Tables,
           NEW a, a \in {asked, asked \cup {j}},
           s.ended = ended, s.row[m] = row[m],
           \A t \in Tasks : s.phase[t] # phase[t] => t \in TasksIn(j)
    PROVE  JobIsSound(s, a, m) /\ (row[m] \in TerminalJob => s.row[m] = row[m])
  <1>1. JobIsSound(Stored, asked, m)
    BY DEF JobsInv
  <1>2. \A t \in TasksIn(m) : s.phase[t] = phase[t]
    BY DisjointAssumption, TasksOfJob
  <1>3. Derived(s.phase, m) = Derived(phase, m)
    BY <1>2, DerivedDepends
  <1>4. m \notin a => m \notin asked
    OBVIOUS
  <1> QED
    BY <1>1, <1>2, <1>3, <1>4 DEF JobIsSound, Stored

\* A submission that is cut short leaves tasks without a job, never a job
\* without its tasks.
LEMMA SubmitIsGood ==
    ASSUME JobsInv, NEW j \in Jobs, Submit(j)
    PROVE  Stored' \in Good(asked') /\ JobsInv'
  <1> DEFINE steps == SubmitSteps(j)
             to == [t \in Tasks |-> "open"]
  <1>1. j \notin asked /\ asked' = asked \cup {j} /\ Runs(steps)
    BY DEF Submit
  <1>2. steps = Append([i \in DOMAIN TasksOf[j] |-> TaskStep(TasksOf[j][i], to[TasksOf[j][i]])],
                       RowStep(j, "RUNNING"))
    <2>1. \A i \in DOMAIN TasksOf[j] : to[TasksOf[j][i]] = "open"
      BY TasksOfJob
    <2> HIDE DEF to
    <2> QED
      BY <2>1 DEF SubmitSteps
  <1>3. to \in [Tasks -> Phase] /\ \A t \in TasksIn(j) : to[t] = "open"
    BY TasksOfJob DEF Phase
  <1> HIDE DEF steps, to
  <1>4. "RUNNING" \in JobState
    BY DEF JobState
  <1>5. /\ Len(steps) \in Nat
        /\ \A k \in 0 .. Len(steps) : Reached(States(steps)[k], j, to, "RUNNING")
    BY <1>2, <1>3, <1>4, TasksThenRow
  <1>6. ASSUME NEW s, Reached(s, j, to, "RUNNING")
        PROVE  s \in Good(asked \cup {j})
    <2> USE <1>6 DEF Reached
    <2>1. JobIsSound(Stored, asked, j)
      BY DEF JobsInv
    <2>2. row[j] = "NONE" /\ ended[j] = <<>>
      BY <1>1, <2>1 DEF JobIsSound, Stored
    <2>3. s.row[j] \in {"NONE", "RUNNING"} /\ \A m \in Jobs \ {j} : s.row[m] = row[m]
      BY <1>6, <2>2 DEF JobsInv
    <2>4. s.row[j] = "RUNNING" => \A t \in TasksIn(j) : s.phase[t] = "open"
      BY <1>3, <1>6, <2>2
    <2>5. JobIsSound(s, asked \cup {j}, j)
      BY <1>6, <2>2, <2>3, <2>4 DEF JobIsSound, TerminalJob
    <2>6. row[j] \notin TerminalJob
      BY <2>2 DEF TerminalJob
    <2>7. \A m \in Jobs \ {j} : JobIsSound(s, asked \cup {j}, m)
                                /\ (row[m] \in TerminalJob => s.row[m] = row[m])
      BY <1>6, <2>3, OthersStaySound
    <2> QED
      BY <1>6, <2>5, <2>6, <2>7 DEF Good
  <1>7. \A k \in 0 .. Len(steps) : States(steps)[k] \in Good(asked')
    BY <1>1, <1>5, <1>6
  <1>8. asked' \subseteq Jobs
    BY <1>1 DEF JobsInv
  <1> QED
    BY <1>1, <1>5, <1>7, <1>8, RunsKeep

\* A cancellation withdraws what is in hand before the job is shown CANCELLED.
LEMMA CancelIsGood ==
    ASSUME JobsInv, NEW j \in Jobs, Cancel(j)
    PROVE  Stored' \in Good(asked') /\ JobsInv'
  <1> DEFINE steps == CancelSteps(j)
             to == [t \in Tasks |-> IF phase[t] \in {"open", "held"} THEN "withdrawn" ELSE phase[t]]
             W == WithdrawSteps(j)
  <1>1. /\ row[j] # "NONE" /\ row[j] \notin TerminalJob /\ Runs(steps)
        /\ asked' = asked /\ asked \subseteq Jobs
    BY DEF Cancel, JobsInv
  <1>2. JobIsSound(Stored, asked, j)
    BY DEF JobsInv
  <1>3. /\ \A t \in TasksIn(j) : phase[t] # "new"
        /\ Derived(phase, j) \in {"RUNNING"} \cup TerminalJob
        /\ Derived(phase, j) \in TerminalJob <=> \A t \in TasksIn(j) : phase[t] \in Settled
        /\ row[j] = "RUNNING"
        /\ j \in asked
    <2>1. \A t \in TasksIn(j) : phase[t] # "new"
      BY <1>1, <1>2 DEF JobIsSound, Stored
    <2>2. row[j] = "RUNNING" /\ j \in asked
      BY <1>1, <1>2 DEF JobIsSound, Stored, JobsInv, JobState, TerminalJob
    <2> QED
      BY <2>1, <2>2, DerivedSays DEF JobsInv
  <1>4. CASE Derived(phase, j) \in TerminalJob
    <2>1. steps \in Refreshing
      BY <1>1, <1>4, OneRefresh DEF CancelSteps
    <2>2. Len(steps) \in Nat
      BY <2>1 DEF Refreshing
    <2> HIDE DEF steps
    <2>3. \A k \in 0 .. Len(steps) : States(steps)[k] \in Good(asked)
      BY <2>1, RefreshingIsGood
    <2> QED
      BY <1>1, <2>2, <2>3, RunsKeep
  <1>5. CASE Derived(phase, j) \notin TerminalJob
    <2>1. to \in [Tasks -> Phase] /\ \A t \in TasksIn(j) : to[t] \in Settled
      BY <1>3, TasksOfJob DEF JobsInv, Phase, Settled
    <2>2. W = [i \in DOMAIN TasksOf[j] |-> TaskStep(TasksOf[j][i], to[TasksOf[j][i]])]
      <3>1. \A i \in DOMAIN TasksOf[j] :
                to[TasksOf[j][i]] = IF phase[TasksOf[j][i]] \in {"open", "held"} THEN "withdrawn"
                                    ELSE phase[TasksOf[j][i]]
        BY TasksOfJob
      <3> HIDE DEF to
      <3> QED
        BY <3>1 DEF WithdrawSteps
    <2>3. W \in Seq(AnyStep)
      <3>1. \A i \in DOMAIN TasksOf[j] : TaskStep(TasksOf[j][i], to[TasksOf[j][i]]) \in AnyStep
        BY <2>1, TasksOfJob DEF TaskStep, AnyStep
      <3>2. DOMAIN TasksOf[j] = 1 .. Len(TasksOf[j]) /\ Len(TasksOf[j]) \in Nat
        BY TasksOfJob
      <3> HIDE DEF W, to, AnyStep
      <3> QED
        BY <2>2, <3>1, <3>2
    <2>4. steps = Append(W, RowStep(j, "CANCELLED"))
      <3>1. RefreshSteps(j) = <<>>
        BY <1>3, <1>5 DEF RefreshSteps
      <3>2. steps = <<>> \o Append(W, RowStep(j, "CANCELLED"))
        BY <1>5, <3>1 DEF CancelSteps
      <3>3. Append(W, RowStep(j, "CANCELLED")) \in Seq(AnyStep)
        <4>1. RowStep(j, "CANCELLED") \in AnyStep
          BY DEF RowStep, AnyStep, JobState
        <4> QED
          BY <2>3, <4>1, AppendProperties
      <3> QED
        BY <3>2, <3>3, ConcatEmptySeq
    <2> HIDE DEF steps, to, W
    <2>5. steps = Append([i \in DOMAIN TasksOf[j] |-> TaskStep(TasksOf[j][i], to[TasksOf[j][i]])],
                         RowStep(j, "CANCELLED"))
      BY <2>2, <2>4
    <2>6. "CANCELLED" \in JobState
      BY DEF JobState
    <2>7. /\ Len(steps) \in Nat
          /\ \A k \in 0 .. Len(steps) : Reached(States(steps)[k], j, to, "CANCELLED")
      BY <2>1, <2>5, <2>6, TasksThenRow
    <2>8. ASSUME NEW s, Reached(s, j, to, "CANCELLED")
          PROVE  s \in Good(asked)
      <3> USE <2>8 DEF Reached
      <3>1. ended[j] = <<>>
        BY <1>2, <1>3, <1>5 DEF JobIsSound, Stored
      <3>2. s.row[j] \in {"RUNNING", "CANCELLED"} /\ \A m \in Jobs \ {j} : s.row[m] = row[m]
        BY <1>3, <2>8 DEF JobsInv
      <3>3. /\ s.row[j] = "CANCELLED" => \A t \in TasksIn(j) : s.phase[t] \in Settled
            /\ \A t \in TasksIn(j) : s.phase[t] # "new"
        <4>1. \A t \in TasksIn(j) : s.phase[t] \in {phase[t], to[t]}
          BY <2>8, TasksOfJob
        <4> QED
          BY <1>3, <2>1, <2>8, <4>1 DEF Settled
      <3>4. JobIsSound(s, asked, j)
        BY <1>3, <2>8, <3>1, <3>2, <3>3 DEF JobIsSound, TerminalJob
      <3>5. \A m \in Jobs \ {j} : JobIsSound(s, asked, m)
                                  /\ (row[m] \in TerminalJob => s.row[m] = row[m])
        BY <2>8, <3>2, OthersStaySound
      <3> QED
        BY <1>1, <2>8, <3>4, <3>5 DEF Good
    <2>9. \A k \in 0 .. Len(steps) : States(steps)[k] \in Good(asked')
      BY <1>1, <2>7, <2>8
    <2> QED
      BY <1>1, <2>7, <2>9, RunsKeep DEF steps
  <1> QED
    BY <1>4, <1>5

-----------------------------------------------------------------------------
(***************************************************************************)
(* Reads, the sweeper and the workers                                      *)
(***************************************************************************)

\* Whatever only refreshes leaves good tables.
LEMMA RefreshesAreGood ==
    ASSUME JobsInv, NEW steps \in Refreshing, Runs(steps), UNCHANGED asked
    PROVE  Stored' \in Good(asked') /\ JobsInv'
  <1>1. Len(steps) \in Nat
    BY DEF Refreshing
  <1>2. asked' \subseteq Jobs /\ asked' = asked
    BY DEF JobsInv
  <1>3. \A k \in 0 .. Len(steps) : States(steps)[k] \in Good(asked')
    BY <1>2, RefreshingIsGood
  <1> QED
    BY <1>1, <1>2, <1>3, RunsKeep

\* One job is read.
LEMMA ReadIsGood ==
    ASSUME JobsInv, NEW j \in Jobs, ReadJob(j)
    PROVE  Stored' \in Good(asked') /\ JobsInv'
  <1>1. RefreshSteps(j) \in Refreshing
    BY OneRefresh DEF ReadJob
  <1> QED
    BY <1>1, RefreshesAreGood DEF ReadJob

\* All of them are, in some order.
LEMMA SweepIsGood ==
    ASSUME JobsInv, RefreshAll
    PROVE  Stored' \in Good(asked') /\ JobsInv'
  <1> DEFINE js == {j \in Jobs : row[j] # "NONE"}
  <1>1. PICK order \in Orders(js) : Runs(RefreshAllSteps(order)) /\ UNCHANGED asked
    BY DEF RefreshAll
  <1>2. Cardinality(js) \in Nat
    BY JobsAssumption, FS_Subset, FS_CardinalityType
  <1>3. order \in [1 .. Cardinality(js) -> js]
    BY <1>1 DEF Orders
  <1>4. Len(order) \in Nat /\ \A i \in 1 .. Len(order) : order[i] \in js
    BY <1>2, <1>3
  <1>5. \A i \in 1 .. Len(order) : RefreshSteps(order[i]) \in Refreshing
    BY <1>4, OneRefresh
  <1>6. <<>> \in Refreshing /\ \A a, b \in Refreshing : a \o b \in Refreshing
    <2>1. <<>> \in Refreshing
      BY DEF Refreshing
    <2> QED
      BY <2>1, MoreRefreshes
  <1>7. RefreshAllSteps(order) \in Refreshing
    BY <1>4, <1>5, <1>6, RefreshAllRule
  <1> QED
    BY <1>1, <1>7, RefreshesAreGood

\* A task in hand is not one of a job that ended, stored or only recorded.
LEMMA WorkIsGood ==
    ASSUME JobsInv, NEW t \in Tasks, ClaimTask(t) \/ SettleTask(t) \/ ReopenTask(t)
    PROVE  Stored' \in Good(asked') /\ JobsInv'
  <1>1. PICK p \in Phase \ {"new"} : phase' = [phase EXCEPT ![t] = p]
    BY DEF ClaimTask, SettleTask, ReopenTask, Phase
  <1>2. phase[t] \in {"open", "held"} /\ UNCHANGED <<row, ended, asked, cuts>>
    BY DEF ClaimTask, SettleTask, ReopenTask
  <1>3. phase' \in [Tasks -> Phase] /\ phase'[t] = p /\ \A u \in Tasks \ {t} : phase'[u] = phase[u]
    BY <1>1 DEF JobsInv
  <1>4. ASSUME NEW j \in Jobs
        PROVE  JobIsSound(Stored', asked', j)
    <2>1. JobIsSound(Stored, asked, j)
      BY DEF JobsInv
    <2>2. TasksIn(j) \subseteq Tasks
      BY TasksOfJob
    <2>3. CASE t \in TasksIn(j)
      <3>1. j \in asked /\ row[j] \notin TerminalJob /\ ended[j] = <<>>
        BY <1>2, <2>1, <2>3 DEF JobIsSound, Stored, Settled
      <3> QED
        BY <1>2, <1>3, <2>1, <2>2, <3>1 DEF JobIsSound, Stored, TerminalJob
    <2>4. CASE t \notin TasksIn(j)
      <3>1. \A u \in TasksIn(j) : phase'[u] = phase[u]
        BY <1>3, <2>2, <2>4
      <3>2. Derived(phase', j) = Derived(phase, j)
        BY <3>1, DerivedDepends
      <3> QED
        BY <1>2, <2>1, <3>1, <3>2 DEF JobIsSound, Stored
    <2> QED
      BY <2>3, <2>4
  <1>5. JobsInv'
    BY <1>2, <1>3, <1>4 DEF JobsInv
  <1>6. Stored' \in Tables
    BY <1>5 DEF JobsInv, Stored, Tables
  <1> QED
    BY <1>2, <1>4, <1>5, <1>6 DEF Good, Stored

\* Every step leaves good tables.
LEMMA StepIsGood ==
    JobsInv /\ [Next]_vars =>
        JobsInv' /\ [\A j \in Jobs : row[j] \in TerminalJob => row'[j] = row[j]]_vars
  <1> SUFFICES ASSUME JobsInv, [Next]_vars
               PROVE  /\ JobsInv'
                      /\ [\A j \in Jobs : row[j] \in TerminalJob => row'[j] = row[j]]_vars
    OBVIOUS
  <1>1. CASE UNCHANGED vars
    BY <1>1 DEF JobsInv, Stored, JobIsSound, vars
  <1>2. CASE Next
    <2>1. Stored' \in Good(asked') /\ JobsInv'
      BY <1>2, SubmitIsGood, ReadIsGood, SweepIsGood, CancelIsGood, WorkIsGood DEF Next
    <2>2. \A j \in Jobs : row[j] \in TerminalJob => row'[j] = row[j]
      BY <2>1 DEF Good, Stored
    <2> QED
      BY <2>1, <2>2
  <1> QED
    BY <1>1, <1>2

\* Nothing is known of any job at first.
LEMMA StartIsGood == Init => JobsInv
  <1> SUFFICES ASSUME Init
               PROVE  JobsInv
    OBVIOUS
  <1>1. cuts \in 0 .. MaxCuts
    BY MaxCutsAssumption DEF Init
  <1>2. /\ phase \in [Tasks -> Phase]
        /\ row \in [Jobs -> JobState \cup {"NONE"}]
        /\ ended \in [Jobs -> Seq(EndEvents)]
        /\ asked \subseteq Jobs
    BY DEF Init, Phase
  <1>3. \A j \in Jobs : JobIsSound(Stored, asked, j)
    <2>1. ASSUME NEW j \in Jobs
          PROVE  row[j] = "NONE" /\ ended[j] = <<>> /\ \A t \in TasksIn(j) : phase[t] = "new"
      BY TasksOfJob DEF Init
    <2> QED
      BY <2>1 DEF JobIsSound, Stored, TerminalJob
  <1> QED
    BY <1>1, <1>2, <1>3 DEF JobsInv

-----------------------------------------------------------------------------
(***************************************************************************)
(* Theorems                                                                *)
(***************************************************************************)

\* Jobs, tasks and the events of their ends belong together, wherever
\* submit_job, refresh_lease_job or cancel_job is cut short.
THEOREM LeaseJobsInvariant == Spec => []JobsInv
  <1>1. Init => JobsInv
    BY StartIsGood
  <1>2. JobsInv /\ [Next]_vars => JobsInv'
    BY StepIsGood
  <1> QED
    BY <1>1, <1>2, PTL DEF Spec

\* What the row of an ended job promises is so: its tasks made that end, none
\* of them can be claimed or is held, and the ledger tells the same, once.
THEOREM ShownEndsAreTrue == Spec => []ShownEndIsTrue
  <1>1. JobsInv => ShownEndIsTrue
    BY SoundIsTrue
  <1> QED
    BY <1>1, LeaseJobsInvariant, PTL

\* A job that is shown as ended is never shown otherwise again, whatever
\* reads, sweeps and cancellations overlap with its last tasks.
THEOREM EndedJobsAreFinal == Spec => EndedJobIsFinal
  <1>1. JobsInv /\ [Next]_vars =>
            [\A j \in Jobs : row[j] \in TerminalJob => row'[j] = row[j]]_vars
    BY StepIsGood
  <1> QED
    BY <1>1, LeaseJobsInvariant, PTL DEF Spec, EndedJobIsFinal

-----------------------------------------------------------------------------
(***************************************************************************)
(* A job on the Kubernetes path                                            *)
(***************************************************************************)

\* The events of one look at the pods are a sequence of events about workers.
LEMMA LookEventsIsSeq == LookEvents \in Seq({"RAY_WORKER_LOST", "RAY_WORKER_REPLACED"})
  <1> DEFINE E == {"RAY_WORKER_LOST", "RAY_WORKER_REPLACED"}
             Look(es, w) == IF w \in Listed THEN es \o PodEvents(w) ELSE es
             Solves(n, f) == f = [w \in 0 .. n |-> IF w = 0 THEN <<>> ELSE Look(f[w - 1], w)]
             T == {n \in Nat : \E f : Solves(n, f)}
             f0 == CHOOSE f : Solves(MaxWorkers, f)
             tail == [k \in 1 .. Cardinality(Vanished) |-> "RAY_WORKER_LOST"]
  <1>1. LookEvents = f0[MaxWorkers] \o tail
    BY DEF LookEvents
  <1>2. \A w \in Workers : PodEvents(w) \in Seq(E)
    BY DEF PodEvents
  <1>3. \A es \in Seq(E), w \in Workers : Look(es, w) \in Seq(E)
    BY <1>2
  <1>4. <<>> \in Seq(E) /\ MaxWorkers \in Nat
    BY MaxWorkersAssumption
  <1>5. tail \in Seq(E)
    <2>1. Vanished \subseteq 1 .. MaxWorkers
      BY DEF Vanished, Workers
    <2>2. IsFiniteSet(Vanished)
      <3>1. 1 \in Int /\ MaxWorkers \in Int
        BY <1>4
      <3>2. IsFiniteSet(1 .. MaxWorkers)
        BY <3>1, FS_Interval
      <3> QED
        BY <2>1, <3>2, FS_Subset
    <2>3. Cardinality(Vanished) \in Nat
      BY <2>2, FS_CardinalityType
    <2> QED
      BY <2>3
  <1> HIDE DEF Look, E, tail
  <1>6. 0 \in T
    <2>1. Solves(0, [w \in 0 .. 0 |-> <<>>])
      OBVIOUS
    <2> QED
      BY <2>1
  <1>7. ASSUME NEW n \in 1 .. MaxWorkers, n - 1 \in T
        PROVE  n \in T
    <2>1. PICK g : Solves(n - 1, g)
      BY <1>7
    <2> DEFINE h == [w \in 0 .. n |-> IF w = n THEN Look(g[n - 1], n) ELSE g[w]]
    <2>2. Solves(n, h)
      BY <2>1
    <2>3. \E f : Solves(n, f)
      <3> HIDE DEF Solves, h
      <3> QED
        BY <2>2
    <2> QED
      BY <2>3
  <1>8. MaxWorkers \in T
    <2> HIDE DEF T
    <2>1. 0 .. MaxWorkers \subseteq T
      BY <1>4, <1>6, <1>7, UpTo
    <2> QED
      BY <1>4, <2>1
  <1>9. Solves(MaxWorkers, f0)
    <2> HIDE DEF Solves
    <2> QED
      BY <1>8
  <1> DEFINE U == {w \in 0 .. MaxWorkers : f0[w] \in Seq(E)}
  <1> HIDE DEF f0
  <1>10. 0 \in U
    BY <1>4, <1>9
  <1>11. ASSUME NEW w \in 1 .. MaxWorkers, w - 1 \in U
         PROVE  w \in U
    <2>1. f0[w] = Look(f0[w - 1], w) /\ f0[w - 1] \in Seq(E) /\ w \in Workers
      BY <1>4, <1>9, <1>11 DEF Workers
    <2> QED
      BY <1>3, <1>4, <2>1
  <1>12. MaxWorkers \in U
    <2> HIDE DEF U
    <2>1. 0 .. MaxWorkers \subseteq U
      BY <1>4, <1>10, <1>11, UpTo
    <2> QED
      BY <1>4, <2>1
  <1> QED
    BY <1>1, <1>5, <1>12 DEF E

\* Events about workers make a job's state RECOVERING or RUNNING, or leave it.
LEMMA WorkersOnlyRecover ==
    ASSUME NEW state, NEW events, Len(events) \in Nat
    PROVE  OnWorkerEvents(state, events) \in {state, "RECOVERING", "RUNNING"}
  <1> DEFINE n == Len(events)
             Solves(m, f) == f = [k \in 0 .. m |-> IF k = 0 THEN state
                                                 ELSE OnWorkerEvent(f[k - 1], events[k])]
             T == {m \in Nat : \E f : Solves(m, f)}
             f0 == CHOOSE f : Solves(n, f)
  <1>1. OnWorkerEvents(state, events) = f0[n]
    BY DEF OnWorkerEvents
  <1>2. \A s, e : OnWorkerEvent(s, e) \in {s, "RECOVERING", "RUNNING"}
    BY DEF OnWorkerEvent
  <1> HIDE DEF n
  <1>3. n \in Nat
    BY DEF n
  <1>4. 0 \in T
    <2>1. Solves(0, [k \in 0 .. 0 |-> state])
      OBVIOUS
    <2> QED
      BY <2>1
  <1>5. ASSUME NEW m \in 1 .. n, m - 1 \in T
        PROVE  m \in T
    <2>1. PICK g : Solves(m - 1, g)
      BY <1>5
    <2> DEFINE h == [k \in 0 .. m |-> IF k = m THEN OnWorkerEvent(g[m - 1], events[m]) ELSE g[k]]
    <2>2. Solves(m, h)
      BY <2>1
    <2>3. \E f : Solves(m, f)
      <3> HIDE DEF Solves, h
      <3> QED
        BY <2>2
    <2> QED
      BY <2>3
  <1>6. n \in T
    <2> HIDE DEF T
    <2>1. 0 .. n \subseteq T
      BY <1>3, <1>4, <1>5, UpTo
    <2> QED
      BY <1>3, <2>1
  <1>7. Solves(n, f0)
    <2> HIDE DEF Solves
    <2> QED
      BY <1>6
  <1> DEFINE U == {k \in 0 .. n : f0[k] \in {state, "RECOVERING", "RUNNING"}}
  <1> HIDE DEF f0
  <1>8. 0 \in U
    BY <1>3, <1>7
  <1>9. ASSUME NEW k \in 1 .. n, k - 1 \in U
        PROVE  k \in U
    <2>1. f0[k] = OnWorkerEvent(f0[k - 1], events[k])
      BY <1>3, <1>7
    <2> QED
      BY <1>2, <1>3, <1>9, <2>1
  <1>10. n \in U
    <2> HIDE DEF U
    <2>1. 0 .. n \subseteq U
      BY <1>3, <1>8, <1>9, UpTo
    <2> QED
      BY <1>3, <2>1
  <1> QED
    BY <1>1, <1>10

-----------------------------------------------------------------------------
(***************************************************************************)
(* The inductive invariant of a job on the Kubernetes path                 *)
(***************************************************************************)

\* What KubeRay may report of a RayJob, and the end it speaks of.
RayStatus ==
    {<<"unset", "unset">>, <<"Initializing", "unset">>, <<"Waiting", "unset">>,
     <<"Running", "unset">>, <<"Running", "PENDING">>, <<"Running", "RUNNING">>,
     <<"Running", "SUCCEEDED">>, <<"Failed", "unset">>, <<"Failed", "PENDING">>,
     <<"Failed", "RUNNING">>, <<"Failed", "FAILED">>,
     <<"Complete", "STOPPED">>, <<"Complete", "SUCCEEDED">>}

RayIsTyped ==
    /\ ray \in RayStatus \cup {NoRay}
    /\ ray # NoRay => outcome = EndOf(ray)

\* Something was done to the job: a failed call, a restart, a cancellation.
Disturbed == faults > 0 \/ \E c \in Requests : cancelling[c] # "idle"

\* A submission that has not stored the job has not started anything.
BeforeSubmitted ==
    /\ submitting \in {"idle", "creating"} => ray = NoRay /\ outcome = "none"
    /\ submitting # "done" =>
          /\ rayRow = "none" /\ ends = <<>> /\ watching = "off"
          /\ \A c \in Requests : cancelling[c] = "idle"

\* Nobody but a cancellation deletes a RayJob that is still looked at.
MissedIsDisturbed ==
    submitting = "created" \/ watching \in {"status", "pods", "final", "ingest"}
        => ray # NoRay \/ Disturbed

\* The watcher before it saw an end: what it fetched is what came.
Polling ==
    watching \in {"status", "pods"} =>
        /\ ends = <<>>
        /\ job \in RayJobState \ Terminal
        /\ last \in {"none", "CANCELLED"} \cup (RayJobState \ Terminal)
        /\ last = "CANCELLED" => outcome = "CANCELLED"
        /\ watching = "pods" => status \in RayJobState /\ (status \in Terminal => outcome = status)

\* The watcher after it did.
Ending ==
    watching \in {"final", "ingest"} =>
        /\ outcome \in Terminal
        /\ outcome = "SUCCEEDED" => ends = <<"JOB_SUCCEEDED">>
        /\ job \in RayJobState
        /\ job = "SUCCEEDED" => ends = <<"JOB_SUCCEEDED">>
        /\ job = "FAILED" => outcome = "FAILED"
        /\ watching = "ingest" => job = "SUCCEEDED"

\* A cancelled job has no watcher.
CancelledIsAlone == rayRow = "CANCELLED" => watching \in {"off", "done"}

RayInv ==
    /\ EndsAreTrue
    /\ RayIsTyped
    /\ BeforeSubmitted
    /\ MissedIsDisturbed
    /\ Polling
    /\ Ending
    /\ CancelledIsAlone

-----------------------------------------------------------------------------
(***************************************************************************)
(* What the statuses and the steps have in common                          *)
(***************************************************************************)

\* A status that speaks of an end is translated to that end, no other status
\* to an end, and no status that follows takes an end back.
LEMMA StatusesAgree ==
    ASSUME NEW s \in RayStatus
    PROVE  /\ StateOf(s) \in RayJobState
           /\ EndOf(s) \in Terminal \cup {"none"}
           /\ EndOf(s) # "none" => StateOf(s) = EndOf(s)
           /\ StateOf(s) \in Terminal => EndOf(s) # "none"
           /\ NextStatus(s) \subseteq RayStatus
           /\ EndOf(s) # "none" => \A t \in NextStatus(s) : EndOf(t) = EndOf(s)
           /\ s # NoRay
  <1>0. \/ s[1] = "unset" /\ s[2] = "unset"
        \/ s[1] \in {"Initializing", "Waiting"} /\ s[2] = "unset"
        \/ s[1] = "Running" /\ s[2] \in {"unset", "PENDING", "RUNNING", "SUCCEEDED"}
        \/ s[1] = "Failed" /\ s[2] \in {"unset", "PENDING", "RUNNING", "FAILED"}
        \/ s[1] = "Complete" /\ s[2] \in {"STOPPED", "SUCCEEDED"}
    BY DEF RayStatus
  <1>1. StateOf(s) \in RayJobState
    BY DEF StateOf, RayJobState
  <1>2. EndOf(s) \in Terminal \cup {"none"}
    BY DEF EndOf, Terminal
  <1>3. EndOf(s) # "none" => StateOf(s) = EndOf(s)
    BY <1>0 DEF StateOf, EndOf
  <1>4. StateOf(s) \in Terminal => EndOf(s) # "none"
    BY <1>0 DEF StateOf, EndOf, Terminal
  <1>5. NextStatus(s) \subseteq RayStatus
    BY DEF RayStatus, NextStatus
  <1>6. ASSUME EndOf(s) # "none", NEW t \in NextStatus(s)
        PROVE  EndOf(t) = EndOf(s)
    <2>1. s[1] = "Failed" \/ s[2] = "STOPPED" \/ s[2] = "SUCCEEDED"
      BY <1>0, <1>6 DEF EndOf
    <2>2. /\ s # <<"unset", "unset">> /\ s # <<"Initializing", "unset">>
          /\ s # <<"Waiting", "unset">> /\ s # <<"Running", "unset">>
          /\ s # <<"Running", "PENDING">> /\ s # <<"Running", "RUNNING">>
      BY <2>1
    <2>3. s = <<"Running", "SUCCEEDED">> /\ t = <<"Complete", "SUCCEEDED">>
      BY <1>6, <2>2 DEF NextStatus
    <2> QED
      BY <2>3 DEF EndOf
  <1>7. s # NoRay
    BY <1>0 DEF NoRay
  <1> QED
    BY <1>1, <1>2, <1>3, <1>4, <1>5, <1>6, <1>7

\* The RayJob that is created has a status that speaks of no end.
LEMMA FreshStatus == <<"unset", "unset">> \in RayStatus /\ EndOf(<<"unset", "unset">>) = "none"
  BY DEF RayStatus, EndOf

\* A watcher that ended, with whatever is stored then.
LEMMA WatcherEnds ==
    ASSUME RayInv, NoWatcher, watching' \in {"off", "done"},
           UNCHANGED <<cluster, submitting, ends>>,
           cancelling' \in [Requests -> {"idle", "deleting", "deleted", "done"}],
           faults' \in 0 .. MaxFaults,
           submitting # "done" => rayRow' = rayRow /\ cancelling' = cancelling /\ watching' = "off",
           rayRow' \in RayJobState \cup {"none"},
           rayRow' = "SUCCEEDED" => ends = <<"JOB_SUCCEEDED">>,
           rayRow' = "FAILED" => outcome = "FAILED" \/ Disturbed',
           Disturbed => Disturbed'
    PROVE  RayInv'
  BY DEF RayInv, EndsAreTrue, RayTypeOK, EndsAreReal, FailureHasCause, RayIsTyped, Disturbed,
         BeforeSubmitted, MissedIsDisturbed, Polling, Ending, CancelledIsAlone, NoWatcher,
         cluster, watcher

(***************************************************************************)
(* The invariant, step by step                                             *)
(***************************************************************************)

\* The invariant holds before there is a job.
LEMMA StartIsSound == RayInit => RayInv
  BY MaxFaultsAssumption
     DEF RayInit, RayInv, EndsAreTrue, RayTypeOK, EndsAreReal, FailureHasCause, RayIsTyped,
         Disturbed, BeforeSubmitted, MissedIsDisturbed, Polling, Ending, CancelledIsAlone,
         RayJobState, Terminal

\* Submission stores the job before anything else knows of it.
LEMMA SubmissionIsSound ==
    ASSUME RayInv, SubmitRayJob \/ Create \/ Submitted \/ SubmitFails
    PROVE  RayInv'
  <1> USE DEF RayInv, EndsAreTrue, RayTypeOK, EndsAreReal, FailureHasCause, RayIsTyped, Disturbed,
              BeforeSubmitted, MissedIsDisturbed, Polling, Ending, CancelledIsAlone, RayJobState,
              Terminal, cluster, watcher
  <1>1. CASE SubmitRayJob
    BY <1>1 DEF SubmitRayJob
  <1>2. CASE Create
    BY <1>2, FreshStatus, StatusesAgree DEF Create, Created
  <1>3. CASE Submitted
    BY <1>3 DEF Submitted
  <1>4. CASE SubmitFails
    <2>1. faults' \in 0 .. MaxFaults /\ faults' > 0
      BY <1>4, MaxFaultsAssumption DEF SubmitFails
    <2> QED
      BY <1>4, <2>1, FreshStatus, StatusesAgree DEF SubmitFails, Created
  <1> QED
    BY <1>1, <1>2, <1>3, <1>4

\* A status is the end the Ray job came to, or none it came to is missed.
LEMMA FetchingIsSound ==
    ASSUME RayInv, FetchStatus
    PROVE  RayInv'
  <1>1. ray \in RayStatus /\ outcome = EndOf(ray)
    BY DEF RayInv, RayIsTyped, FetchStatus
  <1>2. status' \in RayJobState /\ (status' \in Terminal => outcome = status')
    BY <1>1, StatusesAgree DEF FetchStatus
  <1> QED
    BY <1>2 DEF FetchStatus, RayInv, EndsAreTrue, RayTypeOK, EndsAreReal, FailureHasCause,
         RayIsTyped, Disturbed, BeforeSubmitted, MissedIsDisturbed, Polling, Ending,
         CancelledIsAlone, cluster

\* A look at the pods, whatever it finds of the workers.
LEMMA ListingIsSound ==
    ASSUME RayInv, ListPods
    PROVE  RayInv'
  <1> DEFINE now == OnWorkerEvents(job, LookEvents)
             lost == \E k \in DOMAIN LookEvents : LookEvents[k] = "RAY_WORKER_LOST"
             changed == status # last
  <1>1. now \in {job, "RECOVERING", "RUNNING"}
    <2>1. Len(LookEvents) \in Nat
      BY LookEventsIsSeq
    <2> QED
      BY <2>1, WorkersOnlyRecover
  <1>2. job \in RayJobState \ Terminal /\ now \in RayJobState \ Terminal
    BY <1>1 DEF RayInv, Polling, ListPods, RayJobState, Terminal
  <1>3. rayRow' \in {rayRow, now}
    BY DEF ListPods
  <1>4. seen' \in [Workers -> {"unseen", "up", "Deleting"}]
    BY DEF ListPods, SeenNow
  <1> HIDE DEF now, lost, changed
  <1>5. /\ watching = "pods" /\ last' = status
        /\ UNCHANGED <<ray, outcome, pods, submitting, status, cancelling, faults>>
    BY DEF ListPods, cluster
  <1>6. CASE changed /\ status \in {"SUCCEEDED", "FAILED"}
    <2>1. /\ ends' = Append(ends, IF status = "SUCCEEDED" THEN "JOB_SUCCEEDED" ELSE "JOB_FAILED")
          /\ job' = status
          /\ watching' = "final"
      BY <1>6 DEF ListPods, changed
    <2>2. ends = <<>> /\ outcome = status
      BY <1>5, <1>6 DEF RayInv, Polling, Terminal
    <2>3. ends' = IF status = "SUCCEEDED" THEN <<"JOB_SUCCEEDED">> ELSE <<"JOB_FAILED">>
      BY <2>1, <2>2
    <2> QED
      BY <1>2, <1>3, <1>4, <1>5, <1>6, <2>1, <2>2, <2>3
         DEF RayInv, EndsAreTrue, RayTypeOK, EndsAreReal, FailureHasCause, RayIsTyped, Disturbed,
             BeforeSubmitted, MissedIsDisturbed, Polling, Ending, CancelledIsAlone, RayJobState,
             Terminal
  <1>7. CASE ~(changed /\ status \in {"SUCCEEDED", "FAILED"})
    <2>1. /\ job' = now
          /\ watching' = IF ~changed /\ status \in Terminal THEN "final" ELSE "status"
          /\ ends' = ends
      BY <1>7 DEF ListPods, changed, now
    <2>2. ~changed => status = last
      BY DEF changed
    <2> QED
      BY <1>2, <1>3, <1>4, <1>5, <1>7, <2>1, <2>2
         DEF RayInv, EndsAreTrue, RayTypeOK, EndsAreReal, FailureHasCause, RayIsTyped, Disturbed,
             BeforeSubmitted, MissedIsDisturbed, Polling, Ending, CancelledIsAlone, RayJobState,
             Terminal
  <1> QED
    BY <1>6, <1>7

\* The last look of the watcher stores the end the Ray job came to.
LEMMA LastLookIsSound ==
    ASSUME RayInv, LastStatus
    PROVE  RayInv'
  <1>1. ray \in RayStatus /\ outcome = EndOf(ray) /\ watching = "final" /\ outcome \in Terminal
    BY DEF RayInv, RayIsTyped, LastStatus, Ending
  <1>2. StateOf(ray) = outcome
    BY <1>1, StatusesAgree DEF Terminal
  <1>3. CASE outcome = "SUCCEEDED"
    <2>1. /\ watching' = "ingest" /\ job' = "SUCCEEDED" /\ ends = <<"JOB_SUCCEEDED">>
          /\ UNCHANGED <<ray, outcome, pods, submitting, ends, cancelling, faults, rayRow, status,
                         last, seen>>
      BY <1>1, <1>2, <1>3 DEF LastStatus, RayInv, Ending, cluster, Terminal
    <2> QED
      BY <1>1, <1>3, <2>1
         DEF RayInv, EndsAreTrue, RayTypeOK, EndsAreReal, FailureHasCause, RayIsTyped, Disturbed,
             BeforeSubmitted, MissedIsDisturbed, Polling, Ending, CancelledIsAlone, RayJobState,
             Terminal
  <1>4. CASE outcome # "SUCCEEDED"
    <2>1. /\ watching' = "done" /\ rayRow' = outcome /\ NoWatcher
          /\ UNCHANGED <<cluster, submitting, ends, cancelling, faults>>
      BY <1>1, <1>2, <1>4 DEF LastStatus
    <2>2. rayRow' \in RayJobState /\ submitting = "done"
      BY <1>1, <2>1 DEF RayInv, BeforeSubmitted, RayJobState, Terminal
    <2> QED
      BY <1>1, <1>4, <2>1, <2>2, WatcherEnds DEF RayInv, EndsAreTrue, RayTypeOK, Disturbed
  <1> QED
    BY <1>3, <1>4

\* An artifact that is stored, and whatever is raised in the watcher.
LEMMA EndingIsSound ==
    ASSUME RayInv, Ingest \/ WatcherMissesRay \/ WatcherFails
    PROVE  RayInv'
  <1>1. submitting = "done" /\ cancelling \in [Requests -> {"idle", "deleting", "deleted", "done"}]
    BY DEF RayInv, EndsAreTrue, RayTypeOK, BeforeSubmitted, Ingest, WatcherMissesRay, WatcherFails
  <1>2. CASE Ingest
    <2>1. /\ watching' = "done" /\ rayRow' = "SUCCEEDED" /\ ends = <<"JOB_SUCCEEDED">> /\ NoWatcher
          /\ UNCHANGED <<cluster, submitting, ends, cancelling, faults>>
      BY <1>2 DEF Ingest, RayInv, Ending
    <2> QED
      BY <1>1, <2>1, WatcherEnds DEF RayInv, EndsAreTrue, RayTypeOK, Disturbed, RayJobState
  <1>3. CASE WatcherMissesRay
    <2>1. /\ watching' = "done" /\ rayRow' = "FAILED" /\ NoWatcher /\ Disturbed
          /\ UNCHANGED <<cluster, submitting, ends, cancelling, faults>>
      BY <1>3 DEF WatcherMissesRay, Raised, RayInv, MissedIsDisturbed
    <2> QED
      BY <1>1, <2>1, WatcherEnds DEF RayInv, EndsAreTrue, RayTypeOK, Disturbed, RayJobState
  <1>4. CASE WatcherFails
    <2>1. /\ watching' = "done" /\ rayRow' = "FAILED" /\ NoWatcher
          /\ UNCHANGED <<cluster, submitting, ends, cancelling>>
      BY <1>4 DEF WatcherFails, Raised
    <2>2. faults' \in 0 .. MaxFaults /\ faults' > 0
      BY <1>4, MaxFaultsAssumption DEF WatcherFails, RayInv, EndsAreTrue, RayTypeOK
    <2> QED
      BY <1>1, <2>1, <2>2, WatcherEnds DEF Disturbed, RayJobState
  <1> QED
    BY <1>2, <1>3, <1>4

\* A cancellation, at every point where another task may run.
LEMMA CancellationIsSound ==
    ASSUME RayInv, NEW c \in Requests,
           CancelRayJob(c) \/ Delete(c) \/ Cancelled(c) \/ CancelFails(c) \/ CancelUnanswered(c)
    PROVE  RayInv'
  <1>1. /\ rayRow # "none" => submitting = "done"
        /\ cancelling[c] # "idle" => submitting = "done" /\ Disturbed
    BY DEF RayInv, BeforeSubmitted, Disturbed
  <1>2. /\ cancelling' \in [Requests -> {"idle", "deleting", "deleted", "done"}]
        /\ \A d \in Requests : cancelling[d] # "idle" => cancelling'[d] # "idle"
        /\ cancelling'[c] # "idle"
        /\ submitting = "done"
    BY <1>1 DEF RayInv, EndsAreTrue, RayTypeOK, CancelRayJob, Delete, Cancelled, CancelFails,
                CancelUnanswered
  <1>3. Disturbed'
    BY <1>2 DEF Disturbed
  <1>4. CASE Cancelled(c)
    <2>1. /\ watching' = "off" /\ rayRow' = "CANCELLED" /\ NoWatcher
          /\ UNCHANGED <<cluster, submitting, ends, faults>>
      BY <1>4 DEF Cancelled, StopWatching
    <2> QED
      BY <1>2, <1>3, <2>1, WatcherEnds DEF RayInv, EndsAreTrue, RayTypeOK, RayJobState
  <1>5. CASE CancelRayJob(c) \/ Delete(c) \/ CancelFails(c) \/ CancelUnanswered(c)
    <2>1. /\ UNCHANGED <<outcome, pods, submitting, rayRow, ends, watcher>>
          /\ ray' \in {ray, NoRay}
      BY <1>5 DEF CancelRayJob, Delete, CancelFails, CancelUnanswered, Deleted, cluster
    <2>2. faults' \in 0 .. MaxFaults
      BY <1>5, MaxFaultsAssumption
         DEF CancelRayJob, Delete, CancelFails, CancelUnanswered, RayInv, EndsAreTrue, RayTypeOK
    <2> QED
      BY <1>2, <1>3, <2>1, <2>2
         DEF RayInv, EndsAreTrue, RayTypeOK, EndsAreReal, FailureHasCause, RayIsTyped, Disturbed,
             BeforeSubmitted, MissedIsDisturbed, Polling, Ending, CancelledIsAlone, watcher
  <1> QED
    BY <1>4, <1>5

\* A restart ends the watcher and leaves the cluster alone.
LEMMA RestartIsSound ==
    ASSUME RayInv, Restart
    PROVE  RayInv'
  <1>1. faults' \in 0 .. MaxFaults /\ faults' > 0
    BY MaxFaultsAssumption DEF Restart, RayInv, EndsAreTrue, RayTypeOK
  <1>2. /\ cancelling' \in [Requests -> {"idle", "deleting", "deleted", "done"}]
        /\ \A c \in Requests : cancelling[c] = "idle" => cancelling'[c] = "idle"
    BY DEF Restart, RayInv, EndsAreTrue, RayTypeOK
  <1> QED
    BY <1>1, <1>2
       DEF Restart, NoWatcher, RayInv, EndsAreTrue, RayTypeOK, EndsAreReal, FailureHasCause,
           RayIsTyped, Disturbed, BeforeSubmitted, MissedIsDisturbed, Polling, Ending,
           CancelledIsAlone, cluster

\* KubeRay moves the Ray job on, drops it when nobody looks, or moves its pods.
LEMMA ClusterIsSound ==
    ASSUME RayInv, Progress \/ Expire \/ WorkerChanges
    PROVE  RayInv'
  <1> USE DEF RayInv, EndsAreTrue, RayTypeOK, EndsAreReal, FailureHasCause, RayIsTyped, Disturbed,
              BeforeSubmitted, MissedIsDisturbed, Polling, Ending, CancelledIsAlone, watcher
  <1>1. CASE Progress
    <2>1. ray \in RayStatus /\ outcome = EndOf(ray) /\ ray' \in NextStatus(ray)
             /\ outcome' = EndOf(ray')
      BY <1>1 DEF Progress
    <2>2. /\ ray' \in RayStatus /\ ray' # NoRay
          /\ outcome' \in Terminal \cup {"none"}
          /\ outcome # "none" => outcome' = outcome
      BY <2>1, StatusesAgree
    <2>3. outcome \in Terminal => outcome' = outcome
      BY <2>2 DEF Terminal
    <2>4. UNCHANGED <<pods, submitting, rayRow, ends, watcher, cancelling, faults>>
      BY <1>1 DEF Progress
    <2>5. submitting \notin {"idle", "creating"}
      BY <1>1 DEF Progress
    <2> QED
      BY <2>1, <2>2, <2>3, <2>4, <2>5 DEF Terminal
  <1>2. CASE Expire
    BY <1>2 DEF Expire
  <1>3. CASE WorkerChanges
    <2>1. pods' \in [Workers -> {"none", "up", "deleting", "gone"}]
      BY <1>3 DEF WorkerChanges
    <2> QED
      BY <1>3, <2>1 DEF WorkerChanges
  <1> QED
    BY <1>1, <1>2, <1>3

\* Every step preserves the invariant.
LEMMA StepIsSound == RayInv /\ [RayNext]_rayVars => RayInv'
  <1> SUFFICES ASSUME RayInv, [RayNext]_rayVars
               PROVE  RayInv'
    OBVIOUS
  <1>1. CASE UNCHANGED rayVars
    BY <1>1 DEF RayInv, EndsAreTrue, RayTypeOK, EndsAreReal, FailureHasCause, RayIsTyped, Disturbed,
         BeforeSubmitted, MissedIsDisturbed, Polling, Ending, CancelledIsAlone, rayVars, cluster,
         watcher
  <1>2. CASE RayNext
    BY <1>2, SubmissionIsSound, FetchingIsSound, ListingIsSound, LastLookIsSound, EndingIsSound,
       CancellationIsSound, RestartIsSound, ClusterIsSound DEF RayNext, Watch
  <1> QED
    BY <1>1, <1>2

-----------------------------------------------------------------------------
(***************************************************************************)
(* Theorems about jobs on the Kubernetes path                              *)
(***************************************************************************)

\* The ends shown of a job, what its watcher holds of them and the Ray job it
\* watches belong together, whatever overlaps at the awaited calls of watch_job
\* and cancel_job, fails, or is restarted.
THEOREM RayInvariant == RaySpec => []RayInv
  <1>1. RayInit => RayInv
    BY StartIsSound
  <1>2. RayInv /\ [RayNext]_rayVars => RayInv'
    BY StepIsSound
  <1> QED
    BY <1>1, <1>2, PTL DEF RaySpec

\* A job is shown to have succeeded only when its Ray job did and the ledger
\* says so, to have failed only with a cause, and its end is reported once:
\* for any number of workers, cancellations, failed calls and restarts.
THEOREM RayEndsAreTrue == RaySpec => []EndsAreTrue
  <1>1. RayInv => EndsAreTrue
    BY DEF RayInv
  <1> QED
    BY <1>1, RayInvariant, PTL

\* No step of the watcher, nor of another request, writes over the end that
\* cancel_job stored.
THEOREM CancellationSticks == RaySpec => CancelSticks
  <1>1. RayInv /\ [RayNext]_rayVars => [rayRow = "CANCELLED" => rayRow' = "CANCELLED"]_rayVars
    <2> SUFFICES ASSUME RayInv, RayNext, rayRow = "CANCELLED"
                 PROVE  rayRow' = "CANCELLED"
      BY DEF rayVars
    <2>1. submitting = "done" /\ watching \in {"off", "done"}
      BY DEF RayInv, EndsAreTrue, RayTypeOK, BeforeSubmitted, CancelledIsAlone
    <2> QED
      BY <2>1
         DEF RayNext, Watch, SubmitRayJob, Create, Submitted, SubmitFails, FetchStatus, ListPods,
             LastStatus, Ingest, WatcherMissesRay, WatcherFails, CancelRayJob, Delete, Cancelled,
             CancelFails, CancelUnanswered, Restart, Progress, Expire, WorkerChanges
  <1> QED
    BY <1>1, RayInvariant, PTL DEF RaySpec, CancelSticks
=============================================================================
