---------------------------- MODULE LocalRunProofs ----------------------------
(***************************************************************************)
(* Proofs about LocalRun, for any steps, interval, restarts, submissions   *)
(* and workloads.                                                          *)
(*                                                                         *)
(* What is restored.  A manifest names parts of one launch (DiskInv), so   *)
(* what a rank finds verified has a model and an optimizer of one launch.  *)
(* It loads them later, and rank 0, which may be ahead of rank 1, may      *)
(* already write the same checkpoint again; but it cannot train before     *)
(* rank 1 is there, so until then it only writes what it loaded itself     *)
(* (SharedInv), and rank 1 loads that or finds a torn file.  Launches are  *)
(* only added, so what was one of a trial stays one (OfKept).              *)
(*                                                                         *)
(* Why a run fails.  In one submission a trial has one launch a restart    *)
(* (DriverInv), and a death that is no error of the script is classified   *)
(* as a worker crash, which the driver tries again (TransientIsRetried);   *)
(* so a trial that fails has a real error or no restarts left.             *)
(*                                                                         *)
(* What is given up.  Rank 0 has completed every checkpoint before the one *)
(* it writes (ProgressInv), so it only writes again what was valid before  *)
(* when that is the one at the end of the loop; there is then the mark     *)
(* before the end to go back to, an interval away at most (TreeInv).       *)
(***************************************************************************)
EXTENDS LocalRun, FiniteSetTheorems, WellFoundedInduction, TLAPS

\* The places of rank 0 in a save, and where each leads.
Saving == {"model", "model ends", "optimizer", "optimizer ends", "manifest", "manifest ends"}
After == [w \in Saving |-> CASE w = "model" -> "model ends"
                            [] w = "model ends" -> "optimizer"
                            [] w = "optimizer" -> "optimizer ends"
                            [] w = "optimizer ends" -> "manifest"
                            [] w = "manifest" -> "manifest ends"
                            [] w = "manifest ends" -> "barrier"]

\* Where a rank may be, and what may lie on disk.
Places == {"none", "pick", "load", "loop", "exchange", "barrier", "metrics",
           "metrics ends", "end"} \cup Saving

Files == [model     : Content,
          optimizer : Nat \cup {None, Torn},
          manifest  : ((Nat \cup {Damaged}) \X Nat) \cup {None, Torn}]
Started == [submit : Nat, trial : {1, 2}]
Result == [trial : {1, 2}, launch : Nat]

\* v is a launch of the trial t.
Of(v, t) == v \in 1 .. Launch /\ launches[v].trial = t

\* The types, and what an idle, a launching and a waiting driver have.
ShapeInv ==
    /\ workload \in Workloads
    /\ submits \in 0 .. MaxSubmits
    /\ state \in {"PENDING", "RUNNING", "SUCCEEDED", "FAILED"}
    /\ driver \in {"idle", "launch", "wait", "raised"}
    /\ trial \in Trials /\ restart \in 0 .. MaxRestarts
    /\ states \subseteq {"SUCCEEDED", "FAILED"}
    /\ launches \in Seq(Started)
    /\ exit \in {"none", "running", "ok", "failed"}
    /\ log \subseteq {"named", "traceback", "wrapper"}
    /\ at \in [Ranks -> Places]
    /\ step \in [Ranks -> 0 .. Steps]
    /\ looped \in [Ranks -> BOOLEAN]
    /\ weights \in [Ranks -> Nat \X Nat]
    /\ disk \in [Jobs -> [1 .. Steps -> Files]]
    /\ cwd \in Nat /\ out \in [Jobs \X (0 .. MaxRestarts) -> Nat] /\ metrics \in Nat
    /\ trials \in Seq(Result)
    /\ damaged \in BOOLEAN
    /\ reached \in [Jobs -> 0 .. Steps]
    /\ faults \in 0 .. MaxFaults
    /\ driver = "wait" => exit # "none" /\ Launch > 0 /\ launches[Launch].trial = trial
    /\ exit # "none" => driver = "wait"
    /\ driver = "idle" => metrics = 0

\* Results are those of launches of their own trial.
ResultsInv ==
    /\ cwd \in 0 .. Launch
    /\ \A a \in Jobs \X (0 .. MaxRestarts) : out[a] # 0 => Of(out[a], a[1])
    /\ metrics # 0 => Of(metrics, trial)
    /\ \A k \in DOMAIN trials : Of(trials[k].launch, trials[k].trial)

\* What can be read of a checkpoint was written by a launch of its trial, and a
\* manifest names one launch, or a part that was damaged before it was hashed.
DiskInv ==
    \A j \in Jobs, s \in 1 .. Steps :
        LET d == disk[j][s]
        IN  /\ d.model \notin Unreadable => Of(d.model, j)
            /\ d.manifest \notin Unreadable => d.manifest[1] \in {d.manifest[2], Damaged}
            /\ ~damaged => d.model # Damaged

\* What a rank would load now.
LoadsWhole(d) == {d.model, d.optimizer} \cap Unreadable = {} => d.model = d.optimizer

\* A rank of a running launch: its weights are of its trial, and what it found
\* worth loading can be read, unless somebody overwrites or damages it.
RankInv(r) ==
    /\ weights[r][1] # 0 => Of(weights[r][1], trial)
    /\ at[r] # "none"
    /\ at[r] \notin {"pick", "load"} /\ step[r] # 0 => weights[r][1] # 0
    /\ at[r] = "load" =>
         /\ step[r] # 0
         /\ LoadsWhole(disk[Job][step[r]])
         /\ ~damaged /\ workload.ranks = 1 =>
              {disk[Job][step[r]].model, disk[Job][step[r]].optimizer} \cap Unreadable = {}
    /\ at[r] = "exchange" => step[r] < Steps
    /\ at[r] \in Saving => r = 0 /\ step[r] # 0

\* While the other rank has still to load, rank 0 only writes what it loaded itself.
SharedInv ==
    1 \in Ranks /\ at[1] \in {"pick", "load"} /\ at[0] \notin {"pick", "load"} /\ step[0] # 0 =>
        /\ disk[Job][step[0]].model \in {weights[0][1]} \cup Unreadable
        /\ disk[Job][step[0]].optimizer \in {weights[0][2]} \cup Unreadable

\* The parts of the checkpoint that rank 0 writes, once it has written them.
SaveInv ==
    LET d == disk[Job][step[0]]
    IN  Running =>
          /\ at[0] \in {"optimizer", "optimizer ends", "manifest", "manifest ends"} =>
                d.model \in {weights[0][1], Damaged}
          /\ at[0] \in {"manifest", "manifest ends"} => d.optimizer = weights[0][2]

\* The weights of every rank are whole, also when the launch is over.
ProcessInv ==
    /\ \A r \in Ranks : weights[r][1] = weights[r][2]
    /\ Running => SharedInv /\ \A r \in Ranks : RankInv(r)

\* The launches of a trial in the present submission.
Tries(t) == {l \in DOMAIN launches : launches[l] = [submit |-> submits, trial |-> t]}

\* Why a run may fail.
Excused ==
    \/ workload.bug # 0 \/ damaged
    \/ \E t \in Trials : Cardinality(Tries(t)) = MaxRestarts + 1

\* A trial has one launch a restart, and fails for a reason.
DriverInv ==
    /\ \A l \in DOMAIN launches :
          /\ launches[l].submit <= submits
          /\ driver # "idle" /\ launches[l].submit = submits => launches[l].trial <= trial
    /\ driver = "launch" => Cardinality(Tries(trial)) = restart
    /\ driver = "wait" => Cardinality(Tries(trial)) = restart + 1
    /\ state = "FAILED" => driver = "idle"
    /\ "FAILED" \in states \/ state = "FAILED" => Excused
    /\ exit = "failed" => workload.bug # 0 \/ damaged \/ ~Deterministic(log)

LocalInv == ShapeInv /\ ResultsInv /\ DiskInv /\ SaveInv /\ ProcessInv /\ DriverInv

-----------------------------------------------------------------------------
\* The bounds are numbers.
LEMMA Numbers ==
    /\ Steps \in Nat /\ Steps > 0 /\ Every \in Nat /\ Every > 0
    /\ MaxRestarts \in Nat /\ MaxSubmits \in Nat /\ MaxFaults \in Nat
  BY StepsAssumption, BoundsAssumption

\* A step that was taken is one of the loop's.
LEMMA Taken ==
    ASSUME NEW n \in 0 .. Steps, n # 0
    PROVE  n \in 1 .. Steps
  BY Numbers

\* What the workload says of ranks, trials and their trees.
LEMMA WorkloadFields ==
    ASSUME ShapeInv
    PROVE  /\ workload.fanout \in BOOLEAN /\ workload.ranks \in {1, 2}
           /\ workload.bug \in Nat
           /\ 0 \in Ranks /\ Ranks \subseteq {0, 1} /\ Trials \subseteq {1, 2} /\ 1 \in Trials
           /\ Job \in Jobs /\ Job = trial /\ Kind \in Mode
           /\ workload.ranks = 1 => Ranks = {0}
           /\ workload.ranks = 2 => Ranks = {0, 1}
  <1>1. workload \in [fanout : BOOLEAN, ranks : {1, 2}, bug : 0 .. Steps]
    BY WorkloadsAssumption DEF ShapeInv
  <1>2. workload.fanout \in BOOLEAN /\ workload.ranks \in {1, 2} /\ workload.bug \in Nat
    BY <1>1, Numbers
  <1>3. /\ 0 \in Ranks /\ Ranks \subseteq {0, 1}
        /\ workload.ranks = 1 => Ranks = {0}
        /\ workload.ranks = 2 => Ranks = {0, 1}
    BY <1>2 DEF Ranks
  <1>4. Trials \subseteq {1, 2} /\ 1 \in Trials /\ trial \in Trials
    BY DEF Trials, ShapeInv
  <1> QED BY <1>2, <1>3, <1>4 DEF Job, JobOf, Jobs, Kind, Mode

\* The steps with a valid checkpoint, and the one that is chosen.
LEMMA LatestIsValid ==
    ASSUME NEW files
    PROVE  /\ LatestValid(files) \in 0 .. Steps
           /\ LatestValid(files) # 0 => Verified(files[LatestValid(files)])
           /\ \A s \in 1 .. Steps : Verified(files[s]) => s <= LatestValid(files)
  <1> DEFINE valid == ValidSteps(files)
  <1>1. valid \subseteq 1 .. Steps
    BY DEF ValidSteps
  <1>2. CASE valid = {}
    BY <1>2, Numbers DEF LatestValid, ValidSteps
  <1>3. CASE valid # {}
    <2> DEFINE left == {Steps - s : s \in valid}
    <2>1. \A s \in valid : s \in Nat /\ Steps - s \in Nat
      BY <1>1, Numbers
    <2>2. left \subseteq Nat /\ left # {}
      BY <1>3, <2>1
    <2>3. PICK a \in left : \A b \in left : <<b, a>> \notin OpToRel(<, Nat)
      <3> HIDE DEF left
      <3> QED BY <2>2, NatLessThanWellFounded, WFMin
    <2>4. \A b \in left : ~(b < a)
      BY <2>2, <2>3 DEF OpToRel
    <2>5. PICK m \in valid : a = Steps - m
      BY <2>3
    <2>6. \A s \in valid : ~(Steps - s < Steps - m)
      BY <2>4, <2>5
    <2>7. \A s \in valid : m >= s
      BY <2>1, <2>6, Numbers
    <2>8. Max(valid) \in valid /\ \A s \in valid : Max(valid) >= s
      <3> HIDE DEF valid
      <3> QED BY <2>7 DEF Max
    <2>9. LatestValid(files) = Max(valid)
      BY <1>3 DEF LatestValid
    <2>10. \A s \in 1 .. Steps : Verified(files[s]) => s \in valid
      BY DEF ValidSteps
    <2>11. Verified(files[Max(valid)])
      BY <2>8 DEF ValidSteps
    <2>12. Max(valid) \in 0 .. Steps /\ \A s \in valid : s <= Max(valid)
      <3> DEFINE top == Max(valid)
      <3>1. top \in valid /\ \A s \in valid : top >= s
        BY <2>8
      <3> HIDE DEF top, valid
      <3>2. top \in 0 .. Steps /\ \A s \in valid : s <= top
        BY <1>1, <3>1, Numbers
      <3> QED BY <3>2 DEF top
    <2> HIDE DEF valid
    <2> QED BY <2>9, <2>10, <2>11, <2>12
  <1> QED BY <1>2, <1>3

-----------------------------------------------------------------------------
\* Nothing was submitted, no checkpoint is there.
LEMMA InitShape == Init => ShapeInv
  <1> SUFFICES ASSUME Init PROVE ShapeInv
    OBVIOUS
  <1>1. NoFiles \in Files
    BY DEF NoFiles, Files, Content, Unreadable
  <1>2. /\ disk \in [Jobs -> [1 .. Steps -> Files]] /\ reached \in [Jobs -> 0 .. Steps]
        /\ out \in [Jobs \X (0 .. MaxRestarts) -> Nat]
    BY <1>1, Numbers DEF Init
  <1>3. /\ at \in [Ranks -> Places] /\ step \in [Ranks -> 0 .. Steps]
        /\ looped \in [Ranks -> BOOLEAN] /\ weights \in [Ranks -> Nat \X Nat]
    BY Numbers DEF Init, Places
  <1>4. 1 \in Trials /\ trial = 1
    BY DEF Trials, Init
  <1>5. launches \in Seq(Started) /\ trials \in Seq(Result)
    BY DEF Init
  <1>6. /\ workload \in Workloads /\ submits \in 0 .. MaxSubmits /\ state = "PENDING"
        /\ driver = "idle" /\ restart \in 0 .. MaxRestarts /\ states = {} /\ exit = "none"
        /\ log = {} /\ cwd \in Nat /\ metrics = 0 /\ damaged \in BOOLEAN
        /\ faults \in 0 .. MaxFaults
    <2>1. /\ workload \in Workloads /\ submits = 0 /\ state = "PENDING"
          /\ driver = "idle" /\ restart = 0 /\ states = {} /\ exit = "none"
          /\ log = {} /\ cwd = 0 /\ metrics = 0 /\ damaged = FALSE /\ faults = 0
      BY Zenon DEF Init
    <2>2. damaged \in BOOLEAN /\ workload \in Workloads
      BY <2>1, Zenon
    <2>3. 0 \in 0 .. MaxSubmits /\ 0 \in 0 .. MaxRestarts /\ 0 \in 0 .. MaxFaults /\ 0 \in Nat
      BY Numbers
    <2> QED BY <2>1, <2>2, <2>3, Zenon
  <1> QED BY <1>2, <1>3, <1>4, <1>5, <1>6 DEF ShapeInv

\* A step that leaves what the driver knows.
LEMMA ProcessShape ==
    ASSUME ShapeInv, UNCHANGED <<control, out, metrics, trials>>,
           exit' \in {"running", "ok", "failed"}, exit # "none",
           log' \subseteq {"named", "traceback", "wrapper"},
           at' \in [Ranks -> Places], step' \in [Ranks -> 0 .. Steps],
           looped' \in [Ranks -> BOOLEAN], weights' \in [Ranks -> Nat \X Nat],
           cwd' \in Nat, disk' \in [Jobs -> [1 .. Steps -> Files]],
           reached' \in [Jobs -> 0 .. Steps], damaged' \in BOOLEAN, faults' \in 0 .. MaxFaults
    PROVE  ShapeInv'
  <1>1. /\ workload' = workload /\ submits' = submits /\ state' = state /\ driver' = driver
        /\ trial' = trial /\ restart' = restart /\ states' = states /\ launches' = launches
        /\ out' = out /\ metrics' = metrics /\ trials' = trials
    BY DEF control
  <1>2. Ranks' = Ranks /\ Trials' = Trials /\ Launch' = Launch
    BY <1>1 DEF Ranks, Trials, Launch
  <1> QED BY <1>1, <1>2 DEF ShapeInv

\* The driver's steps keep the types.
LEMMA DriverShape ==
    ASSUME ShapeInv, Submit \/ Start \/ LaunchRaises \/ Settle
    PROVE  ShapeInv'
  <1>0. /\ workload' = workload /\ Ranks' = Ranks /\ Trials' = Trials
        /\ UNCHANGED <<cwd, disk, reached, damaged>>
    BY DEF Submit, Start, LaunchRaises, Settle, Ranks, Trials, control, process, results, tree
  <1>1. CASE Submit
    <2>1. submits + 1 \in 0 .. MaxSubmits /\ 1 \in Trials /\ 0 \in 0 .. MaxRestarts
      BY <1>1, Numbers DEF Submit, ShapeInv, Trials
    <2>2. exit = "none" /\ metrics = 0
      BY <1>1 DEF Submit, ShapeInv
    <2>3. <<>> \in Seq(Result)
      OBVIOUS
    <2> QED BY <1>0, <1>1, <2>1, <2>2, <2>3 DEF Submit, ShapeInv, process, tree
  <1>2. CASE Start
    <2>1. trial \in {1, 2} /\ submits \in Nat
      BY WorkloadFields, Numbers DEF ShapeInv
    <2> DEFINE new == [submit |-> submits, trial |-> trial]
    <2>2. new \in Started /\ launches \in Seq(Started) /\ launches' = Append(launches, new)
      BY <1>2, <2>1 DEF Start, Started, ShapeInv
    <2> HIDE DEF new
    <2>3. /\ launches' \in Seq(Started) /\ Len(launches') = Len(launches) + 1
          /\ launches'[Len(launches')] = new
      BY <2>2
    <2>4. Launch' > 0 /\ launches'[Launch'].trial = trial
      BY <2>2, <2>3 DEF Launch, new
    <2>5. /\ at' \in [Ranks -> Places] /\ step' \in [Ranks -> 0 .. Steps]
          /\ looped' \in [Ranks -> BOOLEAN] /\ weights' \in [Ranks -> Nat \X Nat]
      BY <1>2, Numbers DEF Start, Places
    <2> QED BY <1>0, <1>2, <2>3, <2>4, <2>5 DEF Start, ShapeInv, results, tree
  <1>3. CASE LaunchRaises
    <2>1. faults + 1 \in 0 .. MaxFaults
      BY <1>3, Numbers DEF LaunchRaises, ShapeInv
    <2> QED BY <1>0, <1>3, <2>1 DEF LaunchRaises, ShapeInv, process, results, tree, Launch
  <1>4. CASE Settle
    <2> DEFINE found == IF Collected # 0 THEN Collected ELSE metrics
               again == exit # "ok" /\ Retried /\ restart < MaxRestarts
               all == states \cup {IF exit = "ok" THEN "SUCCEEDED" ELSE "FAILED"}
    <2>1. /\ driver = "wait" /\ exit' = "none" /\ out' = [out EXCEPT ![Attempt] = Collected]
          /\ UNCHANGED <<workload, submits, launches, log, at, step, looped, weights, cwd, tree,
                         faults>>
          /\ \/ /\ again
                /\ driver' = "launch" /\ restart' = restart + 1 /\ metrics' = found
                /\ UNCHANGED <<state, trial, states, trials>>
             \/ /\ trials' = IF found = 0 THEN trials
                             ELSE Append(trials, [trial |-> trial, launch |-> found])
                /\ metrics' = 0 /\ states' = all
                /\ \/ /\ trial + 1 \in Trials
                      /\ driver' = "launch" /\ trial' = trial + 1 /\ restart' = 0
                      /\ UNCHANGED state
                   \/ /\ driver' = "idle" /\ state' = EndOf(all)
                      /\ UNCHANGED <<trial, restart>>
      BY <1>4 DEF Settle
    <2>2. Attempt \in Jobs \X (0 .. MaxRestarts) /\ trial \in {1, 2}
      BY WorkloadFields DEF Attempt, ShapeInv, Jobs
    <2>3. Collected \in Nat /\ found \in Nat
      BY <2>2 DEF Collected, ShapeInv
    <2>4. out' \in [Jobs \X (0 .. MaxRestarts) -> Nat] /\ metrics' \in Nat
      BY <2>1, <2>2, <2>3 DEF ShapeInv
    <2>5. all \subseteq {"SUCCEEDED", "FAILED"} /\ EndOf(all) \in {"SUCCEEDED", "FAILED"}
      BY DEF ShapeInv, EndOf
    <2> HIDE DEF found, all
    <2>6. trials' \in Seq(Result)
      <3>1. [trial |-> trial, launch |-> found] \in Result
        BY <2>2, <2>3 DEF Result
      <3>2. trials \in Seq(Result)
        BY DEF ShapeInv
      <3> DEFINE new == [trial |-> trial, launch |-> found]
      <3>3. trials' = trials \/ trials' = Append(trials, new)
        BY <2>1
      <3>4. new \in Result
        BY <3>1
      <3> HIDE DEF new
      <3> QED BY <3>2, <3>3, <3>4
    <2>7. restart' \in 0 .. MaxRestarts
      BY <2>1, Numbers DEF ShapeInv
    <2>8. trial' \in Trials' /\ states' \subseteq {"SUCCEEDED", "FAILED"}
          /\ state' \in {"PENDING", "RUNNING", "SUCCEEDED", "FAILED"}
          /\ driver' \in {"idle", "launch"} /\ (driver' = "idle" => metrics' = 0)
      BY <1>0, <2>1, <2>5 DEF ShapeInv
    <2> QED BY <1>0, <2>1, <2>4, <2>6, <2>7, <2>8 DEF ShapeInv, tree
  <1> QED BY <1>1, <1>2, <1>3, <1>4

\* The greater of two numbers is one of them.
LEMMA MaxOfTwo ==
    ASSUME NEW a \in Nat, NEW b \in Nat
    PROVE  Max({a, b}) \in {a, b} /\ a <= Max({a, b}) /\ b <= Max({a, b})
  <1>1. \E x \in {a, b} : \A y \in {a, b} : x >= y
    OBVIOUS
  <1> QED BY <1>1 DEF Max

\* One step of a save.
LEMMA SaveIsOneStep ==
    ASSUME Save
    PROVE  \E what \in Saving, next \in Saving \cup {"barrier"} :
              /\ at[0] = what /\ at' = [at EXCEPT ![0] = next] /\ next = After[what]
              /\ disk' = [disk EXCEPT ![Job][step[0]] = Saved(@, what)]
              /\ reached' = IF what = "manifest ends"
                            THEN [reached EXCEPT ![Job] = Max({@, step[0]})] ELSE reached
  <1>1. PICK k \in 1 .. Len(SaveOrder) - 1 :
            /\ at[0] = SaveOrder[k]
            /\ Move(0, SaveOrder[k + 1])
            /\ disk' = [disk EXCEPT ![Job][step[0]] = Saved(@, SaveOrder[k])]
            /\ reached' = IF SaveOrder[k] = "manifest ends"
                          THEN [reached EXCEPT ![Job] = Max({@, step[0]})] ELSE reached
    BY DEF Save
  <1>2. k \in {1, 2, 3, 4, 5, 6}
    BY DEF SaveOrder
  <1>3. /\ SaveOrder[1] = "model" /\ SaveOrder[2] = "model ends"
        /\ SaveOrder[3] = "optimizer" /\ SaveOrder[4] = "optimizer ends"
        /\ SaveOrder[5] = "manifest" /\ SaveOrder[6] = "manifest ends"
        /\ SaveOrder[7] = "barrier"
    BY DEF SaveOrder
  <1>4. /\ SaveOrder[k] \in Saving /\ SaveOrder[k + 1] \in Saving \cup {"barrier"}
        /\ SaveOrder[k + 1] = After[SaveOrder[k]]
    <2>1. CASE k = 1
      <3>1. SaveOrder[k] = SaveOrder[1] /\ SaveOrder[k + 1] = SaveOrder[2]
        BY <2>1
      <3> QED BY <1>3, <3>1 DEF Saving, After
    <2>2. CASE k = 2
      <3>1. SaveOrder[k] = SaveOrder[2] /\ SaveOrder[k + 1] = SaveOrder[3]
        BY <2>2
      <3> QED BY <1>3, <3>1 DEF Saving, After
    <2>3. CASE k = 3
      <3>1. SaveOrder[k] = SaveOrder[3] /\ SaveOrder[k + 1] = SaveOrder[4]
        BY <2>3
      <3> QED BY <1>3, <3>1 DEF Saving, After
    <2>4. CASE k = 4
      <3>1. SaveOrder[k] = SaveOrder[4] /\ SaveOrder[k + 1] = SaveOrder[5]
        BY <2>4
      <3> QED BY <1>3, <3>1 DEF Saving, After
    <2>5. CASE k = 5
      <3>1. SaveOrder[k] = SaveOrder[5] /\ SaveOrder[k + 1] = SaveOrder[6]
        BY <2>5
      <3> QED BY <1>3, <3>1 DEF Saving, After
    <2>6. CASE k = 6
      <3>1. SaveOrder[k] = SaveOrder[6] /\ SaveOrder[k + 1] = SaveOrder[7]
        BY <2>6
      <3> QED BY <1>3, <3>1 DEF Saving, After
    <2> QED BY <1>2, <2>1, <2>2, <2>3, <2>4, <2>5, <2>6
  <1> QED BY <1>1, <1>4 DEF Move

\* A pair is that of its parts.
LEMMA PairParts ==
    ASSUME NEW w \in Nat \X Nat
    PROVE  w = <<w[1], w[2]>> /\ w[1] \in Nat /\ w[2] \in Nat
  OBVIOUS

\* What a manifest may be written as.
Hashes == {weights[0], <<Damaged, weights[0][2]>>}

\* Each file of a save is as before, torn, or what rank 0 holds; the manifest has
\* the hashes of that, or of a damaged part.
LEMMA SavedIsFiles ==
    ASSUME NEW d \in Files, ShapeInv, NEW what \in Saving,
           what = "manifest ends" =>
               d.model \in {weights[0][1], Damaged} /\ d.optimizer = weights[0][2]
    PROVE  /\ Saved(d, what) \in Files
           /\ Saved(d, what).model \in {d.model, Torn, weights[0][1]}
           /\ Saved(d, what).optimizer \in {d.optimizer, Torn, weights[0][2]}
           /\ Saved(d, what).manifest \in {d.manifest, Torn} \cup Hashes
  <1>1. weights[0] \in Nat \X Nat /\ weights[0][1] \in Nat /\ weights[0][2] \in Nat
    BY WorkloadFields DEF ShapeInv
  <1>2. CASE what = "model"
    BY <1>2 DEF Saved, Files, Content, Unreadable
  <1>3. CASE what = "model ends"
    BY <1>1, <1>3 DEF Saved, Files, Content
  <1>4. CASE what = "optimizer"
    BY <1>4 DEF Saved, Files
  <1>5. CASE what = "optimizer ends"
    BY <1>1, <1>5 DEF Saved, Files
  <1>6. CASE what = "manifest"
    BY <1>6 DEF Saved, Files
  <1>7. CASE what = "manifest ends"
    <2> DEFINE m == <<d.model, d.optimizer>>
    <2>1. m \in Hashes
      <3>1. weights[0] = <<weights[0][1], weights[0][2]>>
        BY <1>1, PairParts
      <3> QED BY <1>7, <3>1 DEF Hashes
    <2>2. m \in (Nat \cup {Damaged}) \X Nat
      BY <1>1, <1>7
    <2>3. Saved(d, what) = [d EXCEPT !.manifest = m]
      BY <1>7 DEF Saved
    <2> HIDE DEF m
    <2> QED BY <2>1, <2>2, <2>3 DEF Files
  <1> QED BY <1>2, <1>3, <1>4, <1>5, <1>6, <1>7 DEF Saving

\* What lies on disk of one checkpoint.
LEMMA FilesOf ==
    ASSUME ShapeInv, NEW j \in Jobs, NEW s \in 1 .. Steps
    PROVE  disk[j][s] \in Files
  BY DEF ShapeInv

\* A process that runs is waited for, by a driver that just launched it.
LEMMA RunningIsWaited ==
    ASSUME ShapeInv, Running
    PROVE  /\ driver = "wait" /\ exit = "running" /\ Launch \in Nat /\ Of(Launch, trial)
           /\ \A r \in Ranks : at[r] \in Places
  <1>1. launches \in Seq(Started) /\ Launch = Len(launches)
    BY DEF ShapeInv, Launch
  <1> QED BY <1>1 DEF ShapeInv, Running, Of

\* A launch that fails leaves everything but its exit and its log.
LEMMA FailsShape ==
    ASSUME ShapeInv, UNCHANGED <<control, out, metrics, trials>>, exit # "none",
           NEW markers \in SUBSET {"named", "traceback", "wrapper"}, Fails(markers),
           UNCHANGED <<at, step, looped, weights, cwd, disk, reached, damaged>>,
           faults' \in 0 .. MaxFaults
    PROVE  ShapeInv'
  <1>1. exit' = "failed" /\ log' \subseteq {"named", "traceback", "wrapper"}
    BY DEF Fails
  <1> QED BY <1>1, ProcessShape DEF ShapeInv

\* The steps of the processes, and what befalls them, keep the types.
LEMMA ProcessShapeStep ==
    ASSUME ShapeInv, SaveInv, ProcessInv, Process \/ Kill \/ Damage
    PROVE  ShapeInv'
  <1>0. /\ at \in [Ranks -> Places] /\ step \in [Ranks -> 0 .. Steps]
        /\ looped \in [Ranks -> BOOLEAN] /\ weights \in [Ranks -> Nat \X Nat]
        /\ disk \in [Jobs -> [1 .. Steps -> Files]] /\ reached \in [Jobs -> 0 .. Steps]
        /\ cwd \in Nat /\ damaged \in BOOLEAN /\ faults \in 0 .. MaxFaults
        /\ log \subseteq {"named", "traceback", "wrapper"}
    BY DEF ShapeInv
  <1>a. Running => exit = "running" /\ exit # "none"
    BY DEF Running
  <1>1. ASSUME NEW r \in Ranks, Pick(r) PROVE ShapeInv'
    <2> DEFINE chosen == LatestValid(disk[Job])
               to == IF chosen = 0 THEN "loop" ELSE "load"
    <2>1. chosen \in 0 .. Steps /\ to \in Places
      BY LatestIsValid DEF Places
    <2>2. /\ step' = [step EXCEPT ![r] = chosen] /\ at' = [at EXCEPT ![r] = to] /\ Running
          /\ UNCHANGED <<control, exit, log, looped, weights, results, tree, faults>>
      BY <1>1 DEF Pick, Move
    <2> HIDE DEF chosen, to
    <2>3. at' \in [Ranks -> Places] /\ step' \in [Ranks -> 0 .. Steps]
      BY <1>0, <2>1, <2>2
    <2> QED BY <1>0, <1>a, <2>2, <2>3, ProcessShape DEF results, tree
  <1>2. ASSUME NEW r \in Ranks, Load(r) PROVE ShapeInv'
    <2> DEFINE d == disk[Job][step[r]]
    <2>1. Running /\ at[r] = "load"
          /\ UNCHANGED <<control, step, looped, results, tree, faults>>
      BY <1>2 DEF Load
    <2>2. step[r] \in 1 .. Steps /\ Job \in Jobs
      BY <1>0, <2>1, WorkloadFields DEF ProcessInv, RankInv
    <2>3. d \in Files
      BY <2>2, FilesOf
    <2>4. CASE {d.model, d.optimizer} \cap Unreadable = {}
      <3>1. /\ weights' = [weights EXCEPT ![r] = <<d.model, d.optimizer>>]
            /\ at' = [at EXCEPT ![r] = "loop"] /\ UNCHANGED <<exit, log>>
        BY <1>2, <2>4 DEF Load, Move
      <3>2. <<d.model, d.optimizer>> \in Nat \X Nat
        BY <2>3, <2>4 DEF Files, Content, Unreadable
      <3> HIDE DEF d
      <3>3. weights' \in [Ranks -> Nat \X Nat] /\ at' \in [Ranks -> Places]
        BY <1>0, <3>1, <3>2 DEF Places
      <3> QED BY <1>0, <1>a, <2>1, <3>1, <3>3, ProcessShape DEF results, tree
    <2>5. CASE {d.model, d.optimizer} \cap Unreadable # {}
      <3>1. Fails({"traceback"}) /\ UNCHANGED <<weights, at>>
        BY <1>2, <2>5 DEF Load
      <3> QED BY <1>0, <1>a, <2>1, <3>1, FailsShape DEF results, tree
    <2> QED BY <2>4, <2>5
  <1>3. ASSUME NEW r \in Ranks, Loop(r) PROVE ShapeInv'
    <2> DEFINE to == IF step[r] < Steps THEN "exchange" ELSE ToCheckpoint(r)
               over == step[r] >= Steps
    <2>1. to \in Places /\ over \in BOOLEAN
      <3>1. ToCheckpoint(r) \in Places /\ "exchange" \in Places
        BY DEF Places, Saving, ToCheckpoint
      <3>2. step[r] \in Nat /\ Steps \in Nat
        BY <1>0, Numbers
      <3> QED BY <3>1, <3>2
    <2>2. /\ looped' = [looped EXCEPT ![r] = over] /\ at' = [at EXCEPT ![r] = to] /\ Running
          /\ UNCHANGED <<control, exit, log, step, weights, results, tree, faults>>
      BY <1>3 DEF Loop, Move
    <2> HIDE DEF to, over
    <2>3. at' \in [Ranks -> Places] /\ looped' \in [Ranks -> BOOLEAN]
      BY <1>0, <2>1, <2>2
    <2> QED BY <1>0, <1>a, <2>2, <2>3, ProcessShape DEF results, tree
  <1>4. CASE Train
    <2>1. Running /\ UNCHANGED <<control, looped, results, tree, faults>>
          /\ \A r \in Ranks : at[r] = "exchange"
      BY <1>4 DEF Train
    <2>2. CASE /\ \E names \in {{}, {"named"}} : Fails({"traceback"} \cup names)
               /\ UNCHANGED <<at, step, weights>>
      BY <1>0, <1>a, <2>1, <2>2, FailsShape DEF results, tree
    <2>3. CASE /\ step' = [r \in Ranks |-> step[r] + 1]
               /\ weights' = [r \in Ranks |-> <<Launch, Launch>>]
               /\ at' = [r \in Ranks |->
                         IF (step[r] + 1) % Every = 0 THEN ToCheckpoint(r) ELSE "loop"]
               /\ UNCHANGED <<exit, log>>
      <3>1. \A r \in Ranks : step[r] + 1 \in 0 .. Steps
        <4>1. \A r \in Ranks : step[r] < Steps
          BY <2>1 DEF ProcessInv, RankInv
        <4> QED BY <1>0, <4>1, Numbers
      <3>2. Launch \in Nat
        BY <2>1, RunningIsWaited
      <3>3. \A r \in Ranks : ToCheckpoint(r) \in Places /\ "loop" \in Places
        BY DEF ToCheckpoint, Places, Saving
      <3>4. at' \in [Ranks -> Places]
        BY <2>3, <3>3
      <3>5. step' \in [Ranks -> 0 .. Steps] /\ weights' \in [Ranks -> Nat \X Nat]
        BY <2>3, <3>1, <3>2
      <3> QED BY <1>0, <1>a, <2>1, <2>3, <3>4, <3>5, ProcessShape DEF results, tree
    <2> QED BY <1>4, <2>2, <2>3 DEF Train
  <1>5. CASE Save
    <2>1. PICK what \in Saving, next \in Saving \cup {"barrier"} :
              /\ at[0] = what /\ at' = [at EXCEPT ![0] = next]
              /\ disk' = [disk EXCEPT ![Job][step[0]] = Saved(@, what)]
              /\ reached' = IF what = "manifest ends"
                            THEN [reached EXCEPT ![Job] = Max({@, step[0]})] ELSE reached
      BY <1>5, SaveIsOneStep
    <2>2. /\ Running
          /\ UNCHANGED <<control, exit, log, step, looped, weights, results, damaged, faults>>
      BY <1>5 DEF Save
    <2>3. 0 \in Ranks /\ Job \in Jobs
      BY WorkloadFields
    <2>4. step[0] \in 1 .. Steps
      <3>1. RankInv(0) /\ at[0] \in Saving
        BY <2>1, <2>2, <2>3 DEF ProcessInv, Running
      <3>2. step[0] # 0 /\ step[0] \in 0 .. Steps
        BY <1>0, <2>3, <3>1 DEF RankInv
      <3> QED BY <3>2, Numbers
    <2>5. Saved(disk[Job][step[0]], what) \in Files
      <3>1. what = "manifest ends" =>
                /\ disk[Job][step[0]].model \in {weights[0][1], Damaged}
                /\ disk[Job][step[0]].optimizer = weights[0][2]
        BY <2>1, <2>2 DEF SaveInv
      <3> QED BY <2>3, <2>4, <3>1, FilesOf, SavedIsFiles
    <2>6. disk' \in [Jobs -> [1 .. Steps -> Files]]
      BY <1>0, <2>1, <2>3, <2>4, <2>5
    <2>7. reached' \in [Jobs -> 0 .. Steps]
      <3>1. Max({reached[Job], step[0]}) \in {reached[Job], step[0]}
        <4>1. reached[Job] \in Nat /\ step[0] \in Nat
          BY <1>0, <2>3, <2>4, Numbers
        <4> QED BY <4>1, MaxOfTwo
      <3>2. Max({reached[Job], step[0]}) \in 0 .. Steps
        BY <1>0, <2>3, <2>4, <3>1
      <3> QED BY <1>0, <2>1, <3>2
    <2>8. at' \in [Ranks -> Places]
      BY <1>0, <2>1 DEF Places
    <2> QED BY <1>0, <1>a, <2>2, <2>6, <2>7, <2>8, ProcessShape DEF results
  <1>6. CASE Barrier
    <2>1. Running /\ UNCHANGED <<control, exit, log, step, looped, weights, results, tree, faults>>
      BY <1>6 DEF Barrier
    <2>2. at' \in [Ranks -> Places]
      BY <1>6 DEF Barrier, Places
    <2> QED BY <1>0, <1>a, <2>1, <2>2, ProcessShape DEF results, tree
  <1>7. CASE NoMeeting
    <2>1. Running /\ Fails({})
          /\ UNCHANGED <<control, at, step, looped, weights, results, tree, faults>>
      BY <1>7 DEF NoMeeting
    <2> QED BY <1>0, <1>a, <2>1, FailsShape DEF results, tree
  <1>8. CASE OpenMetrics \/ WriteMetrics
    <2>1. /\ Running /\ cwd' \in {0, Launch}
          /\ \E to \in {"metrics ends", "end"} : at' = [at EXCEPT ![0] = to]
          /\ UNCHANGED <<control, exit, log, step, looped, weights, out, metrics, trials,
                         tree, faults>>
      BY <1>8 DEF OpenMetrics, WriteMetrics, Move
    <2>2. cwd' \in Nat
      <3>1. Launch \in Nat
        BY DEF ShapeInv, Launch
      <3>2. cwd' = 0 \/ cwd' = Launch
        BY <2>1
      <3> QED BY <3>1, <3>2
    <2>3. at' \in [Ranks -> Places]
      BY <1>0, <2>1 DEF Places
    <2> QED BY <1>0, <1>a, <2>1, <2>2, <2>3, ProcessShape DEF tree
  <1>9. CASE Exit
    <2>1. /\ Running /\ exit' = "ok"
          /\ UNCHANGED <<control, log, at, step, looped, weights, results, tree, faults>>
      BY <1>9 DEF Exit
    <2> QED BY <1>0, <1>a, <2>1, ProcessShape DEF results, tree
  <1>10. CASE Kill
    <2>1. /\ Running /\ Fails({}) /\ faults' = faults + 1 /\ faults < MaxFaults
          /\ UNCHANGED <<control, at, step, looped, weights, results, tree>>
      BY <1>10 DEF Kill
    <2>2. faults' \in 0 .. MaxFaults
      BY <1>0, <2>1, Numbers
    <2> QED BY <1>0, <1>a, <2>1, <2>2, FailsShape DEF results, tree
  <1>11. CASE Damage
    <2>1. /\ faults' = faults + 1 /\ faults < MaxFaults /\ damaged' = TRUE
          /\ UNCHANGED <<control, process, results, reached>>
          /\ \E j \in Jobs, s \in 1 .. Steps : disk' = [disk EXCEPT ![j][s].model = Damaged]
      BY <1>11 DEF Damage
    <2>2. faults' \in 0 .. MaxFaults
      BY <1>0, <2>1, Numbers
    <2>3. disk' \in [Jobs -> [1 .. Steps -> Files]]
      <3>1. PICK j \in Jobs, s \in 1 .. Steps : disk' = [disk EXCEPT ![j][s].model = Damaged]
        BY <2>1
      <3>2. [disk[j][s] EXCEPT !.model = Damaged] \in Files
        BY FilesOf DEF Files, Content, Unreadable
      <3>3. disk' = [disk EXCEPT ![j][s] = [disk[j][s] EXCEPT !.model = Damaged]]
        BY <3>1
      <3> QED BY <1>0, <3>2, <3>3
    <2>4. /\ UNCHANGED <<exit, log, at, step, looped, weights, cwd, out, metrics, trials>>
      BY <2>1 DEF process, results
    <2>5. CASE exit = "none"
      BY <2>1, <2>2, <2>3, <2>4, <2>5 DEF ShapeInv, control, Ranks, Trials, Launch
    <2>6. CASE exit # "none"
      <3>1. exit \in {"running", "ok", "failed"}
        BY <2>6 DEF ShapeInv
      <3> QED BY <1>0, <2>1, <2>2, <2>3, <2>4, <2>6, <3>1, ProcessShape
    <2> QED BY <2>5, <2>6
  <1> QED BY <1>1, <1>2, <1>3, <1>4, <1>5, <1>6, <1>7, <1>8, <1>9, <1>10, <1>11 DEF Process

-----------------------------------------------------------------------------
\* Launches are only added: what was one of a trial stays one.
LEMMA OfKept ==
    ASSUME ShapeInv, NEW v, NEW t, Of(v, t),
           \/ launches' = launches
           \/ launches' = Append(launches, [submit |-> submits, trial |-> trial])
    PROVE  Of(v, t)'
  <1> DEFINE new == [submit |-> submits, trial |-> trial]
  <1>1. launches \in Seq(Started) /\ v \in 1 .. Len(launches) /\ launches[v].trial = t
    BY DEF ShapeInv, Of, Launch
  <1>2. CASE launches' = launches
    BY <1>1, <1>2 DEF Of, Launch
  <1>3. CASE launches' = Append(launches, new)
    <2> HIDE DEF new
    <2>1. new \in Started
      BY WorkloadFields, Numbers DEF new, Started, ShapeInv
    <2>2. Len(launches') = Len(launches) + 1 /\ launches'[v] = launches[v]
      BY <1>1, <1>3, <2>1
    <2>3. v \in 1 .. Len(launches')
      BY <1>1, <2>2
    <2> QED BY <1>1, <2>2, <2>3 DEF Of, Launch
  <1> QED BY <1>2, <1>3

\* What a step of the processes leaves alone, whatever it is.
LEMMA ProcessFrame ==
    ASSUME Process \/ Kill \/ Damage
    PROVE  UNCHANGED <<workload, submits, state, driver, trial, restart, states, launches,
                       out, metrics, trials>>
  BY DEF Process, Kill, Damage, Pick, Load, Loop, Train, Save, Barrier, NoMeeting, OpenMetrics,
         WriteMetrics,
         Exit, control, process, results

\* Every step keeps results those of their own trial: what the source directory
\* held before a launch is not collected for it.
LEMMA ResultsStep ==
    ASSUME ShapeInv, ResultsInv, Next
    PROVE  ResultsInv'
  <1>1. CASE Submit
    <2>1. metrics = 0 /\ metrics' = 0 /\ trials' = <<>> /\ UNCHANGED <<cwd, out, launches>>
      BY <1>1 DEF Submit, ShapeInv
    <2> QED BY <2>1 DEF ResultsInv, Of, Launch
  <1>2. CASE Start
    <2>1. /\ launches' = Append(launches, [submit |-> submits, trial |-> trial])
          /\ UNCHANGED <<trial, cwd, out, metrics, trials>>
      BY <1>2 DEF Start, results
    <2>2. \A v, t : Of(v, t) => Of(v, t)'
      BY <2>1, OfKept
    <2>3. cwd' \in 0 .. Launch'
      <3>1. [submit |-> submits, trial |-> trial] \in Started /\ launches \in Seq(Started)
        BY WorkloadFields, Numbers DEF Started, ShapeInv
      <3>2. Launch' = Launch + 1 /\ Launch \in Nat
        BY <2>1, <3>1 DEF Launch
      <3> QED BY <2>1, <3>2 DEF ResultsInv
    <2> QED BY <2>1, <2>2, <2>3 DEF ResultsInv
  <1>3. CASE LaunchRaises
    BY <1>3 DEF LaunchRaises, results, ResultsInv, Of, Launch
  <1>4. CASE Settle
    <2> DEFINE found == IF Collected # 0 THEN Collected ELSE metrics
    <2>1. /\ driver = "wait" /\ out' = [out EXCEPT ![Attempt] = Collected]
          /\ UNCHANGED <<launches, cwd>>
          /\ \/ metrics' = found /\ trial' = trial /\ trials' = trials
             \/ /\ metrics' = 0
                /\ trials' = IF found = 0 THEN trials
                             ELSE Append(trials, [trial |-> trial, launch |-> found])
      BY <1>4 DEF Settle
    <2>2. Attempt \in Jobs \X (0 .. MaxRestarts) /\ Attempt[1] = trial /\ trial \in {1, 2}
      BY WorkloadFields DEF Attempt, ShapeInv, Jobs
    <2>3. Of(Launch, trial)
      BY <2>1 DEF ShapeInv, Of, Launch
    <2>4. Collected # 0 => Of(Collected, trial)
      BY <2>2, <2>3 DEF Collected, ResultsInv
    <2>5. found # 0 => Of(found, trial)
      BY <2>4 DEF ResultsInv
    <2>6. \A a \in Jobs \X (0 .. MaxRestarts) : out'[a] # 0 => Of(out'[a], a[1])
      BY <2>1, <2>2, <2>4 DEF ResultsInv, ShapeInv
    <2>7. metrics' # 0 => Of(metrics', trial')
      BY <2>1, <2>5
    <2>8. \A k \in DOMAIN trials' : Of(trials'[k].launch, trials'[k].trial)
      <3>1. CASE trials' = trials
        BY <3>1 DEF ResultsInv
      <3>2. CASE found # 0 /\ trials' = Append(trials, [trial |-> trial, launch |-> found])
        <4> DEFINE new == [trial |-> trial, launch |-> found]
        <4>1. Collected \in Nat /\ metrics \in Nat /\ trials \in Seq(Result)
          BY <2>2 DEF Collected, ShapeInv
        <4>2. new \in Result /\ Of(new.launch, new.trial)
          BY <2>2, <2>5, <3>2, <4>1 DEF Result
        <4> HIDE DEF new
        <4>3. trials' = Append(trials, new)
          BY <3>2 DEF new
        <4>4. /\ DOMAIN trials' = 1 .. Len(trials) + 1 /\ trials'[Len(trials) + 1] = new
              /\ \A k \in 1 .. Len(trials) : trials'[k] = trials[k]
              /\ DOMAIN trials = 1 .. Len(trials) /\ Len(trials) \in Nat
          BY <4>1, <4>2, <4>3
        <4>5. ASSUME NEW k \in DOMAIN trials' PROVE Of(trials'[k].launch, trials'[k].trial)
          <5>1. CASE k = Len(trials) + 1
            BY <4>2, <4>4, <5>1
          <5>2. CASE k \in 1 .. Len(trials)
            BY <4>4, <5>2 DEF ResultsInv
          <5> QED BY <4>4, <5>1, <5>2
        <4> QED BY <4>5
      <3> QED BY <2>1, <3>1, <3>2
    <2>9. \A v, t : Of(v, t) => Of(v, t)'
      BY <2>1 DEF Of, Launch
    <2>10. cwd' \in 0 .. Launch'
      BY <2>1 DEF ResultsInv, Launch
    <2> QED BY <2>6, <2>7, <2>8, <2>9, <2>10 DEF ResultsInv
  <1>5. CASE Process \/ Kill \/ Damage
    <2>1. /\ UNCHANGED <<launches, trial, out, metrics, trials>>
      BY <1>5, ProcessFrame
    <2>2. cwd' \in {cwd, 0, Launch}
      BY <1>5 DEF Process, Kill, Damage, Pick, Load, Loop, Train, Save, Barrier, NoMeeting,
                  OpenMetrics, WriteMetrics, Exit, results
    <2>3. Launch \in Nat
      BY DEF ShapeInv, Launch
    <2>4. cwd' \in 0 .. Launch
      BY <2>2, <2>3 DEF ResultsInv
    <2> QED BY <2>1, <2>4 DEF ResultsInv, Of, Launch
  <1> QED BY <1>1, <1>2, <1>3, <1>4, <1>5 DEF Next, Driver

-----------------------------------------------------------------------------
\* A step that leaves the disk alone keeps what is known of it.
LEMMA DiskFrame ==
    ASSUME ShapeInv, DiskInv, disk' = disk, damaged' = damaged,
           \/ launches' = launches
           \/ launches' = Append(launches, [submit |-> submits, trial |-> trial])
    PROVE  DiskInv'
  <1>1. \A v, t : Of(v, t) => Of(v, t)'
    BY OfKept
  <1> QED BY <1>1 DEF DiskInv

\* What a save leaves of the checkpoint it writes.
LEMMA SaveFrame ==
    ASSUME ShapeInv, SaveInv, ProcessInv, Save
    PROVE  /\ at[0] \in Saving /\ 0 \in Ranks /\ Job \in Jobs /\ Job = trial
           /\ step[0] \in 1 .. Steps
           /\ Of(weights[0][1], trial) /\ weights[0][1] = weights[0][2]
           /\ Running /\ UNCHANGED <<control, exit, log, step, looped, weights, damaged>>
           /\ at' \in [Ranks -> Places] /\ at'[0] \in Saving \cup {"barrier"}
           /\ \A r \in Ranks \ {0} : at'[r] = at[r]
           /\ \A j \in Jobs, s \in 1 .. Steps :
                 <<j, s>> # <<Job, step[0]>> => disk'[j][s] = disk[j][s]
           /\ disk'[Job][step[0]].model \in {disk[Job][step[0]].model, Torn, weights[0][1]}
           /\ disk'[Job][step[0]].optimizer \in {disk[Job][step[0]].optimizer, Torn, weights[0][2]}
           /\ disk'[Job][step[0]].manifest \in {disk[Job][step[0]].manifest, Torn} \cup Hashes
  <1>0. /\ at \in [Ranks -> Places] /\ step \in [Ranks -> 0 .. Steps]
        /\ disk \in [Jobs -> [1 .. Steps -> Files]]
    BY DEF ShapeInv
  <1>1. PICK what \in Saving, next \in Saving \cup {"barrier"} :
            /\ at[0] = what /\ at' = [at EXCEPT ![0] = next]
            /\ disk' = [disk EXCEPT ![Job][step[0]] = Saved(@, what)]
    BY SaveIsOneStep
  <1>2. Running /\ UNCHANGED <<control, exit, log, step, looped, weights, damaged>>
    BY DEF Save
  <1>3. 0 \in Ranks /\ Job \in Jobs /\ Job = trial
    BY WorkloadFields
  <1>4. RankInv(0) /\ weights[0][1] = weights[0][2] /\ at[0] \in Saving
    BY <1>1, <1>2, <1>3 DEF ProcessInv
  <1>5. step[0] \in 1 .. Steps
    BY <1>0, <1>3, <1>4, Numbers DEF RankInv
  <1>6. Of(weights[0][1], trial)
    BY <1>4, <1>5, Numbers DEF RankInv, Saving
  <1>7. at' \in [Ranks -> Places] /\ at'[0] \in Saving \cup {"barrier"}
        /\ \A r \in Ranks \ {0} : at'[r] = at[r]
    BY <1>0, <1>1, <1>3 DEF Places
  <1> DEFINE d == disk[Job][step[0]]
  <1>8. /\ d \in Files
        /\ Saved(d, what).model \in {d.model, Torn, weights[0][1]}
        /\ Saved(d, what).optimizer \in {d.optimizer, Torn, weights[0][2]}
        /\ Saved(d, what).manifest \in {d.manifest, Torn} \cup Hashes
    <2>1. what = "manifest ends" =>
              d.model \in {weights[0][1], Damaged} /\ d.optimizer = weights[0][2]
      BY <1>1, <1>2 DEF SaveInv
    <2> QED BY <1>3, <1>5, <2>1, FilesOf, SavedIsFiles
  <1>9. disk'[Job][step[0]] = Saved(d, what)
    BY <1>0, <1>1, <1>3, <1>5
  <1>10. \A j \in Jobs, s \in 1 .. Steps :
            <<j, s>> # <<Job, step[0]>> => disk'[j][s] = disk[j][s]
    BY <1>0, <1>1, <1>3, <1>5
  <1> QED BY <1>2, <1>3, <1>4, <1>5, <1>6, <1>7, <1>8, <1>9, <1>10

\* What a damage from outside leaves.
LEMMA DamageFrame ==
    ASSUME ShapeInv, Damage
    PROVE  /\ damaged' = TRUE /\ UNCHANGED <<control, process, results>>
           /\ \A j \in Jobs, s \in 1 .. Steps :
                 /\ disk'[j][s].model \in {disk[j][s].model, Damaged}
                 /\ disk'[j][s].optimizer = disk[j][s].optimizer
                 /\ disk'[j][s].manifest = disk[j][s].manifest
  <1>1. PICK k \in Jobs, n \in 1 .. Steps : disk' = [disk EXCEPT ![k][n].model = Damaged]
    BY DEF Damage
  <1>2. disk' = [disk EXCEPT ![k][n] = [disk[k][n] EXCEPT !.model = Damaged]]
    BY <1>1
  <1>3. ASSUME NEW j \in Jobs, NEW s \in 1 .. Steps
        PROVE  /\ disk'[j][s].model \in {disk[j][s].model, Damaged}
               /\ disk'[j][s].optimizer = disk[j][s].optimizer
               /\ disk'[j][s].manifest = disk[j][s].manifest
    <2>1. disk \in [Jobs -> [1 .. Steps -> Files]] /\ disk[j][s] \in Files
      BY FilesOf DEF ShapeInv
    <2>2. CASE <<j, s>> # <<k, n>>
      <3>1. disk'[j][s] = disk[j][s]
        BY <1>2, <2>1, <2>2
      <3> QED BY <3>1
    <2>3. CASE j = k /\ s = n
      <3>1. disk'[j][s] = [disk[j][s] EXCEPT !.model = Damaged]
        BY <1>2, <2>1, <2>3
      <3> QED BY <2>1, <3>1 DEF Files
    <2> QED BY <2>2, <2>3
  <1> QED BY <1>3 DEF Damage

\* Every step keeps manifests naming one launch, of the trial of their tree.
LEMMA DiskStep ==
    ASSUME ShapeInv, DiskInv, SaveInv, ProcessInv, Next
    PROVE  DiskInv'
  <1>1. CASE Submit \/ Start \/ LaunchRaises \/ Settle
    <2>1. /\ disk' = disk /\ damaged' = damaged
          /\ \/ launches' = launches
             \/ launches' = Append(launches, [submit |-> submits, trial |-> trial])
      BY <1>1 DEF Submit, Start, LaunchRaises, Settle, tree
    <2> QED BY <2>1, DiskFrame
  <1>2. CASE Save
    <2>1. launches' = launches
      BY <1>2, ProcessFrame DEF Process
    <2>2. \A v, t : Of(v, t)' <=> Of(v, t)
      BY <2>1 DEF Of, Launch
    <2>3. ASSUME NEW j \in Jobs, NEW s \in 1 .. Steps
          PROVE  /\ disk'[j][s].model \notin Unreadable => Of(disk'[j][s].model, j)
                 /\ disk'[j][s].manifest \notin Unreadable =>
                       disk'[j][s].manifest[1] \in {disk'[j][s].manifest[2], Damaged}
                 /\ ~damaged' => disk'[j][s].model # Damaged
      <3>1. /\ disk[j][s].model \notin Unreadable => Of(disk[j][s].model, j)
            /\ disk[j][s].manifest \notin Unreadable =>
                  disk[j][s].manifest[1] \in {disk[j][s].manifest[2], Damaged}
            /\ ~damaged => disk[j][s].model # Damaged
        BY DEF DiskInv
      <3>2. CASE <<j, s>> # <<Job, step[0]>>
        <4>1. disk'[j][s] = disk[j][s]
          BY <1>2, <3>2, SaveFrame
        <4>2. damaged' = damaged
          BY <1>2 DEF Save
        <4> QED BY <2>2, <3>1, <4>1, <4>2
      <3>3. CASE j = Job /\ s = step[0]
        <4>1. /\ disk'[j][s].model \in {disk[j][s].model, Torn, weights[0][1]}
              /\ disk'[j][s].manifest \in {disk[j][s].manifest, Torn} \cup Hashes
              /\ Of(weights[0][1], j) /\ weights[0][1] = weights[0][2]
              /\ damaged' = damaged
          BY <1>2, <3>3, SaveFrame
        <4>2. weights[0][1] # Damaged /\ Damaged # Torn
          <5>1. weights[0] \in Nat \X Nat
            BY WorkloadFields DEF ShapeInv
          <5> QED BY <5>1, PairParts, FilesAssumption DEF Unreadable
        <4>3. ~damaged' => disk'[j][s].model # Damaged
          BY <3>1, <4>1, <4>2
        <4>4. disk'[j][s].model \notin Unreadable => Of(disk'[j][s].model, j)
          BY <3>1, <4>1 DEF Unreadable
        <4>5. disk'[j][s].manifest \notin Unreadable =>
                 disk'[j][s].manifest[1] \in {disk'[j][s].manifest[2], Damaged}
          <5> DEFINE m == disk'[j][s].manifest
          <5>1. CASE m = disk[j][s].manifest
            BY <3>1, <5>1
          <5>2. CASE m = Torn
            BY <5>2 DEF Unreadable
          <5>3. CASE m \in Hashes
            <6>1. \A x : <<Damaged, x>>[1] = Damaged
              OBVIOUS
            <6> QED BY <4>1, <5>3, <6>1 DEF Hashes
          <5> QED BY <4>1, <5>1, <5>2, <5>3
        <4> QED BY <4>3, <4>4, <4>5
      <3> QED BY <3>2, <3>3
    <2> QED BY <2>2, <2>3 DEF DiskInv
  <1>3. CASE Damage
    <2>1. \A v, t : Of(v, t)' <=> Of(v, t)
      BY <1>3, ProcessFrame DEF Of, Launch
    <2>2. ASSUME NEW j \in Jobs, NEW s \in 1 .. Steps
          PROVE  /\ disk'[j][s].model \notin Unreadable => Of(disk'[j][s].model, j)
                 /\ disk'[j][s].manifest \notin Unreadable =>
                       disk'[j][s].manifest[1] \in {disk'[j][s].manifest[2], Damaged}
                 /\ ~damaged' => disk'[j][s].model # Damaged
      BY <1>3, DamageFrame DEF DiskInv, Unreadable
    <2> QED BY <2>1, <2>2 DEF DiskInv
  <1>4. CASE Process \/ Kill
    <2>1. CASE Save
      BY <1>2, <2>1
    <2>2. CASE ~Save
      <3>1. disk' = disk /\ damaged' = damaged /\ launches' = launches
        BY <1>4, <2>2 DEF Process, Kill, Pick, Load, Loop, Train, Barrier, NoMeeting, OpenMetrics,
         WriteMetrics,
                          Exit, tree, control
      <3> QED BY <3>1, DiskFrame
    <2> QED BY <2>1, <2>2
  <1> QED BY <1>1, <1>3, <1>4 DEF Next, Driver

\* Every step keeps what rank 0 has written of the checkpoint it is at.
LEMMA SaveInvStep ==
    ASSUME ShapeInv, SaveInv, ProcessInv, Next
    PROVE  SaveInv'
  <1> DEFINE Late == {"optimizer", "optimizer ends", "manifest", "manifest ends"}
  <1>0. /\ at \in [Ranks -> Places] /\ step \in [Ranks -> 0 .. Steps] /\ 0 \in Ranks
        /\ weights \in [Ranks -> Nat \X Nat]
    BY WorkloadFields DEF ShapeInv
  <1>1. CASE exit' # "running"
    BY <1>1 DEF SaveInv, Running
  <1>2. CASE Start
    <2>1. at'[0] = "pick"
      BY <1>2, WorkloadFields DEF Start
    <2> QED BY <2>1 DEF SaveInv
  <1>3. CASE Save
    <2> DEFINE d == disk[Job][step[0]]
               e == disk'[Job][step[0]]
    <2>1. PICK what \in Saving, next \in Saving \cup {"barrier"} :
              /\ at[0] = what /\ at' = [at EXCEPT ![0] = next] /\ next = After[what]
              /\ disk' = [disk EXCEPT ![Job][step[0]] = Saved(@, what)]
      BY <1>3, SaveIsOneStep
    <2>2. /\ Running /\ step' = step /\ weights' = weights /\ Job' = Job
          /\ Job \in Jobs /\ step[0] \in 1 .. Steps
      BY <1>3, SaveFrame DEF control, Job, JobOf
    <2>3. e = Saved(d, what) /\ d \in Files /\ at'[0] = After[what]
      BY <1>0, <2>1, <2>2, FilesOf DEF ShapeInv
    <2>4. /\ at[0] \in Late => d.model \in {weights[0][1], Damaged}
          /\ at[0] \in {"manifest", "manifest ends"} => d.optimizer = weights[0][2]
      BY <2>2 DEF SaveInv
    <2> HIDE DEF d, e
    <2>5. /\ at'[0] \in Late => e.model \in {weights[0][1], Damaged}
          /\ at'[0] \in {"manifest", "manifest ends"} => e.optimizer = weights[0][2]
      <3>1. CASE what = "model"
        BY <2>3, <3>1 DEF After, Saving
      <3>2. CASE what = "model ends"
        BY <2>3, <3>2 DEF After, Saving, Saved, Files
      <3>3. CASE what = "optimizer"
        BY <2>1, <2>3, <2>4, <3>3 DEF After, Saving, Saved, Files
      <3>4. CASE what = "optimizer ends"
        BY <2>1, <2>3, <2>4, <3>4 DEF After, Saving, Saved, Files
      <3>5. CASE what = "manifest"
        BY <2>1, <2>3, <2>4, <3>5 DEF After, Saving, Saved, Files
      <3>6. CASE what = "manifest ends"
        BY <2>3, <3>6 DEF After, Saving
      <3> QED BY <3>1, <3>2, <3>3, <3>4, <3>5, <3>6 DEF Saving
    <2> QED BY <2>2, <2>5 DEF SaveInv, e
  <1>4. CASE Damage
    <2>1. /\ UNCHANGED <<exit, at, step, weights>> /\ Job' = Job /\ Job \in Jobs
          /\ \A j \in Jobs, s \in 1 .. Steps :
                /\ disk'[j][s].model \in {disk[j][s].model, Damaged}
                /\ disk'[j][s].optimizer = disk[j][s].optimizer
      BY <1>4, DamageFrame, WorkloadFields DEF process, control, Job, JobOf
    <2>2. Running /\ at[0] \in Late => step[0] \in 1 .. Steps
      <3> SUFFICES ASSUME Running, at[0] \in Late PROVE step[0] \in 1 .. Steps
        OBVIOUS
      <3>1. RankInv(0) /\ at[0] \in Saving
        BY <1>0 DEF ProcessInv, Saving
      <3>2. step[0] # 0 /\ step[0] \in 0 .. Steps
        BY <1>0, <3>1 DEF RankInv
      <3> QED BY <3>2, Taken
    <2> QED BY <2>1, <2>2 DEF SaveInv, Running
  <1>5. CASE Process /\ ~Save /\ exit' = "running"
    <2>1. /\ disk' = disk /\ Job' = Job /\ Running
          /\ \/ at'[0] \notin Late
             \/ at'[0] = at[0] /\ step'[0] = step[0] /\ weights'[0] = weights[0]
      <3>1. Job' = Job
        BY <1>5, ProcessFrame DEF Job, JobOf
      <3>2. ASSUME NEW r \in Ranks, Pick(r) \/ Load(r) \/ Loop(r)
            PROVE  /\ disk' = disk /\ Running
                   /\ \/ at'[0] \notin Late
                      \/ /\ at'[0] = at[0] /\ step'[0] = step[0]
                         /\ weights'[0] = weights[0]
        BY <1>0, <1>5, <3>2 DEF Pick, Load, Loop, Move, ToCheckpoint, Fails, tree
      <3>3. CASE Train
        BY <1>0, <1>5, <3>1, <3>3 DEF Train, ToCheckpoint, Fails, tree
      <3>4. CASE Barrier \/ OpenMetrics \/ WriteMetrics
        BY <1>0, <3>1, <3>4 DEF Barrier, OpenMetrics, WriteMetrics, Move, tree
      <3>5. CASE NoMeeting \/ Exit
        BY <1>5, <3>5 DEF NoMeeting, Exit, Fails
      <3> QED BY <1>5, <3>1, <3>2, <3>3, <3>4, <3>5 DEF Process
    <2> QED BY <2>1 DEF SaveInv
  <1>6. CASE Submit \/ LaunchRaises \/ Settle \/ Kill
    <2>1. exit' # "running"
      BY <1>6 DEF Submit, LaunchRaises, Settle, Kill, Fails, ShapeInv, process
    <2> QED BY <1>1, <2>1
  <1> QED BY <1>1, <1>2, <1>3, <1>4, <1>5, <1>6 DEF Next, Driver

-----------------------------------------------------------------------------
\* Processes that have ended are bound by nothing but the weights they had.
LEMMA EndedKeeps ==
    ASSUME ShapeInv, ProcessInv, UNCHANGED <<workload, weights>>, exit' # "running"
    PROVE  ProcessInv'
  BY DEF ProcessInv, Running, Ranks

\* A step of one rank that leaves the disk and the launches alone.
LEMMA RankStep ==
    ASSUME ShapeInv, ProcessInv, Running, NEW r \in Ranks,
           UNCHANGED <<control, disk, damaged>>,
           \A q \in Ranks \ {r} :
               at'[q] = at[q] /\ step'[q] = step[q] /\ weights'[q] = weights[q],
           weights'[r][1] = weights'[r][2], RankInv(r)', SharedInv'
    PROVE  ProcessInv'
  <1>1. /\ Ranks' = Ranks /\ Job' = Job /\ launches' = launches /\ trial' = trial
        /\ workload' = workload
    BY DEF control, Ranks, Job, JobOf
  <1>2. ASSUME NEW q \in Ranks \ {r} PROVE RankInv(q)' /\ weights'[q][1] = weights'[q][2]
    <2>1. RankInv(q) /\ weights[q][1] = weights[q][2]
      BY DEF ProcessInv
    <2> QED BY <1>1, <2>1 DEF RankInv, LoadsWhole, Of, Launch
  <1> QED BY <1>1, <1>2 DEF ProcessInv

\* What a rank chooses is whole; rank 0 has not begun to change it.
LEMMA PickProcess ==
    ASSUME ShapeInv, DiskInv, ProcessInv, NEW r \in Ranks, Pick(r)
    PROVE  ProcessInv'
  <1> DEFINE chosen == LatestValid(disk[Job])
             d == disk[Job][chosen]
  <1>1. /\ Running /\ at[r] = "pick"
        /\ step' = [step EXCEPT ![r] = chosen]
        /\ at' = [at EXCEPT ![r] = IF chosen = 0 THEN "loop" ELSE "load"]
        /\ UNCHANGED <<control, weights, disk, damaged>>
    BY DEF Pick, Move, tree
  <1>2. /\ Ranks' = Ranks /\ Job' = Job /\ launches' = launches /\ trial' = trial
        /\ workload' = workload
    BY <1>1 DEF control, Ranks, Job, JobOf
  <1>3. /\ at \in [Ranks -> Places] /\ step \in [Ranks -> 0 .. Steps] /\ Job \in Jobs
    BY WorkloadFields DEF ShapeInv
  <1>4. chosen \in 0 .. Steps /\ (chosen # 0 => Verified(d))
    BY LatestIsValid
  <1>5. RankInv(r) /\ SharedInv /\ weights[r][1] = weights[r][2]
    BY <1>1 DEF ProcessInv
  <1>6. chosen # 0 => /\ ~damaged => {d.model, d.optimizer} \cap Unreadable = {}
                      /\ LoadsWhole(d)
    <2> SUFFICES ASSUME chosen # 0
                 PROVE  /\ ~damaged => {d.model, d.optimizer} \cap Unreadable = {}
                        /\ LoadsWhole(d)
      OBVIOUS
    <2>1. chosen \in 1 .. Steps
      BY <1>4, Numbers
    <2>2. d.manifest \notin Unreadable /\ d.manifest = <<d.model, d.optimizer>>
      BY <1>4 DEF Verified
    <2>3. d \in Files
      BY <1>3, <2>1, FilesOf
    <2>4. d.model \in Nat \cup {Damaged} /\ d.optimizer \in Nat
      BY <2>2, <2>3 DEF Files, Unreadable
    <2>5. d.manifest[1] \in {d.manifest[2], Damaged} /\ (~damaged => d.model # Damaged)
      BY <1>3, <2>1, <2>2 DEF DiskInv
    <2>6. d.model \in {d.optimizer, Damaged}
      BY <2>2, <2>5
    <2> QED BY <2>4, <2>5, <2>6, FilesAssumption DEF LoadsWhole, Unreadable
  <1> HIDE DEF chosen
  <1>7. /\ step'[r] = chosen /\ at'[r] = (IF chosen = 0 THEN "loop" ELSE "load")
        /\ \A q \in Ranks \ {r} : at'[q] = at[q] /\ step'[q] = step[q]
    BY <1>1, <1>3
  <1>8. RankInv(r)'
    <2>1. (weights[r][1] # 0 => Of(weights[r][1], trial))'
      BY <1>1, <1>2, <1>5 DEF RankInv, Of, Launch
    <2>2. CASE chosen = 0
      BY <1>7, <2>1, <2>2 DEF RankInv, Saving
    <2>3. CASE chosen # 0
      <3>1. step'[r] = chosen /\ at'[r] = "load" /\ disk'[Job'][step'[r]] = d
        BY <1>1, <1>2, <1>7, <2>3
      <3> QED BY <1>1, <1>2, <1>6, <2>1, <2>3, <3>1 DEF RankInv, Saving, LoadsWhole
    <2> QED BY <2>2, <2>3
  <1>9. SharedInv'
    <2> SUFFICES ASSUME 1 \in Ranks, at'[1] \in {"pick", "load"}, at'[0] \notin {"pick", "load"},
                        step'[0] # 0
                 PROVE  /\ disk[Job][step'[0]].model \in {weights[0][1]} \cup Unreadable
                        /\ disk[Job][step'[0]].optimizer \in {weights[0][2]} \cup Unreadable
      BY <1>1, <1>2 DEF SharedInv
    <2>1. r # 0
      BY <1>7
    <2>2. r = 1 /\ 0 \in Ranks
      BY <2>1, WorkloadFields
    <2>3. at'[0] = at[0] /\ step'[0] = step[0]
      BY <1>7, <2>1, <2>2
    <2> QED BY <1>1, <1>5, <2>2, <2>3 DEF SharedInv
  <1> QED BY <1>1, <1>5, <1>7, <1>8, <1>9, RankStep

\* A rank loads a whole checkpoint, or the launch fails.
LEMMA LoadProcess ==
    ASSUME ShapeInv, DiskInv, ProcessInv, NEW r \in Ranks, Load(r)
    PROVE  ProcessInv'
  <1> DEFINE d == disk[Job][step[r]]
  <1>1. /\ Running /\ at[r] = "load" /\ UNCHANGED <<control, step, disk, damaged>>
    BY DEF Load, tree
  <1>2. /\ Ranks' = Ranks /\ Job' = Job /\ launches' = launches /\ trial' = trial
        /\ workload' = workload
    BY <1>1 DEF control, Ranks, Job, JobOf
  <1>3. /\ at \in [Ranks -> Places] /\ step \in [Ranks -> 0 .. Steps] /\ Job \in Jobs
        /\ Job = trial /\ weights \in [Ranks -> Nat \X Nat]
    BY WorkloadFields DEF ShapeInv
  <1>4. RankInv(r) /\ SharedInv
    BY <1>1 DEF ProcessInv
  <1>5. step[r] \in 1 .. Steps /\ LoadsWhole(d)
    BY <1>1, <1>3, <1>4, Numbers DEF RankInv
  <1>6. CASE {d.model, d.optimizer} \cap Unreadable = {}
    <2>1. /\ weights' = [weights EXCEPT ![r] = <<d.model, d.optimizer>>]
          /\ at' = [at EXCEPT ![r] = "loop"]
      BY <1>6 DEF Load, Move
    <2>2. d.model = d.optimizer /\ Of(d.model, trial)
      BY <1>3, <1>5, <1>6 DEF LoadsWhole, DiskInv
    <2> HIDE DEF d
    <2>3. /\ weights'[r] = <<d.model, d.optimizer>> /\ at'[r] = "loop"
          /\ \A q \in Ranks \ {r} : at'[q] = at[q] /\ weights'[q] = weights[q]
      BY <1>3, <2>1
    <2>4. weights'[r][1] = d.model /\ weights'[r][2] = d.optimizer
      BY <2>3
    <2>5. RankInv(r)'
      <3>1. Of(weights[r][1], trial)'
        BY <1>2, <2>2, <2>4 DEF Of, Launch
      <3>2. weights'[r][1] # 0
        BY <2>2, <2>4 DEF Of
      <3> QED BY <2>3, <3>1, <3>2 DEF RankInv, Saving
    <2>6. SharedInv'
      <3> SUFFICES ASSUME 1 \in Ranks, at'[1] \in {"pick", "load"}, at'[0] \notin {"pick", "load"},
                          step[0] # 0
                   PROVE  /\ disk[Job][step[0]].model \in {weights'[0][1]} \cup Unreadable
                          /\ disk[Job][step[0]].optimizer \in {weights'[0][2]} \cup Unreadable
        BY <1>1, <1>2 DEF SharedInv
      <3>1. r # 1 /\ r = 0
        BY <2>3, WorkloadFields
      <3> QED BY <2>4, <3>1 DEF d
    <2>7. weights'[r][1] = weights'[r][2]
      BY <2>2, <2>4
    <2> QED BY <1>1, <2>3, <2>5, <2>6, <2>7, RankStep
  <1>7. CASE {d.model, d.optimizer} \cap Unreadable # {}
    <2>1. exit' = "failed" /\ UNCHANGED <<workload, weights>>
      BY <1>1, <1>7 DEF Load, Fails, control
    <2> QED BY <2>1, EndedKeeps
  <1> QED BY <1>6, <1>7

\* The head of the loop moves a rank, and changes no weights.
LEMMA LoopProcess ==
    ASSUME ShapeInv, ProcessInv, NEW r \in Ranks, Loop(r)
    PROVE  ProcessInv'
  <1>1. /\ Running /\ at[r] = "loop" /\ UNCHANGED <<control, step, weights, disk, damaged>>
        /\ at' = [at EXCEPT ![r] = IF step[r] < Steps THEN "exchange" ELSE ToCheckpoint(r)]
    BY DEF Loop, Move, tree
  <1>2. /\ Ranks' = Ranks /\ Job' = Job /\ launches' = launches /\ trial' = trial
        /\ workload' = workload
    BY <1>1 DEF control, Ranks, Job, JobOf
  <1>3. /\ at \in [Ranks -> Places] /\ step \in [Ranks -> 0 .. Steps]
    BY DEF ShapeInv
  <1>4. RankInv(r) /\ SharedInv /\ weights[r][1] = weights[r][2]
    BY <1>1 DEF ProcessInv
  <1>5. /\ \A q \in Ranks \ {r} : at'[q] = at[q]
        /\ at'[r] = IF step[r] < Steps THEN "exchange" ELSE ToCheckpoint(r)
    BY <1>1, <1>3
  <1>6. \/ at'[r] = "exchange" /\ step[r] < Steps
        \/ at'[r] = "model" /\ r = 0 /\ step[r] # 0
        \/ at'[r] = "barrier"
    <2>1. step[r] \in Nat
      BY <1>3
    <2> QED BY <1>5, <2>1, Numbers DEF ToCheckpoint
  <1>7. RankInv(r)'
    <2>1. (weights[r][1] # 0 => Of(weights[r][1], trial))'
      BY <1>1, <1>2, <1>4 DEF RankInv, Of, Launch
    <2>2. step'[r] = step[r] /\ (step[r] # 0 => weights'[r][1] # 0)
      BY <1>1, <1>4 DEF RankInv
    <2> QED BY <1>6, <2>1, <2>2 DEF RankInv, Saving
  <1>8. SharedInv'
    <2> SUFFICES ASSUME 1 \in Ranks, at'[1] \in {"pick", "load"}, at'[0] \notin {"pick", "load"},
                        step[0] # 0
                 PROVE  /\ disk[Job][step[0]].model \in {weights[0][1]} \cup Unreadable
                        /\ disk[Job][step[0]].optimizer \in {weights[0][2]} \cup Unreadable
      BY <1>1, <1>2 DEF SharedInv
    <2>1. r # 1 /\ r = 0
      BY <1>6, WorkloadFields
    <2>2. at[1] = at'[1] /\ at[0] = "loop"
      BY <1>1, <1>5, <2>1
    <2> QED BY <1>4, <2>2 DEF SharedInv
  <1> QED BY <1>1, <1>4, <1>5, <1>7, <1>8, RankStep

\* After a step every rank has the weights of this launch, and every rank is loaded.
LEMMA TrainProcess ==
    ASSUME ShapeInv, ProcessInv, Train
    PROVE  ProcessInv'
  <1>1. Running /\ UNCHANGED control
    BY DEF Train
  <1>2. /\ Ranks' = Ranks /\ Job' = Job /\ launches' = launches /\ trial' = trial
        /\ workload' = workload
    BY <1>1 DEF control, Ranks, Job, JobOf
  <1>3. CASE exit' = "failed" /\ weights' = weights
    BY <1>2, <1>3, EndedKeeps
  <1>4. CASE /\ step' = [r \in Ranks |-> step[r] + 1]
             /\ weights' = [r \in Ranks |-> <<Launch, Launch>>]
             /\ at' = [r \in Ranks |->
                         IF (step[r] + 1) % Every = 0 THEN ToCheckpoint(r) ELSE "loop"]
    <2>1. Of(Launch, trial) /\ Launch # 0 /\ Launch' = Launch
      BY <1>1, <1>2, RunningIsWaited DEF Of, Launch
    <2>2. ASSUME NEW r \in Ranks PROVE RankInv(r)' /\ at'[r] \notin {"pick", "load"}
                                       /\ weights'[r][1] = weights'[r][2]
      <3>1. step[r] + 1 # 0
        BY DEF ShapeInv
      <3>2. \/ at'[r] = "model" /\ r = 0
            \/ at'[r] \in {"barrier", "loop"}
        BY <1>4 DEF ToCheckpoint
      <3>3. step'[r] # 0 /\ weights'[r] = <<Launch, Launch>>
        BY <1>4, <3>1
      <3>4. weights'[r][1] = Launch /\ weights'[r][2] = Launch
        BY <3>3
      <3>5. Of(weights[r][1], trial)'
        BY <1>2, <2>1, <3>4 DEF Of
      <3> QED BY <2>1, <3>2, <3>3, <3>4, <3>5 DEF RankInv, Saving
    <2>3. SharedInv'
      BY <1>2, <2>2 DEF SharedInv
    <2> QED BY <1>2, <2>2, <2>3 DEF ProcessInv
  <1> QED BY <1>3, <1>4 DEF Train, Fails

\* A save writes what rank 0 holds, also under a rank that has still to load it.
LEMMA SaveProcess ==
    ASSUME ShapeInv, SaveInv, ProcessInv, Save
    PROVE  ProcessInv'
  <1> DEFINE d == disk[Job][step[0]]
             e == disk'[Job][step[0]]
  <1>1. /\ at[0] \in Saving /\ 0 \in Ranks /\ Job \in Jobs
        /\ step[0] \in 1 .. Steps /\ weights[0][1] = weights[0][2]
        /\ Running /\ UNCHANGED <<control, step, weights, damaged>>
        /\ at'[0] \in Saving \cup {"barrier"}
        /\ \A r \in Ranks \ {0} : at'[r] = at[r]
        /\ \A j \in Jobs, s \in 1 .. Steps :
              <<j, s>> # <<Job, step[0]>> => disk'[j][s] = disk[j][s]
        /\ e.model \in {d.model, Torn, weights[0][1]}
        /\ e.optimizer \in {d.optimizer, Torn, weights[0][2]}
    BY SaveFrame
  <1>2. /\ Ranks' = Ranks /\ Job' = Job /\ launches' = launches /\ trial' = trial
        /\ workload' = workload
    BY <1>1 DEF control, Ranks, Job, JobOf
  <1>3. SharedInv /\ RankInv(0) /\ step \in [Ranks -> 0 .. Steps]
    BY <1>1 DEF ProcessInv, ShapeInv
  <1>4. SharedInv'
    <2> SUFFICES ASSUME 1 \in Ranks, at'[1] \in {"pick", "load"}
                 PROVE  /\ e.model \in {weights[0][1]} \cup Unreadable
                        /\ e.optimizer \in {weights[0][2]} \cup Unreadable
      BY <1>1, <1>2 DEF SharedInv
    <2>1. at[1] \in {"pick", "load"}
      BY <1>1
    <2>2. at[0] \notin {"pick", "load"} /\ step[0] # 0
      <3>1. step[0] # 0
        BY <1>1, Numbers
      <3> QED BY <1>1, <3>1 DEF Saving
    <2> QED BY <1>1, <1>3, <2>1, <2>2 DEF SharedInv, Unreadable
  <1>5. ASSUME NEW r \in Ranks PROVE RankInv(r)'
    <2>1. RankInv(r)
      BY <1>1 DEF ProcessInv
    <2>2. (weights[r][1] # 0 => Of(weights[r][1], trial))'
      BY <1>1, <1>2, <2>1 DEF RankInv, Of, Launch
    <2>3. CASE r = 0
      <3>1. weights'[0][1] # 0 /\ step'[0] # 0
        <4>1. weights[0][1] # 0
          BY <1>1, <1>3, Numbers DEF RankInv, Saving
        <4> QED BY <1>1, <4>1, Numbers
      <3> QED BY <1>1, <2>2, <2>3, <3>1 DEF RankInv, Saving
    <2>4. CASE r # 0
      <3>1. /\ r = 1 /\ workload.ranks # 1
            /\ at'[r] = at[r] /\ step'[r] = step[r] /\ weights'[r] = weights[r]
        BY <1>1, <2>4, WorkloadFields
      <3>2. at[r] = "load" => LoadsWhole(disk'[Job][step[r]])
        <4> SUFFICES ASSUME at[r] = "load" PROVE LoadsWhole(disk'[Job][step[r]])
          OBVIOUS
        <4>1. step[r] \in 1 .. Steps /\ LoadsWhole(disk[Job][step[r]])
          BY <1>3, <2>1, Numbers DEF RankInv
        <4>2. CASE step[r] # step[0]
          <5>1. disk'[Job][step[r]] = disk[Job][step[r]]
            BY <1>1, <4>1, <4>2
          <5> QED BY <4>1, <5>1
        <4>3. CASE step[r] = step[0]
          <5>1. /\ e.model \in {weights[0][1]} \cup Unreadable
                /\ e.optimizer \in {weights[0][2]} \cup Unreadable
            <6>1. 1 \in Ranks /\ at'[1] \in {"pick", "load"}
              BY <3>1
            <6>2. at'[0] \notin {"pick", "load"}
              BY <1>1 DEF Saving
            <6>3. step'[0] = step[0] /\ step[0] # 0 /\ weights' = weights
              BY <1>1, Numbers
            <6> QED BY <1>2, <1>4, <6>1, <6>2, <6>3 DEF SharedInv
          <5> QED BY <1>1, <4>3, <5>1 DEF LoadsWhole
        <4> QED BY <4>2, <4>3
      <3> QED BY <1>1, <1>2, <2>1, <2>2, <3>1, <3>2 DEF RankInv
    <2> QED BY <2>3, <2>4
  <1> QED BY <1>1, <1>2, <1>4, <1>5 DEF ProcessInv

\* At the barrier every rank is loaded.
LEMMA BarrierProcess ==
    ASSUME ShapeInv, ProcessInv, Barrier
    PROVE  ProcessInv'
  <1>1. /\ Running /\ UNCHANGED <<control, step, weights, disk, damaged>>
        /\ \A r \in Ranks : at[r] = "barrier"
        /\ at' = [r \in Ranks |-> IF ~looped[r] THEN "loop" ELSE IF r = 0 THEN "metrics" ELSE "end"]
    BY DEF Barrier, tree
  <1>2. /\ Ranks' = Ranks /\ Job' = Job /\ launches' = launches /\ trial' = trial
        /\ workload' = workload
    BY <1>1 DEF control, Ranks, Job, JobOf
  <1>3. ASSUME NEW r \in Ranks PROVE RankInv(r)' /\ at'[r] \notin {"pick", "load"}
    <2>1. RankInv(r) /\ at[r] = "barrier" /\ at'[r] \in {"loop", "metrics", "end"}
      BY <1>1 DEF ProcessInv
    <2>2. (weights[r][1] # 0 => Of(weights[r][1], trial))'
      BY <1>1, <1>2, <2>1 DEF RankInv, Of, Launch
    <2> QED BY <1>1, <2>1, <2>2 DEF RankInv, Saving
  <1>4. SharedInv'
    BY <1>2, <1>3 DEF SharedInv
  <1> QED BY <1>1, <1>2, <1>3, <1>4 DEF ProcessInv

\* Rank 0 leaves its metrics.
LEMMA MetricsProcess ==
    ASSUME ShapeInv, ProcessInv, OpenMetrics \/ WriteMetrics
    PROVE  ProcessInv'
  <1>1. /\ Running /\ at[0] \in {"metrics", "metrics ends"}
        /\ UNCHANGED <<control, step, weights, disk, damaged>>
        /\ \E to \in {"metrics ends", "end"} : at' = [at EXCEPT ![0] = to]
        /\ 0 \in Ranks /\ at \in [Ranks -> Places]
    BY WorkloadFields DEF OpenMetrics, WriteMetrics, Move, tree, ShapeInv
  <1>2. /\ Ranks' = Ranks /\ Job' = Job /\ launches' = launches /\ trial' = trial
        /\ workload' = workload
    BY <1>1 DEF control, Ranks, Job, JobOf
  <1>3. RankInv(0) /\ SharedInv /\ weights[0][1] = weights[0][2]
    BY <1>1 DEF ProcessInv
  <1>4. /\ at'[0] \in {"metrics ends", "end"} /\ \A q \in Ranks \ {0} : at'[q] = at[q]
    BY <1>1
  <1>5. RankInv(0)'
    <2>1. (weights[0][1] # 0 => Of(weights[0][1], trial))'
      BY <1>1, <1>2, <1>3 DEF RankInv, Of, Launch
    <2> QED BY <1>1, <1>3, <1>4, <2>1 DEF RankInv, Saving
  <1>6. SharedInv'
    BY <1>1, <1>2, <1>3, <1>4 DEF SharedInv
  <1> QED BY <1>1, <1>3, <1>4, <1>5, <1>6, RankStep

\* A damaged file can be told from a whole one.
LEMMA DamageProcess ==
    ASSUME ShapeInv, ProcessInv, Damage
    PROVE  ProcessInv'
  <1>1. /\ damaged' = TRUE /\ UNCHANGED <<control, exit, at, step, weights>>
        /\ \A j \in Jobs, s \in 1 .. Steps :
              /\ disk'[j][s].model \in {disk[j][s].model, Damaged}
              /\ disk'[j][s].optimizer = disk[j][s].optimizer
    BY DamageFrame DEF process
  <1>2. /\ Ranks' = Ranks /\ Job' = Job /\ launches' = launches /\ trial' = trial
        /\ workload' = workload /\ (Running' <=> Running)
    BY <1>1 DEF control, Ranks, Job, JobOf, Running
  <1>3. Job \in Jobs /\ step \in [Ranks -> 0 .. Steps] /\ 0 \in Ranks
    BY WorkloadFields DEF ShapeInv
  <1>4. ASSUME Running, NEW r \in Ranks PROVE RankInv(r)'
    <2>1. RankInv(r)
      BY <1>4 DEF ProcessInv
    <2>2. (weights[r][1] # 0 => Of(weights[r][1], trial))'
      BY <1>1, <1>2, <2>1 DEF RankInv, Of, Launch
    <2>3. at[r] = "load" => LoadsWhole(disk'[Job][step[r]])
      <3> SUFFICES ASSUME at[r] = "load" PROVE LoadsWhole(disk'[Job][step[r]])
        OBVIOUS
      <3>1. step[r] \in 1 .. Steps /\ LoadsWhole(disk[Job][step[r]])
        BY <1>3, <2>1, Numbers DEF RankInv
      <3>2. /\ disk'[Job][step[r]].model \in {disk[Job][step[r]].model, Damaged}
            /\ disk'[Job][step[r]].optimizer = disk[Job][step[r]].optimizer
        BY <1>1, <1>3, <3>1
      <3> QED BY <3>1, <3>2 DEF LoadsWhole, Unreadable
    <2> QED BY <1>1, <1>2, <2>1, <2>2, <2>3 DEF RankInv
  <1>5. ASSUME Running PROVE SharedInv'
    <2> SUFFICES ASSUME 1 \in Ranks, at[1] \in {"pick", "load"}, at[0] \notin {"pick", "load"},
                        step[0] # 0
                 PROVE  /\ disk'[Job][step[0]].model \in {weights[0][1]} \cup Unreadable
                        /\ disk'[Job][step[0]].optimizer \in {weights[0][2]} \cup Unreadable
      BY <1>1, <1>2 DEF SharedInv
    <2>1. /\ disk[Job][step[0]].model \in {weights[0][1]} \cup Unreadable
          /\ disk[Job][step[0]].optimizer \in {weights[0][2]} \cup Unreadable
      BY <1>5 DEF ProcessInv, SharedInv
    <2>2. step[0] \in 1 .. Steps
      BY <1>3, Numbers
    <2>3. /\ disk'[Job][step[0]].model \in {disk[Job][step[0]].model, Damaged}
          /\ disk'[Job][step[0]].optimizer = disk[Job][step[0]].optimizer
      BY <1>1, <1>3, <2>2
    <2> QED BY <2>1, <2>3 DEF Unreadable
  <1> QED BY <1>1, <1>2, <1>4, <1>5 DEF ProcessInv

\* Every step keeps the weights of every rank whole and of its trial.
LEMMA ProcessInvStep ==
    ASSUME ShapeInv, DiskInv, SaveInv, ProcessInv, Next
    PROVE  ProcessInv'
  <1>1. CASE Submit \/ LaunchRaises \/ Settle
    <2>1. exit' # "running" /\ UNCHANGED <<workload, weights>>
      BY <1>1 DEF Submit, LaunchRaises, Settle, ShapeInv, process
    <2> QED BY <2>1, EndedKeeps
  <1>2. CASE Start
    <2>1. /\ weights' = [r \in Ranks |-> <<0, 0>>] /\ at' = [r \in Ranks |-> "pick"]
          /\ step' = [r \in Ranks |-> 0] /\ Ranks' = Ranks /\ 0 \in Ranks
      BY <1>2, WorkloadFields DEF Start, Ranks
    <2>2. ASSUME NEW r \in Ranks PROVE RankInv(r)' /\ weights'[r][1] = weights'[r][2]
      <3>1. weights'[r][1] = 0 /\ weights'[r][2] = 0 /\ at'[r] = "pick" /\ step'[r] = 0
        BY <2>1
      <3> QED BY <3>1 DEF RankInv, Saving
    <2>3. SharedInv'
      BY <2>1 DEF SharedInv
    <2> QED BY <2>1, <2>2, <2>3 DEF ProcessInv
  <1>3. CASE Process
    <2>1. ASSUME NEW r \in Ranks, Pick(r) \/ Load(r) \/ Loop(r) PROVE ProcessInv'
      BY <2>1, PickProcess, LoadProcess, LoopProcess
    <2>2. CASE NoMeeting \/ Exit
      <3>1. exit' # "running" /\ UNCHANGED <<workload, weights>>
        BY <2>2 DEF NoMeeting, Exit, Fails, control
      <3> QED BY <3>1, EndedKeeps
    <2> QED BY <1>3, <2>1, <2>2, TrainProcess, SaveProcess, BarrierProcess, MetricsProcess
        DEF Process
  <1>4. CASE Kill
    <2>1. exit' # "running" /\ UNCHANGED <<workload, weights>>
      BY <1>4 DEF Kill, Fails, control
    <2> QED BY <2>1, EndedKeeps
  <1>5. CASE Damage
    BY <1>5, DamageProcess
  <1> QED BY <1>1, <1>2, <1>3, <1>4, <1>5 DEF Next, Driver

-----------------------------------------------------------------------------
\* A death that is no error of the script is one the driver tries again after:
\* classify finds a class for it before it could be an application error.
LEMMA TransientIsRetried ==
    ASSUME ~Deterministic(log)
    PROVE  Retried
  <1> DEFINE s == FromLocalLaunch("nonzero", log)
             chosen(k) == /\ Evidence(Precedence[k], s)
                          /\ \A j \in 1 .. k - 1 : ~Evidence(Precedence[j], s)
             k == CHOOSE i \in DOMAIN Precedence : chosen(i)
  <1>1. /\ s.exit = "nonzero" /\ ~s.deterministic /\ s.concurrent = 1 /\ ~s.control_plane
        /\ ~s.preempted /\ ~s.xid /\ ~s.driver_fault /\ ~s.heartbeat_lost /\ ~s.node_unreachable
        /\ s.message = {} /\ s.storage_errors = 0 /\ ~s.hash_mismatch /\ ~s.validation_failed
    BY DEF FromLocalLaunch, NoSignals
  <1>2. /\ DOMAIN Precedence = 1 .. 11
        /\ Precedence[1] = "CORRELATED_INCIDENT" /\ Precedence[2] = "CONTROL_PLANE_FAILURE"
        /\ Precedence[3] = "PREEMPTION" /\ Precedence[4] = "ACCELERATOR_FAILURE"
        /\ Precedence[5] = "NODE_LOSS" /\ Precedence[6] = "COMMUNICATION_ERROR"
        /\ Precedence[7] = "STORAGE_TIMEOUT" /\ Precedence[8] = "ARTIFACT_CORRUPTION"
        /\ Precedence[9] = "APPLICATION_ERROR" /\ Precedence[10] = "WORKER_CRASH"
        /\ Precedence[11] = "UNKNOWN"
    BY DEF Precedence
  <1> HIDE DEF s
  <1>3. Evidence("WORKER_CRASH", s) /\ ~Evidence("APPLICATION_ERROR", s)
    BY <1>1 DEF Evidence
  <1>4. \A j \in 1 .. 9 : ~Evidence(Precedence[j], s)
    <2>1. /\ ~Evidence("CORRELATED_INCIDENT", s) /\ ~Evidence("CONTROL_PLANE_FAILURE", s)
          /\ ~Evidence("PREEMPTION", s) /\ ~Evidence("ACCELERATOR_FAILURE", s)
          /\ ~Evidence("NODE_LOSS", s) /\ ~Evidence("COMMUNICATION_ERROR", s)
          /\ ~Evidence("STORAGE_TIMEOUT", s) /\ ~Evidence("ARTIFACT_CORRUPTION", s)
      BY <1>1 DEF Evidence, CORRELATED_THRESHOLD
    <2> SUFFICES ASSUME NEW j \in 1 .. 9 PROVE ~Evidence(Precedence[j], s)
      OBVIOUS
    <2>2. j \in {1, 2, 3, 4, 5, 6, 7, 8, 9}
      OBVIOUS
    <2> QED BY <1>2, <1>3, <2>1, <2>2
  <1>5. chosen(10) /\ 10 \in DOMAIN Precedence
    BY <1>2, <1>3, <1>4
  <1>6. k \in DOMAIN Precedence /\ chosen(k)
    <2> HIDE DEF chosen
    <2> QED BY <1>5
  <1>7. Classify(s) = Precedence[k]
    BY DEF Classify
  <1>8. k \in 1 .. 11 /\ Evidence(Precedence[k], s)
    BY <1>2, <1>6
  <1> HIDE DEF k, chosen
  <1>9. Classify(s) \notin {"APPLICATION_ERROR", "DATA_ERROR"}
    <2>1. k # 9
      BY <1>2, <1>3, <1>8
    <2>2. k \in {1, 2, 3, 4, 5, 6, 7, 8, 10, 11}
      BY <1>8, <2>1
    <2> QED BY <1>2, <1>7, <2>2
  <1>10. ActionAlone(Classify(s)) # "FAIL_JOB" /\ ActionOfGroup(Classify(s)) # "FAIL_JOB"
    BY <1>9 DEF ActionAlone, ActionOfGroup
  <1> QED BY <1>10 DEF Retried, Decide, s

\* The launches of a trial are finitely many.
LEMMA TriesAreFinite ==
    ASSUME ShapeInv, NEW t
    PROVE  IsFiniteSet(Tries(t)) /\ Cardinality(Tries(t)) \in Nat
  <1>1. launches \in Seq(Started) /\ Len(launches) \in Nat /\ DOMAIN launches = 1 .. Len(launches)
    BY DEF ShapeInv
  <1>2. IsFiniteSet(1 .. Len(launches))
    BY <1>1, FS_Interval
  <1>3. Tries(t) \subseteq 1 .. Len(launches)
    BY <1>1 DEF Tries
  <1>4. IsFiniteSet(Tries(t))
    BY <1>2, <1>3, FS_Subset
  <1> QED BY <1>4, FS_CardinalityType

\* A step that launches nothing, within a submission.
LEMMA DriverFrame ==
    ASSUME ShapeInv, DriverInv,
           UNCHANGED <<workload, submits, state, driver, trial, restart, states, launches>>,
           damaged => damaged',
           exit' = "failed" => workload.bug # 0 \/ damaged' \/ ~Deterministic(log')
    PROVE  DriverInv'
  <1>1. \A t : Tries(t)' = Tries(t)
    BY DEF Tries
  <1>2. Trials' = Trials
    BY DEF Trials
  <1>3. Excused => Excused'
    BY <1>1, <1>2 DEF Excused
  <1> QED BY <1>1, <1>3 DEF DriverInv

\* A submission begins with no launch of its own.
LEMMA SubmitDriver ==
    ASSUME ShapeInv, DriverInv, Submit
    PROVE  DriverInv'
  <1>1. /\ submits' = submits + 1 /\ state' = "RUNNING" /\ driver' = "launch" /\ trial' = 1
        /\ restart' = 0 /\ states' = {} /\ UNCHANGED <<workload, launches, exit, log, damaged>>
        /\ driver = "idle"
    BY DEF Submit, process, tree
  <1>2. submits \in Nat /\ launches \in Seq(Started) /\ exit = "none"
    BY <1>1, Numbers DEF ShapeInv
  <1>3. \A l \in DOMAIN launches :
           /\ launches[l].submit <= submits /\ launches[l].submit \in Nat
    <2>1. \A l \in DOMAIN launches : launches[l] \in Started
      BY <1>2
    <2> QED BY <2>1 DEF DriverInv, Started
  <1>4. \A l \in DOMAIN launches : launches[l].submit # submits + 1
                                   /\ launches[l].submit <= submits + 1
    BY <1>2, <1>3
  <1>5. Tries(1)' = {}
    BY <1>1, <1>4 DEF Tries
  <1>6. Cardinality(Tries(1)') = 0
    BY <1>5, FS_EmptySet
  <1>7. Cardinality(Tries(trial))' = 0
    BY <1>1, <1>5, <1>6 DEF Tries
  <1> QED BY <1>1, <1>2, <1>4, <1>7 DEF DriverInv

\* A launch is one more of its trial, which had as many as there were restarts.
LEMMA StartDriver ==
    ASSUME ShapeInv, DriverInv, Start
    PROVE  DriverInv'
  <1> DEFINE new == [submit |-> submits, trial |-> trial]
             n == Len(launches)
  <1>1. /\ driver = "launch" /\ driver' = "wait" /\ launches' = Append(launches, new)
        /\ exit' = "running"
        /\ UNCHANGED <<workload, submits, state, trial, restart, states, damaged>>
    BY DEF Start, tree
  <1>2. new \in Started /\ launches \in Seq(Started) /\ n \in Nat /\ submits \in Nat
        /\ trial \in {1, 2} /\ restart \in 0 .. MaxRestarts
    BY WorkloadFields, Numbers DEF Started, ShapeInv
  <1>3. new.submit = submits /\ new.trial = trial
    OBVIOUS
  <1> HIDE DEF new
  <1>4. /\ DOMAIN launches' = 1 .. n + 1 /\ launches'[n + 1] = new
        /\ DOMAIN launches = 1 .. n
        /\ \A l \in 1 .. n : launches'[l] = launches[l]
    BY <1>1, <1>2
  <1>5. ASSUME NEW l \in DOMAIN launches'
        PROVE  /\ launches'[l].submit <= submits
               /\ launches'[l].submit = submits => launches'[l].trial <= trial
    <2>1. CASE l = n + 1
      BY <1>2, <1>3, <1>4, <2>1
    <2>2. CASE l \in 1 .. n
      BY <1>1, <1>4, <2>2 DEF DriverInv
    <2> QED BY <1>2, <1>4, <2>1, <2>2
  <1>6. Tries(trial)' = Tries(trial) \cup {n + 1} /\ n + 1 \notin Tries(trial)
    <2>1. Tries(trial)' = {l \in 1 .. n + 1 : launches'[l] = new}
      BY <1>1, <1>4 DEF Tries, new
    <2>2. Tries(trial) = {l \in 1 .. n : launches[l] = new}
      BY <1>4 DEF Tries, new
    <2> QED BY <1>2, <1>4, <2>1, <2>2
  <1>7. Cardinality(Tries(trial)') = restart + 1
    <2>1. Cardinality(Tries(trial)) = restart
      BY <1>1 DEF DriverInv
    <2>2. Cardinality(Tries(trial) \cup {n + 1}) = Cardinality(Tries(trial)) + 1
      BY <1>6, TriesAreFinite, FS_AddElement
    <2> QED BY <1>6, <2>1, <2>2
  <1>8. Excused => Excused'
    <2> SUFFICES ASSUME NEW t \in Trials, Cardinality(Tries(t)) = MaxRestarts + 1
                 PROVE  Cardinality(Tries(t)') = MaxRestarts + 1
      <3>1. Trials' = Trials
        BY <1>1 DEF Trials
      <3> QED BY <1>1, <3>1 DEF Excused
    <2>1. t # trial
      <3>1. Cardinality(Tries(trial)) = restart /\ restart # MaxRestarts + 1
        BY <1>1, <1>2, Numbers DEF DriverInv
      <3> QED BY <3>1
    <2>2. new # [submit |-> submits, trial |-> t]
      BY <1>3, <2>1
    <2>3. Tries(t)' = {l \in 1 .. n + 1 : launches'[l] = [submit |-> submits, trial |-> t]}
      BY <1>1, <1>4 DEF Tries
    <2>4. Tries(t) = {l \in 1 .. n : launches[l] = [submit |-> submits, trial |-> t]}
      BY <1>4 DEF Tries
    <2>5. Tries(t)' = Tries(t)
      BY <1>2, <1>4, <2>2, <2>3, <2>4
    <2> QED BY <2>5
  <1> QED BY <1>1, <1>5, <1>7, <1>8 DEF DriverInv

\* A launch that failed is tried again, or its trial has a reason to fail.
LEMMA SettleDriver ==
    ASSUME ShapeInv, DriverInv, Settle
    PROVE  DriverInv'
  <1> DEFINE again == exit # "ok" /\ Retried /\ restart < MaxRestarts
             all == states \cup {IF exit = "ok" THEN "SUCCEEDED" ELSE "FAILED"}
  <1>1. /\ driver = "wait" /\ exit # "running" /\ exit' = "none"
        /\ UNCHANGED <<workload, submits, launches, log, damaged>>
        /\ \/ /\ again
              /\ driver' = "launch" /\ restart' = restart + 1
              /\ UNCHANGED <<state, trial, states>>
           \/ /\ ~again
              /\ states' = all
              /\ \/ /\ trial + 1 \in Trials
                    /\ driver' = "launch" /\ trial' = trial + 1 /\ restart' = 0
                    /\ UNCHANGED state
                 \/ /\ driver' = "idle" /\ state' = EndOf(all)
                    /\ UNCHANGED <<trial, restart>>
    BY DEF Settle, tree
  <1>2. /\ exit \in {"ok", "failed"} /\ Cardinality(Tries(trial)) = restart + 1
        /\ restart \in 0 .. MaxRestarts /\ trial \in Trials /\ trial \in Nat
        /\ state # "FAILED"
    <2>1. trial \in {1, 2}
      BY WorkloadFields DEF ShapeInv
    <2> QED BY <1>1, <2>1 DEF ShapeInv, DriverInv
  <1>3. \A t : Tries(t)' = Tries(t)
    BY <1>1 DEF Tries
  <1>4. Excused' <=> Excused
    BY <1>1, <1>3 DEF Excused, Trials
  <1>5. \A l \in DOMAIN launches : launches[l].submit <= submits /\ launches[l].trial \in Nat
                                   /\ (launches[l].submit = submits => launches[l].trial <= trial)
    <2>1. \A l \in DOMAIN launches : launches[l] \in Started
      BY DEF ShapeInv
    <2> QED BY <1>1, <2>1 DEF DriverInv, Started
  <1>6. CASE again
    <2>1. /\ driver' = "launch" /\ restart' = restart + 1 /\ UNCHANGED <<state, trial, states>>
      BY <1>1, <1>6
    <2>2. Cardinality(Tries(trial))' = restart'
      BY <1>2, <1>3, <2>1
    <2> QED BY <1>1, <1>2, <1>4, <1>5, <2>1, <2>2 DEF DriverInv
  <1>7. CASE ~again
    <2>1. "FAILED" \in all => Excused
      <3> SUFFICES ASSUME "FAILED" \notin states, exit = "failed" PROVE Excused
        BY <1>2 DEF DriverInv
      <3>1. CASE ~Retried
        BY <3>1, TransientIsRetried DEF DriverInv, Excused
      <3>2. CASE ~(restart < MaxRestarts)
        <4>1. restart = MaxRestarts
          BY <1>2, <3>2, Numbers
        <4> QED BY <1>2, <4>1 DEF Excused
      <3> QED BY <1>7, <3>1, <3>2
    <2>2. CASE /\ trial + 1 \in Trials /\ states' = all
               /\ driver' = "launch" /\ trial' = trial + 1 /\ restart' = 0
               /\ UNCHANGED state
      <3>1. \A l \in DOMAIN launches : launches[l] # [submit |-> submits, trial |-> trial + 1]
        <4> SUFFICES ASSUME NEW l \in DOMAIN launches,
                            launches[l] = [submit |-> submits, trial |-> trial + 1]
                     PROVE  FALSE
          OBVIOUS
        <4>1. launches[l].submit = submits /\ launches[l].trial = trial + 1
          OBVIOUS
        <4> QED BY <1>2, <1>5, <4>1
      <3>2. Tries(trial + 1) = {}
        BY <3>1 DEF Tries
      <3>3. Tries(trial)' = {}
        BY <1>1, <2>2, <3>1 DEF Tries
      <3>4. Cardinality(Tries(trial))' = 0
        BY <3>3, FS_EmptySet
      <3>5. \A l \in DOMAIN launches :
                launches[l].submit = submits => launches[l].trial <= trial + 1
        BY <1>2, <1>5
      <3> QED BY <1>1, <1>2, <1>4, <1>5, <2>1, <2>2, <3>4, <3>5 DEF DriverInv
    <2>3. CASE /\ states' = all /\ driver' = "idle" /\ state' = EndOf(all)
               /\ UNCHANGED <<trial, restart>>
      <3>1. state' = "FAILED" => "FAILED" \in all
        BY <2>3 DEF EndOf, ShapeInv
      <3> QED BY <1>1, <1>4, <1>5, <2>1, <2>3, <3>1 DEF DriverInv
    <2> QED BY <1>1, <1>7, <2>2, <2>3
  <1> QED BY <1>6, <1>7

\* A launch fails for an error of the script, a damaged file, or a transient reason.
LEMMA ProcessDriver ==
    ASSUME ShapeInv, ProcessInv, DriverInv, Process \/ Kill \/ Damage
    PROVE  DriverInv'
  <1>1. UNCHANGED <<workload, submits, state, driver, trial, restart, states, launches>>
    BY ProcessFrame
  <1>2. damaged => damaged'
    BY DEF Process, Kill, Damage, Pick, Load, Loop, Train, Save, Barrier, NoMeeting, OpenMetrics,
         WriteMetrics,
           Exit, tree
  <1>3. workload.ranks \in {1, 2}
    BY WorkloadFields
  \* What torchrun adds to a log hides the traceback of a rank.
  <1>4. ASSUME NEW markers, "named" \notin markers,
               workload.ranks = 2 \/ "traceback" \notin markers,
               Fails(markers)
        PROVE  ~Deterministic(log')
    BY <1>3, <1>4 DEF Fails, Deterministic
  <1>5. CASE NoMeeting \/ Kill
    <2>1. ~Deterministic(log')
      BY <1>4, <1>5 DEF NoMeeting, Kill
    <2> QED BY <1>1, <1>2, <2>1, DriverFrame
  <1>6. ASSUME NEW r \in Ranks, Load(r) PROVE DriverInv'
    <2> DEFINE d == disk[Job][step[r]]
    <2>1. CASE {d.model, d.optimizer} \cap Unreadable = {}
      <3>1. exit' = exit /\ exit = "running"
        BY <1>6, <2>1 DEF Load, Running
      <3> QED BY <1>1, <1>2, <3>1, DriverFrame
    <2>2. CASE {d.model, d.optimizer} \cap Unreadable # {}
      <3>1. Fails({"traceback"}) /\ at[r] = "load" /\ Running /\ damaged' = damaged
        BY <1>6, <2>2 DEF Load, tree
      <3>2. RankInv(r)
        BY <3>1 DEF ProcessInv
      <3>3. damaged \/ workload.ranks = 2
        BY <1>3, <2>2, <3>1, <3>2 DEF RankInv
      <3>4. damaged' \/ ~Deterministic(log')
        BY <1>4, <3>1, <3>3
      <3> QED BY <1>1, <1>2, <3>4, DriverFrame
    <2> QED BY <2>1, <2>2
  <1>7. CASE Train
    <2>1. CASE \E r \in Ranks : step[r] + 1 = workload.bug
      <3>1. workload.bug # 0
        BY <2>1 DEF ShapeInv
      <3> QED BY <1>1, <1>2, <3>1, DriverFrame
    <2>2. CASE ~\E r \in Ranks : step[r] + 1 = workload.bug
      <3>1. exit' = exit /\ exit = "running"
        BY <1>7, <2>2 DEF Train, Running
      <3> QED BY <1>1, <1>2, <3>1, DriverFrame
    <2> QED BY <2>1, <2>2
  <1>8. CASE Exit
    <2>1. exit' = "ok"
      BY <1>8 DEF Exit
    <2> QED BY <1>1, <1>2, <2>1, DriverFrame
  <1>9. CASE Damage
    <2>1. damaged' = TRUE
      BY <1>9 DEF Damage
    <2> QED BY <1>1, <1>2, <2>1, DriverFrame
  <1>10. CASE (\E r \in Ranks : Pick(r) \/ Loop(r)) \/ Save \/ Barrier \/ OpenMetrics
              \/ WriteMetrics
    <2>1. exit' = exit /\ exit = "running"
      BY <1>10 DEF Pick, Loop, Save, Barrier, OpenMetrics, WriteMetrics, Running
    <2> QED BY <1>1, <1>2, <2>1, DriverFrame
  <1> QED BY <1>5, <1>6, <1>7, <1>8, <1>9, <1>10 DEF Process

\* Every step keeps the count of launches and the reasons to fail.
LEMMA DriverInvStep ==
    ASSUME ShapeInv, ProcessInv, DriverInv, Next
    PROVE  DriverInv'
  <1>1. CASE LaunchRaises
    <2>1. /\ driver' = "raised"
          /\ UNCHANGED <<workload, submits, state, trial, restart, states, launches>>
          /\ UNCHANGED <<exit, log, damaged>> /\ driver = "launch"
      BY <1>1 DEF LaunchRaises, process, tree
    <2>2. \A t : Tries(t)' = Tries(t)
      BY <2>1 DEF Tries
    <2>3. Excused' <=> Excused
      BY <2>1, <2>2 DEF Excused, Trials
    <2> QED BY <2>1, <2>3 DEF DriverInv
  <1> QED BY <1>1, SubmitDriver, StartDriver, SettleDriver, ProcessDriver DEF Next, Driver

-----------------------------------------------------------------------------
\* The invariant holds at the start.
LEMMA InitIsLocal == Init => LocalInv
  <1> SUFFICES ASSUME Init PROVE LocalInv
    OBVIOUS
  <1>1. ShapeInv
    BY InitShape
  <1>2. /\ launches = <<>> /\ cwd = 0 /\ metrics = 0 /\ trials = <<>> /\ exit = "none"
        /\ state = "PENDING" /\ states = {} /\ driver = "idle"
        /\ weights = [r \in Ranks |-> <<0, 0>>]
        /\ disk = [j \in Jobs |-> [s \in 1 .. Steps |-> NoFiles]]
        /\ out = [a \in Jobs \X (0 .. MaxRestarts) |-> 0]
    BY Zenon DEF Init
  <1>3. ResultsInv
    BY <1>2 DEF ResultsInv, Launch
  <1>4. DiskInv
    BY <1>2, FilesAssumption DEF DiskInv, NoFiles, Unreadable
  <1>5. SaveInv /\ ProcessInv
    BY <1>2 DEF SaveInv, ProcessInv, Running
  <1>6. DriverInv
    BY <1>2 DEF DriverInv
  <1> QED BY <1>1, <1>3, <1>4, <1>5, <1>6 DEF LocalInv

\* The invariant speaks of all variables, so a stutter keeps it.
LEMMA StutterIsLocal == LocalInv /\ UNCHANGED vars => LocalInv'
  <1> SUFFICES ASSUME LocalInv, UNCHANGED vars PROVE LocalInv'
    OBVIOUS
  <1> USE DEF vars, control, process, results, tree
  <1>1. ShapeInv'
    BY DEF LocalInv, ShapeInv, Ranks, Trials, Launch
  <1>2. ResultsInv'
    BY DEF LocalInv, ResultsInv, Of, Launch
  <1>3. DiskInv'
    BY DEF LocalInv, DiskInv, Of, Launch
  <1>4. SaveInv' /\ ProcessInv'
    BY DEF LocalInv, SaveInv, ProcessInv, RankInv, SharedInv, LoadsWhole, Of, Launch, Ranks,
           Job, JobOf, Running
  <1>5. DriverInv'
    BY DEF LocalInv, DriverInv, Excused, Tries, Trials
  <1> QED BY <1>1, <1>2, <1>3, <1>4, <1>5 DEF LocalInv

\* The invariant holds in every state of every run.
THEOREM LocalInvariant == Spec => []LocalInv
  <1>1. LocalInv /\ Next => LocalInv'
    <2> SUFFICES ASSUME LocalInv, Next PROVE LocalInv'
      OBVIOUS
    <2>1. ShapeInv'
      BY DriverShape, ProcessShapeStep DEF LocalInv, Next, Driver
    <2> QED BY <2>1, ResultsStep, DiskStep, SaveInvStep, ProcessInvStep, DriverInvStep DEF LocalInv
  <1> QED BY InitIsLocal, <1>1, StutterIsLocal, PTL DEF Spec

\* What a launch resumes from is one whole checkpoint of its own trial, and results
\* are credited to the trial that produced them (torch/__init__.py: prepare;
\* sdk.py: _collect).
THEOREM RestoredIsAlwaysOwn == Spec => []RestoredIsOwn
  <1>1. LocalInv => RestoredIsOwn
    <2> SUFFICES ASSUME LocalInv PROVE RestoredIsOwn
      OBVIOUS
    <2>1. TypeOK
      <3>1. \A v \in {cwd, metrics} \cup {out[a] : a \in DOMAIN out} : v \in 0 .. Launch
        <4>1. Launch \in Nat
          BY DEF LocalInv, ShapeInv, Launch
        <4>2. cwd \in 0 .. Launch /\ metrics \in 0 .. Launch
          BY <4>1 DEF LocalInv, ResultsInv, Of
        <4>3. \A a \in DOMAIN out : out[a] \in 0 .. Launch
          <5>1. DOMAIN out = Jobs \X (0 .. MaxRestarts)
            BY DEF LocalInv, ShapeInv
          <5> QED BY <4>1, <5>1 DEF LocalInv, ResultsInv, Of
        <4> QED BY <4>2, <4>3
      <3> QED BY <3>1 DEF TypeOK, LocalInv, ShapeInv
    <2>2. RestoredIsWhole
      BY DEF LocalInv, ProcessInv, RestoredIsWhole
    <2>3. TrialsAreApart
      BY DEF LocalInv, ProcessInv, RankInv, ResultsInv, Of, TrialsAreApart
    <2> QED BY <2>1, <2>2, <2>3 DEF RestoredIsOwn
  <1> QED BY <1>1, LocalInvariant, PTL

\* A run fails for the script's error, a damaged file or used-up restarts alone
\* (sdk.py: _drive).
THEOREM FailuresAreEarned == Spec => []FailureIsEarned
  <1>1. LocalInv => FailureIsEarned
    BY DEF LocalInv, DriverInv, Excused, Tries, FailureIsEarned
  <1> QED BY <1>1, LocalInvariant, PTL

-----------------------------------------------------------------------------
(***************************************************************************)
(* What is given up                                                        *)
(***************************************************************************)

\* The steps before the last at which a checkpoint is due.
Marks == {m \in 1 .. Steps - 1 : m % Every = 0}

\* A trial can be resumed from s, 0 for the beginning.
Resumable(files, s) == s = 0 \/ Verified(files[s])

\* It can be from the last mark before the end.
Fallback(files) ==
    \E p \in {0} \cup Marks :
        Resumable(files, p) /\ p + Every >= Steps /\ \A m \in Marks : m <= p

\* Only completed checkpoints have a manifest, and the newest of them can be resumed
\* from, but for the last, which may be being written again.
TreeInv ==
    \A j \in Jobs :
        /\ reached[j] \in {0, Steps} \cup Marks
        /\ \A s \in 1 .. Steps : disk[j][s].manifest \notin Unreadable => s <= reached[j]
        /\ IF reached[j] = Steps THEN Fallback(disk[j]) ELSE Resumable(disk[j], reached[j])

\* Where a rank 0 that is on its way has completed the checkpoints: all before it,
\* and what it has written of the one in hand.
ProgressInv ==
    Running /\ at[0] # "pick" =>
        /\ \A m \in Marks :
              m <= reached[Job] <=> IF at[0] \in Saving THEN m < step[0] ELSE m <= step[0]
        /\ at[0] \in Saving => step[0] \in Marks \cup {Steps}
        /\ at[0] \in Saving \ {"model", "model ends"} =>
              disk[Job][step[0]].model = weights[0][1]
        /\ at[0] \in {"manifest", "manifest ends"} =>
              disk[Job][step[0]].optimizer = weights[0][2]

WorkInv == ~damaged => TreeInv /\ ProgressInv

-----------------------------------------------------------------------------
\* The next mark lies an interval on.
LEMMA NextMark ==
    ASSUME NEW p \in {0} \cup Marks, p + Every < Steps
    PROVE  p + Every \in Marks
  <1>1. p \in Nat /\ p % Every = 0 /\ Every \in Nat /\ Every > 0 /\ Steps \in Nat
    BY Numbers DEF Marks
  <1>2. (p + Every) % Every = 0
    <2> DEFINE q == p \div Every
    <2>1. q \in Nat /\ p = Every * q
      BY <1>1
    <2>2. p + Every = Every * (q + 1)
      BY <1>1, <2>1
    <2> HIDE DEF q
    <2> QED BY <1>1, <2>1, <2>2
  <1> QED BY <1>1, <1>2 DEF Marks

\* Nothing is there at first.
LEMMA InitWork == Init => WorkInv
  <1> SUFFICES ASSUME Init PROVE TreeInv /\ ProgressInv
    BY DEF WorkInv
  <1>1. /\ exit = "none" /\ reached = [j \in Jobs |-> 0]
        /\ disk = [j \in Jobs |-> [s \in 1 .. Steps |-> NoFiles]]
    BY Zenon DEF Init
  <1>2. \A j \in Jobs : reached[j] = 0 /\ \A s \in 1 .. Steps : disk[j][s].manifest = None
    BY <1>1 DEF NoFiles
  <1>3. TreeInv
    BY <1>2, Numbers DEF TreeInv, Resumable, Unreadable
  <1>4. ProgressInv
    BY <1>1 DEF ProgressInv, Running
  <1> QED BY <1>3, <1>4

\* The trees are as they were.
LEMMA TreeFrame ==
    ASSUME TreeInv, UNCHANGED <<disk, reached>>
    PROVE  TreeInv'
  BY DEF TreeInv

\* Rank 0 and its tree are as they were.
LEMMA ProgressFrame ==
    ASSUME ProgressInv, UNCHANGED <<disk, reached, trial>>, Running' => Running,
           UNCHANGED <<at[0], step[0], weights[0]>>
    PROVE  ProgressInv'
  BY DEF ProgressInv, Job, JobOf

-----------------------------------------------------------------------------
\* A step of the driver starts no rank that is not about to pick.
LEMMA DriverWork ==
    ASSUME WorkInv, ShapeInv, Submit \/ Start \/ LaunchRaises \/ Settle
    PROVE  WorkInv'
  <1>1. UNCHANGED <<disk, reached, damaged>>
    BY DEF Submit, Start, LaunchRaises, Settle, results, tree
  <1>2. CASE Start
    <2>1. at'[0] = "pick"
      BY <1>2, WorkloadFields DEF Start
    <2> QED BY <1>1, <2>1, TreeFrame DEF WorkInv, ProgressInv
  <1>3. CASE Submit \/ LaunchRaises \/ Settle
    <2>1. ~Running'
      BY <1>3 DEF Submit, LaunchRaises, Settle, process, ShapeInv, Running
    <2> QED BY <1>1, <2>1, TreeFrame DEF WorkInv, ProgressInv
  <1> QED BY <1>2, <1>3

\* A launch that ends, or a rank that is not the first: nothing is written.
LEMMA IdleWork ==
    ASSUME WorkInv, UNCHANGED <<disk, reached, damaged, trial>>,
           Running' => Running /\ UNCHANGED <<at[0], step[0], weights[0]>>
    PROVE  WorkInv'
  <1>1. CASE ~Running'
    BY <1>1, TreeFrame DEF WorkInv, ProgressInv
  <1>2. CASE Running'
    BY <1>2, TreeFrame, ProgressFrame DEF WorkInv
  <1> QED BY <1>1, <1>2

\* Rank 0 finds what was completed last, or the mark before the last step.
LEMMA PickReaches ==
    ASSUME ShapeInv, TreeInv, NEW j \in Jobs
    PROVE  /\ LatestValid(disk[j]) + Every >= reached[j]
           /\ \A m \in Marks : m <= reached[j] <=> m <= LatestValid(disk[j])
  <1> DEFINE c == LatestValid(disk[j])
  <1>1. c \in 0 .. Steps /\ (c # 0 => Verified(disk[j][c]))
        /\ \A s \in 1 .. Steps : Verified(disk[j][s]) => s <= c
    BY LatestIsValid
  <1>2. \A s \in 1 .. Steps : Verified(disk[j][s]) => s <= reached[j]
    BY DEF TreeInv, Verified, Complete, Unreadable
  <1>3. reached[j] \in 0 .. Steps /\ Marks \subseteq 1 .. Steps
    BY Numbers DEF ShapeInv, Marks
  <1> HIDE DEF c
  <1>4. CASE reached[j] # Steps
    <2>1. Resumable(disk[j], reached[j])
      BY <1>4 DEF TreeInv
    <2>2. reached[j] <= c
      BY <1>1, <1>3, <2>1, Numbers DEF Resumable
    <2>3. c <= reached[j]
      BY <1>1, <1>2, <1>3, Numbers
    <2>4. c = reached[j]
      BY <1>1, <1>3, <2>2, <2>3, Numbers
    <2> QED BY <1>3, <2>4, Numbers DEF c
  <1>5. CASE reached[j] = Steps
    <2>1. PICK p \in {0} \cup Marks :
              Resumable(disk[j], p) /\ p + Every >= Steps /\ \A m \in Marks : m <= p
      BY <1>5 DEF TreeInv, Fallback
    <2>2. p \in 0 .. Steps /\ p <= c
      BY <1>1, <1>3, <2>1, Numbers DEF Resumable
    <2>3. c + Every >= reached[j]
      BY <1>1, <1>5, <2>1, <2>2, Numbers
    <2>4. \A m \in Marks : m <= reached[j] /\ m <= c
      BY <1>1, <1>3, <1>5, <2>1, <2>2, Numbers
    <2> QED BY <2>3, <2>4 DEF c
  <1> QED BY <1>4, <1>5

-----------------------------------------------------------------------------
\* A rank 0 that goes on with nothing to write.
LEMMA GoesOnWork ==
    ASSUME WorkInv, Running, at[0] \notin {"pick"} \cup Saving, at'[0] \notin Saving,
           UNCHANGED <<disk, reached, damaged, trial, step[0]>>
    PROVE  WorkInv'
  <1>1. ~damaged => ProgressInv'
    BY DEF WorkInv, ProgressInv, Job, JobOf, Saving
  <1> QED BY <1>1, TreeFrame DEF WorkInv

\* Rank 0 starts where the newest checkpoint is.
LEMMA PickWork ==
    ASSUME WorkInv, ShapeInv, Pick(0)
    PROVE  WorkInv'
  <1> DEFINE chosen == LatestValid(disk[Job])
  <1>1. /\ UNCHANGED <<disk, reached, damaged, trial>> /\ 0 \in Ranks /\ Job \in Jobs
        /\ step' = [step EXCEPT ![0] = chosen] /\ at'[0] \in {"loop", "load"}
    BY WorkloadFields DEF Pick, Move, ShapeInv, control, tree
  <1>2. step'[0] = chosen /\ Job' = Job
    BY <1>1 DEF ShapeInv, Job, JobOf
  <1>3. ~damaged => ProgressInv'
    <2> SUFFICES ASSUME ~damaged PROVE ProgressInv'
      OBVIOUS
    <2>1. \A m \in Marks : m <= reached[Job] <=> m <= chosen
      BY <1>1, PickReaches DEF WorkInv
    <2> HIDE DEF chosen
    <2> QED BY <1>1, <1>2, <2>1 DEF ProgressInv, Saving
  <1> QED BY <1>1, <1>3, TreeFrame DEF WorkInv

\* Rank 0 is at the end of its steps, or at one with a checkpoint, when it saves.
LEMMA TrainWork ==
    ASSUME WorkInv, ShapeInv, ProcessInv, Train
    PROVE  WorkInv'
  <1>1. /\ UNCHANGED <<disk, reached, damaged, trial>> /\ 0 \in Ranks /\ Job \in Jobs
        /\ Running /\ at[0] = "exchange" /\ step[0] \in 0 .. Steps
    BY WorkloadFields DEF Train, ShapeInv, control, tree
  <1>2. CASE \E r \in Ranks : step[r] + 1 = workload.bug
    <2>1. ~Running'
      BY <1>2 DEF Train, Fails, Running
    <2> QED BY <1>1, <2>1, IdleWork
  <1>3. CASE ~\E r \in Ranks : step[r] + 1 = workload.bug
    <2>1. /\ step'[0] = step[0] + 1
          /\ at'[0] = IF (step[0] + 1) % Every = 0 THEN "model" ELSE "loop"
      BY <1>1, <1>3 DEF Train, ToCheckpoint
    <2>2. step[0] + 1 \in 1 .. Steps
      BY <1>1, Numbers DEF ProcessInv, RankInv
    <2>3. step[0] + 1 \in Marks \cup {Steps} \/ (step[0] + 1) % Every # 0
      BY <2>2, Numbers DEF Marks
    <2>4. ~damaged => ProgressInv'
      <3> SUFFICES ASSUME ~damaged PROVE ProgressInv'
        OBVIOUS
      <3>1. \A m \in Marks : m <= reached[Job] <=> m <= step[0]
        BY <1>1 DEF WorkInv, ProgressInv, Saving
      <3>2. \A m \in Marks : m \in Nat /\ m % Every = 0
        BY Numbers DEF Marks
      <3>3. Job' = Job
        BY <1>1 DEF Job, JobOf
      <3>4. CASE (step[0] + 1) % Every = 0
        <4>1. \A m \in Marks : m <= reached[Job] <=> m < step[0] + 1
          BY <1>1, <3>1, <3>2, Numbers
        <4> QED BY <1>1, <2>1, <2>3, <3>3, <3>4, <4>1 DEF ProgressInv, Saving
      <3>5. CASE (step[0] + 1) % Every # 0
        <4>1. \A m \in Marks : m # step[0] + 1
          BY <3>2, <3>5
        <4>2. \A m \in Marks : m <= reached[Job] <=> m <= step[0] + 1
          BY <1>1, <3>1, <3>2, <4>1, Numbers
        <4> QED BY <1>1, <2>1, <3>3, <3>5, <4>2 DEF ProgressInv, Saving
      <3> QED BY <3>4, <3>5
    <2> QED BY <1>1, <2>4, TreeFrame DEF WorkInv
  <1> QED BY <1>2, <1>3

\* The head of the loop, also when it leaves it for the last checkpoint.
LEMMA LoopWork ==
    ASSUME WorkInv, ShapeInv, Loop(0)
    PROVE  WorkInv'
  <1>1. /\ UNCHANGED <<disk, reached, damaged, trial, step>> /\ 0 \in Ranks /\ Job' = Job
        /\ Running /\ at[0] = "loop" /\ step[0] \in 0 .. Steps
        /\ at'[0] = IF step[0] < Steps THEN "exchange" ELSE "model"
    BY WorkloadFields DEF Loop, Move, ToCheckpoint, ShapeInv, control, tree, Job, JobOf
  <1>2. CASE step[0] < Steps
    BY <1>1, <1>2, GoesOnWork DEF Saving
  <1>3. CASE ~(step[0] < Steps)
    <2>1. step[0] = Steps /\ at'[0] = "model"
      BY <1>1, <1>3, Numbers
    <2>2. \A m \in Marks : m <= Steps /\ m < Steps
      BY Numbers DEF Marks
    <2>3. ~damaged => ProgressInv'
      BY <1>1, <2>1, <2>2 DEF WorkInv, ProgressInv, Saving
    <2> QED BY <1>1, <2>3, TreeFrame DEF WorkInv
  <1> QED BY <1>2, <1>3

-----------------------------------------------------------------------------
\* What one step of a save makes of the checkpoint it writes.
LEMMA SaveWrites ==
    ASSUME ShapeInv, SaveInv, ProcessInv, Save
    PROVE  /\ at[0] \in Saving /\ at'[0] = After[at[0]] /\ Job \in Jobs
           /\ step[0] \in 1 .. Steps
           /\ disk[Job][step[0]] \in Files
           /\ disk'[Job][step[0]] = Saved(disk[Job][step[0]], at[0])
           /\ reached' = IF at[0] = "manifest ends"
                         THEN [reached EXCEPT ![Job] = Max({@, step[0]})] ELSE reached
           /\ weights[0] \in Nat \X Nat
  <1>1. /\ at[0] \in Saving /\ 0 \in Ranks /\ Job \in Jobs /\ step[0] \in 1 .. Steps
    BY SaveFrame
  <1>2. PICK what \in Saving, next \in Saving \cup {"barrier"} :
            /\ at[0] = what /\ at' = [at EXCEPT ![0] = next] /\ next = After[what]
            /\ disk' = [disk EXCEPT ![Job][step[0]] = Saved(@, what)]
            /\ reached' = IF what = "manifest ends"
                          THEN [reached EXCEPT ![Job] = Max({@, step[0]})] ELSE reached
    BY SaveIsOneStep
  <1>3. /\ at \in [Ranks -> Places] /\ weights[0] \in Nat \X Nat
        /\ disk \in [Jobs -> [1 .. Steps -> Files]]
    BY <1>1 DEF ShapeInv
  <1>4. disk[Job][step[0]] \in Files
    BY <1>1, <1>3
  <1>5. disk'[Job][step[0]] = Saved(disk[Job][step[0]], what)
    BY <1>1, <1>2, <1>3
  <1>6. at'[0] = next
    BY <1>1, <1>2, <1>3
  <1> QED BY <1>1, <1>2, <1>3, <1>4, <1>5, <1>6

\* A checkpoint that is written to its end is valid.
LEMMA CompletedIsValid ==
    ASSUME ShapeInv, SaveInv, ProcessInv, ProgressInv, Save, at[0] = "manifest ends"
    PROVE  Verified(disk'[Job][step[0]])
  <1> DEFINE d == disk[Job][step[0]]
             e == disk'[Job][step[0]]
             w == weights[0]
  <1>1. /\ d \in Files /\ e = [d EXCEPT !.manifest = <<d.model, d.optimizer>>]
        /\ w \in Nat \X Nat
    BY SaveWrites DEF Saved
  <1>2. d.model = w[1] /\ d.optimizer = w[2]
    <2>1. Running
      BY DEF Save
    <2> QED BY <2>1 DEF ProgressInv, Saving
  <1> HIDE DEF d, e, w
  <1>3. e.model = w[1] /\ e.optimizer = w[2] /\ e.manifest = <<e.model, e.optimizer>>
    BY <1>1, <1>2 DEF Files
  <1>4. e.model \in Nat /\ e.optimizer \in Nat
    BY <1>1, <1>3, PairParts
  <1>5. e.manifest \in Content \X Content
    <2>1. e.model \in Content /\ e.optimizer \in Content
      BY <1>4 DEF Content
    <2>2. <<e.model, e.optimizer>> \in Content \X Content
      BY <2>1
    <2> QED BY <1>3, <2>2
  <1>6. Verified(e)
    BY <1>3, <1>5, FilesAssumption DEF Verified
  <1> QED BY <1>6 DEF e

\* A save takes away no checkpoint that a launch would be sent back to.
LEMMA SaveTree ==
    ASSUME ShapeInv, SaveInv, ProcessInv, TreeInv, ProgressInv, Save
    PROVE  TreeInv'
  <1> DEFINE s == step[0]
             j == Job
             n == reached[j]
  <1>1. /\ Running /\ at[0] \in Saving /\ j \in Jobs /\ s \in 1 .. Steps
        /\ n \in 0 .. Steps /\ reached \in [Jobs -> 0 .. Steps]
    BY SaveWrites DEF Save, ShapeInv
  <1>2. /\ \A m \in Marks : m <= n <=> m < s
        /\ s \in Marks \cup {Steps}
    BY <1>1 DEF ProgressInv, Saving
  <1>3. /\ \A k \in Jobs, t \in 1 .. Steps : <<k, t>> # <<j, s>> => disk'[k][t] = disk[k][t]
    BY SaveFrame
  <1>4. \A k \in Jobs, p \in {0} \cup Marks \cup {Steps} :
            <<k, p>> # <<j, s>> /\ Resumable(disk[k], p) => Resumable(disk'[k], p)
    BY <1>3, Numbers DEF Resumable, Marks
  <1>5. Marks \subseteq 1 .. Steps - 1
    BY DEF Marks
  <1>6. n # Steps => n # s /\ n \in {0} \cup Marks /\ Resumable(disk[j], n)
    BY <1>1, <1>2 DEF TreeInv
  <1>7. n = Steps => s = Steps
    BY <1>1, <1>2, Numbers
  <1>8. \A p \in {0} \cup Marks : n = Steps => p # s
    BY <1>5, <1>7, Numbers
  <1>9. n = Steps => Fallback(disk[j])
    BY <1>1 DEF TreeInv
  <1>10. n = Steps => Fallback(disk'[j])
    <2> SUFFICES ASSUME n = Steps PROVE Fallback(disk'[j])
      OBVIOUS
    <2>1. PICK p \in {0} \cup Marks :
              Resumable(disk[j], p) /\ p + Every >= Steps /\ \A m \in Marks : m <= p
      BY <1>9 DEF Fallback
    <2>2. Resumable(disk'[j], p)
      BY <1>1, <1>4, <1>8, <2>1
    <2> QED BY <2>1, <2>2 DEF Fallback
  <1>11. ASSUME NEW k \in Jobs, reached'[k] = reached[k], k # j \/ n = Steps \/ n # s
         PROVE  /\ reached'[k] \in {0, Steps} \cup Marks
                /\ IF reached'[k] = Steps THEN Fallback(disk'[k])
                   ELSE Resumable(disk'[k], reached'[k])
    <2>1. CASE k = j
      <3>1. CASE n = Steps
        BY <1>10, <1>11, <2>1, <3>1
      <3>2. CASE n # Steps
        <4>1. Resumable(disk'[j], n)
          BY <1>1, <1>4, <1>6, <3>2
        <4> QED BY <1>6, <1>11, <2>1, <3>2, <4>1 DEF Resumable
      <3> QED BY <3>1, <3>2
    <2>2. CASE k # j
      <3>1. /\ reached[k] \in {0, Steps} \cup Marks
            /\ IF reached[k] = Steps THEN Fallback(disk[k]) ELSE Resumable(disk[k], reached[k])
        BY DEF TreeInv
      <3>2. Fallback(disk[k]) => Fallback(disk'[k])
        BY <1>4, <2>2 DEF Fallback
      <3>3. Resumable(disk[k], reached[k]) => Resumable(disk'[k], reached[k])
        BY <1>4, <2>2, <3>1
      <3> QED BY <1>11, <3>1, <3>2, <3>3 DEF Resumable
    <2> QED BY <2>1, <2>2
  <1> HIDE DEF s, j, n
  <1>12. \A k \in Jobs, t \in 1 .. Steps :
            disk[k][t].manifest \notin Unreadable => t <= reached[k]
    BY DEF TreeInv
  <1>13. CASE at[0] # "manifest ends"
    <2>1. reached' = reached
      BY <1>13, SaveWrites
    <2>2. \A k \in Jobs, t \in 1 .. Steps :
              disk'[k][t].manifest \notin Unreadable => disk[k][t].manifest \notin Unreadable
      <3>1. disk'[j][s].manifest \in {disk[j][s].manifest, Torn}
        BY <1>1, <1>13, SaveWrites DEF j, s, Saved, Files, Saving
      <3> QED BY <1>3, <3>1 DEF Unreadable
    <2>3. \A k \in Jobs, t \in 1 .. Steps :
              disk'[k][t].manifest \notin Unreadable => t <= reached'[k]
      BY <1>12, <2>1, <2>2
    <2>4. n = Steps \/ n # s
      BY <1>6
    <2> QED BY <1>11, <2>1, <2>3, <2>4 DEF TreeInv
  <1>14. CASE at[0] = "manifest ends"
    <2>1. reached' = [reached EXCEPT ![j] = Max({n, s})]
      BY <1>14, SaveWrites DEF j, n, s
    <2>2. Verified(disk'[j][s])
      BY <1>14, CompletedIsValid DEF j, s
    <2>3. Max({n, s}) = s
      <3>1. n <= s
        <4>1. CASE s \in Marks
          BY <1>1, <1>2, <4>1, Numbers
        <4>2. CASE s = Steps
          BY <1>1, <4>2, Numbers
        <4> QED BY <1>2, <4>1, <4>2
      <3>2. n \in Nat /\ s \in Nat
        BY <1>1, Numbers
      <3> QED BY <3>1, <3>2, MaxOfTwo
    <2>4. reached'[j] = s /\ \A k \in Jobs \ {j} : reached'[k] = reached[k]
      BY <1>1, <2>1, <2>3
    <2>5. ASSUME NEW k \in Jobs, NEW t \in 1 .. Steps, disk'[k][t].manifest \notin Unreadable
          PROVE  t <= reached'[k]
      <3>1. CASE k = j /\ t = s
        BY <1>1, <2>4, <3>1, Numbers
      <3>2. CASE <<k, t>> # <<j, s>>
        <4>1. t <= reached[k]
          BY <1>3, <1>12, <2>5, <3>2
        <4>2. n <= s
          BY <1>1, <2>3, MaxOfTwo, Numbers
        <4> QED BY <1>1, <2>4, <4>1, <4>2, Numbers DEF n
      <3> QED BY <3>1, <3>2
    <2>6. Resumable(disk'[j], s)
      BY <2>2 DEF Resumable
    <2>7. s = Steps => Fallback(disk'[j])
      <3> SUFFICES ASSUME s = Steps, n # Steps PROVE Fallback(disk'[j])
        BY <1>10
      <3>1. n \in {0} \cup Marks /\ Resumable(disk'[j], n) /\ n \in Nat
        BY <1>1, <1>4, <1>6, Numbers
      <3>2. \A m \in Marks : m <= n
        BY <1>2, <1>5, Numbers
      <3>3. n + Every >= Steps
        <4> SUFFICES ASSUME n + Every < Steps PROVE FALSE
          BY <3>1, Numbers
        <4>1. n + Every \in Marks
          BY <3>1, NextMark
        <4>2. n + Every <= n
          BY <3>2, <4>1
        <4> QED BY <3>1, <4>2, Numbers
      <3> QED BY <3>1, <3>2, <3>3 DEF Fallback
    <2>8. ASSUME NEW k \in Jobs
          PROVE  /\ reached'[k] \in {0, Steps} \cup Marks
                 /\ IF reached'[k] = Steps THEN Fallback(disk'[k])
                    ELSE Resumable(disk'[k], reached'[k])
      <3>1. CASE k = j
        BY <1>2, <2>4, <2>6, <2>7, <3>1
      <3>2. CASE k # j
        BY <1>11, <2>4, <3>2
      <3> QED BY <3>1, <3>2
    <2> QED BY <2>5, <2>8 DEF TreeInv
  <1> QED BY <1>13, <1>14
\* A save keeps rank 0 in step with what is completed.
LEMMA SaveProgress ==
    ASSUME ShapeInv, SaveInv, ProcessInv, ProgressInv, Save
    PROVE  ProgressInv'
  <1> DEFINE s == step[0]
             j == Job
             d == disk[j][s]
             e == disk'[j][s]
             n == reached[j]
  <1>1. /\ Running /\ at[0] \in Saving /\ at'[0] = After[at[0]] /\ j \in Jobs /\ s \in 1 .. Steps
        /\ d \in Files /\ e = Saved(d, at[0])
        /\ reached' = IF at[0] = "manifest ends"
                      THEN [reached EXCEPT ![j] = Max({n, s})] ELSE reached
        /\ n \in 0 .. Steps /\ reached \in [Jobs -> 0 .. Steps]
    BY SaveWrites DEF Save, ShapeInv
  <1>2. /\ \A m \in Marks : m <= n <=> m < s
        /\ s \in Marks \cup {Steps}
        /\ at[0] \in Saving \ {"model", "model ends"} => d.model = weights[0][1]
        /\ at[0] \in {"manifest", "manifest ends"} => d.optimizer = weights[0][2]
    BY <1>1 DEF ProgressInv, Saving
  <1>3. step'[0] = s /\ weights' = weights /\ Job' = j
    BY SaveFrame DEF control, Job, JobOf
  <1> HIDE DEF s, j, d, e, n
  <1>0. s \in Nat /\ n \in Nat /\ n <= Steps /\ s <= Steps /\ j \in DOMAIN reached
    <2>1. s \in 1 .. Steps /\ n \in 0 .. Steps
      BY <1>1
    <2>2. j \in DOMAIN reached
      BY <1>1
    <2> QED BY <2>1, <2>2, Numbers
  <1>4. CASE at[0] # "manifest ends"
    <2>1. at'[0] \in Saving /\ reached' = reached
      BY <1>1, <1>4 DEF Saving, After
    <2>2. at'[0] \in Saving \ {"model", "model ends"} => e.model = weights[0][1]
      BY <1>1, <1>2, <1>4 DEF Saving, After, Saved, Files
    <2>3. at'[0] \in {"manifest", "manifest ends"} => e.optimizer = weights[0][2]
      BY <1>1, <1>2, <1>4 DEF Saving, After, Saved, Files
    <2> QED BY <1>2, <1>3, <2>1, <2>2, <2>3 DEF ProgressInv, n, e
  <1>5. CASE at[0] = "manifest ends"
    <2>1. at'[0] = "barrier"
      BY <1>1, <1>5 DEF Saving, After
    <2>2. reached'[j] = Max({n, s})
      BY <1>0, <1>1, <1>5
    <2>3. \A m \in Marks : m <= reached'[j] <=> m <= s
      <3>1. \A m \in Marks : m \in Nat /\ m < Steps
        BY Numbers DEF Marks
      <3>2. n <= s
        <4>1. CASE s \in Marks
          <5>1. s <= n <=> s < s
            BY <1>2, <4>1, Zenon
          <5> QED BY <1>0, <5>1
        <4>2. CASE s = Steps
          BY <1>0, <4>2
        <4> QED BY <1>2, <4>1, <4>2
      <3>3. reached'[j] = s
        BY <1>0, <2>2, <3>2, MaxOfTwo
      <3> QED BY <3>3
    <2> QED BY <1>3, <2>1, <2>3 DEF ProgressInv, Saving
  <1> QED BY <1>4, <1>5

\* Whatever is done, what was completed can be gone back to, but for an interval.
LEMMA WorkStep ==
    ASSUME ShapeInv, SaveInv, ProcessInv, WorkInv, Next
    PROVE  WorkInv'
  <1>1. 0 \in Ranks
    BY WorkloadFields
  <1>2. CASE Submit \/ Driver \/ LaunchRaises
    BY <1>2, DriverWork DEF Driver
  <1>3. CASE Damage
    BY <1>3 DEF Damage, WorkInv
  <1>4. CASE NoMeeting \/ Kill \/ Exit
    <2>1. UNCHANGED <<disk, reached, damaged, trial>> /\ ~Running'
      BY <1>4 DEF NoMeeting, Kill, Exit, Fails, control, tree, Running
    <2> QED BY <2>1, IdleWork
  <1>5. ASSUME NEW r \in Ranks, r # 0, Pick(r) \/ Load(r) \/ Loop(r)
        PROVE  WorkInv'
    <2>1. UNCHANGED <<disk, reached, damaged, trial>> /\ Running
      BY <1>5 DEF Pick, Load, Loop, control, tree
    <2>2. UNCHANGED <<at[0], step[0], weights[0]>>
      <3>1. /\ at \in [Ranks -> Places] /\ step \in [Ranks -> 0 .. Steps]
            /\ weights \in [Ranks -> Nat \X Nat]
        BY DEF ShapeInv
      <3> QED BY <1>1, <1>5, <3>1 DEF Pick, Load, Loop, Move
    <2> QED BY <2>1, <2>2, IdleWork
  <1>6. CASE Load(0)
    <2>1. /\ UNCHANGED <<disk, reached, damaged, trial, step>> /\ Running /\ at[0] = "load"
      BY <1>6 DEF Load, control, tree
    <2>2. CASE Running'
      <3>1. at' = [at EXCEPT ![0] = "loop"]
        BY <1>6, <2>2 DEF Load, Move, Fails, Running
      <3>2. at'[0] = "loop"
        BY <1>1, <3>1 DEF ShapeInv
      <3> QED BY <2>1, <3>2, GoesOnWork DEF Saving
    <2>3. CASE ~Running'
      BY <2>1, <2>3, IdleWork
    <2> QED BY <2>2, <2>3
  <1>7. CASE Barrier
    <2>1. /\ UNCHANGED <<disk, reached, damaged, trial, step>> /\ Running /\ at[0] = "barrier"
          /\ at'[0] \in {"loop", "metrics", "end"}
      BY <1>1, <1>7 DEF Barrier, control, tree
    <2> QED BY <2>1, GoesOnWork DEF Saving
  <1>8. CASE OpenMetrics \/ WriteMetrics
    <2>1. /\ UNCHANGED <<disk, reached, damaged, trial, step>> /\ Running
          /\ at[0] \in {"metrics", "metrics ends"} /\ at'[0] \in {"metrics ends", "end"}
      BY <1>1, <1>8 DEF OpenMetrics, WriteMetrics, Move, ShapeInv, control, tree
    <2> QED BY <2>1, GoesOnWork DEF Saving
  <1>9. CASE Save
    <2>1. damaged' = damaged
      BY <1>9 DEF Save
    <2> QED BY <1>9, <2>1, SaveTree, SaveProgress DEF WorkInv
  <1> QED BY <1>2, <1>3, <1>4, <1>5, <1>6, <1>7, <1>8, <1>9, PickWork, LoopWork, TrainWork
          DEF Next, Process

\* It holds in every state of every run.
LEMMA WorkInvariant == Spec => []WorkInv
  <1>1. LocalInv /\ WorkInv /\ [Next]_vars => WorkInv'
    <2>1. LocalInv /\ WorkInv /\ Next => WorkInv'
      BY WorkStep DEF LocalInv
    <2>2. WorkInv /\ UNCHANGED vars => WorkInv'
      <3> SUFFICES ASSUME WorkInv, UNCHANGED vars PROVE WorkInv'
        OBVIOUS
      <3>1. UNCHANGED <<disk, reached, damaged, trial, exit, at, step, weights>>
        BY DEF vars, control, process, tree
      <3> QED BY <3>1, IdleWork DEF Running
    <2> QED BY <2>1, <2>2
  <1> QED BY InitWork, <1>1, LocalInvariant, PTL DEF Spec

\* A launch gives up at most one interval of what was saved before it, also when it
\* picks while rank 0 writes a checkpoint again or after one that was killed doing so
\* (checkpoint/local.py: latest_valid_manifest).
THEOREM LostWorkIsAlwaysBounded == Spec => LostWorkIsBounded
  <1> DEFINE Bounded == \A r \in DOMAIN at \cap DOMAIN at' :
                           at[r] = "pick" /\ at'[r] # "pick" /\ exit' = "running" /\ ~damaged
                               => step'[r] + Every >= reached[Job]
  <1>1. LocalInv /\ WorkInv /\ [Next]_vars => [Bounded]_vars
    <2> SUFFICES ASSUME ShapeInv, TreeInv, Next, ~damaged,
                        NEW r \in DOMAIN at \cap DOMAIN at',
                        at[r] = "pick", at'[r] # "pick"
                 PROVE  step'[r] + Every >= reached[Job]
      BY DEF LocalInv, WorkInv
    <2>1. r \in Ranks /\ at \in [Ranks -> Places] /\ 0 \in Ranks /\ Job \in Jobs
      BY WorkloadFields DEF ShapeInv
    <2>2. CASE Pick(r)
      <3>1. step'[r] = LatestValid(disk[Job])
        BY <2>1, <2>2 DEF Pick, ShapeInv
      <3> QED BY <2>1, <3>1, PickReaches
    <2>3. ASSUME NEW q \in Ranks, Pick(q) \/ Load(q) \/ Loop(q), ~Pick(r) PROVE FALSE
      <3>1. q # r
        BY <2>3 DEF Load, Loop
      <3>2. at' = at \/ \E to : at' = [at EXCEPT ![q] = to]
        BY <2>3 DEF Pick, Load, Loop, Move
      <3> QED BY <2>1, <3>1, <3>2
    <2>4. CASE Start
      BY <2>1, <2>4 DEF Start
    <2>5. CASE Submit \/ Settle \/ LaunchRaises \/ NoMeeting \/ Exit \/ Kill \/ Damage
      BY <2>5 DEF Submit, Settle, LaunchRaises, NoMeeting, Exit, Kill, Damage, process
    <2>6. CASE Train
      BY <2>1, <2>6 DEF Train
    <2>7. CASE Save
      <3>1. r # 0
        BY <2>7, SaveIsOneStep DEF Saving
      <3>2. \E to : at' = [at EXCEPT ![0] = to]
        BY <2>7, SaveIsOneStep
      <3> QED BY <2>1, <3>1, <3>2
    <2>8. CASE Barrier
      BY <2>1, <2>8 DEF Barrier
    <2>9. CASE OpenMetrics \/ WriteMetrics
      BY <2>1, <2>9 DEF OpenMetrics, WriteMetrics, Move
    <2> QED BY <2>2, <2>3, <2>4, <2>5, <2>6, <2>7, <2>8, <2>9 DEF Next, Driver, Process
  <1> QED BY <1>1, LocalInvariant, WorkInvariant, PTL DEF Spec, LostWorkIsBounded
=============================================================================
