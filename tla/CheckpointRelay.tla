--------------------------- MODULE CheckpointRelay ---------------------------
(***************************************************************************)
(* The checkpoints of one leased task, from the process that writes them   *)
(* (flashml_workloads/sgd_trainer.py) through the agent that ships them    *)
(* while it runs (flashnode/executor/loop.py, _CheckpointRelay) to the     *)
(* artifact files and the catalog of the coordinator (service/modea.py,    *)
(* service/checkpoints.py), and back into the next attempt.                *)
(*                                                                         *)
(* Training is deterministic, so a checkpoint file is told by its step and *)
(* by whether it is written to its end.  A file appears when the process   *)
(* opens it and is whole when it is closed; the relay reads it whenever it *)
(* scans.  Requests may be lost before or after they took effect, a node   *)
(* may lose its lease at any time and go on working, and the coordinator   *)
(* may be restarted, which empties the catalog and keeps the files.        *)
(* Between the reading of a file and the arrival of its bytes anything may *)
(* happen: the request may take longer (15 seconds) than finish() waits    *)
(* for the thread (10).                                                    *)
(*                                                                         *)
(* The coordinator enforces node identities, so it only performs what the  *)
(* node that holds the task asks for.  A run that was superseded by one on *)
(* another node can therefore change nothing any more and is forgotten;    *)
(* of one on the same node, the thread that finish() did not wait for is   *)
(* left over, with the file it has in hand.                                *)
(***************************************************************************)
EXTENDS CheckpointCatalog

CONSTANTS
    Task,         \* the scope of the task in the catalog ("job::task")
    LastStep,     \* checkpoints a whole run writes, one per step
    MaxAttempts,  \* TaskSpec.max_attempts
    MaxFaults     \* bound on lost requests and restarts of the coordinator

ASSUME LastStepAssumption == LastStep \in Nat \ {0}
ASSUME MaxAttemptsAssumption == MaxAttempts \in Nat \ {0}
ASSUME MaxFaultsAssumption == MaxFaults \in Nat

RunSteps == 1 .. LastStep
AttemptNumbers == 1 .. MaxAttempts
Bytes == {"partial", "whole"}

\* The task is one of the catalog's; a part has its step for a key, and one
\* process saves it alone.  Commits do not reach the catalog's bound.
ASSUME CatalogAssumption ==
    /\ Task \in Scopes /\ AttemptNumbers \subseteq Attempts
    /\ RunSteps \subseteq Steps \cap Keys /\ Bytes \subseteq Hashes /\ 1 \in Worlds
    /\ MaxManifests >= 3 * (MaxFaults + 1) * MaxAttempts * LastStep

\* The thread that scans while the process runs, the sweep of finish(), and
\* a thread of the node's previous run.
Shippers == {"relay", "final", "stray"}

VARIABLES
    store,        \* what lies at the artifact key of each step, or "none"
    attempt,      \* attempts made so far
    leased,       \* whether the last of them holds the lease
    run,          \* its run
    sweeps,       \* the sweep of each shipper
    reached,      \* the highest step shipped since the coordinator started
    faults        \* requests lost and restarts so far

vars == <<registered, manifests, store, attempt, leased, run, sweeps, reached, faults>>

\* A run: its phase, the last step it wrote, its out/ckpt directory, the
\* outputs it has still to upload, the files it has shipped (_shipped), whether
\* a request of it ever failed and, as a history that no step depends on, the
\* steps of which a thread holds or sent what the file held before its end.
Run == [phase   : {"none", "running", "closing", "uploading", "over", "accepted"},
        at      : RunSteps \cup {0},
        files   : [RunSteps -> Bytes \cup {"none"}],
        left    : SUBSET RunSteps,
        shipped : SUBSET RunSteps,
        refused : BOOLEAN,
        half    : SUBSET RunSteps]

NoRun == [phase |-> "none", at |-> 0, files |-> [s \in RunSteps |-> "none"],
          left |-> {}, shipped |-> {}, refused |-> FALSE, half |-> {}]

\* A sweep: the files it saw and has not tried, the file in hand, the bytes
\* that were read of it and the request that comes next.
Sweep == [pc   : {"idle", "pick", "put", "register", "commit", "over"},
          of   : AttemptNumbers \cup {0},
          todo : SUBSET RunSteps, step : RunSteps \cup {0}, bytes : Bytes \cup {"none"}]

Idle == [pc |-> "idle", of |-> 0, todo |-> {}, step |-> 0, bytes |-> "none"]

\* w has read a file and is about to send, to register or to commit it.
InHand(w) == sweeps[w].pc \in {"put", "register", "commit"}

(***************************************************************************)
(* The run of a process                                                    *)
(***************************************************************************)

\* Resuming from the manifest that was committed last.
ResumePointOfLastCommit ==
    IF manifests = <<>> THEN 0 ELSE manifests[Len(manifests)].step

\* Where the next attempt resumes from, 0 for the beginning.
ResumePoint == ResumeStep(Task)

\* A node claims the task and starts the process on what it downloaded; a
\* process that is given half a file exits at once.  The node that ran the
\* last attempt is free again when that is over.
Start(sameNode) ==
    /\ ~leased
    /\ attempt < MaxAttempts
    /\ run.phase # "accepted"
    /\ sameNode => run.phase = "over"
    /\ attempt' = attempt + 1
    /\ leased' = TRUE
    /\ LET p == ResumePoint
           leftOver == sameNode /\ InHand("relay")
       IN  /\ run' = [NoRun EXCEPT !.at = p,
                                   !.phase = IF p # 0 /\ store[p] # "whole" THEN "closing"
                                             ELSE "running",
                                   !.half = IF leftOver /\ sweeps["relay"].bytes = "partial"
                                            THEN {sweeps["relay"].step} ELSE {}]
           /\ sweeps' = [w \in Shippers |->
                           IF w = "stray" /\ leftOver THEN sweeps["relay"] ELSE Idle]
    /\ UNCHANGED <<catalog, store, reached, faults>>

\* The process opens the file of its next checkpoint.
OpenFile ==
    /\ run.phase = "running"
    /\ run.at < LastStep
    /\ run.files[run.at + 1] = "none"
    /\ run' = [run EXCEPT !.files[run.at + 1] = "partial"]
    /\ UNCHANGED <<catalog, store, attempt, leased, sweeps, reached, faults>>

\* The process has written it to its end.
CloseFile ==
    /\ run.phase = "running"
    /\ run.at < LastStep
    /\ run.files[run.at + 1] = "partial"
    /\ run' = [run EXCEPT !.files[run.at + 1] = "whole", !.at = @ + 1]
    /\ UNCHANGED <<catalog, store, attempt, leased, sweeps, reached, faults>>

\* The process ends, by itself or in the middle of anything; the relay is
\* told to halt and its thread is waited for, ten seconds at most.
ProcessEnds ==
    /\ run.phase = "running"
    /\ run' = [run EXCEPT !.phase = "closing"]
    /\ UNCHANGED <<catalog, store, attempt, leased, sweeps, reached, faults>>

(***************************************************************************)
(* Shipping                                                                *)
(***************************************************************************)

\* The files a sweep finds.
Seen(w) == {s \in RunSteps : run.files[s] # "none"}

\* A sweep begins: the thread's while the process runs, the final one after.
BeginSweep(w) ==
    /\ sweeps[w].pc = "idle"
    /\ \/ w = "relay" /\ run.phase = "running"
       \/ w = "final" /\ run.phase = "closing"
    /\ sweeps' = [sweeps EXCEPT ![w] = [Idle EXCEPT !.pc = "pick", !.of = attempt,
                                                    !.todo = Seen(w)]]
    /\ UNCHANGED <<catalog, store, attempt, leased, run, reached, faults>>

\* Nothing is left: the thread goes back to waiting, the final sweep is over.
EndSweep(w) ==
    /\ sweeps[w].pc = "pick"
    /\ sweeps[w].todo \subseteq run.shipped
    /\ sweeps' = [sweeps EXCEPT ![w] = [Idle EXCEPT !.pc = IF w = "final" THEN "over" ELSE @]]
    /\ UNCHANGED <<catalog, store, attempt, leased, run, reached, faults>>

\* The file a shipper takes next: the first in order not shipped yet.
FileOf(w) == Min(sweeps[w].todo \ run.shipped)

CanPick(w) == w # "stray" /\ sweeps[w].pc = "pick" /\ ~ sweeps[w].todo \subseteq run.shipped

\* _ship_new takes the next file and reads it.
ReadFile(w) ==
    /\ CanPick(w)
    /\ LET s == FileOf(w)
       IN  /\ sweeps' = [sweeps EXCEPT ![w].pc = "put", ![w].todo = @ \ {s}, ![w].step = s,
                                       ![w].bytes = run.files[s]]
           /\ run' = [run EXCEPT !.half = IF run.phase = "running" /\ run.files[s] = "partial"
                                          THEN @ \cup {s} ELSE @]
    /\ UNCHANGED <<catalog, store, attempt, leased, reached, faults>>

\* An upload that is answered before its bytes are written.
StoredLater(w) == store

\* An upload that leaves what is at the key already.
StoredOnce(w) ==
    [store EXCEPT ![sweeps[w].step] = IF @ = "none" THEN sweeps[w].bytes ELSE @]

\* The store after the upload of what w read.
Stored(w) == [store EXCEPT ![sweeps[w].step] = sweeps[w].bytes]

\* upload_artifact: the bytes arrive.
Upload(w) ==
    /\ sweeps[w].pc = "put"
    /\ leased
    /\ store' = Stored(w)
    /\ sweeps' = [sweeps EXCEPT ![w].pc = "register"]
    /\ UNCHANGED <<catalog, attempt, leased, run, reached, faults>>

BucketOf(w) == <<Task, sweeps[w].of, sweeps[w].step>>
PartOf(w) == <<sweeps[w].step, sweeps[w].bytes>>

\* checkpoint_register_part
Register(w) ==
    /\ sweeps[w].pc = "register"
    /\ leased
    /\ RegisterPart(BucketOf(w), sweeps[w].step, sweeps[w].bytes)
    /\ sweeps' = [sweeps EXCEPT ![w].pc = "commit"]
    /\ UNCHANGED <<store, attempt, leased, run, reached, faults>>

\* The sweep of w when it is done with the file in hand.
LaidDown(w) == [sweeps[w] EXCEPT !.pc = "pick", !.step = 0, !.bytes = "none"]

\* checkpoint_commit: accepted, and the file counts as shipped.
CommitPart(w) ==
    /\ sweeps[w].pc = "commit"
    /\ leased
    /\ Commit(BucketOf(w), {PartOf(w)}, {1})
    /\ sweeps' = [sweeps EXCEPT ![w] = LaidDown(w)]
    /\ run' = IF w = "stray" THEN run ELSE [run EXCEPT !.shipped = @ \cup {sweeps[w].step}]
    /\ reached' = Max({reached, sweeps[w].step})
    /\ UNCHANGED <<store, attempt, leased, faults>>

\* The request that comes next raises: the file is left for the next sweep.
GivesUp(w) ==
    /\ sweeps' = [sweeps EXCEPT ![w] = LaidDown(w)]
    /\ run' = IF w = "stray" THEN run ELSE [run EXCEPT !.refused = TRUE]
    /\ UNCHANGED <<attempt, leased, reached>>

\* The coordinator refuses it: no lease, or a manifest that does not match.
Refused(w) ==
    /\ \/ InHand(w) /\ ~leased
       \/ sweeps[w].pc = "commit" /\ ~Committable(BucketOf(w), {PartOf(w)})
    /\ GivesUp(w)
    /\ UNCHANGED <<catalog, store, faults>>

\* It is lost on its way, or performed and its answer lost.
Lost(w) ==
    /\ faults < MaxFaults
    /\ faults' = faults + 1
    /\ \/ sweeps[w].pc = "put" /\ store' \in {store, Stored(w)} /\ UNCHANGED catalog
       \/ sweeps[w].pc = "register" /\ UNCHANGED <<catalog, store>>
       \/ /\ sweeps[w].pc = "register"
          /\ RegisterPart(BucketOf(w), sweeps[w].step, sweeps[w].bytes)
          /\ UNCHANGED store
       \/ sweeps[w].pc = "commit" /\ UNCHANGED <<catalog, store>>
       \/ /\ sweeps[w].pc = "commit"
          /\ Commit(BucketOf(w), {PartOf(w)}, {1})
          /\ UNCHANGED store
    /\ leased
    /\ GivesUp(w)

(***************************************************************************)
(* The end of an attempt                                                   *)
(***************************************************************************)

\* The run is over: its directory is removed, and all that may be left is
\* the request its thread has in hand.
Over(phase) ==
    /\ run' = [NoRun EXCEPT !.phase = phase]
    /\ sweeps' = [w \in Shippers |->
                    IF InHand(w) THEN [sweeps[w] EXCEPT !.todo = {}]
                    ELSE Idle]

\* The final sweep is over: a process that failed is reported and the task
\* goes back; one that succeeded has its outputs uploaded, unless the agent
\* knows by now that its lease is lost.
AfterFinish ==
    LET failed == run.at < LastStep
    IN  /\ run.phase = "closing"
        /\ sweeps["final"].pc = "over"
        /\ \/ failed /\ Over("over") /\ leased' = FALSE
           \/ ~failed /\ ~leased /\ Over("over") /\ UNCHANGED leased
           \/ /\ ~failed
              /\ run' = [run EXCEPT !.phase = "uploading", !.left = Seen("final")]
              /\ UNCHANGED <<leased, sweeps>>
        /\ UNCHANGED <<catalog, store, attempt, reached, faults>>

\* One of the outputs is uploaded, to the key the relay used for it; if that
\* fails the attempt is given up.
UploadOutput ==
    /\ run.phase = "uploading"
    /\ run.left # {}
    /\ LET s == Min(run.left)
       IN  IF leased
           THEN /\ store' = [store EXCEPT ![s] = run.files[s]]
                /\ run' = [run EXCEPT !.left = @ \ {s}]
                /\ UNCHANGED sweeps
           ELSE Over("over") /\ UNCHANGED store
    /\ UNCHANGED <<catalog, attempt, leased, reached, faults>>

\* All are uploaded and the attempt is committed, or rejected as late.
Complete ==
    /\ run.phase = "uploading"
    /\ run.left = {}
    /\ Over(IF leased THEN "accepted" ELSE "over")
    /\ leased' = FALSE
    /\ UNCHANGED <<catalog, store, attempt, reached, faults>>

\* The lease expires; the node learns of it later or never.
LoseLease ==
    /\ leased
    /\ leased' = FALSE
    /\ UNCHANGED <<catalog, store, attempt, run, sweeps, reached, faults>>

\* The coordinator is restarted: leases and files stay, the catalog does not.
Restart ==
    /\ faults < MaxFaults
    /\ faults' = faults + 1
    /\ registered' = [b \in Bucket |-> {}]
    /\ manifests' = <<>>
    /\ reached' = 0
    /\ UNCHANGED <<store, attempt, leased, run, sweeps>>

Init ==
    /\ CatalogInit
    /\ store = [s \in RunSteps |-> "none"]
    /\ attempt = 0
    /\ leased = FALSE
    /\ run = NoRun
    /\ sweeps = [w \in Shippers |-> Idle]
    /\ reached = 0
    /\ faults = 0

Next ==
    \/ \E sameNode \in BOOLEAN : Start(sameNode)
    \/ OpenFile
    \/ CloseFile
    \/ ProcessEnds
    \/ \E w \in Shippers : BeginSweep(w)
    \/ \E w \in Shippers : EndSweep(w)
    \/ \E w \in Shippers : ReadFile(w)
    \/ \E w \in Shippers : Upload(w)
    \/ \E w \in Shippers : Register(w)
    \/ \E w \in Shippers : CommitPart(w)
    \/ \E w \in Shippers : Refused(w)
    \/ \E w \in Shippers : Lost(w)
    \/ AfterFinish
    \/ UploadOutput
    \/ Complete
    \/ LoseLease
    \/ Restart

Spec == Init /\ [][Next]_vars

-----------------------------------------------------------------------------
(***************************************************************************)
(* Properties                                                              *)
(***************************************************************************)

\* The catalog holds steps of the run.
CatalogIsOfRun ==
    /\ CatalogTypeOK
    /\ \A m \in DOMAIN manifests : manifests[m].step \in RunSteps

\* Every variable has its type.
TypeOK ==
    /\ CatalogIsOfRun
    /\ store \in [RunSteps -> Bytes \cup {"none"}]
    /\ attempt \in 0 .. MaxAttempts
    /\ leased \in BOOLEAN
    /\ run \in Run
    /\ sweeps \in [Shippers -> Sweep]
    /\ reached \in 0 .. LastStep
    /\ faults \in 0 .. MaxFaults

\* A manifest never promises bytes that are not in the store, wherever
\* requests were lost and whichever threads overlap (catalog.py: "parts
\* first, manifest last").
ManifestHasBytes ==
    TypeOK /\ \A m \in DOMAIN manifests : store[manifests[m].step] # "none"

\* No attempt starts before a step that was shipped since the coordinator
\* was started (loop.py, _CheckpointRelay: "a crash a moment later still
\* leaves a valid, resumable checkpoint").
ResumesWhereShipped ==
    [][attempt' # attempt => run'.at >= reached]_vars

\* An attempt is through with its final sweep and none of its requests failed.
SweptInFull == sweeps["final"].pc = "over" /\ ~run.refused

\* Then every checkpoint its process left on disk has been shipped, and one
\* that it wrote to its end lies in the store to its end, whatever requests the
\* thread that was not waited for, or the one of the run before, has still on
\* their way; unless such a thread read the file before its end (loop.py,
\* finish: "a dying attempt's last checkpoint must be shipped even if the
\* process died mid-interval").
FinalSweepShips ==
    SweptInFull =>
        \A s \in RunSteps :
            /\ run.files[s] # "none" => s \in run.shipped
            /\ run.files[s] = "whole" /\ s \notin run.half => store[s] = "whole"

\* The same without the exception: what finish() promises.
FinalSweepShipsWhole ==
    SweptInFull => \A s \in RunSteps : run.files[s] = "whole" => store[s] = "whole"

\* What can be resumed from is a whole checkpoint (catalog.py: "There is no
\* code path that can mark a partial checkpoint valid").
ResumableIsWhole ==
    \A m \in Selectable(Task, {}, FALSE) : store[manifests[m].step] = "whole"
=============================================================================
