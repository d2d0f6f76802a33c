----------------------------- MODULE ExecutorLoop -----------------------------
(***************************************************************************)
(* The work cycle of one device (flashnode/executor/loop.py, ExecutorLoop  *)
(* and _AttemptHeartbeat, over executor/client.py) against the leases of a *)
(* coordinator that other devices use too.                                 *)
(*                                                                         *)
(* The main thread claims, runs and commits; while it has a lease a second *)
(* thread renews it, and tells the main thread by the flag `lost` that the *)
(* coordinator refused.  The two share nothing else, and the lease may     *)
(* lapse between any two steps of either.  A request may fail before or    *)
(* after the coordinator performed it, and the coordinator may be          *)
(* restarted, which keeps the leases and forgets the registered nodes.     *)
(*                                                                         *)
(* Staging, running and uploading are one step each; what the relay of     *)
(* checkpoints does meanwhile is the module CheckpointRelay.               *)
(***************************************************************************)
EXTENDS Naturals, Sequences, FiniteSets

CONSTANTS Tasks, Jobs, Nodes, JobOf, MaxAttempts, LeaseTime,
    Self,         \* the device whose loop this is
    Enforcing,    \* whether the coordinator refuses uploads without a lease
    MaxTasks,     \* run(max_tasks): accepted tasks after which to stop
    MaxFailures,  \* max_consecutive_failures
    MaxFaults     \* bound on failed requests and coordinator restarts

ASSUME TaskAssumption ==
    /\ JobOf \in [Tasks -> Jobs]
    /\ MaxAttempts \in [Tasks -> Nat \ {0}]
    /\ LeaseTime \in [Tasks -> Nat \ {0}]
ASSUME SelfAssumption == Self \in Nodes
ASSUME EnforcingAssumption == Enforcing \in BOOLEAN
ASSUME MaxTasksAssumption == MaxTasks \in Nat
ASSUME MaxFailuresAssumption == MaxFailures \in Nat \ {0}
ASSUME MaxFaultsAssumption == MaxFaults \in Nat

VARIABLES
    tasks, queue, \* the coordinator's lease table
    known,        \* whether the coordinator knows this device
    pc,           \* where the main thread is
    mine,         \* the lease it works on, a task and a place, or NoLease
    due,          \* whether a node heartbeat is due
    accepted,     \* tasks_accepted
    streak,       \* consecutive_failures
    beating,      \* the leases whose heartbeat thread runs
    sent,         \* the leases with a heartbeat on its way
    lost,         \* those of them whose thread was answered 410
    faults        \* failed requests and restarts so far

table == <<tasks, queue>>
threads == <<beating, sent, lost>>
vars == <<table, known, pc, mine, due, accepted, streak, threads, faults>>

Manager == INSTANCE LeaseManager WITH Fits <- [n \in Nodes |-> Tasks]

NoLease == <<>>
Exits == {"ended", "quarantined", "crashed"}
PC == {"top", "beat", "register", "claim", "stage", "run", "check", "upload",
       "complete", "report", "after"} \cup Exits

Holder(t, i) == tasks[t].history[i].node
Live == mine # NoLease /\ Manager!IsLive(mine[1], mine[2])

(***************************************************************************)
(* Pieces of a step, each after the form a fault would give it             *)
(***************************************************************************)

\* _should_stop_volunteering: enough host-side failures to look at the host.
StreakFull == streak >= MaxFailures

\* tasks_accepted, counted on every answered commit.
CountedOnAnswer(won) == accepted + 1

\* tasks_accepted after a commit that was answered.
Counted(won) == IF won THEN accepted + 1 ELSE accepted

\* The heartbeat threads when an attempt is over, hb.stop() left out.
BeatingOn == beating

\* The heartbeat threads when an attempt is over, after hb.stop().
StillBeating == beating \ {mine}

\* The flags after a heartbeat that failed, taken for a lost lease.
LostOnError(l) == lost \cup {l}

\* The flags after a heartbeat that failed: trouble, keep trying.
LostAfterError(l) == lost

\* After a node heartbeat: a refused one means that we were forgotten.
AfterBeat == IF known THEN "claim" ELSE "register"

(***************************************************************************)
(* The main thread                                                         *)
(***************************************************************************)

\* The head of the loop: the only place that looks at stop_event (a wait
\* that it cuts short comes here next), which the host's owner may set at any
\* time; enough tasks accepted; or one more round.
Round ==
    /\ pc = "top"
    /\ \/ pc' = "ended"
       \/ /\ accepted < MaxTasks
          /\ pc' = IF due THEN "beat" ELSE "claim"
    /\ UNCHANGED <<table, known, mine, due, accepted, streak, threads, faults>>

\* _maybe_node_heartbeat
Beat ==
    /\ pc = "beat"
    /\ pc' = AfterBeat
    /\ due' = (AfterBeat = "register")
    /\ UNCHANGED <<table, known, mine, accepted, streak, threads, faults>>

ReRegister ==
    /\ pc = "register"
    /\ known' = TRUE
    /\ due' = FALSE
    /\ pc' = "claim"
    /\ UNCHANGED <<table, mine, accepted, streak, threads, faults>>

\* The task this step has leased, if any.
NewlyLeased == {t \in Tasks : tasks'[t].history # tasks[t].history}

\* claim: nothing there or an unknown node, and the loop waits; or a lease,
\* and its heartbeat thread starts.
Claim ==
    /\ pc = "claim"
    /\ \/ /\ known
          /\ Manager!Claim(Self, Jobs, Tasks)
          /\ \/ /\ NewlyLeased = {}
                /\ pc' = "top"
                /\ UNCHANGED <<mine, beating>>
             \/ \E t \in NewlyLeased :
                   /\ mine' = <<t, Len(tasks'[t].history)>>
                   /\ beating' = beating \cup {mine'}
                   /\ pc' = "stage"
       \/ /\ ~known
          /\ pc' = "top"
          /\ UNCHANGED <<table, mine, beating>>
    /\ UNCHANGED <<known, due, accepted, streak, sent, lost, faults>>

\* The inputs are downloaded and unpacked, or refused.
Stage ==
    /\ pc = "stage"
    /\ pc' \in {"run", "report"}
    /\ UNCHANGED <<table, known, mine, due, accepted, streak, threads, faults>>

\* The runner returns an output directory, or raises.
Run ==
    /\ pc = "run"
    /\ pc' \in {"check", "report"}
    /\ UNCHANGED <<table, known, mine, due, accepted, streak, threads, faults>>

\* A result is discarded when the heartbeat thread has seen a 410 by now.
Check ==
    /\ pc = "check"
    /\ pc' = IF mine \in lost THEN "after" ELSE "upload"
    /\ UNCHANGED <<table, known, mine, due, accepted, streak, threads, faults>>

\* An exception that is no TaskExecutionError and no LeaseLost: it leaves
\* execute_one and run, and the process with its threads ends.
Crash ==
    /\ pc' = "crashed"
    /\ mine' = NoLease
    /\ beating' = {}
    /\ lost' = {}

\* The outputs are uploaded, or refused for want of a lease.
Upload ==
    /\ pc = "upload"
    /\ IF Enforcing /\ ~Live THEN Crash ELSE pc' = "complete" /\ UNCHANGED <<mine, beating, lost>>
    /\ UNCHANGED <<table, known, due, accepted, streak, sent, faults>>

\* The commit as the coordinator performs it: an output that is not there, or not the one
\* whose hash is claimed, fails the attempt of a lease that is live.
Commit(l) == Manager!Complete(l[1], l[2]) \/ Manager!Fail(l[1], l[2])

\* The commit, accepted or declined; only an accepted one ends the streak.
Complete ==
    LET won == tasks'[mine[1]].accepted # tasks[mine[1]].accepted
    IN  /\ pc = "complete"
        /\ Commit(mine)
        /\ accepted' = Counted(won)
        /\ streak' = IF won THEN 0 ELSE streak
        /\ pc' = "after"
        /\ UNCHANGED <<known, mine, due, threads, faults>>

\* fail: whatever the coordinator answers, the failure counts against the host.
Report ==
    /\ pc = "report"
    /\ IF Live THEN Manager!Fail(mine[1], mine[2]) ELSE UNCHANGED table
    /\ streak' = streak + 1
    /\ pc' = "after"
    /\ UNCHANGED <<known, mine, due, accepted, threads, faults>>

\* The attempt is over: its heartbeat thread is told to stop, and after a
\* streak of failures the host is examined.
After ==
    /\ pc = "after"
    /\ mine' = NoLease
    /\ beating' = StillBeating
    /\ lost' = lost \ {mine}
    /\ \/ ~StreakFull /\ pc' = "top" /\ UNCHANGED streak
       \/ StreakFull /\ pc' = "top" /\ streak' = 0
       \/ StreakFull /\ pc' = "quarantined" /\ UNCHANGED streak
    /\ UNCHANGED <<table, known, due, accepted, sent, faults>>

\* A request of the main thread fails, performed or not.  Talk about the node
\* and claims are tried again, a report is given up, the rest is not caught.
Unanswered ==
    /\ faults < MaxFaults
    /\ faults' = faults + 1
    /\ \/ /\ pc \in {"beat", "register"}
          /\ known' \in {known, known \/ pc = "register"}
          /\ pc' = "top"
          /\ UNCHANGED <<table, mine, beating, lost, streak>>
       \/ /\ pc = "claim"
          /\ pc' = "top"
          /\ UNCHANGED table \/ (known /\ Manager!Claim(Self, Jobs, Tasks))
          /\ UNCHANGED <<known, mine, beating, lost, streak>>
       \/ /\ pc \in {"stage", "upload"}
          /\ Crash
          /\ UNCHANGED <<table, known, streak>>
       \/ /\ pc = "complete"
          /\ Crash
          /\ UNCHANGED table \/ Commit(mine)
          /\ UNCHANGED <<known, streak>>
       \/ /\ pc = "report"
          /\ UNCHANGED table \/ Manager!Fail(mine[1], mine[2])
          /\ streak' = streak + 1
          /\ pc' = "after"
          /\ UNCHANGED <<known, mine, beating, lost>>
    /\ UNCHANGED <<due, accepted, sent>>

(***************************************************************************)
(* The heartbeat threads                                                   *)
(***************************************************************************)

SendHeartbeat(l) ==
    /\ l \in beating \ (sent \cup lost)
    /\ sent' = sent \cup {l}
    /\ UNCHANGED <<table, known, pc, mine, due, accepted, streak, beating, lost, faults>>

\* The lease is renewed, or a 410 sets the flag and ends the thread.  The main
\* thread may be done with the lease before this arrives; nobody reads its
\* flag then.
HeartbeatArrives(l) ==
    /\ l \in sent
    /\ sent' = sent \ {l}
    /\ \/ /\ Manager!Heartbeat(l[1], l[2])
          /\ UNCHANGED lost
       \/ /\ ~Manager!IsLive(l[1], l[2])
          /\ lost' = lost \cup ({l} \cap beating)
          /\ UNCHANGED table
    /\ UNCHANGED <<known, pc, mine, due, accepted, streak, beating, faults>>

HeartbeatUnanswered(l) ==
    /\ faults < MaxFaults
    /\ faults' = faults + 1
    /\ l \in sent
    /\ sent' = sent \ {l}
    /\ lost' = LostAfterError(l)
    /\ UNCHANGED table \/ Manager!Heartbeat(l[1], l[2])
    /\ UNCHANGED <<known, pc, mine, due, accepted, streak, beating>>

(***************************************************************************)
(* Everybody else                                                          *)
(***************************************************************************)
loop == <<pc, mine, due, accepted, streak, threads>>

\* A node heartbeat falls due.
FallsDue ==
    /\ ~due
    /\ due' = TRUE
    /\ UNCHANGED <<table, known, pc, mine, accepted, streak, threads, faults>>

\* The coordinator is restarted.
Restart ==
    /\ faults < MaxFaults
    /\ faults' = faults + 1
    /\ known' = FALSE
    /\ UNCHANGED <<table, loop>>

\* The leases another device may report on.
Theirs(t) == {i \in Manager!Issued(t) : Holder(t, i) # Self}
TheirReport(t) == \E i \in Theirs(t) : Manager!Complete(t, i) \/ Manager!Fail(t, i)

Others ==
    /\ \/ \E t \in Tasks : Manager!AddTask(t)
       \/ \E t \in Tasks : Manager!CancelTask(t)
       \/ \E n \in Nodes \ {Self} : Manager!Claim(n, Jobs, Tasks)
       \/ \E t \in Tasks : \E i \in Theirs(t) : Manager!Heartbeat(t, i)
       \/ \E t \in Tasks : TheirReport(t)
       \/ Manager!Sweep
    /\ UNCHANGED <<known, loop, faults>>

Tick == Manager!Tick /\ UNCHANGED <<known, loop, faults>>

Init ==
    /\ Manager!Init
    /\ known = TRUE
    /\ pc = "top"
    /\ mine = NoLease
    /\ due = TRUE
    /\ accepted = 0
    /\ streak = 0
    /\ beating = {}
    /\ sent = {}
    /\ lost = {}
    /\ faults = 0

MainThread ==
    \/ Round \/ Beat \/ ReRegister \/ Claim \/ Stage \/ Run \/ Check
    \/ Upload \/ Complete \/ Report \/ After

Next ==
    \/ MainThread
    \/ Unanswered
    \/ \E l \in beating : SendHeartbeat(l)
    \/ \E l \in sent : HeartbeatArrives(l)
    \/ \E l \in sent : HeartbeatUnanswered(l)
    \/ FallsDue
    \/ Restart
    \/ Others
    \/ Tick

Spec == Init /\ [][Next]_vars

\* The main thread goes on (a runner ends or is killed by its timeout), time
\* passes, requests arrive or fail, and other devices report as this one does.
FairSpec ==
    /\ Spec
    /\ WF_vars(MainThread)
    /\ WF_vars(FallsDue)
    /\ WF_vars(Tick)
    /\ WF_vars(\E l \in sent : HeartbeatArrives(l))
    /\ \A t \in Tasks : WF_vars(TheirReport(t) /\ UNCHANGED <<known, loop, faults>>)

-----------------------------------------------------------------------------
(***************************************************************************)
(* Properties                                                              *)
(***************************************************************************)

\* Every variable has its type; the streak never passes the threshold.
TypeOK ==
    /\ Manager!TypeOK
    /\ known \in BOOLEAN
    /\ pc \in PC
    /\ mine \in (Tasks \X Nat) \cup {NoLease}
    /\ due \in BOOLEAN
    /\ accepted \in Nat
    /\ streak \in 0 .. MaxFailures
    /\ beating \subseteq Tasks \X Nat
    /\ sent \subseteq Tasks \X Nat
    /\ lost \subseteq Tasks \X Nat
    /\ faults \in 0 .. MaxFaults

\* The flag is only ever set for a lease that is gone for good: a result is
\* thrown away for a 410 and never for a coordinator that is slow, restarting
\* or out of reach (_AttemptHeartbeat.run).
LostIsGone ==
    TypeOK /\ \A l \in lost : ~Manager!IsLive(l[1], l[2])

\* The host is told of no more accepted tasks than the coordinator accepted
\* from it, however many of its commits were late, declined or repeated
\* (execute_one: "accepted=False ... is HTTP 200").
CountsAreTrue ==
    accepted <= Cardinality({t \in Tasks : /\ tasks[t].accepted # 0
                                           /\ Holder(t, tasks[t].accepted) = Self})

\* A lease the main thread is not working on does not stay alive: one given
\* up, discarded, never received for a lost answer, or left by a crash lapses,
\* although heartbeats of it may still be on their way ("lease will expire on
\* its own").
LetGo ==
    \A t \in Tasks : \A i \in 1 .. MaxAttempts[t] :
        (mine # <<t, i>> /\ Manager!IsLive(t, i) /\ Holder(t, i) = Self)
            ~> ~Manager!IsLive(t, i)

\* As long as the loop runs every task that is registered gets settled, also
\* after the coordinator was restarted and forgot the device ("re-register
\* instead of starving forever").
WorkGetsDone ==
    \A t \in Tasks :
        tasks[t].state # "ABSENT" ~> tasks[t].state \in Manager!Terminal \/ pc \in Exits

\* No lease is held by nobody for ever and no task waits for ever.
LeasesMoveOn == LetGo /\ WorkGetsDone

\* The loop ends when it is stopped, has done its number of tasks or is
\* quarantined, and in no other way (module comment: "Failures are *reported,
\* not raised*"; "The loop only exits on stop/max_tasks").
NeverRaises == pc # "crashed"
=============================================================================
