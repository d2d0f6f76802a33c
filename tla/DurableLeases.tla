---------------------------- MODULE DurableLeases ----------------------------
(***************************************************************************)
(* The lease manager over the SQLite store and the event ledger            *)
(* (leases/manager.py, leases/sqlite_store.py, service/ledger.py).         *)
(*                                                                         *)
(* A call of the manager is a sequence of effects: it changes the record   *)
(* in memory, saves it to the database and appends events to the ledger,   *)
(* in the order of the code.  Calls do not overlap (one event loop, no     *)
(* await inside), but a call may stop early: an append to the ledger       *)
(* raises, which leaves memory as it stands, or the process dies, which    *)
(* leaves what the database holds.  Saving and appending are separate      *)
(* transactions of separate files.                                         *)
(***************************************************************************)
EXTENDS Naturals, Sequences, FiniteSets

CONSTANTS Tasks, Jobs, Nodes, JobOf, Fits, MaxAttempts, LeaseTime,
    Faults        \* what may cut a call short: "emit" raises, "crash"

ASSUME TaskAssumption ==
    /\ JobOf \in [Tasks -> Jobs]
    /\ Fits \in [Nodes -> SUBSET Tasks]
    /\ MaxAttempts \in [Tasks -> Nat \ {0}]
    /\ LeaseTime \in [Tasks -> Nat \ {0}]

ASSUME FaultsAssumption == Faults \subseteq {"emit", "crash"}

VARIABLES
    mem,          \* the records in the store's cache
    disk,         \* the rows of lease_tasks
    queue,        \* the cache's insertion order
    replayed,     \* per task, the status that replaying its events gives
    acceptances,  \* per task, how many accepted commits the ledger shows
    handed,       \* the leases a claim returned to a worker
    told,         \* the leases whose commit was answered "accepted"
    happened      \* the faults that cut a call short so far

vars == <<mem, disk, queue, replayed, acceptances, handed, told, happened>>

Manager == INSTANCE LeaseManager WITH tasks <- mem

(***************************************************************************)
(* Effects                                                                 *)
(***************************************************************************)
Put(t, r) == [kind |-> "put", task |-> t, record |-> r]
Save(t) == [kind |-> "save", task |-> t]
Emit(t, e) == [kind |-> "emit", task |-> t, event |-> e]

\* The status of a task after one more of its events.
Replay(status, e) ==
    CASE e \in {"TASK_CREATED", "TASK_REQUEUED"} -> "PENDING"
      [] e \in {"LEASE_CLAIMED", "LEASE_RENEWED"} -> "LEASED"
      [] e = "TASK_COMMIT_ACCEPTED" -> "COMPLETED"
      [] e = "TASK_EXHAUSTED" -> "FAILED"
      [] OTHER -> status

Stored == [mem |-> mem, disk |-> disk, replayed |-> replayed, acceptances |-> acceptances]

\* save() of everything but the accepted attempt.
PersistedWithoutAcceptance(s, t) == [s.disk EXCEPT ![t] = [s.mem[t] EXCEPT !.accepted = 0]]

\* The rows after save(): the whole record, as one transaction.
Persisted(s, t) == [s.disk EXCEPT ![t] = s.mem[t]]

Effect(s, e) ==
    CASE e.kind = "put" -> [s EXCEPT !.mem[e.task] = e.record]
      [] e.kind = "save" -> [s EXCEPT !.disk = Persisted(s, e.task)]
      [] e.kind = "emit" ->
            [s EXCEPT !.replayed[e.task] = Replay(@, e.event),
                      !.acceptances[e.task] = IF e.event = "TASK_COMMIT_ACCEPTED"
                                              THEN @ + 1 ELSE @]

\* The states that `effects` lead through from `start`, by the number of
\* effects that happened.
States(start, effects) ==
    LET s[k \in 0 .. Len(effects)] ==
            IF k = 0 THEN start ELSE Effect(s[k - 1], effects[k])
    IN  s

After(effects, k) == States(Stored, effects)[k]

\* The durable parts after the first k effects.
Leaves(effects, k) ==
    LET s == After(effects, k)
    IN  /\ disk' = s.disk
        /\ replayed' = s.replayed
        /\ acceptances' = s.acceptances

\* The whole call.
Returns(effects) ==
    /\ Leaves(effects, Len(effects))
    /\ mem' = After(effects, Len(effects)).mem
    /\ UNCHANGED happened

\* The call ends in the exception of one of its appends.
Raises(effects) ==
    /\ "emit" \in Faults
    /\ \E k \in DOMAIN effects :
          /\ effects[k].kind = "emit"
          /\ Leaves(effects, k - 1)
          /\ mem' = After(effects, k - 1).mem
    /\ happened' = happened \cup {"emit"}
    /\ UNCHANGED <<handed, told>>

\* The tasks of `order` that have a row.
WithRow(rows, order) ==
    LET kept[k \in 0 .. Len(order)] ==
            IF k = 0 THEN <<>>
            ELSE IF rows[order[k]].state = "ABSENT" THEN kept[k - 1]
            ELSE Append(kept[k - 1], order[k])
    IN  kept[Len(order)]

\* What a new process finds: the rows, in the order they were added, become
\* the cache (_load).
Rehydrated(rows, order) ==
    /\ mem' = rows
    /\ queue' = WithRow(rows, order)

\* The process dies inside the call, and a new one takes over.
Dies(effects, order) ==
    /\ "crash" \in Faults
    /\ \E k \in 0 .. Len(effects) :
          Leaves(effects, k) /\ Rehydrated(After(effects, k).disk, order)
    /\ happened' = happened \cup {"crash"}
    /\ UNCHANGED <<handed, told>>

(***************************************************************************)
(* The effects of each call, in the order of the code                      *)
(***************************************************************************)

\* _release: the event is appended before the record is saved.
ReleaseEffects(t, r) ==
    LET freed == Manager!Release(t, r)
    IN  <<Put(t, freed),
          Emit(t, IF freed.state = "FAILED" THEN "TASK_EXHAUSTED" ELSE "TASK_REQUEUED"),
          Save(t)>>

ExpireEffects(t) == <<Emit(t, "LEASE_EXPIRED")>> \o ReleaseEffects(t, mem[t])

\* sweep: the lapsed leases one after the other, in queue order.
SweepEffects ==
    LET swept[k \in 0 .. Len(queue)] ==
            IF k = 0 THEN <<>>
            ELSE IF Manager!Lapsed(mem[queue[k]])
                 THEN swept[k - 1] \o ExpireEffects(queue[k])
                 ELSE swept[k - 1]
    IN  swept[Len(queue)]

AddEffects(t) == <<Put(t, Manager!NewRecord), Save(t), Emit(t, "TASK_CREATED")>>

\* cancel_task, with the save forgotten.
CancelEffectsUnsaved(t) ==
    IF mem[t].state \in Manager!Terminal THEN <<>>
    ELSE <<Put(t, Manager!Cancelled(mem[t]))>>

\* cancel_task: saved, and no event.
CancelEffects(t) ==
    IF mem[t].state \in Manager!Terminal THEN <<>>
    ELSE <<Put(t, Manager!Cancelled(mem[t])), Save(t)>>

\* claim, with the save left to the first heartbeat.
LeaseEffectsUnsaved(t, n) ==
    <<Put(t, Manager!Leased(t, Manager!SweptTasks[t], n)), Emit(t, "LEASE_CLAIMED")>>

LeaseEffects(t, n) ==
    <<Put(t, Manager!Leased(t, Manager!SweptTasks[t], n)), Save(t), Emit(t, "LEASE_CLAIMED")>>

RenewEffects(t) ==
    <<Put(t, [mem[t] EXCEPT !.ttl = LeaseTime[t]]), Save(t), Emit(t, "LEASE_RENEWED")>>

\* complete, with the event recorded before the result is saved.
AcceptEffectsEventFirst(t, i) ==
    <<Put(t, [mem[t] EXCEPT !.state = "COMPLETED", !.accepted = i, !.active = 0, !.ttl = 0]),
      Emit(t, "TASK_COMMIT_ACCEPTED"), Save(t)>>

AcceptEffects(t, i) ==
    <<Put(t, [mem[t] EXCEPT !.state = "COMPLETED", !.accepted = i, !.active = 0, !.ttl = 0]),
      Save(t), Emit(t, "TASK_COMMIT_ACCEPTED")>>

RejectEffects(t) == <<Emit(t, "TASK_COMMIT_REJECTED")>>

FailEffects(t) == <<Emit(t, "TASK_ATTEMPT_FAILED")>> \o ReleaseEffects(t, mem[t])

(***************************************************************************)
(* Calls                                                                   *)
(***************************************************************************)

Init ==
    /\ mem = [t \in Tasks |-> Manager!NoRecord]
    /\ disk = mem
    /\ queue = <<>>
    /\ replayed = [t \in Tasks |-> "ABSENT"]
    /\ acceptances = [t \in Tasks |-> 0]
    /\ handed = {}
    /\ told = {}
    /\ happened = {}

AddTask(t) ==
    LET effects == AddEffects(t)
        order == Append(queue, t)
    IN  /\ mem[t].state = "ABSENT"
        /\ \/ Returns(effects) /\ queue' = order /\ UNCHANGED <<handed, told>>
           \/ Raises(effects) /\ queue' = order
           \/ Dies(effects, order)

CancelTask(t) ==
    LET effects == CancelEffects(t)
    IN  /\ mem[t].state # "ABSENT"
        /\ \/ Returns(effects) /\ UNCHANGED <<queue, handed, told>>
           \/ Dies(effects, queue)

Claim(n) ==
    LET cands == Manager!Candidates(Manager!SweptTasks, Jobs, Fits[n])
    IN  \/ /\ cands = {}
           /\ Returns(SweepEffects)
           /\ UNCHANGED <<queue, handed, told>>
        \/ \E t \in cands :
              LET effects == SweepEffects \o LeaseEffects(t, n)
              IN  /\ Manager!FirstInQueue(cands, t)
                  /\ \/ /\ Returns(effects)
                        /\ handed' = handed \cup {<<t, Len(mem[t].history) + 1>>}
                        /\ UNCHANGED <<queue, told>>
                     \/ Raises(effects) /\ UNCHANGED queue
                     \/ Dies(effects, queue)

\* A worker names a lease it was handed.
Heartbeat(t, i) ==
    LET effects == RenewEffects(t)
    IN  /\ Manager!IsLive(t, i)
        /\ \/ Returns(effects) /\ UNCHANGED <<queue, handed, told>>
           \/ Raises(effects) /\ UNCHANGED queue
           \/ Dies(effects, queue)

CompleteAccepted(t, i) ==
    LET effects == AcceptEffects(t, i)
    IN  /\ Manager!IsLive(t, i)
        /\ \/ Returns(effects) /\ told' = told \cup {<<t, i>>} /\ UNCHANGED <<queue, handed>>
           \/ Raises(effects) /\ UNCHANGED queue
           \/ Dies(effects, queue)

CompleteRejected(t, i) ==
    /\ ~Manager!IsLive(t, i)
    /\ Returns(RejectEffects(t))
    /\ UNCHANGED <<queue, handed, told>>

Fail(t, i) ==
    LET effects == FailEffects(t)
    IN  /\ Manager!IsLive(t, i)
        /\ \/ Returns(effects) /\ UNCHANGED <<queue, handed, told>>
           \/ Raises(effects) /\ UNCHANGED queue
           \/ Dies(effects, queue)

Sweep ==
    \/ Returns(SweepEffects) /\ UNCHANGED <<queue, handed, told>>
    \/ Raises(SweepEffects) /\ UNCHANGED queue
    \/ Dies(SweepEffects, queue)

\* The process is restarted between two calls.
Restart ==
    /\ Rehydrated(disk, queue)
    /\ UNCHANGED <<disk, replayed, acceptances, handed, told, happened>>

Aged(table) == [t \in Tasks |-> [table[t] EXCEPT !.ttl = IF @ = 0 THEN 0 ELSE @ - 1]]

Tick ==
    /\ mem' = Aged(mem)
    /\ disk' = Aged(disk)
    /\ UNCHANGED <<queue, replayed, acceptances, handed, told, happened>>

Next ==
    \/ \E t \in Tasks : AddTask(t)
    \/ \E t \in Tasks : CancelTask(t)
    \/ \E n \in Nodes : Claim(n)
    \/ \E h \in handed : Heartbeat(h[1], h[2])
    \/ \E h \in handed : CompleteAccepted(h[1], h[2])
    \/ \E h \in handed : CompleteRejected(h[1], h[2])
    \/ \E h \in handed : Fail(h[1], h[2])
    \/ Sweep
    \/ Restart
    \/ Tick

Spec == Init /\ [][Next]_vars

-----------------------------------------------------------------------------
(***************************************************************************)
(* Properties                                                              *)
(***************************************************************************)

\* Every variable has its type.
TypeOK ==
    /\ mem \in [Tasks -> Manager!TaskRecord]
    /\ disk \in [Tasks -> Manager!TaskRecord]
    /\ queue \in Seq(Tasks)
    /\ replayed \in [Tasks -> Manager!TaskState]
    /\ acceptances \in [Tasks -> Nat]
    /\ handed \subseteq Tasks \X Nat
    /\ told \subseteq Tasks \X Nat
    /\ happened \subseteq Faults

\* While no append to the ledger has raised, the database holds exactly what
\* memory holds between two calls, wherever the process died inside a call.
\* (store.py: the manager "calls save(record) after every state transition".)
DiskIsMemory == TypeOK /\ ("emit" \notin happened => disk = mem)

\* No task is reopened: once the coordinator has shown a task COMPLETED,
\* FAILED or CANCELLED, no later call, crash or restart changes its record
\* (manager.py, cancel_task: "terminal states are final").
TerminalIsFinal ==
    [][\A t \in Tasks : mem[t].state \in Manager!Terminal => mem'[t] = mem[t]]_vars

\* A lease that was returned to a worker is in the database with its task, so
\* that it can still be renewed, committed or rejected by a later process
\* (sqlite_store.py, module comment).
HandedLeaseIsDurable ==
    \A h \in handed : h[2] \in DOMAIN disk[h[1]].history

\* A worker told that its commit was accepted is the only one ever told so
\* for its task, and the database says the same, across crashes and failed
\* appends (manager.py, complete: "exactly one accepted output per task, ever").
AcceptedForGood ==
    \A h \in told : /\ \A g \in told : g[1] = h[1] => g = h
                    /\ disk[h[1]].accepted = h[2]
                    /\ mem[h[1]].accepted = h[2]

\* What workers were told holds for good: both of the above.
WhatWasToldStands == HandedLeaseIsDurable /\ AcceptedForGood

\* The ledger never shows an acceptance the database does not hold, nor two
\* of one task, however often the process dies in the middle of a commit.
LedgerShowsAcceptedOnce ==
    \A t \in Tasks : /\ acceptances[t] <= 1
                     /\ acceptances[t] = 1 => disk[t].state = "COMPLETED"

\* While no call was cut short, replaying the ledger gives the status of each
\* task that was not cancelled, through sweeps inside claims, late commits and
\* restarts (docs/site/concepts/architecture.md: "Status is derived from an
\* append-only ledger of events").
ReplayUnlessCancelled ==
    happened = {} =>
        \A t \in Tasks : mem[t].state # "CANCELLED" => replayed[t] = mem[t].state

\* What a reader concludes from the ledger is so: both of the above.
LedgerIsTrue == LedgerShowsAcceptedOnce /\ ReplayUnlessCancelled

\* What the database says of each task obeys the contract of TaskContract in
\* every step, whichever appends fail and wherever the process dies.
DurableContract == INSTANCE TaskContract WITH
    phase  <- [t \in Tasks |-> Manager!PhaseOf(disk[t].state)],
    issued <- [t \in Tasks |-> disk[t].attempts_used],
    winner <- [t \in Tasks |-> disk[t].accepted]

\* Each step of the database is a step of the contract, or none of it.
DiskImplementsContract == DurableContract!Spec
=============================================================================
