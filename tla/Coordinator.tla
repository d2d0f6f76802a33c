----------------------------- MODULE Coordinator -----------------------------
(***************************************************************************)
(* The Mode A coordinator (service/modea.py): the node registry, the       *)
(* artifact files and the HTTP routes in front of the lease manager.       *)
(*                                                                         *)
(* The routes run on one event loop, so each is atomic except PUT of an    *)
(* artifact, which awaits the request body between its two authorization   *)
(* checks.  Requests reach the coordinator in any order, late, twice or    *)
(* never: a node may at any time send any request about any lease it was   *)
(* ever issued.  Attempts produce different bytes, so the content of a     *)
(* file is the place in the task's history of the attempt that made it.    *)
(***************************************************************************)
EXTENDS Integers, Sequences, FiniteSets, TLC

CONSTANTS Tasks, Jobs, Nodes, JobOf, MaxAttempts, LeaseTime,
    Profiles,     \* what a node may tell of itself: capabilities and pools
    Offers,       \* the profiles each node may register or be stamped with
    Eligible,     \* the tasks the placement policy allows each profile
    Enforcing,    \* whether the authenticator enforces node identities
    MaxUploads    \* bound on the artifact bodies in flight at a time

ASSUME TaskAssumption ==
    /\ JobOf \in [Tasks -> Jobs]
    /\ MaxAttempts \in [Tasks -> Nat \ {0}]
    /\ LeaseTime \in [Tasks -> Nat \ {0}]
ASSUME ProfileAssumption ==
    /\ Offers \in [Nodes -> SUBSET Profiles]
    /\ Eligible \in [Profiles -> SUBSET Tasks]
ASSUME EnforcingAssumption == Enforcing \in BOOLEAN
ASSUME MaxUploadsAssumption == MaxUploads \in Nat

VARIABLES
    tasks, queue, \* the lease table: durable, it survives a restart
    nodes,        \* the registry: a function from the registered nodes
    files,        \* per task, what lies at its commit key
    uploads,      \* PUTs that passed the first check and await their body
    landed        \* the leases whose own output was written while they lived

vars == <<tasks, queue, nodes, files, uploads, landed>>
table == <<tasks, queue>>

Manager == INSTANCE LeaseManager WITH Fits <- [n \in Nodes |-> Tasks]

NoFile == 0
Torn == -1        \* what a process that died inside write_bytes leaves

NodeEntry == [profile : Profiles, accepted : Nat]
Upload == [node : Nodes, task : Tasks, made : Nat]

\* The node that was issued the lease at place i of t's history.
Holder(t, i) == tasks[t].history[i].node

\* The tasks whose keys node n may write (live_leases_for_node).
Writable(n) ==
    {t \in Tasks : /\ Manager!IsLive(t, tasks[t].active)
                   /\ Holder(t, tasks[t].active) = n}

\* _authorize_write, for a node.
MayWrite(n, t) == Enforcing => t \in Writable(n)

\* The second check of put_artifact, left out.
LandsUnchecked(u) == TRUE

\* The second check of put_artifact: the lease may be gone by now.
Lands(u) == MayWrite(u.node, u.task)

\* _output_valid, for any file that exists.
ValidIfPresent(t, i) == files[t] # NoFile

\* _output_valid: the file exists and has the bytes the worker claims.
OutputValid(t, i) == files[t] = i

\* The credit given for a valid output, whether or not its commit counted.
CreditedForValid(t, i, accepted) ==
    LET n == Holder(t, i)
    IN  IF n \in DOMAIN nodes THEN [nodes EXCEPT ![n].accepted = @ + 1] ELSE nodes

\* Credit for accepted work only, and only to a node that is registered.
Credited(t, i, accepted) ==
    LET n == Holder(t, i)
    IN  IF accepted /\ n \in DOMAIN nodes
        THEN [nodes EXCEPT ![n].accepted = @ + 1] ELSE nodes

(***************************************************************************)
(* Routes                                                                  *)
(***************************************************************************)

Init ==
    /\ Manager!Init
    /\ nodes = <<>>
    /\ files = [t \in Tasks |-> NoFile]
    /\ uploads = {}
    /\ landed = {}

\* A job is submitted: its tasks enter the lease table.
AddTask(t) == Manager!AddTask(t) /\ UNCHANGED <<nodes, files, uploads, landed>>

\* A job is cancelled.
CancelTask(t) == Manager!CancelTask(t) /\ UNCHANGED <<nodes, files, uploads, landed>>

\* register: a registration replaces the node's entry, its credit included.
RegisterNode(n, p) ==
    /\ p \in Offers[n]
    /\ nodes' = [m \in DOMAIN nodes \cup {n} |->
                    IF m = n THEN [profile |-> p, accepted |-> 0] ELSE nodes[m]]
    /\ UNCHANGED <<table, files, uploads, landed>>

\* node heartbeat: may bring a new list of pools; unknown nodes are refused.
NodeHeartbeat(n, p) ==
    /\ n \in DOMAIN nodes
    /\ p \in Offers[n]
    /\ nodes' = [nodes EXCEPT ![n].profile = p]
    /\ UNCHANGED <<table, files, uploads, landed>>

\* claim: for registered nodes, through the placement policy.
Claim(n, scope) ==
    /\ n \in DOMAIN nodes
    /\ Manager!Claim(n, scope, Eligible[nodes[n].profile])
    /\ UNCHANGED <<nodes, files, uploads, landed>>

AttemptHeartbeat(t, i) ==
    Manager!Heartbeat(t, i) /\ UNCHANGED <<nodes, files, uploads, landed>>

\* complete: a live attempt whose output does not check out is failed; any
\* other is committed, or rejected as late.
AttemptComplete(t, i) ==
    \/ /\ ~OutputValid(t, i)
       /\ Manager!Fail(t, i)
       /\ UNCHANGED <<nodes, files, uploads, landed>>
    \/ /\ OutputValid(t, i) \/ ~Manager!IsLive(t, i)
       /\ Manager!Complete(t, i)
       /\ nodes' = Credited(t, i, tasks'[t].state # tasks[t].state)
       /\ UNCHANGED <<files, uploads, landed>>

AttemptFail(t, i) ==
    Manager!Fail(t, i) /\ UNCHANGED <<nodes, files, uploads, landed>>

Sweep == Manager!Sweep /\ UNCHANGED <<nodes, files, uploads, landed>>

\* put_artifact up to the await: the worker of lease i sends its output.
StartPut(t, i) ==
    LET u == [node |-> Holder(t, i), task |-> t, made |-> i]
    IN  /\ MayWrite(u.node, t)
        /\ Cardinality(uploads) < MaxUploads
        /\ uploads' = uploads \cup {u}
        /\ UNCHANGED <<table, nodes, files, landed>>

\* put_artifact from the await on: the body is here, the lease checked again.
FinishPut(u) ==
    /\ uploads' = uploads \ {u}
    /\ IF Lands(u)
       THEN /\ files' = [files EXCEPT ![u.task] = u.made]
            /\ landed' = IF Manager!IsLive(u.task, u.made)
                         THEN landed \cup {<<u.task, u.made>>} ELSE landed
       ELSE UNCHANGED <<files, landed>>
    /\ UNCHANGED <<table, nodes>>

\* The client hangs up, or sends more than the limit.
DropPut(u) ==
    /\ uploads' = uploads \ {u}
    /\ UNCHANGED <<table, nodes, files, landed>>

\* The process is restarted: registry and requests in flight are gone.
Restart ==
    /\ nodes' = <<>>
    /\ uploads' = {}
    /\ UNCHANGED <<table, files, landed>>

\* It died while it was writing the body of u.
RestartWriting(u) ==
    /\ Lands(u)
    /\ files' = [files EXCEPT ![u.task] = Torn]
    /\ nodes' = <<>>
    /\ uploads' = {}
    /\ UNCHANGED <<table, landed>>

Tick == Manager!Tick /\ UNCHANGED <<nodes, files, uploads, landed>>

Next ==
    \/ \E t \in Tasks : AddTask(t)
    \/ \E t \in Tasks : CancelTask(t)
    \/ \E n \in Nodes, p \in Profiles : RegisterNode(n, p)
    \/ \E n \in Nodes, p \in Profiles : NodeHeartbeat(n, p)
    \/ \E n \in Nodes, j \in Jobs : Claim(n, {j})
    \/ \E n \in Nodes : Claim(n, Jobs)
    \/ \E t \in Tasks : \E i \in Manager!Issued(t) : AttemptHeartbeat(t, i)
    \/ \E t \in Tasks : \E i \in Manager!Issued(t) : AttemptComplete(t, i)
    \/ \E t \in Tasks : \E i \in Manager!Issued(t) : AttemptFail(t, i)
    \/ \E t \in Tasks : \E i \in Manager!Issued(t) : StartPut(t, i)
    \/ \E u \in uploads : FinishPut(u)
    \/ \E u \in uploads : DropPut(u)
    \/ \E u \in uploads : RestartWriting(u)
    \/ Sweep
    \/ Restart
    \/ Tick

Spec == Init /\ [][Next]_vars

-----------------------------------------------------------------------------
(***************************************************************************)
(* Properties                                                              *)
(***************************************************************************)

\* Every variable has its type.
TypeOK ==
    /\ Manager!TypeOK
    /\ DOMAIN nodes \subseteq Nodes
    /\ \A n \in DOMAIN nodes : nodes[n] \in NodeEntry
    /\ files \in [Tasks -> Nat \cup {Torn}]
    /\ uploads \subseteq Upload
    /\ landed \subseteq Tasks \X Nat

\* The file of a completed task is, and stays, the output of the accepted
\* attempt: neither a late upload that was authorized before the commit nor
\* one of a superseded worker ends up in its place (modea.py, put_artifact
\* and attempt_complete).
AcceptedOutputStands ==
    \A t \in Tasks : tasks[t].state = "COMPLETED" => files[t] = tasks[t].accepted

\* A late or duplicate upload never replaces the output of an accepted
\* attempt (docs/site/concepts/architecture.md: "a duplicate or corrupt
\* commit cannot poison the job").
DuplicateCannotPoison ==
    \A t \in Tasks : tasks[t].state = "COMPLETED" => files[t] \in {tasks[t].accepted, Torn}

\* What the holder of a task has uploaded is only ever overwritten by itself:
\* no other node's late upload makes a good attempt fail its validation.
HoldersUploadStands ==
    \A h \in landed :
        LET t == h[1]
            i == h[2]
        IN  tasks[t].active = i /\ files[t] # i =>
               files[t] = Torn \/ Holder(t, files[t]) = Holder(t, i)

\* A node is never credited with more tasks than it has accepted attempts
\* for, whatever is sent twice or late ("credit accepted work only").
CreditIsEarned ==
    \A n \in DOMAIN nodes :
        nodes[n].accepted <=
            Cardinality({t \in Tasks : /\ tasks[t].accepted # 0
                                       /\ Holder(t, tasks[t].accepted) = n})
=============================================================================
