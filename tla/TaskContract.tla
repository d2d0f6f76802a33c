---------------------------- MODULE TaskContract ----------------------------
(***************************************************************************)
(* What the lease manager promises of every task, with no clock, no queue  *)
(* and no nodes: a task is granted at most MaxAttempts times, one grant at *)
(* a time; it is won at most once and only by its latest grant; and once   *)
(* it is won, spent or withdrawn nothing about it changes again.           *)
(* Several tasks may move in one step (a sweep releases many of them).     *)
(***************************************************************************)
EXTENDS Naturals

CONSTANTS Tasks, MaxAttempts

VARIABLES
    phase,    \* where each task is in its life
    issued,   \* how many grants it has had
    winner    \* the grant whose result was accepted, 0 for none

vars == <<phase, issued, winner>>

Phase == {"new", "open", "held", "won", "spent", "withdrawn"}

Init ==
    /\ phase = [t \in Tasks |-> "new"]
    /\ issued = [t \in Tasks |-> 0]
    /\ winner = [t \in Tasks |-> 0]

\* The task moves from one of the phases in `from` to `to`.
Moves(t, from, to) == phase[t] \in from /\ phase'[t] = to

KeepsIssued(t) == issued'[t] = issued[t]
KeepsWinner(t) == winner'[t] = winner[t]

Register(t) == Moves(t, {"new"}, "open") /\ KeepsIssued(t) /\ KeepsWinner(t)

\* A grant, of an open task or of one whose holder is given up on.
Grant(t) ==
    /\ Moves(t, {"open", "held"}, "held")
    /\ issued[t] < MaxAttempts[t]
    /\ issued'[t] = issued[t] + 1
    /\ KeepsWinner(t)

\* The holder fails or goes silent: back to the queue, or out of attempts.
Drop(t) ==
    /\ IF issued[t] < MaxAttempts[t]
       THEN Moves(t, {"held"}, "open")
       ELSE Moves(t, {"held"}, "spent")
    /\ KeepsIssued(t)
    /\ KeepsWinner(t)

\* The latest grant, and no other, is the one whose result counts.
Win(t) ==
    /\ Moves(t, {"held"}, "won")
    /\ winner'[t] = issued[t]
    /\ KeepsIssued(t)

Withdraw(t) == Moves(t, {"open", "held"}, "withdrawn") /\ KeepsIssued(t) /\ KeepsWinner(t)

Stays(t) == phase'[t] = phase[t] /\ KeepsIssued(t) /\ KeepsWinner(t)

TaskStep(t) == Register(t) \/ Grant(t) \/ Drop(t) \/ Win(t) \/ Withdraw(t) \/ Stays(t)

Next ==
    /\ phase' \in [Tasks -> Phase]
    /\ issued' \in [Tasks -> Nat]
    /\ winner' \in [Tasks -> Nat]
    /\ \A t \in Tasks : TaskStep(t)

Spec == Init /\ [][Next]_vars
=============================================================================
