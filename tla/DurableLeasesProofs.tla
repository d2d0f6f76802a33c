------------------------- MODULE DurableLeasesProofs -------------------------
(***************************************************************************)
(* Proofs about DurableLeases, for any tasks, nodes, jobs, placement,      *)
(* attempt budgets and lease times, and for either fault or both.          *)
(*                                                                         *)
(* A call may be cut after any of its effects, so what has to be shown of  *)
(* a call is a fact about each of the states it passes through.  The sets  *)
(* Seen, Halting and Settled say what holds wherever the process may die,  *)
(* wherever an append may raise, and at the end of a call.  A call whose   *)
(* effects keep to them (Guarded, and an end in Settled) preserves the     *)
(* invariant whichever way it ends.  The effects of a sweep are handled by *)
(* induction on the queue, which is an argument by least counterexample.   *)
(***************************************************************************)
EXTENDS DurableLeases, WellFoundedInduction, TLAPS

(***************************************************************************)
(* Induction on numbers, and the recursive definitions                     *)
(***************************************************************************)

\* A set that has 0, and k when it has k - 1, has every number up to n: a
\* least number that it misses has nothing to be missed for.
LEMMA UpTo ==
    ASSUME NEW n \in Nat, NEW T, 0 \in T, \A k \in 1 .. n : k - 1 \in T => k \in T
    PROVE  0 .. n \subseteq T
  <1> DEFINE R == OpToRel(<, Nat)
             Missed == {k \in 0 .. n : k \notin T}
  <1>1. \A k, m \in Nat : k < m => <<k, m>> \in R
    BY DEF OpToRel
  <1>2. SUFFICES ASSUME Missed # {}
                 PROVE  FALSE
    OBVIOUS
  <1>3. PICK m \in Missed : \A k \in Missed : ~(<<k, m>> \in R)
    <2>1. Missed \subseteq Nat
      OBVIOUS
    <2> HIDE DEF Missed
    <2> QED
      BY <1>2, <2>1, NatLessThanWellFounded, WFMin
  <1> HIDE DEF R
  <1>4. m \in 1 .. n /\ m - 1 \in 0 .. n /\ m - 1 < m
    BY <1>3
  <1>5. m - 1 \notin Missed
    <2>1. <<m - 1, m>> \in R
      BY <1>1, <1>4
    <2> HIDE DEF Missed
    <2> QED
      BY <1>3, <2>1
  <1> QED
    BY <1>3, <1>4, <1>5

\* The recursion that defines States has a solution, and States is one.
LEMMA StatesRule ==
    ASSUME NEW start, NEW effects, Len(effects) \in Nat
    PROVE  /\ States(start, effects)[0] = start
           /\ \A k \in 1 .. Len(effects) :
                 States(start, effects)[k] = Effect(States(start, effects)[k - 1], effects[k])
  <1> DEFINE Solves(n, f) ==
                 f = [k \in 0 .. n |-> IF k = 0 THEN start ELSE Effect(f[k - 1], effects[k])]
             T == {n \in Nat : \E f : Solves(n, f)}
  <1>1. 0 \in T
    <2>1. Solves(0, [k \in 0 .. 0 |-> start])
      OBVIOUS
    <2> QED
      BY <2>1
  <1>2. ASSUME NEW n \in 1 .. Len(effects), n - 1 \in T
        PROVE  n \in T
    <2>1. PICK g : Solves(n - 1, g)
      BY <1>2
    <2> DEFINE h == [k \in 0 .. n |-> IF k = n THEN Effect(g[n - 1], effects[n]) ELSE g[k]]
    <2>2. Solves(n, h)
      BY <2>1
    <2>3. \E f : Solves(n, f)
      <3> HIDE DEF Solves, h
      <3> QED
        BY <2>2
    <2> QED
      BY <2>3
  <1>3. Len(effects) \in T
    <2> HIDE DEF T
    <2>1. 0 .. Len(effects) \subseteq T
      BY <1>1, <1>2, UpTo
    <2> QED
      BY <2>1
  <1>4. States(start, effects) = CHOOSE f : Solves(Len(effects), f)
    BY DEF States
  <1>5. Solves(Len(effects), States(start, effects))
    <2> HIDE DEF Solves
    <2> QED
      BY <1>3, <1>4
  <1> QED
    BY <1>5

\* So has the recursion of WithRow, and it only picks tasks of the order.
LEMMA WithRowIsSeq ==
    ASSUME NEW rows, NEW order \in Seq(Tasks)
    PROVE  WithRow(rows, order) \in Seq(Tasks)
  <1> DEFINE Next1(kept, k) == IF rows[order[k]].state = "ABSENT" THEN kept
                               ELSE Append(kept, order[k])
             Solves(n, f) == f = [k \in 0 .. n |-> IF k = 0 THEN <<>> ELSE Next1(f[k - 1], k)]
             T == {n \in Nat : \E f : Solves(n, f)}
             f0 == CHOOSE f : Solves(Len(order), f)
  <1>0. Len(order) \in Nat
    OBVIOUS
  <1>1. WithRow(rows, order) = f0[Len(order)]
    BY DEF WithRow
  <1>2. \A kept \in Seq(Tasks), k \in 1 .. Len(order) : Next1(kept, k) \in Seq(Tasks)
    OBVIOUS
  <1> HIDE DEF Next1
  <1>3. 0 \in T
    <2>1. Solves(0, [k \in 0 .. 0 |-> <<>>])
      OBVIOUS
    <2> QED
      BY <2>1
  <1>4. ASSUME NEW n \in 1 .. Len(order), n - 1 \in T
        PROVE  n \in T
    <2>1. PICK g : Solves(n - 1, g)
      BY <1>4
    <2> DEFINE h == [k \in 0 .. n |-> IF k = n THEN Next1(g[n - 1], n) ELSE g[k]]
    <2>2. Solves(n, h)
      BY <2>1
    <2>3. \E f : Solves(n, f)
      <3> HIDE DEF Solves, h
      <3> QED
        BY <2>2
    <2> QED
      BY <2>3
  <1>5. Len(order) \in T
    <2> HIDE DEF T
    <2>1. 0 .. Len(order) \subseteq T
      BY <1>0, <1>3, <1>4, UpTo
    <2> QED
      BY <1>0, <2>1
  <1>6. Solves(Len(order), f0)
    <2> HIDE DEF Solves
    <2> QED
      BY <1>5
  <1> DEFINE U == {k \in 0 .. Len(order) : f0[k] \in Seq(Tasks)}
  <1> HIDE DEF f0
  <1>7. 0 \in U
    BY <1>6
  <1>8. ASSUME NEW k \in 1 .. Len(order), k - 1 \in U
        PROVE  k \in U
    <2>1. f0[k] = Next1(f0[k - 1], k) /\ f0[k - 1] \in Seq(Tasks)
      BY <1>0, <1>6, <1>8
    <2> QED
      BY <1>2, <2>1
  <1>9. Len(order) \in U
    <2> HIDE DEF U
    <2>1. 0 .. Len(order) \subseteq U
      BY <1>0, <1>7, <1>8, UpTo
    <2> QED
      BY <1>0, <2>1
  <1> QED
    BY <1>1, <1>9

\* And so has that of SweepEffects.
LEMMA SweepRule ==
    ASSUME queue \in Seq(Tasks)
    PROVE  \E es : /\ es[0] = <<>>
                   /\ SweepEffects = es[Len(queue)]
                   /\ \A k \in 1 .. Len(queue) :
                         es[k] = IF Manager!Lapsed(mem[queue[k]])
                                 THEN es[k - 1] \o ExpireEffects(queue[k])
                                 ELSE es[k - 1]
  <1> DEFINE Next1(es, k) == IF Manager!Lapsed(mem[queue[k]])
                             THEN es \o ExpireEffects(queue[k])
                             ELSE es
             Solves(n, f) == f = [k \in 0 .. n |-> IF k = 0 THEN <<>> ELSE Next1(f[k - 1], k)]
             T == {n \in Nat : \E f : Solves(n, f)}
             f0 == CHOOSE f : Solves(Len(queue), f)
  <1>0. Len(queue) \in Nat
    OBVIOUS
  <1>1. SweepEffects = f0[Len(queue)]
    BY DEF SweepEffects
  <1>2. \A es : \A k \in 1 .. Len(queue) :
            Next1(es, k) = IF Manager!Lapsed(mem[queue[k]])
                           THEN es \o ExpireEffects(queue[k])
                           ELSE es
    OBVIOUS
  <1> HIDE DEF Next1
  <1>3. 0 \in T
    <2>1. Solves(0, [k \in 0 .. 0 |-> <<>>])
      OBVIOUS
    <2> QED
      BY <2>1
  <1>4. ASSUME NEW n \in 1 .. Len(queue), n - 1 \in T
        PROVE  n \in T
    <2>1. PICK g : Solves(n - 1, g)
      BY <1>4
    <2> DEFINE h == [k \in 0 .. n |-> IF k = n THEN Next1(g[n - 1], n) ELSE g[k]]
    <2>2. Solves(n, h)
      BY <2>1
    <2>3. \E f : Solves(n, f)
      <3> HIDE DEF Solves, h
      <3> QED
        BY <2>2
    <2> QED
      BY <2>3
  <1>5. Len(queue) \in T
    <2> HIDE DEF T
    <2>1. 0 .. Len(queue) \subseteq T
      BY <1>0, <1>3, <1>4, UpTo
    <2> QED
      BY <1>0, <2>1
  <1>6. Solves(Len(queue), f0)
    <2> HIDE DEF Solves
    <2> QED
      BY <1>5
  <1> HIDE DEF f0
  <1>7. f0[0] = <<>> /\ \A k \in 1 .. Len(queue) : f0[k] = Next1(f0[k - 1], k)
    BY <1>0, <1>6
  <1>8. \A k \in 1 .. Len(queue) :
            f0[k] = IF Manager!Lapsed(mem[queue[k]])
                    THEN f0[k - 1] \o ExpireEffects(queue[k])
                    ELSE f0[k - 1]
    BY <1>7 DEF Next1
  <1> QED
    BY <1>1, <1>7, <1>8

-----------------------------------------------------------------------------
(***************************************************************************)
(* What one effect does                                                    *)
(***************************************************************************)

\* The states an effect applies to, and the effects.
AnyState ==
    [mem         : [Tasks -> Manager!TaskRecord],
     disk        : [Tasks -> Manager!TaskRecord],
     replayed    : [Tasks -> Manager!TaskState],
     acceptances : [Tasks -> Nat]]

Events ==
    {"TASK_CREATED", "LEASE_CLAIMED", "LEASE_RENEWED", "LEASE_EXPIRED", "TASK_REQUEUED",
     "TASK_EXHAUSTED", "TASK_ATTEMPT_FAILED", "TASK_COMMIT_ACCEPTED", "TASK_COMMIT_REJECTED"}

AnyEffect ==
    [kind : {"put"}, task : Tasks, record : Manager!TaskRecord]
        \cup [kind : {"save"}, task : Tasks]
        \cup [kind : {"emit"}, task : Tasks, event : Events]

\* Two states that agree on a task.
SameAt(u, s, q) ==
    /\ q.mem[u] = s.mem[u] /\ q.disk[u] = s.disk[u]
    /\ q.replayed[u] = s.replayed[u] /\ q.acceptances[u] = s.acceptances[u]

\* A put changes the record in memory of its task.
LEMMA PutEffect ==
    ASSUME NEW s \in AnyState, NEW t \in Tasks, NEW r \in Manager!TaskRecord,
           NEW q, q = Effect(s, Put(t, r))
    PROVE  /\ q \in AnyState /\ Put(t, r) \in AnyEffect /\ Put(t, r).kind = "put"
           /\ q.mem[t] = r /\ q.disk[t] = s.disk[t]
           /\ q.replayed[t] = s.replayed[t] /\ q.acceptances[t] = s.acceptances[t]
           /\ \A u \in Tasks \ {t} : SameAt(u, s, q)
  <1>1. Put(t, r).kind = "put" /\ Put(t, r).task = t /\ Put(t, r).record = r
    BY DEF Put
  <1>2. Put(t, r) \in AnyEffect
    BY DEF Put, AnyEffect
  <1>3. q = [s EXCEPT !.mem[t] = r]
    BY <1>1 DEF Effect
  <1> QED
    BY <1>1, <1>2, <1>3 DEF AnyState, SameAt

\* A save copies it to the database.
LEMMA SaveEffect ==
    ASSUME NEW s \in AnyState, NEW t \in Tasks, NEW q, q = Effect(s, Save(t))
    PROVE  /\ q \in AnyState /\ Save(t) \in AnyEffect /\ Save(t).kind = "save"
           /\ q.mem[t] = s.mem[t] /\ q.disk[t] = s.mem[t]
           /\ q.replayed[t] = s.replayed[t] /\ q.acceptances[t] = s.acceptances[t]
           /\ \A u \in Tasks \ {t} : SameAt(u, s, q)
  <1>1. Save(t).kind = "save" /\ Save(t).task = t
    BY DEF Save
  <1>2. Save(t) \in AnyEffect
    BY DEF Save, AnyEffect
  <1>3. q = [s EXCEPT !.disk = [s.disk EXCEPT ![t] = s.mem[t]]]
    BY <1>1 DEF Effect, Persisted
  <1> QED
    BY <1>1, <1>2, <1>3 DEF AnyState, SameAt

\* An append moves what the ledger shows of its task.
LEMMA EmitEffect ==
    ASSUME NEW s \in AnyState, NEW t \in Tasks, NEW e \in Events,
           NEW q, q = Effect(s, Emit(t, e))
    PROVE  /\ q \in AnyState /\ Emit(t, e) \in AnyEffect /\ Emit(t, e).kind = "emit"
           /\ q.mem[t] = s.mem[t] /\ q.disk[t] = s.disk[t]
           /\ q.replayed[t] = Replay(s.replayed[t], e)
           /\ q.acceptances[t] = IF e = "TASK_COMMIT_ACCEPTED" THEN s.acceptances[t] + 1
                                 ELSE s.acceptances[t]
           /\ \A u \in Tasks \ {t} : SameAt(u, s, q)
  <1>1. Emit(t, e).kind = "emit" /\ Emit(t, e).task = t /\ Emit(t, e).event = e
    BY DEF Emit
  <1>2. Emit(t, e) \in AnyEffect
    BY DEF Emit, AnyEffect
  <1> DEFINE a == IF e = "TASK_COMMIT_ACCEPTED" THEN s.acceptances[t] + 1
                  ELSE s.acceptances[t]
             p == Replay(s.replayed[t], e)
  <1>3. q = [s EXCEPT !.replayed[t] = p, !.acceptances[t] = a]
    BY <1>1 DEF Effect
  <1>4. a \in Nat /\ p \in Manager!TaskState
    BY DEF AnyState, Replay, Manager!TaskState
  <1> HIDE DEF a, p
  <1>5. q = [mem |-> s.mem, disk |-> s.disk, replayed |-> [s.replayed EXCEPT ![t] = p],
             acceptances |-> [s.acceptances EXCEPT ![t] = a]]
    BY <1>3 DEF AnyState
  <1>6. /\ q.mem[t] = s.mem[t] /\ q.disk[t] = s.disk[t]
        /\ q.replayed[t] = p /\ q.acceptances[t] = a
        /\ \A u \in Tasks \ {t} : SameAt(u, s, q)
    BY <1>5 DEF AnyState, SameAt
  <1>7. q \in AnyState
    BY <1>4, <1>5 DEF AnyState
  <1> QED
    BY <1>1, <1>2, <1>6, <1>7 DEF a, p

-----------------------------------------------------------------------------
(***************************************************************************)
(* What a call passes through                                              *)
(***************************************************************************)

\* What is true of a record of t between two calls and inside one.
SoundRecord(t, r) ==
    /\ r \in Manager!TaskRecord
    /\ r.state = "ABSENT" => r = Manager!NoRecord
    /\ r.state # "LEASED" => r.ttl = 0
    /\ r.attempts_used = Len(r.history)
    /\ r.state = "LEASED" => r.active = r.attempts_used /\ r.attempts_used # 0
    /\ r.state \in {"ABSENT", "PENDING"} => r.attempts_used < MaxAttempts[t]
    /\ (r.state = "COMPLETED") <=> (r.accepted # 0)

\* Memory is ahead of the row of t by at most a release: _release is the one
\* transition that appends to the ledger before it saves.
Lag(t, m, d) ==
    \/ m = d
    \/ d.state = "LEASED" /\ m = Manager!Release(t, d)

\* The record of t after the attempt at place i was accepted.
Committed(r, i) ==
    [r EXCEPT !.state = "COMPLETED", !.accepted = i, !.active = 0, !.ttl = 0]

\* A record withdrawn by its job.
Withdrawn(r) == [r EXCEPT !.state = "CANCELLED", !.active = 0, !.ttl = 0]

\* The row of t goes from d to e between two calls.
RowStep(t, d, e) ==
    \/ e = d
    \/ d.state = "ABSENT" /\ e = Manager!NewRecord
    \/ d.state \in {"PENDING", "LEASED"} /\ e = Withdrawn(d)
    \/ d.state = "LEASED" /\ e = Manager!Release(t, d)
    \/ \E n \in Nodes : d.state = "PENDING" /\ e = Manager!Leased(t, d, n)
    \/ \E n \in Nodes : /\ d.state = "LEASED" /\ Manager!Release(t, d).state = "PENDING"
                        /\ e = Manager!Leased(t, Manager!Release(t, d), n)
    \/ d.state = "LEASED" /\ e = [d EXCEPT !.ttl = LeaseTime[t]]
    \/ d.state = "LEASED" /\ e = Committed(d, d.active)
    \/ e = [d EXCEPT !.ttl = IF @ = 0 THEN 0 ELSE @ - 1]

\* The ledger shows at most one acceptance of a task, and none the row lacks.
Shown(d, a) == a <= 1 /\ (a = 1 => d.state = "COMPLETED")

\* Where the process may die: every row is one RowStep from the row before
\* the call, and agrees with the ledger.
Seen == {s \in AnyState : \A t \in Tasks : /\ RowStep(t, disk[t], s.disk[t])
                                         /\ Shown(s.disk[t], s.acceptances[t])}

\* Where an append may raise.
Halting == {s \in Seen : \A t \in Tasks : Lag(t, s.mem[t], s.disk[t])}

\* Where a call may return.
Settled ==
    {s \in Halting : \A t \in Tasks :
        /\ "emit" \notin happened => s.disk[t] = s.mem[t]
        /\ happened = {} /\ s.mem[t].state # "CANCELLED" => s.replayed[t] = s.mem[t].state}

\* The effects lead from s through states of Seen, and of Halting wherever
\* an append comes next.
Guarded(s, effects) ==
    /\ effects \in Seq(AnyEffect)
    /\ \A k \in 0 .. Len(effects) : States(s, effects)[k] \in Seen
    /\ \A k \in 1 .. Len(effects) :
          effects[k].kind = "emit" => States(s, effects)[k - 1] \in Halting

End(s, effects) == States(s, effects)[Len(effects)]

\* Effects one after the other lead where each leads.
LEMMA StatesOfJoin ==
    ASSUME NEW s, NEW a \in Seq(AnyEffect), NEW b \in Seq(AnyEffect)
    PROVE  /\ \A k \in 0 .. Len(a) : States(s, a \o b)[k] = States(s, a)[k]
           /\ \A k \in 0 .. Len(b) :
                 States(s, a \o b)[Len(a) + k] = States(End(s, a), b)[k]
  <1> DEFINE c == a \o b
             T == {k \in 0 .. Len(a) : States(s, c)[k] = States(s, a)[k]}
             U == {k \in 0 .. Len(b) : States(s, c)[Len(a) + k] = States(End(s, a), b)[k]}
  <1>1. /\ c \in Seq(AnyEffect) /\ Len(c) = Len(a) + Len(b)
        /\ Len(a) \in Nat /\ Len(b) \in Nat /\ Len(c) \in Nat
    OBVIOUS
  <1>2. \A k \in 1 .. Len(a) : c[k] = a[k]
    OBVIOUS
  <1>3. \A k \in 1 .. Len(b) : c[Len(a) + k] = b[k]
    OBVIOUS
  <1> HIDE DEF c
  <1>0. \A j \in 1 .. Len(c) : States(s, c)[j] = Effect(States(s, c)[j - 1], c[j])
    <2>1. Len(c) \in Nat
      BY <1>1
    <2> QED
      BY <2>1, StatesRule
  <1>4. 0 .. Len(a) \subseteq T
    <2>1. 0 \in T
      BY <1>1, StatesRule
    <2>2. ASSUME NEW k \in 1 .. Len(a), k - 1 \in T
          PROVE  k \in T
      <3>1. k \in 1 .. Len(c)
        BY <1>1
      <3>2. States(s, c)[k] = Effect(States(s, c)[k - 1], c[k])
        BY <1>0, <3>1
      <3>3. States(s, a)[k] = Effect(States(s, a)[k - 1], a[k])
        BY <1>1, StatesRule
      <3> QED
        BY <1>2, <2>2, <3>2, <3>3
    <2> HIDE DEF T
    <2> QED
      BY <1>1, <2>1, <2>2, UpTo
  <1>5. 0 .. Len(b) \subseteq U
    <2>1. 0 \in U
      <3>1. States(End(s, a), b)[0] = End(s, a)
        BY <1>1, StatesRule
      <3>2. States(s, c)[Len(a)] = States(s, a)[Len(a)]
        BY <1>1, <1>4
      <3> QED
        BY <1>1, <3>1, <3>2 DEF End
    <2>2. ASSUME NEW k \in 1 .. Len(b), k - 1 \in U
          PROVE  k \in U
      <3>1. Len(a) + k \in 1 .. Len(c) /\ Len(a) + (k - 1) = (Len(a) + k) - 1
        BY <1>1
      <3>2. States(s, c)[Len(a) + k] = Effect(States(s, c)[(Len(a) + k) - 1], c[Len(a) + k])
        BY <1>0, <3>1
      <3>3. States(End(s, a), b)[k] = Effect(States(End(s, a), b)[k - 1], b[k])
        BY <1>1, StatesRule
      <3> QED
        BY <1>3, <2>2, <3>1, <3>2, <3>3
    <2> HIDE DEF U
    <2> QED
      BY <1>1, <2>1, <2>2, UpTo
  <1> QED
    BY <1>4, <1>5 DEF c

\* So effects one after the other are guarded when each are.
LEMMA JoinIsGuarded ==
    ASSUME NEW s, NEW a, NEW b, Guarded(s, a), Guarded(End(s, a), b)
    PROVE  Guarded(s, a \o b) /\ End(s, a \o b) = End(End(s, a), b)
  <1>1. a \in Seq(AnyEffect) /\ b \in Seq(AnyEffect)
    BY DEF Guarded
  <1> DEFINE c == a \o b
  <1>2. /\ c \in Seq(AnyEffect) /\ Len(c) = Len(a) + Len(b)
        /\ Len(a) \in Nat /\ Len(b) \in Nat
        /\ \A k \in 1 .. Len(a) : c[k] = a[k]
        /\ \A k \in 1 .. Len(b) : c[Len(a) + k] = b[k]
    BY <1>1
  <1>3. /\ \A k \in 0 .. Len(a) : States(s, c)[k] = States(s, a)[k]
        /\ \A k \in 0 .. Len(b) : States(s, c)[Len(a) + k] = States(End(s, a), b)[k]
    BY <1>1, StatesOfJoin
  <1> HIDE DEF c
  <1>4. ASSUME NEW k \in 0 .. Len(c)
        PROVE  k \in 0 .. Len(a) \/ (k - Len(a) \in 1 .. Len(b) /\ k = Len(a) + (k - Len(a)))
    BY <1>2
  <1>5. ASSUME NEW k \in 0 .. Len(c)
        PROVE  States(s, c)[k] \in Seen
    <2>1. CASE k \in 0 .. Len(a)
      BY <1>3, <2>1 DEF Guarded
    <2>2. CASE k - Len(a) \in 1 .. Len(b) /\ k = Len(a) + (k - Len(a))
      <3> DEFINE j == k - Len(a)
      <3>1. j \in 0 .. Len(b) /\ k = Len(a) + j
        BY <1>2, <2>2
      <3> HIDE DEF j
      <3> QED
        BY <1>3, <3>1 DEF Guarded
    <2> QED
      BY <1>4, <2>1, <2>2
  <1>6. ASSUME NEW k \in 1 .. Len(c), c[k].kind = "emit"
        PROVE  States(s, c)[k - 1] \in Halting
    <2>0. k \in 0 .. Len(c)
      BY <1>2
    <2>1. CASE k \in 0 .. Len(a)
      <3>1. k \in 1 .. Len(a) /\ k - 1 \in 0 .. Len(a)
        BY <1>2, <2>1
      <3> QED
        BY <1>2, <1>3, <1>6, <3>1 DEF Guarded
    <2>2. CASE k - Len(a) \in 1 .. Len(b) /\ k = Len(a) + (k - Len(a))
      <3> DEFINE j == k - Len(a)
      <3>1. /\ j \in 1 .. Len(b) /\ j - 1 \in 0 .. Len(b)
            /\ k = Len(a) + j /\ k - 1 = Len(a) + (j - 1)
        BY <1>2, <2>2
      <3> HIDE DEF j
      <3>2. b[j].kind = "emit"
        BY <1>2, <1>6, <3>1
      <3> QED
        BY <1>3, <3>1, <3>2 DEF Guarded
    <2> QED
      BY <1>4, <2>0, <2>1, <2>2
  <1>7. End(s, c) = End(End(s, a), b)
    BY <1>2, <1>3 DEF End
  <1> QED
    BY <1>2, <1>5, <1>6, <1>7 DEF Guarded, c

\* One effect on its own.
LEMMA OneIsGuarded ==
    ASSUME NEW s \in Seen, NEW e \in AnyEffect, Effect(s, e) \in Seen,
           e.kind = "emit" => s \in Halting
    PROVE  Guarded(s, <<e>>) /\ End(s, <<e>>) = Effect(s, e)
  <1>1. /\ Len(<<e>>) = 1 /\ <<e>>[1] = e /\ <<e>> \in Seq(AnyEffect)
        /\ \A k \in 0 .. Len(<<e>>) : k = 0 \/ k = 1
        /\ \A k \in 1 .. Len(<<e>>) : k = 1
    OBVIOUS
  <1>2. States(s, <<e>>)[0] = s /\ States(s, <<e>>)[1] = Effect(s, e)
    BY <1>1, StatesRule
  <1> QED
    BY <1>1, <1>2 DEF Guarded, End

\* Two effects.
LEMMA TwoAreGuarded ==
    ASSUME NEW s0 \in Seen, NEW e1 \in AnyEffect, NEW e2 \in AnyEffect,
           NEW s1 \in Seen, NEW s2 \in Seen,
           s1 = Effect(s0, e1), s2 = Effect(s1, e2),
           e1.kind = "emit" => s0 \in Halting, e2.kind = "emit" => s1 \in Halting
    PROVE  Guarded(s0, <<e1, e2>>) /\ End(s0, <<e1, e2>>) = s2
  <1> DEFINE es == <<e1, e2>>
  <1>1. /\ Len(es) = 2 /\ es[1] = e1 /\ es[2] = e2 /\ es \in Seq(AnyEffect)
        /\ \A k \in 0 .. Len(es) : k \in {0, 1, 2}
        /\ \A k \in 1 .. Len(es) : k \in {1, 2}
    OBVIOUS
  <1> HIDE DEF es
  <1>2. States(s0, es)[0] = s0 /\ States(s0, es)[1] = s1 /\ States(s0, es)[2] = s2
    BY <1>1, StatesRule
  <1> QED
    BY <1>1, <1>2 DEF Guarded, End, es

\* Three effects.
LEMMA ThreeAreGuarded ==
    ASSUME NEW s0 \in Seen, NEW e1 \in AnyEffect, NEW e2 \in AnyEffect, NEW e3 \in AnyEffect,
           NEW s1 \in Seen, NEW s2 \in Seen, NEW s3 \in Seen,
           s1 = Effect(s0, e1), s2 = Effect(s1, e2), s3 = Effect(s2, e3),
           e1.kind = "emit" => s0 \in Halting, e2.kind = "emit" => s1 \in Halting,
           e3.kind = "emit" => s2 \in Halting
    PROVE  Guarded(s0, <<e1, e2, e3>>) /\ End(s0, <<e1, e2, e3>>) = s3
  <1> DEFINE es == <<e1, e2, e3>>
  <1>1. /\ Len(es) = 3 /\ es[1] = e1 /\ es[2] = e2 /\ es[3] = e3 /\ es \in Seq(AnyEffect)
        /\ \A k \in 0 .. Len(es) : k \in {0, 1, 2, 3}
        /\ \A k \in 1 .. Len(es) : k \in {1, 2, 3}
    OBVIOUS
  <1> HIDE DEF es
  <1>2. /\ States(s0, es)[0] = s0 /\ States(s0, es)[1] = s1
        /\ States(s0, es)[2] = s2 /\ States(s0, es)[3] = s3
    <2>1. /\ States(s0, es)[0] = s0
          /\ \A k \in 1 .. 3 : States(s0, es)[k] = Effect(States(s0, es)[k - 1], es[k])
      <3>1. Len(es) \in Nat
        BY <1>1
      <3> QED
        BY <1>1, <3>1, StatesRule
    <2>2. /\ States(s0, es)[1] = Effect(States(s0, es)[0], es[1])
          /\ States(s0, es)[2] = Effect(States(s0, es)[1], es[2])
          /\ States(s0, es)[3] = Effect(States(s0, es)[2], es[3])
      BY <2>1
    <2> QED
      BY <1>1, <2>1, <2>2
  <1> QED
    BY <1>1, <1>2 DEF Guarded, End, es

\* No effect at all.
LEMMA NoneIsGuarded ==
    ASSUME NEW s \in Seen
    PROVE  Guarded(s, <<>>) /\ End(s, <<>>) = s
  <1>1. /\ Len(<<>>) = 0 /\ <<>> \in Seq(AnyEffect)
        /\ \A k \in 0 .. Len(<<>>) : k = 0
        /\ 1 .. Len(<<>>) = {}
    OBVIOUS
  <1>2. States(s, <<>>)[0] = s
    BY <1>1, StatesRule
  <1> QED
    BY <1>1, <1>2 DEF Guarded, End

-----------------------------------------------------------------------------
(***************************************************************************)
(* Records and rows                                                        *)
(***************************************************************************)

\* The budget and the window of a task are positive numbers.
LEMMA ConstantsArePositive ==
    ASSUME NEW t \in Tasks
    PROVE  /\ MaxAttempts[t] \in Nat /\ MaxAttempts[t] > 0
           /\ LeaseTime[t] \in Nat /\ LeaseTime[t] > 0
  BY TaskAssumption

\* A record nobody registered, and a new one.
LEMMA NewRecordIsSound ==
    ASSUME NEW t \in Tasks
    PROVE  SoundRecord(t, Manager!NoRecord) /\ SoundRecord(t, Manager!NewRecord)
  <1>1. Manager!NewRecord = [state |-> "PENDING", attempts_used |-> 0, active |-> 0,
                             ttl |-> 0, accepted |-> 0, history |-> <<>>]
    BY DEF Manager!NewRecord, Manager!NoRecord
  <1>2. <<>> \in Seq(Manager!Lease) /\ Len(<<>>) = 0
    OBVIOUS
  <1>3. Manager!NoRecord \in Manager!TaskRecord /\ Manager!NewRecord \in Manager!TaskRecord
    BY <1>1, <1>2 DEF Manager!NoRecord, Manager!TaskRecord, Manager!TaskState
  <1> QED
    BY <1>1, <1>2, <1>3, ConstantsArePositive DEF SoundRecord, Manager!NoRecord

\* A released record: requeued or out of attempts, and otherwise the same.
LEMMA ReleaseIsSound ==
    ASSUME NEW t \in Tasks, NEW r, SoundRecord(t, r), r.state = "LEASED"
    PROVE  /\ SoundRecord(t, Manager!Release(t, r))
           /\ Manager!Release(t, r).state =
                 IF r.attempts_used < MaxAttempts[t] THEN "PENDING" ELSE "FAILED"
           /\ Manager!Release(t, r).attempts_used = r.attempts_used
           /\ Manager!Release(t, r).accepted = r.accepted
           /\ Manager!Release(t, r).history = r.history
  <1> DEFINE s == Manager!Release(t, r)
             st == IF r.attempts_used < MaxAttempts[t] THEN "PENDING" ELSE "FAILED"
  <1>1. r \in Manager!TaskRecord /\ r.attempts_used \in Nat
    BY DEF SoundRecord, Manager!TaskRecord
  <1>2. s = [r EXCEPT !.active = 0, !.ttl = 0, !.state = st]
    <2>1. st = IF r.attempts_used >= MaxAttempts[t] THEN "FAILED" ELSE "PENDING"
      BY <1>1, ConstantsArePositive
    <2> HIDE DEF st
    <2> QED
      BY <2>1 DEF Manager!Release
  <1>3. st \in {"PENDING", "FAILED"} /\ (st = "PENDING" => r.attempts_used < MaxAttempts[t])
    OBVIOUS
  <1> HIDE DEF s, st
  <1>4. /\ s \in Manager!TaskRecord
        /\ s.state = st /\ s.active = 0 /\ s.ttl = 0
        /\ s.history = r.history /\ s.attempts_used = r.attempts_used
        /\ s.accepted = r.accepted
    BY <1>1, <1>2, <1>3 DEF Manager!TaskRecord, Manager!TaskState
  <1>5. SoundRecord(t, s)
    BY <1>3, <1>4 DEF SoundRecord
  <1> QED
    BY <1>4, <1>5 DEF s, st

\* A record with a new lease at the end of its history.
LEMMA LeasedIsSound ==
    ASSUME NEW t \in Tasks, NEW n \in Nodes, NEW r, SoundRecord(t, r), r.state = "PENDING"
    PROVE  /\ SoundRecord(t, Manager!Leased(t, r, n))
           /\ Manager!Leased(t, r, n).state = "LEASED"
           /\ Manager!Leased(t, r, n).attempts_used = r.attempts_used + 1
           /\ Manager!Leased(t, r, n).accepted = r.accepted
           /\ Len(Manager!Leased(t, r, n).history) = Len(r.history) + 1
  <1> DEFINE l == [node |-> n, attempt |-> r.attempts_used + 1]
             h == Append(r.history, l)
             s == Manager!Leased(t, r, n)
  <1>1. /\ r \in Manager!TaskRecord /\ r.history \in Seq(Manager!Lease)
        /\ r.attempts_used \in Nat /\ Len(r.history) = r.attempts_used
    BY DEF SoundRecord, Manager!TaskRecord
  <1>2. l \in Manager!Lease
    BY <1>1 DEF Manager!Lease
  <1>3. s = [r EXCEPT !.attempts_used = r.attempts_used + 1,
                      !.state = "LEASED", !.ttl = LeaseTime[t],
                      !.active = Len(r.history) + 1, !.history = h]
    BY DEF Manager!Leased
  <1> HIDE DEF l
  <1>4. h \in Seq(Manager!Lease) /\ Len(h) = Len(r.history) + 1
    BY <1>1, <1>2
  <1> HIDE DEF h, s
  <1>5. LeaseTime[t] \in Nat /\ r.attempts_used + 1 \in Nat /\ Len(r.history) + 1 \in Nat
    BY <1>1, ConstantsArePositive
  <1>6. /\ s \in Manager!TaskRecord /\ s.state = "LEASED"
        /\ s.attempts_used = r.attempts_used + 1 /\ s.active = Len(r.history) + 1
        /\ s.accepted = r.accepted /\ s.history = h
    BY <1>1, <1>3, <1>4, <1>5 DEF Manager!TaskRecord, Manager!TaskState
  <1>7. r.accepted = 0
    BY DEF SoundRecord
  <1>8. SoundRecord(t, s)
    BY <1>1, <1>4, <1>6, <1>7 DEF SoundRecord
  <1> QED
    BY <1>4, <1>6, <1>8 DEF s

\* A record whose live lease was accepted.
LEMMA CommittedIsSound ==
    ASSUME NEW t \in Tasks, NEW r, SoundRecord(t, r), r.state = "LEASED"
    PROVE  /\ SoundRecord(t, Committed(r, r.active))
           /\ Committed(r, r.active).state = "COMPLETED"
           /\ Committed(r, r.active).attempts_used = r.attempts_used
           /\ Committed(r, r.active).accepted = r.attempts_used
           /\ Committed(r, r.active).history = r.history
  <1> DEFINE s == Committed(r, r.active)
  <1>1. /\ r \in Manager!TaskRecord /\ r.active = r.attempts_used
        /\ r.active # 0 /\ r.active \in Nat
    BY DEF SoundRecord, Manager!TaskRecord
  <1>2. s = [r EXCEPT !.state = "COMPLETED", !.accepted = r.active, !.active = 0, !.ttl = 0]
    BY DEF Committed
  <1> HIDE DEF s
  <1>3. /\ s \in Manager!TaskRecord
        /\ s.state = "COMPLETED" /\ s.ttl = 0 /\ s.accepted = r.attempts_used
        /\ s.history = r.history /\ s.attempts_used = r.attempts_used
    BY <1>1, <1>2 DEF Manager!TaskRecord, Manager!TaskState
  <1>4. SoundRecord(t, s)
    BY <1>1, <1>3 DEF SoundRecord
  <1> QED
    BY <1>3, <1>4 DEF s

\* A record withdrawn before it ended.
LEMMA WithdrawnIsSound ==
    ASSUME NEW t \in Tasks, NEW r, SoundRecord(t, r), r.state \in {"PENDING", "LEASED"}
    PROVE  /\ SoundRecord(t, Withdrawn(r))
           /\ Withdrawn(r).state = "CANCELLED"
           /\ Withdrawn(r).attempts_used = r.attempts_used
           /\ Withdrawn(r).accepted = r.accepted
           /\ Withdrawn(r).history = r.history
  <1> DEFINE s == Withdrawn(r)
  <1>1. r \in Manager!TaskRecord
    BY DEF SoundRecord
  <1>2. s = [r EXCEPT !.state = "CANCELLED", !.active = 0, !.ttl = 0]
    BY DEF Withdrawn
  <1> HIDE DEF s
  <1>3. /\ s \in Manager!TaskRecord
        /\ s.state = "CANCELLED" /\ s.ttl = 0 /\ s.accepted = r.accepted
        /\ s.history = r.history /\ s.attempts_used = r.attempts_used
    BY <1>1, <1>2 DEF Manager!TaskRecord, Manager!TaskState
  <1>4. SoundRecord(t, s)
    BY <1>3 DEF SoundRecord
  <1> QED
    BY <1>3, <1>4 DEF s

\* A record whose time left changed.
LEMMA TtlIsSound ==
    ASSUME NEW t \in Tasks, NEW r, SoundRecord(t, r), NEW v \in Nat,
           r.state = "LEASED" \/ v = r.ttl
    PROVE  /\ SoundRecord(t, [r EXCEPT !.ttl = v])
           /\ [r EXCEPT !.ttl = v].state = r.state
           /\ [r EXCEPT !.ttl = v].attempts_used = r.attempts_used
           /\ [r EXCEPT !.ttl = v].accepted = r.accepted
           /\ [r EXCEPT !.ttl = v].history = r.history
  <1> DEFINE s == [r EXCEPT !.ttl = v]
  <1>1. r \in Manager!TaskRecord
    BY DEF SoundRecord
  <1>2. /\ s \in Manager!TaskRecord
        /\ s.state = r.state /\ s.ttl = v /\ s.accepted = r.accepted /\ s.active = r.active
        /\ s.history = r.history /\ s.attempts_used = r.attempts_used
    BY <1>1 DEF Manager!TaskRecord
  <1>3. v = r.ttl => s = r
    BY <1>1 DEF Manager!TaskRecord
  <1> HIDE DEF s
  <1>4. SoundRecord(t, s)
    BY <1>2, <1>3 DEF SoundRecord
  <1> QED
    BY <1>2, <1>4 DEF s

\* The clock leaves a record with no lease as it is.
LEMMA AgedRecord ==
    ASSUME NEW t \in Tasks, NEW r, SoundRecord(t, r)
    PROVE  \E v \in Nat : /\ [r EXCEPT !.ttl = IF @ = 0 THEN 0 ELSE @ - 1] = [r EXCEPT !.ttl = v]
                          /\ r.state = "LEASED" \/ v = r.ttl
                          /\ v = IF r.ttl = 0 THEN 0 ELSE r.ttl - 1
  <1>1. r \in Manager!TaskRecord /\ r.ttl \in Nat
    BY DEF SoundRecord, Manager!TaskRecord
  <1> DEFINE v == IF r.ttl = 0 THEN 0 ELSE r.ttl - 1
  <1>2. v \in Nat /\ (r.state = "LEASED" \/ v = r.ttl)
    BY <1>1 DEF SoundRecord
  <1> QED
    BY <1>2

-----------------------------------------------------------------------------
\* How the contract sees a row go from d to e.
ContractMove(t, d, e) ==
    \/ /\ e.state = d.state
       /\ e.attempts_used = d.attempts_used /\ e.accepted = d.accepted
    \/ /\ d.state = "ABSENT" /\ e.state = "PENDING"
       /\ e.attempts_used = d.attempts_used /\ e.accepted = d.accepted
    \/ /\ d.state \in {"PENDING", "LEASED"} /\ e.state = "CANCELLED"
       /\ e.attempts_used = d.attempts_used /\ e.accepted = d.accepted
    \/ /\ d.state = "LEASED"
       /\ e.state = IF d.attempts_used < MaxAttempts[t] THEN "PENDING" ELSE "FAILED"
       /\ e.attempts_used = d.attempts_used /\ e.accepted = d.accepted
    \/ /\ d.state \in {"PENDING", "LEASED"} /\ e.state = "LEASED"
       /\ d.attempts_used < MaxAttempts[t]
       /\ e.attempts_used = d.attempts_used + 1 /\ e.accepted = d.accepted
    \/ /\ d.state = "LEASED" /\ e.state = "COMPLETED"
       /\ e.accepted = d.attempts_used /\ e.attempts_used = d.attempts_used

\* A row stays sound, moves as the contract allows, keeps the leases of its
\* history, and does not move at all once it has ended.
LEMMA RowStepIsSound ==
    ASSUME NEW t \in Tasks, NEW d, NEW e, SoundRecord(t, d), RowStep(t, d, e)
    PROVE  /\ SoundRecord(t, e)
           /\ ContractMove(t, d, e)
           /\ Len(e.history) \in Nat /\ Len(d.history) \in Nat
           /\ Len(d.history) <= Len(e.history)
           /\ d.state \in Manager!Terminal => e = d
  <1>1. /\ d \in Manager!TaskRecord /\ d.attempts_used \in Nat /\ Len(d.history) \in Nat
        /\ Len(d.history) = d.attempts_used
    BY DEF SoundRecord, Manager!TaskRecord
  <1>2. SoundRecord(t, e) => Len(e.history) \in Nat
    BY DEF SoundRecord, Manager!TaskRecord
  <1> DEFINE Goal == /\ SoundRecord(t, e)
                     /\ ContractMove(t, d, e)
                     /\ Len(d.history) <= Len(e.history)
                     /\ d.state \in Manager!Terminal => e = d
  <1>3. CASE e = d
    BY <1>1, <1>3 DEF ContractMove
  <1>4. CASE d.state = "ABSENT" /\ e = Manager!NewRecord
    <2>1. /\ d = Manager!NoRecord
          /\ e.state = "PENDING" /\ e.attempts_used = 0 /\ e.accepted = 0 /\ e.history = <<>>
          /\ d.attempts_used = 0 /\ d.accepted = 0 /\ d.history = <<>>
      BY <1>4 DEF SoundRecord, Manager!NoRecord, Manager!NewRecord
    <2> QED
      BY <1>1, <1>4, <2>1, NewRecordIsSound DEF ContractMove, Manager!Terminal
  <1>5. CASE d.state \in {"PENDING", "LEASED"} /\ e = Withdrawn(d)
    BY <1>1, <1>5, WithdrawnIsSound DEF ContractMove, Manager!Terminal
  <1>6. CASE d.state = "LEASED" /\ e = Manager!Release(t, d)
    BY <1>1, <1>6, ReleaseIsSound DEF ContractMove, Manager!Terminal
  <1>7. ASSUME NEW n \in Nodes, d.state = "PENDING", e = Manager!Leased(t, d, n)
        PROVE  Goal
    <2>1. d.attempts_used < MaxAttempts[t]
      BY <1>7 DEF SoundRecord
    <2> QED
      BY <1>1, <1>7, <2>1, LeasedIsSound DEF ContractMove, Manager!Terminal
  <1>8. ASSUME NEW n \in Nodes, d.state = "LEASED",
               Manager!Release(t, d).state = "PENDING",
               e = Manager!Leased(t, Manager!Release(t, d), n)
        PROVE  Goal
    <2> DEFINE r == Manager!Release(t, d)
    <2>1. /\ SoundRecord(t, r) /\ r.state = "PENDING" /\ r.attempts_used = d.attempts_used
          /\ r.accepted = d.accepted /\ r.history = d.history
      BY <1>8, ReleaseIsSound
    <2>2. e = Manager!Leased(t, r, n)
      BY <1>8
    <2> HIDE DEF r
    <2>3. r.attempts_used < MaxAttempts[t]
      BY <2>1 DEF SoundRecord
    <2> QED
      BY <1>1, <1>8, <2>1, <2>2, <2>3, LeasedIsSound DEF ContractMove, Manager!Terminal
  <1>9. CASE d.state = "LEASED" /\ e = [d EXCEPT !.ttl = LeaseTime[t]]
    BY <1>1, <1>9, ConstantsArePositive, TtlIsSound DEF ContractMove, Manager!Terminal
  <1>10. CASE d.state = "LEASED" /\ e = Committed(d, d.active)
    BY <1>1, <1>10, CommittedIsSound DEF ContractMove, Manager!Terminal
  <1>11. CASE e = [d EXCEPT !.ttl = IF @ = 0 THEN 0 ELSE @ - 1]
    <2>1. PICK v \in Nat : e = [d EXCEPT !.ttl = v] /\ (d.state = "LEASED" \/ v = d.ttl)
      BY <1>11, AgedRecord
    <2>2. d.state # "LEASED" => e = d
      BY <1>1, <2>1 DEF Manager!TaskRecord
    <2> QED
      BY <1>1, <2>1, <2>2, TtlIsSound DEF ContractMove, Manager!Terminal
  <1>12. Goal
    BY <1>3, <1>4, <1>5, <1>6, <1>7, <1>8, <1>9, <1>10, <1>11 DEF RowStep
  <1> QED
    BY <1>1, <1>2, <1>12

-----------------------------------------------------------------------------
(***************************************************************************)
(* The inductive invariant                                                 *)
(***************************************************************************)

\* What memory, database and ledger say of t agrees.
Agrees(t) ==
    /\ SoundRecord(t, disk[t])
    /\ Lag(t, mem[t], disk[t])
    /\ Shown(disk[t], acceptances[t])
    /\ "emit" \notin happened => disk[t] = mem[t]
    /\ happened = {} /\ mem[t].state # "CANCELLED" => replayed[t] = mem[t].state

Consistent == TypeOK /\ \A t \in Tasks : Agrees(t)

DurableInv ==
    /\ Consistent
    /\ HandedLeaseIsDurable
    /\ AcceptedForGood
    /\ \A h \in told : h[2] # 0

\* A state between two calls is one a call may start from.
LEMMA StoredIsSettled ==
    ASSUME Consistent
    PROVE  Stored \in Settled
  <1>1. Stored \in AnyState
    BY DEF Consistent, TypeOK, Stored, AnyState
  <1>2. \A t \in Tasks : RowStep(t, disk[t], Stored.disk[t])
    BY DEF Stored, RowStep
  <1>3. /\ Stored.disk = disk /\ Stored.mem = mem
        /\ Stored.replayed = replayed /\ Stored.acceptances = acceptances
    BY DEF Stored
  <1>4. Stored \in Seen
    BY <1>1, <1>2, <1>3 DEF Consistent, Agrees, Seen
  <1>5. Stored \in Halting
    BY <1>3, <1>4 DEF Consistent, Agrees, Halting
  <1> QED
    BY <1>3, <1>5 DEF Consistent, Agrees, Settled

\* The record in memory is sound too.
LEMMA MemIsSound ==
    ASSUME NEW t \in Tasks, Agrees(t)
    PROVE  /\ SoundRecord(t, mem[t])
           /\ mem[t].state = "LEASED" => disk[t] = mem[t]
           /\ mem[t].state = "ABSENT" => disk[t] = mem[t]
  <1>1. CASE mem[t] = disk[t]
    BY <1>1 DEF Agrees
  <1>2. CASE disk[t].state = "LEASED" /\ mem[t] = Manager!Release(t, disk[t])
    <2>1. SoundRecord(t, disk[t])
      BY DEF Agrees
    <2> QED
      BY <1>2, <2>1, ReleaseIsSound
  <1> QED
    BY <1>1, <1>2 DEF Agrees, Lag

-----------------------------------------------------------------------------
(***************************************************************************)
(* Each call is guarded                                                    *)
(***************************************************************************)

\* A state that differs at t alone is where it should be if it is so at t.
LEMMA OnlyOneTaskMoves ==
    ASSUME NEW s \in Settled, NEW t \in Tasks, NEW q \in AnyState,
           \A u \in Tasks \ {t} : SameAt(u, s, q),
           RowStep(t, disk[t], q.disk[t]), Shown(q.disk[t], q.acceptances[t])
    PROVE  /\ q \in Seen
           /\ Lag(t, q.mem[t], q.disk[t]) => q \in Halting
           /\ q.mem[t] = q.disk[t]
                 /\ (q.mem[t].state # "CANCELLED" => q.replayed[t] = q.mem[t].state)
              => q \in Settled
  <1>1. q \in Seen
    BY DEF Seen, Halting, Settled, SameAt
  <1>2. ASSUME Lag(t, q.mem[t], q.disk[t])
        PROVE  q \in Halting
    BY <1>1, <1>2 DEF Halting, Settled, SameAt
  <1>3. ASSUME q.mem[t] = q.disk[t],
               q.mem[t].state # "CANCELLED" => q.replayed[t] = q.mem[t].state
        PROVE  q \in Settled
    <2>1. q \in Halting
      BY <1>2, <1>3 DEF Lag
    <2> QED
      BY <1>3, <2>1 DEF Settled, SameAt
  <1> QED
    BY <1>1, <1>2, <1>3

\* Part of the way through a sweep, or after it, some leased tasks are freed.
Unmoved(t, s) ==
    /\ s.mem[t] = mem[t] /\ s.disk[t] = disk[t]
    /\ s.replayed[t] = replayed[t] /\ s.acceptances[t] = acceptances[t]

Freed(t, s) ==
    /\ mem[t].state = "LEASED"
    /\ s.mem[t] = Manager!Release(t, mem[t]) /\ s.disk[t] = s.mem[t]
    /\ s.replayed[t] = s.mem[t].state /\ s.acceptances[t] = acceptances[t]

Partway == {s \in AnyState : \A t \in Tasks : Unmoved(t, s) \/ Freed(t, s)}

\* The process may die, an append raise and the call return there.
LEMMA PartwayIsSettled ==
    ASSUME Consistent, NEW s \in Partway
    PROVE  s \in Settled
  <1>1. s \in AnyState
    BY DEF Partway
  <1>2. ASSUME NEW t \in Tasks
        PROVE  /\ RowStep(t, disk[t], s.disk[t]) /\ Shown(s.disk[t], s.acceptances[t])
               /\ Lag(t, s.mem[t], s.disk[t])
               /\ "emit" \notin happened => s.disk[t] = s.mem[t]
               /\ happened = {} /\ s.mem[t].state # "CANCELLED"
                     => s.replayed[t] = s.mem[t].state
    <2>1. Agrees(t)
      BY DEF Consistent
    <2>2. CASE Unmoved(t, s)
      BY <2>1, <2>2 DEF Unmoved, Agrees, RowStep
    <2>3. CASE Freed(t, s)
      <3>1. disk[t] = mem[t] /\ disk[t].state = "LEASED"
        BY <2>1, <2>3, MemIsSound DEF Freed
      <3>2. RowStep(t, disk[t], s.disk[t])
        BY <2>3, <3>1 DEF Freed, RowStep
      <3>3. acceptances[t] <= 1 /\ acceptances[t] # 1
        BY <2>1, <3>1 DEF Agrees, Shown
      <3>4. Shown(s.disk[t], s.acceptances[t])
        BY <2>3, <3>3 DEF Freed, Shown
      <3> QED
        BY <2>3, <3>2, <3>4 DEF Freed, Lag
    <2> QED
      BY <2>2, <2>3 DEF Partway
  <1>3. s \in Seen
    BY <1>1, <1>2 DEF Seen
  <1>4. s \in Halting
    BY <1>2, <1>3 DEF Halting
  <1> QED
    BY <1>2, <1>4 DEF Settled

\* A leased task given up, by a sweep or by its holder: the event that says
\* why, then _release.
LEMMA FreeingIsGuarded ==
    ASSUME Consistent, NEW s \in Partway, NEW t \in Tasks, mem[t].state = "LEASED",
           NEW e \in {"LEASE_EXPIRED", "TASK_ATTEMPT_FAILED"}
    PROVE  /\ Guarded(s, <<Emit(t, e)>> \o ReleaseEffects(t, mem[t]))
           /\ End(s, <<Emit(t, e)>> \o ReleaseEffects(t, mem[t])) \in Partway
  <1> DEFINE r == Manager!Release(t, mem[t])
             f == IF r.state = "FAILED" THEN "TASK_EXHAUSTED" ELSE "TASK_REQUEUED"
             s0 == Effect(s, Emit(t, e))
             s1 == Effect(s0, Put(t, r))
             s2 == Effect(s1, Emit(t, f))
             s3 == Effect(s2, Save(t))
  <1>1. /\ Agrees(t) /\ disk[t] = mem[t] /\ disk[t].state = "LEASED"
        /\ SoundRecord(t, mem[t])
    BY MemIsSound DEF Consistent
  <1>2. /\ r \in Manager!TaskRecord /\ r.state \in {"PENDING", "FAILED"}
    BY <1>1, ReleaseIsSound DEF SoundRecord
  <1>3. s \in AnyState /\ e \in Events /\ f \in Events
    BY DEF Partway, Events
  <1>4. ReleaseEffects(t, mem[t]) = <<Put(t, r), Emit(t, f), Save(t)>>
    BY DEF ReleaseEffects
  <1>5. \A p : Replay(p, e) = p /\ Replay(p, f) = r.state
    BY <1>2 DEF Replay
  <1>6. e # "TASK_COMMIT_ACCEPTED" /\ f # "TASK_COMMIT_ACCEPTED"
    OBVIOUS
  <1>7. RowStep(t, disk[t], disk[t]) /\ RowStep(t, disk[t], r)
    BY <1>1 DEF RowStep
  <1>8. \A a : a = acceptances[t] => Shown(disk[t], a) /\ Shown(r, a)
    BY <1>1 DEF Agrees, Shown
  <1>9. /\ s.mem[t] \in {mem[t], r} /\ s.disk[t] \in {disk[t], r}
        /\ s.acceptances[t] = acceptances[t]
        /\ Lag(t, s.mem[t], s.disk[t])
        /\ Lag(t, r, s.disk[t])
    <2>1. Lag(t, r, r) /\ Lag(t, mem[t], mem[t]) /\ Lag(t, r, disk[t])
      BY <1>1 DEF Lag
    <2> QED
      BY <1>1, <2>1 DEF Partway, Unmoved, Freed
  <1>10. s \in Settled
    BY PartwayIsSettled
  <1> HIDE DEF r, f, s0, s1, s2, s3
  \* The first event moves nothing.
  <1>11. /\ s0 \in AnyState /\ Emit(t, e) \in AnyEffect
         /\ s0.mem[t] = s.mem[t] /\ s0.disk[t] = s.disk[t] /\ s0.replayed[t] = s.replayed[t]
         /\ s0.acceptances[t] = s.acceptances[t]
         /\ \A u \in Tasks \ {t} : SameAt(u, s, s0)
    BY <1>3, <1>5, <1>6, EmitEffect DEF s0
  <1>12. s0 \in Partway
    BY <1>11 DEF Partway, SameAt, Unmoved, Freed
  <1>13. s0 \in Settled
    BY <1>12, PartwayIsSettled
  <1>14. Guarded(s, <<Emit(t, e)>>) /\ End(s, <<Emit(t, e)>>) = s0
    BY <1>10, <1>11, <1>13, OneIsGuarded DEF s0, Settled, Halting
  <1>15. /\ s1 \in AnyState /\ Put(t, r) \in AnyEffect /\ Put(t, r).kind = "put"
         /\ s1.mem[t] = r /\ s1.disk[t] = s.disk[t] /\ s1.acceptances[t] = acceptances[t]
         /\ \A u \in Tasks \ {t} : SameAt(u, s0, s1)
    BY <1>2, <1>9, <1>11, PutEffect DEF s1
  <1>16. s1 \in Halting
    BY <1>7, <1>8, <1>9, <1>13, <1>15, OnlyOneTaskMoves
  <1>17. /\ s2 \in AnyState /\ Emit(t, f) \in AnyEffect
         /\ s2.mem[t] = r /\ s2.disk[t] = s.disk[t] /\ s2.acceptances[t] = acceptances[t]
         /\ s2.replayed[t] = r.state
         /\ \A u \in Tasks \ {t} : SameAt(u, s0, s2)
    <2>1. /\ s2 \in AnyState /\ Emit(t, f) \in AnyEffect
          /\ s2.mem[t] = s1.mem[t] /\ s2.disk[t] = s1.disk[t]
          /\ s2.replayed[t] = Replay(s1.replayed[t], f)
          /\ s2.acceptances[t] = s1.acceptances[t]
          /\ \A u \in Tasks \ {t} : SameAt(u, s1, s2)
      BY <1>3, <1>6, <1>15, EmitEffect DEF s2
    <2> QED
      BY <1>5, <1>15, <2>1 DEF SameAt
  <1>18. s2 \in Seen
    BY <1>7, <1>8, <1>9, <1>13, <1>17, OnlyOneTaskMoves
  <1>19. /\ s3 \in AnyState /\ Save(t) \in AnyEffect /\ Save(t).kind = "save"
         /\ s3.mem[t] = r /\ s3.disk[t] = r /\ s3.acceptances[t] = acceptances[t]
         /\ s3.replayed[t] = r.state
         /\ \A u \in Tasks \ {t} : SameAt(u, s0, s3)
    BY <1>17, SaveEffect DEF s3, SameAt
  <1>20. s3 \in Partway
    <2>1. Freed(t, s3)
      BY <1>19 DEF Freed, r
    <2>2. \A u \in Tasks \ {t} : Unmoved(u, s3) \/ Freed(u, s3)
      BY <1>12, <1>19 DEF Partway, SameAt, Unmoved, Freed
    <2> QED
      BY <1>19, <2>1, <2>2 DEF Partway
  <1>21. s3 \in Seen
    BY <1>20, PartwayIsSettled DEF Settled, Halting
  <1>22. /\ Guarded(s0, <<Put(t, r), Emit(t, f), Save(t)>>)
         /\ End(s0, <<Put(t, r), Emit(t, f), Save(t)>>) = s3
    BY <1>13, <1>15, <1>16, <1>17, <1>18, <1>19, <1>21, ThreeAreGuarded
       DEF s1, s2, s3, Settled, Halting
  <1> QED
    BY <1>4, <1>14, <1>20, <1>22, JoinIsGuarded

\* Sweeping the queue frees leased tasks, one after the other.
LEMMA SweepIsGuarded ==
    ASSUME Consistent
    PROVE  /\ Guarded(Stored, SweepEffects)
           /\ End(Stored, SweepEffects) \in Partway
  <1>1. queue \in Seq(Tasks) /\ Len(queue) \in Nat
    BY DEF Consistent, TypeOK
  <1>2. PICK es : /\ es[0] = <<>>
                  /\ SweepEffects = es[Len(queue)]
                  /\ \A k \in 1 .. Len(queue) :
                        es[k] = IF Manager!Lapsed(mem[queue[k]])
                                THEN es[k - 1] \o ExpireEffects(queue[k])
                                ELSE es[k - 1]
    BY <1>1, SweepRule
  <1> DEFINE T == {k \in 0 .. Len(queue) : /\ Guarded(Stored, es[k])
                                          /\ End(Stored, es[k]) \in Partway}
  <1>3. 0 \in T
    <2>1. Stored \in Seen
      BY StoredIsSettled DEF Settled, Halting
    <2>2. Stored \in Partway
      BY StoredIsSettled DEF Settled, Halting, Seen, Partway, Unmoved, Stored
    <2> QED
      BY <1>1, <1>2, <2>1, <2>2, NoneIsGuarded
  <1>4. ASSUME NEW k \in 1 .. Len(queue), k - 1 \in T
        PROVE  k \in T
    <2>1. CASE ~Manager!Lapsed(mem[queue[k]])
      BY <1>2, <1>4, <2>1
    <2>2. CASE Manager!Lapsed(mem[queue[k]])
      <3> DEFINE t == queue[k]
                 s == End(Stored, es[k - 1])
      <3>1. t \in Tasks
        BY <1>1
      <3>2. mem[t].state = "LEASED"
        BY <2>2 DEF Manager!Lapsed
      <3>3. es[k] = es[k - 1] \o ExpireEffects(t) /\ Guarded(Stored, es[k - 1]) /\ s \in Partway
        BY <1>2, <1>4, <2>2
      <3> HIDE DEF t, s
      <3>4. Guarded(s, ExpireEffects(t)) /\ End(s, ExpireEffects(t)) \in Partway
        BY <3>1, <3>2, <3>3, FreeingIsGuarded DEF ExpireEffects
      <3>5. /\ Guarded(Stored, es[k - 1] \o ExpireEffects(t))
            /\ End(Stored, es[k - 1] \o ExpireEffects(t)) = End(s, ExpireEffects(t))
        BY <3>3, <3>4, JoinIsGuarded DEF s
      <3>6. Guarded(Stored, es[k]) /\ End(Stored, es[k]) \in Partway
        BY <3>3, <3>4, <3>5
      <3>7. k \in 0 .. Len(queue)
        BY <1>1
      <3> QED
        BY <3>6, <3>7
    <2> QED
      BY <2>1, <2>2
  <1>5. Len(queue) \in T
    <2> HIDE DEF T
    <2>1. 0 .. Len(queue) \subseteq T
      BY <1>1, <1>3, <1>4, UpTo
    <2> QED
      BY <1>1, <2>1
  <1> QED
    BY <1>2, <1>5

\* Every other call puts one record, saves it and then says so.
LEMMA RecordingIsGuarded ==
    ASSUME Consistent, NEW s \in Partway, NEW t \in Tasks, NEW r \in Manager!TaskRecord,
           NEW e \in Events, RowStep(t, disk[t], r), disk[t].state # "COMPLETED",
           \A p : Replay(p, e) = r.state,
           (e = "TASK_COMMIT_ACCEPTED") => r.state = "COMPLETED"
    PROVE  /\ Guarded(s, <<Put(t, r), Save(t), Emit(t, e)>>)
           /\ End(s, <<Put(t, r), Save(t), Emit(t, e)>>) \in Settled
           /\ End(s, <<Put(t, r), Save(t), Emit(t, e)>>).disk[t] = r
  <1> DEFINE s1 == Effect(s, Put(t, r))
             s2 == Effect(s1, Save(t))
             s3 == Effect(s2, Emit(t, e))
  <1>1. s \in AnyState /\ s \in Settled
    BY PartwayIsSettled DEF Partway
  <1>2. acceptances[t] = 0
    BY DEF Consistent, Agrees, Shown, TypeOK
  <1>3. s.acceptances[t] = 0 /\ RowStep(t, disk[t], s.disk[t]) /\ Shown(s.disk[t], 0)
    BY <1>1, <1>2 DEF Partway, Unmoved, Freed, Settled, Halting, Seen
  <1> HIDE DEF s1, s2, s3
  <1>4. /\ s1 \in AnyState /\ Put(t, r) \in AnyEffect /\ Put(t, r).kind = "put"
        /\ s1.mem[t] = r /\ s1.disk[t] = s.disk[t] /\ s1.acceptances[t] = 0
        /\ \A u \in Tasks \ {t} : SameAt(u, s, s1)
    BY <1>1, <1>3, PutEffect DEF s1
  <1>5. s1 \in Seen
    BY <1>1, <1>3, <1>4, OnlyOneTaskMoves
  <1>6. /\ s2 \in AnyState /\ Save(t) \in AnyEffect /\ Save(t).kind = "save"
        /\ s2.mem[t] = r /\ s2.disk[t] = r /\ s2.acceptances[t] = 0
        /\ \A u \in Tasks \ {t} : SameAt(u, s, s2)
    BY <1>4, SaveEffect DEF s2, SameAt
  <1>7. Shown(r, 0) /\ Lag(t, r, r)
    BY DEF Shown, Lag
  <1>8. s2 \in Halting
    BY <1>1, <1>6, <1>7, OnlyOneTaskMoves
  <1>9. /\ s3 \in AnyState /\ Emit(t, e) \in AnyEffect
        /\ s3.mem[t] = r /\ s3.disk[t] = r /\ s3.replayed[t] = r.state
        /\ s3.acceptances[t] = IF e = "TASK_COMMIT_ACCEPTED" THEN 1 ELSE 0
        /\ \A u \in Tasks \ {t} : SameAt(u, s, s3)
    <2>1. /\ s3 \in AnyState /\ Emit(t, e) \in AnyEffect
          /\ s3.mem[t] = s2.mem[t] /\ s3.disk[t] = s2.disk[t]
          /\ s3.replayed[t] = Replay(s2.replayed[t], e)
          /\ s3.acceptances[t] = IF e = "TASK_COMMIT_ACCEPTED" THEN s2.acceptances[t] + 1
                                 ELSE s2.acceptances[t]
          /\ \A u \in Tasks \ {t} : SameAt(u, s2, s3)
      BY <1>6, EmitEffect DEF s3
    <2> QED
      BY <1>6, <2>1 DEF SameAt
  <1>10. Shown(s3.disk[t], s3.acceptances[t])
    BY <1>9 DEF Shown
  <1>11. s3 \in Settled
    BY <1>1, <1>9, <1>10, OnlyOneTaskMoves
  <1>12. /\ Guarded(s, <<Put(t, r), Save(t), Emit(t, e)>>)
         /\ End(s, <<Put(t, r), Save(t), Emit(t, e)>>) = s3
    <2>1. s \in Seen /\ s2 \in Seen /\ s3 \in Seen
      BY <1>1, <1>8, <1>11 DEF Settled, Halting
    <2> QED
      BY <1>4, <1>5, <1>6, <1>8, <1>9, <2>1, ThreeAreGuarded DEF s1, s2, s3
  <1> QED
    BY <1>9, <1>11, <1>12

-----------------------------------------------------------------------------
(***************************************************************************)
(* However a guarded call ends, the invariant holds                        *)
(***************************************************************************)

\* What a step keeps true of memory, database and ledger.
Sustained == Consistent' /\ \A t \in Tasks : RowStep(t, disk[t], disk'[t])

\* The durable parts and memory land in a state of Seen.
LEMMA LandingIsSustained ==
    ASSUME Consistent, NEW s \in Seen,
           disk' = s.disk, replayed' = s.replayed, acceptances' = s.acceptances,
           mem' \in [Tasks -> Manager!TaskRecord], queue' \in Seq(Tasks),
           handed' \subseteq Tasks \X Nat, told' \subseteq Tasks \X Nat,
           happened' \subseteq Faults,
           \A t \in Tasks :
              /\ Lag(t, mem'[t], s.disk[t])
              /\ "emit" \notin happened' => s.disk[t] = mem'[t]
              /\ happened' = {} /\ mem'[t].state # "CANCELLED" => s.replayed[t] = mem'[t].state
    PROVE  Sustained
  <1>1. /\ s.disk \in [Tasks -> Manager!TaskRecord]
        /\ s.replayed \in [Tasks -> Manager!TaskState]
        /\ s.acceptances \in [Tasks -> Nat]
        /\ \A t \in Tasks : /\ RowStep(t, disk[t], s.disk[t])
                            /\ Shown(s.disk[t], s.acceptances[t])
    BY DEF Seen, AnyState
  <1>2. TypeOK'
    BY <1>1 DEF TypeOK, Manager!TaskRecord, Manager!TaskState, Manager!Lease
  <1>3. ASSUME NEW t \in Tasks
        PROVE  Agrees(t)'
    <2>1. SoundRecord(t, s.disk[t])
      BY <1>1, RowStepIsSound DEF Consistent, Agrees
    <2>2. SoundRecord(t, disk[t])'
      BY <2>1 DEF SoundRecord, Manager!TaskRecord, Manager!TaskState, Manager!Lease,
                  Manager!NoRecord
    <2>3. Lag(t, mem[t], disk[t])'
      BY DEF Lag, Manager!Release
    <2>4. Shown(disk[t], acceptances[t])'
      BY <1>1 DEF Shown
    <2> QED
      BY <2>2, <2>3, <2>4 DEF Agrees
  <1> QED
    BY <1>1, <1>2, <1>3 DEF Sustained, Consistent

\* A guarded call that returns, raises or dies.
LEMMA GuardedCallIsSustained ==
    ASSUME Consistent, NEW effects, Guarded(Stored, effects), End(Stored, effects) \in Settled
    PROVE  /\ /\ Returns(effects) /\ queue' \in Seq(Tasks)
              /\ handed' \subseteq Tasks \X Nat /\ told' \subseteq Tasks \X Nat
              => Sustained
           /\ Raises(effects) /\ queue' \in Seq(Tasks) => Sustained
           /\ \A order \in Seq(Tasks) : Dies(effects, order) => Sustained
  <1>0. /\ handed \subseteq Tasks \X Nat /\ told \subseteq Tasks \X Nat
        /\ happened \subseteq Faults
    BY DEF Consistent, TypeOK
  <1>1. Len(effects) \in Nat /\ DOMAIN effects = 1 .. Len(effects)
    BY DEF Guarded
  <1>2. ASSUME Returns(effects), queue' \in Seq(Tasks),
               handed' \subseteq Tasks \X Nat, told' \subseteq Tasks \X Nat
        PROVE  Sustained
    <2> DEFINE s == End(Stored, effects)
    <2>1. /\ disk' = s.disk /\ replayed' = s.replayed /\ acceptances' = s.acceptances
          /\ mem' = s.mem /\ happened' = happened
      BY <1>2 DEF Returns, Leaves, After, End
    <2>2. s \in Settled
      OBVIOUS
    <2> HIDE DEF s
    <2>3. /\ s \in Seen /\ s.mem \in [Tasks -> Manager!TaskRecord]
          /\ \A t \in Tasks : Lag(t, s.mem[t], s.disk[t])
      BY <2>2 DEF Settled, Halting, Seen, AnyState
    <2> QED
      BY <1>0, <1>2, <2>1, <2>2, <2>3, LandingIsSustained DEF Settled
  <1>3. ASSUME Raises(effects), queue' \in Seq(Tasks)
        PROVE  Sustained
    <2>1. PICK k \in 1 .. Len(effects) : /\ effects[k].kind = "emit"
                                        /\ Leaves(effects, k - 1)
                                        /\ mem' = After(effects, k - 1).mem
      BY <1>1, <1>3 DEF Raises
    <2> DEFINE s == States(Stored, effects)[k - 1]
    <2>2. /\ disk' = s.disk /\ replayed' = s.replayed /\ acceptances' = s.acceptances
          /\ mem' = s.mem
      BY <2>1 DEF Leaves, After
    <2>3. s \in Halting
      BY <2>1 DEF Guarded
    <2> HIDE DEF s
    <2>4. /\ s \in Seen /\ s.mem \in [Tasks -> Manager!TaskRecord]
          /\ \A t \in Tasks : Lag(t, s.mem[t], s.disk[t])
      BY <2>3 DEF Halting, Seen, AnyState
    <2>5. /\ happened' \subseteq Faults /\ "emit" \in happened'
          /\ handed' = handed /\ told' = told
      BY <1>0, <1>3 DEF Raises
    <2> QED
      BY <1>0, <1>3, <2>2, <2>4, <2>5, LandingIsSustained
  <1>4. ASSUME NEW order \in Seq(Tasks), Dies(effects, order)
        PROVE  Sustained
    <2>1. PICK k \in 0 .. Len(effects) :
              Leaves(effects, k) /\ Rehydrated(After(effects, k).disk, order)
      BY <1>4 DEF Dies
    <2> DEFINE s == States(Stored, effects)[k]
    <2>2. /\ disk' = s.disk /\ replayed' = s.replayed /\ acceptances' = s.acceptances
          /\ mem' = s.disk /\ queue' = WithRow(s.disk, order)
      BY <2>1 DEF Leaves, After, Rehydrated
    <2>3. s \in Seen
      BY <2>1 DEF Guarded
    <2> HIDE DEF s
    <2>4. /\ s.disk \in [Tasks -> Manager!TaskRecord] /\ queue' \in Seq(Tasks)
          /\ \A t \in Tasks : Lag(t, s.disk[t], s.disk[t])
      BY <2>2, <2>3, WithRowIsSeq DEF Seen, AnyState, Lag
    <2>5. /\ happened' \subseteq Faults /\ "crash" \in happened'
          /\ handed' = handed /\ told' = told
      BY <1>0, <1>4 DEF Dies
    <2> QED
      BY <1>0, <2>2, <2>3, <2>4, <2>5, LandingIsSustained
  <1> QED
    BY <1>2, <1>3, <1>4

\* What workers were told holds on, and holds of what one is told now.
LEMMA PromisesAreKept ==
    ASSUME DurableInv, Sustained,
           \A h \in handed' : h \in handed \/ h[2] \in DOMAIN disk'[h[1]].history,
           \A h \in told' : \/ h \in told
                            \/ Manager!IsLive(h[1], h[2]) /\ disk'[h[1]].accepted = h[2]
    PROVE  DurableInv'
  <1>1. /\ Consistent /\ Consistent' /\ \A t \in Tasks : Agrees(t) /\ Agrees(t)'
        /\ handed \subseteq Tasks \X Nat /\ told \subseteq Tasks \X Nat
        /\ handed' \subseteq Tasks \X Nat /\ told' \subseteq Tasks \X Nat
    BY DEF DurableInv, Sustained, Consistent, TypeOK
  <1>2. HandedLeaseIsDurable'
    <2> SUFFICES ASSUME NEW h \in handed', h \in handed
                 PROVE  h[2] \in DOMAIN disk'[h[1]].history
      BY DEF HandedLeaseIsDurable
    <2> DEFINE d == disk[h[1]]
               e == disk'[h[1]]
    <2>1. h[1] \in Tasks /\ h[2] \in DOMAIN d.history /\ SoundRecord(h[1], d)
      BY <1>1 DEF DurableInv, HandedLeaseIsDurable, Agrees
    <2>2. RowStep(h[1], d, e)
      BY <2>1 DEF Sustained
    <2> HIDE DEF d, e
    <2>3. SoundRecord(h[1], e) /\ Len(d.history) <= Len(e.history)
      BY <2>1, <2>2, RowStepIsSound
    <2>4. d.history \in Seq(Manager!Lease) /\ e.history \in Seq(Manager!Lease)
      BY <2>1, <2>3 DEF SoundRecord, Manager!TaskRecord
    <2>5. DOMAIN d.history = 1 .. Len(d.history) /\ DOMAIN e.history = 1 .. Len(e.history)
      BY <2>4
    <2>6. Len(d.history) \in Nat /\ Len(e.history) \in Nat
      BY <2>4
    <2> QED
      BY <2>1, <2>3, <2>5, <2>6 DEF e
  <1>3. ASSUME NEW h \in told'
        PROVE  disk'[h[1]].accepted = h[2] /\ h[2] # 0
    <2>1. CASE h \in told
      <3> DEFINE d == disk[h[1]]
      <3>1. h[1] \in Tasks /\ d.accepted = h[2] /\ h[2] # 0 /\ SoundRecord(h[1], d)
        BY <1>1, <2>1 DEF DurableInv, AcceptedForGood, Agrees
      <3>2. d.state = "COMPLETED"
        BY <3>1 DEF SoundRecord
      <3>3. disk'[h[1]] = d
        BY <3>1, <3>2, RowStepIsSound DEF Sustained, Manager!Terminal
      <3> QED
        BY <3>1, <3>3
    <2>2. CASE h \notin told
      <3>1. h[1] \in Tasks /\ Manager!IsLive(h[1], h[2]) /\ disk'[h[1]].accepted = h[2]
        BY <1>1, <2>2
      <3>2. SoundRecord(h[1], mem[h[1]])
        BY <1>1, <3>1, MemIsSound
      <3> QED
        BY <3>1, <3>2 DEF SoundRecord, Manager!IsLive
    <2> QED
      BY <2>1, <2>2
  <1>4. ASSUME NEW h \in told'
        PROVE  mem'[h[1]].accepted = h[2]
    <2>1. h[1] \in Tasks /\ disk'[h[1]].accepted = h[2] /\ h[2] # 0
      BY <1>1, <1>3
    <2>2. disk'[h[1]].state = "COMPLETED"
      BY <1>1, <2>1 DEF Agrees, SoundRecord
    <2>3. Lag(h[1], mem[h[1]], disk[h[1]])'
      BY <1>1, <2>1 DEF Agrees
    <2> QED
      BY <2>1, <2>2, <2>3 DEF Lag
  <1>5. ASSUME NEW h \in told', NEW g \in told', g[1] = h[1]
        PROVE  g = h
    <2>1. g[2] = h[2]
      BY <1>3, <1>5
    <2> QED
      BY <1>1, <1>5, <2>1
  <1>6. AcceptedForGood'
    BY <1>3, <1>4, <1>5 DEF AcceptedForGood
  <1> QED
    BY <1>1, <1>2, <1>3, <1>6 DEF DurableInv

-----------------------------------------------------------------------------
(***************************************************************************)
(* Every step keeps the invariant                                          *)
(***************************************************************************)

\* A state is part of the way through a sweep that freed nothing yet.
LEMMA StoredIsPartway ==
    ASSUME Consistent
    PROVE  Stored \in Partway
  BY StoredIsSettled DEF Settled, Halting, Seen, Partway, Unmoved, Stored

\* A step that promises nothing new.
LEMMA NothingPromised ==
    ASSUME DurableInv, Sustained, handed' = handed, told' = told
    PROVE  DurableInv'
  BY PromisesAreKept

\* add_task
LEMMA AddTaskIsSustained ==
    ASSUME DurableInv, NEW t \in Tasks, AddTask(t)
    PROVE  DurableInv' /\ Sustained
  <1> DEFINE r == Manager!NewRecord
  <1>1. /\ Consistent /\ Agrees(t) /\ queue \in Seq(Tasks)
        /\ handed \subseteq Tasks \X Nat /\ told \subseteq Tasks \X Nat
    BY DEF DurableInv, Consistent, TypeOK
  <1>2. mem[t].state = "ABSENT" /\ disk[t] = mem[t]
    BY <1>1, MemIsSound DEF AddTask
  <1>3. r \in Manager!TaskRecord /\ r.state = "PENDING" /\ RowStep(t, disk[t], r)
    BY <1>2, NewRecordIsSound DEF SoundRecord, RowStep, Manager!NewRecord, Manager!NoRecord
  <1>4. "TASK_CREATED" \in Events /\ \A p : Replay(p, "TASK_CREATED") = r.state
    BY <1>3 DEF Events, Replay
  <1>5. AddEffects(t) = <<Put(t, r), Save(t), Emit(t, "TASK_CREATED")>>
    BY DEF AddEffects
  <1> HIDE DEF r
  <1>6. Guarded(Stored, AddEffects(t)) /\ End(Stored, AddEffects(t)) \in Settled
    BY <1>1, <1>2, <1>3, <1>4, <1>5, StoredIsPartway, RecordingIsGuarded
  <1>7. Append(queue, t) \in Seq(Tasks)
    BY <1>1
  <1>8. Sustained /\ handed' = handed /\ told' = told
    BY <1>1, <1>6, <1>7, GuardedCallIsSustained DEF AddTask, Raises, Dies
  <1> QED
    BY <1>8, NothingPromised

\* cancel_task
LEMMA CancelTaskIsSustained ==
    ASSUME DurableInv, NEW t \in Tasks, CancelTask(t)
    PROVE  DurableInv' /\ Sustained
  <1> DEFINE r == Withdrawn(mem[t])
             s1 == Effect(Stored, Put(t, r))
             s2 == Effect(s1, Save(t))
  <1>1. /\ Consistent /\ Agrees(t) /\ queue \in Seq(Tasks)
        /\ handed \subseteq Tasks \X Nat /\ told \subseteq Tasks \X Nat
        /\ mem[t].state # "ABSENT" /\ Stored \in Settled /\ Stored \in AnyState
    BY StoredIsSettled DEF DurableInv, Consistent, TypeOK, CancelTask, Settled, Halting, Seen
  <1>2. Guarded(Stored, CancelEffects(t)) /\ End(Stored, CancelEffects(t)) \in Settled
    <2>1. CASE mem[t].state \in Manager!Terminal
      <3>1. CancelEffects(t) = <<>> /\ Stored \in Seen
        BY <1>1, <2>1 DEF CancelEffects, Settled, Halting
      <3> QED
        BY <1>1, <3>1, NoneIsGuarded
    <2>2. CASE mem[t].state \notin Manager!Terminal
      <3>1. SoundRecord(t, mem[t]) /\ SoundRecord(t, disk[t])
        BY <1>1, MemIsSound DEF Agrees
      <3>2. mem[t].state \in {"PENDING", "LEASED"}
        BY <1>1, <2>2, <3>1
           DEF SoundRecord, Manager!TaskRecord, Manager!TaskState, Manager!Terminal
      <3>3. /\ r \in Manager!TaskRecord /\ r.state = "CANCELLED"
        BY <3>1, <3>2, WithdrawnIsSound DEF SoundRecord
      <3>4. RowStep(t, disk[t], r)
        <4>1. CASE mem[t] = disk[t]
          BY <3>2, <4>1 DEF RowStep
        <4>2. CASE disk[t].state = "LEASED" /\ mem[t] = Manager!Release(t, disk[t])
          <5>1. r = Withdrawn(disk[t])
            BY <3>1, <4>2 DEF SoundRecord, Withdrawn, Manager!Release, Manager!TaskRecord
          <5> QED
            BY <4>2, <5>1 DEF RowStep
        <4> QED
          BY <1>1, <4>1, <4>2 DEF Agrees, Lag
      <3>5. CancelEffects(t) = <<Put(t, r), Save(t)>>
        BY <2>2 DEF CancelEffects, Manager!Cancelled, Withdrawn
      <3>6. disk[t].state # "COMPLETED"
        BY <1>1, <3>2, ReleaseIsSound DEF Agrees, Lag
      <3>7. Stored.acceptances[t] = 0 /\ RowStep(t, disk[t], Stored.disk[t])
        BY <1>1, <3>6 DEF Consistent, TypeOK, Agrees, Shown, Stored, RowStep
      <3>8. \A d : Shown(d, 0)
        BY DEF Shown
      <3> HIDE DEF r, s1, s2
      <3>9. /\ s1 \in AnyState /\ Put(t, r) \in AnyEffect /\ Put(t, r).kind = "put"
            /\ s1.mem[t] = r /\ s1.disk[t] = Stored.disk[t] /\ s1.acceptances[t] = 0
            /\ \A u \in Tasks \ {t} : SameAt(u, Stored, s1)
        BY <1>1, <3>3, <3>7, PutEffect DEF s1
      <3>10. s1 \in Seen
        BY <1>1, <3>7, <3>8, <3>9, OnlyOneTaskMoves
      <3>11. /\ s2 \in AnyState /\ Save(t) \in AnyEffect /\ Save(t).kind = "save"
             /\ s2.mem[t] = r /\ s2.disk[t] = r /\ s2.acceptances[t] = 0
             /\ \A u \in Tasks \ {t} : SameAt(u, Stored, s2)
        BY <3>9, SaveEffect DEF s2, SameAt
      <3>12. s2 \in Settled /\ s2 \in Seen
        BY <1>1, <3>3, <3>4, <3>8, <3>11, OnlyOneTaskMoves
      <3>13. Stored \in Seen
        BY <1>1 DEF Settled, Halting
      <3>14. Guarded(Stored, <<Put(t, r), Save(t)>>) /\ End(Stored, <<Put(t, r), Save(t)>>) = s2
        BY <3>9, <3>10, <3>11, <3>12, <3>13, TwoAreGuarded DEF s1, s2
      <3> QED
        BY <3>5, <3>12, <3>14
    <2> QED
      BY <2>1, <2>2
  <1>3. Sustained /\ handed' = handed /\ told' = told
    BY <1>1, <1>2, GuardedCallIsSustained DEF CancelTask, Dies
  <1> QED
    BY <1>3, NothingPromised

\* claim: what it leases is, in the database, the next lease of the task.
LEMMA ClaimIsSustained ==
    ASSUME DurableInv, NEW n \in Nodes, Claim(n)
    PROVE  DurableInv' /\ Sustained
  <1> DEFINE cands == Manager!Candidates(Manager!SweptTasks, Jobs, Fits[n])
  <1>1. /\ Consistent /\ queue \in Seq(Tasks)
        /\ handed \subseteq Tasks \X Nat /\ told \subseteq Tasks \X Nat
    BY DEF DurableInv, Consistent, TypeOK
  <1>2. Guarded(Stored, SweepEffects) /\ End(Stored, SweepEffects) \in Partway
    BY <1>1, SweepIsGuarded
  <1>3. CASE Returns(SweepEffects) /\ UNCHANGED <<queue, handed, told>>
    <2>1. Sustained
      BY <1>1, <1>2, <1>3, PartwayIsSettled, GuardedCallIsSustained
    <2> QED
      BY <1>3, <2>1, NothingPromised
  <1>4. ASSUME NEW t \in cands,
               LET effects == SweepEffects \o LeaseEffects(t, n)
               IN  \/ /\ Returns(effects)
                      /\ handed' = handed \cup {<<t, Len(mem[t].history) + 1>>}
                      /\ UNCHANGED <<queue, told>>
                   \/ Raises(effects) /\ UNCHANGED queue
                   \/ Dies(effects, queue)
        PROVE  DurableInv' /\ Sustained
    <2> DEFINE effects == SweepEffects \o LeaseEffects(t, n)
               q == Manager!SweptTasks[t]
               r == Manager!Leased(t, q, n)
               s == End(Stored, SweepEffects)
    <2>1. t \in Tasks /\ q.state = "PENDING"
      BY TaskAssumption DEF Manager!Candidates
    <2>2. q = IF Manager!Lapsed(mem[t]) THEN Manager!Release(t, mem[t]) ELSE mem[t]
      BY <2>1 DEF Manager!SweptTasks
    <2>3. Agrees(t) /\ SoundRecord(t, mem[t]) /\ SoundRecord(t, disk[t])
      BY <1>1, <2>1, MemIsSound DEF Consistent, Agrees
    <2>4. \/ q = disk[t]
          \/ disk[t].state = "LEASED" /\ q = Manager!Release(t, disk[t])
      <3>1. CASE Manager!Lapsed(mem[t])
        <4>1. mem[t].state = "LEASED" /\ disk[t] = mem[t]
          BY <2>1, <2>3, <3>1, MemIsSound DEF Manager!Lapsed
        <4> QED
          BY <2>2, <3>1, <4>1
      <3>2. CASE ~Manager!Lapsed(mem[t])
        BY <2>2, <2>3, <3>2 DEF Agrees, Lag
      <3> QED
        BY <3>1, <3>2
    <2>5. /\ SoundRecord(t, q) /\ Len(q.history) = Len(mem[t].history)
      <3>1. CASE Manager!Lapsed(mem[t])
        BY <2>1, <2>2, <2>3, <3>1, ReleaseIsSound DEF Manager!Lapsed
      <3>2. CASE ~Manager!Lapsed(mem[t])
        BY <2>2, <2>3, <3>2
      <3> QED
        BY <3>1, <3>2
    <2>6. LeaseEffects(t, n) = <<Put(t, r), Save(t), Emit(t, "LEASE_CLAIMED")>>
      BY DEF LeaseEffects
    <2> HIDE DEF q
    <2>7. /\ r \in Manager!TaskRecord /\ r.state = "LEASED" /\ r.history \in Seq(Manager!Lease)
          /\ Len(r.history) = Len(q.history) + 1
      BY <2>1, <2>5, LeasedIsSound DEF SoundRecord, Manager!TaskRecord
    <2>8. RowStep(t, disk[t], r) /\ disk[t].state # "COMPLETED"
      BY <2>1, <2>4 DEF RowStep
    <2>9. "LEASE_CLAIMED" \in Events /\ \A p : Replay(p, "LEASE_CLAIMED") = r.state
      BY <2>7 DEF Events, Replay
    <2> HIDE DEF r, s
    <2>10. /\ Guarded(s, LeaseEffects(t, n)) /\ End(s, LeaseEffects(t, n)) \in Settled
           /\ End(s, LeaseEffects(t, n)).disk[t] = r
      <3>1. s \in Partway
        BY <1>2 DEF s
      <3> QED
        BY <1>1, <2>1, <2>6, <2>7, <2>8, <2>9, <3>1, RecordingIsGuarded
    <2>11. /\ Guarded(Stored, effects) /\ End(Stored, effects) \in Settled
           /\ End(Stored, effects).disk[t] = r
      BY <1>2, <2>10, JoinIsGuarded DEF s
    <2>12. /\ Len(mem[t].history) + 1 \in Nat
           /\ Len(mem[t].history) + 1 \in DOMAIN r.history
      <3>1. Len(mem[t].history) \in Nat
        BY <2>3 DEF SoundRecord, Manager!TaskRecord
      <3>2. DOMAIN r.history = 1 .. Len(mem[t].history) + 1
        BY <2>5, <2>7
      <3> QED
        BY <3>1, <3>2
    <2> HIDE DEF effects
    <2>13. CASE /\ Returns(effects)
                /\ handed' = handed \cup {<<t, Len(mem[t].history) + 1>>}
                /\ UNCHANGED <<queue, told>>
      <3>1. handed' \subseteq Tasks \X Nat
        BY <1>1, <2>1, <2>12, <2>13
      <3>2. Sustained
        BY <1>1, <2>11, <2>13, <3>1, GuardedCallIsSustained
      <3>3. disk'[t] = r
        BY <2>11, <2>13 DEF Returns, Leaves, After, End
      <3>4. \A h \in handed' : h \in handed \/ h[2] \in DOMAIN disk'[h[1]].history
        BY <2>12, <2>13, <3>3
      <3> QED
        BY <2>13, <3>2, <3>4, PromisesAreKept
    <2>14. CASE Raises(effects) /\ UNCHANGED queue
      <3>1. Sustained
        BY <1>1, <2>11, <2>14, GuardedCallIsSustained
      <3> QED
        BY <2>14, <3>1, NothingPromised DEF Raises
    <2>15. CASE Dies(effects, queue)
      <3>1. Sustained
        BY <1>1, <2>11, <2>15, GuardedCallIsSustained
      <3> QED
        BY <2>15, <3>1, NothingPromised DEF Dies
    <2> QED
      BY <1>4, <2>13, <2>14, <2>15 DEF effects
  <1> QED
    BY <1>3, <1>4 DEF Claim

\* The holder of a lease the database agrees about.
LEMMA LiveLease ==
    ASSUME DurableInv, NEW h \in handed, Manager!IsLive(h[1], h[2])
    PROVE  /\ h[1] \in Tasks /\ Agrees(h[1]) /\ SoundRecord(h[1], mem[h[1]])
           /\ mem[h[1]].state = "LEASED" /\ disk[h[1]] = mem[h[1]]
           /\ mem[h[1]].active = h[2]
  <1>1. h[1] \in Tasks /\ Agrees(h[1])
    BY DEF DurableInv, Consistent, TypeOK
  <1> QED
    BY <1>1, MemIsSound DEF Manager!IsLive

\* A call that records one more thing about a task, and promises no lease.
LEMMA RecordingCallIsSustained ==
    ASSUME DurableInv, NEW t \in Tasks, NEW r \in Manager!TaskRecord,
           NEW e \in Events, RowStep(t, disk[t], r), disk[t].state # "COMPLETED",
           \A p : Replay(p, e) = r.state,
           (e = "TASK_COMMIT_ACCEPTED") => r.state = "COMPLETED",
           NEW effects, effects = <<Put(t, r), Save(t), Emit(t, e)>>, handed' = handed,
           told' \subseteq Tasks \X Nat
    PROVE  /\ Returns(effects) /\ UNCHANGED queue => Sustained /\ disk'[t] = r
           /\ Raises(effects) /\ UNCHANGED queue => Sustained /\ told' = told
           /\ Dies(effects, queue) => Sustained /\ told' = told
  <1>1. Consistent /\ queue \in Seq(Tasks) /\ handed \subseteq Tasks \X Nat
    BY DEF DurableInv, Consistent, TypeOK
  <1>2. /\ Guarded(Stored, effects) /\ End(Stored, effects) \in Settled
        /\ End(Stored, effects).disk[t] = r
    BY <1>1, StoredIsPartway, RecordingIsGuarded
  <1>3. ASSUME Returns(effects), UNCHANGED queue
        PROVE  Sustained /\ disk'[t] = r
    BY <1>1, <1>2, <1>3, GuardedCallIsSustained DEF Returns, Leaves, After, End
  <1>4. ASSUME Raises(effects), UNCHANGED queue
        PROVE  Sustained /\ told' = told
    BY <1>1, <1>2, <1>4, GuardedCallIsSustained DEF Raises
  <1>5. ASSUME Dies(effects, queue)
        PROVE  Sustained /\ told' = told
    BY <1>1, <1>2, <1>5, GuardedCallIsSustained DEF Dies
  <1> QED
    BY <1>3, <1>4, <1>5

\* heartbeat
LEMMA HeartbeatIsSustained ==
    ASSUME DurableInv, NEW h \in handed, Heartbeat(h[1], h[2])
    PROVE  DurableInv' /\ Sustained
  <1> DEFINE t == h[1]
             r == [mem[t] EXCEPT !.ttl = LeaseTime[t]]
  <1>1. /\ t \in Tasks /\ SoundRecord(t, mem[t]) /\ disk[t] = mem[t]
        /\ mem[t].state = "LEASED"
    BY LiveLease DEF Heartbeat
  <1>2. /\ r \in Manager!TaskRecord /\ r.state = "LEASED"
    BY <1>1, ConstantsArePositive, TtlIsSound DEF SoundRecord
  <1>3. RowStep(t, disk[t], r)
    BY <1>1 DEF RowStep
  <1>4. RenewEffects(t) = <<Put(t, r), Save(t), Emit(t, "LEASE_RENEWED")>>
    BY DEF RenewEffects
  <1>5. "LEASE_RENEWED" \in Events /\ \A p : Replay(p, "LEASE_RENEWED") = r.state
    BY <1>2 DEF Events, Replay
  <1>6. handed' = handed /\ told' = told /\ told \subseteq Tasks \X Nat
    BY DEF Heartbeat, Raises, Dies, DurableInv, Consistent, TypeOK
  <1>7. \/ Returns(RenewEffects(t)) /\ UNCHANGED queue
        \/ Raises(RenewEffects(t)) /\ UNCHANGED queue
        \/ Dies(RenewEffects(t), queue)
    BY DEF Heartbeat
  <1> HIDE DEF r, t
  <1>8. Sustained
    BY <1>1, <1>2, <1>3, <1>4, <1>5, <1>6, <1>7, RecordingCallIsSustained
  <1> QED
    BY <1>6, <1>8, NothingPromised

\* complete, accepted: what the worker is told is in the database.
LEMMA CompleteAcceptedIsSustained ==
    ASSUME DurableInv, NEW h \in handed, CompleteAccepted(h[1], h[2])
    PROVE  DurableInv' /\ Sustained
  <1> DEFINE t == h[1]
             r == Committed(mem[t], h[2])
  <1>1. /\ t \in Tasks /\ SoundRecord(t, mem[t]) /\ disk[t] = mem[t]
        /\ mem[t].state = "LEASED" /\ mem[t].active = h[2] /\ Manager!IsLive(t, h[2])
    BY LiveLease DEF CompleteAccepted
  <1>2. /\ r \in Manager!TaskRecord /\ r.state = "COMPLETED"
        /\ r.accepted = h[2] /\ h[2] \in Nat
    <2>1. h[2] = mem[t].attempts_used /\ mem[t].attempts_used \in Nat
      BY <1>1 DEF SoundRecord, Manager!TaskRecord
    <2> QED
      BY <1>1, <2>1, CommittedIsSound DEF SoundRecord
  <1>3. RowStep(t, disk[t], r)
    BY <1>1 DEF RowStep
  <1>4. AcceptEffects(t, h[2]) = <<Put(t, r), Save(t), Emit(t, "TASK_COMMIT_ACCEPTED")>>
    BY DEF AcceptEffects, Committed
  <1>5. /\ "TASK_COMMIT_ACCEPTED" \in Events
        /\ \A p : Replay(p, "TASK_COMMIT_ACCEPTED") = r.state
    BY <1>2 DEF Events, Replay
  <1>6. /\ handed' = handed
        /\ told \subseteq Tasks \X Nat /\ h \in Tasks \X Nat
    BY DEF CompleteAccepted, Raises, Dies, DurableInv, Consistent, TypeOK
  <1>7. \/ /\ Returns(AcceptEffects(t, h[2])) /\ UNCHANGED queue
           /\ told' = told \cup {<<t, h[2]>>}
        \/ Raises(AcceptEffects(t, h[2])) /\ UNCHANGED queue
        \/ Dies(AcceptEffects(t, h[2]), queue)
    BY DEF CompleteAccepted
  <1>8. told' \subseteq Tasks \X Nat /\ <<t, h[2]>> = h
    BY <1>6, <1>7 DEF Raises, Dies
  <1> HIDE DEF r
  <1>9. /\ Sustained
        /\ told' = told \/ (told' = told \cup {h} /\ disk'[t] = r)
    <2> HIDE DEF t
    <2> QED
      BY <1>1, <1>2, <1>3, <1>4, <1>5, <1>6, <1>7, <1>8, RecordingCallIsSustained
  <1>10. /\ \A g \in handed' : g \in handed \/ g[2] \in DOMAIN disk'[g[1]].history
         /\ \A g \in told' : g \in told \/ (Manager!IsLive(g[1], g[2])
                                           /\ disk'[g[1]].accepted = g[2])
    BY <1>1, <1>2, <1>6, <1>9
  <1> QED
    BY <1>9, <1>10, PromisesAreKept

\* complete, rejected: the ledger says so, and nothing moves.
LEMMA CompleteRejectedIsSustained ==
    ASSUME DurableInv, NEW h \in handed, CompleteRejected(h[1], h[2])
    PROVE  DurableInv' /\ Sustained
  <1> DEFINE t == h[1]
             e == "TASK_COMMIT_REJECTED"
             q == Effect(Stored, Emit(t, e))
  <1>1. /\ t \in Tasks /\ Consistent /\ Stored \in Settled /\ Stored \in AnyState
        /\ Stored \in Partway /\ Stored \in Seen /\ Stored \in Halting
    BY StoredIsSettled, StoredIsPartway
       DEF DurableInv, Consistent, TypeOK, Settled, Halting, Seen
  <1>2. e \in Events /\ \A p : Replay(p, e) = p
    BY DEF Events, Replay
  <1>3. /\ q \in AnyState /\ Emit(t, e) \in AnyEffect
        /\ SameAt(t, Stored, q) /\ \A u \in Tasks \ {t} : SameAt(u, Stored, q)
    <2> HIDE DEF q, t
    <2>1. e # "TASK_COMMIT_ACCEPTED"
      OBVIOUS
    <2> HIDE DEF e
    <2> QED
      BY <1>1, <1>2, <2>1, EmitEffect DEF SameAt, q
  <1>4. q \in Partway
    BY <1>1, <1>3 DEF Partway, Unmoved, Freed, SameAt
  <1>5. Guarded(Stored, RejectEffects(t)) /\ End(Stored, RejectEffects(t)) \in Settled
    <2>1. q \in Settled /\ q \in Seen
      BY <1>1, <1>4, PartwayIsSettled DEF Settled, Halting
    <2> QED
      BY <1>1, <1>3, <2>1, OneIsGuarded DEF RejectEffects
  <1>6. Sustained /\ handed' = handed /\ told' = told
    BY <1>1, <1>5, GuardedCallIsSustained DEF CompleteRejected, Consistent, TypeOK
  <1> QED
    BY <1>6, NothingPromised

\* fail
LEMMA FailIsSustained ==
    ASSUME DurableInv, NEW h \in handed, Fail(h[1], h[2])
    PROVE  DurableInv' /\ Sustained
  <1> DEFINE t == h[1]
  <1>1. t \in Tasks /\ mem[t].state = "LEASED" /\ Consistent
    BY LiveLease DEF Fail, DurableInv
  <1>2. /\ queue \in Seq(Tasks)
        /\ handed \subseteq Tasks \X Nat /\ told \subseteq Tasks \X Nat
    BY <1>1 DEF Consistent, TypeOK
  <1>3. Guarded(Stored, FailEffects(t)) /\ End(Stored, FailEffects(t)) \in Settled
    <2> HIDE DEF t
    <2>1. Guarded(Stored, FailEffects(t)) /\ End(Stored, FailEffects(t)) \in Partway
      BY <1>1, StoredIsPartway, FreeingIsGuarded DEF FailEffects
    <2> QED
      BY <1>1, <2>1, PartwayIsSettled
  <1>4. Sustained /\ handed' = handed /\ told' = told
    BY <1>1, <1>2, <1>3, GuardedCallIsSustained DEF Fail, Raises, Dies
  <1> QED
    BY <1>4, NothingPromised

\* sweep
LEMMA SweepIsSustained ==
    ASSUME DurableInv, Sweep
    PROVE  DurableInv' /\ Sustained
  <1>1. /\ Consistent /\ queue \in Seq(Tasks)
        /\ handed \subseteq Tasks \X Nat /\ told \subseteq Tasks \X Nat
    BY DEF DurableInv, Consistent, TypeOK
  <1>2. Guarded(Stored, SweepEffects) /\ End(Stored, SweepEffects) \in Settled
    BY <1>1, SweepIsGuarded, PartwayIsSettled
  <1>3. Sustained /\ handed' = handed /\ told' = told
    BY <1>1, <1>2, GuardedCallIsSustained DEF Sweep, Raises, Dies
  <1> QED
    BY <1>3, NothingPromised

\* A restart between two calls.
LEMMA RestartIsSustained ==
    ASSUME DurableInv, Restart
    PROVE  DurableInv' /\ Sustained
  <1>1. /\ Consistent /\ TypeOK /\ \A t \in Tasks : Agrees(t)
        /\ Stored \in Seen
    BY StoredIsSettled DEF DurableInv, Consistent, Settled, Halting
  <1>2. queue' \in Seq(Tasks)
    BY <1>1, WithRowIsSeq DEF Restart, Rehydrated, TypeOK
  <1>3. /\ disk' = Stored.disk /\ replayed' = Stored.replayed
        /\ acceptances' = Stored.acceptances /\ mem' = Stored.disk
        /\ Stored.disk = disk /\ Stored.replayed = replayed
        /\ handed' = handed /\ told' = told /\ happened' = happened
    BY DEF Restart, Rehydrated, Stored
  <1>4. Sustained
    <2>1. \A t \in Tasks :
            /\ Lag(t, mem'[t], Stored.disk[t])
            /\ "emit" \notin happened' => Stored.disk[t] = mem'[t]
            /\ happened' = {} /\ mem'[t].state # "CANCELLED"
                  => Stored.replayed[t] = mem'[t].state
      BY <1>1, <1>3 DEF Lag, Agrees
    <2>2. /\ mem' \in [Tasks -> Manager!TaskRecord] /\ handed' \subseteq Tasks \X Nat
          /\ told' \subseteq Tasks \X Nat /\ happened' \subseteq Faults
      BY <1>1, <1>3 DEF TypeOK
    <2> QED
      BY <1>1, <1>2, <1>3, <2>1, <2>2, LandingIsSustained
  <1> QED
    BY <1>3, <1>4, NothingPromised

\* A unit of time
LEMMA TickIsSustained ==
    ASSUME DurableInv, Tick
    PROVE  DurableInv' /\ Sustained
  <1> DEFINE s == [Stored EXCEPT !.disk = Aged(disk)]
             age(r) == [r EXCEPT !.ttl = IF @ = 0 THEN 0 ELSE @ - 1]
  <1>1. Consistent /\ TypeOK /\ \A t \in Tasks : Agrees(t)
    BY DEF DurableInv, Consistent
  <1>2. \A t \in Tasks : Aged(mem)[t] = age(mem[t]) /\ Aged(disk)[t] = age(disk[t])
    BY DEF Aged
  <1>3. ASSUME NEW t \in Tasks, NEW r, SoundRecord(t, r)
        PROVE  /\ age(r) \in Manager!TaskRecord /\ age(r).state = r.state
               /\ r.state # "LEASED" => age(r) = r
    <2>1. PICK v \in Nat : age(r) = [r EXCEPT !.ttl = v] /\ (r.state = "LEASED" \/ v = r.ttl)
      BY <1>3, AgedRecord
    <2>2. r \in Manager!TaskRecord
      BY <1>3 DEF SoundRecord
    <2> QED
      BY <2>1, <2>2 DEF Manager!TaskRecord
  <1>4. \A t \in Tasks : SoundRecord(t, disk[t]) /\ SoundRecord(t, mem[t])
    BY <1>1, MemIsSound DEF Agrees
  <1>5. /\ Aged(mem) \in [Tasks -> Manager!TaskRecord]
        /\ Aged(disk) \in [Tasks -> Manager!TaskRecord]
    <2> HIDE DEF age
    <2>1. /\ Aged(mem) = [t \in Tasks |-> Aged(mem)[t]]
          /\ Aged(disk) = [t \in Tasks |-> Aged(disk)[t]]
      BY DEF Aged
    <2> QED
      BY <1>2, <1>3, <1>4, <2>1
  <1>6. /\ s.disk = Aged(disk) /\ s.replayed = replayed /\ s.acceptances = acceptances
        /\ s.mem = mem
    BY DEF Stored
  <1>7. s \in AnyState
    BY <1>1, <1>5 DEF TypeOK, AnyState, Stored
  <1>8. \A t \in Tasks : RowStep(t, disk[t], age(disk[t]))
    BY DEF RowStep
  <1>9. ASSUME NEW t \in Tasks
        PROVE  Lag(t, age(mem[t]), age(disk[t]))
    <2>1. CASE mem[t] = disk[t]
      BY <2>1 DEF Lag
    <2>2. CASE disk[t].state = "LEASED" /\ mem[t] = Manager!Release(t, disk[t])
      <3>1. SoundRecord(t, disk[t]) /\ SoundRecord(t, mem[t])
        BY <1>4
      <3>2. mem[t].state # "LEASED"
        BY <2>2, <3>1, ReleaseIsSound
      <3>3. age(mem[t]) = mem[t]
        BY <1>3, <3>1, <3>2
      <3>4. PICK v \in Nat : age(disk[t]) = [disk[t] EXCEPT !.ttl = v]
        BY <3>1, AgedRecord
      <3>5. disk[t] \in Manager!TaskRecord
        BY <3>1 DEF SoundRecord
      <3>6. Manager!Release(t, [disk[t] EXCEPT !.ttl = v]) = Manager!Release(t, disk[t])
        BY <3>5 DEF Manager!Release, Manager!TaskRecord
      <3>7. age(disk[t]).state = "LEASED"
        BY <1>3, <2>2, <3>1
      <3> HIDE DEF age
      <3> QED
        BY <2>2, <3>3, <3>4, <3>6, <3>7 DEF Lag
    <2> QED
      BY <1>1, <2>1, <2>2 DEF Agrees, Lag
  <1> HIDE DEF s, age
  <1>10. s \in Seen
    <2>1. ASSUME NEW t \in Tasks
          PROVE  Shown(s.disk[t], s.acceptances[t])
      <3>1. s.disk[t].state = disk[t].state /\ s.acceptances[t] = acceptances[t]
        BY <1>2, <1>3, <1>4, <1>6
      <3> QED
        BY <1>1, <3>1 DEF Agrees, Shown
    <2> QED
      BY <1>2, <1>6, <1>7, <1>8, <2>1 DEF Seen
  <1>11. /\ disk' = s.disk /\ replayed' = s.replayed /\ acceptances' = s.acceptances
         /\ mem' = Aged(mem) /\ queue' = queue /\ handed' = handed /\ told' = told
         /\ happened' = happened
    BY <1>6 DEF Tick
  <1>12. ASSUME NEW t \in Tasks
         PROVE  /\ Lag(t, mem'[t], s.disk[t])
                /\ "emit" \notin happened' => s.disk[t] = mem'[t]
                /\ happened' = {} /\ mem'[t].state # "CANCELLED"
                      => s.replayed[t] = mem'[t].state
    <2>1. mem'[t] = age(mem[t]) /\ s.disk[t] = age(disk[t]) /\ mem'[t].state = mem[t].state
      BY <1>2, <1>3, <1>4, <1>6, <1>11
    <2> QED
      BY <1>1, <1>6, <1>9, <1>11, <2>1 DEF Agrees
  <1>13. Sustained
    <2>1. /\ mem' \in [Tasks -> Manager!TaskRecord] /\ queue' \in Seq(Tasks)
          /\ handed' \subseteq Tasks \X Nat /\ told' \subseteq Tasks \X Nat
          /\ happened' \subseteq Faults
      BY <1>1, <1>5, <1>11 DEF TypeOK
    <2> QED
      BY <1>1, <1>10, <1>11, <1>12, <2>1, LandingIsSustained
  <1> QED
    BY <1>11, <1>13, NothingPromised

\* So every step keeps the invariant, and moves each row by a RowStep.
LEMMA NextIsSustained ==
    ASSUME DurableInv, Next
    PROVE  DurableInv' /\ Sustained
  BY AddTaskIsSustained, CancelTaskIsSustained, ClaimIsSustained, HeartbeatIsSustained,
     CompleteAcceptedIsSustained, CompleteRejectedIsSustained, FailIsSustained,
     SweepIsSustained, RestartIsSustained, TickIsSustained DEF Next

\* Init leaves nothing registered, handed or told.
LEMMA InitIsDurable == Init => DurableInv
  <1> SUFFICES ASSUME Init
               PROVE  DurableInv
    OBVIOUS
  <1>1. \A t \in Tasks : SoundRecord(t, Manager!NoRecord)
    BY NewRecordIsSound
  <1>2. mem \in [Tasks -> Manager!TaskRecord] /\ disk = mem
    BY <1>1 DEF Init, SoundRecord
  <1>3. TypeOK
    BY <1>2 DEF Init, TypeOK, Manager!TaskState
  <1>4. \A t \in Tasks : Agrees(t)
    BY <1>1 DEF Init, Agrees, Lag, Shown, Manager!NoRecord
  <1> QED
    BY <1>3, <1>4 DEF DurableInv, Consistent, HandedLeaseIsDurable, AcceptedForGood, Init

\* A step that changes nothing.
LEMMA StutterIsDurable ==
    ASSUME DurableInv, UNCHANGED vars
    PROVE  DurableInv'
  BY DEF vars, DurableInv, Consistent, TypeOK, Agrees, SoundRecord, Lag, Shown,
         HandedLeaseIsDurable, AcceptedForGood, Manager!TaskRecord, Manager!TaskState,
         Manager!Lease, Manager!NoRecord, Manager!Release

-----------------------------------------------------------------------------
\* Memory, database and ledger agree as far as they can, and what workers were
\* told stands, whichever appends raise and wherever the process dies.
THEOREM DurableInvariant == Spec => []DurableInv
  <1>1. DurableInv /\ [Next]_vars => DurableInv'
    BY NextIsSustained, StutterIsDurable
  <1> QED
    BY <1>1, InitIsDurable, PTL DEF Spec

\* While no append raised, the database holds what memory holds: the manager
\* "calls save(record) after every state transition" (store.py).
THEOREM DatabaseIsMemory == Spec => []DiskIsMemory
  <1>1. DurableInv => DiskIsMemory
    <2> SUFFICES ASSUME DurableInv, "emit" \notin happened
                 PROVE  TypeOK /\ disk = mem
      BY DEF DiskIsMemory, DurableInv, Consistent
    <2>1. TypeOK /\ \A t \in Tasks : disk[t] = mem[t]
      BY DEF DurableInv, Consistent, Agrees
    <2> QED
      BY <2>1 DEF TypeOK
  <1> QED
    BY <1>1, DurableInvariant, PTL

\* A lease a worker was handed and a commit it was told of stay in the
\* database, over crashes and failed appends.
THEOREM WhatWasToldIsDurable == Spec => []WhatWasToldStands
  <1>1. DurableInv => WhatWasToldStands
    BY DEF DurableInv, WhatWasToldStands
  <1> QED
    BY <1>1, DurableInvariant, PTL

\* The ledger shows no acceptance the database lacks, none twice, and, while
\* no call was cut short, the status of every task that was not cancelled.
THEOREM LedgerCanBeTrusted == Spec => []LedgerIsTrue
  <1>1. DurableInv => LedgerIsTrue
    BY DEF DurableInv, Consistent, Agrees, Shown, LedgerIsTrue, LedgerShowsAcceptedOnce,
           ReplayUnlessCancelled
  <1> QED
    BY <1>1, DurableInvariant, PTL

\* Where no append to the ledger can raise, terminal states are final in
\* memory as well (manager.py, cancel_task), over any crash and restart: an
\* append that raises is the only way to reopen a task.
THEOREM FinalUnlessAppendsRaise ==
    ASSUME "emit" \notin Faults
    PROVE  Spec => TerminalIsFinal
  <1>1. ASSUME DurableInv, [Next]_vars
        PROVE  [\A t \in Tasks : mem[t].state \in Manager!Terminal => mem'[t] = mem[t]]_vars
    <2>1. CASE UNCHANGED vars
      BY <2>1
    <2>2. ASSUME Next, NEW t \in Tasks, mem[t].state \in Manager!Terminal
          PROVE  mem'[t] = mem[t]
      <3>1. DurableInv' /\ Sustained
        BY <1>1, <2>2, NextIsSustained
      <3>2. /\ "emit" \notin happened /\ "emit" \notin happened'
            /\ Agrees(t) /\ Agrees(t)' /\ RowStep(t, disk[t], disk'[t])
        BY <1>1, <3>1 DEF DurableInv, Consistent, TypeOK, Sustained
      <3>3. disk[t] = mem[t] /\ disk'[t] = mem'[t] /\ SoundRecord(t, disk[t])
        BY <3>2 DEF Agrees
      <3>4. disk'[t] = disk[t]
        BY <2>2, <3>2, <3>3, RowStepIsSound
      <3> QED
        BY <3>3, <3>4
    <2> QED
      BY <1>1, <2>1, <2>2
  <1> QED
    BY <1>1, DurableInvariant, PTL DEF Spec, TerminalIsFinal

-----------------------------------------------------------------------------
(***************************************************************************)
(* The database implements TaskContract                                    *)
(***************************************************************************)

\* A row that moves as ContractMove says takes a step of the contract.
LEMMA ContractStep ==
    ASSUME NEW t \in Tasks, ContractMove(t, disk[t], disk'[t])
    PROVE  DurableContract!TaskStep(t)
  <1> DEFINE r == disk[t]
             s == disk'[t]
             ph == [u \in Tasks |-> Manager!PhaseOf(disk[u].state)]
             is == [u \in Tasks |-> disk[u].attempts_used]
             wn == [u \in Tasks |-> disk[u].accepted]
  <1>1. /\ ph[t] = Manager!PhaseOf(r.state) /\ ph'[t] = Manager!PhaseOf(s.state)
        /\ is[t] = r.attempts_used /\ is'[t] = s.attempts_used
        /\ wn[t] = r.accepted /\ wn'[t] = s.accepted
    BY DEF Manager!PhaseOf
  <1>2. /\ Manager!PhaseOf("ABSENT") = "new" /\ Manager!PhaseOf("PENDING") = "open"
        /\ Manager!PhaseOf("LEASED") = "held" /\ Manager!PhaseOf("COMPLETED") = "won"
        /\ Manager!PhaseOf("FAILED") = "spent" /\ Manager!PhaseOf("CANCELLED") = "withdrawn"
    BY DEF Manager!PhaseOf
  <1> HIDE DEF ph, is, wn
  <1>3. CASE s.state = r.state /\ s.attempts_used = r.attempts_used /\ s.accepted = r.accepted
    <2>1. ph'[t] = ph[t] /\ is'[t] = is[t] /\ wn'[t] = wn[t]
      BY <1>1, <1>3
    <2> QED
      BY <2>1 DEF DurableContract!TaskStep, DurableContract!Stays, DurableContract!KeepsIssued,
                  DurableContract!KeepsWinner, ph, is, wn
  <1>4. CASE /\ r.state = "ABSENT" /\ s.state = "PENDING"
             /\ s.attempts_used = r.attempts_used /\ s.accepted = r.accepted
    <2>1. ph[t] = "new" /\ ph'[t] = "open" /\ is'[t] = is[t] /\ wn'[t] = wn[t]
      BY <1>1, <1>2, <1>4
    <2> QED
      BY <2>1 DEF DurableContract!TaskStep, DurableContract!Register, DurableContract!Moves,
                  DurableContract!KeepsIssued, DurableContract!KeepsWinner, ph, is, wn
  <1>5. CASE /\ r.state \in {"PENDING", "LEASED"} /\ s.state = "CANCELLED"
             /\ s.attempts_used = r.attempts_used /\ s.accepted = r.accepted
    <2>1. /\ ph[t] \in {"open", "held"} /\ ph'[t] = "withdrawn"
          /\ is'[t] = is[t] /\ wn'[t] = wn[t]
      BY <1>1, <1>2, <1>5
    <2> QED
      BY <2>1 DEF DurableContract!TaskStep, DurableContract!Withdraw, DurableContract!Moves,
                  DurableContract!KeepsIssued, DurableContract!KeepsWinner, ph, is, wn
  <1>6. CASE /\ r.state = "LEASED"
             /\ s.state = IF r.attempts_used < MaxAttempts[t] THEN "PENDING" ELSE "FAILED"
             /\ s.attempts_used = r.attempts_used /\ s.accepted = r.accepted
    <2>1. /\ ph[t] = "held" /\ is'[t] = is[t] /\ wn'[t] = wn[t]
          /\ ph'[t] = IF is[t] < MaxAttempts[t] THEN "open" ELSE "spent"
      BY <1>1, <1>2, <1>6
    <2> QED
      BY <2>1 DEF DurableContract!TaskStep, DurableContract!Drop, DurableContract!Moves,
                  DurableContract!KeepsIssued, DurableContract!KeepsWinner, ph, is, wn
  <1>7. CASE /\ r.state \in {"PENDING", "LEASED"} /\ s.state = "LEASED"
             /\ r.attempts_used < MaxAttempts[t]
             /\ s.attempts_used = r.attempts_used + 1 /\ s.accepted = r.accepted
    <2>1. /\ ph[t] \in {"open", "held"} /\ ph'[t] = "held" /\ is[t] < MaxAttempts[t]
          /\ is'[t] = is[t] + 1 /\ wn'[t] = wn[t]
      BY <1>1, <1>2, <1>7
    <2> QED
      BY <2>1 DEF DurableContract!TaskStep, DurableContract!Grant, DurableContract!Moves,
                  DurableContract!KeepsWinner, ph, is, wn
  <1>8. CASE /\ r.state = "LEASED" /\ s.state = "COMPLETED"
             /\ s.accepted = r.attempts_used /\ s.attempts_used = r.attempts_used
    <2>1. /\ ph[t] = "held" /\ ph'[t] = "won" /\ wn'[t] = is[t] /\ is'[t] = is[t]
      BY <1>1, <1>2, <1>8
    <2> QED
      BY <2>1 DEF DurableContract!TaskStep, DurableContract!Win, DurableContract!Moves,
                  DurableContract!KeepsIssued, ph, is, wn
  <1> QED
    BY <1>3, <1>4, <1>5, <1>6, <1>7, <1>8 DEF ContractMove

\* The database implements the contract of one task: every call, append that
\* raises, crash and restart is, for each row, a step it allows or none.
THEOREM DatabaseImplementsContract == Spec => DiskImplementsContract
  <1>1. Init => DurableContract!Init
    BY DEF Init, Manager!NoRecord, Manager!PhaseOf, DurableContract!Init
  <1>2. ASSUME DurableInv, [Next]_vars
        PROVE  [DurableContract!Next]_(DurableContract!vars)
    <2>1. CASE UNCHANGED vars
      BY <2>1 DEF vars, DurableContract!vars, Manager!PhaseOf
    <2>2. CASE Next
      <3>1. Sustained
        BY <1>2, <2>2, NextIsSustained
      <3>2. \A t \in Tasks : SoundRecord(t, disk[t]) /\ RowStep(t, disk[t], disk'[t])
        BY <1>2, <3>1 DEF Sustained, DurableInv, Consistent, Agrees
      <3>3. \A t \in Tasks : DurableContract!TaskStep(t)
        BY <3>2, RowStepIsSound, ContractStep
      <3>4. \A t \in Tasks : disk'[t] \in Manager!TaskRecord
        BY <3>2, RowStepIsSound DEF SoundRecord
      <3>5. \A t \in Tasks :
               /\ Manager!PhaseOf(disk'[t].state) \in DurableContract!Phase
               /\ disk'[t].attempts_used \in Nat /\ disk'[t].accepted \in Nat
        BY <3>4 DEF Manager!PhaseOf, Manager!TaskRecord, Manager!TaskState, DurableContract!Phase
      <3> QED
        BY <3>3, <3>5 DEF DurableContract!Next, Manager!PhaseOf
    <2> QED
      BY <1>2, <2>1, <2>2
  <1> QED
    BY <1>1, <1>2, DurableInvariant, PTL DEF Spec, DiskImplementsContract, DurableContract!Spec

=============================================================================
