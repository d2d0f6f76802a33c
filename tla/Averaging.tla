----------------------------- MODULE Averaging -----------------------------
(***************************************************************************)
(* reduce_deltas_with_report (flashml_workloads/fedavg_weights.py): the    *)
(* sample-weighted mean of a round's deltas, each held to three times the  *)
(* median norm.  No state.                                                 *)
(*                                                                         *)
(* A contribution is a record [delta, samples].  A delta of one parameter  *)
(* is its signed length, NotFinite or Misshapen; a sample count is a whole *)
(* number or NotACount (a fraction, a boolean, an infinity).  Twice the    *)
(* norms are compared, as the median of an even number of them is a half.  *)
(***************************************************************************)
EXTENDS Integers, Sequences, FiniteSets, FiniteSetsExt

CONSTANTS NotFinite, Misshapen, NotACount

\* A delta, or what is wrong with it, and what the worker says it trained on.
Contribution == [delta : {NotFinite, Misshapen} \cup Int, samples : {NotACount} \cup Int]

ASSUME MalformedAssumption == {NotFinite, Misshapen, NotACount} \cap Int = {}

CLIP_FACTOR == 3

Magnitude(delta) == IF delta < 0 THEN -delta ELSE delta

Samples(cs) == MapThenSumSet(LAMBDA i : cs[i].samples, DOMAIN cs)

WellFormed(c) == c.delta \notin {NotFinite, Misshapen}

\* The refusals, with the sample counts looked at in their total only.
RefusedByTotal(cs) ==
    \/ cs = <<>>
    \/ \E i \in DOMAIN cs : cs[i].samples = NotACount
    \/ Samples(cs) <= 0
    \/ \E i \in DOMAIN cs : ~WellFormed(cs[i])

\* A round is refused whole for one contribution that is malformed.
ReductionRefused(cs) ==
    \/ cs = <<>>
    \/ \E i \in DOMAIN cs : cs[i].samples = NotACount \/ cs[i].samples <= 0
    \/ \E i \in DOMAIN cs : ~WellFormed(cs[i])

\* The norm at place k when they are sorted: fewer than k are less, and k are no greater.
Ordered(cs, k) ==
    LET norm == [i \in DOMAIN cs |-> Magnitude(cs[i].delta)]
    IN  CHOOSE x \in {norm[i] : i \in DOMAIN cs} :
            /\ Cardinality({i \in DOMAIN cs : norm[i] < x}) < k
            /\ Cardinality({i \in DOMAIN cs : norm[i] <= x}) >= k

\* Twice the median of the norms of cs.
TwiceMedian(cs) ==
    LET mid == Len(cs) \div 2
    IN  IF Len(cs) % 2 = 1 THEN 2 * Ordered(cs, mid + 1)
        ELSE Ordered(cs, mid) + Ordered(cs, mid + 1)

\* Twice a delta, scaled back to the cap when its norm is above it.
TwiceClipped(delta, twice_cap) ==
    IF 2 * Magnitude(delta) <= twice_cap THEN 2 * delta
    ELSE IF delta < 0 THEN -twice_cap ELSE twice_cap

\* Twice the sum of the deltas, each clipped and counted once per sample.
WeightedSum(cs, twice_cap) ==
    MapThenSumSet(LAMBDA i : cs[i].samples * TwiceClipped(cs[i].delta, twice_cap), DOMAIN cs)

\* The mean as a fraction: [over, under].
Reduced(cs) ==
    [over |-> WeightedSum(cs, CLIP_FACTOR * TwiceMedian(cs)), under |-> 2 * Samples(cs)]
=============================================================================
