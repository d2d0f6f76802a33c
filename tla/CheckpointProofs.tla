--------------------------- MODULE CheckpointProofs ---------------------------
(***************************************************************************)
(* Proofs about the checkpoints: the catalog for any tasks, and after it   *)
(* the relay of a task's checkpoints.                                      *)
(*                                                                         *)
(* CheckpointCatalog, for any tasks, attempts, steps, parts and world      *)
(* sizes: a manifest stands as it was committed, over parts that its own   *)
(* attempt registered, and no commit and no restore verification moves the *)
(* step a task resumes from back.  There `Better`   *)
(* is a strict total order on the places of the manifests, so the choice   *)
(* of latest_valid is its greatest selectable member and has the greatest  *)
(* step; an operation that leaves every selectable manifest selectable and *)
(* with its step can then only find one with a greater step.               *)
(*                                                                         *)
(* CheckpointRelay, for any number of steps, attempts and faults: no       *)
(* manifest without its bytes, no checkpoint missed or left half shipped   *)
(* by a final sweep that met no failure, unless a thread read it before    *)
(* its end, no attempt that resumes behind what was shipped.               *)
(*                                                                         *)
(* The argument.  A shipper registers and commits only what it uploaded,   *)
(* and nothing is ever taken out of the store; so the bytes of a manifest  *)
(* follow from the shipper that committed it, whatever else happened to    *)
(* the catalog in between.  The final sweep sees all there will be, since  *)
(* its process has ended, and a file leaves its list only when it comes    *)
(* into its hand or was shipped by the thread.  What is on its way of a    *)
(* file that nobody read before its end is the file as it stays, so that   *)
(* late arrivals put the same bytes into the store.  The choice of         *)
(* latest_valid is the greatest step in the catalog, and the highest step  *)
(* shipped is in the catalog until a restart forgets both.                 *)
(***************************************************************************)
EXTENDS CheckpointRelay, FiniteSetTheorems, SequenceTheorems, WellFoundedInduction, TLAPS

-----------------------------------------------------------------------------
(***************************************************************************)
(* The catalog                                                             *)
(***************************************************************************)

\* The manifests that may be resumed from.
Usable(s) == Selectable(s, {}, FALSE)

\* m is one of them and no other is to be preferred.
Best(s, m) == m \in Usable(s) /\ \A k \in Usable(s) \ {m} : Better(m, k)

\* The step a task resumes from is the greatest of theirs.
GreatestStep ==
    \A s \in Scopes :
        /\ Usable(s) = {} => ResumeStep(s) = 0
        /\ Usable(s) # {} =>
              /\ \E m \in Usable(s) : ResumeStep(s) = manifests[m].step
              /\ \A k \in Usable(s) : manifests[k].step <= ResumeStep(s)

-----------------------------------------------------------------------------
\* A manifest has the fields it is committed with.
LEMMA ManifestFields ==
    ASSUME CatalogTypeOK, NEW m \in DOMAIN manifests
    PROVE  /\ manifests[m] \in Manifest
           /\ manifests[m].step \in Nat
           /\ m \in Nat
  <1>1. manifests \in Seq(Manifest) /\ DOMAIN manifests = 1 .. Len(manifests)
    BY DEF CatalogTypeOK
  <1>2. manifests[m] \in Manifest /\ m \in Nat
    BY <1>1
  <1> QED BY <1>2, StepsAssumption DEF Manifest

\* Of two manifests one is to be preferred, and never both.
LEMMA BetterIsTotalOrder ==
    ASSUME CatalogTypeOK
    PROVE  /\ \A m \in DOMAIN manifests : ~Better(m, m)
           /\ \A m, k \in DOMAIN manifests : m # k => Better(m, k) \/ Better(k, m)
           /\ \A m, k, j \in DOMAIN manifests :
                 Better(m, k) /\ Better(k, j) => Better(m, j)
  <1>1. \A m \in DOMAIN manifests : manifests[m].step \in Nat /\ m \in Nat
    BY ManifestFields
  <1>2. \A m \in DOMAIN manifests : ~Better(m, m)
    BY <1>1 DEF Better
  <1>3. \A m, k \in DOMAIN manifests : m # k => Better(m, k) \/ Better(k, m)
    BY <1>1 DEF Better
  <1>4. \A m, k, j \in DOMAIN manifests : Better(m, k) /\ Better(k, j) => Better(m, j)
    BY <1>1 DEF Better
  <1> QED BY <1>2, <1>3, <1>4

\* When anything is selectable, something is the best.
LEMMA BestExists ==
    ASSUME CatalogTypeOK, NEW s, Usable(s) # {}
    PROVE  \E m \in Usable(s) : Best(s, m)
  <1> DEFINE ahead(m) == {k \in Usable(s) : Better(k, m)}
             Places == DOMAIN manifests
             T == {ahead(m) : m \in Usable(s)}
  <1>1. Usable(s) \subseteq Places
    BY DEF Usable, Selectable
  <1>2. IsFiniteSet(Places)
    <2>1. Places = 1 .. Len(manifests) /\ Len(manifests) \in Nat
      BY DEF CatalogTypeOK
    <2> QED BY <2>1, FS_Interval
  <1>3. IsWellFoundedOn(StrictSubsetOrdering(Places), SUBSET Places)
    BY <1>2, FS_FiniteSubsetsOfFinite, FS_StrictSubsetOrderingWellFounded
  <1>4. T \subseteq SUBSET Places /\ T # {}
    BY <1>1
  <1>5. PICK A \in T : \A B \in T : <<B, A>> \notin StrictSubsetOrdering(Places)
    <2> HIDE DEF T
    <2> QED BY <1>3, <1>4, WFMin
  <1>6. PICK m \in Usable(s) : A = ahead(m)
    BY <1>5
  <1>7. \A k \in Usable(s) : ~Better(k, m)
    <2> SUFFICES ASSUME NEW k \in Usable(s), Better(k, m) PROVE FALSE
      OBVIOUS
    <2>1. ahead(k) \subseteq ahead(m)
      BY <1>1, BetterIsTotalOrder
    <2>2. k \in ahead(m) /\ k \notin ahead(k)
      BY <1>1, BetterIsTotalOrder
    <2>3. <<ahead(k), ahead(m)>> \in StrictSubsetOrdering(Places)
      BY <1>1, <2>1, <2>2 DEF StrictSubsetOrdering
    <2> QED BY <1>5, <1>6, <2>3
  <1> QED BY <1>1, <1>7, BetterIsTotalOrder DEF Best

\* latest_valid finds it.
LEMMA LatestIsBest ==
    ASSUME CatalogTypeOK, NEW s, Usable(s) # {}
    PROVE  Best(s, LatestValid(s, {}, FALSE))
  <1>1. \E m \in Usable(s) : \A k \in Usable(s) \ {m} : Better(m, k)
    BY BestExists DEF Best
  <1> QED BY <1>1 DEF LatestValid, Best, Usable

\* The point of resumption is the greatest step of a selectable manifest, if any.
LEMMA ResumeIsGreatest == CatalogTypeOK => GreatestStep
  <1> SUFFICES ASSUME CatalogTypeOK, NEW s \in Scopes
               PROVE  /\ Usable(s) = {} => ResumeStep(s) = 0
                      /\ Usable(s) # {} =>
                            /\ \E m \in Usable(s) : ResumeStep(s) = manifests[m].step
                            /\ \A k \in Usable(s) : manifests[k].step <= ResumeStep(s)
    BY DEF GreatestStep
  <1>1. ASSUME Usable(s) = {} PROVE ResumeStep(s) = 0
    BY <1>1 DEF ResumeStep, LatestValid, Usable
  <1>2. ASSUME Usable(s) # {}
        PROVE  /\ \E m \in Usable(s) : ResumeStep(s) = manifests[m].step
               /\ \A k \in Usable(s) : manifests[k].step <= ResumeStep(s)
    <2> DEFINE b == LatestValid(s, {}, FALSE)
    <2>1. b \in Usable(s) /\ \A k \in Usable(s) \ {b} : Better(b, k)
      BY <1>2, LatestIsBest DEF Best
    <2>2. \A k \in Usable(s) : manifests[k].step \in Nat /\ k \in Nat /\ k # 0
      BY ManifestFields DEF Usable, Selectable, CatalogTypeOK
    <2>3. ResumeStep(s) = manifests[b].step
      BY <2>1, <2>2 DEF ResumeStep
    <2>4. \A k \in Usable(s) : manifests[k].step <= manifests[b].step
      <3> SUFFICES ASSUME NEW k \in Usable(s) PROVE manifests[k].step <= manifests[b].step
        OBVIOUS
      <3>1. CASE k = b
        <4> HIDE DEF b
        <4>1. manifests[b].step \in Nat
          BY <2>1, <2>2
        <4> QED BY <3>1, <4>1
      <3>2. CASE k # b
        <4> HIDE DEF b
        <4>1. Better(b, k)
          BY <2>1, <3>2
        <4> QED BY <2>1, <2>2, <4>1 DEF Better
      <3> QED BY <3>1, <3>2
    <2> QED BY <2>1, <2>3, <2>4
  <1> QED BY <1>1, <1>2

-----------------------------------------------------------------------------
\* Manifest m gets the verdict v.
Judges(m, v) ==
    /\ manifests' = [manifests EXCEPT ![m].validation = v]
    /\ registered' = registered

\* Both verdicts are of this form.
LEMMA VerdictsJudge ==
    ASSUME NEW m, MarkRestoreVerified(m) \/ Quarantine(m)
    PROVE  \E v \in Validation : Judges(m, v)
  BY DEF MarkRestoreVerified, Quarantine, Invalidated, Validation, Judges

\* The catalog is well formed.
LEMMA CatalogTypeInv == CatalogSpec => []CatalogTypeOK
  <1>1. CatalogInit => CatalogTypeOK
    BY DEF CatalogInit, CatalogTypeOK
  <1>2. CatalogTypeOK /\ [CatalogNext]_catalog => CatalogTypeOK'
    <2> SUFFICES ASSUME CatalogTypeOK, [CatalogNext]_catalog PROVE CatalogTypeOK'
      OBVIOUS
    <2>1. ASSUME NEW b \in Bucket, NEW k \in Keys, NEW h \in Hashes, RegisterPart(b, k, h)
          PROVE  CatalogTypeOK'
      <3>1. manifests' = manifests
        BY <2>1 DEF RegisterPart
      <3>2. <<k, h>> \in Part /\ Registered(b, k, h) \subseteq Part
        BY DEF Registered, Part, CatalogTypeOK
      <3>3. \A p, q \in Registered(b, k, h) : p[1] = q[1] => p = q
        BY DEF Registered, CatalogTypeOK
      <3>4. registered' \in [Bucket -> SUBSET Part]
        BY <2>1, <3>2 DEF RegisterPart, CatalogTypeOK
      <3>5. \A c \in Bucket : \A p, q \in registered'[c] : p[1] = q[1] => p = q
        BY <2>1, <3>3 DEF RegisterPart, CatalogTypeOK
      <3> QED BY <3>1, <3>4, <3>5 DEF CatalogTypeOK
    <2>2. ASSUME NEW b \in Bucket, NEW e \in SUBSET Part, NEW w \in (SUBSET Worlds) \ {{}},
                 Commit(b, e, w)
          PROVE  CatalogTypeOK'
      <3> DEFINE r == [scope |-> b[1], attempt |-> b[2], step |-> b[3], parts |-> e,
                       worlds |-> w, validation |-> "hash_verified"]
      <3>1. r \in Manifest
        BY DEF Bucket, Manifest, Validation
      <3>2. manifests' = Append(manifests, r) /\ registered' = registered
        BY <2>2 DEF Commit
      <3> HIDE DEF r
      <3> QED BY <3>1, <3>2 DEF CatalogTypeOK
    <2>3. ASSUME NEW m \in DOMAIN manifests, NEW v \in Validation, Judges(m, v)
          PROVE  CatalogTypeOK'
      <3>1. [manifests[m] EXCEPT !.validation = v] \in Manifest
        BY ManifestFields DEF Manifest
      <3>2. manifests' \in Seq(Manifest)
        BY <2>3, <3>1 DEF CatalogTypeOK, Judges
      <3> QED BY <2>3, <3>2 DEF CatalogTypeOK, Judges
    <2>4. CASE UNCHANGED catalog
      BY <2>4 DEF catalog, CatalogTypeOK
    <2> QED BY <2>1, <2>2, <2>3, <2>4, VerdictsJudge DEF CatalogNext
  <1> QED BY <1>1, <1>2, PTL DEF CatalogSpec

\* A manifest stands once it is committed, whatever is registered again, committed
\* later or judged; and what is committed is what its own attempt registered last for
\* its step (catalog.py, commit), so that no manifest is ever pieced together from
\* the parts of two attempts or of two registrations.
THEOREM ManifestsStand == CatalogSpec => ManifestStands
  <1> DEFINE Stand ==
        /\ Len(manifests) <= Len(manifests')
        /\ \A m \in DOMAIN manifests' :
              IF m \in DOMAIN manifests
              THEN manifests'[m] = [manifests[m] EXCEPT !.validation = manifests'[m].validation]
              ELSE LET new == manifests'[m]
                   IN  /\ new.parts # {} /\ Consistent(new.parts)
                       /\ new.parts \subseteq registered[BucketOfManifest(new)]
                       /\ new.validation = "hash_verified"
  <1>1. CatalogTypeOK /\ [CatalogNext]_catalog => [Stand]_catalog
    <2> SUFFICES ASSUME CatalogTypeOK, CatalogNext PROVE Stand
      OBVIOUS
    <2>1. manifests \in Seq(Manifest)
      BY DEF CatalogTypeOK
    <2>2. \A m \in DOMAIN manifests :
              manifests[m] = [manifests[m] EXCEPT !.validation = manifests[m].validation]
      BY ManifestFields DEF Manifest
    <2>3. ASSUME NEW b \in Bucket, NEW k \in Keys, NEW h \in Hashes, RegisterPart(b, k, h)
          PROVE  Stand
      BY <2>1, <2>2, <2>3 DEF RegisterPart
    <2>4. ASSUME NEW b \in Bucket, NEW e \in SUBSET Part, NEW w \in (SUBSET Worlds) \ {{}},
                 Commit(b, e, w)
          PROVE  Stand
      <3> DEFINE r == [scope |-> b[1], attempt |-> b[2], step |-> b[3], parts |-> e,
                       worlds |-> w, validation |-> "hash_verified"]
      <3>1. /\ r.parts # {} /\ Consistent(r.parts)
            /\ r.parts \subseteq registered[BucketOfManifest(r)]
            /\ r.validation = "hash_verified"
        <4>1. BucketOfManifest(r) = b
          BY DEF BucketOfManifest, Bucket
        <4>2. e # {} /\ e \subseteq registered[b]
          BY <2>4 DEF Commit, Committable
        <4> QED BY <4>1, <4>2 DEF CatalogTypeOK, Consistent
      <3>2. manifests' = Append(manifests, r)
        BY <2>4 DEF Commit
      <3> HIDE DEF r
      <3>3. /\ Len(manifests') = Len(manifests) + 1 /\ Len(manifests) \in Nat
            /\ DOMAIN manifests' = 1 .. Len(manifests) + 1 /\ DOMAIN manifests = 1 .. Len(manifests)
            /\ \A m \in DOMAIN manifests : manifests'[m] = manifests[m]
            /\ manifests'[Len(manifests) + 1] = r
        BY <2>1, <3>2
      <3>4. \A m \in DOMAIN manifests' : m \notin DOMAIN manifests => manifests'[m] = r
        BY <3>3
      <3> QED BY <2>2, <3>1, <3>3, <3>4
    <2>5. ASSUME NEW m \in DOMAIN manifests, NEW v \in Validation, Judges(m, v)
          PROVE  Stand
      <3>1. /\ DOMAIN manifests' = DOMAIN manifests /\ Len(manifests') = Len(manifests)
            /\ \A k \in DOMAIN manifests \ {m} : manifests'[k] = manifests[k]
            /\ manifests'[m] = [manifests[m] EXCEPT !.validation = v]
        BY <2>1, <2>5 DEF Judges
      <3>2. manifests'[m].validation = v
        BY <3>1, ManifestFields DEF Manifest
      <3> QED BY <2>1, <2>2, <3>1, <3>2
    <2> QED BY <2>3, <2>4, <2>5, VerdictsJudge DEF CatalogNext
  <1> QED BY <1>1, CatalogTypeInv, PTL DEF CatalogSpec, ManifestStands

-----------------------------------------------------------------------------
\* An operation that leaves every selectable manifest so, with its step, does not move
\* the point of resumption back.
LEMMA KeepingGoodKeepsStep ==
    ASSUME CatalogTypeOK, CatalogTypeOK', GreatestStep, GreatestStep', NEW s \in Scopes,
           Usable(s) \subseteq Usable(s)',
           \A k \in Usable(s) : manifests'[k].step = manifests[k].step
    PROVE  ~(ResumeStep(s)' < ResumeStep(s))
  <1>1. /\ Usable(s) = {} => ResumeStep(s) = 0
        /\ Usable(s) # {} => \E m \in Usable(s) : ResumeStep(s) = manifests[m].step
    BY DEF GreatestStep
  <1>2. /\ Usable(s)' = {} => ResumeStep(s)' = 0
        /\ Usable(s)' # {} =>
              /\ \E m \in Usable(s)' : ResumeStep(s)' = manifests'[m].step
              /\ \A k \in Usable(s)' : manifests'[k].step <= ResumeStep(s)'
    BY DEF GreatestStep
  <1>3. \A m \in Usable(s)' : manifests'[m].step \in Nat
    <2>1. manifests' \in Seq(Manifest) /\ DOMAIN manifests' = 1 .. Len(manifests')
      BY DEF CatalogTypeOK
    <2>2. Usable(s)' \subseteq DOMAIN manifests'
      BY DEF Usable, Selectable
    <2>3. \A m \in DOMAIN manifests' : manifests'[m] \in Manifest
      BY <2>1
    <2> QED BY <2>2, <2>3, StepsAssumption DEF Manifest
  <1> QED BY <1>1, <1>2, <1>3

\* Only a quarantine moves the point a task resumes from back (catalog.py,
\* latest_valid): a late commit of an older step does not, nor does a verdict that ranks
\* an older manifest as verified.
THEOREM ResumePointNeverRecedes == CatalogSpec => ResumeNeverRecedes
  <1>1. CatalogTypeOK /\ CatalogTypeOK' /\ GreatestStep /\ GreatestStep'
          /\ [CatalogNext]_catalog =>
            [\A s \in Scopes :
                ResumeStep(s)' < ResumeStep(s) => \E m \in DOMAIN manifests : Quarantine(m)]_catalog
    <2> SUFFICES ASSUME CatalogTypeOK, CatalogTypeOK', GreatestStep, GreatestStep', CatalogNext,
                        NEW s \in Scopes,
                        ~\E m \in DOMAIN manifests : Quarantine(m)
                 PROVE  ~(ResumeStep(s)' < ResumeStep(s))
      OBVIOUS
    <2>1. /\ Usable(s) \subseteq Usable(s)'
          /\ \A k \in Usable(s) : manifests'[k].step = manifests[k].step
      <3>1. ASSUME NEW b \in Bucket, NEW k \in Keys, NEW h \in Hashes, RegisterPart(b, k, h)
            PROVE  manifests' = manifests
        BY <3>1 DEF RegisterPart
      <3>2. ASSUME NEW b \in Bucket, NEW e \in SUBSET Part, NEW w \in (SUBSET Worlds) \ {{}},
                   Commit(b, e, w)
            PROVE  /\ DOMAIN manifests \subseteq DOMAIN manifests'
                   /\ \A k \in DOMAIN manifests : manifests'[k] = manifests[k]
        <4> DEFINE r == [scope |-> b[1], attempt |-> b[2], step |-> b[3], parts |-> e,
                         worlds |-> w, validation |-> "hash_verified"]
        <4>1. manifests' = Append(manifests, r) /\ manifests \in Seq(Manifest)
          BY <3>2 DEF Commit, CatalogTypeOK
        <4> HIDE DEF r
        <4> QED BY <4>1
      <3>3. ASSUME NEW m \in DOMAIN manifests, MarkRestoreVerified(m)
            PROVE  /\ Usable(s) \subseteq Usable(s)'
                   /\ \A k \in DOMAIN manifests : manifests'[k].step = manifests[k].step
        <4>1. manifests' = [manifests EXCEPT ![m].validation = "restore_verified"]
          BY <3>3 DEF MarkRestoreVerified
        <4>2. \A k \in DOMAIN manifests :
                  /\ manifests'[k].step = manifests[k].step
                  /\ manifests'[k].scope = manifests[k].scope
                  /\ \/ manifests'[k].validation = manifests[k].validation
                     \/ manifests'[k].validation = "restore_verified"
          BY <4>1, ManifestFields DEF Manifest
        <4>3. DOMAIN manifests' = DOMAIN manifests
          BY <4>1
        <4> QED BY <4>2, <4>3 DEF Usable, Selectable
      <3>4. CASE /\ DOMAIN manifests \subseteq DOMAIN manifests'
                 /\ \A k \in DOMAIN manifests : manifests'[k] = manifests[k]
        BY <3>4 DEF Usable, Selectable
      <3>5. ASSUME NEW m \in DOMAIN manifests, MarkRestoreVerified(m)
            PROVE  /\ Usable(s) \subseteq Usable(s)'
                   /\ \A k \in Usable(s) : manifests'[k].step = manifests[k].step
        BY <3>3, <3>5 DEF Usable, Selectable
      <3> QED BY <3>1, <3>2, <3>4, <3>5 DEF CatalogNext
    <2> QED BY <2>1, KeepingGoodKeepsStep
  <1>2. CatalogTypeOK => GreatestStep
    BY ResumeIsGreatest
  <1> QED BY <1>1, <1>2, CatalogTypeInv, PTL DEF CatalogSpec, ResumeNeverRecedes

-----------------------------------------------------------------------------
(***************************************************************************)
(* The least and the greatest                                              *)
(***************************************************************************)

\* A set of numbers that is not empty has a least one.
LEMMA LeastOf ==
    ASSUME NEW S \in SUBSET Nat, S # {}
    PROVE  Min(S) \in S /\ \A x \in S : Min(S) <= x
  <1> DEFINE R == OpToRel(<, Nat)
  <1>1. \A k, m \in Nat : k < m => <<k, m>> \in R
    BY DEF OpToRel
  <1>2. PICK m \in S : \A k \in S : ~(<<k, m>> \in R)
    BY NatLessThanWellFounded, WFMin
  <1> HIDE DEF R
  <1>3. \A k \in S : m <= k
    <2>1. m \in Nat /\ \A k \in S : k \in Nat /\ ~(k < m)
      BY <1>1, <1>2
    <2> QED
      BY <2>1
  <1> QED
    BY <1>3 DEF Min

\* Of two numbers one is the greatest.
LEMMA GreaterOf ==
    ASSUME NEW a \in Nat, NEW b \in Nat
    PROVE  Max({a, b}) \in {a, b} /\ a <= Max({a, b}) /\ b <= Max({a, b})
  <1>1. \E x \in {a, b} : \A y \in {a, b} : x >= y
    <2>1. CASE a >= b
      BY <2>1
    <2>2. CASE b >= a
      BY <2>2
    <2> QED
      BY <2>1, <2>2
  <1> QED
    BY <1>1 DEF Max

-----------------------------------------------------------------------------
(***************************************************************************)
(* The inductive invariant                                                 *)
(***************************************************************************)

\* The checkpoints in the run's directory.
Files == {s \in RunSteps : run.files[s] # "none"}

\* Whoever works has been given an attempt.
AttemptIsCounted == leased \/ run.phase # "none" => attempt \in AttemptNumbers

\* What a shipper sends was read, by an attempt, and what it registers and
\* commits was uploaded.
RequestsAreReal ==
    \A w \in Shippers : InHand(w) =>
        /\ sweeps[w].of \in AttemptNumbers
        /\ sweeps[w].step \in RunSteps
        /\ sweeps[w].bytes \in Bytes
        /\ sweeps[w].pc # "put" => store[sweeps[w].step] # "none"

\* What the run has still to ship and to upload is there.
WorkIsThere ==
    /\ \A w \in {"relay", "final"} :
          /\ sweeps[w].todo \subseteq Files
          /\ sweeps[w].pc = "pick" => sweeps[w].of \in AttemptNumbers
    /\ run.left \subseteq Files

\* Once the final sweep has begun no file appears, and it passes over none
\* that is not shipped; over, it has none left to try.
NothingIsMissed ==
    /\ run.phase \in {"none", "running"} => sweeps["final"].pc = "idle"
    /\ sweeps["final"].pc = "over" => sweeps["final"].todo = {}
    /\ sweeps["final"].pc # "idle" /\ ~run.refused =>
          \A s \in Files : \/ s \in run.shipped
                           \/ s \in sweeps["final"].todo
                           \/ InHand("final") /\ sweeps["final"].step = s

\* The manifests can all be resumed from, their bytes are in the store, and
\* the highest step shipped is one of theirs.
CatalogIsEarned ==
    /\ \A m \in DOMAIN manifests :
          /\ manifests[m].scope = Task
          /\ manifests[m].validation = "hash_verified"
          /\ store[manifests[m].step] # "none"
    /\ reached # 0 => \E m \in DOMAIN manifests : manifests[m].step = reached

RelayInv ==
    /\ TypeOK
    /\ AttemptIsCounted
    /\ RequestsAreReal
    /\ WorkIsThere
    /\ NothingIsMissed
    /\ CatalogIsEarned

-----------------------------------------------------------------------------
\* The file that is taken next is one the sweep saw and nobody shipped.
LEMMA FileOfIsNew ==
    ASSUME TypeOK, NEW w \in Shippers, CanPick(w)
    PROVE  /\ FileOf(w) \in RunSteps
           /\ FileOf(w) \in sweeps[w].todo
           /\ FileOf(w) \notin run.shipped
  <1> DEFINE S == sweeps[w].todo \ run.shipped
  <1>1. S \in SUBSET RunSteps
    BY DEF TypeOK, Sweep
  <1>2. S \in SUBSET Nat /\ S # {}
    BY <1>1, LastStepAssumption DEF CanPick, RunSteps
  <1>3. FileOf(w) \in S
    <2> HIDE DEF S
    <2>1. Min(S) \in S
      BY <1>2, LeastOf
    <2> QED
      BY <2>1 DEF FileOf, S
  <1> QED
    BY <1>1, <1>3

-----------------------------------------------------------------------------
(***************************************************************************)
(* Where an attempt resumes                                                *)
(***************************************************************************)

\* Every manifest can be chosen.
LEMMA AllSelectable ==
    ASSUME TypeOK, CatalogIsEarned
    PROVE  Selectable(Task, {}, FALSE) = DOMAIN manifests
  BY DEF CatalogIsEarned, Selectable

\* The manifest that is chosen has the greatest step of all.
LEMMA ResumePointIsGreatest ==
    ASSUME TypeOK, CatalogIsEarned
    PROVE  /\ ResumePoint \in RunSteps \cup {0}
           /\ \A m \in DOMAIN manifests : manifests[m].step <= ResumePoint
  <1>1. Usable(Task) = DOMAIN manifests
    BY AllSelectable DEF Usable
  <1>2. Task \in Scopes
    BY CatalogAssumption
  <1>3. GreatestStep
    BY ResumeIsGreatest DEF TypeOK, CatalogIsOfRun
  <1>4. \A m \in DOMAIN manifests : manifests[m].step \in RunSteps
    BY DEF TypeOK, CatalogIsOfRun
  <1> QED
    BY <1>1, <1>2, <1>3, <1>4 DEF GreatestStep, ResumePoint

\* No step that was shipped is behind the point of resumption.
LEMMA ResumesAtReached ==
    ASSUME TypeOK, CatalogIsEarned
    PROVE  reached <= ResumePoint
  <1>1. reached \in Nat /\ ResumePoint \in Nat
    BY ResumePointIsGreatest, LastStepAssumption DEF TypeOK, RunSteps
  <1>2. CASE reached = 0
    BY <1>1, <1>2
  <1>3. CASE reached # 0
    BY <1>3, ResumePointIsGreatest DEF CatalogIsEarned
  <1> QED
    BY <1>2, <1>3

-----------------------------------------------------------------------------
(***************************************************************************)
(* What the steps have in common                                           *)
(***************************************************************************)

\* What is and stays in the store.
Keeps(st) ==
    /\ st \in [RunSteps -> Bytes \cup {"none"}]
    /\ \A s \in RunSteps : store[s] # "none" => st[s] # "none"

\* A catalog and a store that belong together, after a step.
LEMMA CatalogStays ==
    ASSUME RelayInv, Keeps(store'), UNCHANGED <<catalog, reached>>
    PROVE  /\ CatalogIsOfRun'
           /\ CatalogIsEarned'
           /\ reached' \in 0 .. LastStep
  <1>1. registered' = registered /\ manifests' = manifests /\ reached' = reached
    BY DEF catalog
  <1>2. CatalogIsOfRun' /\ reached' \in 0 .. LastStep
    BY <1>1 DEF RelayInv, TypeOK, CatalogIsOfRun, CatalogTypeOK
  <1>3. \A m \in DOMAIN manifests : manifests[m].step \in RunSteps
    BY DEF RelayInv, TypeOK, CatalogIsOfRun
  <1>4. CatalogIsEarned'
    BY <1>1, <1>3 DEF RelayInv, CatalogIsEarned, Keeps
  <1> QED
    BY <1>2, <1>4

\* The sweep of w goes on as v, in a run that may have shipped or been refused
\* something meanwhile.
LEMMA SweepMoves ==
    ASSUME RelayInv, NEW w \in Shippers, NEW v \in Sweep,
           sweeps' = [sweeps EXCEPT ![w] = v],
           Keeps(store'), UNCHANGED <<attempt, leased>>,
           run' \in Run, run'.phase = run.phase, run'.files = run.files, run'.left = run.left,
           run.shipped \subseteq run'.shipped, run.refused => run'.refused,
           v.pc \in {"put", "register", "commit"} =>
              /\ v.of \in AttemptNumbers /\ v.step \in RunSteps /\ v.bytes \in Bytes
              /\ v.pc # "put" => store'[v.step] # "none",
           w # "stray" => v.todo \subseteq Files /\ (v.pc = "pick" => v.of \in AttemptNumbers),
           v.pc = "over" => v.todo = {},
           w = "final" /\ v.pc # "idle" =>
              /\ run.phase \notin {"none", "running"}
              /\ run'.refused \/ \A s \in Files : \/ s \in run'.shipped
                                                  \/ s \in v.todo
                                                  \/ /\ v.pc \in {"put", "register", "commit"}
                                                     /\ v.step = s,
           CatalogIsOfRun', CatalogIsEarned', reached' \in 0 .. LastStep, faults' \in 0 .. MaxFaults
    PROVE  RelayInv'
  <1>1. /\ sweeps' \in [Shippers -> Sweep] /\ sweeps'[w] = v
        /\ \A u \in Shippers \ {w} : sweeps'[u] = sweeps[u]
    BY DEF RelayInv, TypeOK
  <1>2. Files' = Files
    BY DEF Files
  <1>3. TypeOK'
    BY <1>1 DEF RelayInv, TypeOK, Keeps
  <1>4. AttemptIsCounted'
    BY DEF RelayInv, AttemptIsCounted
  <1>5. RequestsAreReal'
    BY <1>1 DEF RelayInv, RequestsAreReal, InHand, Keeps
  <1>6. WorkIsThere'
    BY <1>1, <1>2 DEF RelayInv, WorkIsThere, Shippers
  <1>7. NothingIsMissed'
    <2>1. CASE w = "final"
      BY <1>1, <1>2, <2>1 DEF NothingIsMissed, InHand
    <2>2. CASE w # "final"
      <3>1. sweeps'["final"] = sweeps["final"]
        BY <1>1, <2>2 DEF Shippers
      <3>2. InHand("final")' = InHand("final")
        BY <3>1 DEF InHand
      <3> QED
        BY <1>2, <3>1, <3>2 DEF RelayInv, NothingIsMissed
    <2> QED
      BY <2>1, <2>2
  <1> QED
    BY <1>3, <1>4, <1>5, <1>6, <1>7 DEF RelayInv

\* The run is over; of its sweeps only a request in hand is left.
LEMMA OverIsSound ==
    ASSUME RelayInv, NEW p \in {"over", "accepted"}, Over(p), run.phase # "none",
           leased' \in BOOLEAN, UNCHANGED <<catalog, store, attempt, reached, faults>>
    PROVE  RelayInv'
  <1>1. /\ run' \in Run /\ run'.phase = p /\ run'.left = {}
        /\ \A s \in RunSteps : run'.files[s] = "none"
    BY DEF Over, NoRun, Run
  <1>2. Files' = {}
    BY <1>1 DEF Files
  <1>3. /\ sweeps' \in [Shippers -> Sweep]
        /\ \A w \in Shippers : sweeps'[w].todo = {} /\ sweeps'[w].pc # "pick"
        /\ \A w \in Shippers : InHand(w)' =>
              /\ InHand(w) /\ sweeps'[w].pc = sweeps[w].pc
              /\ sweeps'[w].of = sweeps[w].of /\ sweeps'[w].step = sweeps[w].step
              /\ sweeps'[w].bytes = sweeps[w].bytes
    <2> SUFFICES ASSUME NEW w \in Shippers
                 PROVE  /\ sweeps'[w] \in Sweep
                        /\ sweeps'[w].todo = {} /\ sweeps'[w].pc # "pick"
                        /\ InHand(w)' =>
                              /\ InHand(w) /\ sweeps'[w].pc = sweeps[w].pc
                              /\ sweeps'[w].of = sweeps[w].of /\ sweeps'[w].step = sweeps[w].step
                              /\ sweeps'[w].bytes = sweeps[w].bytes
      BY DEF Over
    <2>1. CASE InHand(w)
      <3>1. sweeps'[w] = [sweeps[w] EXCEPT !.todo = {}] /\ sweeps[w] \in Sweep
        BY <2>1 DEF Over, InHand, RelayInv, TypeOK
      <3> QED
        BY <2>1, <3>1 DEF Sweep, InHand
    <2>2. CASE ~InHand(w)
      <3>1. sweeps'[w] = Idle
        BY <2>2 DEF Over, InHand
      <3> QED
        BY <3>1 DEF Idle, Sweep, InHand
    <2> QED
      BY <2>1, <2>2
  <1>4. Keeps(store')
    BY DEF Keeps, RelayInv, TypeOK
  <1>5. TypeOK'
    BY <1>1, <1>3, <1>4, CatalogStays DEF RelayInv, TypeOK
  <1>6. AttemptIsCounted'
    BY DEF RelayInv, AttemptIsCounted
  <1>7. RequestsAreReal'
    BY <1>3 DEF RelayInv, RequestsAreReal
  <1>8. WorkIsThere'
    BY <1>1, <1>3 DEF WorkIsThere, Shippers
  <1>9. NothingIsMissed'
    BY <1>1, <1>2, <1>3 DEF NothingIsMissed, Shippers
  <1> QED
    BY <1>4, <1>5, <1>6, <1>7, <1>8, <1>9, CatalogStays DEF RelayInv

-----------------------------------------------------------------------------
(***************************************************************************)
(* The steps of a run                                                      *)
(***************************************************************************)

\* The invariant holds at first.
LEMMA InitIsSound == Init => RelayInv
  <1> SUFFICES ASSUME Init
               PROVE  RelayInv
    OBVIOUS
  <1> USE DEF Init
  <1>1. run \in Run /\ run.left = {} /\ run.phase = "none" /\ Files = {}
    BY DEF NoRun, Run, Files
  <1>2. \A w \in Shippers : sweeps[w] = Idle /\ Idle \in Sweep
    BY DEF Idle, Sweep
  <1>3. CatalogIsOfRun /\ DOMAIN manifests = {}
    BY DEF CatalogInit, CatalogIsOfRun, CatalogTypeOK
  <1>4. TypeOK
    <2>1. /\ attempt \in 0 .. MaxAttempts /\ reached \in 0 .. LastStep
          /\ faults \in 0 .. MaxFaults
      BY MaxAttemptsAssumption, MaxFaultsAssumption, LastStepAssumption
    <2>2. store \in [RunSteps -> Bytes \cup {"none"}] /\ leased \in BOOLEAN
      OBVIOUS
    <2>3. sweeps \in [Shippers -> Sweep]
      BY <1>2
    <2> QED
      BY <1>1, <1>3, <2>1, <2>2, <2>3 DEF TypeOK
  <1> QED
    BY <1>1, <1>2, <1>3, <1>4
    DEF RelayInv, AttemptIsCounted, RequestsAreReal, WorkIsThere, NothingIsMissed,
        CatalogIsEarned, InHand, Idle, Shippers

\* An attempt starts with an empty directory, where the catalog says.
LEMMA StartIsSound ==
    ASSUME RelayInv, NEW sameNode \in BOOLEAN, Start(sameNode)
    PROVE  RelayInv'
  <1> USE DEF Start
  <1>1. ResumePoint \in RunSteps \cup {0}
    BY ResumePointIsGreatest DEF RelayInv
  <1>2. attempt' \in AttemptNumbers
    BY MaxAttemptsAssumption DEF RelayInv, TypeOK, AttemptNumbers
  <1>3. /\ run' \in Run /\ run'.left = {} /\ run'.phase \in {"closing", "running"}
        /\ \A s \in RunSteps : run'.files[s] = "none"
    <2>1. InHand("relay") => sweeps["relay"].step \in RunSteps
      BY DEF RelayInv, RequestsAreReal, Shippers
    <2> QED
      BY <1>1, <2>1 DEF NoRun, Run
  <1>4. Files' = {}
    BY <1>3 DEF Files
  <1>5. /\ Idle \in Sweep /\ Idle.pc = "idle" /\ Idle.todo = {}
        /\ sweeps' \in [Shippers -> Sweep]
        /\ sweeps'["relay"] = Idle /\ sweeps'["final"] = Idle
        /\ sweeps'["stray"] \in {Idle, sweeps["relay"]}
    BY DEF RelayInv, TypeOK, Idle, Sweep, Shippers
  <1>6. Keeps(store')
    BY DEF Keeps, RelayInv, TypeOK
  <1>7. CatalogIsOfRun' /\ CatalogIsEarned' /\ reached' \in 0 .. LastStep
    BY <1>6, CatalogStays
  <1>8. TypeOK'
    BY <1>2, <1>3, <1>5, <1>6, <1>7 DEF RelayInv, TypeOK, Keeps, AttemptNumbers
  <1>9. AttemptIsCounted'
    BY <1>2 DEF AttemptIsCounted
  <1>10. RequestsAreReal'
    BY <1>5 DEF RelayInv, RequestsAreReal, InHand, Shippers
  <1>11. WorkIsThere' /\ NothingIsMissed'
    BY <1>3, <1>4, <1>5 DEF WorkIsThere, NothingIsMissed
  <1> QED
    BY <1>7, <1>8, <1>9, <1>10, <1>11 DEF RelayInv

\* A run that goes on and shows files the final sweep has not passed over.
LEMMA RunGoesOn ==
    ASSUME RelayInv, run' \in Run, run.phase # "none", run'.left = run.left,
           UNCHANGED <<catalog, store, attempt, leased, sweeps, reached, faults>>,
           Files \subseteq Files', run'.refused = run.refused, run'.shipped = run.shipped,
           \/ sweeps["final"].pc = "idle"
           \/ run'.phase \notin {"none", "running"} /\ Files' = Files
    PROVE  RelayInv'
  <1>1. Keeps(store')
    BY DEF Keeps, RelayInv, TypeOK
  <1>2. CatalogIsOfRun' /\ CatalogIsEarned' /\ reached' \in 0 .. LastStep
    BY <1>1, CatalogStays
  <1>3. \A w : InHand(w)' = InHand(w)
    BY DEF InHand
  <1>4. TypeOK'
    BY <1>1, <1>2 DEF RelayInv, TypeOK
  <1>5. AttemptIsCounted' /\ RequestsAreReal'
    BY <1>3 DEF RelayInv, AttemptIsCounted, RequestsAreReal
  <1>6. WorkIsThere'
    BY DEF RelayInv, WorkIsThere
  <1>7. NothingIsMissed'
    BY <1>3 DEF RelayInv, NothingIsMissed
  <1> QED
    BY <1>2, <1>4, <1>5, <1>6, <1>7 DEF RelayInv

\* A file appears only while the process runs, before the final sweep.
LEMMA OpenFileIsSound == RelayInv /\ OpenFile => RelayInv'
  <1> SUFFICES ASSUME RelayInv, OpenFile
               PROVE  RelayInv'
    OBVIOUS
  <1>1. run.at + 1 \in RunSteps /\ run \in Run
    BY LastStepAssumption DEF OpenFile, RelayInv, TypeOK, Run, RunSteps
  <1>2. run' = [run EXCEPT !.files = [run.files EXCEPT ![run.at + 1] = "partial"]]
    BY <1>1 DEF OpenFile, Run
  <1>3. /\ run' \in Run /\ run'.left = run.left /\ run'.refused = run.refused
        /\ run'.shipped = run.shipped /\ run'.phase = run.phase
        /\ run'.files = [run.files EXCEPT ![run.at + 1] = "partial"]
    BY <1>1, <1>2 DEF Run, Bytes
  <1>4. Files \subseteq Files'
    BY <1>1, <1>3 DEF Files, Run
  <1> QED
    BY <1>3, <1>4, RunGoesOn DEF OpenFile, RelayInv, NothingIsMissed

\* A file that is closed was there.
LEMMA CloseFileIsSound == RelayInv /\ CloseFile => RelayInv'
  <1> SUFFICES ASSUME RelayInv, CloseFile
               PROVE  RelayInv'
    OBVIOUS
  <1>1. run.at + 1 \in RunSteps /\ run \in Run
    BY LastStepAssumption DEF CloseFile, RelayInv, TypeOK, Run, RunSteps
  <1>2. run' = [run EXCEPT !.files = [run.files EXCEPT ![run.at + 1] = "whole"], !.at = run.at + 1]
    BY <1>1 DEF CloseFile, Run
  <1>3. /\ run' \in Run /\ run'.left = run.left /\ run'.refused = run.refused
        /\ run'.shipped = run.shipped /\ run'.phase = run.phase
        /\ run'.files = [run.files EXCEPT ![run.at + 1] = "whole"]
    BY <1>1, <1>2 DEF Run, Bytes
  <1>4. Files \subseteq Files'
    BY <1>1, <1>3 DEF Files, Run
  <1> QED
    BY <1>3, <1>4, RunGoesOn DEF CloseFile, RelayInv, NothingIsMissed

\* The end of the process leaves its files.
LEMMA ProcessEndsIsSound == RelayInv /\ ProcessEnds => RelayInv'
  <1> SUFFICES ASSUME RelayInv, ProcessEnds
               PROVE  RelayInv'
    OBVIOUS
  <1>1. run \in Run /\ run' = [run EXCEPT !.phase = "closing"]
    BY DEF ProcessEnds, RelayInv, TypeOK
  <1>2. /\ run' \in Run /\ run'.left = run.left /\ run'.refused = run.refused
        /\ run'.shipped = run.shipped /\ run'.files = run.files
    BY <1>1 DEF Run
  <1>3. Files' = Files
    BY <1>2 DEF Files
  <1> QED
    BY <1>2, <1>3, RunGoesOn DEF ProcessEnds, RelayInv, NothingIsMissed

-----------------------------------------------------------------------------
(***************************************************************************)
(* The steps of a sweep                                                    *)
(***************************************************************************)

\* What is in the store stays there when what w read arrives.
LEMMA StoredKeeps ==
    ASSUME RelayInv, NEW w \in Shippers, InHand(w)
    PROVE  /\ Keeps(store) /\ Keeps(Stored(w))
           /\ sweeps[w].step \in RunSteps /\ sweeps[w].bytes \in Bytes
           /\ Stored(w)[sweeps[w].step] = sweeps[w].bytes
           /\ Stored(w)[sweeps[w].step] # "none"
  <1>1. sweeps[w].step \in RunSteps /\ sweeps[w].bytes \in Bytes
    BY DEF RelayInv, RequestsAreReal
  <1>2. "none" \notin Bytes
    BY DEF Bytes
  <1> QED
    BY <1>1, <1>2 DEF Stored, Keeps, RelayInv, TypeOK

\* A sweep begins with all the files there are.
LEMMA BeginSweepIsSound ==
    ASSUME RelayInv, NEW w \in Shippers, BeginSweep(w)
    PROVE  RelayInv'
  <1> DEFINE v == [Idle EXCEPT !.pc = "pick", !.of = attempt, !.todo = Seen(w)]
  <1> USE DEF BeginSweep
  <1>1. attempt \in AttemptNumbers /\ w \in {"relay", "final"}
    BY DEF RelayInv, AttemptIsCounted
  <1>2. Seen(w) = Files
    BY DEF Seen, Files
  <1>3. /\ v \in Sweep /\ v.pc = "pick" /\ v.of = attempt /\ v.todo = Files
    BY <1>1, <1>2 DEF Idle, Sweep, Files
  <1>4. Keeps(store')
    BY DEF Keeps, RelayInv, TypeOK
  <1>5. CatalogIsOfRun' /\ CatalogIsEarned' /\ reached' \in 0 .. LastStep
    BY <1>4, CatalogStays
  <1>6. run' \in Run /\ faults' \in 0 .. MaxFaults
    BY DEF RelayInv, TypeOK
  <1>7. sweeps' = [sweeps EXCEPT ![w] = v]
    OBVIOUS
  <1>8. w = "final" => run.phase \notin {"none", "running"}
    OBVIOUS
  <1> HIDE DEF v
  <1> QED
    BY <1>1, <1>3, <1>4, <1>5, <1>6, <1>7, <1>8, SweepMoves

\* A sweep ends when all it saw is shipped.
LEMMA EndSweepIsSound ==
    ASSUME RelayInv, NEW w \in Shippers, EndSweep(w)
    PROVE  RelayInv'
  <1> DEFINE v == [Idle EXCEPT !.pc = IF w = "final" THEN "over" ELSE @]
  <1> USE DEF EndSweep
  <1>1. /\ v \in Sweep /\ v.todo = {} /\ v.pc = IF w = "final" THEN "over" ELSE "idle"
    BY DEF Idle, Sweep
  <1>2. Keeps(store')
    BY DEF Keeps, RelayInv, TypeOK
  <1>3. CatalogIsOfRun' /\ CatalogIsEarned' /\ reached' \in 0 .. LastStep
    BY <1>2, CatalogStays
  <1>4. run' \in Run /\ faults' \in 0 .. MaxFaults
    BY DEF RelayInv, TypeOK
  <1>5. sweeps' = [sweeps EXCEPT ![w] = v]
    OBVIOUS
  <1>6. w = "final" => /\ run.phase \notin {"none", "running"}
                       /\ run.refused \/ \A s \in Files : s \in run.shipped
    BY DEF RelayInv, NothingIsMissed, InHand
  <1> HIDE DEF v
  <1> QED
    BY <1>1, <1>2, <1>3, <1>4, <1>5, <1>6, SweepMoves

\* A file that is read goes from the sweep's list into its hand.
LEMMA ReadFileIsSound ==
    ASSUME RelayInv, NEW w \in Shippers, ReadFile(w)
    PROVE  RelayInv'
  <1> DEFINE s == FileOf(w)
             v == [sweeps[w] EXCEPT !.pc = "put", !.todo = sweeps[w].todo \ {s}, !.step = s,
                                    !.bytes = run.files[s]]
  <1>1. w \in {"relay", "final"} /\ sweeps[w].pc = "pick" /\ sweeps[w] \in Sweep
    BY DEF ReadFile, CanPick, Shippers, RelayInv, TypeOK
  <1>2. s \in RunSteps /\ s \in sweeps[w].todo
    BY FileOfIsNew DEF ReadFile, RelayInv
  <1>3. sweeps[w].of \in AttemptNumbers /\ sweeps[w].todo \subseteq Files
    BY <1>1 DEF RelayInv, WorkIsThere
  <1>4. run.files[s] \in Bytes
    BY <1>2, <1>3 DEF Files, RelayInv, TypeOK, Run
  <1>5. sweeps' = [sweeps EXCEPT ![w] = v]
    BY DEF ReadFile, RelayInv, TypeOK
  <1>6. /\ run' = [run EXCEPT !.half = IF run.phase = "running" /\ run.files[s] = "partial"
                                       THEN run.half \cup {s} ELSE run.half]
        /\ run \in Run /\ UNCHANGED <<catalog, store, attempt, leased, reached, faults>>
    BY DEF ReadFile, RelayInv, TypeOK
  <1> HIDE DEF s
  <1>7. /\ v \in Sweep /\ v.pc = "put" /\ v.of \in AttemptNumbers /\ v.step = s
        /\ v.bytes \in Bytes /\ v.todo = sweeps[w].todo \ {s} /\ v.todo \subseteq Files
    BY <1>1, <1>2, <1>3, <1>4 DEF Sweep
  <1>8. /\ run' \in Run /\ run'.phase = run.phase /\ run'.files = run.files
        /\ run'.left = run.left /\ run'.shipped = run.shipped /\ run'.refused = run.refused
    BY <1>2, <1>6 DEF Run
  <1>9. Keeps(store') /\ faults' \in 0 .. MaxFaults
    BY <1>6 DEF Keeps, RelayInv, TypeOK
  <1>10. CatalogIsOfRun' /\ CatalogIsEarned' /\ reached' \in 0 .. LastStep
    BY <1>6, <1>9, CatalogStays
  <1> HIDE DEF v
  <1>11. w = "final" => /\ run.phase \notin {"none", "running"}
                        /\ run.refused \/ \A f \in Files : \/ f \in run.shipped
                                                           \/ f \in v.todo
                                                           \/ v.step = f
    BY <1>1, <1>7 DEF RelayInv, NothingIsMissed, InHand
  <1> QED
    BY <1>2, <1>5, <1>6, <1>7, <1>8, <1>9, <1>10, <1>11, SweepMoves

\* A part that was uploaded is registered: nothing else of the catalog changes.
LEMMA RegisteringIsSound ==
    ASSUME RelayInv, NEW w \in Shippers, InHand(w),
           RegisterPart(BucketOf(w), sweeps[w].step, sweeps[w].bytes),
           UNCHANGED <<store, reached>>
    PROVE  /\ CatalogIsOfRun'
           /\ CatalogIsEarned'
           /\ reached' \in 0 .. LastStep
  <1> DEFINE b == BucketOf(w)
             k == sweeps[w].step
             h == sweeps[w].bytes
             after == Registered(b, k, h)
  <1>1. b \in Bucket /\ k \in RunSteps /\ k \in Keys /\ h \in Hashes
    BY CatalogAssumption DEF RelayInv, RequestsAreReal, BucketOf, Bucket
  <1>2. /\ registered \in [Bucket -> SUBSET Part]
        /\ \A c \in Bucket : \A p, q \in registered[c] : p[1] = q[1] => p = q
        /\ manifests \in Seq(Manifest)
    BY DEF RelayInv, TypeOK, CatalogIsOfRun, CatalogTypeOK
  <1>3. registered' = [registered EXCEPT ![b] = after] /\ manifests' = manifests
    BY DEF RegisterPart
  <1> HIDE DEF b, k, h
  <1>4. after \in SUBSET Part /\ \A p, q \in after : p[1] = q[1] => p = q
    BY <1>1, <1>2 DEF Registered, Part
  <1> HIDE DEF after
  <1>5. CatalogIsOfRun'
    BY <1>1, <1>2, <1>3, <1>4 DEF RelayInv, TypeOK, CatalogIsOfRun, CatalogTypeOK
  <1>6. CatalogIsEarned'
    BY <1>3 DEF RelayInv, CatalogIsEarned
  <1> QED
    BY <1>5, <1>6 DEF RelayInv, TypeOK

\* A part that was uploaded is committed: the new manifest has its step.
LEMMA CommittingIsSound ==
    ASSUME RelayInv, NEW w \in Shippers, sweeps[w].pc = "commit",
           Commit(BucketOf(w), {PartOf(w)}, {1}), UNCHANGED store,
           reached' \in {reached, sweeps[w].step}
    PROVE  /\ CatalogIsOfRun'
           /\ CatalogIsEarned'
           /\ reached' \in 0 .. LastStep
  <1> DEFINE m == [scope |-> BucketOf(w)[1], attempt |-> BucketOf(w)[2], step |-> BucketOf(w)[3],
                   parts |-> {PartOf(w)}, worlds |-> {1}, validation |-> "hash_verified"]
             n == Len(manifests)
  <1>1. /\ sweeps[w].of \in AttemptNumbers /\ sweeps[w].step \in RunSteps
        /\ sweeps[w].bytes \in Bytes
        /\ store[sweeps[w].step] # "none"
    BY DEF RelayInv, RequestsAreReal, InHand
  <1>2. /\ registered \in [Bucket -> SUBSET Part]
        /\ \A c \in Bucket : \A p, q \in registered[c] : p[1] = q[1] => p = q
        /\ manifests \in Seq(Manifest)
    BY DEF RelayInv, TypeOK, CatalogIsOfRun, CatalogTypeOK
  <1>3. registered' = registered /\ manifests' = Append(manifests, m)
    BY DEF Commit
  <1>4. /\ m \in Manifest /\ m.scope = Task /\ m.step = sweeps[w].step
        /\ m.validation = "hash_verified"
    BY <1>1, CatalogAssumption DEF Manifest, Part, Validation, BucketOf, PartOf
  <1> HIDE DEF m
  <1>5. /\ manifests' \in Seq(Manifest)
        /\ n \in Nat /\ DOMAIN manifests = 1 .. n /\ DOMAIN manifests' = 1 .. n + 1
        /\ \A i \in 1 .. n : manifests'[i] = manifests[i]
        /\ manifests'[n + 1] = m
    BY <1>2, <1>3, <1>4, AppendProperties
  <1> HIDE DEF n
  <1>6. CatalogIsOfRun'
    <2>1. \A i \in DOMAIN manifests' : manifests'[i].step \in RunSteps
      <3>1. \A i \in DOMAIN manifests : manifests[i].step \in RunSteps
        BY DEF RelayInv, TypeOK, CatalogIsOfRun
      <3>2. \A i \in DOMAIN manifests' : i \in DOMAIN manifests \/ i = n + 1
        BY <1>5
      <3> QED
        BY <1>1, <1>4, <1>5, <3>1, <3>2
    <2> QED
      BY <1>2, <1>3, <1>5, <2>1 DEF CatalogIsOfRun, CatalogTypeOK
  <1>7. n + 1 \in DOMAIN manifests' /\ DOMAIN manifests \subseteq DOMAIN manifests'
    BY <1>5
  <1>8. \A i \in DOMAIN manifests' :
            /\ manifests'[i].scope = Task
            /\ manifests'[i].validation = "hash_verified"
            /\ store[manifests'[i].step] # "none"
    <2> SUFFICES ASSUME NEW i \in DOMAIN manifests'
                 PROVE  /\ manifests'[i].scope = Task
                        /\ manifests'[i].validation = "hash_verified"
                        /\ store[manifests'[i].step] # "none"
      OBVIOUS
    <2>1. i \in DOMAIN manifests \/ i = n + 1
      BY <1>5
    <2> QED
      BY <1>1, <1>4, <1>5, <2>1 DEF RelayInv, CatalogIsEarned
  <1>9. reached' # 0 => \E i \in DOMAIN manifests' : manifests'[i].step = reached'
    <2>1. CASE reached' = sweeps[w].step
      BY <1>4, <1>5, <1>7, <2>1
    <2>2. CASE reached' = reached
      BY <1>5, <1>7, <2>2 DEF RelayInv, CatalogIsEarned
    <2> QED
      BY <2>1, <2>2
  <1>10. CatalogIsEarned'
    BY <1>8, <1>9 DEF CatalogIsEarned
  <1>11. reached' \in 0 .. LastStep
    BY <1>1, LastStepAssumption DEF RelayInv, TypeOK, RunSteps
  <1> QED
    BY <1>6, <1>10, <1>11

\* The sweep of w, with the request that comes next.
LEMMA PcChanges ==
    ASSUME RelayInv, NEW w \in Shippers, InHand(w), NEW pc \in {"register", "commit"}
    PROVE  LET v == [sweeps[w] EXCEPT !.pc = pc]
           IN  /\ v \in Sweep /\ v.pc = pc
               /\ v.of = sweeps[w].of /\ v.step = sweeps[w].step /\ v.bytes = sweeps[w].bytes
               /\ v.todo = sweeps[w].todo
               /\ v.of \in AttemptNumbers /\ v.step \in RunSteps /\ v.bytes \in Bytes
               /\ w # "stray" => v.todo \subseteq Files
  <1>1. sweeps[w] \in Sweep
    BY DEF RelayInv, TypeOK
  <1>2. w # "stray" => sweeps[w].todo \subseteq Files
    BY DEF RelayInv, WorkIsThere, Shippers
  <1> QED
    BY <1>1, <1>2 DEF Sweep, RelayInv, RequestsAreReal

\* The sweep of w when it is done with a file.
LEMMA LaidDownIsSound ==
    ASSUME RelayInv, NEW w \in Shippers, InHand(w)
    PROVE  /\ LaidDown(w) \in Sweep /\ LaidDown(w).pc = "pick"
           /\ LaidDown(w).of \in AttemptNumbers
           /\ LaidDown(w).todo = sweeps[w].todo
           /\ w # "stray" => LaidDown(w).todo \subseteq Files
  <1>1. sweeps[w] \in Sweep
    BY DEF RelayInv, TypeOK
  <1>2. w # "stray" => sweeps[w].todo \subseteq Files
    BY DEF RelayInv, WorkIsThere, Shippers
  <1> QED
    BY <1>1, <1>2 DEF LaidDown, Sweep, RelayInv, RequestsAreReal

\* What is known of the final sweep while it has a file in hand.
LEMMA FinalInHand ==
    ASSUME RelayInv, InHand("final")
    PROVE  /\ run.phase \notin {"none", "running"}
           /\ run.refused \/ \A s \in Files : \/ s \in run.shipped
                                              \/ s \in sweeps["final"].todo
                                              \/ sweeps["final"].step = s
  BY DEF RelayInv, NothingIsMissed, InHand

\* What is uploaded is in the store and in hand.
LEMMA UploadIsSound ==
    ASSUME RelayInv, NEW w \in Shippers, Upload(w)
    PROVE  RelayInv'
  <1> DEFINE v == [sweeps[w] EXCEPT !.pc = "register"]
  <1> USE DEF Upload
  <1>1. InHand(w)
    BY DEF InHand
  <1>2. /\ v \in Sweep /\ v.pc = "register"
        /\ v.of = sweeps[w].of /\ v.step = sweeps[w].step /\ v.todo = sweeps[w].todo
        /\ v.of \in AttemptNumbers /\ v.step \in RunSteps /\ v.bytes \in Bytes
        /\ w # "stray" => v.todo \subseteq Files
    BY <1>1, PcChanges
  <1>3. Keeps(store') /\ store'[v.step] # "none"
    BY <1>1, <1>2, StoredKeeps
  <1>4. CatalogIsOfRun' /\ CatalogIsEarned' /\ reached' \in 0 .. LastStep
    BY <1>3, CatalogStays
  <1>5. run' \in Run /\ faults' \in 0 .. MaxFaults
    BY DEF RelayInv, TypeOK
  <1>6. sweeps' = [sweeps EXCEPT ![w] = v]
    BY DEF RelayInv, TypeOK
  <1>7. w = "final" =>
            /\ run.phase \notin {"none", "running"}
            /\ run.refused \/ \A s \in Files : \/ s \in run.shipped
                                               \/ s \in v.todo
                                               \/ v.step = s
    BY <1>1, <1>2, FinalInHand
  <1> HIDE DEF v
  <1> QED
    BY <1>2, <1>3, <1>4, <1>5, <1>6, <1>7, SweepMoves

\* The part that is registered is the one in hand.
LEMMA RegisterIsSound ==
    ASSUME RelayInv, NEW w \in Shippers, Register(w)
    PROVE  RelayInv'
  <1> DEFINE v == [sweeps[w] EXCEPT !.pc = "commit"]
  <1> USE DEF Register
  <1>1. InHand(w)
    BY DEF InHand
  <1>2. /\ v \in Sweep /\ v.pc = "commit"
        /\ v.of = sweeps[w].of /\ v.step = sweeps[w].step /\ v.todo = sweeps[w].todo
        /\ v.of \in AttemptNumbers /\ v.step \in RunSteps /\ v.bytes \in Bytes
        /\ store[v.step] # "none"
        /\ w # "stray" => v.todo \subseteq Files
    BY <1>1, PcChanges DEF RelayInv, RequestsAreReal
  <1>3. Keeps(store')
    BY DEF Keeps, RelayInv, TypeOK
  <1>4. CatalogIsOfRun' /\ CatalogIsEarned' /\ reached' \in 0 .. LastStep
    BY <1>1, RegisteringIsSound
  <1>5. run' \in Run /\ faults' \in 0 .. MaxFaults
    BY DEF RelayInv, TypeOK
  <1>6. sweeps' = [sweeps EXCEPT ![w] = v]
    BY DEF RelayInv, TypeOK
  <1>7. w = "final" =>
            /\ run.phase \notin {"none", "running"}
            /\ run.refused \/ \A s \in Files : \/ s \in run.shipped
                                               \/ s \in v.todo
                                               \/ v.step = s
    BY <1>1, <1>2, FinalInHand
  <1> HIDE DEF v
  <1> QED
    BY <1>2, <1>3, <1>4, <1>5, <1>6, <1>7, SweepMoves

\* What is committed was uploaded, and counts as shipped.
LEMMA CommitPartIsSound ==
    ASSUME RelayInv, NEW w \in Shippers, CommitPart(w)
    PROVE  RelayInv'
  <1> DEFINE v == LaidDown(w)
  <1> USE DEF CommitPart
  <1>1. InHand(w)
    BY DEF InHand
  <1>2. /\ v \in Sweep /\ v.pc = "pick" /\ v.todo = sweeps[w].todo
        /\ v.of \in AttemptNumbers /\ sweeps[w].step \in RunSteps
        /\ w # "stray" => v.todo \subseteq Files
    BY <1>1, LaidDownIsSound DEF RelayInv, RequestsAreReal
  <1>3. Keeps(store')
    BY DEF Keeps, RelayInv, TypeOK
  <1>4. reached' \in {reached, sweeps[w].step}
    <2>1. reached \in Nat /\ sweeps[w].step \in Nat
      BY <1>2, LastStepAssumption DEF RelayInv, TypeOK, RunSteps
    <2> QED
      BY <2>1, GreaterOf
  <1>5. CatalogIsOfRun' /\ CatalogIsEarned' /\ reached' \in 0 .. LastStep
    BY <1>4, CommittingIsSound
  <1>6. run \in Run /\ faults' \in 0 .. MaxFaults
    BY DEF RelayInv, TypeOK
  <1>7. /\ run' \in Run /\ run'.phase = run.phase /\ run'.files = run.files /\ run'.left = run.left
        /\ run'.refused = run.refused
        /\ run'.shipped = IF w = "stray" THEN run.shipped ELSE run.shipped \cup {sweeps[w].step}
    BY <1>2, <1>6 DEF Run
  <1>8. sweeps' = [sweeps EXCEPT ![w] = v]
    BY DEF RelayInv, TypeOK
  <1>9. w = "final" =>
            /\ run.phase \notin {"none", "running"}
            /\ run'.refused \/ \A s \in Files : s \in run'.shipped \/ s \in v.todo
    <2> HIDE DEF v
    <2> QED
      BY <1>1, <1>2, <1>7, FinalInHand
  <1>10. w # "stray" => v.todo \subseteq Files
    BY <1>2
  <1> HIDE DEF v
  <1> QED
    <2>1. /\ run' \in Run /\ run'.phase = run.phase /\ run'.files = run.files
          /\ run'.left = run.left /\ run'.refused = run.refused
          /\ run.shipped \subseteq run'.shipped /\ UNCHANGED <<attempt, leased>>
      BY <1>7
    <2>2. w = "final" /\ v.pc # "idle" =>
            /\ run.phase \notin {"none", "running"}
            /\ run'.refused \/ \A s \in Files : \/ s \in run'.shipped
                                                \/ s \in v.todo
                                                \/ /\ v.pc \in {"put", "register", "commit"}
                                                   /\ v.step = s
      BY <1>9
    <2> QED
      <3> HIDE DEF CommitPart
      <3> QED
        BY <1>2, <1>3, <1>5, <1>6, <1>8, <1>10, <2>1, <2>2, SweepMoves

\* A request that raises leaves its file for the next sweep, whatever became
\* of it.
LEMMA GivesUpIsSound ==
    ASSUME RelayInv, NEW w \in Shippers, InHand(w), GivesUp(w), Keeps(store'),
           CatalogIsOfRun', CatalogIsEarned', faults' \in 0 .. MaxFaults
    PROVE  RelayInv'
  <1> DEFINE v == LaidDown(w)
  <1>1. /\ v \in Sweep /\ v.pc = "pick" /\ v.of \in AttemptNumbers
        /\ w # "stray" => v.todo \subseteq Files
    BY LaidDownIsSound
  <1>2. run \in Run
    BY DEF RelayInv, TypeOK
  <1>3. /\ run' \in Run /\ run'.phase = run.phase /\ run'.files = run.files /\ run'.left = run.left
        /\ run'.shipped = run.shipped /\ run'.refused = (w # "stray" \/ run.refused)
    BY <1>2 DEF GivesUp, Run
  <1>4. sweeps' = [sweeps EXCEPT ![w] = v]
    BY DEF GivesUp, RelayInv, TypeOK
  <1>5. w = "final" => run.phase \notin {"none", "running"}
    BY DEF RelayInv, NothingIsMissed, InHand
  <1>6. UNCHANGED <<attempt, leased, reached>> /\ reached' \in 0 .. LastStep
    BY DEF GivesUp, RelayInv, TypeOK
  <1> HIDE DEF v
  <1> QED
    BY <1>1, <1>3, <1>4, <1>5, <1>6, SweepMoves

\* A refused request is one that failed.
LEMMA RefusedIsSound ==
    ASSUME RelayInv, NEW w \in Shippers, Refused(w)
    PROVE  RelayInv'
  <1>1. GivesUp(w) /\ UNCHANGED <<catalog, store, faults, reached>>
    BY DEF Refused, GivesUp
  <1>2. InHand(w)
    BY DEF Refused, InHand
  <1>3. Keeps(store') /\ faults' \in 0 .. MaxFaults
    BY <1>1 DEF Keeps, RelayInv, TypeOK
  <1>4. CatalogIsOfRun' /\ CatalogIsEarned'
    BY <1>1, <1>3, CatalogStays
  <1> QED
    BY <1>1, <1>2, <1>3, <1>4, GivesUpIsSound

\* So is a lost one, performed or not.
LEMMA LostIsSound ==
    ASSUME RelayInv, NEW w \in Shippers, Lost(w)
    PROVE  RelayInv'
  <1>1. GivesUp(w) /\ UNCHANGED reached
    BY DEF Lost, GivesUp
  <1>2. InHand(w)
    BY DEF Lost, InHand
  <1>3. faults' \in 0 .. MaxFaults
    BY MaxFaultsAssumption DEF Lost, RelayInv, TypeOK
  <1>4. Keeps(store)
    BY DEF Keeps, RelayInv, TypeOK
  <1>5. Keeps(store') /\ CatalogIsOfRun' /\ CatalogIsEarned'
    <2>1. CASE store' \in {store, Stored(w)} /\ UNCHANGED catalog
      <3>1. Keeps(store')
        BY <1>2, <1>4, <2>1, StoredKeeps
      <3> QED
        BY <1>1, <2>1, <3>1, CatalogStays
    <2>2. CASE UNCHANGED <<catalog, store>>
      BY <1>1, <1>4, <2>2, CatalogStays
    <2>3. CASE /\ sweeps[w].pc = "register" /\ UNCHANGED store
               /\ RegisterPart(BucketOf(w), sweeps[w].step, sweeps[w].bytes)
      BY <1>1, <1>4, <2>3, RegisteringIsSound DEF InHand
    <2>4. CASE /\ sweeps[w].pc = "commit" /\ UNCHANGED store
               /\ Commit(BucketOf(w), {PartOf(w)}, {1})
      BY <1>1, <1>4, <2>4, CommittingIsSound
    <2> QED
      BY <2>1, <2>2, <2>3, <2>4 DEF Lost
  <1> QED
    BY <1>1, <1>2, <1>3, <1>5, GivesUpIsSound

-----------------------------------------------------------------------------
(***************************************************************************)
(* The end of an attempt                                                   *)
(***************************************************************************)

\* All there is to upload is in the directory.
LEMMA AfterFinishIsSound == RelayInv /\ AfterFinish => RelayInv'
  <1> SUFFICES ASSUME RelayInv, AfterFinish
               PROVE  RelayInv'
    OBVIOUS
  <1>1. UNCHANGED <<catalog, store, attempt, reached, faults>> /\ run.phase = "closing"
    BY DEF AfterFinish
  <1>2. CASE Over("over") /\ leased' \in BOOLEAN
    BY <1>1, <1>2, OverIsSound
  <1>3. CASE /\ run' = [run EXCEPT !.phase = "uploading", !.left = Seen("final")]
             /\ UNCHANGED <<leased, sweeps>>
    <2>1. Seen("final") = Files /\ run \in Run
      BY DEF Seen, Files, RelayInv, TypeOK
    <2>2. /\ run' \in Run /\ run'.left = Files /\ run'.refused = run.refused
          /\ run'.shipped = run.shipped /\ run'.files = run.files /\ run'.phase = "uploading"
      BY <1>3, <2>1 DEF Run, Files
    <2>3. Files' = Files
      BY <2>2 DEF Files
    <2>4. Keeps(store')
      BY <1>1 DEF Keeps, RelayInv, TypeOK
    <2>5. CatalogIsOfRun' /\ CatalogIsEarned' /\ reached' \in 0 .. LastStep
      BY <1>1, <2>4, CatalogStays
    <2>6. \A w : InHand(w)' = InHand(w)
      BY <1>3 DEF InHand
    <2>7. TypeOK'
      BY <1>1, <1>3, <2>2, <2>4, <2>5 DEF RelayInv, TypeOK
    <2>8. AttemptIsCounted' /\ RequestsAreReal'
      BY <1>1, <1>3, <2>6 DEF RelayInv, AttemptIsCounted, RequestsAreReal
    <2>9. WorkIsThere' /\ NothingIsMissed'
      BY <1>3, <2>2, <2>3, <2>6 DEF RelayInv, WorkIsThere, NothingIsMissed
    <2> QED
      BY <2>5, <2>7, <2>8, <2>9 DEF RelayInv
  <1>4. leased \in BOOLEAN
    BY DEF RelayInv, TypeOK
  <1> QED
    BY <1>2, <1>3, <1>4 DEF AfterFinish

\* An output that is uploaded takes nothing out of the store.
LEMMA UploadOutputIsSound == RelayInv /\ UploadOutput => RelayInv'
  <1> SUFFICES ASSUME RelayInv, UploadOutput
               PROVE  RelayInv'
    OBVIOUS
  <1>1. UNCHANGED <<catalog, attempt, leased, reached, faults>> /\ run.phase = "uploading"
    BY DEF UploadOutput
  <1>2. CASE ~leased
    BY <1>1, <1>2, OverIsSound DEF UploadOutput, RelayInv, TypeOK
  <1>3. CASE leased
    <2> DEFINE s == Min(run.left)
    <2>1. run \in Run /\ run.left \in SUBSET Nat /\ run.left # {}
      BY LastStepAssumption DEF UploadOutput, RelayInv, TypeOK, Run, RunSteps
    <2>2. s \in run.left
      BY <2>1, LeastOf
    <2>3. /\ store' = [store EXCEPT ![s] = run.files[s]]
          /\ run' = [run EXCEPT !.left = run.left \ {s}]
          /\ sweeps' = sweeps
      BY <1>3, <2>1 DEF UploadOutput
    <2> HIDE DEF s
    <2>4. s \in Files /\ run.files[s] \in Bytes \cup {"none"}
      BY <2>1, <2>2 DEF RelayInv, WorkIsThere, Files, Run
    <2>5. Keeps(store')
      BY <2>3, <2>4 DEF Keeps, Files, RelayInv, TypeOK
    <2>6. /\ run' \in Run /\ run'.left \subseteq run.left /\ run'.refused = run.refused
          /\ run'.shipped = run.shipped /\ run'.files = run.files /\ run'.phase = run.phase
      BY <2>1, <2>3 DEF Run
    <2>7. Files' = Files
      BY <2>6 DEF Files
    <2>8. CatalogIsOfRun' /\ CatalogIsEarned' /\ reached' \in 0 .. LastStep
      BY <1>1, <2>5, CatalogStays
    <2>9. \A w : InHand(w)' = InHand(w)
      BY <2>3 DEF InHand
    <2>10. TypeOK'
      BY <1>1, <2>3, <2>5, <2>6, <2>8 DEF RelayInv, TypeOK, Keeps
    <2>11. AttemptIsCounted' /\ RequestsAreReal'
      BY <1>1, <2>3, <2>5, <2>6, <2>9 DEF RelayInv, AttemptIsCounted, RequestsAreReal, Keeps
    <2>12. WorkIsThere' /\ NothingIsMissed'
      BY <2>3, <2>6, <2>7, <2>9 DEF RelayInv, WorkIsThere, NothingIsMissed
    <2> QED
      BY <2>8, <2>10, <2>11, <2>12 DEF RelayInv
  <1> QED
    BY <1>2, <1>3

\* A completed run leaves at most a request in hand.
LEMMA CompleteIsSound == RelayInv /\ Complete => RelayInv'
  BY OverIsSound DEF Complete

\* A lost lease changes nothing but what is answered.
LEMMA LoseLeaseIsSound == RelayInv /\ LoseLease => RelayInv'
  <1> SUFFICES ASSUME RelayInv, LoseLease
               PROVE  RelayInv'
    OBVIOUS
  <1> USE DEF LoseLease
  <1>1. Keeps(store')
    BY DEF Keeps, RelayInv, TypeOK
  <1>2. CatalogIsOfRun' /\ CatalogIsEarned' /\ reached' \in 0 .. LastStep
    BY <1>1, CatalogStays
  <1>3. Files' = Files /\ \A w : InHand(w)' = InHand(w)
    BY DEF Files, InHand
  <1>4. TypeOK'
    BY <1>2 DEF RelayInv, TypeOK
  <1> QED
    BY <1>2, <1>3, <1>4
    DEF RelayInv, AttemptIsCounted, RequestsAreReal, WorkIsThere, NothingIsMissed

\* A restart empties the catalog and forgets what was shipped.
LEMMA RestartIsSound == RelayInv /\ Restart => RelayInv'
  <1> SUFFICES ASSUME RelayInv, Restart
               PROVE  RelayInv'
    OBVIOUS
  <1> USE DEF Restart
  <1>1. CatalogIsOfRun' /\ DOMAIN manifests' = {}
    BY DEF CatalogIsOfRun, CatalogTypeOK
  <1>2. CatalogIsEarned' /\ reached' \in 0 .. LastStep
    BY <1>1, LastStepAssumption DEF CatalogIsEarned
  <1>3. Files' = Files /\ \A w : InHand(w)' = InHand(w)
    BY DEF Files, InHand
  <1>4. TypeOK'
    BY <1>1, <1>2, MaxFaultsAssumption DEF RelayInv, TypeOK
  <1> QED
    BY <1>2, <1>3, <1>4
    DEF RelayInv, AttemptIsCounted, RequestsAreReal, WorkIsThere, NothingIsMissed

\* A step of something else changes nothing.
LEMMA StutterIsSound == RelayInv /\ UNCHANGED vars => RelayInv'
  <1> SUFFICES ASSUME RelayInv, UNCHANGED vars
               PROVE  RelayInv'
    OBVIOUS
  <1>1. /\ registered' = registered /\ manifests' = manifests /\ store' = store
        /\ attempt' = attempt /\ leased' = leased /\ run' = run /\ sweeps' = sweeps
        /\ reached' = reached /\ faults' = faults /\ UNCHANGED catalog
    BY DEF vars, catalog
  <1>2. Keeps(store')
    BY <1>1 DEF Keeps, RelayInv, TypeOK
  <1>3. CatalogIsOfRun' /\ CatalogIsEarned' /\ reached' \in 0 .. LastStep
    BY <1>1, <1>2, CatalogStays
  <1>4. Files' = Files /\ \A w : InHand(w)' = InHand(w)
    BY <1>1 DEF Files, InHand
  <1>5. TypeOK'
    BY <1>1, <1>3 DEF RelayInv, TypeOK
  <1> QED
    BY <1>1, <1>3, <1>4, <1>5
    DEF RelayInv, AttemptIsCounted, RequestsAreReal, WorkIsThere, NothingIsMissed

\* Every step preserves the invariant.
LEMMA StepIsSound == RelayInv /\ [Next]_vars => RelayInv'
  <1> SUFFICES ASSUME RelayInv, [Next]_vars
               PROVE  RelayInv'
    OBVIOUS
  <1>1. ASSUME NEW sameNode \in BOOLEAN, Start(sameNode)
        PROVE  RelayInv'
    BY <1>1, StartIsSound
  <1>2. ASSUME NEW w \in Shippers, BeginSweep(w) \/ EndSweep(w)
        PROVE  RelayInv'
    BY <1>2, BeginSweepIsSound, EndSweepIsSound
  <1>3. ASSUME NEW w \in Shippers, ReadFile(w) \/ Upload(w) \/ Register(w) \/ CommitPart(w)
        PROVE  RelayInv'
    BY <1>3, ReadFileIsSound, UploadIsSound, RegisterIsSound, CommitPartIsSound
  <1>4. ASSUME NEW w \in Shippers, Refused(w) \/ Lost(w)
        PROVE  RelayInv'
    BY <1>4, RefusedIsSound, LostIsSound
  <1>5. CASE OpenFile \/ CloseFile \/ ProcessEnds
    BY <1>5, OpenFileIsSound, CloseFileIsSound, ProcessEndsIsSound
  <1>6. CASE AfterFinish \/ UploadOutput \/ Complete
    BY <1>6, AfterFinishIsSound, UploadOutputIsSound, CompleteIsSound
  <1>7. CASE LoseLease \/ Restart
    BY <1>7, LoseLeaseIsSound, RestartIsSound
  <1>8. CASE UNCHANGED vars
    BY <1>8, StutterIsSound
  <1> QED
    BY <1>1, <1>2, <1>3, <1>4, <1>5, <1>6, <1>7, <1>8 DEF Next

-----------------------------------------------------------------------------
(***************************************************************************)
(* The bytes that are shipped                                              *)
(***************************************************************************)

\* The file of step s does not change any more.
Settled(s) ==
    \/ run.files[s] = "whole"
    \/ run.files[s] = "partial" /\ run.phase # "running"

\* w has a request of its run's in hand that follows the upload of step s.
HasSent(w, s) == sweeps[w].pc \in {"register", "commit"} /\ sweeps[w].step = s

\* Unless a thread read it before its end, what is on its way of a file is the
\* file as it stays, and what was sent of a whole one is in the store; what is on
\* its way from the run before is whole.
BytesAreTrue ==
    IF run.phase \in {"running", "closing", "uploading"}
    THEN \A s \in RunSteps \ run.half :
            /\ \A w \in Shippers : sweeps[w].pc = "put" /\ sweeps[w].step = s =>
                   IF w = "stray" THEN sweeps[w].bytes = "whole"
                   ELSE Settled(s) /\ sweeps[w].bytes = run.files[s]
            /\ s \in run.shipped \/ HasSent("relay", s) \/ HasSent("final", s) =>
                   Settled(s) /\ (run.files[s] = "whole" => store[s] = "whole")
    ELSE Files = {}

\* A run that goes on may settle a file, or begin one, without touching what was
\* sent.
LEMMA RunKeepsBytes ==
    ASSUME BytesAreTrue, UNCHANGED <<store, sweeps>>,
           run.phase \in {"running", "closing", "uploading"},
           run'.phase \in {"running", "closing", "uploading"},
           run'.half = run.half, run'.shipped = run.shipped,
           \A s \in RunSteps : Settled(s) => Settled(s)' /\ run'.files[s] = run.files[s]
    PROVE  BytesAreTrue'
  <1>1. \A w, s : HasSent(w, s)' = HasSent(w, s)
    BY DEF HasSent
  <1> QED
    BY <1>1 DEF BytesAreTrue

\* A sweep goes on without sending anything.
LEMMA RequestKeepsBytes ==
    ASSUME RelayInv, BytesAreTrue, NEW w \in Shippers, NEW v,
           sweeps' = [sweeps EXCEPT ![w] = v], v.pc # "put", UNCHANGED store,
           v.pc \in {"register", "commit"} =>
              sweeps[w].pc \in {"register", "commit"} /\ v.step = sweeps[w].step,
           run'.phase = run.phase, run'.files = run.files, run'.half = run.half,
           \A s \in run'.shipped : s \in run.shipped \/ (w # "stray" /\ HasSent(w, s))
    PROVE  BytesAreTrue'
  <1>1. sweeps'[w] = v /\ \A u \in Shippers \ {w} : sweeps'[u] = sweeps[u]
    BY DEF RelayInv, TypeOK
  <1>2. Files' = Files /\ \A s : Settled(s)' = Settled(s)
    BY DEF Files, Settled
  <1>3. \A u \in Shippers, s \in RunSteps : HasSent(u, s)' => HasSent(u, s)
    BY <1>1 DEF HasSent
  <1>4. \A u \in Shippers : sweeps'[u].pc = "put" => sweeps'[u] = sweeps[u]
    BY <1>1
  <1> QED
    BY <1>2, <1>3, <1>4 DEF BytesAreTrue, Shippers

\* What w read arrives.
LEMMA ArrivalKeepsBytes ==
    ASSUME RelayInv, BytesAreTrue, NEW w \in Shippers, sweeps[w].pc = "put", NEW v,
           sweeps' = [sweeps EXCEPT ![w] = v], store' = Stored(w),
           v.pc \in {"register", "pick"}, v.pc = "register" => v.step = sweeps[w].step,
           run'.phase = run.phase, run'.files = run.files, run'.half = run.half,
           run'.shipped = run.shipped
    PROVE  BytesAreTrue'
  <1> DEFINE f == sweeps[w].step
  <1>1. sweeps'[w] = v /\ \A u \in Shippers \ {w} : sweeps'[u] = sweeps[u]
    BY DEF RelayInv, TypeOK
  <1>2. Files' = Files /\ \A s : Settled(s)' = Settled(s)
    BY DEF Files, Settled
  <1>3. f \in RunSteps /\ store'[f] = sweeps[w].bytes
        /\ \A s \in RunSteps \ {f} : store'[s] = store[s]
    BY StoredKeeps DEF InHand, Stored, RelayInv, TypeOK
  <1>4. \A u \in Shippers, s \in RunSteps : HasSent(u, s)' => HasSent(u, s) \/ (u = w /\ s = f)
    BY <1>1 DEF HasSent
  <1>5. \A u \in Shippers : sweeps'[u].pc = "put" => sweeps'[u] = sweeps[u]
    BY <1>1
  <1>6. CASE run.phase \in {"running", "closing", "uploading"}
    <2> SUFFICES ASSUME NEW s \in RunSteps \ run.half
                 PROVE  s \in run.shipped \/ HasSent("relay", s)' \/ HasSent("final", s)' =>
                           Settled(s) /\ (run.files[s] = "whole" => store'[s] = "whole")
      BY <1>2, <1>5, <1>6 DEF BytesAreTrue
    <2>1. CASE s # f
      <3>1. store'[s] = store[s]
        BY <1>3, <2>1
      <3>2. /\ HasSent("relay", s)' => HasSent("relay", s)
            /\ HasSent("final", s)' => HasSent("final", s)
        BY <1>4, <2>1 DEF Shippers
      <3> QED
        BY <1>6, <3>1, <3>2 DEF BytesAreTrue
    <2>2. CASE s = f /\ w = "stray"
      <3>1. store'[s] = "whole"
        BY <1>3, <1>6, <2>2 DEF BytesAreTrue
      <3>2. /\ HasSent("relay", s)' => HasSent("relay", s)
            /\ HasSent("final", s)' => HasSent("final", s)
        BY <1>4, <2>2 DEF Shippers
      <3> QED
        BY <1>6, <3>1, <3>2 DEF BytesAreTrue
    <2>3. CASE s = f /\ w # "stray"
      BY <1>3, <1>6, <2>3 DEF BytesAreTrue
    <2> QED
      BY <2>1, <2>2, <2>3
  <1>7. CASE run.phase \notin {"running", "closing", "uploading"}
    BY <1>2, <1>7 DEF BytesAreTrue
  <1> QED
    BY <1>6, <1>7

\* A new run knows what the thread of the one before it has in hand.
LEMMA StartKeepsBytes ==
    ASSUME RelayInv, BytesAreTrue, NEW sameNode \in BOOLEAN, Start(sameNode)
    PROVE  BytesAreTrue'
  <1>1. /\ run'.phase \in {"running", "closing"} /\ run'.shipped = {}
        /\ run'.half = IF sameNode /\ InHand("relay") /\ sweeps["relay"].bytes = "partial"
                       THEN {sweeps["relay"].step} ELSE {}
    BY DEF Start, NoRun
  <1>2. /\ sweeps'["relay"] = Idle /\ sweeps'["final"] = Idle
        /\ sweeps'["stray"] = IF sameNode /\ InHand("relay") THEN sweeps["relay"] ELSE Idle
    BY DEF Start, Shippers
  <1>3. \A s : ~HasSent("relay", s)' /\ ~HasSent("final", s)'
    BY <1>2 DEF HasSent, Idle
  <1>4. InHand("relay") => sweeps["relay"].bytes \in {"partial", "whole"}
    BY DEF RelayInv, RequestsAreReal, Shippers, Bytes
  <1> QED
    BY <1>1, <1>2, <1>3, <1>4 DEF BytesAreTrue, Shippers, Idle

\* What is read is settled, or counts as read before its end.
LEMMA ReadFileKeepsBytes ==
    ASSUME RelayInv, BytesAreTrue, NEW w \in Shippers, ReadFile(w)
    PROVE  BytesAreTrue'
  <1> DEFINE f == FileOf(w)
  <1>1. f \in RunSteps /\ f \in sweeps[w].todo /\ w \in {"relay", "final"}
    BY FileOfIsNew DEF ReadFile, CanPick, RelayInv, Shippers
  <1>2. run.files[f] \in {"partial", "whole"} /\ Files # {}
    BY <1>1 DEF RelayInv, WorkIsThere, Files, TypeOK, Run, Bytes
  <1>3. /\ sweeps'[w].pc = "put" /\ sweeps'[w].step = f /\ sweeps'[w].bytes = run.files[f]
        /\ \A u \in Shippers \ {w} : sweeps'[u] = sweeps[u]
    BY DEF ReadFile, RelayInv, TypeOK, Sweep
  <1>4. /\ run'.phase = run.phase /\ run'.files = run.files /\ run'.shipped = run.shipped
        /\ run'.half = IF run.phase = "running" /\ run.files[f] = "partial"
                       THEN run.half \cup {f} ELSE run.half
        /\ store' = store
    BY DEF ReadFile, RelayInv, TypeOK, Run
  <1> HIDE DEF f
  <1>5. run.phase \in {"running", "closing", "uploading"}
    BY <1>2 DEF BytesAreTrue
  <1>6. \A s : Settled(s)' = Settled(s)
    BY <1>4 DEF Settled
  <1>7. \A u \in Shippers : \A s : HasSent(u, s)' => HasSent(u, s)
    BY <1>3 DEF HasSent
  <1>8. f \in run'.half \/ Settled(f)
    BY <1>2, <1>4 DEF Settled
  <1> SUFFICES ASSUME NEW s \in RunSteps \ run'.half
               PROVE  /\ \A u \in Shippers : sweeps'[u].pc = "put" /\ sweeps'[u].step = s =>
                             IF u = "stray" THEN sweeps'[u].bytes = "whole"
                             ELSE Settled(s) /\ sweeps'[u].bytes = run.files[s]
                      /\ s \in run.shipped \/ HasSent("relay", s)' \/ HasSent("final", s)' =>
                             Settled(s) /\ (run.files[s] = "whole" => store[s] = "whole")
    BY <1>4, <1>5, <1>6 DEF BytesAreTrue
  <1>9. s \in RunSteps \ run.half
    BY <1>4
  <1>10. ASSUME NEW u \in Shippers, sweeps'[u].pc = "put", sweeps'[u].step = s
         PROVE  IF u = "stray" THEN sweeps'[u].bytes = "whole"
                ELSE Settled(s) /\ sweeps'[u].bytes = run.files[s]
    <2>1. CASE u = w
      BY <1>1, <1>3, <1>8, <1>10, <2>1
    <2>2. CASE u # w
      BY <1>3, <1>5, <1>9, <1>10, <2>2 DEF BytesAreTrue
    <2> QED
      BY <2>1, <2>2
  <1>11. s \in run.shipped \/ HasSent("relay", s)' \/ HasSent("final", s)' =>
            Settled(s) /\ (run.files[s] = "whole" => store[s] = "whole")
    BY <1>5, <1>7, <1>9 DEF BytesAreTrue, Shippers
  <1> QED
    BY <1>10, <1>11

\* The other steps of a sweep.
LEMMA SweepKeepsBytes ==
    ASSUME RelayInv, BytesAreTrue, NEW w \in Shippers,
           \/ BeginSweep(w) \/ EndSweep(w) \/ Upload(w) \/ Register(w) \/ CommitPart(w)
           \/ Refused(w) \/ Lost(w)
    PROVE  BytesAreTrue'
  <1>1. CASE BeginSweep(w) \/ EndSweep(w)
    <2> DEFINE v == sweeps'[w]
    <2>1. /\ sweeps' = [sweeps EXCEPT ![w] = v] /\ UNCHANGED <<store, run>>
          /\ v.pc \in {"pick", "over", "idle"}
      BY <1>1 DEF BeginSweep, EndSweep, RelayInv, TypeOK, Idle
    <2> HIDE DEF v
    <2> QED
      BY <2>1, RequestKeepsBytes
  <1>2. CASE Upload(w)
    <2> DEFINE v == [sweeps[w] EXCEPT !.pc = "register"]
    <2>1. /\ sweeps' = [sweeps EXCEPT ![w] = v] /\ run' = run /\ store' = Stored(w)
          /\ v.pc = "register" /\ v.step = sweeps[w].step /\ sweeps[w].pc = "put"
      BY <1>2 DEF Upload, RelayInv, TypeOK, Sweep
    <2> HIDE DEF v
    <2> QED
      BY <2>1, ArrivalKeepsBytes
  <1>3. CASE Register(w)
    <2> DEFINE v == [sweeps[w] EXCEPT !.pc = "commit"]
    <2>1. /\ sweeps' = [sweeps EXCEPT ![w] = v] /\ UNCHANGED <<run, store>>
          /\ v.pc = "commit" /\ v.step = sweeps[w].step /\ sweeps[w].pc = "register"
      BY <1>3 DEF Register, RelayInv, TypeOK, Sweep
    <2> HIDE DEF v
    <2> QED
      BY <2>1, RequestKeepsBytes
  <1>4. CASE CommitPart(w)
    <2>1. /\ sweeps' = [sweeps EXCEPT ![w] = LaidDown(w)] /\ UNCHANGED store
          /\ LaidDown(w).pc = "pick" /\ sweeps[w].pc = "commit"
      BY <1>4, LaidDownIsSound DEF CommitPart, InHand
    <2>2. /\ run'.phase = run.phase /\ run'.files = run.files /\ run'.half = run.half
          /\ \A s \in run'.shipped : s \in run.shipped \/ (w # "stray" /\ HasSent(w, s))
      BY <1>4 DEF CommitPart, HasSent, RelayInv, TypeOK, Run
    <2> QED
      BY <2>1, <2>2, RequestKeepsBytes
  <1>5. CASE Refused(w) \/ Lost(w)
    <2>1. /\ sweeps' = [sweeps EXCEPT ![w] = LaidDown(w)] /\ LaidDown(w).pc = "pick"
      BY <1>5, LaidDownIsSound DEF Refused, Lost, GivesUp, InHand
    <2>2. /\ run'.phase = run.phase /\ run'.files = run.files /\ run'.half = run.half
          /\ run'.shipped = run.shipped
      BY <1>5 DEF Refused, Lost, GivesUp, RelayInv, TypeOK, Run
    <2>3. store' = store \/ (sweeps[w].pc = "put" /\ store' = Stored(w))
      BY <1>5 DEF Refused, Lost
    <2>4. CASE store' = store
      BY <2>1, <2>2, <2>4, RequestKeepsBytes
    <2>5. CASE sweeps[w].pc = "put" /\ store' = Stored(w)
      BY <2>1, <2>2, <2>5, ArrivalKeepsBytes
    <2> QED
      BY <2>3, <2>4, <2>5
  <1> QED
    BY <1>1, <1>2, <1>3, <1>4, <1>5

\* The steps of the process.
LEMMA ProcessKeepsBytes ==
    ASSUME RelayInv, BytesAreTrue, OpenFile \/ CloseFile \/ ProcessEnds
    PROVE  BytesAreTrue'
  <1>1. UNCHANGED <<store, sweeps>> /\ run.phase = "running" /\ run \in Run
    BY DEF OpenFile, CloseFile, ProcessEnds, RelayInv, TypeOK
  <1>2. /\ run'.phase \in {"running", "closing"} /\ run'.half = run.half
        /\ run'.shipped = run.shipped
    BY <1>1 DEF OpenFile, CloseFile, ProcessEnds, Run
  <1>3. \A s \in RunSteps : run.files[s] = "whole" => run'.files[s] = "whole"
    BY <1>1 DEF OpenFile, CloseFile, ProcessEnds, Run
  <1> QED
    BY <1>1, <1>2, <1>3, RunKeepsBytes DEF Settled

\* The end of an attempt.
LEMMA EndKeepsBytes ==
    ASSUME RelayInv, BytesAreTrue, AfterFinish \/ UploadOutput \/ Complete
    PROVE  BytesAreTrue'
  <1>1. ASSUME NEW p \in {"over", "accepted"}, Over(p)
        PROVE  BytesAreTrue'
    BY <1>1 DEF Over, NoRun, BytesAreTrue, Files
  <1>2. CASE AfterFinish
    <2>1. CASE /\ run' = [run EXCEPT !.phase = "uploading", !.left = Seen("final")]
               /\ UNCHANGED <<store, sweeps>>
      <3>1. run.phase = "closing" /\ run \in Run
        BY <1>2 DEF AfterFinish, RelayInv, TypeOK
      <3>2. /\ run'.phase = "uploading" /\ run'.half = run.half /\ run'.files = run.files
            /\ run'.shipped = run.shipped
        BY <2>1, <3>1 DEF Run
      <3> QED
        BY <2>1, <3>1, <3>2, RunKeepsBytes DEF Settled
    <2> QED
      BY <1>1, <1>2, <2>1 DEF AfterFinish
  <1>3. CASE UploadOutput
    <2>1. CASE leased
      <3> DEFINE f == Min(run.left)
      <3>1. run \in Run /\ run.left \in SUBSET Nat /\ run.left # {} /\ run.left \subseteq Files
        BY <1>3, LastStepAssumption
        DEF UploadOutput, RelayInv, TypeOK, WorkIsThere, Run, RunSteps
      <3>2. f \in RunSteps
        BY <3>1, LeastOf DEF Files
      <3>3. /\ store' = [store EXCEPT ![f] = run.files[f]] /\ sweeps' = sweeps
            /\ run'.phase = run.phase /\ run'.half = run.half /\ run'.files = run.files
            /\ run'.shipped = run.shipped /\ run.phase = "uploading"
        BY <1>3, <2>1, <3>1 DEF UploadOutput, Run
      <3> HIDE DEF f
      <3>4. \A s \in RunSteps : run.files[s] = "whole" /\ store[s] = "whole" => store'[s] = "whole"
        BY <3>2, <3>3 DEF RelayInv, TypeOK
      <3>5. \A w, s : HasSent(w, s)' = HasSent(w, s) /\ Settled(s)' = Settled(s)
        BY <3>3 DEF HasSent, Settled
      <3> QED
        BY <3>3, <3>4, <3>5 DEF BytesAreTrue
    <2> QED
      BY <1>1, <1>3, <2>1 DEF UploadOutput
  <1>4. CASE Complete
    BY <1>1, <1>4 DEF Complete
  <1> QED
    BY <1>2, <1>3, <1>4

\* Every step keeps the bytes true.
LEMMA StepKeepsBytes == RelayInv /\ BytesAreTrue /\ [Next]_vars => BytesAreTrue'
  <1> SUFFICES ASSUME RelayInv, BytesAreTrue, [Next]_vars
               PROVE  BytesAreTrue'
    OBVIOUS
  <1>1. ASSUME UNCHANGED <<run, sweeps, store>>
        PROVE  BytesAreTrue'
    BY <1>1 DEF BytesAreTrue, HasSent, Settled, Files
  <1>2. CASE LoseLease \/ Restart \/ UNCHANGED vars
    BY <1>1, <1>2 DEF LoseLease, Restart, vars
  <1> QED
    BY <1>2, StartKeepsBytes, ReadFileKeepsBytes, SweepKeepsBytes, ProcessKeepsBytes,
       EndKeepsBytes DEF Next

-----------------------------------------------------------------------------
(***************************************************************************)
(* Theorems                                                                *)
(***************************************************************************)

\* The run, its sweeps, the store and the catalog belong together, whatever
\* requests are lost, leases lapse, threads are left over or restarts happen.
THEOREM RelayInvariant == Spec => []RelayInv
  BY InitIsSound, StepIsSound, PTL DEF Spec

\* Every manifest's bytes are in the store: they are uploaded before the part
\* is registered and the part before the manifest (catalog.py), and nothing
\* takes them away.
THEOREM ManifestsHaveBytes == Spec => []ManifestHasBytes
  <1>1. RelayInv => ManifestHasBytes
    BY DEF RelayInv, CatalogIsEarned, ManifestHasBytes
  <1> QED
    BY <1>1, RelayInvariant, PTL

\* A final sweep of which no request failed has shipped all its process left on disk,
\* and every whole file of it lies whole in the store (loop.py, finish), whichever
\* files the thread took from it and whatever arrives late from the run before;
\* only a file that a thread read before its end is excepted.
THEOREM FinalSweepMissesNothing == Spec => []FinalSweepShips
  <1>1. Init => BytesAreTrue
    BY DEF Init, NoRun, BytesAreTrue, Files
  <1>2. RelayInv /\ BytesAreTrue => FinalSweepShips
    <2> SUFFICES ASSUME RelayInv, BytesAreTrue, SweptInFull, NEW s \in RunSteps
                 PROVE  /\ run.files[s] # "none" => s \in run.shipped
                        /\ run.files[s] = "whole" /\ s \notin run.half => store[s] = "whole"
      BY DEF FinalSweepShips
    <2>1. run.files[s] # "none" => s \in run.shipped
      BY DEF RelayInv, NothingIsMissed, Files, InHand, SweptInFull
    <2>2. run.files[s] = "whole" /\ s \notin run.half => store[s] = "whole"
      BY <2>1 DEF BytesAreTrue, Files
    <2> QED
      BY <2>1, <2>2
  <1> QED
    BY <1>1, <1>2, StepKeepsBytes, RelayInvariant, PTL DEF Spec

\* No attempt resumes behind what was shipped since the coordinator started,
\* whatever order the shippers committed in.
THEOREM AttemptsResumeWhereShipped == Spec => ResumesWhereShipped
  <1>1. RelayInv /\ [Next]_vars => [attempt' # attempt => run'.at >= reached]_vars
    <2> SUFFICES ASSUME RelayInv, Next, attempt' # attempt
                 PROVE  run'.at >= reached
      OBVIOUS
    <2>1. PICK sameNode \in BOOLEAN : Start(sameNode)
      BY DEF Next, OpenFile, CloseFile, ProcessEnds, BeginSweep, EndSweep, ReadFile, Upload,
             Register, CommitPart, Refused, Lost, GivesUp, AfterFinish, UploadOutput, Complete,
             LoseLease, Restart
    <2>2. run'.at = ResumePoint
      BY <2>1 DEF Start, NoRun
    <2>3. reached \in Nat /\ ResumePoint \in Nat /\ reached <= ResumePoint
      BY ResumesAtReached, ResumePointIsGreatest, LastStepAssumption DEF RelayInv, TypeOK, RunSteps
    <2> QED
      BY <2>2, <2>3
  <1> QED
    BY <1>1, RelayInvariant, PTL DEF Spec, ResumesWhereShipped
=============================================================================
