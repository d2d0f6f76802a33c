-------------------------- MODULE CheckpointCatalog --------------------------
(***************************************************************************)
(* The checkpoint catalog (flashruntime/checkpoint/catalog.py) as the      *)
(* service uses it: parts are registered, a manifest over registered parts *)
(* is committed, manifests climb or leave the validation ladder, and       *)
(* recovery asks for the newest one that is good enough.                   *)
(*                                                                         *)
(* Manifests are never removed from the catalog, so a manifest is named by *)
(* its place in the order of commits, which is the order of `created`.     *)
(*                                                                         *)
(* CheckpointRelay extends this module, hence the names CatalogInit and so *)
(* on.                                                                     *)
(***************************************************************************)
EXTENDS Naturals, Sequences, FiniteSets, FiniteSetsExt

CONSTANTS
    Scopes,       \* the tasks whose checkpoints are kept ("job::task")
    Attempts,     \* attempt ids
    Steps,        \* training steps
    Keys,         \* artifact keys of parts
    Hashes,       \* contents of parts
    Worlds,       \* world sizes
    MaxManifests  \* bound on the manifests committed

ASSUME StepsAssumption == Steps \subseteq Nat
ASSUME MaxManifestsAssumption == MaxManifests \in Nat

VARIABLES
    registered,   \* the parts registered under <<scope, attempt, step>>
    manifests     \* the manifests, in order of creation

catalog == <<registered, manifests>>

Bucket == Scopes \X Attempts \X Steps
Part == Keys \X Hashes
Validation == {"hash_verified", "restore_verified", "invalid"}

Manifest ==
    [scope : Scopes, attempt : Attempts, step : Steps, parts : SUBSET Part,
     worlds : SUBSET Worlds, validation : Validation]

(***************************************************************************)
(* Committing                                                              *)
(***************************************************************************)

\* The commit test, with the hashes left out.
CommittableByKey(b, expected) ==
    /\ expected # {}
    /\ \A p \in expected : \E q \in registered[b] : q[1] = p[1]

\* The commit test: some parts, each registered under this very hash.
Committable(b, expected) ==
    /\ expected # {}
    /\ expected \subseteq registered[b]

\* A registration that leaves the earlier one of the key beside it.
RegisteredBeside(b, k, h) == registered[b] \cup {<<k, h>>}

\* register_part: the last registration of a key counts.
Registered(b, k, h) == {p \in registered[b] : p[1] # k} \cup {<<k, h>>}

\* quarantine: the manifest stays, marked invalid.
Invalidated(m) == [manifests EXCEPT ![m].validation = "invalid"]

(***************************************************************************)
(* Selection                                                               *)
(***************************************************************************)

\* The manifests recovery may choose from.
Selectable(scope, worlds, verifiedOnly) ==
    {m \in DOMAIN manifests :
        /\ manifests[m].scope = scope
        /\ manifests[m].validation \in IF verifiedOnly THEN {"restore_verified"}
                                       ELSE {"hash_verified", "restore_verified"}
        /\ \A w \in worlds : w \in manifests[m].worlds}

\* m is to be preferred to k by time of creation alone.
BetterNewest(m, k) == m > k

\* m is to be preferred to k: step, then the ladder, then time of creation.
Better(m, k) ==
    LET verified(x) == manifests[x].validation = "restore_verified"
    IN  \/ manifests[m].step > manifests[k].step
        \/ /\ manifests[m].step = manifests[k].step
           /\ IF verified(m) = verified(k) THEN m > k ELSE verified(m)

\* latest_valid: the place of the manifest, 0 for None.  `worlds` is empty
\* when the caller does not ask for a world size.
LatestValid(scope, worlds, verifiedOnly) ==
    LET good == Selectable(scope, worlds, verifiedOnly)
    IN  IF good = {} THEN 0
        ELSE CHOOSE m \in good : \A k \in good \ {m} : Better(m, k)

\* The step recovery would resume from, 0 for none.
ResumeStep(scope) ==
    LET m == LatestValid(scope, {}, FALSE)
    IN  IF m = 0 THEN 0 ELSE manifests[m].step

(***************************************************************************)
(* Operations                                                              *)
(***************************************************************************)

CatalogInit ==
    /\ registered = [b \in Bucket |-> {}]
    /\ manifests = <<>>

\* register_part
RegisterPart(b, k, h) ==
    /\ registered' = [registered EXCEPT ![b] = Registered(b, k, h)]
    /\ UNCHANGED manifests

\* commit; a refused one changes nothing.
Commit(b, expected, worlds) ==
    /\ Len(manifests) < MaxManifests
    /\ Committable(b, expected)
    /\ manifests' = Append(manifests,
            [scope |-> b[1], attempt |-> b[2], step |-> b[3], parts |-> expected,
             worlds |-> worlds, validation |-> "hash_verified"])
    /\ UNCHANGED registered

\* mark_restore_verified
MarkRestoreVerified(m) ==
    /\ manifests' = [manifests EXCEPT ![m].validation = "restore_verified"]
    /\ UNCHANGED registered

\* quarantine
Quarantine(m) ==
    /\ manifests' = Invalidated(m)
    /\ UNCHANGED registered

CatalogNext ==
    \/ \E b \in Bucket, k \in Keys, h \in Hashes : RegisterPart(b, k, h)
    \/ \E b \in Bucket, expected \in SUBSET Part, worlds \in (SUBSET Worlds) \ {{}} :
          Commit(b, expected, worlds)
    \/ \E m \in DOMAIN manifests : MarkRestoreVerified(m)
    \/ \E m \in DOMAIN manifests : Quarantine(m)

CatalogSpec == CatalogInit /\ [][CatalogNext]_catalog

-----------------------------------------------------------------------------
(***************************************************************************)
(* Properties                                                              *)
(***************************************************************************)

\* Every variable has its type; a key is registered under one hash at most.
CatalogTypeOK ==
    /\ registered \in [Bucket -> SUBSET Part]
    /\ \A b \in Bucket : \A p, q \in registered[b] : p[1] = q[1] => p = q
    /\ manifests \in Seq(Manifest)

\* Where the parts of a manifest are registered.
BucketOfManifest(m) == <<m.scope, m.attempt, m.step>>

\* One content per key.
Consistent(parts) == \A p, q \in parts : p[1] = q[1] => p = q

\* A manifest says for ever what it said when it was committed, but for the
\* verdict on it, and is never removed; and what it said then is that parts
\* registered under its own task, attempt and step, at that moment and by the
\* last registration of each key, are there (catalog.py, "parts first,
\* manifest last").  Whether they are all the parts is not said.
ManifestStands ==
    [][/\ Len(manifests) <= Len(manifests')
       /\ \A m \in DOMAIN manifests' :
             IF m \in DOMAIN manifests
             THEN manifests'[m] =
                     [manifests[m] EXCEPT !.validation = manifests'[m].validation]
             ELSE LET new == manifests'[m]
                  IN  /\ new.parts # {} /\ Consistent(new.parts)
                      /\ new.parts \subseteq registered[BucketOfManifest(new)]
                      /\ new.validation = "hash_verified"]_catalog

\* Only all the parts that are registered are committed (catalog.py: "Only
\* when a manifest's expected part set exactly matches the registered parts").
ManifestIsComplete ==
    [][\A m \in (DOMAIN manifests') \ (DOMAIN manifests) :
        manifests'[m].parts = registered[BucketOfManifest(manifests'[m])]]_catalog

\* Only a quarantine moves the point a task resumes from back: no commit of
\* an older step and no restore verification does.
ResumeNeverRecedes ==
    [][\A s \in Scopes :
        ResumeStep(s)' < ResumeStep(s) => \E m \in DOMAIN manifests : Quarantine(m)]_catalog

\* A quarantined manifest is never selectable again (catalog.py, quarantine).
QuarantineIsForGood ==
    [][\A m \in DOMAIN manifests :
        manifests[m].validation = "invalid" => manifests'[m].validation = "invalid"]_catalog
=============================================================================
