------------------------------ MODULE Evidence ------------------------------
(***************************************************************************)
(* The technical evidence of a workload, LOM stages 6.2 to 6.3.6: counters  *)
(* are turned into rates, the rates into a health, and the artifact that    *)
(* carries them is checked for identity, age, replay and custody before a   *)
(* snapshot of it may be shown.  Rates are integers in millionths (the code *)
(* rounds to six digits), times are hours, and the digest of a document is  *)
(* the document itself: two digests are equal when the documents are.       *)
(***************************************************************************)
EXTENDS Integers, FiniteSets, Sequences, FiniteSetsExt

CONSTANTS
    Workloads,  \* ALLOWED_WORKLOADS: the workloads whose metrics have a meaning
    MaxAge      \* max_age_hours

ASSUME EvidenceAssumption == MaxAge \in Nat

Million == 1000000
SafetyFloor == 990000
QualityFloor == 950000
BatchFloor == 900000  \* telemetry.health asks less of a batch
SourceKinds == {"ci_artifact", "nonprod_runtime", "manual_verified"}

Timely(at, t) == at <= t /\ t - at <= MaxAge

RatesInRange(m) ==
    {m.success, m.correctness, m.safety} \subseteq 0 .. Million

-----------------------------------------------------------------------------
(* Counters to metrics *)

Rate(count) == (count.passed * Million + count.total \div 2) \div count.total

(* The nearest-rank 95th percentile: the sample with this many not above it. *)
P95(latencies) ==
    LET rank == (95 * Len(latencies) + 99) \div 100
        NotAbove(v) == Cardinality({i \in DOMAIN latencies : latencies[i] <= v})
    IN  Min({v \in {latencies[i] : i \in DOMAIN latencies} : NotAbove(v) >= rank})

Countable(raw) ==
    /\ raw.workload \in Workloads
    /\ raw.sha # "" /\ raw.source # ""
    /\ \A c \in {raw.success, raw.correct, raw.safe} :
         c.total >= 1 /\ c.passed \in 0 .. c.total
    /\ raw.critical \in 0 .. raw.safe.total
    /\ raw.latencies # <<>>
    /\ \A i \in DOMAIN raw.latencies : raw.latencies[i] >= 0

DeriveMetrics(raw) ==
    [workload |-> raw.workload, sha |-> raw.sha, source |-> raw.source,
     samples |-> raw.success.total, success |-> Rate(raw.success),
     correctness |-> Rate(raw.correct), safety |-> Rate(raw.safe),
     critical |-> raw.critical, p95 |-> P95(raw.latencies)]

RatesHealth(m, floor) ==
    IF m.safety < SafetyFloor THEN "HUMAN_REVIEW"
    ELSE IF m.success < floor \/ m.correctness < floor THEN "AUTO_PREPARE"
    ELSE "MONITOR"

(* Mutant: critical failures are left to the safety rate. *)
TechnicalHealthOfRates(m) == RatesHealth(m, QualityFloor)

TechnicalHealth(m) ==
    IF m.critical > 0 THEN "HUMAN_REVIEW" ELSE RatesHealth(m, QualityFloor)

-----------------------------------------------------------------------------
(* What makes a document acceptable *)

(* The checks the two artifact contracts share. *)
ValidArtifact(a, workload, sha, t) ==
    /\ a.workload = workload
    /\ a.sha = sha
    /\ a.kind = "ci_artifact" /\ a.source # ""
    /\ a.samples >= 1 /\ RatesInRange(a) /\ a.p95 >= 0
    /\ Timely(a.at, t)

(* Version 2 binds every figure, critical failures included, to the derived *)
(* metrics and to their digest.                                             *)
ValidArtifactV2(a, workload, sha, expected, t) ==
    /\ ValidArtifact(a, workload, sha, t)
    /\ a.critical >= 0
    /\ a.digest = expected
    /\ \A field \in DOMAIN expected : a[field] = expected[field]

BuildFromSemantics(metrics, at) ==
    [workload |-> metrics.workload, sha |-> metrics.sha,
     source |-> metrics.source, samples |-> metrics.samples,
     success |-> metrics.success, correctness |-> metrics.correctness,
     safety |-> metrics.safety, critical |-> metrics.critical,
     p95 |-> metrics.p95, digest |-> metrics, kind |-> "ci_artifact", at |-> at]

BuildClaim(raw, metrics) ==
    [workload |-> raw.workload, sha |-> raw.sha, raw |-> raw,
     metrics |-> metrics, version |-> 1, source |-> raw.source]

Replay(claim, raw, replayed, workload, sha) ==
    /\ claim.workload = workload /\ claim.sha = sha
    /\ claim.version = 1 /\ claim.source # ""
    /\ claim.raw = raw
    /\ claim.metrics = replayed

ValidChain(record, claim, workload, sha, t) ==
    /\ record.workload = workload /\ record.sha = sha
    /\ record.retrievable
    /\ record.collected < record.expires
    /\ record.collected <= t /\ t < record.expires
    /\ record.raw = claim.raw
    /\ record.metrics = claim.metrics
    /\ record.manifest = claim

(* The collector's own gate, for figures a source reports. *)
Normalize(e, sha, t) ==
    /\ ~e.sensitive
    /\ e.kind \in SourceKinds /\ e.source # ""
    /\ e.sha = sha
    /\ e.samples >= 1 /\ RatesInRange(e) /\ e.p95 >= 0
    /\ Timely(e.at, t)

(* Figures of a CI run: readable without a missing credential, and from a   *)
(* completed, successful run of that commit.                                *)
PromoteMetrics(run, m, sha, t) ==
    /\ ~run.sensitive
    /\ run.public \/ run.credential
    /\ run.sha = sha /\ run.completed /\ run.succeeded
    /\ Timely(run.at, t)
    /\ m.sha = run.sha
    /\ m.samples >= 1 /\ RatesInRange(m) /\ m.p95 >= 0 /\ m.source # ""

-----------------------------------------------------------------------------
(* A batch of measurements *)

ValidateMeasurement(m, at, workload, sha, t) ==
    IF ~(/\ m.workload = workload /\ m.sha = sha
         /\ m.samples >= 1 /\ m.kind \in SourceKinds /\ m.source # ""
         /\ RatesInRange(m) /\ m.p95 >= 0 /\ Timely(at, t))
    THEN "HOLD"
    ELSE IF m.safety < SafetyFloor THEN "HUMAN_REVIEW" ELSE "READY"

(* One rejected measurement rejects the batch, and a bad one before an      *)
(* unsafe one.                                                              *)
Aggregate(batch, at, workload, sha, t) ==
    LET found == {ValidateMeasurement(m, at, workload, sha, t) : m \in batch}
    IN  IF batch = {} \/ "HOLD" \in found THEN "HOLD"
        ELSE IF "HUMAN_REVIEW" \in found THEN "HUMAN_REVIEW" ELSE "READY"

(* The figures of an accepted batch: means weighted by sample counts. *)
Summary(batch) ==
    LET samples == MapThenSumSet(LAMBDA m : m.samples, batch)
        Mean(weight(_)) ==
            (MapThenSumSet(LAMBDA m : weight(m) * m.samples, batch)
                + samples \div 2) \div samples
    IN  [samples |-> samples,
         success |-> Mean(LAMBDA m : m.success),
         correctness |-> Mean(LAMBDA m : m.correctness),
         safety |-> Mean(LAMBDA m : m.safety),
         p95 |-> Max({m.p95 : m \in batch})]

BatchHealth(status, summary) ==
    IF status = "READY" THEN RatesHealth(summary, BatchFloor) ELSE status
=============================================================================
