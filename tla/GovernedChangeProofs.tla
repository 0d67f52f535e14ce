------------------------ MODULE GovernedChangeProofs ------------------------
(***************************************************************************)
(* Theorems about GovernedChange, for any evidence, proposals, consumers    *)
(* and bounds.                                                              *)
(*                                                                          *)
(* Two invariants.  GInv follows the documents: each stage's document is    *)
(* sound about the one before it, so that what a human signs and a consumer *)
(* takes to the ledger is a candidate promoted inside the boundary on safe  *)
(* evidence.  LInv is about the ledger alone: every prefix of it that       *)
(* verifies repeats nothing, and a consumer about to append examined some   *)
(* verified prefix and holds the digest of its tail; if its entry extends   *)
(* the chain, that prefix was the whole ledger, because the records of a    *)
(* prefix without repetition differ.                                        *)
(***************************************************************************)
EXTENDS GovernedChange, SequenceTheorems, TLAPS

\* A sandbox package on such evidence that passed.
Passed(sha, source) == [status |-> "PREPARE_PR", sha |-> sha, source |-> source]

SoundManifest(m, time) ==
    /\ m.candidate # Base
    /\ ~HumanBoundary(m)
    /\ m.package = Passed(m.sha, m.source)
    /\ SafeBy(m.source, time)

SoundReceipt(r, time) ==
    /\ r.decision \in Decisions
    /\ r.candidate = r.package.candidate
    /\ r.issued \in 0 .. time
    /\ SoundPackage(r.package, time)

Consuming(w) == consumer[w].stage # "idle"

\* The shapes that an action keeps; the ledger is a sequence of something.
Shape ==
    /\ clock \in 0 .. Horizon
    /\ change \in [candidate : 0 .. MaxPushes, proposal : Proposals]
    /\ consumer = [w \in Consumers |-> consumer[w]]
    /\ \A w \in Consumers : consumer[w].stage \in {"idle", "asked", "ready"}
    /\ \E S : ledger \in Seq(S)
    /\ Len(ledger) \in 0 .. MaxLedger

DocumentsSound ==
    /\ plan.status \in Statuses
    /\ PreparedFromSafeEvidence
    /\ package.status \in Statuses \ {"MONITOR"}
    /\ package.status = "PREPARE_PR" =>
         package = Passed(package.sha, package.source) /\ SafeBy(package.source, clock)
    /\ promoted.status \in Statuses \ {"MONITOR"}
    /\ promoted.status = "PREPARE_PR" => SoundManifest(promoted.manifest, clock)
    /\ decision.status \in {"HOLD", "READY_FOR_HUMAN_DECISION"}
    /\ OnlyBoundedChangesReachAHuman
    /\ \A r \in receipts : SoundReceipt(r, clock)

RequestsApproved ==
    \A w \in Consumers : Consuming(w) => Approved(consumer[w].request, receipts, clock)

GInv == Shape /\ DocumentsSound /\ RequestsApproved /\ ConsumedWasApproved

-----------------------------------------------------------------------------
(* Evidence *)

\* What was safe stays safe to have used.
LEMMA SafeGrows ==
  ASSUME NEW x, NEW c \in Int, NEW d \in Int, c <= d, SafeBy(x, c)
  PROVE  SafeBy(x, d)
BY SMT DEF SafeBy

LEMMA PackageGrows ==
  ASSUME NEW x, NEW c \in Int, NEW d \in Int, c <= d, SoundPackage(x, c)
  PROVE  SoundPackage(x, d)
BY SafeGrows DEF SoundPackage

LEMMA Numbers == Million \in Int /\ SafetyFloor \in Int
BY SMT DEF Million, SafetyFloor

\* An accepted reading of the evidence whose health asks for preparation was
\* safe, whichever way it came.
LEMMA AcceptedIsSafe ==
  ASSUME NEW s \in Sources, NEW t \in Int,
         EvidenceStatus(Collected[s], t) = "READY",
         EvidenceHealth(Collected[s], "READY") = "AUTO_PREPARE"
  PROVE  SafeEvidence(Collected[s], t)
<1> DEFINE b == Collected[s]
<1>0. b.path \in {"counted", "artifact", "source", "measured"}
  BY GovernedAssumption
<1>1. Accepted(b, t)
  BY DEF EvidenceStatus
<1>2. CASE b.path = "counted"
  <2>1. /\ Countable(b.raw)
        /\ ValidArtifactV2(b.artifact, b.workload, b.sha, DeriveMetrics(b.raw), t)
        /\ Replay(b.claim, b.raw, DeriveMetrics(b.raw), b.workload, b.sha)
        /\ ValidChain(b.custody, b.claim, b.workload, b.sha, t)
    BY <1>1, <1>2 DEF Accepted
  <2>2. TechnicalHealth(b.artifact) = "AUTO_PREPARE"
    BY <1>2 DEF EvidenceHealth
  <2>3. /\ b.artifact.safety = Rate(b.raw.safe)
        /\ b.artifact.critical = b.raw.critical
    <3>1. /\ "safety" \in DOMAIN DeriveMetrics(b.raw)
          /\ "critical" \in DOMAIN DeriveMetrics(b.raw)
          /\ DeriveMetrics(b.raw)["safety"] = Rate(b.raw.safe)
          /\ DeriveMetrics(b.raw)["critical"] = b.raw.critical
      BY DEF DeriveMetrics
    <3> QED
      BY <2>1, <3>1 DEF ValidArtifactV2
  <2>4. b.artifact.safety \in Int /\ b.artifact.critical \in Int
    <3>1. RatesInRange(b.artifact) /\ b.raw.critical \in 0 .. b.raw.safe.total
      BY <2>1 DEF ValidArtifactV2, ValidArtifact, Countable
    <3>2. b.artifact.safety \in 0 .. Million
      BY <3>1 DEF RatesInRange
    <3> QED
      BY <3>1, <3>2, <2>3, Numbers
  <2>5. b.raw.critical = 0 /\ Rate(b.raw.safe) >= SafetyFloor
    <3>1. b.raw.critical >= 0
      BY <2>1, <2>3 DEF ValidArtifactV2
    <3>2. ~(b.artifact.critical > 0) /\ ~(b.artifact.safety < SafetyFloor)
      BY <2>2 DEF TechnicalHealth, RatesHealth
    <3> QED
      BY <2>3, <2>4, <3>1, <3>2, Numbers
  <2>6. /\ b.claim.raw = b.raw /\ b.custody.raw = b.raw
        /\ Timely(b.artifact.at, t)
    BY <2>1 DEF Replay, ValidChain, ValidArtifactV2, ValidArtifact
  <2>7. t < b.custody.expires
    BY <2>1 DEF ValidChain
  <2> QED
    BY <1>2, <2>5, <2>6, <2>7 DEF SafeEvidence
<1>3. CASE b.path = "artifact"
  <2>1. ValidArtifact(b.artifact, b.workload, b.sha, t)
    BY <1>1, <1>3 DEF Accepted
  <2>2. ~(b.artifact.safety < SafetyFloor)
    BY <1>3 DEF EvidenceHealth, Figures, RatesHealth
  <2>3. b.artifact.safety \in 0 .. Million /\ Timely(b.artifact.at, t)
    BY <2>1 DEF ValidArtifact, RatesInRange
  <2> QED
    BY <1>3, <2>2, <2>3, Numbers DEF SafeEvidence
<1>4. CASE b.path = "source"
  <2>1. Normalize(b.reported, b.sha, t)
    BY <1>1, <1>4 DEF Accepted
  <2>2. ~(b.reported.safety < SafetyFloor)
    BY <1>4 DEF EvidenceHealth, Figures, RatesHealth
  <2>3. b.reported.safety \in 0 .. Million /\ Timely(b.reported.at, t)
    BY <2>1 DEF Normalize, RatesInRange
  <2> QED
    BY <1>4, <2>2, <2>3, Numbers DEF SafeEvidence
<1>5. CASE b.path = "measured"
  <2>1. \A m \in b.batch : PromoteMetrics(b.run, m, b.sha, t)
    BY <1>1, <1>5 DEF Accepted
  <2>2. Aggregate(b.batch, b.run.at, b.workload, b.sha, t) = "READY"
    BY <1>1, <1>5 DEF EvidenceStatus
  <2>3. ASSUME NEW m \in b.batch
        PROVE  m.safety >= SafetyFloor
    <3>1. ValidateMeasurement(m, b.run.at, b.workload, b.sha, t) \notin {"HOLD", "HUMAN_REVIEW"}
      BY <2>2 DEF Aggregate
    <3>2. RatesInRange(m) /\ ~(m.safety < SafetyFloor)
      BY <3>1 DEF ValidateMeasurement
    <3>3. m.safety \in 0 .. Million
      BY <3>2 DEF RatesInRange
    <3> QED
      BY <3>2, <3>3, Numbers
  <2>4. b.run.succeeded /\ Timely(b.run.at, t)
    <3>1. b.batch # {}
      BY <2>2 DEF Aggregate
    <3> QED
      BY <2>1, <3>1 DEF PromoteMetrics
  <2> QED
    BY <1>5, <2>3, <2>4 DEF SafeEvidence
<1> QED
  BY <1>0, <1>2, <1>3, <1>4, <1>5

\* A plan to prepare was made of a card of safe evidence, inside the boundary.
LEMMA PreparedPlan ==
  ASSUME NEW s \in Sources, NEW t \in Int, NEW p,
         BuildPlan(WorkloadCard(Snapshot(Collected[s], t)), p).status = "PREPARE_PR"
  PROVE  LET made == BuildPlan(WorkloadCard(Snapshot(Collected[s], t)), p)
         IN  /\ made.card.source = s /\ made.proposal = p
             /\ SafeEvidence(Collected[s], t)
             /\ ~HumanBoundary(p) /\ p.reversible
<1> DEFINE shot == Snapshot(Collected[s], t)
           card == WorkloadCard(shot)
<1>1. ClassifyRemediation(card, p) = "PREPARE_PR"
  BY DEF BuildPlan, Closed
<1>2. /\ BuildPlan(card, p).card = card
      /\ BuildPlan(card, p).proposal = p
  BY <1>1 DEF BuildPlan
<1>3. card.source = s
  BY GovernedAssumption DEF WorkloadCard, Snapshot
<1>4. ClassifySignal(card) = "AUTO_PREPARE" \/ ClassifySignal(card) = "PREPARE_PR"
  BY <1>1 DEF ClassifyRemediation
<1>5. card.action = "AUTO_PREPARE"
  BY <1>4 DEF ClassifySignal, Classes
<1>6. shot.status = "READY" /\ shot.health = "AUTO_PREPARE"
  BY <1>5 DEF WorkloadCard, ClassifySnapshot
<1>7. /\ EvidenceStatus(Collected[s], t) = "READY"
      /\ EvidenceHealth(Collected[s], "READY") = "AUTO_PREPARE"
  BY <1>6 DEF Snapshot
<1>8. SafeEvidence(Collected[s], t)
  BY <1>7, AcceptedIsSafe
<1>9. ~HumanBoundary(p) /\ p.reversible
  BY <1>1 DEF ClassifyRemediation
<1> QED
  BY <1>2, <1>3, <1>8, <1>9

-----------------------------------------------------------------------------
(* Documents *)

LEMMA ManifestGrows ==
  ASSUME NEW m, NEW c \in Int, NEW d \in Int, c <= d, SoundManifest(m, c)
  PROVE  SoundManifest(m, d)
BY SafeGrows DEF SoundManifest

LEMMA ReceiptGrows ==
  ASSUME NEW r, NEW c \in Int, NEW d \in Int, c <= d, SoundReceipt(r, c)
  PROVE  SoundReceipt(r, d)
BY PackageGrows DEF SoundReceipt

LEMMA ApprovedGrows ==
  ASSUME NEW q, NEW old, NEW new, NEW c \in Int, NEW d \in Int, c <= d,
         old \subseteq new, Approved(q, old, c)
  PROVE  Approved(q, new, d)
BY PackageGrows DEF Approved

\* A promotion that may be prepared rests on a validated package.
LEMMA PromotionSound ==
  ASSUME NEW c, NEW v, NEW time,
         ValidatePromotion(Manifest(Base, c, v)) = "PREPARE_PR",
         v.status = "PREPARE_PR" => v = Passed(v.sha, v.source) /\ SafeBy(v.source, time)
  PROVE  SoundManifest(Manifest(Base, c, v), time)
<1> DEFINE m == Manifest(Base, c, v)
<1>1. /\ m.base # m.candidate /\ m.validation = "PREPARE_PR"
      /\ ~HumanBoundary(m)
  BY DEF ValidatePromotion
<1>2. /\ m.base = Base /\ m.validation = v.status /\ m.package = v
      /\ m.sha = v.sha /\ m.source = v.source
  BY DEF Manifest
<1> QED
  BY <1>1, <1>2 DEF SoundManifest

\* A decision package that is not on hold is for the promoted manifest, and
\* no human boundary is left for it to report.
LEMMA DecisionSound ==
  ASSUME NEW req, NEW status, NEW m, NEW digest, NEW ready, NEW time,
         SoundManifest(digest, time),
         ClassifyDecision(req, status, m, digest, ready) # "HOLD"
  PROVE  /\ ClassifyDecision(req, status, m, digest, ready) = "READY_FOR_HUMAN_DECISION"
         /\ m = digest /\ req.candidate = m.candidate
<1>1. ManifestMatchesRequest(m, req) /\ m = digest
  BY DEF ClassifyDecision
<1>2. ~HumanBoundary(m)
  BY <1>1 DEF SoundManifest
<1>3. ~HumanBoundary(req)
  BY <1>1, <1>2 DEF HumanBoundary, ManifestMatchesRequest
<1> QED
  BY <1>1, <1>3 DEF ClassifyDecision, ManifestMatchesRequest

LEMMA PlanStatus ==
  ASSUME NEW card, NEW p
  PROVE  BuildPlan(card, p).status \in Statuses
<1>1. ClassifySignal(card) \in Classes
  BY DEF ClassifySignal, Classes
<1>2. ClassifyRemediation(card, p) \in Statuses
  BY <1>1 DEF ClassifyRemediation, Statuses, Classes
<1> QED
  BY <1>2 DEF BuildPlan, Closed

\* The consumers and the ledger keep what they have when the clock moves on
\* or another receipt is signed.
LEMMA RequestsKept ==
  ASSUME GInv, clock' \in Int, clock <= clock', receipts \subseteq receipts',
         UNCHANGED <<consumer, ledger>>
  PROVE  RequestsApproved' /\ ConsumedWasApproved'
<1>1. clock \in Int
  BY DEF GInv, Shape
<1>2. ASSUME NEW w \in Consumers, Consuming(w)'
      PROVE  Approved(consumer[w].request, receipts, clock)'
  <2>1. Approved(consumer[w].request, receipts, clock)
    BY <1>2 DEF GInv, RequestsApproved, Consuming
  <2>2. Approved(consumer[w].request, receipts', clock')
    BY <1>1, <2>1, ApprovedGrows
  <2> QED
    BY <2>2
<1>3. ASSUME NEW i \in 1 .. Len(ledger)
      PROVE  Approved(ledger[i].request, receipts', clock')
  <2>1. Approved(ledger[i].request, receipts, clock)
    BY DEF GInv, ConsumedWasApproved
  <2> QED
    BY <1>1, <2>1, ApprovedGrows
<1> QED
  BY <1>2, <1>3 DEF RequestsApproved, ConsumedWasApproved

LEMMA GInit == Init => GInv
<1> SUFFICES ASSUME Init PROVE GInv
  OBVIOUS
<1>1. ledger \in Seq({}) /\ Len(ledger) = 0
  BY DEF Init
<1>2. Shape
  <2>1. clock \in 0 .. Horizon
    BY GovernedAssumption DEF Init
  <2>2. change \in [candidate : 0 .. MaxPushes, proposal : Proposals]
    BY GovernedAssumption DEF Init, Base
  <2>3. /\ consumer = [w \in Consumers |-> consumer[w]]
        /\ \A w \in Consumers : consumer[w].stage \in {"idle", "asked", "ready"}
    BY DEF Init, Idle
  <2> QED
    BY <1>1, <2>1, <2>2, <2>3, GovernedAssumption DEF Shape
<1>3. DocumentsSound
  BY DEF Init, DocumentsSound, PreparedFromSafeEvidence,
         OnlyBoundedChangesReachAHuman, Closed, NoEvidence, Statuses
<1>4. RequestsApproved /\ ConsumedWasApproved
  BY <1>1 DEF Init, RequestsApproved, Consuming, Idle, ConsumedWasApproved
<1> QED
  BY <1>2, <1>3, <1>4 DEF GInv

LEMMA GPlan == GInv /\ Plan => GInv'
<1> SUFFICES ASSUME GInv, Plan PROVE GInv'
  OBVIOUS
<1> USE DEF Plan
<1>0. clock \in Int
  BY DEF GInv, Shape
<1>1. Shape'
  BY DEF GInv, Shape
<1>2. plan'.status \in Statuses /\ PreparedFromSafeEvidence'
  <2>1. PICK made \in Plans : made.taken <= clock /\ plan' = made.plan
    OBVIOUS
  <2>2. PICK s \in Sources, t \in 0 .. Horizon, p \in Proposals :
          made = [taken |-> t, proposal |-> p,
                  plan |-> BuildPlan(WorkloadCard(Snapshot(Collected[s], t)), p)]
    BY DEF Plans
  <2>3. t \in 0 .. clock /\ t \in Int
    BY <1>0, <2>1, <2>2, GovernedAssumption
  <2>4. plan' = BuildPlan(WorkloadCard(Snapshot(Collected[s], t)), p)
    BY <2>1, <2>2
  <2>5. ASSUME plan'.status = "PREPARE_PR"
        PROVE  /\ SafeBy(plan'.card.source, clock')
               /\ ~HumanBoundary(plan'.proposal) /\ plan'.proposal.reversible
    <3>1. /\ plan'.card.source = s /\ plan'.proposal = p
          /\ SafeEvidence(Collected[s], t)
          /\ ~HumanBoundary(p) /\ p.reversible
      BY <2>3, <2>4, <2>5, PreparedPlan
    <3> QED
      BY <2>3, <3>1 DEF SafeBy
  <2> QED
    BY <2>4, <2>5, PlanStatus DEF PreparedFromSafeEvidence
<1>3. DocumentsSound'
  BY <1>2 DEF GInv, DocumentsSound, OnlyBoundedChangesReachAHuman
<1>4. RequestsApproved' /\ ConsumedWasApproved'
  BY <1>0, RequestsKept
<1> QED
  BY <1>1, <1>3, <1>4 DEF GInv

LEMMA GPush == GInv /\ Push => GInv'
<1> SUFFICES ASSUME GInv, Push PROVE GInv'
  OBVIOUS
<1> USE DEF Push
<1>0. clock \in Int
  BY DEF GInv, Shape
<1>1. change' \in [candidate : 0 .. MaxPushes, proposal : Proposals]
  BY GovernedAssumption DEF GInv, Shape
<1>2. Shape'
  BY <1>1 DEF GInv, Shape
<1>3. DocumentsSound'
  BY DEF GInv, DocumentsSound, PreparedFromSafeEvidence, OnlyBoundedChangesReachAHuman
<1>4. RequestsApproved' /\ ConsumedWasApproved'
  BY <1>0, RequestsKept
<1> QED
  BY <1>2, <1>3, <1>4 DEF GInv

LEMMA GValidate == GInv /\ Validate => GInv'
<1> SUFFICES ASSUME GInv, Validate PROVE GInv'
  OBVIOUS
<1> USE DEF Validate
<1>0. clock \in Int
  BY DEF GInv, Shape
<1>1. SafeBy(plan.card.source, clock)
  BY DEF GInv, DocumentsSound, PreparedFromSafeEvidence
<1>2. /\ package'.status \in Statuses \ {"MONITOR"}
      /\ package'.status = "PREPARE_PR" =>
           /\ package' = Passed(package'.sha, package'.source)
           /\ SafeBy(package'.source, clock)
  <2>1. PICK trial \in Trials :
          LET status == ValidateSandbox(plan.card, change.proposal, trial)
          IN  package' = IF status = "PREPARE_PR"
                         THEN [status |-> status, sha |-> plan.card.sha,
                               source |-> plan.card.source]
                         ELSE NoEvidence(status)
    OBVIOUS
  <2>2. ValidateSandbox(plan.card, change.proposal, trial) \in Statuses \ {"MONITOR"}
    BY DEF ValidateSandbox, Statuses
  <2> QED
    BY <1>1, <2>1, <2>2 DEF NoEvidence, Passed
<1>3. Shape'
  BY DEF GInv, Shape
<1>4. DocumentsSound'
  BY <1>2 DEF GInv, DocumentsSound, PreparedFromSafeEvidence, OnlyBoundedChangesReachAHuman
<1>5. RequestsApproved' /\ ConsumedWasApproved'
  BY <1>0, RequestsKept
<1> QED
  BY <1>3, <1>4, <1>5 DEF GInv

LEMMA GPromote == GInv /\ Promote => GInv'
<1> SUFFICES ASSUME GInv, Promote PROVE GInv'
  OBVIOUS
<1> USE DEF Promote
<1>0. clock \in Int
  BY DEF GInv, Shape
<1>1. /\ promoted'.status \in Statuses \ {"MONITOR"}
      /\ promoted'.status = "PREPARE_PR" => SoundManifest(promoted'.manifest, clock)
  <2> DEFINE m == Manifest(Base, change, package)
  <2>1. promoted' = IF ValidatePromotion(m) = "PREPARE_PR"
                    THEN [status |-> ValidatePromotion(m), manifest |-> m]
                    ELSE Closed(ValidatePromotion(m))
    OBVIOUS
  <2>2. ValidatePromotion(m) \in Statuses \ {"MONITOR"}
    BY DEF ValidatePromotion, Statuses
  <2>3. package.status = "PREPARE_PR" =>
          package = Passed(package.sha, package.source) /\ SafeBy(package.source, clock)
    BY DEF GInv, DocumentsSound
  <2>4. ValidatePromotion(m) = "PREPARE_PR" => SoundManifest(m, clock)
    BY <2>3, PromotionSound
  <2> HIDE DEF m
  <2> QED
    BY <2>1, <2>2, <2>4 DEF Closed
<1>2. Shape'
  BY DEF GInv, Shape
<1>3. DocumentsSound'
  BY <1>1 DEF GInv, DocumentsSound, PreparedFromSafeEvidence, OnlyBoundedChangesReachAHuman
<1>4. RequestsApproved' /\ ConsumedWasApproved'
  BY <1>0, RequestsKept
<1> QED
  BY <1>2, <1>3, <1>4 DEF GInv

LEMMA GDecide == GInv /\ Decide => GInv'
<1> SUFFICES ASSUME GInv, Decide PROVE GInv'
  OBVIOUS
<1> USE DEF Decide
<1>0. clock \in Int
  BY DEF GInv, Shape
<1>1. SoundManifest(promoted.manifest, clock)
  BY DEF GInv, DocumentsSound
<1>2. /\ decision'.status \in {"HOLD", "READY_FOR_HUMAN_DECISION"}
      /\ decision'.status # "HOLD" => SoundPackage(decision', clock)
  <2> DEFINE req == [base |-> Base, candidate |-> change.candidate,
                     sha |-> promoted.manifest.sha, source |-> promoted.manifest.source,
                     target |-> change.proposal.target, risk |-> change.proposal.risk,
                     production |-> change.proposal.production]
             status(m, ready) ==
               ClassifyDecision(req, promoted.status, m, promoted.manifest, ready)
  <2>1. PICK m \in {promoted.manifest, Manifest(Base, change, package)}, ready \in BOOLEAN :
          decision' = IF status(m, ready) = "HOLD" THEN Closed(status(m, ready))
                      ELSE [status |-> status(m, ready), candidate |-> req.candidate,
                            manifest |-> m]
    OBVIOUS
  <2>2. status(m, ready) # "HOLD" =>
          /\ status(m, ready) = "READY_FOR_HUMAN_DECISION"
          /\ m = promoted.manifest /\ req.candidate = m.candidate
    BY <1>1, DecisionSound
  <2> HIDE DEF status, req
  <2>3. CASE status(m, ready) = "HOLD"
    BY <2>1, <2>3 DEF Closed
  <2>4. CASE status(m, ready) # "HOLD"
    <3>1. decision' = [status |-> "READY_FOR_HUMAN_DECISION", candidate |-> m.candidate,
                       manifest |-> m]
      BY <2>1, <2>2, <2>4
    <3>2. SoundManifest(m, clock)
      BY <1>1, <2>2, <2>4
    <3> QED
      BY <3>1, <3>2 DEF SoundPackage, SoundManifest, Passed
  <2> QED
    BY <2>3, <2>4
<1>3. Shape'
  BY DEF GInv, Shape
<1>4. DocumentsSound'
  BY <1>2 DEF GInv, DocumentsSound, PreparedFromSafeEvidence, OnlyBoundedChangesReachAHuman
<1>5. RequestsApproved' /\ ConsumedWasApproved'
  BY <1>0, RequestsKept
<1> QED
  BY <1>3, <1>4, <1>5 DEF GInv

LEMMA GSign == GInv /\ Sign => GInv'
<1> SUFFICES ASSUME GInv, Sign PROVE GInv'
  OBVIOUS
<1> USE DEF Sign
<1>0. clock \in Int /\ clock \in 0 .. clock
  BY GovernedAssumption DEF GInv, Shape
<1>1. PICK word \in Words, life \in Lifetimes :
        receipts' = receipts \union {Receipt(word, life)}
  OBVIOUS
<1>2. SoundReceipt(Receipt(word, life), clock)
  <2>1. SoundPackage(decision, clock)
    BY DEF GInv, DocumentsSound, OnlyBoundedChangesReachAHuman
  <2>2. word \in Decisions
    BY GovernedAssumption DEF Decisions
  <2> QED
    BY <1>0, <2>1, <2>2 DEF SoundReceipt, Receipt
<1>3. Shape'
  BY DEF GInv, Shape
<1>4. \A r \in receipts' : SoundReceipt(r, clock)
  BY <1>1, <1>2 DEF GInv, DocumentsSound
<1>5. DocumentsSound'
  BY <1>4 DEF GInv, DocumentsSound, PreparedFromSafeEvidence, OnlyBoundedChangesReachAHuman
<1>6. RequestsApproved' /\ ConsumedWasApproved'
  BY <1>0, <1>1, RequestsKept
<1> QED
  BY <1>3, <1>5, <1>6 DEF GInv

LEMMA GTick == GInv /\ Tick => GInv'
<1> SUFFICES ASSUME GInv, Tick PROVE GInv'
  OBVIOUS
<1> USE DEF Tick
<1>0. clock \in Int /\ clock' \in Int /\ clock <= clock' /\ clock' \in 0 .. Horizon
  BY GovernedAssumption DEF GInv, Shape
<1>1. Shape'
  BY <1>0 DEF GInv, Shape
<1>2. PreparedFromSafeEvidence'
  BY <1>0, SafeGrows DEF GInv, DocumentsSound, PreparedFromSafeEvidence
<1>3. package.status = "PREPARE_PR" => SafeBy(package.source, clock')
  BY <1>0, SafeGrows DEF GInv, DocumentsSound
<1>4. promoted.status = "PREPARE_PR" => SoundManifest(promoted.manifest, clock')
  BY <1>0, ManifestGrows DEF GInv, DocumentsSound
<1>5. OnlyBoundedChangesReachAHuman'
  BY <1>0, PackageGrows DEF GInv, DocumentsSound, OnlyBoundedChangesReachAHuman
<1>6. \A r \in receipts : SoundReceipt(r, clock')
  BY <1>0, ReceiptGrows DEF GInv, DocumentsSound
<1>7. DocumentsSound'
  BY <1>2, <1>3, <1>4, <1>5, <1>6 DEF GInv, DocumentsSound
<1>8. RequestsApproved' /\ ConsumedWasApproved'
  BY <1>0, RequestsKept
<1> QED
  BY <1>1, <1>7, <1>8 DEF GInv

\* A consumer's step leaves the documents alone.
LEMMA DocumentsKept ==
  ASSUME DocumentsSound,
         UNCHANGED <<clock, change, plan, package, promoted, decision, receipts>>
  PROVE  DocumentsSound'
BY DEF DocumentsSound, PreparedFromSafeEvidence, OnlyBoundedChangesReachAHuman

\* One consumer moves on with an approved request, or to rest.
LEMMA ConsumerMoves ==
  ASSUME GInv, NEW w \in Consumers, NEW next,
         consumer' = [consumer EXCEPT ![w] = next],
         next.stage \in {"idle", "asked", "ready"},
         next.stage # "idle" => Approved(next.request, receipts, clock),
         UNCHANGED <<clock, change, plan, package, promoted, decision, receipts>>
  PROVE  /\ DocumentsSound' /\ RequestsApproved'
         /\ consumer' = [v \in Consumers |-> consumer'[v]]
         /\ \A v \in Consumers : consumer'[v].stage \in {"idle", "asked", "ready"}
<1>1. /\ consumer = [v \in Consumers |-> consumer[v]]
      /\ \A v \in Consumers : consumer[v].stage \in {"idle", "asked", "ready"}
  BY DEF GInv, Shape
<1>2. /\ consumer' = [v \in Consumers |-> consumer'[v]]
      /\ \A v \in Consumers : consumer'[v] = IF v = w THEN next ELSE consumer[v]
  BY <1>1
<1>3. \A v \in Consumers : consumer'[v].stage \in {"idle", "asked", "ready"}
  BY <1>1, <1>2
<1>4. RequestsApproved'
  <2> SUFFICES ASSUME NEW v \in Consumers, consumer'[v].stage # "idle"
               PROVE  Approved(consumer'[v].request, receipts, clock)
    BY DEF RequestsApproved, Consuming
  <2>1. CASE v = w
    BY <1>2, <2>1
  <2>2. CASE v # w
    BY <1>2, <2>2 DEF GInv, RequestsApproved, Consuming
  <2> QED
    BY <2>1, <2>2
<1> QED
  BY <1>2, <1>3, <1>4, DocumentsKept DEF GInv

LEMMA GPresent == ASSUME NEW w \in Consumers PROVE GInv /\ Present(w) => GInv'
<1> SUFFICES ASSUME GInv, Present(w) PROVE GInv'
  OBVIOUS
<1>1. PICK r \in receipts, key \in Keys,
           known \in {{}, {ledger[i].request.nonce : i \in 1 .. Len(ledger)}} :
         /\ ValidReceipt(r, change.candidate, decision, clock, known)
         /\ r.decision = "APPROVE"
         /\ consumer' = [consumer EXCEPT ![w] =
              [stage |-> "asked",
               request |-> [receipt |-> r, candidate |-> r.candidate, nonce |-> r.nonce,
                            status |-> "APPROVED_FOR_BOUND_ACTION", key |-> key,
                            consumed |-> clock]]]
  BY DEF Present
<1> DEFINE q == [receipt |-> r, candidate |-> r.candidate, nonce |-> r.nonce,
                 status |-> "APPROVED_FOR_BOUND_ACTION", key |-> key,
                 consumed |-> clock]
           next == [stage |-> "asked", request |-> q]
<1>2. Approved(q, receipts, clock)
  <2>1. clock \in 0 .. clock
    BY GovernedAssumption DEF GInv, Shape
  <2>2. SoundReceipt(r, clock)
    BY DEF GInv, DocumentsSound
  <2>3. r.issued <= clock /\ clock < r.expires
    BY <1>1 DEF ValidReceipt
  <2> QED
    BY <1>1, <2>1, <2>2, <2>3 DEF Approved, SoundReceipt
<1>3. /\ consumer' = [consumer EXCEPT ![w] = next]
      /\ next.stage = "asked" /\ next.request = q
  BY <1>1
<1>4. UNCHANGED <<clock, change, plan, package, promoted, decision, receipts, ledger>>
  BY DEF Present
<1> HIDE DEF next, q
<1>5. /\ DocumentsSound' /\ RequestsApproved'
      /\ consumer' = [v \in Consumers |-> consumer'[v]]
      /\ \A v \in Consumers : consumer'[v].stage \in {"idle", "asked", "ready"}
  BY <1>2, <1>3, <1>4, ConsumerMoves
<1> QED
  BY <1>4, <1>5 DEF GInv, Shape, ConsumedWasApproved

LEMMA GExamine == ASSUME NEW w \in Consumers PROVE GInv /\ Examine(w) => GInv'
<1> SUFFICES ASSUME GInv, Examine(w) PROVE GInv'
  OBVIOUS
<1> DEFINE q == consumer[w].request
           next == IF ReadyToAppend(q, ledger, clock)
                   THEN [stage |-> "ready", request |-> q,
                         previous |-> TailDigest(ledger, Len(ledger))]
                   ELSE Idle
<1>1. Approved(q, receipts, clock)
  BY DEF GInv, RequestsApproved, Consuming, Examine
<1>2. consumer' = [consumer EXCEPT ![w] = next]
  BY DEF Examine, GInv, Shape
<1>3. /\ next.stage \in {"idle", "asked", "ready"}
      /\ next.stage # "idle" => next.request = q
  BY DEF Idle
<1>4. UNCHANGED <<clock, change, plan, package, promoted, decision, receipts, ledger>>
  BY DEF Examine
<1> HIDE DEF next, q
<1>5. /\ DocumentsSound' /\ RequestsApproved'
      /\ consumer' = [v \in Consumers |-> consumer'[v]]
      /\ \A v \in Consumers : consumer'[v].stage \in {"idle", "asked", "ready"}
  BY <1>1, <1>2, <1>3, <1>4, ConsumerMoves
<1> QED
  BY <1>4, <1>5 DEF GInv, Shape, ConsumedWasApproved

LEMMA GCrash == ASSUME NEW w \in Consumers PROVE GInv /\ Crash(w) => GInv'
<1> SUFFICES ASSUME GInv, Crash(w) PROVE GInv'
  OBVIOUS
<1>1. /\ consumer' = [consumer EXCEPT ![w] = Idle]
      /\ Idle.stage = "idle"
      /\ UNCHANGED <<clock, change, plan, package, promoted, decision, receipts, ledger>>
  BY DEF Crash, Idle
<1>2. /\ DocumentsSound' /\ RequestsApproved'
      /\ consumer' = [v \in Consumers |-> consumer'[v]]
      /\ \A v \in Consumers : consumer'[v].stage \in {"idle", "asked", "ready"}
  BY <1>1, ConsumerMoves
<1> QED
  BY <1>1, <1>2 DEF GInv, Shape, ConsumedWasApproved

\* What an appended sequence holds, whatever its elements are.
LEMMA Appended ==
  ASSUME NEW S, NEW s \in Seq(S), NEW e
  PROVE  /\ \E T : Append(s, e) \in Seq(T)
         /\ Len(Append(s, e)) = Len(s) + 1
         /\ \A i \in 1 .. Len(s) : Append(s, e)[i] = s[i]
         /\ Append(s, e)[Len(s) + 1] = e
<1> DEFINE T == S \union {e}
<1>1. s \in Seq(T) /\ e \in T
  OBVIOUS
<1> QED
  BY <1>1, AppendProperties

LEMMA GAppend == ASSUME NEW w \in Consumers PROVE GInv /\ AppendEntry(w) => GInv'
<1> SUFFICES ASSUME GInv, AppendEntry(w) PROVE GInv'
  OBVIOUS
<1> DEFINE e == LedgerEntry(consumer[w].request, consumer[w].previous)
<1>1. /\ consumer' = [consumer EXCEPT ![w] = Idle]
      /\ Idle.stage = "idle"
      /\ ledger' = Append(ledger, e) /\ Len(ledger) < MaxLedger
      /\ UNCHANGED <<clock, change, plan, package, promoted, decision, receipts>>
  BY DEF AppendEntry, Idle
<1>2. /\ DocumentsSound' /\ RequestsApproved'
      /\ consumer' = [v \in Consumers |-> consumer'[v]]
      /\ \A v \in Consumers : consumer'[v].stage \in {"idle", "asked", "ready"}
  BY <1>1, ConsumerMoves
<1>3. PICK S : ledger \in Seq(S)
  BY DEF GInv, Shape
<1>4. /\ \E T : ledger' \in Seq(T)
      /\ Len(ledger') = Len(ledger) + 1
      /\ \A i \in 1 .. Len(ledger) : ledger'[i] = ledger[i]
      /\ ledger'[Len(ledger) + 1] = e
  <2> HIDE DEF e
  <2>1. /\ \E T : Append(ledger, e) \in Seq(T)
        /\ Len(Append(ledger, e)) = Len(ledger) + 1
        /\ \A i \in 1 .. Len(ledger) : Append(ledger, e)[i] = ledger[i]
        /\ Append(ledger, e)[Len(ledger) + 1] = e
    BY <1>3, Appended
  <2> QED
    BY <1>1, <2>1, Zenon
<1>5. Approved(e.request, receipts, clock)
  BY DEF GInv, RequestsApproved, Consuming, AppendEntry, LedgerEntry
<1>6. Len(ledger) \in Nat
  BY <1>3
<1>7. ConsumedWasApproved'
  <2> SUFFICES ASSUME NEW i \in 1 .. Len(ledger')
               PROVE  Approved(ledger'[i].request, receipts, clock)
    BY <1>1 DEF ConsumedWasApproved
  <2>1. CASE i \in 1 .. Len(ledger)
    BY <1>4, <2>1 DEF GInv, ConsumedWasApproved
  <2>2. CASE i = Len(ledger) + 1
    BY <1>4, <1>5, <2>2
  <2> QED
    BY <1>4, <1>6, <2>1, <2>2
<1>8. Shape'
  <2>1. Len(ledger') \in 0 .. MaxLedger
    BY <1>1, <1>4, <1>6, GovernedAssumption
  <2> QED
    BY <1>1, <1>2, <1>4, <2>1 DEF GInv, Shape
<1> QED
  BY <1>2, <1>7, <1>8 DEF GInv

LEMMA GNext == GInv /\ [Next]_vars => GInv'
<1> SUFFICES ASSUME GInv, [Next]_vars PROVE GInv'
  OBVIOUS
<1>1. CASE UNCHANGED vars
  BY <1>1 DEF vars, GInv, Shape, DocumentsSound, PreparedFromSafeEvidence,
              OnlyBoundedChangesReachAHuman, RequestsApproved, Consuming,
              ConsumedWasApproved
<1>2. CASE Plan \/ Push \/ Validate \/ Promote \/ Decide \/ Sign \/ Tick
  BY <1>2, GPlan, GPush, GValidate, GPromote, GDecide, GSign, GTick
<1>3. CASE \E w \in Consumers : Present(w) \/ Examine(w) \/ AppendEntry(w) \/ Crash(w)
  BY <1>3, GPresent, GExamine, GAppend, GCrash
<1> QED
  BY <1>1, <1>2, <1>3 DEF Next

\* The documents of a change agree with each other in every reachable state.
THEOREM GoverningSound == Spec => []GInv
BY GInit, GNext, PTL DEF Spec

-----------------------------------------------------------------------------
(* The ledger *)

NoRepeat(n) ==
    \A i, j \in 1 .. n : i # j => ~Collides(ledger[i].request, ledger[j].request)

\* A consumer about to append examined some verified prefix of the ledger.
Examined(w) ==
    \E n \in 0 .. Len(ledger) :
        /\ VerifyLedgerChain(ledger, n)
        /\ consumer[w].previous = TailDigest(ledger, n)
        /\ \A i \in 1 .. n : ~Collides(consumer[w].request, ledger[i].request)

LInv ==
    /\ \A n \in 0 .. Len(ledger) : VerifyLedgerChain(ledger, n) => NoRepeat(n)
    /\ \A w \in Consumers : consumer[w].stage = "ready" => Examined(w)

LEMMA PairIsNotEmpty == ASSUME NEW a, NEW b PROVE <<a, b>> # <<>>
<1>1. Len(<<a, b>>) = 2 /\ Len(<<>>) = 0
  OBVIOUS
<1> QED
  BY <1>1

\* Two tails of a verified prefix without repetition are the same tail.
LEMMA TailsDiffer ==
  ASSUME NEW n \in Nat, NEW k \in 0 .. n,
         VerifyLedgerChain(ledger, n), NoRepeat(n),
         TailDigest(ledger, k) = TailDigest(ledger, n)
  PROVE  k = n
<1>1. \A i \in 1 .. n :
        TailDigest(ledger, i) = <<ledger[i].request, ledger[i].previous>>
  BY DEF VerifyLedgerChain, TailDigest, RecordDigest
<1>2. CASE k = 0 /\ n # 0
  <2>1. TailDigest(ledger, k) = <<>>
    BY <1>2 DEF TailDigest
  <2>2. TailDigest(ledger, n) = <<ledger[n].request, ledger[n].previous>>
    BY <1>1, <1>2
  <2> QED
    BY <2>1, <2>2, PairIsNotEmpty
<1>3. CASE k # 0 /\ k # n
  <2>1. k \in 1 .. n /\ n \in 1 .. n
    BY <1>3
  <2>2. ledger[k].request = ledger[n].request
    BY <1>1, <2>1
  <2> QED
    BY <1>3, <2>1, <2>2 DEF NoRepeat, Collides
<1> QED
  BY <1>2, <1>3

LEMMA LInit == Init => LInv
BY DEF Init, LInv, VerifyLedgerChain, NoRepeat, Idle

LEMMA LExamine == ASSUME NEW w \in Consumers PROVE Shape /\ LInv /\ Examine(w) => LInv'
<1> SUFFICES ASSUME Shape, LInv, Examine(w) PROVE LInv'
  OBVIOUS
<1> DEFINE q == consumer[w].request
<1>0. ledger' = ledger /\ Len(ledger) \in Nat
  BY DEF Examine, Shape
<1>1. /\ consumer = [v \in Consumers |-> consumer[v]]
      /\ consumer' = [consumer EXCEPT ![w] =
           IF ReadyToAppend(q, ledger, clock)
           THEN [stage |-> "ready", request |-> q,
                 previous |-> TailDigest(ledger, Len(ledger))]
           ELSE Idle]
  BY DEF Examine, Shape
<1>2. ASSUME NEW v \in Consumers, consumer'[v].stage = "ready"
      PROVE  Examined(v)'
  <2>1. CASE v # w
    <3>1. consumer'[v] = consumer[v]
      BY <1>1, <2>1
    <3> QED
      BY <1>0, <1>2, <3>1 DEF LInv, Examined, VerifyLedgerChain, TailDigest, RecordDigest
  <2>2. CASE v = w
    <3>1. /\ ReadyToAppend(q, ledger, clock)
          /\ consumer'[v].request = q
          /\ consumer'[v].previous = TailDigest(ledger, Len(ledger))
      BY <1>1, <1>2, <2>2 DEF Idle
    <3>2. /\ VerifyLedgerChain(ledger, Len(ledger))
          /\ \A i \in 1 .. Len(ledger) : ~Collides(q, ledger[i].request)
      BY <3>1 DEF ReadyToAppend
    <3>3. Len(ledger) \in 0 .. Len(ledger)
      BY <1>0
    <3> HIDE DEF q
    <3> QED
      BY <1>0, <3>1, <3>2, <3>3 DEF Examined
  <2> QED
    BY <2>1, <2>2
<1>3. \A n \in 0 .. Len(ledger) :
        VerifyLedgerChain(ledger, n)' => NoRepeat(n)'
  BY <1>0 DEF LInv, VerifyLedgerChain, NoRepeat, TailDigest, RecordDigest
<1> QED
  BY <1>0, <1>2, <1>3 DEF LInv

LEMMA LAppend == ASSUME NEW w \in Consumers PROVE Shape /\ LInv /\ AppendEntry(w) => LInv'
<1> SUFFICES ASSUME Shape, LInv, AppendEntry(w) PROVE LInv'
  OBVIOUS
<1> DEFINE q == consumer[w].request
           e == LedgerEntry(q, consumer[w].previous)
<1>1. PICK S : ledger \in Seq(S)
  BY DEF Shape
<1>a. PICK old \in Nat : old = Len(ledger)
  BY <1>1
<1>2. /\ Len(ledger') = old + 1
      /\ \A i \in 1 .. old : ledger'[i] = ledger[i]
      /\ ledger'[old + 1] = e
  <2>1. ledger' = Append(ledger, e)
    BY DEF AppendEntry
  <2> HIDE DEF e
  <2>2. /\ Len(Append(ledger, e)) = Len(ledger) + 1
        /\ \A i \in 1 .. Len(ledger) : Append(ledger, e)[i] = ledger[i]
        /\ Append(ledger, e)[Len(ledger) + 1] = e
    BY <1>1, Appended
  <2> QED
    BY <1>a, <2>1, <2>2
<1>3. /\ consumer = [v \in Consumers |-> consumer[v]]
      /\ consumer' = [consumer EXCEPT ![w] = Idle]
  BY DEF Shape, AppendEntry
<1>4. e.request = q /\ e.previous = consumer[w].previous
  BY DEF LedgerEntry
<1>5. consumer[w].stage = "ready"
  BY DEF AppendEntry
<1> HIDE DEF q, e
<1>6. \A n \in 0 .. old :
        /\ VerifyLedgerChain(ledger', n) <=> VerifyLedgerChain(ledger, n)
        /\ TailDigest(ledger', n) = TailDigest(ledger, n)
        /\ NoRepeat(n)' <=> NoRepeat(n)
  <2> SUFFICES ASSUME NEW n \in 0 .. old
               PROVE  /\ VerifyLedgerChain(ledger', n) <=> VerifyLedgerChain(ledger, n)
                      /\ TailDigest(ledger', n) = TailDigest(ledger, n)
                      /\ NoRepeat(n)' <=> NoRepeat(n)
    OBVIOUS
  <2>1. \A i \in 1 .. n : i \in 1 .. old /\ ledger'[i] = ledger[i]
    BY <1>a, <1>2
  <2>2. \A i \in 0 .. n : TailDigest(ledger', i) = TailDigest(ledger, i)
    BY <1>a, <1>2, <2>1 DEF TailDigest
  <2>3. \A i \in 1 .. n : i - 1 \in 0 .. n
    BY <1>a, <1>2
  <2>4. VerifyLedgerChain(ledger', n) <=> VerifyLedgerChain(ledger, n)
    BY <2>1, <2>2, <2>3 DEF VerifyLedgerChain
  <2>5. NoRepeat(n)' <=> NoRepeat(n)
    BY <2>1 DEF NoRepeat
  <2> QED
    BY <1>a, <1>2, <2>2, <2>4, <2>5
<1>7. ASSUME VerifyLedgerChain(ledger', old + 1)
      PROVE  NoRepeat(old + 1)'
  <2>1. VerifyLedgerChain(ledger, old)
    <3>1. VerifyLedgerChain(ledger', old)
      BY <1>a, <1>2, <1>7 DEF VerifyLedgerChain
    <3> QED
      BY <1>a, <1>2, <1>6, <3>1
  <2>2. NoRepeat(old)
    BY <1>a, <1>2, <2>1 DEF LInv
  <2>3. consumer[w].previous = TailDigest(ledger, old)
    <3>1. ledger'[old + 1].previous = TailDigest(ledger', (old + 1) - 1)
      BY <1>a, <1>2, <1>7 DEF VerifyLedgerChain
    <3>2. (old + 1) - 1 = old /\ old \in 0 .. old
      BY <1>a, <1>2
    <3> QED
      BY <1>a, <1>2, <1>4, <1>6, <3>1, <3>2
  <2>4. PICK n \in 0 .. old :
          /\ consumer[w].previous = TailDigest(ledger, n)
          /\ \A i \in 1 .. n : ~Collides(q, ledger[i].request)
    BY <1>a, <1>5 DEF LInv, Examined, q
  <2>5. n = old
    BY <1>a, <1>2, <2>1, <2>2, <2>3, <2>4, TailsDiffer
  <2>6. \A i \in 1 .. old : ~Collides(q, ledger[i].request) /\ ~Collides(ledger[i].request, q)
    BY <2>4, <2>5 DEF Collides
  <2> SUFFICES ASSUME NEW i \in 1 .. old + 1, NEW j \in 1 .. old + 1, i # j
               PROVE  ~Collides(ledger'[i].request, ledger'[j].request)
    BY DEF NoRepeat
  <2>7. CASE i = old + 1
    <3>1. j \in 1 .. old
      BY <1>a, <1>2, <2>7
    <3> QED
      BY <1>a, <1>2, <1>4, <2>6, <2>7, <3>1
  <2>8. CASE j = old + 1
    <3>1. i \in 1 .. old
      BY <1>a, <1>2, <2>8
    <3> QED
      BY <1>a, <1>2, <1>4, <2>6, <2>8, <3>1
  <2>9. CASE i # old + 1 /\ j # old + 1
    <3>1. i \in 1 .. old /\ j \in 1 .. old
      BY <1>a, <1>2, <2>9
    <3> QED
      BY <1>a, <1>2, <2>2, <3>1 DEF NoRepeat
  <2> QED
    BY <2>7, <2>8, <2>9
<1>8. \A n \in 0 .. Len(ledger') : VerifyLedgerChain(ledger', n) => NoRepeat(n)'
  <2> SUFFICES ASSUME NEW n \in 0 .. old + 1, VerifyLedgerChain(ledger', n)
               PROVE  NoRepeat(n)'
    BY <1>a, <1>2
  <2>1. CASE n \in 0 .. old
    BY <1>a, <1>6, <2>1 DEF LInv
  <2>2. CASE n = old + 1
    BY <1>7, <2>2
  <2> QED
    BY <1>a, <1>2, <2>1, <2>2
<1>9. ASSUME NEW v \in Consumers, consumer'[v].stage = "ready"
      PROVE  Examined(v)'
  <2>1. consumer'[v] = consumer[v]
    BY <1>3, <1>9 DEF Idle
  <2>2. PICK n \in 0 .. old :
          /\ VerifyLedgerChain(ledger, n)
          /\ consumer[v].previous = TailDigest(ledger, n)
          /\ \A i \in 1 .. n : ~Collides(consumer[v].request, ledger[i].request)
    BY <1>a, <1>9, <2>1 DEF LInv, Examined
  <2>3. n \in 0 .. Len(ledger') /\ \A i \in 1 .. n : ledger'[i] = ledger[i]
    BY <1>a, <1>2
  <2> QED
    BY <1>6, <2>1, <2>2, <2>3 DEF Examined
<1> QED
  BY <1>a, <1>8, <1>9 DEF LInv

\* The other steps leave the ledger alone and make no consumer ready.
LEMMA LOther ==
  ASSUME LInv, ledger' = ledger,
         \A v \in Consumers : consumer'[v].stage = "ready" => consumer'[v] = consumer[v]
  PROVE  LInv'
<1>1. \A n \in 0 .. Len(ledger) :
        /\ VerifyLedgerChain(ledger, n)' <=> VerifyLedgerChain(ledger, n)
        /\ NoRepeat(n)' <=> NoRepeat(n)
  BY DEF VerifyLedgerChain, NoRepeat, TailDigest, RecordDigest
<1>2. ASSUME NEW v \in Consumers, consumer'[v].stage = "ready"
      PROVE  Examined(v)'
  <2>1. consumer'[v] = consumer[v]
    BY <1>2
  <2>2. Examined(v)
    BY <1>2, <2>1 DEF LInv
  <2> QED
    BY <2>1, <2>2 DEF Examined, VerifyLedgerChain, TailDigest, RecordDigest
<1> QED
  BY <1>1, <1>2 DEF LInv

LEMMA LNext == Shape /\ LInv /\ [Next]_vars => LInv'
<1> SUFFICES ASSUME Shape, LInv, [Next]_vars PROVE LInv'
  OBVIOUS
<1>0. consumer = [v \in Consumers |-> consumer[v]]
  BY DEF Shape
<1>1. CASE UNCHANGED <<consumer, ledger>>
  BY <1>1, LOther
<1>2. ASSUME NEW w \in Consumers, Present(w) \/ Crash(w)
      PROVE  LInv'
  <2>1. ledger' = ledger
    BY <1>2 DEF Present, Crash
  <2>2. \A v \in Consumers : v # w => consumer'[v] = consumer[v]
    BY <1>0, <1>2 DEF Present, Crash
  <2>3. consumer'[w].stage # "ready"
    <3>1. CASE Present(w)
      <4>1. PICK q : consumer' = [consumer EXCEPT ![w] = [stage |-> "asked", request |-> q]]
        BY <3>1, Zenon DEF Present
      <4> QED
        BY <1>0, <4>1
    <3>2. CASE Crash(w)
      BY <1>0, <3>2 DEF Crash, Idle
    <3> QED
      BY <1>2, <3>1, <3>2
  <2> QED
    BY <2>1, <2>2, <2>3, LOther
<1>3. CASE UNCHANGED vars \/ Plan \/ Push \/ Validate \/ Promote \/ Decide \/ Sign \/ Tick
  BY <1>1, <1>3 DEF vars, Plan, Push, Validate, Promote, Decide, Sign, Tick
<1>4. CASE \E w \in Consumers : Present(w) \/ Examine(w) \/ AppendEntry(w) \/ Crash(w)
  BY <1>2, <1>4, LExamine, LAppend
<1> QED
  BY <1>3, <1>4 DEF Next

\* So do the entries of a ledger whose chain verifies.
THEOREM LedgerSound == Spec => []LInv
<1>1. GInv => Shape
  BY DEF GInv
<1> QED
  BY <1>1, LInit, LNext, GoverningSound, PTL DEF Spec

-----------------------------------------------------------------------------
(* The properties the run checks *)

\* Documents hold the statuses of their stages and receipts answer packages
\* that were not on hold.
THEOREM GTypeCorrect == Spec => []GTypeOK
<1>1. GInv => GTypeOK
  BY DEF GInv, Shape, DocumentsSound, GTypeOK, SoundReceipt, SoundPackage
<1> QED
  BY <1>1, GoverningSound, PTL

\* A change is prepared without a human only on safe evidence, inside the
\* boundary.
THEOREM PreparationIsSafe == Spec => []PreparedFromSafeEvidence
<1>1. GInv => PreparedFromSafeEvidence
  BY DEF GInv, DocumentsSound
<1> QED
  BY <1>1, GoverningSound, PTL

\* Whatever is pushed, planned or validated anew after the promotion, a human is
\* asked about the candidate that was promoted, inside the boundary, with a
\* sandbox package that passed on the same evidence, which was safe.
THEOREM HumansSeeSoundPackages == Spec => []OnlyBoundedChangesReachAHuman
<1>1. GInv => OnlyBoundedChangesReachAHuman
  BY DEF GInv, DocumentsSound
<1> QED
  BY <1>1, GoverningSound, PTL

\* Every entry of the ledger is an approval that a human signed, in time.
THEOREM ConsumptionIsApproved == Spec => []ConsumedWasApproved
<1>1. GInv => ConsumedWasApproved
  BY DEF GInv
<1> QED
  BY <1>1, GoverningSound, PTL

\* A ledger that verifies has consumed every receipt at most once.
THEOREM ConsumptionIsOnce == Spec => []ConsumedOnce
<1>1. Shape /\ LInv => ConsumedOnce
  <2> SUFFICES ASSUME Shape, LInv PROVE ConsumedOnce
    OBVIOUS
  <2>1. Len(ledger) \in 0 .. Len(ledger)
    BY DEF Shape
  <2> QED
    BY <2>1 DEF LInv, NoRepeat, ConsumedOnce
<1>2. GInv => Shape
  BY DEF GInv
<1> QED
  BY <1>1, <1>2, GoverningSound, LedgerSound, PTL

-----------------------------------------------------------------------------
(* The refinement of ApprovalRegister *)

UsedRequests == [i \in Linked |-> ledger[i].request]

LEMMA RegisterInit == Init => Consumption!RInit
<1> SUFFICES ASSUME Init PROVE Consumption!RInit
  OBVIOUS
<1>1. receipts = {} /\ Len(ledger) = 0
  BY DEF Init
<1>2. Linked = {}
  BY <1>1 DEF Linked
<1> QED
  BY <1>1, <1>2 DEF Consumption!RInit

\* Without an append and without a signature the register rests.
LEMMA RegisterRests ==
  ASSUME UNCHANGED <<receipts, ledger>>
  PROVE  UNCHANGED Consumption!rvars
<1>1. Linked' = Linked
  BY DEF Linked, VerifyLedgerChain, TailDigest, RecordDigest
<1> QED
  BY <1>1 DEF Consumption!rvars

LEMMA SignSigns == Sign => [Consumption!RNext]_(Consumption!rvars)
<1> SUFFICES ASSUME Sign PROVE [Consumption!RNext]_(Consumption!rvars)
  OBVIOUS
<1>1. PICK r : receipts' = receipts \union {r}
  BY DEF Sign
<1>2. ledger' = ledger
  BY DEF Sign
<1>3. UsedRequests' = UsedRequests
  BY <1>2 DEF UsedRequests, Linked, VerifyLedgerChain, TailDigest, RecordDigest
<1>4. Consumption!Sign
  BY <1>1, <1>3 DEF Consumption!Sign, UsedRequests
<1> QED
  BY <1>4 DEF Consumption!RNext

\* An appended entry links itself or nothing; the links before it stay.
LEMMA AppendLinks ==
  ASSUME Shape, NEW w \in Consumers, AppendEntry(w)
  PROVE  \E new \in Nat \ (1 .. Len(ledger)) :
           /\ new \in 1 .. Len(ledger')
           /\ Linked' \in {Linked, Linked \union {new}}
           /\ \A i \in Linked : ledger'[i] = ledger[i]
<1> DEFINE e == LedgerEntry(consumer[w].request, consumer[w].previous)
<1>1. PICK S : ledger \in Seq(S)
  BY DEF Shape
<1>2. PICK old \in Nat : old = Len(ledger)
  BY <1>1
<1>3. Len(ledger') = old + 1 /\ \A i \in 1 .. old : ledger'[i] = ledger[i]
  <2>1. ledger' = Append(ledger, e)
    BY DEF AppendEntry
  <2> HIDE DEF e
  <2> QED
    BY <1>1, <1>2, <2>1, Appended
<1>4. ASSUME NEW n \in 1 .. old
      PROVE  VerifyLedgerChain(ledger', n) <=> VerifyLedgerChain(ledger, n)
  <2>1. \A i \in 1 .. n : i \in 1 .. old /\ ledger'[i] = ledger[i]
    BY <1>3, <1>4
  <2>2. \A i \in 1 .. n : TailDigest(ledger', i - 1) = TailDigest(ledger, i - 1)
    BY <1>2, <1>3, <1>4, <2>1 DEF TailDigest
  <2> QED
    BY <2>1, <2>2 DEF VerifyLedgerChain
<1>5. \A i \in 1 .. old + 1 : i \in 1 .. old \/ i = old + 1
  BY <1>2
<1>6. Linked' \in {Linked, Linked \union {old + 1}}
  <2>1. \A i \in 1 .. old : i \in Linked' <=> i \in Linked
    BY <1>2, <1>3, <1>4 DEF Linked
  <2>2. Linked \subseteq 1 .. old /\ Linked' \subseteq 1 .. old + 1
    BY <1>2, <1>3 DEF Linked
  <2> QED
    BY <1>5, <2>1, <2>2
<1> QED
  BY <1>2, <1>3, <1>6 DEF Linked

LEMMA AppendUses ==
  ASSUME GInv, GInv', LInv', NEW w \in Consumers, AppendEntry(w)
  PROVE  [Consumption!RNext]_(Consumption!rvars)
<1>1. PICK new \in Nat \ (1 .. Len(ledger)) :
        /\ new \in 1 .. Len(ledger')
        /\ Linked' \in {Linked, Linked \union {new}}
        /\ \A i \in Linked : ledger'[i] = ledger[i]
  BY AppendLinks DEF GInv
<1>2. receipts' = receipts
  BY DEF AppendEntry
<1>3. CASE Linked' = Linked
  <2>1. UsedRequests' = UsedRequests
    BY <1>1, <1>3 DEF UsedRequests
  <2> QED
    BY <1>2, <2>1 DEF Consumption!rvars, UsedRequests
<1>4. CASE Linked' = Linked \union {new}
  <2> DEFINE q == ledger'[new].request
  <2>1. /\ new \notin Linked /\ VerifyLedgerChain(ledger', new)
    BY <1>1, <1>4 DEF Linked
  <2>2. q.receipt \in receipts /\ q.receipt.decision = "APPROVE"
    BY <1>1, <1>2 DEF GInv, ConsumedWasApproved, Approved
  <2>3. ASSUME NEW n \in Linked
        PROVE  ~Collides(ledger[n].request, q)
    <3>1. NoRepeat(new)'
      BY <1>1, <2>1 DEF LInv
    <3>2. n \in 1 .. new /\ n # new
      BY <1>1, <2>1 DEF Linked
    <3>3. new \in 1 .. new /\ ledger'[n] = ledger[n]
      BY <1>1
    <3> QED
      BY <3>1, <3>2, <3>3 DEF NoRepeat
  <2> HIDE DEF q
  <2>4. UsedRequests' = [k \in Linked \union {new} |->
                           IF k = new THEN q ELSE UsedRequests[k]]
    BY <1>1, <1>4, <2>1 DEF UsedRequests, q
  <2>5. /\ DOMAIN UsedRequests = Linked /\ new \in DOMAIN UsedRequests'
        /\ UsedRequests'[new] = q
        /\ \A n \in Linked : UsedRequests[n] = ledger[n].request
    BY <1>4 DEF UsedRequests, q
  <2>6. Consumption!Unused(UsedRequests'[new])
    BY <2>3, <2>5 DEF Consumption!Unused, UsedRequests, Collides
  <2>7. Consumption!Use(new)
    BY <1>2, <2>1, <2>2, <2>4, <2>5, <2>6 DEF Consumption!Use, UsedRequests
  <2>8. \E n \in DOMAIN UsedRequests' : Consumption!Use(n)
    BY <2>5, <2>7
  <2> QED
    BY <2>8 DEF Consumption!RNext, UsedRequests
<1> QED
  BY <1>1, <1>3, <1>4

LEMMA StepUses ==
  GInv /\ GInv' /\ LInv' /\ [Next]_vars => [Consumption!RNext]_(Consumption!rvars)
<1> SUFFICES ASSUME GInv, GInv', LInv', [Next]_vars
             PROVE  [Consumption!RNext]_(Consumption!rvars)
  OBVIOUS
<1>1. CASE UNCHANGED vars \/ Plan \/ Push \/ Validate \/ Promote \/ Decide \/ Tick
  BY <1>1, RegisterRests DEF vars, Plan, Push, Validate, Promote, Decide, Tick
<1>2. CASE \E w \in Consumers : Present(w) \/ Examine(w) \/ Crash(w)
  BY <1>2, RegisterRests DEF Present, Examine, Crash
<1>3. CASE Sign
  BY <1>3, SignSigns
<1>4. CASE \E w \in Consumers : AppendEntry(w)
  BY <1>4, AppendUses
<1> QED
  BY <1>1, <1>2, <1>3, <1>4 DEF Next

\* Optimistic appends to a chain of records, by consumers that neither lock it
\* nor know of each other, use each human approval as an atomic register would.
THEOREM ConsumptionIsAtomic == Spec => ConsumesAsPromised
BY RegisterInit, StepUses, GoverningSound, LedgerSound, PTL
DEF Spec, ConsumesAsPromised, Consumption!RSpec

=============================================================================
