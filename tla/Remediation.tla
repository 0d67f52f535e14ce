---------------------------- MODULE Remediation ----------------------------
(***************************************************************************)
(* What is decided about a workload from its evidence, LOM stages 6.4 to    *)
(* 6.9: the dashboard's card, the brief's class, the planner's verdict on a *)
(* proposed change, the sandbox's on a candidate, the promotion manifest    *)
(* and the decision package a human is given.  A verdict is the status the  *)
(* code returns; reasons, wording and priorities are left out.              *)
(***************************************************************************)
EXTENDS Evidence

HumanOnly == {
    "PROTECTED_MAIN_MERGE", "PRODUCTION_RELEASE", "PRODUCTION_DATA_MUTATION",
    "AUTHORITY_WIDENING", "AUTH_SECURITY_POLICY_CHANGE", "DATA_DELETION",
    "CUSTOMER_COMMITMENT", "BID_SUBMISSION", "PRICING_COMMITMENT",
    "CONTRACT_COMMITMENT", "FINANCIAL_COMMITMENT"}

Classes == {"HOLD", "HUMAN_REVIEW", "AUTO_PREPARE", "MONITOR"}
Risks == {"LOW", "MEDIUM", "HIGH"}

(* What a sandbox run must be and must have passed. *)
SandboxNeeds == {
    "ephemeral", "network_disabled", "production_credentials_absent",
    "rollback_plan", "build", "regression", "security", "independent_validation"}

-----------------------------------------------------------------------------
(* Evidence of a workload as it is shown *)

(* The figures behind a workload, whichever of the four ways they came. *)
Figures(b) ==
    IF b.path = "source" THEN b.reported
    ELSE IF b.path = "measured" THEN Summary(b.batch)
    ELSE b.artifact

(* One reading of counted, declared or reported figures is accepted. *)
Accepted(b, t) ==
    /\ b.path = "counted" =>
         /\ Countable(b.raw)
         /\ ValidArtifactV2(b.artifact, b.workload, b.sha, DeriveMetrics(b.raw), t)
         /\ Replay(b.claim, b.raw, DeriveMetrics(b.raw), b.workload, b.sha)
         /\ ValidChain(b.custody, b.claim, b.workload, b.sha, t)
    /\ b.path = "artifact" => ValidArtifact(b.artifact, b.workload, b.sha, t)
    /\ b.path = "source" => Normalize(b.reported, b.sha, t)
    /\ b.path = "measured" => \A m \in b.batch : PromoteMetrics(b.run, m, b.sha, t)

EvidenceStatus(b, t) ==
    IF ~Accepted(b, t) THEN "HOLD"
    ELSE IF b.path = "measured" THEN Aggregate(b.batch, b.run.at, b.workload, b.sha, t)
    ELSE "READY"

EvidenceHealth(b, status) ==
    IF b.path = "measured" THEN BatchHealth(status, Summary(b.batch))
    ELSE IF b.path = "counted" THEN TechnicalHealth(b.artifact)
    ELSE RatesHealth(Figures(b), QualityFloor)

(* A snapshot is fresh when the evidence was accepted as it was taken. *)
Snapshot(b, t) ==
    LET status == EvidenceStatus(b, t)
    IN  [workload |-> b.workload, sha |-> b.sha, source |-> b.source,
         status |-> status, fresh |-> status = "READY",
         health |-> IF status = "HOLD" THEN "HOLD" ELSE EvidenceHealth(b, status),
         figures |-> IF status = "READY" THEN {Figures(b)} ELSE {}]

ClassifySnapshot(s) ==
    IF /\ s.workload # "" /\ s.status = "READY" /\ s.fresh
       /\ s.sha # "" /\ s.source # ""
       /\ \A m \in s.figures : m.samples >= 1 /\ RatesInRange(m) /\ m.p95 >= 0
       /\ s.health \in Classes
    THEN s.health ELSE "HOLD"

WorkloadCard(s) ==
    [workload |-> s.workload, action |-> ClassifySnapshot(s), fresh |-> s.fresh,
     sha |-> s.sha, source |-> s.source]

ClassifySignal(card) ==
    IF /\ card.workload # "" /\ card.action \in Classes
       /\ card.fresh /\ card.sha # "" /\ card.source # ""
    THEN card.action ELSE "HOLD"

-----------------------------------------------------------------------------
(* Verdicts on a change.  A proposal p names its target action, its risk    *)
(* and whether it is reversible and touches production.                     *)

HumanBoundary(p) == p.target \in HumanOnly \/ p.production \/ p.risk = "HIGH"

(* The human boundary is asked before reversibility and before the class.   *)
ClassifyRemediation(card, p) ==
    LET action == ClassifySignal(card)
    IN  IF ~card.fresh \/ card.sha = "" \/ card.source = "" \/ p.risk \notin Risks
        THEN "HOLD"
        ELSE IF HumanBoundary(p) THEN "HUMAN_REVIEW"
        ELSE IF ~p.reversible THEN "HOLD"
        ELSE IF action = "AUTO_PREPARE" THEN "PREPARE_PR"
        ELSE action

ValidateSandbox(card, p, trial) ==
    IF ~card.fresh \/ card.sha = "" \/ card.source = "" THEN "HOLD"
    ELSE IF HumanBoundary(p) THEN "HUMAN_REVIEW"
    ELSE IF p.risk \in Risks /\ p.reversible /\ SandboxNeeds \subseteq trial
    THEN "PREPARE_PR" ELSE "HOLD"

(* validated is the sandbox's package, which the manifest names by digest.   *)
(* The package names the evidence and the verdict, but not the candidate:   *)
(* any package may be handed in with any candidate.  The rollback plan's    *)
(* digest goes with the candidate.                                          *)
Manifest(base, c, validated) ==
    [base |-> base, candidate |-> c.candidate, sha |-> validated.sha,
     source |-> validated.source, validation |-> validated.status,
     package |-> validated, target |-> c.proposal.target, risk |-> c.proposal.risk,
     production |-> c.proposal.production]

ValidatePromotion(m) ==
    IF \/ m.base = m.candidate
       \/ m.sha = "" \/ m.source = ""
       \/ m.validation # "PREPARE_PR"
       \/ m.risk \notin Risks
    THEN "HOLD"
    ELSE IF HumanBoundary(m) THEN "HUMAN_REVIEW" ELSE "PREPARE_PR"

(* Mutant: only the evidence is compared, not what is asked for. *)
ManifestMatchesEvidence(m, req) ==
    /\ m.base = req.base /\ m.sha = req.sha /\ m.source = req.source
    /\ m.validation = "PREPARE_PR"

(* The request must name, field by field, what the manifest names. *)
ManifestMatchesRequest(m, req) ==
    /\ m.base = req.base /\ m.candidate = req.candidate
    /\ m.sha = req.sha /\ m.source = req.source
    /\ m.target = req.target /\ m.risk = req.risk
    /\ m.production = req.production
    /\ m.validation = "PREPARE_PR"

(* digest is the manifest the request was made for: another one does not    *)
(* have its digest.                                                         *)
ClassifyDecision(req, status, manifest, digest, rollbackReady) ==
    IF \/ req.base = req.candidate
       \/ req.source = ""
       \/ status # "PREPARE_PR"
       \/ ~ManifestMatchesRequest(manifest, req)
       \/ manifest # digest
       \/ ~rollbackReady
       \/ req.risk \notin Risks
    THEN "HOLD"
    ELSE IF HumanBoundary(req) THEN "HUMAN_REVIEW"
    ELSE "READY_FOR_HUMAN_DECISION"
=============================================================================
