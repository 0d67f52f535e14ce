------------------------------ MODULE Organism ------------------------------
(***************************************************************************)
(* vl/lom-organism-integration-p0/organism.py: the contract between LOM's  *)
(* organs.  Homeostasis makes one status of the organs' reports, a signal  *)
(* is routed to one class of action, and neither ever grants authority.    *)
(***************************************************************************)
EXTENDS Integers, FiniteSets

CONSTANT Organs   \* the twelve organs, of which the eyes are one

ClosedLoop == <<"SENSE", "ESTABLISH_TRUTH", "CLASSIFY", "POLICY_GATE", "DECIDE",
                "PREPARE_OR_EXECUTE_BOUNDED", "VALIDATE", "RECORD_EVIDENCE",
                "LEARN">>

HumanAuthorities == {"protected_main_merge", "production_deploy",
                     "production_data_mutation", "production_authority_change",
                     "financial_contractual_customer_commitment"}

\* The registry names every organ once with components that exist, and gives
\* no authority away.
RegistryReady(r) ==
  /\ r.mode = "NON_PRODUCTION_INTEGRATION"
  /\ r.required = Organs
  /\ r.registered = Organs
  /\ r.components_exist
  /\ r.autonomous_ceiling = "PREPARE_PR"
  /\ HumanAuthorities \subseteq r.human_only
  /\ r.closed_loop = ClosedLoop

-----------------------------------------------------------------------------
(* Homeostasis *)

BodyRank == <<"HEALTHY", "DEGRADED", "HOLD", "FAILED">>

WorstOrgan(found) ==
  LET ranks == {1} \union {i \in 1..4 : BodyRank[i] \in found}
  IN  BodyRank[CHOOSE r \in ranks : \A q \in ranks : q <= r]

\* A report that cannot be read counts for no organ.
Readable(row, now) ==
  /\ row.status \in {"HEALTHY", "DEGRADED", "HOLD", "FAILED"}
  /\ 0 < row.at /\ row.at <= now

\* A stale report, or one without evidence, holds whatever it says.
OrganStatus(row, now, maxAge) ==
  IF now - row.at > maxAge \/ ~row.evidenced THEN "HOLD" ELSE row.status

\* rows is a function of the organs that reported.
Homeostasis(registry, rows, now, maxAge) ==
  LET heard == {o \in DOMAIN rows : Readable(rows[o], now)}
      statuses == {OrganStatus(rows[o], now, maxAge) : o \in heard}
  IN  IF ~RegistryReady(registry) THEN "HOLD"
      ELSE WorstOrgan(statuses \union (IF heard = Organs THEN {} ELSE {"HOLD"}))

-----------------------------------------------------------------------------
(* Signals *)

HumanOnlyActions == {"MERGE_PROTECTED_MAIN", "PRODUCTION_DEPLOY",
                     "PRODUCTION_DATA_MUTATION", "PRODUCTION_AUTHORITY_CHANGE",
                     "FINANCIAL_OR_CONTRACTUAL_COMMITMENT", "CUSTOMER_COMMITMENT",
                     "BID_SUBMISSION", "PRICING_COMMITMENT", "LEGAL_COMMITMENT"}

Consequential(s) == s.action \in HumanOnlyActions \/ s.production

SignalValid(s, now) ==
  /\ s.sound                       \* identity, organ, vocabulary, evidence
  /\ 0 < s.observed_at /\ s.observed_at <= now
  /\ now <= s.expires_at /\ s.observed_at <= s.expires_at

Prepares(s) == s.risk = "LOW" /\ s.reversible

\* The class of action a signal is routed to, by the first rule that applies.
ActionClass(s, now) ==
  IF ~SignalValid(s, now) THEN "HOLD"
  ELSE IF Consequential(s) THEN "HUMAN_REVIEW"
  ELSE IF s.type = "SECURITY" THEN "HOLD"
  ELSE IF s.type = "INCIDENT" /\ s.severity \in {"HIGH", "CRITICAL"} THEN "HUMAN_REVIEW"
  ELSE IF s.severity = "CRITICAL" THEN "HUMAN_REVIEW"
  ELSE IF s.type = "EVIDENCE_GAP" THEN "HOLD"
  ELSE IF s.type = "AUTHORITY_REQUEST" THEN "HUMAN_REVIEW"
  ELSE IF s.type \in {"REGRESSION", "DRIFT", "WORK_READY"}
       THEN IF Prepares(s) THEN "AUTO_PREPARE" ELSE "HUMAN_REVIEW"
  ELSE "MONITOR"

\* The status of the reflex plan built for a route.
PlanStatus(class) ==
  IF class = "AUTO_PREPARE" THEN "PREPARE_PR"
  ELSE IF class \in {"HUMAN_REVIEW", "MONITOR"} THEN class ELSE "HOLD"

=============================================================================
