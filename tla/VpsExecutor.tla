---------------------------- MODULE VpsExecutor ----------------------------
(***************************************************************************)
(* vl/lom-vps-execution-node-p0: how the execution node decides on one     *)
(* request of LOM's body.  body_executor_adapter.py demands the evidence   *)
(* of a live canary (collect_live_canary.py, validate_canary.py), turns    *)
(* the request into an action and gives it to execute_node_action          *)
(* (runner.py), which asks the agent control plane (runtime_policy.py).    *)
(* The decisions are pure; BodyRuntime has the state they are taken in.    *)
(*                                                                         *)
(* A scope is a function of the fields it fixes.  An action's id and input *)
(* digest are the values they are digests of.                              *)
(***************************************************************************)
EXTENDS Integers, Sequences, FiniteSets

-----------------------------------------------------------------------------
(* runtime_policy.py *)

KnownCapabilities == {"spec.read", "spec.propose", "factory.plan", "factory.enqueue",
                      "artifact.read", "qa.execute", "certification.propose",
                      "release.request_approval"}
HumanCapabilities == {"production.approve", "production.promote"}
Connectors == {"connector.invoke:openclaw"}

Inside(scope, bounds) ==
  \A f \in DOMAIN scope : f \in DOMAIN bounds /\ bounds[f] = scope[f]

Affords(g, budget) ==
  \A k \in DOMAIN budget : k \in DOMAIN g.budget => budget[k] <= g.budget[k]

\* What the grant must be for it to cover the action.
Covers(g, a) ==
  /\ a.capability \in (KnownCapabilities \union Connectors) \intersect g.capabilities
  /\ DOMAIN a.scope # {} /\ Inside(a.scope, g.scope)
  /\ g.delegated \subseteq g.capabilities
  /\ \A f \in DOMAIN g.scope \intersect DOMAIN g.parent_scope :
       g.parent_scope[f] = g.scope[f]
  /\ Affords(g, a.budget)

\* The replay record is asked before the capability is looked at.
EvaluateRuntime(a, g, replay, now) ==
  IF a.expires <= now \/ a.expires <= a.requested THEN "deny"
  ELSE IF \E r \in replay : r.id = a.id
       THEN IF [id |-> a.id, input |-> a.input] \in replay THEN "replayed" ELSE "deny"
  ELSE IF a.capability \in HumanCapabilities THEN "require_human_approval"
  ELSE IF Covers(g, a) THEN "allow" ELSE "deny"

-----------------------------------------------------------------------------
(* runner.py *)

AllowedCapabilities == {"spec.read", "artifact.read", "qa.execute", "factory.plan",
                        "certification.propose", "release.request_approval"}

TaskCapability == [health_probe |-> "qa.execute",
                   run_registered_test |-> "qa.execute",
                   read_artifact_metadata |-> "artifact.read",
                   prepare_factory_plan |-> "factory.plan",
                   prepare_certification |-> "certification.propose",
                   prepare_release_request |-> "release.request_approval"]

\* execute_node_action up to the handler, on a journal that verifies or not.
NodeDecision(a, g, replay, now, intact) ==
  LET decision == EvaluateRuntime(a, g, replay, now)
  IN  IF \/ a.capability \notin AllowedCapabilities
         \/ a.scope.environment \notin {"development", "staging"}
         \/ TaskCapability[a.task] # a.capability
      THEN "HOLD"
      ELSE IF decision = "replayed" THEN "IDEMPOTENT_NOOP"
      ELSE IF decision = "allow" /\ intact THEN "EXECUTE" ELSE "HOLD"

-----------------------------------------------------------------------------
(* The canary: the collector runs the node against itself and looks at its *)
(* host; the validator resolves what it left.                              *)

ActionLife == 5

CanaryAction(id, capability, at) ==
  [id |-> id, input |-> id, requested |-> at,
   expires |-> at + ActionLife, capability |-> capability, task |-> "health_probe",
   scope |-> [project |-> "lom-vps-canary", environment |-> "staging"],
   budget |-> [timeout |-> 30, retries |-> 0, cost |-> 0]]

CanaryGrant(capability) ==
  [capabilities |-> {capability}, delegated |-> {capability},
   scope |-> [project |-> "lom-vps-canary", environment |-> "staging"],
   parent_scope |-> <<>>, budget |-> [timeout |-> 30, retries |-> 0, cost |-> 0]]

\* The answer the node must give for each check of its own decisions.
NodeChecks(at) ==
  LET probe(id, capability, granted, replay) ==
        NodeDecision(CanaryAction(id, capability, at), CanaryGrant(granted),
                     replay, at, TRUE)
      seen == CanaryAction("live-replay", "qa.execute", at)
  IN  [acp_allow_enforced |-> probe("live-allow", "qa.execute", "qa.execute", {}) = "EXECUTE",
       acp_deny_enforced |-> probe("live-deny", "qa.execute", "artifact.read", {}) = "HOLD",
       production_capability_denied |->
         probe("live-prod", "production.promote", "production.promote", {}) = "HOLD",
       connector_capability_denied |->
         probe("live-connector", "connector.invoke:openclaw",
               "connector.invoke:openclaw", {}) = "HOLD",
       identical_replay_idempotent |->
         probe("live-replay", "qa.execute", "qa.execute",
               {[id |-> seen.id, input |-> seen.input]}) = "IDEMPOTENT_NOOP",
       changed_replay_denied |->
         probe("live-replay", "qa.execute", "qa.execute",
               {[id |-> seen.id, input |-> "other"]}) = "HOLD"]

HostChecks(host) ==
  [unprivileged_os_identity |-> host.uid # 0,
   sudo_denied |-> ~host.sudo,
   docker_socket_denied |-> ~host.docker,
   production_secrets_absent |-> ~host.secrets,
   heartbeat_evidence_available |-> host.heartbeat,
   journal_restart_integrity |-> TRUE]

\* The evidence collected on a host under the node's name, of which the
\* checks that failed are kept.
CanaryEvidence(name, host, at) ==
  [class |-> "LIVE_VPS_CANARY", node |-> name, uid |-> host.uid, at |-> at,
   failed |-> {c \in DOMAIN NodeChecks(at) : ~NodeChecks(at)[c]} \union
              {c \in DOMAIN HostChecks(host) : ~HostChecks(host)[c]}]

AuthorizedNode == "v103067"

\* Every check passed, live, on the authorised node, not as root.
CanaryVerified(e) ==
  /\ e.failed = {}
  /\ e.class = "LIVE_VPS_CANARY"
  /\ e.uid > 0
  /\ e.node = AuthorizedNode

\* Mutant: how old the evidence is does not matter.
ActivationGateAgeless(e, now, maxAge) == CanaryVerified(e) /\ 0 < e.at /\ e.at <= now

ActivationGate(e, now, maxAge) ==
  /\ maxAge > 0
  /\ CanaryVerified(e)
  /\ 0 < e.at /\ e.at <= now
  /\ now - e.at <= maxAge

-----------------------------------------------------------------------------
(* body_executor_adapter.py *)

SafeBodyActions == {"PREPARE_PREVIEW_REFRESH", "PREPARE_EXACT_MAIN_CI_REFRESH",
                    "PREPARE_CI_REMEDIATION_PR", "PREPARE_RUNTIME_DIAGNOSTIC_PR",
                    "PREPARE_REGRESSION_EVIDENCE_REFRESH", "PREPARE_JOURNEY_BINDING_PR",
                    "PREPARE_NONCRITICAL_REMEDIATION_PR", "NON_PROD_CODE"}

\* The delegation of signal s is for a registered action in the grant's scope.
Delegable(s, g) ==
  /\ s.action \in SafeBodyActions
  /\ g.scope.project = s.project
  /\ g.scope.environment = "staging"
  /\ "factory.plan" \in g.capabilities

\* The idempotency key and the input are the route's, and a signal has one route.
BodyAction(s, g, now) ==
  [id |-> s, input |-> s, requested |-> now, expires |-> now + ActionLife,
   capability |-> "factory.plan", task |-> "prepare_factory_plan",
   scope |-> [project |-> s.project, environment |-> "staging"],
   budget |-> [timeout |-> IF g.budget.timeout < 60 THEN g.budget.timeout ELSE 60,
               retries |-> 0, cost |-> 0]]

\* What the adapter makes of a delegation: EXECUTE, IDEMPOTENT_NOOP or HOLD.
BodyExecutorDecision(s, evidence, g, replay, now, maxAge, intact) ==
  IF ActivationGate(evidence, now, maxAge) /\ Delegable(s, g)
  THEN NodeDecision(BodyAction(s, g, now), g, replay, now, intact)
  ELSE "HOLD"

-----------------------------------------------------------------------------
(* The evidence journal, a file of lines.  A line that was cut short does  *)
(* not parse; one that lost its line feed spoils the line after it.        *)

LineParses(j, i) == j[i].form = "whole" \/ (j[i].form = "unended" /\ i = Len(j))

\* journal.verify is READY: the chain adds up from the first line to the last.
JournalReady(j) == \A i \in DOMAIN j : LineParses(j, i) /\ j[i].sequence = i

=============================================================================
