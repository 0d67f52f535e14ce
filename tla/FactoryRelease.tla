-------------------------- MODULE FactoryRelease --------------------------
(***************************************************************************)
(* The road of a release candidate to production, as the functions and     *)
(* triggers of vl/migrations/baselines/2026-10-04/remote_schema.sql drive  *)
(* it: prepared from a factory run that passed QA, validated gate by gate  *)
(* by a leased runner, decided by a human, promoted by a leased runner.    *)
(*                                                                         *)
(* Every function is one transaction that locks the rows it decides on,    *)
(* hence one action; one that raises changes nothing and is not an action. *)
(* One record stands for the rows that share a factory run's id: the run,  *)
(* its deployment, its approval with the human_production_approval and     *)
(* production_lock gates, which are only written together, and its other   *)
(* release gates.  Identities (who approves, with which assurance level)   *)
(* and digests are taken to be in order.  The candidates are those of one  *)
(* builder, which has one gate profile and one production adapter.         *)
(***************************************************************************)
EXTENDS LeasedJob, Sequences, FiniteSets

CONSTANTS
  Candidates,       \* factory runs, each with its deployment
  Gates,            \* technical release gates
  QaGate,           \* qa_regression, passed by the build itself
  AttestationGate,  \* supply_chain_attestation, set by its own authority only
  ServerGates,      \* gates the database judges itself, at anybody's request
  Policies,         \* required_gates the builder's profile may hold
  AdapterStates     \* states the builder's production adapter may be in

ASSUME GatesAssumption ==
  /\ IsFiniteSet(Candidates)
  /\ QaGate \in Gates /\ AttestationGate \in Gates
  /\ ServerGates \subseteq Gates \ {QaGate, AttestationGate}
  /\ AdapterStates # {}
  /\ AdapterStates \subseteq {"ready", "inactive", "unconfigured"}
  /\ Policies \subseteq SUBSET Gates
  /\ Policies # {} /\ {} \notin Policies

VARIABLES
  policy,      \* the live profile's required_gates
  adapter,     \* active and configured, configured only, or neither
  release,     \* release[c]: run, deployment, approval and gates of c
  validation,  \* validation[c]: c's row in release_validation_jobs
  promotion,   \* promotion[c]: c's row in production_promotion_jobs
  line         \* the promotion jobs in the order of their created_at

vars == <<policy, adapter, release, validation, promotion, line>>

Runs == {"building", "validating", "awaiting_approval", "failed"}
Statuses == {"absent", "planned", "certified", "approved", "deploying",
             "deployed", "failed"}
Decisions == {"none", "pending", "approved", "rejected"}
GateStatuses == {"none", "pending", "pass", "fail"}

Release == [run : Runs, status : Statuses, decision : Decisions,
            frozen : SUBSET Gates, gates : [Gates -> GateStatuses],
            artifact : {"kept", "expired"}]

NoRelease == [run |-> "building", status |-> "absent", decision |-> "none",
              frozen |-> {}, gates |-> [g \in Gates |-> "none"],
              artifact |-> "kept"]

Init ==
  /\ policy \in Policies
  /\ adapter \in AdapterStates
  /\ release = [c \in Candidates |-> NoRelease]
  /\ validation = [c \in Candidates |-> NoJob]
  /\ promotion = [c \in Candidates |-> NoJob]
  /\ line = <<>>

\* Mutant: only an explicit failure counts against a release.
OutstandingFailed(r) == {g \in r.frozen : r.gates[g] = "fail"}

\* The gates of the frozen policy that have not passed.
Outstanding(r) == {g \in r.frozen : r.gates[g] # "pass"}

\* On the way to production, or in it.
Released == {"approved", "deploying", "deployed"}

\* The trigger on every write of a deployment that leaves it with `status'.
Guarded(r, status) ==
  /\ status \in {"certified"} \cup Released => r.frozen # {} /\ Outstanding(r) = {}
  /\ status \in Released => r.artifact = "kept" /\ r.decision = "approved"

-----------------------------------------------------------------------------
(* The candidate *)

InitialGates == [g \in Gates |-> IF g \notin policy THEN "none"
                                 ELSE IF g = QaGate THEN "pass" ELSE "pending"]

\* The run turns validating with a runner PASS; the triggers freeze the live
\* policy into a deployment, open its approval and queue its validation.
Prepare(c) ==
  /\ release[c].status = "absent"
  /\ release' = [release EXCEPT ![c] = [NoRelease EXCEPT
       !.run = "validating", !.status = "planned", !.decision = "pending",
       !.frozen = policy, !.gates = InitialGates]]
  /\ validation' = [validation EXCEPT ![c] = FreshJob]
  /\ UNCHANGED <<policy, adapter, promotion, line>>

\* record_vrs_supply_chain_attestation, at any time once the gate's row exists.
Attest(c) ==
  /\ release[c].gates[AttestationGate] # "none"
  /\ release' = [release EXCEPT ![c].gates[AttestationGate] = "pass"]
  /\ UNCHANGED <<policy, adapter, validation, promotion, line>>

\* The artifact outlives its retention on the build server.
Expire(c) ==
  /\ release[c].status # "absent" /\ release[c].artifact = "kept"
  /\ release' = [release EXCEPT ![c].artifact = "expired"]
  /\ UNCHANGED <<policy, adapter, validation, promotion, line>>

\* Outside src/: somebody updates the builder's release gate profile.
SetPolicy ==
  /\ policy' \in Policies
  /\ UNCHANGED <<adapter, release, validation, promotion, line>>

\* Outside src/: somebody updates the adapter's row in its registry.
SetAdapter ==
  /\ adapter' \in AdapterStates
  /\ UNCHANGED <<policy, release, validation, promotion, line>>

-----------------------------------------------------------------------------
(* Technical validation *)

\* A release r after some of its gates were judged.
Judged(r, passed, failed) ==
  [r EXCEPT !.gates = [g \in Gates |->
     IF g \in passed THEN "pass" ELSE IF g \in failed THEN "fail" ELSE @[g]]]

\* evaluate_vrs_release_server_gates.  The validator's workflow requests it after
\* a claim, but no lease, token or status is looked at, so the request may come
\* late.  What it judges is the database's state, rollback_contract also by a
\* status read without a lock: each gate may pass or fail.
EvaluateServerGates(c) ==
  LET judged == release[c].frozen \cap ServerGates
  IN /\ release[c].status # "absent"
     /\ \E passed \in SUBSET judged :
          release' = [release EXCEPT ![c] = Judged(@, passed, judged \ passed)]
     /\ UNCHANGED <<policy, adapter, validation, promotion, line>>

\* A claim leases first and then looks whether the candidate is still eligible.
\* Concurrent claims skip locked rows, so any claimable row may be the next.
ClaimValidation(c) ==
  /\ Claimable(validation[c])
  /\ validation' = [validation EXCEPT ![c] =
       Claimed(@, IF release[c].status = "planned" /\ release[c].run = "validating"
                  THEN "leased" ELSE "failed")]
  /\ UNCHANGED <<policy, adapter, release, promotion, line>>

\* What remains of a candidate that failed validation.
FailedValidation(r) == [r EXCEPT !.status = "failed", !.run = "failed"]

\* Another attempt, or the terminal path once the attempts are used up.
RetryOrFail(c, r) ==
  /\ validation' = [validation EXCEPT ![c] = Retried(@)]
  /\ release' = [release EXCEPT ![c] =
       IF validation[c].attempts = MaxAttempts THEN FailedValidation(r)
       ELSE IF r.run = "failed" THEN r ELSE [r EXCEPT !.run = "validating"]]

\* Every frozen gate passes. The candidate's status is not looked at.
Certify(c, r) ==
  /\ Outstanding(r) = {}
  /\ Guarded(r, "certified")
  /\ validation' = [validation EXCEPT ![c] = Closed(@, "succeeded")]
  /\ release' = [release EXCEPT ![c] =
       [r EXCEPT !.status = "certified", !.run = "awaiting_approval"]]

FailGates(c, r) ==
  /\ \E g \in r.frozen : r.gates[g] = "fail"
  /\ validation' = [validation EXCEPT ![c] = Closed(@, "failed")]
  /\ release' = [release EXCEPT ![c] = FailedValidation(r)]

AwaitGates(c, r) ==
  /\ Outstanding(r) # {}
  /\ \A g \in r.frozen : r.gates[g] # "fail"
  /\ RetryOrFail(c, r)

\* complete_vrs_release_validation_job with p_success, and a word on some of the
\* frozen gates.  The attestation gate's trigger refuses to let it be passed here.
ReportGates(c, k) ==
  /\ HoldsToken(validation[c], k)
  /\ \E passed \in SUBSET (release[c].frozen \ {AttestationGate}) :
     \E failed \in SUBSET (release[c].frozen \ passed) :
       LET r == Judged(release[c], passed, failed)
       IN FailGates(c, r) \/ Certify(c, r) \/ AwaitGates(c, r)
  /\ UNCHANGED <<policy, adapter, promotion, line>>

\* The same without p_success: the validator itself did not get through.
ReportFailure(c, k) ==
  /\ HoldsToken(validation[c], k)
  /\ RetryOrFail(c, release[c])
  /\ UNCHANGED <<policy, adapter, promotion, line>>

-----------------------------------------------------------------------------
(* The human decision *)

\* Mutant: nobody looks whether the approval is still open.
CanApproveDecided(c) ==
  /\ release[c].status = "certified"
  /\ \A g \in policy : release[c].gates[g] = "pass"

\* What approve_production_release checks itself: the gates are those that the
\* LIVE policy requires, the trigger then checks the frozen ones.
CanApprove(c) ==
  /\ release[c].status = "certified"
  /\ \A g \in policy : release[c].gates[g] = "pass"
  /\ release[c].decision = "pending"

\* The approval queues the promotion, or blocks it where the builder's
\* production adapter is not configured.  Whether it is active is not asked.
Approve(c) ==
  /\ CanApprove(c)
  /\ Guarded([release[c] EXCEPT !.decision = "approved"], "approved")
  /\ release' = [release EXCEPT ![c].decision = "approved", ![c].status = "approved"]
  /\ \/ /\ adapter # "unconfigured"
        /\ promotion' = [promotion EXCEPT ![c] = FreshJob]
        /\ line' = Append(line, c)
     \/ /\ adapter = "unconfigured"
        /\ promotion' = [promotion EXCEPT ![c] = BlockedJob]
        /\ UNCHANGED line
  /\ UNCHANGED <<policy, adapter, validation>>

\* Mutant: the deployment is failed and its approval left open.
RejectUndecided(c) ==
  /\ release[c].status \in {"planned", "certified"}
  /\ release[c].decision = "pending"
  /\ release' = [release EXCEPT ![c].status = "failed"]
  /\ UNCHANGED <<policy, adapter, validation, promotion, line>>

\* A rejection may come while a validator works, and leaves its lease alone.
Reject(c) ==
  /\ release[c].status \in {"planned", "certified"}
  /\ release[c].decision = "pending"
  /\ release' = [release EXCEPT ![c].decision = "rejected", ![c].status = "failed"]
  /\ UNCHANGED <<policy, adapter, validation, promotion, line>>

-----------------------------------------------------------------------------
(* Promotion *)

\* The claim joins the jobs with the adapters that are active and configured.
Selectable(c) == Claimable(promotion[c]) /\ adapter = "ready"

\* Mutant: the promoter looks at the oldest job, claimable or not.
FirstEver(c) == line # <<>> /\ line[1] = c /\ Selectable(c)

\* The promoter looks at the oldest job it may select and at no other one.
First(c) ==
  \E i \in DOMAIN line :
    /\ line[i] = c
    /\ Selectable(c)
    /\ \A h \in 1..(i - 1) : ~Selectable(line[h])

\* A job whose deployment is not approved is refused and left as it is.
ClaimPromotion(c) ==
  /\ First(c)
  /\ release[c].status = "approved"
  /\ Guarded(release[c], "deploying")
  /\ promotion' = [promotion EXCEPT ![c] = Claimed(@, "leased")]
  /\ release' = [release EXCEPT ![c].status = "deploying"]
  /\ UNCHANGED <<policy, adapter, validation, line>>

Promoted(c, k) ==
  /\ HoldsToken(promotion[c], k)
  /\ Guarded(release[c], "deployed")
  /\ promotion' = [promotion EXCEPT ![c] = Closed(@, "succeeded")]
  /\ release' = [release EXCEPT ![c].status = "deployed"]
  /\ UNCHANGED <<policy, adapter, validation, line>>

\* Mutant: a retry leaves the deployment deploying.
AfterFailureDeploying(j) == IF j.attempts < MaxAttempts THEN "deploying" ELSE "failed"
AfterFailure(j) == IF j.attempts < MaxAttempts THEN "approved" ELSE "failed"

PromotionFailed(c, k) ==
  /\ HoldsToken(promotion[c], k)
  /\ Guarded(release[c], AfterFailure(promotion[c]))
  /\ promotion' = [promotion EXCEPT ![c] = Retried(@)]
  /\ release' = [release EXCEPT ![c].status = AfterFailure(promotion[c])]
  /\ UNCHANGED <<policy, adapter, validation, line>>

\* Twenty minutes pass without an answer.
ValidationLapses(c) ==
  /\ validation[c].state = "leased"
  /\ validation' = [validation EXCEPT ![c] = Closed(@, "lapsed")]
  /\ UNCHANGED <<policy, adapter, release, promotion, line>>

PromotionLapses(c) ==
  /\ promotion[c].state = "leased"
  /\ promotion' = [promotion EXCEPT ![c] = Closed(@, "lapsed")]
  /\ UNCHANGED <<policy, adapter, release, validation, line>>

-----------------------------------------------------------------------------

Tokens == 1..MaxAttempts

Validate(c) == \E k \in Tokens : ReportGates(c, k) \/ ReportFailure(c, k)
Promote(c) == \E k \in Tokens : Promoted(c, k) \/ PromotionFailed(c, k)

Next ==
  \/ SetPolicy \/ SetAdapter
  \/ \E c \in Candidates :
       \/ Prepare(c) \/ Attest(c) \/ Expire(c) \/ EvaluateServerGates(c)
       \/ ClaimValidation(c) \/ Validate(c) \/ ValidationLapses(c)
       \/ Approve(c) \/ Reject(c)
       \/ ClaimPromotion(c) \/ Promote(c) \/ PromotionLapses(c)

Spec == Init /\ [][Next]_vars

Lapse == \E c \in Candidates : ValidationLapses(c) \/ PromotionLapses(c)

\* Time passes, and the scheduled validator and promoter keep claiming, whatever
\* job it is that they find. That a claimed job is ever answered is not assumed.
FairSpec ==
  /\ Spec
  /\ WF_vars(\E c \in Candidates : ClaimValidation(c))
  /\ WF_vars(\E c \in Candidates : ClaimPromotion(c))
  /\ WF_vars(Lapse)

-----------------------------------------------------------------------------
(* Properties *)

\* The tables hold only rows of the declared types, attempts within their bound.
TypeOK ==
  /\ policy \in Policies
  /\ adapter \in AdapterStates
  /\ release \in [Candidates -> Release]
  /\ validation \in [Candidates -> Job]
  /\ promotion \in [Candidates -> Job]
  /\ line \in Seq(Candidates)

\* Whatever became of the live policy meanwhile, a certified release and one on
\* its way to production misses none of the gates frozen into it but those that
\* the database judged again: no late report of a validator, whose lease lapsed
\* or whose candidate was certified by another, takes a gate back.
ReleasedWasCleared ==
  \A c \in Candidates : release[c].status \in {"certified"} \cup Released =>
    /\ release[c].frozen # {}
    /\ \A g \in release[c].frozen \ ServerGates : release[c].gates[g] = "pass"
    /\ release[c].status \in Released => release[c].decision = "approved"

StatusMatchesJobs(status, v, p) ==
  /\ status = "absent" => v = "none"
  /\ status = "planned" => v \in {"queued", "leased", "lapsed"}
  /\ status \in {"certified"} \cup Released => v = "succeeded"
  /\ status \in {"absent", "planned", "certified"} => p = "none"
  /\ status = "approved" <=> p \in {"queued", "blocked"}
  /\ status = "deploying" <=> p \in {"leased", "lapsed"}
  /\ status = "deployed" <=> p = "succeeded"

\* A deployment, its run and its two jobs, written by different functions, tell
\* the same story after every retry, lapse and rejection.
JobsMatchReleases ==
  \A c \in Candidates :
    /\ StatusMatchesJobs(release[c].status, validation[c].state, promotion[c].state)
    /\ release[c].run = "awaiting_approval" <=> validation[c].state = "succeeded"
    /\ release[c].run = "failed" => release[c].status = "failed"

KeepsRejection ==
  \A c \in Candidates : release[c].decision = "rejected" =>
    release'[c].decision = "rejected" /\ release'[c].status \notin Released

\* A rejection is never overruled, not even by a validator that was at work
\* when it came and certifies the rejected candidate afterwards.
NeverOverruled == [][KeepsRejection]_vars

\* A deployment that failed once, for whatever reason, never ships.
FailedNeverShips ==
  \A c \in Candidates :
    [](release[c].status = "failed" => [](release[c].status \notin Released))

\* How far a release has come, for those who see neither jobs nor leases.
Stage(r) ==
  IF r.status = "failed" \/ r.decision = "rejected" THEN "dropped"
  ELSE IF r.status = "planned" THEN "open"
  ELSE IF r.status = "certified" THEN "cleared"
  ELSE IF r.status \in {"approved", "deploying"} THEN "released"
  ELSE IF r.status = "deployed" THEN "shipped"
  ELSE "absent"

Clearance == INSTANCE ReleaseClearance WITH
  stage <- [c \in Candidates |-> Stage(release[c])],
  missing <- [c \in Candidates |-> Outstanding(release[c])]

\* The functions and triggers together, every retry, lapse and late answer
\* included, keep the promise of ReleaseClearance: although the database takes
\* gates back at any time, a candidate is certified, released and shipped only in
\* a moment in which it misses none, and a dropped one stays dropped.
ClearsAsPromised == Clearance!CSpec

\* No candidate stays planned for ever, although validators vanish with their
\* leases, unless the last attempt's lease is the one that runs out.
ValidationConcludes ==
  \A c \in Candidates :
    []<>(release[c].status # "planned" \/ Exhausted(validation[c]))

\* A promotion that the claim refuses: its lease ran out while the deployment was
\* deploying, its artifact did, or a gate was taken back.
Jammed(c) ==
  \/ promotion[c].state = "lapsed"
  \/ /\ promotion[c].state = "queued"
     /\ release[c].artifact = "expired" \/ Outstanding(release[c]) # {}

HeldUp(c) ==
  \/ Jammed(c)
  \/ \E i \in DOMAIN line, h \in DOMAIN line :
       /\ line[i] = c /\ h < i
       /\ Jammed(line[h]) /\ Claimable(promotion[line[h]])

\* No promotion stays queued or leased for ever, unless it jams, an older one
\* jams the line ahead, or the adapter is not active and configured.
PromotionConcludes ==
  \A c \in Candidates :
    []<>(\/ promotion[c].state \notin {"queued", "leased"}
         \/ HeldUp(c)
         \/ adapter # "ready")

\* The evaluator's comment: once a candidate exists, the frozen snapshot decides
\* and the live policy never does. A certified one may then be approved.
FrozenPolicyDecides ==
  \A c \in Candidates :
    release[c].status = "certified" /\ release[c].decision = "pending" =>
      CanApprove(c)

\* The launch checklist: an expired lease is reclaimed with a new token, here
\* that of a promotion which has attempts left.
ExpiredLeaseReclaimed ==
  \A c \in Candidates :
    promotion[c].state = "lapsed" /\ promotion[c].attempts = 1
      ~> promotion[c].attempts = 2

=============================================================================
