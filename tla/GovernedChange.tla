--------------------------- MODULE GovernedChange ---------------------------
(***************************************************************************)
(* One workload's change on its way to a human: the stages of the canonical *)
(* chain from 6.3 evidence to the 6.9.3 approval ledger, in the order that  *)
(* canonical-chain.json gives them.  The stages are functions; what carries *)
(* a stage's document to the next one, the human who signs and the storage  *)
(* of the ledger are outside src/, and may do so at any later time, after   *)
(* the change was pushed anew, after the clock moved, and from several      *)
(* consumers at once, each of which may stop and try again.                 *)
(***************************************************************************)
EXTENDS Remediation

CONSTANTS
    Sources,    \* the references evidence was collected under
    Collected,  \* [Sources -> evidence bundles]
    Proposals,  \* the changes that may be proposed
    Trials,     \* the sets of needs a sandbox run may meet
    Consumers,  \* who consumes approvals
    Keys,       \* idempotency keys
    Words,      \* the decisions humans give
    Lifetimes,  \* how long a receipt may be valid
    MaxPushes,  \* bound: candidates
    MaxReceipts,\* bound: receipts signed
    MaxLedger,  \* bound: entries appended
    Horizon     \* bound: the clock

ASSUME GovernedAssumption ==
    /\ \A s \in Sources :
         /\ Collected[s].source = s
         /\ Collected[s].path \in {"counted", "artifact", "source", "measured"}
    /\ Words \subseteq {"APPROVE", "REJECT", "REQUEST_CHANGES"}
    /\ Lifetimes \subseteq Nat
    /\ MaxPushes \in Nat /\ MaxReceipts \in Nat /\ MaxLedger \in Nat
    /\ Horizon \in Nat

VARIABLES
    clock,
    change,     \* the candidate pushed last and what it proposes
    plan,       \* the remediation plan made last, with its card
    package,    \* the sandbox's validation package
    promoted,   \* the promotion package
    decision,   \* the decision package
    receipts,   \* the receipts humans signed
    consumer,   \* what each consumer is about to do
    ledger      \* the entries of the consumption ledger

vars == <<clock, change, plan, package, promoted, decision, receipts, consumer, ledger>>

Base == 0
Decisions == {"APPROVE", "REJECT", "REQUEST_CHANGES"}

(* A document that leads no further is kept as its status alone. *)
Closed(status) == [status |-> status]
NoEvidence(status) == [status |-> status, sha |-> "", source |-> ""]

BuildPlan(card, p) ==
    LET status == ClassifyRemediation(card, p)
    IN  IF status = "PREPARE_PR"
        THEN [status |-> status, card |-> card, proposal |-> p]
        ELSE Closed(status)

(* Every plan that a card of the dashboard leads to, with the time the card *)
(* was taken.                                                               *)
Plans == {[taken |-> t, proposal |-> p,
           plan |-> BuildPlan(WorkloadCard(Snapshot(Collected[s], t)), p)] :
             s \in Sources, t \in 0 .. Horizon, p \in Proposals}

-----------------------------------------------------------------------------
(* The receipt of a human decision *)

(* Mutant: the receipt is dated ahead of its signing. *)
ReceiptPostdated(word, life) ==
    [candidate |-> decision.candidate, package |-> decision, decision |-> word,
     nonce |-> Cardinality(receipts) + 1, issued |-> clock + 1, expires |-> clock + 2]

(* A receipt with the issuer's signature: whoever holds no key makes none. *)
Receipt(word, life) ==
    [candidate |-> decision.candidate, package |-> decision, decision |-> word,
     nonce |-> Cardinality(receipts) + 1, issued |-> clock, expires |-> clock + life]

(* Mutant: a receipt does not expire. *)
ValidReceiptForever(r, candidate, digest, t, consumedNonces) ==
    /\ r.candidate = candidate
    /\ r.package = digest
    /\ r.decision \in Decisions
    /\ r.nonce \notin consumedNonces
    /\ r.issued <= t

ValidReceipt(r, candidate, digest, t, consumedNonces) ==
    /\ r.candidate = candidate
    /\ r.package = digest
    /\ r.decision \in Decisions
    /\ r.nonce \notin consumedNonces
    /\ r.issued <= t
    /\ r.issued < r.expires
    /\ t < r.expires

-----------------------------------------------------------------------------
(* The consumption ledger: an entry is a request, the digest of the record  *)
(* before it (none before the first) and its own record digest.             *)

RecordDigest(request, previous) == <<request, previous>>

LedgerEntry(request, previous) ==
    [request |-> request, previous |-> previous,
     record |-> RecordDigest(request, previous)]

TailDigest(entries, n) == IF n = 0 THEN <<>> ELSE entries[n].record

(* Mutant: records are verified, their links are not. *)
VerifyLedgerRecords(entries, n) ==
    \A i \in 1 .. n :
        entries[i].record = RecordDigest(entries[i].request, entries[i].previous)

VerifyLedgerChain(entries, n) ==
    \A i \in 1 .. n :
        /\ entries[i].previous = TailDigest(entries, i - 1)
        /\ entries[i].record = RecordDigest(entries[i].request, entries[i].previous)

Collides(request, other) ==
    \/ other.receipt = request.receipt
    \/ other.nonce = request.nonce
    \/ other.key = request.key

(* READY_TO_APPEND; a retry of a consumed operation (IDEMPOTENT_NOOP) and a *)
(* replay, a rebinding or a key collision (HOLD) append nothing.            *)
ReadyToAppend(request, entries, t) ==
    /\ request.status = "APPROVED_FOR_BOUND_ACTION"
    /\ request.consumed <= t
    /\ VerifyLedgerChain(entries, Len(entries))
    /\ \A i \in 1 .. Len(entries) : ~Collides(request, entries[i].request)

Idle == [stage |-> "idle"]

-----------------------------------------------------------------------------
Init ==
    /\ clock = 0
    /\ change \in [candidate : {Base}, proposal : Proposals]
    /\ plan = Closed("HOLD")
    /\ package = NoEvidence("HOLD")
    /\ promoted = Closed("HOLD")
    /\ decision = Closed("HOLD")
    /\ receipts = {}
    /\ consumer = [w \in Consumers |-> Idle]
    /\ ledger = <<>>

(* A plan from a card taken now or earlier. *)
Plan ==
    /\ \E made \in Plans :
         /\ made.proposal = change.proposal
         /\ made.taken <= clock
         /\ plan' = made.plan
    /\ UNCHANGED <<clock, change, package, promoted, decision, receipts, consumer, ledger>>

(* The author pushes: another candidate, that may propose something else. *)
Push ==
    /\ change.candidate < MaxPushes
    /\ \E p \in Proposals :
         change' = [candidate |-> change.candidate + 1, proposal |-> p]
    /\ UNCHANGED <<clock, plan, package, promoted, decision, receipts, consumer, ledger>>

(* The plan's second step: a sandbox run of what the candidate proposes. *)
Validate ==
    /\ plan.status = "PREPARE_PR"
    /\ \E trial \in Trials :
         LET status == ValidateSandbox(plan.card, change.proposal, trial)
         IN  package' = IF status = "PREPARE_PR"
                        THEN [status |-> status, sha |-> plan.card.sha,
                              source |-> plan.card.source]
                        ELSE NoEvidence(status)
    /\ UNCHANGED <<clock, change, plan, promoted, decision, receipts, consumer, ledger>>

Promote ==
    /\ LET m == Manifest(Base, change, package)
           status == ValidatePromotion(m)
       IN  promoted' = IF status = "PREPARE_PR" THEN [status |-> status, manifest |-> m]
                       ELSE Closed(status)
    /\ UNCHANGED <<clock, change, plan, package, decision, receipts, consumer, ledger>>

(* The decision package is asked for the change as it is now, with the      *)
(* manifest of the promotion or one written anew under the same digest.     *)
Decide ==
    /\ promoted.status = "PREPARE_PR"
    /\ \E manifest \in {promoted.manifest, Manifest(Base, change, package)},
          rollbackReady \in BOOLEAN :
         LET req == [base |-> Base, candidate |-> change.candidate,
                     sha |-> promoted.manifest.sha, source |-> promoted.manifest.source,
                     target |-> change.proposal.target, risk |-> change.proposal.risk,
                     production |-> change.proposal.production]
             status == ClassifyDecision(req, promoted.status, manifest,
                                        promoted.manifest, rollbackReady)
         IN  decision' = IF status = "HOLD" THEN Closed(status)
                         ELSE [status |-> status, candidate |-> req.candidate,
                               manifest |-> manifest]
    /\ UNCHANGED <<clock, change, plan, package, promoted, receipts, consumer, ledger>>

(* A human answers a decision package that is not on hold. *)
Sign ==
    /\ decision.status # "HOLD"
    /\ Cardinality(receipts) < MaxReceipts
    /\ \E word \in Words, life \in Lifetimes :
         receipts' = receipts \union {Receipt(word, life)}
    /\ UNCHANGED <<clock, change, plan, package, promoted, decision, consumer, ledger>>

(* A consumer has a receipt validated against the current candidate and     *)
(* package, and makes its request; it may or may not name the nonces that   *)
(* the ledger holds.                                                        *)
Present(w) ==
    /\ consumer[w].stage = "idle"
    /\ \E r \in receipts, key \in Keys,
          known \in {{}, {ledger[i].request.nonce : i \in 1 .. Len(ledger)}} :
         /\ ValidReceipt(r, change.candidate, decision, clock, known)
         /\ r.decision = "APPROVE"
         /\ consumer' = [consumer EXCEPT ![w] =
              [stage |-> "asked",
               request |-> [receipt |-> r, candidate |-> r.candidate, nonce |-> r.nonce,
                            status |-> "APPROVED_FOR_BOUND_ACTION", key |-> key,
                            consumed |-> clock]]]
    /\ UNCHANGED <<clock, change, plan, package, promoted, decision, receipts, ledger>>

(* build_consumption_package on the ledger as it is read now. *)
Examine(w) ==
    /\ consumer[w].stage = "asked"
    /\ consumer' = [consumer EXCEPT ![w] =
         IF ReadyToAppend(@.request, ledger, clock)
         THEN [stage |-> "ready", request |-> @.request,
               previous |-> TailDigest(ledger, Len(ledger))]
         ELSE Idle]
    /\ UNCHANGED <<clock, change, plan, package, promoted, decision, receipts, ledger>>

(* The storage takes the entry, whatever it holds by then. *)
AppendEntry(w) ==
    /\ consumer[w].stage = "ready"
    /\ Len(ledger) < MaxLedger
    /\ ledger' = Append(ledger, LedgerEntry(consumer[w].request, consumer[w].previous))
    /\ consumer' = [consumer EXCEPT ![w] = Idle]
    /\ UNCHANGED <<clock, change, plan, package, promoted, decision, receipts>>

Crash(w) ==
    /\ consumer[w].stage # "idle"
    /\ consumer' = [consumer EXCEPT ![w] = Idle]
    /\ UNCHANGED <<clock, change, plan, package, promoted, decision, receipts, ledger>>

Tick ==
    /\ clock < Horizon
    /\ clock' = clock + 1
    /\ UNCHANGED <<change, plan, package, promoted, decision, receipts, consumer, ledger>>

Next ==
    \/ Plan \/ Push \/ Validate \/ Promote \/ Decide \/ Sign \/ Tick
    \/ \E w \in Consumers : Present(w) \/ Examine(w) \/ AppendEntry(w) \/ Crash(w)

Spec == Init /\ [][Next]_vars

-----------------------------------------------------------------------------
(* Properties *)

(* The counted evidence had no critical failure, a safety rate of 0.99 and  *)
(* was what the claim and the custody record speak of; the other ways have  *)
(* the rate only.  Either way it was not older than allowed.                *)
SafeEvidence(b, t) ==
    /\ b.path = "counted" =>
         /\ b.raw.critical = 0 /\ Rate(b.raw.safe) >= SafetyFloor
         /\ b.claim.raw = b.raw /\ b.custody.raw = b.raw
         /\ Timely(b.artifact.at, t) /\ t < b.custody.expires
    /\ b.path = "artifact" => b.artifact.safety >= SafetyFloor /\ Timely(b.artifact.at, t)
    /\ b.path = "source" => b.reported.safety >= SafetyFloor /\ Timely(b.reported.at, t)
    /\ b.path = "measured" =>
         /\ \A m \in b.batch : m.safety >= SafetyFloor
         /\ b.run.succeeded /\ Timely(b.run.at, t)

SafeBy(source, time) ==
    source \in Sources /\ \E t \in 0 .. time : SafeEvidence(Collected[source], t)

(* What a human is shown: the very candidate that was promoted, inside the *)
(* human boundary, with a sandbox package that passed on the evidence the   *)
(* manifest names, which was safe.  That the sandbox ran this candidate it  *)
(* does not say, since no package names one.                                *)
SoundPackage(d, time) ==
    /\ d.status = "READY_FOR_HUMAN_DECISION"
    /\ d.candidate = d.manifest.candidate
    /\ d.candidate # Base
    /\ ~HumanBoundary(d.manifest)
    /\ d.manifest.package = [status |-> "PREPARE_PR", sha |-> d.manifest.sha,
                             source |-> d.manifest.source]
    /\ SafeBy(d.manifest.source, time)

(* A request to consume a receipt that a human signed with APPROVE for that *)
(* candidate and a sound package about it, and that was valid then.         *)
Approved(q, signed, time) ==
    LET r == q.receipt
    IN  /\ r \in signed
        /\ r.decision = "APPROVE"
        /\ q.nonce = r.nonce
        /\ q.candidate = r.candidate
        /\ r.package.candidate = q.candidate
        /\ q.consumed \in 0 .. time
        /\ r.issued <= q.consumed /\ q.consumed < r.expires
        /\ SoundPackage(r.package, time)

Statuses == {"HOLD", "HUMAN_REVIEW", "MONITOR", "PREPARE_PR"}

(* Type invariant: a document holds one of the statuses its stage returns,  *)
(* and a receipt answers a package that was not on hold, no later than now. *)
GTypeOK ==
    /\ clock \in 0 .. Horizon
    /\ change \in [candidate : 0 .. MaxPushes, proposal : Proposals]
    /\ plan.status \in Statuses
    /\ package.status \in Statuses \ {"MONITOR"}
    /\ promoted.status \in Statuses \ {"MONITOR"}
    /\ decision.status \in {"HOLD", "READY_FOR_HUMAN_DECISION"}
    /\ \A r \in receipts :
         /\ r.decision \in Decisions
         /\ r.package.status = "READY_FOR_HUMAN_DECISION"
         /\ r.issued \in 0 .. clock
    /\ \A w \in Consumers : consumer[w].stage \in {"idle", "asked", "ready"}
    /\ Len(ledger) \in 0 .. MaxLedger

(* A change is prepared on its own only from evidence that was timely,      *)
(* replayed and in custody when the card was taken and that showed neither  *)
(* a critical failure nor an unsafe rate, and only inside the human         *)
(* boundary: a critical failure that the rate hides goes to a human.        *)
PreparedFromSafeEvidence ==
    plan.status = "PREPARE_PR" =>
        /\ SafeBy(plan.card.source, clock)
        /\ ~HumanBoundary(plan.proposal) /\ plan.proposal.reversible

(* A human is asked about the very candidate that was promoted, which       *)
(* crosses no human boundary and comes with a passed sandbox package on     *)
(* evidence that was safe, whatever was pushed, planned or validated anew   *)
(* between promotion and decision.                                          *)
OnlyBoundedChangesReachAHuman ==
    decision.status # "HOLD" => SoundPackage(decision, clock)

(* Every consumed approval is a receipt that a human signed with APPROVE    *)
(* for that candidate and the package about it, and was valid when the      *)
(* consumption was asked for; and what it approved was sound.               *)
ConsumedWasApproved ==
    \A i \in 1 .. Len(ledger) : Approved(ledger[i].request, receipts, clock)

(* A ledger whose chain verifies holds no receipt, nonce or key twice, even *)
(* when two consumers examined the same ledger and both append.             *)
ConsumedOnce ==
    VerifyLedgerChain(ledger, Len(ledger)) =>
        \A i, j \in 1 .. Len(ledger) :
            i # j => ~Collides(ledger[i].request, ledger[j].request)

(* The entries up to which the chain verifies. *)
Linked == {i \in 1 .. Len(ledger) : VerifyLedgerChain(ledger, i)}

Consumption == INSTANCE ApprovalRegister WITH
    signed <- receipts,
    used <- [i \in Linked |-> ledger[i].request]

(* Consumers that examine and append without a lock implement the atomic    *)
(* register of ApprovalRegister: an append is one use or none, it takes no  *)
(* use back, and the one that lost a race is not linked, hence none.        *)
ConsumesAsPromised == Consumption!RSpec
=============================================================================
