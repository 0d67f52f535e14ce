# TLA+ verification of FieldGIS / VL-LOM

This directory holds TLA+ models of the parts of the repository that coordinate
concurrent work through leases, tokens and state machines, the TLC
configurations that check them on small instances, and TLAPS proofs of the most
important results for every value of the constants. `PROJECT.json` lists the
components, runs, mutants, source lines of every definition, findings, hazards
and theorems.

    tlc -workers 2 -config MCSecureTaskIngress.cfg MCSecureTaskIngress
    tlapm SecureTaskIngressProofs.tla

Paths below are relative to `src/`; "schema" is
`vl/migrations/baselines/2026-10-04/remote_schema.sql`.

## 1. The system

The repository is a collection of small runtimes around one idea: work is
described by a signed or certified document, waits in a durable table, is leased
to a worker under an expiring token, and leaves evidence behind.

| component | state it keeps | operations | interacts with |
|---|---|---|---|
| Secure task ingress (`vl/lom-secure-task-ingress-v1/secure_task_ingress.py`) | SQLite: `tasks`, `tenant_state`, `audit_events`, replay tables | `submit`, `claim_next` (sweeps first), `ack`, `nack`, `status`, `verify_audit_chain` | HTTP server submits, handoff claims and settles |
| Ingress HTTP server (`ingress_server.py`) | none | POST: `submit`, GET: `status` (health) | ingress |
| LOM's body (`vl/lom-organism-integration-p0/body_runtime.py`, `organism.py`) | none that lasts; one cycle at a time | `cycle`: probe, homeostasis, preflight record, route, delegate, learn, final record | the eyes (system health) report to it, the execution node works for it, the evidence recorder, learning sink and other organs are callbacks |
| System health (`vl/lom-system-health-p0`) | none (pure) | project and operational health, regression sentinel, portfolio snapshot, eyes' probe | the body |
| Evidence to decision, LOM 6.2 to 6.9 (`vl/lom-6-*`) | each stage's document, held by whoever carries it on | collect, derive, artifact, claim, replay, custody, dashboard, brief, plan, sandbox, promotion, decision package | the next stage; a human |
| Secure task handoff (`secure_task_handoff.py`) | none of its own; one call of `run_once` per task | claim, resolve the grant, execute, ack or nack | ingress, execution node |
| VPS execution node (`vl/lom-vps-execution-node-p0`) | evidence journal (file), `replay_record` (memory) | `VPSBodyExecutorAdapter.__call__`, `execute_node_action`, `ExecutionJournal.append/verify`, the canary's collector and validator | ACP policy; the handoff and the body are its callers |
| ACP runtime policy (`vl/agent-control-plane`) | none (pure) | `evaluate_runtime` | execution node |
| Factory release pipeline (schema) | `factory_runs`, `deployments`, `release_gates`, `approvals`, `release_validation_jobs`, `production_promotion_jobs`, builder profiles | prepare, attest, claim / complete validation, approve, reject, claim / complete promotion, triggers | scheduled workflows, operators |
| Production rollback (schema) | `production_rollback_audits`, `deployments` | request, claim, complete | release pipeline |
| Factory build lifecycle (schema) | `factory_runs`, `factory_runner_jobs` | prepare, claim, complete | hands over to the release pipeline |
| Payments and fulfillment (schema) | orders, payment events | webhook, cancel, refund | build lifecycle |
| Notifications, quotas, alerts (schema) | outbox rows, counters | enqueue, lease, count | everything above |
| Continuity runtime (`vl/lom-agentic-os-p2/runtime.py`) | SQLite: worker lease, checkpoints | `acquire_lease`, `heartbeat`, `checkpoint` | long-running workers |
| Approval receipts and ledger (`vl/lom-6-9-2-*`, `vl/lom-6-9-3-*`) | the ledger's entries, in storage outside `src/` | issue and validate a receipt, examine a consumption, verify the chain | the decision package; consumers |
| Improvement ledger (`vl/lom-continuous-improvement/caie_p1.py`) | ledger file and sealed head; the task board is folded from the lines | `PersistentRunLedger`, `TaskBoard.create / transition / start_attempt`, `EventRouter.ingest`, `AutonomousRemediationRuntime.run` | executor, validator, certifier are callbacks |
| Planning, adapters, improvement decisions, macro evaluation, gates C/D/E, director loop, governance policies, commercial tools | in-memory documents | pure evaluation | - |
| Dart and web clients, edge functions, workflows | user interface, I/O | - | call the schema's functions |

What is hard in it:

* Queue operations read the clock before they get the write lock, so stamps lag
  and commit out of order; leases lapse while their holder works; late answers
  arrive under old tokens.
* The node remembers an execution twice, in a file and in a process, and the
  worker can die between any two steps. The journal checks and then writes
  without a lock.
* In the release pipeline a dozen functions and triggers write four tables that
  must agree; policies, attestations, rejections and artifact expiry arrive at
  any moment between the steps of leased runners that may vanish.
* The improvement ledger is a file that is read, extended and sealed in separate
  steps with no lock. A run is a long loop of such appends around callbacks that
  may raise, and the process may die between any two of its steps.

* The body looks at the world once and then acts for a while; what it saw was
  made of observations of several ages, and what it acts through was built with
  evidence that ages too. Work, journal line, memory, lesson and final report are
  five steps, any of which may fail or be the last.
* A governed change is carried through a dozen documents by somebody else, at any
  pace, while its author pushes and plans anew; each stage trusts what it is
  handed as far as it compares it. Consumers of an approval examine a ledger and
  append to it in two steps without a lock.

What makes each component correct:

* **Ingress**: capacity, rate and attempt bounds in every commit order; nothing is acknowledged too late; the audit trail
  tells the true story; every accepted task settles; one outcome per task.
* **Handoff and node**: nothing is acknowledged that did not run; at most one
  execution per lease; a live lease ends with the word of the worker that holds it
  and no other's; a broken journal stops the node; acknowledged work has
  evidence; identical requests run once (documented, not what the code does).
* **Release pipeline**: nothing is certified, released or shipped in a moment in
  which a frozen gate has no pass, or without a human's approval; the four tables agree; a rejection or failure is final; validation
  and promotion come to an end.
* **Body and health**: it works only on a truth that stood when it looked, on
  signals that are no human's; a process nobody restarts stops acting; nothing is
  written unannounced; PREPARED is said only of what the journal shows; a call
  for a human is not taken back.
* **Governed change**: nothing is prepared on unsafe or stale evidence, however
  it was collected and whatever the rates say; a human is asked about the very
  candidate that was promoted, with a package that passed the sandbox on that
  evidence; what is consumed was approved, in time, for that candidate, and once.
* **Improvement ledger**: an attempt and an event are handed out once, whoever
  shares the file and whoever dies; what is prepared was certified; a stopped
  task stays stopped; a run ends; a restart recovers the board (documented, not
  what the code does).
* **Rollback**: the target is a release that was really in production and still
  is good; at most one rollback of a deployment at a time.
* **Continuity runtime**: one holder of a worker's lease at a time; checkpoints
  form one chain.

## 2. The modules

    TaskDelivery  <--refines--  SecureTaskIngress  <--EXTENDS--  SecureTaskHandoff
                                       ^                               ^
                     SecureTaskIngressProofs,         SecureTaskHandoffProofs,
                     MCSecureTaskIngress              MCSecureTaskHandoff
                                                             ^
                                                      HandoffJournalProofs

    ReleaseClearance  <--refines--+
    LeasedJob  <------EXTENDS-----+-- FactoryRelease  <--  FactoryReleaseProofs,
                                                           MCFactoryRelease

    GovernedRun  <--refines--  ImprovementLedger  <--  ImprovementLedgerProofs,
                                                       MCImprovementLedger

    SystemHealth --+
    Organism ------+--EXTENDS-->  BodyRuntime  <--  BodyRuntimeProofs, MCBodyRuntime
    VpsExecutor ---+

    Evidence  <--EXTENDS--  Remediation  <--EXTENDS--+
    ApprovalRegister  <-----------refines------------+-- GovernedChange
                                                            ^
                                       GovernedChangeProofs, MCGovernedChange

(An arrow points at the module that is extended, except the three of `BodyRuntime`,
which extends the modules on their left.)

### SecureTaskIngress

One action per operation; each is one `BEGIN IMMEDIATE` transaction.

* `tasks`, `lastClaim` and `audit` are the tables. `audit[t]` is the subsequence
  of `audit_events` about `t`; the digest chain over the whole table is left out,
  since rows are only ever appended under the write lock.
* A lease token is the number of the lease it was drawn for. Only freshness
  matters: the code draws 24 random bytes per claim.
* `Stamps` is the set of clock readings a transaction that commits now may have:
  `now_epoch` is read before `BEGIN IMMEDIATE`, which may wait for
  `BusyTimeout`. That is where commits in the opposite order of their stamps
  come from.
* `ClaimNext` and `ClaimNothing` contain the whole sweep over every row, as the
  code does in the same transaction.
* Calls the code rejects (bad signature, wrong envelope, replayed id, wrong or
  expired token, full queue) leave the store as it was and are not actions. A
  valid envelope is a precondition of `Submit`: issued at or before the stamp,
  unexpired, living for at most `MaxTtl`.

`TaskDelivery` is what the queue promises about a task to somebody who sees
neither clocks nor tokens: accepted once, leased at most `MaxAttempts` times,
one at a time, one outcome. A claim sweeps many rows, so a step of
`TaskDelivery` lets every task take a transition of its own.

### SecureTaskHandoff

Extends the queue with workers. `worker[w]` is where `run_once` is:

    idle -> claimed -> granted -> verified -> writing -> executed -> (ack)
               |          |           |          |
            refused    refused/     failed     failed  -> (nack)
                       failed

`Replay` goes straight from `granted` to `executed` (same input) or `refused`
(same action id, another input). `Verify` is `execute_node_action`'s own look at
the journal, `AppendCheck` the second one in `ExecutionJournal.append`,
`AppendWrite` / `AppendFail` the write. A journal line is whole, torn, or has
lost only its line feed, in which case the next record lands on the same line of
the file (`ParsesAt`). `Settle` ignores what `ack` and `nack` answer, as
`run_once` does. `Abandon` is an exception `run_once` does not catch
(`grant_loader`, `ack`, `nack`); `Crash` may happen anywhere and empties
`replay_record`. Who may settle a lease is a question about the queue and its
workers together, so `LiveLeaseKept` is stated here: what ends a live lease is the
settlement of the worker it was granted to, not one under an earlier token. Activation gate, request, scope and ACP checks depend on nothing
in the model and are one choice to refuse (`Deny`).

The process that calls `run_once` is outside `src/`. It is taken to keep one
`replay_record` per process and one journal per node, which is how the adapter's
tests wire it.

### LeasedJob and FactoryRelease

`LeasedJob` is a row of a job table and what claims and answers do to it; two
tables of the pipeline share it. Its token is the attempt it was drawn for. A
row whose lease ran out is in the state `lapsed` (still `leased` in the table):
no two expiries are ever compared, so no clock is kept.

`FactoryRelease` has one record per candidate for the rows that share a factory
run's id (run, deployment, approval, gates) and its two jobs. Every function is
one transaction that locks what it decides on, hence one action; a call that
raises changes nothing and is no action. Points worth knowing when reading it:

* The triggers are part of the actions: `Prepare` freezes the live policy (the
  schema keeps the snapshot immutable, 1506-1514), `Guarded` is
  `enforce_production_deployment_guard`.
* The human and lock gates are only written together with the approval, so
  `decision` stands for the three. `approve` and `reject` may only be called by
  the right person with AAL2: that is a precondition. So are the builder key and
  a ready production environment at `Prepare`.
* `workflows` mirrors the run and is never read back; it is left out.
* `EvaluateServerGates` is `evaluate_vrs_release_server_gates`. The validator's
  workflow requests it after each claim (`.github/workflows/vl-release-validator.yml:66-81`),
  but the function compares no lease, token or status: it may come at any time after
  `Prepare`. It judges the database's own gates (`ServerGates`) on the database's
  state, `rollback_contract` also on the deployment's status and the run's lock, read
  without a lock on either; what it sees is a choice per gate. So a gate may be taken
  back from a certified, approved or deploying release.
* `adapter` is the production adapter's row: active and configured (`ready`),
  configured only (`inactive`), or neither. The approval looks at configured only,
  the promotion's claim at both (`Selectable`). The candidates are those of one
  builder, so there is one adapter and one gate profile; other builders' jobs in the
  line are not modelled.
* Validation claims use `SKIP LOCKED`, so any claimable row may come next. There
  is one promoter (the workflow's concurrency group), so promotion takes the
  oldest claimable job (`First`) and no other.
* A job queued while the adapter is not configured is `blocked`; no function of
  the schema ever unblocks it.

`ReleaseClearance` is what the tables promise of a candidate to somebody who sees
neither jobs nor leases nor the live policy: its gates pass and are taken back at
any time, but it is cleared, released and shipped one after the other, once, and
only in a moment in which no gate is missing; once dropped it stays dropped. `Stage` reads the stage off the
deployment's status and the decision; the missing gates are the frozen ones without
a pass (`Clearance`).

### ImprovementLedger

The two files are one record: how many lines there are (`length`), which line the
head names (`head`), whether each line carries its own number (`sound`) and
whether the fold accepts them (`legal`). `board` and `rejected` are the fold
itself. Digests are left out: two writers that read the same file give their
lines the same number, so a broken chain shows in the numbers. A read takes one
step, although `records` reads the lines and then the head: it succeeds or fails
as a read at one instant in between would.

An operation of the board is `Check` (its read and guard), then the append
(`AppendRead`, `AppendLine`, `Seal`), then `Confirm` (its read afterwards).
`worker[w].then` is where the caller goes on. `EventRouter.ingest` and
`AutonomousRemediationRuntime.run` are decisions between such appends: what the
executor, validator, scorers and certifier answer, or that they raise, is a
choice. `Verdict` is what the checks on an event's fields say; `run` repeats them
on the task and so comes to the same verdict. `Create` and `Settle` are the
board's own entry points, called by somebody else: a task nobody ingested, and a
person who stops one. `Stop` is the death of a process, or an `OSError` that its
caller does not survive, between any two steps; the line it was writing may be
torn.

`ghost` counts what a file cannot show: calls of the executor, answers ACCEPT,
and the attempt the certifier passed.

The documents restrict the ledger to one writer and promise that it "fails
closed" otherwise (`CAIE_P1.md:26`). Two workers are modelled to see what that
amounts to.

`GovernedRun` is one task as seen by somebody who knows one process and no file:
answered once, one attempt after the other, each with the executor once, prepared
on a cleared last attempt only, and final when it is prepared or stopped. It says
openly what the code allows in addition: an attempt may start, and run, after its
task was stopped. `Governed` maps the board and the history to it.

### SystemHealth, Organism, VpsExecutor and BodyRuntime

The first three are functions without state, each branch in the order of the code:

* `SystemHealth` says how well a project is (`ProjectHealth`), how well LOM itself
  is (`OperationalHealth`), whether the golden journeys still pass
  (`RegressionSentinel`), what the portfolio comes to (`PortfolioSnapshot`) and what
  the body's eyes report of it (`EyesProbe`). An observation keeps its times and
  says of each comparison how it turns out.
* `Organism` makes one health of the organs' reports (`Homeostasis`) and one class
  of action of a signal (`ActionClass`), by the first rule that applies.
* `VpsExecutor` is the node's decision on a request of the body: the canary's
  evidence and its validation, the activation gate, the delegation's checks, the
  ACP policy (`EvaluateRuntime`) and `execute_node_action` up to the handler
  (`NodeDecision`). `NodeChecks` runs the node's own decision on the collector's
  probes, so a node that decided otherwise would fail its canary. The adapter hands
  the node an empty environment, so the node's look for production secrets is
  vacuous there; the canary's is not.

`BodyRuntime` runs cycles of a process on the node:

    asleep -> preflight -> signals -> writing -> learn -> signals ... -> final -> asleep

`Sense` probes and loads the batch; a body that is held or failed ends the cycle.
`Preflight` waits for the recorder's answer. `Dispose` and `Refuse` deal with what
is not work, or not now. `Delegate` is the executor's decision, by its own clock and
the journal as it is then, and the journal's second look (`append` numbers the
line). `AppendWrite` puts the line on disk and then remembers the action in the
process; `AppendFail` is a write that raises before, in or after the line. `Learn`
offers the lesson, which the sink may refuse after the work is done; `Finish`
records the final envelope, if the recorder takes it. `Crash` is the death of the
process between any two steps; another one is started with the canary evidence it
finds and an empty memory. A batch, once begun, is worked through with the findings
and the clock reading of its beginning: that is the code.

`Findings` are all the ways the organs may be found at the time of `Sense`: the
portfolio assessed now or earlier, from observations of that moment or the one
before, with a project left out or a project twice. `grounded` keeps whether what
was looked at warranted work, reckoned from the assessments themselves and not from
what the snapshot says of them; it is history and is read by properties only.

### Evidence, Remediation and GovernedChange

`Evidence` is the way from counters to a health: rates in millionths with the code's
rounding, the 95th percentile, the artifact's checks and thresholds, the claim, its
replay, the chain of custody, and the older ways (a plain artifact, a reported
source, a measured batch) that the collector still accepts. `Remediation` has the
verdicts of the stages after it: the card of the dashboard, the class of the brief,
the planner, the sandbox, the promotion manifest and the decision package. A
manifest carries the validation package it was made with, as its digest does in the
code; the digest of the rollback plan goes with the candidate.

`GovernedChange` is one workload's change on its way. One action per stage
(`Plan`, `Validate`, `Promote`, `Decide`, `Sign`), each a whole function of the code
on documents that were handed to it now or earlier; `Push` puts another candidate
with another proposal in the branch at any time, between validation and promotion
too: the sandbox's package names no candidate, so the one promoted with it need not
be the one that was in the sandbox, and `SoundPackage` does not say so. The order of the stages is that of
`canonical-chain.json`; no code of `src/` carries a document from one stage to the
next, so any delay and any repetition is possible. `Decide` may be given the manifest
of the promotion or one written anew under the same digest.

A consumer of an approval goes through `Present` (the receipt is validated),
`Examine` (`build_consumption_package` on the entries it is given) and `AppendEntry`
(the storage outside `src/` takes the record, whatever it holds by then), and may
stop before each. A digest is the document it is a digest of, a signature the fact
that a human signed.

`ApprovalRegister` is what that amounts to: receipts are signed, and an approving
one is used at most once, in one atomic step. The ledger implements it for a reader
who goes by the entries up to which the chain verifies (`Linked`): an append that
does not extend a verified chain is no use.

## 3. The runs

| run | configuration | shows | distinct states |
|---|---|---|---|
| `ingress` | two tenants, three tasks of two priorities, queue of 2, one submission per tenant and clock reading, 2 attempts, lease 2, lock wait 1, clock to 5 | capacity, rate, leases, audit trail, deadlines, refinement of `TaskDelivery` (and with it the bound on attempts), every task settles | 500,469 |
| `handoff` | two workers, two tasks with one request, clock to 3 | `AckedWasExecuted`, `OneRunPerLease`, `LiveLeaseKept`, `BrokenJournalStops` | 1,388,161 |
| `handoff-live` | one worker that may crash, two tasks with one action id and different inputs, clock to 4 | `AckedIsEvidenced`, `WorkSettles` | 433,597 |
| `handoff-twice` | one worker that crashes, one task that is never reported as failed | `IdenticalRunsOnce` is violated | - |
| `release` | two candidates, three gates (the build's, the attestation, one the database judges), two policies, three adapter states, 2 attempts | the pipeline's safety and progress, refinement of `ReleaseClearance` | 838,086 |
| `release-policy` | the same without the database's gate, adapter ready | `FrozenPolicyDecides` is violated | - |
| `release-lease` | as `release-policy` | `ExpiredLeaseReclaimed` is violated | - |
| `improvement` | two processes, one event, one remediation, one death | attempts, events and certificates are not handed out twice, refinement of `GovernedRun` (stops are final) | 2,829,921 |
| `improvement-live` | one process that stays up, three events, one remediation each | `TypeOK`, `RunsConclude` | 515,477 |
| `improvement-restart` | one process, one death | `RestartRecovers` is violated | - |
| `organism` | one body process and its successors, two organs, two projects, two batches of two signals, journal of 2 lines, clock to 4 | work on current truth, admission lapses, announced before written, PREPARED is backed, asked stays asked | 1,843,192 |
| `governance` | one change, sixteen ways its evidence was collected, three proposals, two candidates, two consumers, two receipts | preparation on safe evidence, sound packages, approved and single consumption, refinement of `ApprovalRegister` | 495,132 |

**Bounds.** The code's own bounds (queue 64, life 900 s, 30 submissions a minute,
3 attempts) are scaled to 1..3 so that each is reached: three tasks compete for
two places in the queue, the rate refuses a tenant's second task until its window
has passed, and with two attempts a lease can be retried and then exhausted. A
lease of 2 is capped by its task's life of at most 2 when it is claimed late, and
lapses before the task of a queue that waited does not; the rate's window is a
single clock reading, whose end it includes (every width is covered by the proof
of `RateLimited`). In `release` the two
policies require different gates, the build's and one the database judges against
the attestation, so the live one neither contains the frozen one nor lies in it; in
`release-policy` one contains the other. Two candidates let one hold up the other in
the promotion line. The only bounds the code does not have
are the clock's: `Horizon` stops it, and `LastSubmission` stops submissions early
enough that the last of them expires, and every stamp passes its expiry, before
it does. Two workers make the unlocked append race; there is no third role a
third worker could play. In `organism` there is
one process at a time, as on the node; a death and a successor with other evidence
take the place of a second one, and the journal it left behind may be torn. Four
clock readings let a snapshot, an organ's report, a signal and the canary each lapse
within a cycle. An assessment lives for one tick and an organ's report may be two
old, so a portfolio of which one assessment has lapsed and another not reaches the
body in a report that is recent enough: there the earliest of the lives decides; one batch is work twice, the other a human's
matter followed by work. In `governance` every source has one thing wrong at most,
so that each check is the one that decides; only the source `counted` is both
accepted and in need of a change that may be prepared alone. Two receipts and two consumers
make them examine the same ledger; consumers and idempotency keys are symmetric.
One remediation
makes a second attempt and its exhaustion happen; one death, with a restart, can
fall between any two steps. Workers of `handoff` and `improvement` are symmetric; no run with a
liveness property uses symmetry.

In `ingress` and the `handoff` runs the clock reaches `Horizon`, but
polling remains possible, so those runs check for deadlock. The runs of
`ImprovementLedger` do not: once the file is unreadable and the processes have
stopped there is nothing left to do, and that is what the code does. Nor does
`governance`: a change may come to rest with a full ledger.

**Fairness.** `ingress`: time passes and somebody polls. The worker service
is `lom-worker.service` (`vl/lom-governance/COMPLETE_BODY_STATUS.md:99`,
`vl/lom-system-health-p0/VPS_OPERATIONAL_HARDENING.md:13`); its loop is outside
`src/`, so the result is conditional on it. Acknowledgements are never assumed.
`handoff-live` adds that a call of `run_once` that started ends, by itself or by a
crash; crashes have no fairness, but may happen for ever. `release`: the claims of
`.github/workflows/vl-release-validator.yml` and `vl-production-promoter.yml`,
scheduled every five minutes, one weak fairness each, whatever job the claim finds;
and leases that time out. That a claimed job is
ever answered is not assumed, so the progress properties name what remains when
runners vanish: `ValidationConcludes` excepts a candidate whose last lease ran
out (its row stays leased, its deployment planned), and `PromotionConcludes`
excepts a job that is jammed (its lease or artifact ran out, or the database took a
gate back), one behind a jammed one, and times at which the adapter is not active and
configured: its claim then selects nothing, as the checklist
`vl/COMMERCIAL_LAUNCH_GAP_CLOSURE.md:36` reports of a canary that stayed queued.
`improvement-live`: a call that was made runs on (`WF_vars(Proceed(w))`), as a
Python call does in a process that stays up; nobody has to make one, and the
callbacks are assumed to return or raise.

## 4. What the checks found

Four statements of the repository's documents do not hold of its code.

1. **Identical requests run again after a crash** (`handoff-twice`). The node's
   README says identical requests return replay evidence. The replay record is
   process memory, written after the journal, and the journal is not consulted
   for it. In the run the worker dies with the line on disk, before it could
   acknowledge; its lease lapses, the task is claimed anew while it still lives, and
   a second line of the same request is written. Tasks that a worker reported as
   failed are left aside: those are meant to be tried again. What does hold is `OneRunPerLease`: the attempts bound the executions.
2. **The live policy decides an approval** (`release-policy`).
   `approve_production_release` recomputes the required gates from the live
   profile, against the comment at schema:4855. A certified candidate can become
   impossible to approve. The trigger still checks the frozen gates, so nothing
   is approved or shipped in a moment in which one of them has no pass
   (`ClearsAsPromised`, proved).
3. **An expired promotion lease is not reclaimed** (`release-lease`). The claim
   selects the job and then refuses it because its deployment is `deploying`;
   being the oldest claimable row, it holds up all younger ones.
4. **A process that dies between line and head leaves a dead ledger**
   (`improvement-restart`). The line is durable before the head is replaced, and a
   head that lags by one line is refused like a forged one, by the constructor
   too. The documents promise recovery of the board on restart.

The journal model shows one more limit, stated in `AckedIsEvidenced`: a write that
loses only its line feed leaves a journal that still verifies, and the next
record shares its line; that record's task is acknowledged, and the journal is
broken from then on.

`ImprovementLedger` shows one as well. When two processes share the file, a stop
that lands between `start_attempt`'s read and its append does not make the
attempt illegal, since the fold checks only its number: the executor is called
once for a task that is stopped already. The task stays stopped
(`StoppedStaysStopped`, proved): the run's next transition is refused.

## 5. What is proved

For every value of the constants that satisfies the named assumptions
(`TasksAssumption`, `EnvelopeAssumption`, `BoundsAssumption`, `RequestsAssumption`,
`GatesAssumption`, `MaxAttemptsAssumption`, `VerdictAssumption`, `BudgetAssumption`,
`MaxStopsAssumption`, `BodyAssumption`, `SightAssumption`, `EvidenceAssumption`,
`GovernedAssumption`: finite sets, natural or positive bounds, non-empty policies,
a verdict for every event, observations that have a time, batches that are sequences
of signals, bundles that know their source).

**SecureTaskIngressProofs** proves every safety property of the `ingress` run:
types, leases, attempts, capacity, rate, audit trail, deadlines
and the refinement of `TaskDelivery`. A claim may change every row at once, so
the argument goes through one lemma, `StepByRow`: whatever the transaction, each
task's row and trail take one of six small steps. Invariants of single rows
(types, `LeaseSound`, `AttemptsBounded`, `AuditTellsAll`) follow from those six
steps. `QueueBounded` and `RateLimited` count rows: only `Submit` adds to the
counted set, by one, and it has just compared the count with the bound. For the
rate this is not enough, since submissions commit in any order of their stamps;
the invariant therefore speaks of each window that starts at an accepted task,
and `Submit`'s closed window contains any such window that the new task is in.
`AckedInTime` needs `LeaseSound` (the cap by the task's
expiry) and that stamps never run ahead of the clock.

**SecureTaskHandoffProofs** proves `HTypeOK`, `AckedWasExecuted`, `OneRunPerLease`
and `LiveLeaseKept`, and that `HSpec` implies the queue's own `Spec`, so that every
theorem about the queue, `DeliversAsPromised` included, holds of the system with
its workers. The invariant `HInv` follows leases: a busy worker holds a lease that
was issued (`WorkersSound`), no two workers hold the same one (`LeasesApart`), and
as long as a worker may still write there is no record of its lease. It follows
evidence too: replay records and workers that answer "executed" speak only of
requests that ran (`ReplaysRan`). Each action is first shown to be a `StepOf` one
worker, and each conjunct is then proved from what such a step may change. That a
live lease ends by its own worker's settlement (`LiveLeasesAreKept`) holds because a
claim's sweep goes by a stamp that never runs ahead of the clock, and a settlement
is taken only under the token on the row.

**HandoffJournalProofs** is about the evidence journal, which the workers append to
without a lock. `BrokenJournalStops` counts lines against workers and is not
inductive: one line more past the break must be paid for. `JInv` follows the file
from append to append. There always is a line up to which it verifies
(`VerifiesTo`); an append extends that part, ends it for good, or takes back the
line before it, whose line feed was lost. A worker turns to `writing` only on a
journal that verifies to its end, so once it does not, every stray line stops a
worker that was writing before: the stray lines are at most as many as the workers
that are not writing (`Stray`, `Stopped`). `AckedIsEvidenced` is proved for a node
with one worker, as the run checks it: nobody else appends between its look at the
journal and its write, so the number of its line is still right, and what it wrote
whole, remembers, answers or has acknowledged is in the verified part or on a shared
line (`Evidenced`, `EInv`). With two workers it is false: the second of two lines
with one number is whole, acknowledged and past the part that verifies.
`ExecutionsAreBounded` combines `OneRunPerLease` with the bound on leases: a task
leaves at most `MaxAttempts` records of executions, wherever workers crash.

**FactoryReleaseProofs** proves every safety property of the `release` run,
`TypeOK`, `ReleasedWasCleared`, `JobsMatchReleases`, `NeverOverruled` and
`ClearsAsPromised`; `FailedNeverShips`, a consequence of the last two, is proved on
its own. What the run checks is not inductive: `StatusMatchesJobs`
alone allows a certified, rejected release to be approved. `Inv` adds the link
from status to decision (`DecisionMatches`), the frozen gates of certified
releases (`PassedGates`), and what doomed a failed release (`Doomed`). Every
action but `SetPolicy` moves one candidate, so the invariant is proved one
candidate at a time. `ReleasesClearAsPromised` is the refinement of
`ReleaseClearance`: each action moves the abstract candidate by one of its steps or
leaves it alone (`Advances`, `StepClears`). `PassedGates` says
what is left of a clearance afterwards: from certification on, a frozen gate without
a pass is one that the database judges (`JudgedRelease`, `EvaluateKeeps`), since no
validator's late answer is taken any more; that nothing moves on while it is without
one is the trigger's doing.

**ImprovementLedgerProofs** proves every safety property of the `improvement` runs but
`RestartRecovers`, which does not hold,
for any number of processes and deaths. The invariant `IInv` is about a *good*
file, one whose lines are sound and legal; a file that is not good never becomes
good again, and no process reads it back. In a good file the line that moved a
task out of `QUEUED` has one writer, the owner of the run, and only owners write
attempts (`OwnersSound`, `OneOwner`); the line that created a task has one
writer too (`FoundersSound`, `AcceptersSound`). That is why reading back after an
append is enough: who reads a good file back after its own line knows that the
line is its own. Most steps give no process a role it did not have (`Eases`,
`EasedKeeps`); writing the line, reading it back, the certifier's approval and
the answer ACCEPT do, and each has a lemma of its own.
`TasksAreGoverned` is the refinement of `GovernedRun`. The board's transitions give
the order of the stages (`StagesFollow`); that an attempt is started only when the
one before it was with the executor needs `RanFirst`, which the other theorems do
not. Four kinds of step move the abstract task, each with a lemma (`AnswerGoverns`,
`ApproveGoverns`, `ConfirmGoverns`, `PlacedGoverns`); the rest stutter.

**BodyRuntimeProofs** proves every property of the `organism` run, for any number of
processes that share the node's journal. Its first half is about the functions: a
portfolio is healthy only if every assessment is there and healthy, and fresh no
longer than the first of them to lapse (`HealthySnapshot`; that the earliest of a set
of times exists needs well-foundedness, `EarliestIsLeast`); a body is healthy only if
every organ said so (`HomeostasisIsHealthy`); so a finding that says HEALTHY is
grounded (`FindingIsGrounded`). The second half is the invariant `BInv`. What the
run checks is not inductive: that PREPARED is backed by the journal depends on what
a cycle passed by before (`CycleSound`: every signal before the current one is dealt
with as long as the status is PREPARED or MONITOR), and a retry that is answered
IDEMPOTENT_NOOP on the process's memory being in the journal (`ProcessSound`). Lines
and envelopes are never taken away (`Grows`), so what other cycles rest on stays.

**GovernedChangeProofs** proves every property of the `governance` run, for any
evidence, proposals, consumers and bounds. `GInv` follows the documents: each is
sound about the one before it, and what was safe evidence at some time stays evidence
that was safe then. `LInv` is about the ledger: every prefix that verifies repeats
nothing, and a consumer about to append holds the tail digest of a verified prefix it
examined; if its entry extends the chain, that prefix was the whole ledger.
`ConsumptionIsAtomic` is the refinement of `ApprovalRegister`: a consumer's three
steps, with other consumers' steps between them, amount to one atomic use of a
receipt, made by the append that extends the verified chain (`AppendLinks`,
`AppendUses`); every other append leaves what a verifying reader goes by as it was.

**Only model-checked**: all liveness (`EveryTaskSettles`, `WorkSettles`,
`ValidationConcludes`, `PromotionConcludes`, `RunsConclude`), which needs fairness
and ENABLED and is outside the prover's reach, and the four statements that do not
hold. Every safety property of a passing run is a theorem.

## 6. Not modelled

* Cryptography (HMAC signatures, digest chains) and envelope validation: what a
  valid document is, is a precondition. So are the improvement ledger's key and
  digests; its scorers' weighted sum is a choice of passed or failed.
* Identity, roles, assurance level and separation of duties: preconditions of the
  human decisions.
* The wording of results and HTTP status codes. `run_once` reports success
  whatever `ack` answered; its result goes to a process outside `src/`.
* In the release pipeline: the jobs and adapters of other builders, and
  `sync_successful_rollback_rehearsal_gate`, which sets a gate from a rollback. In the
  run the database's gates are one gate.
* Which candidate was in the sandbox: the validation package does not name one
  (`vl/lom-6-7-autonomous-validation-sandbox/sandbox.py:63-83`), the promotion copies
  the one it is handed. A candidate pushed after the validation is promoted with the
  package of the one before, and no property here excludes it.
* What carries a document from one stage of a governed change to the next, the
  storage of the approval ledger, and the observers that make health observations:
  they are outside `src/` and modelled as free to do so at any time.
* Of the stages modelled: the sandbox's isolation profile and its score, the order
  of the brief's queues, the operational evidence fabric (6.11), the cross-system
  evidence ledger, and the body's evidence and learning adapters.
* The macro evaluation and the continuity runtime (`vl/lom-agentic-os-p2`).
* The pure evaluators (planning, improvement decisions, governance policies,
  commercial tools): functions of one document without state.
* Clients, edge functions and workflows: I/O around the functions modelled here.

## 7. Plan

Built: the queue, its workers, the release pipeline, the improvement ledger, the
body with its eyes and hands, the governed change up to the approval ledger, and
their theorems. What would follow, in the order of importance:

1. `ProductionRollback`, extending `FactoryRelease` with the order of shipping:
   request (schema 2652-2700), claim (4242-4317), completion (4482-4538), gate
   synchronisation (3451-3487). Properties: the target was in production and has
   not been rolled back itself; one rollback of a deployment at a time; a failed
   rollback leaves the deployment deployed. Bounds: three releases of a project.
2. `ContinuityLease`: `acquire_lease` reads and then writes; two workers, one
   lease, a crash. Properties: one holder at a time, checkpoints form a chain.
3. `FactoryBuild`: runner jobs as `LeasedJob` rows up to the point where
   `Prepare` takes over, composed with `FactoryRelease`.
4. `PaymentOrder`: webhook events delivered twice or out of order against
   cancellation and refund.
5. The agent delegation store
   (`vl/migrations/20260831_agent_control_plane_store.sql`): budgets that children
   inherit.
6. The body and the task queue as two callers of one node and one journal:
   `BodyRuntime` and `SecureTaskHandoff` composed.
7. `ReleaseClearance` for a system with rollbacks: what `FactoryRelease` and
   `ProductionRollback` implement together.
