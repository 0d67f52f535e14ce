------------------------- MODULE SecureTaskIngress -------------------------
(***************************************************************************)
(* The durable queue of src/vl/lom-secure-task-ingress-v1: a SQLite table  *)
(* of signed tasks, leased to workers under an expiring token, recovered   *)
(* by the sweep that opens every claim, and audited event by event.        *)
(*                                                                         *)
(* Every operation is one BEGIN IMMEDIATE transaction, hence one action.   *)
(* An operation reads the clock BEFORE it asks for the write lock, and the *)
(* connection waits up to `timeout' seconds for that lock: a transaction   *)
(* therefore runs with a stamp that may lag the clock by BusyTimeout, and  *)
(* two transactions may commit in the opposite order of their stamps.      *)
(* Rejections leave no trace in the store and are not actions.             *)
(***************************************************************************)
EXTENDS Integers, Sequences, FiniteSets

CONSTANTS
  Tasks,           \* task ids, as numbers ordered like the ids
  Tenants,
  TenantOf,        \* TenantOf[t], Priority[t]: fields of t's signed envelope
  Priority,
  MaxQueue,        \* max_queue
  MaxTtl,          \* max_ttl_seconds
  RateWindow,      \* the 60 seconds of the rate limit
  MaxPerWindow,    \* max_submissions_per_minute
  MaxAttempts,     \* max_attempts
  LeaseDurations,  \* the values callers pass as lease_seconds
  BusyTimeout,     \* the connection's lock wait
  Horizon          \* bound: the clock stops here

ASSUME TasksAssumption == Tasks \subseteq Nat /\ IsFiniteSet(Tasks)

ASSUME EnvelopeAssumption ==
  /\ TenantOf \in [Tasks -> Tenants]
  /\ Priority \in [Tasks -> Nat]

ASSUME BoundsAssumption ==
  /\ MaxQueue \in Nat \ {0}
  /\ MaxTtl \in Nat \ {0}
  /\ RateWindow \in Nat
  /\ MaxPerWindow \in Nat \ {0}
  /\ MaxAttempts \in Nat \ {0}
  /\ LeaseDurations \subseteq Nat \ {0}
  /\ BusyTimeout \in Nat
  /\ Horizon \in Nat

VARIABLES
  now,        \* the wall clock
  tasks,      \* the tasks table, one row per task id
  lastClaim,  \* tenant_state.last_claim_at, 0 where there is no row
  audit       \* audit_events, as the sub-trail of each task

vars == <<now, tasks, lastClaim, audit>>

Settled == {"ACKED", "HOLD"}
States == {"ABSENT", "PENDING", "LEASED"} \cup Settled

\* A lease token is the number of the lease it was drawn for; 0 is NULL.
Row == [state : States, accepted_at : Nat, expires_at : Nat,
        lease_token : Nat, lease_expires_at : Nat, attempt_count : Nat]

NoRow == [state |-> "ABSENT", accepted_at |-> 0, expires_at |-> 0,
          lease_token |-> 0, lease_expires_at |-> 0, attempt_count |-> 0]

EventTypes == {"TASK_ACCEPTED", "TASK_HELD", "LEASE_RECOVERY",
               "LEASE_ACQUIRED", "TASK_ACKED", "TASK_NACKED"}

\* An event and the state it says the task is in from now on.
Event == [type : EventTypes, state : States]
Ev(type, state) == [type |-> type, state |-> state]

Init ==
  /\ now = 1
  /\ tasks = [t \in Tasks |-> NoRow]
  /\ lastClaim = [x \in Tenants |-> 0]
  /\ audit = [t \in Tasks |-> <<>>]

\* The clock readings a transaction that commits now may be running with.
Stamps == {s \in 1..now : now - s <= BusyTimeout}

Earlier(a, b) == IF a <= b THEN a ELSE b

-----------------------------------------------------------------------------
(* Submission *)

\* Mutant: leased tasks do not count against the capacity.
ActiveWaitingOnly == {t \in Tasks : tasks[t].state = "PENDING"}

Active == {t \in Tasks : tasks[t].state \in {"PENDING", "LEASED"}}

\* Mutant: the window is open at its old end.
RecentOpenWindow(x, s) ==
  {t \in Tasks : /\ tasks[t].state # "ABSENT"
                 /\ TenantOf[t] = x
                 /\ tasks[t].accepted_at > s - RateWindow}

Recent(x, s) ==
  {t \in Tasks : /\ tasks[t].state # "ABSENT"
                 /\ TenantOf[t] = x
                 /\ tasks[t].accepted_at >= s - RateWindow}

\* Bound: submissions stop early enough for the last of them to expire, and
\* for every stamp to have passed its expiry, before the clock does.
LastSubmission == Horizon - MaxTtl - BusyTimeout

\* Mutant: the row is given the event's name for a state.
AcceptedRowMisnamed(s, expires) ==
  [NoRow EXCEPT !.state = "ACCEPTED", !.accepted_at = s, !.expires_at = expires]

AcceptedRow(s, expires) ==
  [NoRow EXCEPT !.state = "PENDING", !.accepted_at = s, !.expires_at = expires]

\* submit: a new id under the tenant's rate and the queue's capacity. The
\* envelope is valid: it was issued at or before s, has not expired at s and
\* lives for at most MaxTtl.
Submit(t, s, expires) ==
  /\ now <= LastSubmission
  /\ expires \in (s + 1)..(s + MaxTtl)
  /\ tasks[t].state = "ABSENT"
  /\ Cardinality(Recent(TenantOf[t], s)) < MaxPerWindow
  /\ Cardinality(Active) < MaxQueue
  /\ tasks' = [tasks EXCEPT ![t] = AcceptedRow(s, expires)]
  /\ audit' = [audit EXCEPT ![t] = Append(@, Ev("TASK_ACCEPTED", "PENDING"))]
  /\ UNCHANGED <<now, lastClaim>>

-----------------------------------------------------------------------------
(* The sweep, and the claim it opens *)

ExpiredPending(r, s) == r.state = "PENDING" /\ r.expires_at <= s

\* Mutant: the lease of an expired task is forgotten.
LapsedLeaseUnexpired(r, s) ==
  r.state = "LEASED" /\ r.lease_expires_at <= s /\ r.expires_at > s
LapsedLease(r, s) == r.state = "LEASED" /\ r.lease_expires_at <= s

\* Mutant: recovery forgets max_attempts.
RecoveredStateUnbounded(r, s) ==
  IF r.expires_at <= s THEN "HOLD" ELSE "PENDING"

RecoveredState(r, s) ==
  IF r.expires_at <= s \/ r.attempt_count >= MaxAttempts THEN "HOLD" ELSE "PENDING"

\* The row once its lease is over.
Released(r, state) ==
  [r EXCEPT !.state = state, !.lease_token = 0, !.lease_expires_at = 0]

SweptRow(r, s) ==
  IF ExpiredPending(r, s) THEN [r EXCEPT !.state = "HOLD"]
  ELSE IF LapsedLease(r, s) THEN Released(r, RecoveredState(r, s))
  ELSE r

Swept(s) == [t \in Tasks |-> SweptRow(tasks[t], s)]

\* Mutant: every recovery is recorded as a return to the queue.
SweepEventsHopeful(r, s) ==
  IF ExpiredPending(r, s) THEN <<Ev("TASK_HELD", "HOLD")>>
  ELSE IF LapsedLease(r, s) THEN <<Ev("LEASE_RECOVERY", "PENDING")>>
  ELSE <<>>

SweepEvents(r, s) ==
  IF ExpiredPending(r, s) THEN <<Ev("TASK_HELD", "HOLD")>>
  ELSE IF LapsedLease(r, s) THEN <<Ev("LEASE_RECOVERY", RecoveredState(r, s))>>
  ELSE <<>>

SweptAudit(s) == [t \in Tasks |-> audit[t] \o SweepEvents(tasks[t], s)]

Claimable(s) ==
  {t \in Tasks : Swept(s)[t].state = "PENDING" /\ Swept(s)[t].expires_at > s}

\* ORDER BY priority DESC, last_claim_at ASC, accepted_at ASC, task_id ASC.
Before(t, u) ==
  LET lt == lastClaim[TenantOf[t]]
      lu == lastClaim[TenantOf[u]]
      at == tasks[t].accepted_at
      au == tasks[u].accepted_at
  IN \/ Priority[t] > Priority[u]
     \/ /\ Priority[t] = Priority[u]
        /\ \/ lt < lu
           \/ lt = lu /\ at < au
           \/ lt = lu /\ at = au /\ t < u

FirstInLine(s) ==
  {t \in Claimable(s) : \A u \in Claimable(s) \ {t} : Before(t, u)}

\* Mutant: the lease is not capped by the task's own expiry.
LeasedRowUncapped(r, s, d) ==
  [r EXCEPT !.state = "LEASED", !.attempt_count = @ + 1,
            !.lease_token = r.attempt_count + 1, !.lease_expires_at = s + d]

LeasedRow(r, s, d) ==
  [r EXCEPT !.state = "LEASED", !.attempt_count = @ + 1,
            !.lease_token = r.attempt_count + 1,
            !.lease_expires_at = Earlier(s + d, r.expires_at)]

\* claim_next that finds nothing to lease: the sweep is committed all the same.
ClaimNothing(s) ==
  /\ Claimable(s) = {}
  /\ tasks' = Swept(s)
  /\ audit' = SweptAudit(s)
  /\ UNCHANGED <<now, lastClaim>>

\* claim_next that leases t for d seconds.
ClaimNext(t, s, d) ==
  /\ t \in FirstInLine(s)
  /\ tasks' = [Swept(s) EXCEPT ![t] = LeasedRow(@, s, d)]
  /\ audit' = [SweptAudit(s) EXCEPT ![t] =
                 Append(@, Ev("LEASE_ACQUIRED", "LEASED"))]
  /\ lastClaim' = [lastClaim EXCEPT ![TenantOf[t]] = s]
  /\ UNCHANGED now

-----------------------------------------------------------------------------
(* The end of a lease *)

\* Mutants: a lapsed lease that was not swept yet is still good; a live lease is
\* good whoever presents a token.
HoldsLeaseLapsed(t, k, s) == tasks[t].state = "LEASED" /\ tasks[t].lease_token = k
HoldsLeaseAnyToken(t, k, s) ==
  tasks[t].state = "LEASED" /\ tasks[t].lease_expires_at > s

\* The caller presents token k at stamp s, and it is the live lease's.
HoldsLease(t, k, s) ==
  /\ tasks[t].state = "LEASED"
  /\ tasks[t].lease_token = k
  /\ tasks[t].lease_expires_at > s

Ack(t, k, s) ==
  /\ HoldsLease(t, k, s)
  /\ tasks' = [tasks EXCEPT ![t] = Released(@, "ACKED")]
  /\ audit' = [audit EXCEPT ![t] = Append(@, Ev("TASK_ACKED", "ACKED"))]
  /\ UNCHANGED <<now, lastClaim>>

NackedState(r, s, permanent) ==
  IF permanent \/ r.attempt_count >= MaxAttempts \/ r.expires_at <= s
  THEN "HOLD" ELSE "PENDING"

Nack(t, k, s, permanent) ==
  LET state == NackedState(tasks[t], s, permanent)
  IN /\ HoldsLease(t, k, s)
     /\ tasks' = [tasks EXCEPT ![t] = Released(@, state)]
     /\ audit' = [audit EXCEPT ![t] = Append(@, Ev("TASK_NACKED", state))]
     /\ UNCHANGED <<now, lastClaim>>

-----------------------------------------------------------------------------

Tick ==
  /\ now < Horizon
  /\ now' = now + 1
  /\ UNCHANGED <<tasks, lastClaim, audit>>

\* Any token ever issued for t, the current one or a stale one.
IssuedTokens(t) == 1..tasks[t].attempt_count

Poll == \E s \in Stamps :
          \/ ClaimNothing(s)
          \/ \E t \in Tasks, d \in LeaseDurations : ClaimNext(t, s, d)

Next ==
  \/ Tick
  \/ Poll
  \/ \E t \in Tasks, s \in Stamps :
       \/ \E expires \in (s + 1)..(s + MaxTtl) : Submit(t, s, expires)
       \/ \E k \in IssuedTokens(t) :
            \/ Ack(t, k, s)
            \/ \E permanent \in BOOLEAN : Nack(t, k, s, permanent)

Spec == Init /\ [][Next]_vars

\* Time passes, and somebody keeps polling the queue.
FairSpec == Spec /\ WF_vars(Tick) /\ WF_vars(Poll)

-----------------------------------------------------------------------------
(* Properties *)

\* The store holds only rows, events and stamps of the declared types.
TypeOK ==
  /\ now \in Nat \ {0}
  /\ tasks \in [Tasks -> Row]
  /\ lastClaim \in [Tenants -> Nat]
  /\ audit \in [Tasks -> Seq(Event)]

\* The lease columns are set exactly while a task is leased, the token is that
\* of the last lease granted, and no lease runs past the task's own expiry.
LeaseSound ==
  \A t \in Tasks :
    LET r == tasks[t]
    IN IF r.state = "LEASED"
       THEN /\ r.lease_token = r.attempt_count
            /\ r.lease_expires_at <= r.expires_at
       ELSE r.lease_token = 0

\* max_attempts bounds the leases of a task, although claim_next never looks at
\* attempt_count: nack and the sweep must both refuse to requeue at the bound.
AttemptsBounded ==
  \A t \in Tasks : /\ tasks[t].attempt_count <= MaxAttempts
                   /\ tasks[t].state \in {"ABSENT", "PENDING"} =>
                        tasks[t].attempt_count < MaxAttempts

\* submit's capacity check bounds the queue in every interleaving: nothing that
\* nack or the sweep requeues pushes it over max_queue.
QueueBounded ==
  Cardinality({t \in Tasks : tasks[t].state \in {"PENDING", "LEASED"}}) <= MaxQueue

InWindow(x, a) ==
  {t \in Tasks : /\ tasks[t].state # "ABSENT"
                 /\ TenantOf[t] = x
                 /\ tasks[t].accepted_at \in a..(a + RateWindow)}

\* No tenant has more than max_submissions_per_minute tasks accepted in any
\* window of RateWindow seconds, also when submissions commit in the opposite
\* order of the times they are stamped with.
RateLimited ==
  \A t \in Tasks :
    tasks[t].state # "ABSENT" =>
      Cardinality(InWindow(TenantOf[t], tasks[t].accepted_at)) <= MaxPerWindow

LegalMoves ==
  {<<"PENDING", "LEASED">>, <<"PENDING", "HOLD">>, <<"LEASED", "PENDING">>,
   <<"LEASED", "HOLD">>, <<"LEASED", "ACKED">>}

TrailTells(trail, state) ==
  IF state = "ABSENT" THEN trail = <<>>
  ELSE /\ Len(trail) > 0
       /\ trail[1] = Ev("TASK_ACCEPTED", "PENDING")
       /\ trail[Len(trail)].state = state
       /\ \A i \in 1..(Len(trail) - 1) :
            <<trail[i].state, trail[i + 1].state>> \in LegalMoves

\* The audit trail alone tells every task's story: it starts with the
\* acceptance, each event follows the one before it by a legal move, and the
\* last one names the state the task is in.
AuditTellsAll == \A t \in Tasks : TrailTells(audit[t], tasks[t].state)

AckedBeforeExpiry ==
  \A t \in Tasks :
    /\ tasks[t].state # "ACKED"
    /\ tasks'[t].state = "ACKED"
    => now < tasks[t].expires_at + BusyTimeout

\* A result is committed only while the task is unexpired, up to the staleness
\* of the clock reading the acknowledgement runs with.
AckedInTime == [][AckedBeforeExpiry]_vars

\* The queue drains: after a task waits, a moment comes when every task that
\* was accepted is acknowledged or held, whatever becomes of the workers that
\* leased them.
EveryTaskSettles ==
  (\E t \in Tasks : tasks[t].state = "PENDING")
    ~> (\A t \in Tasks : tasks[t].state \in Settled \cup {"ABSENT"})

StatusOf(state) ==
  CASE state = "ABSENT" -> "absent"
    [] state = "PENDING" -> "waiting"
    [] state = "LEASED" -> "leased"
    [] state = "ACKED" -> "acked"
    [] state = "HOLD" -> "held"

Delivery == INSTANCE TaskDelivery WITH
  status <- [t \in Tasks |-> StatusOf(tasks[t].state)],
  attempts <- [t \in Tasks |-> tasks[t].attempt_count]

\* The queue implements the delivery promise: one acceptance, at most
\* MaxAttempts leases one at a time, one outcome that never changes.
DeliversAsPromised == Delivery!DSpec

=============================================================================
