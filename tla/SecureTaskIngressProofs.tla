---------------------- MODULE SecureTaskIngressProofs ----------------------
(***************************************************************************)
(* Proofs about SecureTaskIngress for all values of its constants.         *)
(*                                                                         *)
(* A claim may move every row of the table at once, so the proofs go       *)
(* through one lemma, StepByRow: whatever the transaction, each task's row *)
(* and audit trail take one of six small steps.  The invariants of single  *)
(* rows are then proved from those steps; the two bounds on numbers of     *)
(* rows are proved from what a step may add to the counted set.            *)
(***************************************************************************)
EXTENDS SecureTaskIngress, FiniteSetTheorems, TLAPS

RowKept(t) == tasks'[t] = tasks[t] /\ audit'[t] = audit[t]

RowSubmitted(t, s) ==
  /\ tasks[t].state = "ABSENT"
  /\ \E expires \in (s + 1)..(s + MaxTtl) :
       tasks'[t] = AcceptedRow(s, expires)
  /\ audit'[t] = Append(audit[t], Ev("TASK_ACCEPTED", "PENDING"))

RowSwept(t, s) ==
  /\ tasks'[t] = SweptRow(tasks[t], s)
  /\ audit'[t] = audit[t] \o SweepEvents(tasks[t], s)

RowLeased(t, s) ==
  LET r == SweptRow(tasks[t], s)
  IN /\ r.state = "PENDING"
     /\ r.expires_at > s
     /\ \E d \in LeaseDurations : tasks'[t] = LeasedRow(r, s, d)
     /\ audit'[t] = Append(audit[t] \o SweepEvents(tasks[t], s),
                           Ev("LEASE_ACQUIRED", "LEASED"))

RowAcked(t, s) ==
  /\ tasks[t].state = "LEASED"
  /\ tasks[t].lease_expires_at > s
  /\ tasks'[t] = Released(tasks[t], "ACKED")
  /\ audit'[t] = Append(audit[t], Ev("TASK_ACKED", "ACKED"))

RowNacked(t, s) ==
  /\ tasks[t].state = "LEASED"
  /\ tasks[t].lease_expires_at > s
  /\ \E permanent \in BOOLEAN :
       LET state == NackedState(tasks[t], s, permanent)
       IN /\ tasks'[t] = Released(tasks[t], state)
          /\ audit'[t] = Append(audit[t], Ev("TASK_NACKED", state))

\* A step of a row that is already in the table.
RowMoved(t, s) ==
  RowSwept(t, s) \/ RowLeased(t, s) \/ RowAcked(t, s) \/ RowNacked(t, s)

RowStep(t, s) == RowSubmitted(t, s) \/ RowMoved(t, s)

\* A transaction that adds no row.
NoNewRow == \A t \in Tasks : RowKept(t) \/ \E s \in Stamps : RowMoved(t, s)

SomeSubmit ==
  \E u \in Tasks, s \in Stamps : \E e \in (s + 1)..(s + MaxTtl) : Submit(u, s, e)

-----------------------------------------------------------------------------
(* Types *)

LEMMA StampType ==
  ASSUME TypeOK, NEW s \in Stamps
  PROVE  s \in Nat /\ s <= now /\ now <= s + BusyTimeout
BY BoundsAssumption DEF TypeOK, Stamps

LEMMA AcceptedRowType ==
  ASSUME NEW s \in Nat, NEW e \in Nat
  PROVE  /\ AcceptedRow(s, e) \in Row
         /\ AcceptedRow(s, e).state = "PENDING"
         /\ AcceptedRow(s, e).accepted_at = s
         /\ AcceptedRow(s, e).expires_at = e
         /\ AcceptedRow(s, e).lease_token = 0
         /\ AcceptedRow(s, e).attempt_count = 0
BY DEF AcceptedRow, NoRow, Row, States

LEMMA ReleasedType ==
  ASSUME NEW r \in Row, NEW st \in States
  PROVE  /\ Released(r, st) \in Row
         /\ Released(r, st).state = st
         /\ Released(r, st).accepted_at = r.accepted_at
         /\ Released(r, st).expires_at = r.expires_at
         /\ Released(r, st).lease_token = 0
         /\ Released(r, st).attempt_count = r.attempt_count
BY DEF Released, Row

LEMMA SweptRowType ==
  ASSUME NEW r \in Row, NEW s \in Nat
  PROVE  /\ SweptRow(r, s) \in Row
         /\ SweptRow(r, s).accepted_at = r.accepted_at
         /\ SweptRow(r, s).expires_at = r.expires_at
         /\ SweptRow(r, s).attempt_count = r.attempt_count
         /\ (SweptRow(r, s).state = "ABSENT") <=> (r.state = "ABSENT")
BY DEF SweptRow, Released, RecoveredState, ExpiredPending, LapsedLease,
       Row, States, Settled

LEMMA SweepEventsType ==
  ASSUME NEW r \in Row, NEW s \in Nat
  PROVE  SweepEvents(r, s) \in Seq(Event)
<1>1. /\ Ev("TASK_HELD", "HOLD") \in Event
      /\ Ev("LEASE_RECOVERY", RecoveredState(r, s)) \in Event
  BY DEF Ev, Event, EventTypes, States, Settled, RecoveredState
<1> QED BY <1>1 DEF SweepEvents

LEMMA LeasedRowType ==
  ASSUME NEW r \in Row, NEW s \in Nat, NEW d \in LeaseDurations
  PROVE  /\ LeasedRow(r, s, d) \in Row
         /\ LeasedRow(r, s, d).state = "LEASED"
         /\ LeasedRow(r, s, d).accepted_at = r.accepted_at
         /\ LeasedRow(r, s, d).expires_at = r.expires_at
         /\ LeasedRow(r, s, d).lease_token = r.attempt_count + 1
         /\ LeasedRow(r, s, d).lease_expires_at <= r.expires_at
         /\ LeasedRow(r, s, d).attempt_count = r.attempt_count + 1
<1>1. d \in Nat /\ r.expires_at \in Nat /\ r.attempt_count + 1 \in Nat
  BY BoundsAssumption DEF Row
<1>2. /\ Earlier(s + d, r.expires_at) \in Nat
      /\ Earlier(s + d, r.expires_at) <= r.expires_at
  BY <1>1 DEF Earlier
<1> QED BY <1>1, <1>2 DEF LeasedRow, Row, States

\* Every step either accepts one task or moves only rows already there.
LEMMA StepKinds ==
  ASSUME TypeOK, [Next]_vars
  PROVE  SomeSubmit \/ NoNewRow
<1>1. CASE UNCHANGED vars
  BY <1>1 DEF vars, RowKept, NoNewRow
<1>2. CASE Tick
  BY <1>2 DEF Tick, RowKept, NoNewRow
<1>3. CASE Poll
  <2>1. ASSUME NEW s \in Stamps, ClaimNothing(s), NEW t \in Tasks
        PROVE  RowSwept(t, s)
    BY <2>1 DEF ClaimNothing, Swept, SweptAudit, RowSwept
  <2>2. ASSUME NEW s \in Stamps, NEW u \in Tasks, NEW d \in LeaseDurations,
               ClaimNext(u, s, d), NEW t \in Tasks
        PROVE  RowSwept(t, s) \/ RowLeased(t, s)
    <3>1. CASE t = u
      BY <2>2, <3>1
      DEF ClaimNext, FirstInLine, Claimable, Swept, SweptAudit, RowLeased
    <3>2. CASE t # u
      BY <2>2, <3>2 DEF ClaimNext, Swept, SweptAudit, RowSwept
    <3> QED BY <3>1, <3>2
  <2> QED BY <1>3, <2>1, <2>2 DEF Poll, RowMoved, NoNewRow
<1>5. ASSUME NEW u \in Tasks, NEW s \in Stamps, NEW k \in IssuedTokens(u),
             Ack(u, k, s), NEW t \in Tasks
      PROVE  RowKept(t) \/ RowAcked(t, s)
  BY <1>5 DEF Ack, HoldsLease, TypeOK, RowKept, RowAcked
<1>6. ASSUME NEW u \in Tasks, NEW s \in Stamps, NEW k \in IssuedTokens(u),
             NEW permanent \in BOOLEAN, Nack(u, k, s, permanent), NEW t \in Tasks
      PROVE  RowKept(t) \/ RowNacked(t, s)
  BY <1>6 DEF Nack, HoldsLease, TypeOK, RowKept, RowNacked
<1> QED
  BY <1>1, <1>2, <1>3, <1>5, <1>6 DEF Next, SomeSubmit, RowMoved, NoNewRow

\* Whatever the transaction, each row takes one of the row steps.
LEMMA StepByRow ==
  ASSUME TypeOK, [Next]_vars, NEW t \in Tasks
  PROVE  RowKept(t) \/ \E s \in Stamps : RowStep(t, s)
<1>1. ASSUME NEW u \in Tasks, NEW s \in Stamps,
             NEW e \in (s + 1)..(s + MaxTtl), Submit(u, s, e)
      PROVE  RowKept(t) \/ RowSubmitted(t, s)
  BY <1>1 DEF Submit, TypeOK, RowKept, RowSubmitted
<1> QED BY <1>1, StepKinds DEF SomeSubmit, NoNewRow, RowStep

LEMMA RowStepType ==
  ASSUME TypeOK, NEW t \in Tasks, NEW s \in Stamps, RowStep(t, s)
  PROVE  tasks'[t] \in Row /\ audit'[t] \in Seq(Event)
<1>0. tasks[t] \in Row /\ audit[t] \in Seq(Event) /\ s \in Nat
  BY StampType DEF TypeOK
<1>1. CASE RowSubmitted(t, s)
  <2>1. PICK e \in (s + 1)..(s + MaxTtl) : tasks'[t] = AcceptedRow(s, e)
    BY <1>1 DEF RowSubmitted
  <2>2. e \in Nat
    BY <1>0, BoundsAssumption
  <2>3. Ev("TASK_ACCEPTED", "PENDING") \in Event
    BY DEF Ev, Event, EventTypes, States
  <2> QED BY <1>0, <1>1, <2>1, <2>2, <2>3, AcceptedRowType DEF RowSubmitted
<1>2. CASE RowSwept(t, s)
  BY <1>0, <1>2, SweptRowType, SweepEventsType DEF RowSwept
<1>3. CASE RowLeased(t, s)
  <2>1. Ev("LEASE_ACQUIRED", "LEASED") \in Event
    BY DEF Ev, Event, EventTypes, States
  <2>2. SweptRow(tasks[t], s) \in Row
    BY <1>0, SweptRowType
  <2>3. tasks'[t] \in Row
    BY <1>0, <1>3, <2>2, LeasedRowType DEF RowLeased
  <2>4. audit[t] \o SweepEvents(tasks[t], s) \in Seq(Event)
    BY <1>0, SweepEventsType
  <2> QED BY <1>3, <2>1, <2>3, <2>4 DEF RowLeased
<1>4. CASE RowAcked(t, s)
  <2>1. Ev("TASK_ACKED", "ACKED") \in Event /\ "ACKED" \in States
    BY DEF Ev, Event, EventTypes, States, Settled
  <2> QED BY <1>0, <1>4, <2>1, ReleasedType DEF RowAcked
<1>5. CASE RowNacked(t, s)
  <2>1. PICK p \in BOOLEAN :
          LET st == NackedState(tasks[t], s, p)
          IN /\ tasks'[t] = Released(tasks[t], st)
             /\ audit'[t] = Append(audit[t], Ev("TASK_NACKED", st))
    BY <1>5 DEF RowNacked
  <2>2. NackedState(tasks[t], s, p) \in States
    BY DEF NackedState, States, Settled
  <2>3. Ev("TASK_NACKED", NackedState(tasks[t], s, p)) \in Event
    BY <2>2 DEF Ev, Event, EventTypes
  <2> QED BY <1>0, <2>1, <2>2, <2>3, ReleasedType
<1> QED BY <1>1, <1>2, <1>3, <1>4, <1>5 DEF RowStep, RowMoved

LEMMA TableShape ==
  ASSUME TypeOK, [Next]_vars
  PROVE  /\ tasks' = [t \in Tasks |-> tasks'[t]]
         /\ audit' = [t \in Tasks |-> audit'[t]]
         /\ lastClaim' \in [Tenants -> Nat]
         /\ now' \in Nat \ {0}
<1>1. CASE UNCHANGED vars
  BY <1>1 DEF vars, TypeOK
<1>2. CASE Tick
  BY <1>2 DEF Tick, TypeOK
<1>3. CASE Poll
  <2>1. ASSUME NEW s \in Stamps, NEW t \in Tasks, NEW d \in LeaseDurations,
               ClaimNext(t, s, d)
        PROVE  lastClaim' \in [Tenants -> Nat]
    BY <2>1, StampType, EnvelopeAssumption DEF ClaimNext, TypeOK
  <2> QED
    BY <1>3, <2>1 DEF Poll, ClaimNothing, ClaimNext, Swept, SweptAudit, TypeOK
<1>4. ASSUME NEW t \in Tasks, NEW s \in Stamps,
             \/ \E e \in (s + 1)..(s + MaxTtl) : Submit(t, s, e)
             \/ \E k \in IssuedTokens(t) :
                  Ack(t, k, s) \/ \E p \in BOOLEAN : Nack(t, k, s, p)
      PROVE  /\ tasks' = [u \in Tasks |-> tasks'[u]]
             /\ audit' = [u \in Tasks |-> audit'[u]]
             /\ UNCHANGED <<now, lastClaim>>
  BY <1>4 DEF Submit, Ack, Nack, TypeOK
<1> QED BY <1>1, <1>2, <1>3, <1>4 DEF Next, TypeOK

LEMMA TypeInductive == TypeOK /\ [Next]_vars => TypeOK'
<1> SUFFICES ASSUME TypeOK, [Next]_vars
             PROVE  TypeOK'
  OBVIOUS
<1>1. ASSUME NEW t \in Tasks
      PROVE  tasks'[t] \in Row /\ audit'[t] \in Seq(Event)
  <2>1. tasks[t] \in Row /\ audit[t] \in Seq(Event)
    BY DEF TypeOK
  <2> QED BY <2>1, StepByRow, RowStepType DEF RowKept
<1> QED BY <1>1, TableShape DEF TypeOK

\* The tables only ever hold rows, trails and stamps of their declared types.
THEOREM TypeCorrect == Spec => []TypeOK
<1>1. Init => TypeOK
  BY DEF Init, TypeOK, NoRow, Row, States
<1> QED BY <1>1, TypeInductive, PTL DEF Spec

-----------------------------------------------------------------------------
(* Invariants of single rows *)

\* What the sweep leaves behind: a row it requeues has attempts left, a row
\* still leased is the row as it was, and no settled row is revived.
LEMMA SweptRowFacts ==
  ASSUME NEW r \in Row, NEW s \in Nat
  PROVE  LET q == SweptRow(r, s)
         IN /\ q.state = "LEASED" => q = r /\ s < r.lease_expires_at
            /\ q.state = "PENDING" =>
                 \/ q = r
                 \/ /\ r.state = "LEASED"
                    /\ r.lease_expires_at <= s
                    /\ r.attempt_count < MaxAttempts
                    /\ q.lease_token = 0
            /\ q.state = "HOLD" =>
                 \/ q = r
                 \/ r.state = "PENDING" /\ q.lease_token = r.lease_token
                 \/ /\ r.state = "LEASED"
                    /\ r.lease_expires_at <= s
                    /\ q.lease_token = 0
            /\ q.state \in {"ABSENT", "ACKED"} => q = r
            /\ r.state \in {"ABSENT", "ACKED", "HOLD"} => q = r
<1>1. r.attempt_count \in Nat /\ r.expires_at \in Nat /\ r.lease_expires_at \in Nat
  BY DEF Row
<1>2. /\ Released(r, "HOLD").state = "HOLD" /\ Released(r, "HOLD").lease_token = 0
      /\ Released(r, "PENDING").state = "PENDING"
      /\ Released(r, "PENDING").lease_token = 0
  BY ReleasedType DEF States, Settled
<1>3. CASE ExpiredPending(r, s)
  BY <1>3 DEF SweptRow, ExpiredPending, Row
<1>4. CASE ~ExpiredPending(r, s) /\ LapsedLease(r, s)
  BY <1>1, <1>2, <1>4, BoundsAssumption
  DEF SweptRow, LapsedLease, RecoveredState
<1>5. CASE ~ExpiredPending(r, s) /\ ~LapsedLease(r, s)
  BY <1>1, <1>5 DEF SweptRow, LapsedLease
<1> QED BY <1>3, <1>4, <1>5

\* The row invariants, for one row.
RowSound(r) ==
  /\ IF r.state = "LEASED"
     THEN r.lease_token = r.attempt_count /\ r.lease_expires_at <= r.expires_at
     ELSE r.lease_token = 0
  /\ r.attempt_count <= MaxAttempts
  /\ r.state \in {"ABSENT", "PENDING"} => r.attempt_count < MaxAttempts
  /\ r.state = "ABSENT" => r.attempt_count = 0

LEMMA SweptRowSound ==
  ASSUME NEW r \in Row, NEW s \in Nat, RowSound(r)
  PROVE  RowSound(SweptRow(r, s))
BY SweptRowType, SweptRowFacts DEF RowSound, Row, States, Settled

LEMMA RowStepSound ==
  ASSUME TypeOK, NEW t \in Tasks, NEW s \in Stamps, RowStep(t, s), RowSound(tasks[t])
  PROVE  RowSound(tasks'[t])
<1>0. tasks[t] \in Row /\ s \in Nat /\ tasks[t].attempt_count \in Nat
  BY StampType DEF TypeOK, Row
<1>1. CASE RowSubmitted(t, s)
  <2>1. PICK e \in (s + 1)..(s + MaxTtl) : tasks'[t] = AcceptedRow(s, e)
    BY <1>1 DEF RowSubmitted
  <2>2. e \in Nat
    BY <1>0, BoundsAssumption
  <2> QED BY <1>0, <2>1, <2>2, AcceptedRowType, BoundsAssumption DEF RowSound
<1>2. CASE RowSwept(t, s)
  BY <1>0, <1>2, SweptRowSound DEF RowSwept
<1>3. CASE RowLeased(t, s)
  <2> DEFINE q == SweptRow(tasks[t], s)
  <2>1. q \in Row /\ RowSound(q) /\ q.state = "PENDING" /\ q.attempt_count \in Nat
    BY <1>0, <1>3, SweptRowType, SweptRowSound DEF RowLeased, Row
  <2>2. PICK d \in LeaseDurations : tasks'[t] = LeasedRow(q, s, d)
    BY <1>3 DEF RowLeased
  <2>3. q.attempt_count < MaxAttempts
    BY <2>1 DEF RowSound
  <2> HIDE DEF q
  <2> DEFINE l == LeasedRow(q, s, d)
  <2>4. /\ l.state = "LEASED"
        /\ l.lease_token = q.attempt_count + 1
        /\ l.attempt_count = q.attempt_count + 1
        /\ l.lease_expires_at <= l.expires_at
    BY <1>0, <2>1, LeasedRowType
  <2>5. tasks'[t] = l
    BY <2>2
  <2> HIDE DEF l
  <2> QED BY <2>1, <2>3, <2>4, <2>5, BoundsAssumption DEF RowSound
<1>4. CASE RowAcked(t, s)
  BY <1>0, <1>4, ReleasedType DEF RowAcked, RowSound, States, Settled
<1>5. CASE RowNacked(t, s)
  <2>1. PICK p \in BOOLEAN :
          tasks'[t] = Released(tasks[t], NackedState(tasks[t], s, p))
    BY <1>5 DEF RowNacked
  <2>2. /\ NackedState(tasks[t], s, p) \in {"HOLD", "PENDING"}
        /\ NackedState(tasks[t], s, p) = "PENDING" =>
             tasks[t].attempt_count < MaxAttempts
    BY <1>0, BoundsAssumption DEF NackedState
  <2> QED BY <1>0, <2>1, <2>2, ReleasedType DEF RowSound, States, Settled
<1> QED BY <1>1, <1>2, <1>3, <1>4, <1>5 DEF RowStep, RowMoved

RowsSound == \A t \in Tasks : RowSound(tasks[t])

LEMMA RowsSoundInvariant == Spec => []RowsSound
<1>1. Init => RowsSound
  BY BoundsAssumption DEF Init, NoRow, RowsSound, RowSound
<1>2. TypeOK /\ RowsSound /\ [Next]_vars => RowsSound'
  BY StepByRow, RowStepSound DEF RowsSound, RowKept
<1> QED BY <1>1, <1>2, TypeCorrect, PTL DEF Spec

\* max_attempts bounds the leases of every task, although claim_next never
\* reads the bound: nack and the sweep leave no requeued row at it.
THEOREM AttemptsStayBounded == Spec => []AttemptsBounded
<1>1. RowsSound => AttemptsBounded
  BY DEF RowsSound, RowSound, AttemptsBounded
<1> QED BY <1>1, RowsSoundInvariant, PTL

\* A lease's token is that of the last lease granted, and no lease outlives
\* its task.
THEOREM LeasesStaySound == Spec => []LeaseSound
<1>1. RowsSound => LeaseSound
  BY DEF RowsSound, RowSound, LeaseSound
<1> QED BY <1>1, RowsSoundInvariant, PTL

-----------------------------------------------------------------------------
(* Action properties *)

\* A commit of a result is never later than the task's expiry by more than the
\* staleness of a clock reading.
THEOREM AcksAreInTime == Spec => AckedInTime
<1>1. ASSUME TypeOK, RowsSound, [Next]_vars, NEW t \in Tasks,
             tasks[t].state # "ACKED", tasks'[t].state = "ACKED"
      PROVE  now < tasks[t].expires_at + BusyTimeout
  <2>0. tasks[t] \in Row
    BY <1>1 DEF TypeOK
  <2>1. PICK s \in Stamps : RowStep(t, s)
    BY <1>1, StepByRow DEF RowKept
  <2>2. s \in Nat /\ now <= s + BusyTimeout /\ now \in Nat
    BY <1>1, StampType DEF TypeOK
  <2>3. ~RowSubmitted(t, s)
    <3>1. ASSUME NEW e \in (s + 1)..(s + MaxTtl), tasks'[t] = AcceptedRow(s, e)
          PROVE  FALSE
      BY <1>1, <2>2, <3>1, AcceptedRowType, BoundsAssumption
    <3> QED BY <3>1 DEF RowSubmitted
  <2>4. ~RowSwept(t, s)
    <3>1. SweptRow(tasks[t], s).state # "ACKED"
      BY <1>1, <2>0, <2>2, SweptRowFacts
    <3> QED BY <1>1, <3>1 DEF RowSwept
  <2>5. ~RowLeased(t, s)
    <3>1. SweptRow(tasks[t], s) \in Row
      BY <2>0, <2>2, SweptRowType
    <3>2. ASSUME NEW d \in LeaseDurations
          PROVE  LeasedRow(SweptRow(tasks[t], s), s, d).state = "LEASED"
      BY <2>2, <3>1, LeasedRowType
    <3> QED BY <1>1, <3>2 DEF RowLeased
  <2>6. ~RowNacked(t, s)
    BY <1>1, <2>0, ReleasedType DEF RowNacked, NackedState, States, Settled
  <2>7. tasks[t].state = "LEASED" /\ s < tasks[t].lease_expires_at
    BY <2>1, <2>3, <2>4, <2>5, <2>6, <2>2, <2>0 DEF RowStep, RowMoved, RowAcked, Row
  <2>8. tasks[t].lease_expires_at <= tasks[t].expires_at
    BY <1>1, <2>7 DEF RowsSound, RowSound
  <2> QED BY <2>0, <2>2, <2>7, <2>8, BoundsAssumption DEF Row
<1>2. TypeOK /\ RowsSound /\ [Next]_vars => AckedBeforeExpiry
  BY <1>1 DEF AckedBeforeExpiry
<1> QED BY <1>2, TypeCorrect, RowsSoundInvariant, PTL DEF Spec, AckedInTime


LEMMA AppendFacts ==
  ASSUME NEW trail \in Seq(Event), NEW e \in Event
  PROVE  /\ Append(trail, e) \in Seq(Event)
         /\ Len(Append(trail, e)) = Len(trail) + 1
         /\ Append(trail, e)[Len(trail) + 1] = e
         /\ \A i \in 1..Len(trail) : Append(trail, e)[i] = trail[i]
OBVIOUS

-----------------------------------------------------------------------------
(* The audit trail *)

LEMMA TrailGrows ==
  ASSUME NEW trail \in Seq(Event), NEW st \in States, NEW e \in Event,
         TrailTells(trail, st), <<st, e.state>> \in LegalMoves
  PROVE  TrailTells(Append(trail, e), e.state)
<1> DEFINE longer == Append(trail, e)
<1>1. /\ longer \in Seq(Event) /\ Len(longer) = Len(trail) + 1
      /\ longer[Len(trail) + 1] = e
      /\ \A i \in 1..Len(trail) : longer[i] = trail[i]
  BY AppendFacts
<1>2. st # "ABSENT" /\ e.state # "ABSENT"
  BY DEF LegalMoves
<1>3. /\ Len(trail) \in Nat /\ Len(trail) > 0
      /\ trail[1] = Ev("TASK_ACCEPTED", "PENDING")
      /\ trail[Len(trail)].state = st
      /\ \A i \in 1..(Len(trail) - 1) :
           <<trail[i].state, trail[i + 1].state>> \in LegalMoves
  BY <1>2 DEF TrailTells
<1> HIDE DEF longer
<1>4. ASSUME NEW i \in 1..(Len(longer) - 1)
      PROVE  <<longer[i].state, longer[i + 1].state>> \in LegalMoves
  <2>1. CASE i = Len(trail)
    BY <1>1, <1>3, <2>1
  <2>2. CASE i < Len(trail)
    <3>1. i \in 1..(Len(trail) - 1) /\ i \in 1..Len(trail) /\ i + 1 \in 1..Len(trail)
      BY <1>1, <1>3, <1>4, <2>2
    <3> QED BY <1>1, <1>3, <3>1
  <2> QED BY <1>1, <1>3, <1>4, <2>1, <2>2
<1>5. TrailTells(longer, e.state)
  BY <1>1, <1>2, <1>3, <1>4 DEF TrailTells
<1> QED BY <1>5 DEF longer

LEMMA SweptTrailTells ==
  ASSUME NEW r \in Row, NEW s \in Nat, NEW trail \in Seq(Event),
         TrailTells(trail, r.state)
  PROVE  TrailTells(trail \o SweepEvents(r, s), SweptRow(r, s).state)
<1>0. /\ r.state \in States
      /\ Ev("TASK_HELD", "HOLD") \in Event
      /\ Ev("LEASE_RECOVERY", RecoveredState(r, s)) \in Event
      /\ RecoveredState(r, s) \in {"HOLD", "PENDING"}
      /\ RecoveredState(r, s) \in States
  BY DEF Row, Ev, Event, EventTypes, States, Settled, RecoveredState
<1>1. \A e \in Event : trail \o <<e>> = Append(trail, e)
  OBVIOUS
<1>2. CASE ExpiredPending(r, s)
  <2>1. TrailTells(Append(trail, Ev("TASK_HELD", "HOLD")), "HOLD")
    BY <1>0, <1>2, TrailGrows DEF Ev, LegalMoves, ExpiredPending
  <2> QED BY <1>0, <1>1, <1>2, <2>1 DEF SweepEvents, SweptRow, Row
<1>3. CASE ~ExpiredPending(r, s) /\ LapsedLease(r, s)
  <2> DEFINE e == Ev("LEASE_RECOVERY", RecoveredState(r, s))
  <2>1. e.state = RecoveredState(r, s) /\ <<r.state, e.state>> \in LegalMoves
    BY <1>0, <1>3 DEF Ev, LegalMoves, LapsedLease
  <2>2. TrailTells(Append(trail, e), e.state)
    BY <1>0, <2>1, TrailGrows
  <2> QED BY <1>0, <1>1, <1>3, <2>1, <2>2, ReleasedType DEF SweepEvents, SweptRow
<1>4. CASE ~ExpiredPending(r, s) /\ ~LapsedLease(r, s)
  <2>1. trail \o <<>> = trail
    OBVIOUS
  <2> QED BY <1>4, <2>1 DEF SweepEvents, SweptRow
<1> QED BY <1>2, <1>3, <1>4

\* Replaying a task's audit trail always yields the state its row is in.
THEOREM AuditTrailIsComplete == Spec => []AuditTellsAll
<1>1. Init => AuditTellsAll
  BY DEF Init, NoRow, AuditTellsAll, TrailTells
<1>2. ASSUME TypeOK, AuditTellsAll, [Next]_vars, NEW t \in Tasks
      PROVE  TrailTells(audit'[t], tasks'[t].state)
  <2>0. /\ tasks[t] \in Row /\ audit[t] \in Seq(Event)
        /\ tasks[t].state \in States
        /\ TrailTells(audit[t], tasks[t].state)
    BY <1>2 DEF TypeOK, Row, AuditTellsAll
  <2>1. CASE RowKept(t)
    BY <2>0, <2>1 DEF RowKept
  <2>2. ASSUME NEW s \in Stamps, RowSubmitted(t, s)
        PROVE  TrailTells(audit'[t], tasks'[t].state)
    <3>1. tasks'[t].state = "PENDING"
      BY <2>2 DEF RowSubmitted, AcceptedRow, NoRow
    <3> DEFINE e == Ev("TASK_ACCEPTED", "PENDING")
    <3>2. audit'[t] = Append(<<>>, e)
      BY <2>0, <2>2 DEF RowSubmitted, TrailTells
    <3>3. e.state = "PENDING"
      BY DEF Ev
    <3> HIDE DEF e
    <3>4. audit'[t] = <<e>>
      BY <3>2
    <3> QED BY <3>1, <3>3, <3>4 DEF TrailTells, e
  <2>3. ASSUME NEW s \in Stamps, RowSwept(t, s)
        PROVE  TrailTells(audit'[t], tasks'[t].state)
    BY <1>2, <2>0, <2>3, StampType, SweptTrailTells DEF RowSwept
  <2>4. ASSUME NEW s \in Stamps, RowLeased(t, s)
        PROVE  TrailTells(audit'[t], tasks'[t].state)
    <3> DEFINE e == Ev("LEASE_ACQUIRED", "LEASED")
    <3> DEFINE trail == audit[t] \o SweepEvents(tasks[t], s)
    <3>1. /\ s \in Nat /\ e \in Event /\ e.state = "LEASED"
          /\ "PENDING" \in States /\ <<"PENDING", e.state>> \in LegalMoves
      BY <1>2, StampType DEF Ev, Event, EventTypes, States, LegalMoves
    <3>2. trail \in Seq(Event) /\ TrailTells(trail, "PENDING")
      BY <2>0, <2>4, <3>1, SweepEventsType, SweptTrailTells DEF RowLeased
    <3>3. TrailTells(Append(trail, e), "LEASED")
      BY <3>1, <3>2, TrailGrows
    <3>4. SweptRow(tasks[t], s) \in Row
      BY <2>0, <3>1, SweptRowType
    <3>5. tasks'[t].state = "LEASED"
      BY <2>4, <3>1, <3>4, LeasedRowType DEF RowLeased
    <3> QED BY <2>4, <3>3, <3>5 DEF RowLeased
  <2>5. ASSUME NEW s \in Stamps, RowAcked(t, s)
        PROVE  TrailTells(audit'[t], tasks'[t].state)
    <3> DEFINE e == Ev("TASK_ACKED", "ACKED")
    <3>1. /\ e \in Event /\ e.state = "ACKED" /\ "ACKED" \in States
          /\ <<"LEASED", e.state>> \in LegalMoves
      BY DEF Ev, Event, EventTypes, States, Settled, LegalMoves
    <3>2. TrailTells(Append(audit[t], e), "ACKED")
      BY <2>0, <2>5, <3>1, TrailGrows DEF RowAcked
    <3> QED BY <2>0, <2>5, <3>1, <3>2, ReleasedType DEF RowAcked
  <2>6. ASSUME NEW s \in Stamps, RowNacked(t, s)
        PROVE  TrailTells(audit'[t], tasks'[t].state)
    <3>1. PICK st \in {"HOLD", "PENDING"} :
            /\ tasks'[t] = Released(tasks[t], st)
            /\ audit'[t] = Append(audit[t], Ev("TASK_NACKED", st))
      BY <2>6 DEF RowNacked, NackedState
    <3> DEFINE e == Ev("TASK_NACKED", st)
    <3>2. /\ e \in Event /\ e.state = st /\ st \in States
          /\ <<"LEASED", e.state>> \in LegalMoves
      BY DEF Ev, Event, EventTypes, States, Settled, LegalMoves
    <3>3. TrailTells(Append(audit[t], e), st)
      BY <2>0, <2>6, <3>2, TrailGrows DEF RowNacked
    <3> QED BY <2>0, <3>1, <3>2, <3>3, ReleasedType
  <2> QED
    BY <1>2, <2>1, <2>2, <2>3, <2>4, <2>5, <2>6, StepByRow DEF RowStep, RowMoved
<1>3. TypeOK /\ AuditTellsAll /\ [Next]_vars => AuditTellsAll'
  BY <1>2 DEF AuditTellsAll
<1> QED BY <1>1, <1>3, TypeCorrect, PTL DEF Spec

-----------------------------------------------------------------------------
(* Bounds on how many rows there are *)

\* A set of tasks that a step extends by at most u grows by at most one.
LEMMA GrowsByOne ==
  ASSUME NEW A \in SUBSET Tasks, NEW B \in SUBSET Tasks, NEW u \in Tasks,
         B \subseteq A \cup {u}
  PROVE  /\ Cardinality(A) \in Nat /\ Cardinality(B) \in Nat
         /\ Cardinality(B) <= Cardinality(A) + 1
<1>1. IsFiniteSet(A) /\ IsFiniteSet(B)
  BY TasksAssumption, FS_Subset
<1>2. /\ Cardinality(A) \in Nat
      /\ IsFiniteSet(A \cup {u})
      /\ Cardinality(A \cup {u}) =
           IF u \in A THEN Cardinality(A) ELSE Cardinality(A) + 1
  BY <1>1, FS_AddElement, FS_CardinalityType
<1>3. Cardinality(B) \in Nat /\ Cardinality(B) <= Cardinality(A \cup {u})
  BY <1>1, <1>2, FS_Subset, FS_CardinalityType
<1> QED BY <1>2, <1>3

LEMMA ShrinksOrStays ==
  ASSUME NEW A \in SUBSET Tasks, NEW B \in SUBSET A
  PROVE  /\ Cardinality(A) \in Nat /\ Cardinality(B) \in Nat
         /\ Cardinality(B) <= Cardinality(A)
<1>1. IsFiniteSet(A)
  BY TasksAssumption, FS_Subset
<1>2. IsFiniteSet(B) /\ Cardinality(B) <= Cardinality(A)
  BY <1>1, FS_Subset
<1> QED BY <1>1, <1>2, FS_CardinalityType

\* What a row keeps when it moves.
LEMMA MovedRowFacts ==
  ASSUME TypeOK, NEW t \in Tasks, NEW s \in Stamps, RowMoved(t, s)
  PROVE  /\ tasks'[t].accepted_at = tasks[t].accepted_at
         /\ tasks'[t].state # "ABSENT" => tasks[t].state # "ABSENT"
         /\ tasks'[t].state \in {"PENDING", "LEASED"} =>
              tasks[t].state \in {"PENDING", "LEASED"}
<1>0. tasks[t] \in Row /\ s \in Nat
  BY StampType DEF TypeOK
<1>1. CASE RowSwept(t, s)
  BY <1>0, <1>1, SweptRowType, SweptRowFacts DEF RowSwept
<1>2. CASE RowLeased(t, s)
  <2>1. /\ SweptRow(tasks[t], s) \in Row
        /\ SweptRow(tasks[t], s).accepted_at = tasks[t].accepted_at
        /\ tasks[t].state \in {"PENDING", "LEASED"}
    BY <1>0, <1>2, SweptRowType, SweptRowFacts DEF RowLeased
  <2> QED BY <1>0, <1>2, <2>1, LeasedRowType DEF RowLeased
<1>3. CASE RowAcked(t, s)
  BY <1>0, <1>3, ReleasedType DEF RowAcked, States, Settled
<1>4. CASE RowNacked(t, s)
  <2>1. PICK st \in {"HOLD", "PENDING"} : tasks'[t] = Released(tasks[t], st)
    BY <1>4 DEF RowNacked, NackedState
  <2> QED BY <1>0, <1>4, <2>1, ReleasedType DEF RowNacked, States, Settled
<1> QED BY <1>1, <1>2, <1>3, <1>4 DEF RowMoved

\* The queue never holds more than max_queue unsettled tasks.
THEOREM QueueStaysBounded == Spec => []QueueBounded
<1>1. Init => QueueBounded
  <2> SUFFICES ASSUME Init PROVE QueueBounded
    OBVIOUS
  <2>1. Active = {}
    BY DEF Init, NoRow, Active
  <2> QED BY <2>1, FS_EmptySet, BoundsAssumption DEF QueueBounded, Active
<1>2. ASSUME TypeOK, QueueBounded, NoNewRow
      PROVE  QueueBounded'
  <2>1. Active' \subseteq Active
    BY <1>2, MovedRowFacts DEF Active, NoNewRow, RowKept
  <2>2. Cardinality(Active') \in Nat /\ Cardinality(Active) \in Nat
        /\ Cardinality(Active') <= Cardinality(Active)
    BY <2>1, ShrinksOrStays DEF Active
  <2> QED BY <1>2, <2>2, BoundsAssumption DEF QueueBounded, Active
<1>3. ASSUME TypeOK, NEW u \in Tasks, NEW s \in Stamps,
             NEW e \in (s + 1)..(s + MaxTtl), Submit(u, s, e)
      PROVE  QueueBounded'
  <2>1. Active' \subseteq Active \cup {u}
    BY <1>3 DEF Active, Submit, TypeOK
  <2>2. Cardinality(Active') \in Nat /\ Cardinality(Active) \in Nat
        /\ Cardinality(Active') <= Cardinality(Active) + 1
    BY <2>1, GrowsByOne DEF Active
  <2> QED BY <1>3, <2>2, BoundsAssumption DEF QueueBounded, Active, Submit
<1>4. TypeOK /\ QueueBounded /\ [Next]_vars => QueueBounded'
  BY <1>2, <1>3, StepKinds DEF SomeSubmit
<1> QED BY <1>1, <1>4, TypeCorrect, PTL DEF Spec

\* No window of RateWindow seconds sees more than max_submissions_per_minute
\* acceptances of one tenant, in whatever order stale stamps commit.
THEOREM RateStaysLimited == Spec => []RateLimited
<1>1. Init => RateLimited
  BY DEF Init, NoRow, RateLimited
<1>2. ASSUME TypeOK, RateLimited, NoNewRow
      PROVE  RateLimited'
  <2>1. ASSUME NEW t \in Tasks, tasks'[t].state # "ABSENT"
        PROVE  Cardinality(InWindow(TenantOf[t], tasks[t].accepted_at)') <= MaxPerWindow
    <3> DEFINE A == InWindow(TenantOf[t], tasks[t].accepted_at)
    <3>1. \A u \in Tasks : /\ tasks'[u].accepted_at = tasks[u].accepted_at
                           /\ tasks'[u].state # "ABSENT" => tasks[u].state # "ABSENT"
      BY <1>2, MovedRowFacts DEF NoNewRow, RowKept
    <3>2. A' \subseteq A
      BY <3>1 DEF InWindow
    <3>3. Cardinality(A) <= MaxPerWindow
      BY <1>2, <2>1, <3>1 DEF RateLimited
    <3>4. /\ Cardinality(A) \in Nat /\ Cardinality(A') \in Nat
          /\ Cardinality(A') <= Cardinality(A)
      BY <3>2, ShrinksOrStays DEF InWindow
    <3> QED BY <3>3, <3>4, BoundsAssumption
  <2> QED BY <1>2, <2>1, MovedRowFacts DEF RateLimited, NoNewRow, RowKept
<1>3. ASSUME TypeOK, RateLimited, NEW u \in Tasks, NEW s \in Stamps,
             NEW e \in (s + 1)..(s + MaxTtl), Submit(u, s, e),
             NEW t \in Tasks, tasks'[t].state # "ABSENT"
      PROVE  Cardinality(InWindow(TenantOf[t], tasks[t].accepted_at)') <= MaxPerWindow
  <2> DEFINE A == InWindow(TenantOf[t], tasks[t].accepted_at)
  <2> DEFINE a == tasks'[t].accepted_at
  <2>0. s \in Nat /\ e \in Nat /\ RateWindow \in Nat /\ MaxPerWindow \in Nat
    BY <1>3, StampType, BoundsAssumption
  <2>1. /\ tasks'[u] = AcceptedRow(s, e)
        /\ \A v \in Tasks \ {u} : tasks'[v] = tasks[v]
        /\ \A v \in Tasks : tasks[v] \in Row
        /\ tasks[u].state = "ABSENT"
    BY <1>3 DEF Submit, TypeOK
  <2>2. tasks'[u].accepted_at = s
    BY <2>0, <2>1, AcceptedRowType
  <2>3. \A v \in Tasks : tasks'[v].accepted_at \in Nat
    BY <2>0, <2>1, <2>2 DEF Row
  <2>4. CASE u \notin A'
    <3>1. t # u
      BY <1>3, <2>0, <2>3, <2>4 DEF InWindow
    <3>2. A' \subseteq A
      BY <2>1, <2>4, <3>1 DEF InWindow
    <3>3. Cardinality(A) <= MaxPerWindow
      BY <1>3, <2>1, <3>1 DEF RateLimited
    <3>4. /\ Cardinality(A) \in Nat /\ Cardinality(A') \in Nat
          /\ Cardinality(A') <= Cardinality(A)
      BY <3>2, ShrinksOrStays DEF InWindow
    <3> QED BY <2>0, <3>3, <3>4
  <2>5. CASE u \in A'
    <3> DEFINE R == Recent(TenantOf[u], s)
    <3>1. TenantOf[u] = TenantOf[t] /\ s \in a..(a + RateWindow)
      BY <2>2, <2>5 DEF InWindow
    <3>2. ASSUME NEW v \in A', v # u
          PROVE  v \in R
      <4>1. /\ v \in Tasks /\ tasks'[v] = tasks[v] /\ tasks[v].state # "ABSENT"
            /\ TenantOf[v] = TenantOf[t] /\ tasks[v].accepted_at \in a..(a + RateWindow)
        BY <2>1, <3>2 DEF InWindow
      <4>2. tasks[v].accepted_at >= s - RateWindow
        BY <2>0, <2>3, <3>1, <4>1
      <4> QED BY <3>1, <4>1, <4>2 DEF Recent
    <3>3. A' \subseteq R \cup {u}
      BY <3>2
    <3>4. /\ Cardinality(R) \in Nat /\ Cardinality(A') \in Nat
          /\ Cardinality(A') <= Cardinality(R) + 1
      <4>1. R \in SUBSET Tasks /\ A' \in SUBSET Tasks
        BY DEF Recent, InWindow
      <4> QED BY <3>3, <4>1, GrowsByOne
    <3>5. Cardinality(R) < MaxPerWindow
      BY <1>3 DEF Submit
    <3> QED BY <2>0, <3>4, <3>5
  <2> QED BY <2>4, <2>5
<1>4. TypeOK /\ RateLimited /\ [Next]_vars => RateLimited'
  <2>1. ASSUME TypeOK, RateLimited, SomeSubmit
        PROVE  RateLimited'
    BY <1>3, <2>1 DEF SomeSubmit, RateLimited
  <2> QED BY <1>2, <2>1, StepKinds
<1> QED BY <1>1, <1>4, TypeCorrect, PTL DEF Spec


-----------------------------------------------------------------------------
(* Refinement of the delivery promise *)

LEMMA StatusOfFacts ==
  /\ StatusOf("ABSENT") = "absent" /\ StatusOf("PENDING") = "waiting"
  /\ StatusOf("LEASED") = "leased" /\ StatusOf("ACKED") = "acked"
  /\ StatusOf("HOLD") = "held"
BY DEF StatusOf

\* The delivery step of one row, from one state and count to the next.
DeliveryStep(st, n, st2, n2) ==
  \/ st = "ABSENT" /\ st2 = "PENDING" /\ n2 = n
  \/ st \in {"PENDING", "LEASED"} /\ n < MaxAttempts /\ st2 = "LEASED" /\ n2 = n + 1
  \/ st = "LEASED" /\ n < MaxAttempts /\ st2 = "PENDING" /\ n2 = n
  \/ st = "LEASED" /\ st2 = "ACKED" /\ n2 = n
  \/ st \in {"PENDING", "LEASED"} /\ st2 = "HOLD" /\ n2 = n
  \/ st2 = st /\ n2 = n

LEMMA RowStepDelivers ==
  ASSUME TypeOK, RowsSound, NEW t \in Tasks, NEW s \in Stamps, RowStep(t, s)
  PROVE  DeliveryStep(tasks[t].state, tasks[t].attempt_count,
                      tasks'[t].state, tasks'[t].attempt_count)
<1> DEFINE r == tasks[t]
<1>0. /\ r \in Row /\ s \in Nat /\ RowSound(r) /\ r.state \in States
      /\ r.attempt_count \in Nat
  BY StampType DEF TypeOK, RowsSound, Row
<1>1. CASE RowSubmitted(t, s)
  <2>1. PICK e \in (s + 1)..(s + MaxTtl) : tasks'[t] = AcceptedRow(s, e)
    BY <1>1 DEF RowSubmitted
  <2>2. e \in Nat
    BY <1>0, BoundsAssumption
  <2> QED
    BY <1>0, <1>1, <2>1, <2>2, AcceptedRowType
    DEF RowSubmitted, RowSound, DeliveryStep
<1>2. CASE RowSwept(t, s)
  <2> DEFINE q == SweptRow(r, s)
  <2>1. /\ tasks'[t] = q /\ q \in Row /\ q.attempt_count = r.attempt_count
        /\ q.state \in States
    BY <1>0, <1>2, SweptRowType DEF RowSwept, Row
  <2>2. DeliveryStep(r.state, r.attempt_count, q.state, q.attempt_count)
    BY <1>0, <2>1, SweptRowFacts DEF DeliveryStep, States, Settled
  <2> QED BY <2>1, <2>2
<1>3. CASE RowLeased(t, s)
  <2> DEFINE q == SweptRow(r, s)
  <2>1. /\ q \in Row /\ q.attempt_count = r.attempt_count /\ q.state = "PENDING"
    BY <1>0, <1>3, SweptRowType DEF RowLeased
  <2>2. r.state \in {"PENDING", "LEASED"} /\ r.attempt_count < MaxAttempts
    BY <1>0, <2>1, SweptRowFacts DEF RowSound
  <2>3. /\ tasks'[t].state = "LEASED"
        /\ tasks'[t].attempt_count = r.attempt_count + 1
    <3>1. PICK d \in LeaseDurations : tasks'[t] = LeasedRow(q, s, d)
      BY <1>3 DEF RowLeased
    <3> HIDE DEF q
    <3>2. /\ LeasedRow(q, s, d).state = "LEASED"
          /\ LeasedRow(q, s, d).attempt_count = q.attempt_count + 1
      BY <1>0, <2>1, LeasedRowType
    <3> QED BY <2>1, <3>1, <3>2
  <2> QED BY <2>2, <2>3 DEF DeliveryStep
<1>4. CASE RowAcked(t, s)
  BY <1>0, <1>4, ReleasedType DEF RowAcked, DeliveryStep, States, Settled
<1>5. CASE RowNacked(t, s)
  <2>1. PICK p \in BOOLEAN :
          tasks'[t] = Released(tasks[t], NackedState(tasks[t], s, p))
    BY <1>5 DEF RowNacked
  <2>2. /\ NackedState(tasks[t], s, p) \in {"HOLD", "PENDING"}
        /\ NackedState(tasks[t], s, p) = "PENDING" => r.attempt_count < MaxAttempts
    BY <1>0, BoundsAssumption DEF NackedState
  <2> QED
    BY <1>0, <1>5, <2>1, <2>2, ReleasedType
    DEF RowNacked, DeliveryStep, States, Settled
<1> QED BY <1>1, <1>2, <1>3, <1>4, <1>5 DEF RowStep, RowMoved

LEMMA DeliveryStepMaps ==
  ASSUME NEW t \in Tasks,
         tasks[t].state \in States, tasks'[t].state \in States,
         DeliveryStep(tasks[t].state, tasks[t].attempt_count,
                      tasks'[t].state, tasks'[t].attempt_count)
  PROVE  Delivery!TaskStep(t)
BY StatusOfFacts
DEF DeliveryStep, States, Settled, Delivery!TaskStep, Delivery!Accept,
    Delivery!Lease, Delivery!Requeue, Delivery!Acknowledge, Delivery!Hold,
    Delivery!Stay, Delivery!Becomes

\* The queue delivers every task as TaskDelivery promises.
THEOREM QueueDelivers == Spec => DeliversAsPromised
<1>1. Init => Delivery!DInit
  BY StatusOfFacts DEF Init, NoRow, Delivery!DInit
<1>2. TypeOK /\ TypeOK' /\ RowsSound /\ RowsSound' /\ [Next]_vars
        => [Delivery!DNext]_(Delivery!dvars)
  <2> SUFFICES ASSUME TypeOK, TypeOK', RowsSound, RowsSound', [Next]_vars
               PROVE  Delivery!DNext
    OBVIOUS
  <2>1. ASSUME NEW t \in Tasks
        PROVE  /\ StatusOf(tasks'[t].state) \in Delivery!Status
               /\ tasks'[t].attempt_count \in 0..MaxAttempts
    <3>1. /\ tasks'[t].state \in States /\ tasks'[t].attempt_count \in Nat
          /\ tasks'[t].attempt_count <= MaxAttempts
      BY DEF TypeOK, Row, RowsSound, RowSound
    <3> QED BY <3>1, StatusOfFacts, BoundsAssumption DEF States, Settled, Delivery!Status
  <2>2. ASSUME NEW t \in Tasks
        PROVE  Delivery!TaskStep(t)
    <3>1. tasks[t].state \in States /\ tasks'[t].state \in States
      BY DEF TypeOK, Row
    <3>2. DeliveryStep(tasks[t].state, tasks[t].attempt_count,
                       tasks'[t].state, tasks'[t].attempt_count)
      BY StepByRow, RowStepDelivers DEF RowKept, DeliveryStep
    <3> QED BY <3>1, <3>2, DeliveryStepMaps
  <2> QED BY <2>1, <2>2 DEF Delivery!DNext
<1> QED
  BY <1>1, <1>2, TypeCorrect, RowsSoundInvariant, PTL
  DEF Spec, DeliversAsPromised, Delivery!DSpec

=============================================================================
